# TLA+ models of the BBB Linux-programming repository

The repository is a course in Linux programming: short programs in C for files,
processes, threads, signals, pipes, sockets, shared memory, semaphores, message
queues and kernel modules, and two larger programs built from them, the
two-dish kitchen (`producer_consumer/`) and the temperature server
(`Server_client/`). Paths below are relative to `src/`.

The project models the two larger programs in full, because they are where the
course's parts meet: shared memory with semaphores, forks and signals in one,
sockets, `select`, a pipe and a second process in the other. Of the exercises
and lessons it models those in which threads, processes or callbacks meet: a
worker thread driven by signals, the pipe and FIFO programs, the lessons on mutexes,
condition variables and semaphores, three socket lessons and a `select` server,
the programs that meet at a named kernel object, and the kernel modules up to
the character device. Section 12 lists what is left out.

| file | what it is |
|---|---|
| `Kitchen.tla` | the kitchen: parent, five children, two dishes, six semaphores, signals |
| `Dish.tla` | what a dish, or a bounded buffer, promises to those who share it (abstract) |
| `KitchenProofs.tla` | theorems about `Kitchen` with TLAPS proofs |
| `MCKitchen.tla`, `MCKitchen_*.cfg` | instances of `Kitchen` for TLC |
| `SensorServer.tla` | the temperature server: clients, parent, pipe, child, files |
| `MCSensorServer.tla`, `.cfg` | the instance of `SensorServer` for TLC |
| `SensorServerProofs.tla` | theorems about `SensorServer` |
| `PausedWorker.tla` | a worker thread that signals pause, resume and stop |
| `FifoExercise.tla`, `FifoExercise_reply.cfg` | four programs with a pipe or a FIFO between two processes |
| `MCExercises.tla`, `.cfg` | the instance of these two for TLC: one of them is run |
| `ExerciseProofs.tla` | theorems about `PausedWorker` and `FifoExercise` |
| `ThreadLessons.tla`, `.cfg` | six lessons on threads and semaphores |
| `ThreadLessonsProofs.tla` | theorems about `ThreadLessons` |
| `SelectServer.tla`, `.cfg`, `SelectServer_disconnect.cfg` | a `select` server that adds a connection to the wrong set |
| `SelectServerProofs.tla` | theorems about `SelectServer` |
| `SocketLessons.tla`, `.cfg` | a chat, a server for one client, a server with a thread per client |
| `SocketLessonsProofs.tla` | theorems about the chat of `SocketLessons` |
| `NamedObjects.tla`, `.cfg` | programs that meet at a queue, a segment, a shared file, a semaphore |
| `NamedObjectsProofs.tla` | theorems about `NamedObjects` |
| `CharDevice.tla`, `.cfg` | the kernel modules, from a device number to a buffer that programs share |
| `CharDeviceProofs.tla` | theorems about `CharDevice` |
| `PROJECT.json` | components, runs, mutants, map to the source, hazards, theorems |

## 1. Inventory

### Kitchen (`producer_consumer/main.c`)

*State.* In shared anonymous mappings: two arrays of `BUFFER_SIZE` slots, 0 for
a free one, and `mutex`, `empty`, `full` for each dish. Per process: the flag
`interrupted` and the five pid variables. The kernel adds pending signals,
ended children that nobody has waited for, and semaphore queues.

*Operations.* `producer_*_Process`, `consumer_*_Process`, `write_to_buffer`,
`read_from_buffer`, `handle_signal`, `wait_for_children`, `clean_up`, and the
parent's loop in `main`.

*Interaction.* Only through the shared memory, the semaphores and signals. The
producer of the Non_Vegan dish fills its own dish but uses the *Vegan*
semaphores (lines 222-252), so `full_Non_Vegan` is never posted.

*Hard.* Every order of the semaphore calls of five processes; a child that
sleeps in `sem_wait` with a mutex in its hand; a time limit racing a post;
SIGTERM between a wait and its post; SIGINT between two forks; a fork that
fails and leaves -1 as the pid that `kill` gets later.

*Correct if* one process at a time is at a dish's slots, tokens are neither
gained nor lost while the program serves, no meal is dropped, the program ends
after SIGINT and leaves no child behind.

### Temperature server (`Server_client/src/server.c`, clients `client_test_*.c`)

*State.* Parent: `client_socket[MAX_CLIENTS]`, the descriptor set, the read
buffer. Between the processes: a pipe. Child: four local variables and a linked
list. On disk: `client_<id>.txt`, `Supervisor.txt`, `Unusual.txt`.

*Operations.* `handle_new_connection`, `handle_client_data`, `parsePhrase`, the
list functions, the loop and the end of `main`; the clients' connect, sends and
close.

*Interaction.* Clients to parent over TCP, parent to child over the pipe as
four values per reading without lengths or markers, both to the disk. The
parent leaves its loop after three seconds without activity, closes its end of
the pipe and waits for the child.

*Hard.* Readings that arrive together (TCP has no message boundaries); a pipe
that fills inside a record; the parent's end between two of the four writes; an
`fopen` that fails in either process; slots that are reused while older records
are under way; a table that is full.

*Correct if* the file of a client is a prefix of what the client sent whatever
happens, complete if the client disconnected; the two processes never wait for
each other; the table and the Supervisor log agree.

### Lessons and exercises

| directory | state and operations | hard behaviour, and what makes it correct |
|---|---|---|
| `00_intro`, `01_makefile` | none | none |
| `02_filesystem` | a file, its position, `flock`/`fcntl` locks of two processes | locks are per open file or per process; a try-lock that fails. Correct if a write happens under its lock |
| `03_process` | process tree; `fork`, `exec`, `wait`, a SIGCHLD handler | one SIGCHLD for several ended children. Correct if none stays a zombie |
| `04_thread` | counters, a mutex, a condition variable, a worker paused and stopped by signals (`6_bvn`) | lost wake-up (`4_condition_variable`), second lock of a default mutex (`3_Mutex`), a mutex taken in a handler (`6_bvn`) |
| `05_signal` | handler flags, a blocked mask | signals that merge while blocked |
| `06_pipe_fifo` | pipe and FIFO contents; a parent and its child, a producer and a consumer, the exercise `4_bvn` (SIGUSR1 and a FIFO between parent and child) | an order that only `sleep` enforces, a FIFO that is opened anew for each message, a child that ends before its parent's handler is there. Correct if every message is printed once and nobody waits for somebody who has gone |
| `07_Socket` | datagram and stream samples, a chat, a thread per client, a `select` server (`6_bvn`) | `FD_SET` into the copy of the set, turn-taking without end-of-stream, messages cut by TCP, a `pthread_create` whose failure goes unseen. Correct if the two sides never wait for each other and every client is answered |
| `08_Shared_memory` | a System V segment and two `mmap` demonstrations | one program removes the object while the other is on its way to it; a mapping that is longer than the object |
| `09_semaphore` | a named semaphore, a bounded buffer, two samples | a producer that exits with the mutex (`4_sample`), products that are lost (`3_sample`), a named semaphore that outlives a killed holder |
| `10_message_queues` | System V and POSIX queues, one producer and two consumers | who has its message removes the queue for everybody. Correct if only that loses a message |
| `11_linux_kernel_module` | what a load makes (region, cdev, class, device, buffer), `mdev.size`, each file's position | unlocked read and write, an unsigned size comparison, a device that is open to programs before its buffer exists, error paths and an exit that take back less than was done |

`Server_client/main` holds older copies of the clients and a stub, and
`Server_client/bin/server.h` is included by nothing.
The status of each part is in `PROJECT.json` under `components`, and the
hazards, each at its line and with the properties that watch it, under
`hazards`.

## 2. Plan

Order: what the two large programs do came first, then the exercises, then the
lessons whose programs talk to each other.

Done:

1. `Kitchen`, the abstract specification `Dish` it implements, `KitchenProofs`.
2. `SensorServer`, `SensorServerProofs`.
3. `PausedWorker`, `ExerciseProofs`: `04_thread/6_bvn`.
4. `FifoExercise`, `ExerciseProofs`: `06_pipe_fifo/2_related_pipe`, `3_named_pipe`,
   `4_bvn` and its `vdvd` variant.
5. `ThreadLessons`, `ThreadLessonsProofs`: the lessons of `04_thread` and the
   producers and consumers of `09_semaphore`.
6. `SelectServer`, `SelectServerProofs`: `07_Socket/6_bvn`.
7. `CharDevice`, `CharDeviceProofs`: `11_linux_kernel_module/2` to `5`.
8. `SocketLessons`, `SocketLessonsProofs`: `07_Socket/4_ipv4_stream`,
   `5_sample/1_TPC_Basic` and `5_sample/2_Mult_TPC_Server`.
9. `NamedObjects`, `NamedObjectsProofs`: `10_message_queues`, `08_Shared_memory` and
   `09_semaphore/1_named_semaphore`.

Every safety invariant the runs check, the refinement of `Dish` and every action
property is a theorem (sections 3 to 11). The liveness properties stay with TLC,
but where one of them can be read as "nothing bad is reached, and something can
always happen", the first half is a theorem too: what the parent's `wait` finds,
that two blocked sides do not wait for each other, what is in a file once a process
has ended. The second half needs fairness and `ENABLED`; in the theorems the guards
are written out instead (`CanCall`, `ParentBlocked`).

## 3. Kitchen

A step is one semaphore call, one slot search, one slot assignment, one system
call of the parent, or the delivery of one signal. The search and the
assignment of a slot are separate steps, so that a broken mutual exclusion
shows: `scan` notes the slot, `store`/`clear` use it.

| model | code |
|---|---|
| `buffer[d]` | the slots of dish `d` that are not 0; which recipe is in a slot only changes a printed line |
| `mutex`, `empty`, `full` | the values of the six semaphores; a waiter is a process whose guard is false |
| `pc` | where each process is; `unborn`, `refused` (fork failed), `zombie`, `reaped` are the kernel's states of a child |
| `interrupted[p]` | each process's own copy of the flag; `Fork` copies the parent's |
| `term` | SIGTERM sent and not yet delivered |
| `turn` | the dish `consumer_Both` tries, first Vegan, then Non_Vegan |
| `Produce(c, s, d)` | lines 191-257: fills dish `d` under the semaphores of dish `s` |
| `Consume(c, d)` | lines 259-324: mutex first, then `full` |
| `TimeOut` | `sem_timedwait` returned -1: possible exactly when the value is 0 at that moment |
| `Kill` | lines 135-139, with `kill(-1, SIGTERM)` for a refused fork |
| `Die` | the default action of SIGTERM, external: wherever the child is |
| `handle_signal` | lines 148-151. `signal()` installs the handler with SA_RESTART, so a blocked call goes on waiting |

`sleep` delays and changes nothing; the scheduler may delay a process anywhere
anyway. `kill(-1)` also reaches processes of the user that do not belong to the
program; those are not modelled. `munmap` in `clean_up` takes away the parent's
view only.

### Runs

*kitchen_work* - two slots per dish, every interleaving. Nobody signals the
parent, so it never kills; `consumer_Vegan` may get a SIGINT of its own and
exit. Two slots are the least for which "the first free
slot" and "free" differ, and one producer can overtake another between its
search and its assignment; each semaphore takes the values 0, 1 and 2.
- `DishExclusion`: holds, although the Non_Vegan dish is filled under
  `mutex_Vegan` and would be emptied under `mutex_Non_Vegan`. It holds because
  nobody ever gets past `full_Non_Vegan`: were the producer to post it, as its
  consumer expects, the two sides would be at the slots under different mutexes.
  The mutant starts the mutexes at 2.
- `TokenConservation`: `empty + full +` what the users of a dish carry is
  `BUFFER_SIZE` until the parent kills.
- `VeganMealStored`: the Vegan producer always finds a free slot, though the
  other producer spends the same tokens.
- `StallHasOneCause`: `consumer_Vegan` takes the mutex before it waits for a
  meal. That is the only way it and both producers get stuck together, whatever
  `consumer_Both` does; that it is for good is proved (`StallTheorem`).
- `ImplementsDish`: the Vegan dish with its semaphores refines `Dish`.

*kitchen_shutdown* - one slot, SIGINT to the parent at any moment (also while
it forks, so that later children inherit the flag), and the fork of
`producer_Non_Vegan` may be refused. `ShutdownCompletes` under
`ShutdownFairness`, `NoOrphans`. One slot is enough:
the properties are about who is alive and who is waited for, and with one slot
each semaphore blocks on both sides. The refused child stands for any of
the five; it is not the last, so `kill(-1)` comes before other kills.

*kitchen_nonvegan* (violation) - "take meal Non vegan from buffer non vegan"
(line 270) is never reached: nobody posts the semaphore, even when every
process is scheduled fairly.

No run is about the status lines 129-131: "Items in Vegan dish: %d/%d" prints
`full_Vegan`, which also counts the meals put in the other dish.

### Fairness

`ShutdownFairness`: weak fairness of the parent and of the delivery of a
pending SIGTERM; the kernel schedules a runnable process and delivers a
pending signal to it. `ChildFairness` adds weak fairness for each child. Weak
only: POSIX promises no order among the waiters of a semaphore, so a child may
be overtaken for ever. Nothing is assumed about SIGINT; `ShutdownCompletes` is
conditional on it.

### What is proved

For every `BufferSize`, every set of refused forks and every set of processes
that receive SIGINT, `KitchenProofs` proves

- `TypeCorrectness`: semaphore values never leave `Nat`;
- `ExclusionTheorem`: `DishExclusion`;
- `ConservationTheorem`: `TokenConservation`;
- `OneCauseTheorem`: `StallHasOneCause`;
- `StallTheorem`: `StallIsPermanent`. Once `consumer_Vegan` waits for a meal
  with the mutex in its hand, only its own SIGTERM ends the wait: whoever could
  post `full_Vegan` needs that mutex first;
- `NoOrphansTheorem`: `NoOrphans`;
- `VeganMealStoredTheorem`: `VeganMealStored`;
- `DishTheorem`: `ImplementsDish`;
- `WaitEndsTheorem`: each `wait(NULL)` of the parent finds a zombie, or no child at
  all, or a child whose SIGTERM is pending. It is what `ShutdownCompletes` needs of
  every state: children that block each other for ever still die;
- `NonVeganStaysTheorem`: no step takes a meal out of the Non_Vegan dish, whatever
  the sizes. This is why `NonVeganMealTaken` is violated.

The assumptions are those of `Kitchen`: `BufferSize` is a positive number and
the two bounds are sets of children and processes.

None of them is inductive alone. `IInv` adds to the first two

- `LabelInv`: each process is at a label of its own program;
- `PhaseInv`: no child and no token before the semaphores exist, children in fork
  order, no SIGTERM before the kills;
- `MutexInv`: value of a mutex plus holders is at most 1 ("at most" because a
  killed holder takes it along);
- `NonVeganInv`: `full_Non_Vegan` is 0, `consumer_Non_Vegan` never gets past
  it, and `consumer_Both` is on the Non_Vegan dish only while it waits.

`MutexInv` gives exclusion for the Vegan dish. For the Non_Vegan dish the
mutexes say nothing, because filler and takers use different ones;
`NonVeganInv` does: there is no taker. `PhaseInv` is what makes "until the
kills" inductive in `TokenConservation`: a SIGTERM is the only step that loses
a token. The other properties need a conjunct each, beside `IInv`:

- `ExactInv`: until the kills a mutex is exactly in one hand or free. A stall is a
  mutex that is gone, and only `consumer_Vegan` can sleep with it.
- `WaitInv`: the parent's wait counts the reaped children, or none is left. It
  waits five times for five children, so after the last one all are gone.
- `MealInv`: meals in the slots plus tokens that stand for a free slot are at most
  `BufferSize`; not equal, because the other producer spends tokens without
  filling a Vegan slot and a killed child's token is lost. What a search has found is
  still so when the slot is used, by exclusion.
- `DoomInv`: the parent forks and kills in one order, so the children before its
  `step` are born, and later doomed. A child that is alive when the parent waits
  has its SIGTERM pending.

For the refinement, `VisitorOfVegan` says that there is one visitor of the dish at
a time, `VisitStep` maps each of a visitor's calls to a step of `Dish`, and
`OthersKeepVisit` maps everything else to a stutter. The proofs have one lemma per
child, one for the parent, one for signals; under each, one step per conjunct.

### Only model-checked

`ShutdownCompletes` and the violation `NonVeganMealTaken`: both are liveness. Their
causes are theorems, as said above.

## 4. Temperature server

A step is one system call that can block, be seen by another process, or fail.

| model | code |
|---|---|
| `conn`, `sent` | a client: connect, `Readings` sends, close |
| `wire`, `backlog` | the server's receive buffers and the connections not yet accepted (kernel) |
| `client_socket`, `readfds`, `slot`, `buffer` | the table, the select result, the loop index, the read buffer |
| `pipe`, `writers` | the pipe's values and who holds its write end |
| `record`, `head` | the child's local variables and its linked list |
| `files`, `supervisor`, `unusual` | the three kinds of file |
| `ReadData` | `read` on a socket: any non-empty prefix of what has arrived, in whole readings |
| `parsePhrase` | one reading parses; several do not fit `time[15]` and the stack protector ends the process when the function returns, after the logging |
| `WriteRecord` | the four writes to the pipe; `ID` is the slot index (line 207), not the number the client sent |
| `ReadRecord` | the four reads; only the first looks at its result |
| `AppendRecord` | `add_to_linked_list`, `write_linked_list_to_file`, `clear_linked_list` |
| `LogFails`, `AppendFails`, `StartupFails` | `handle_error` |
| `KillParent` | the parent is ended from outside |

A client's readings together are about 210 bytes, less than a segment and than
the 1024-byte buffer, and each is sent by one call; hence whole readings. The
server has no clock: the select timeout can happen whenever nothing is
readable, which includes every schedule of the real three seconds. A `read` of a
socket that returns -1 (which line 200 would take for an index) is not in the
model: nothing resets a connection here, as the server sends its clients nothing.

### Runs

*server* - two clients with three readings, a table of two, a pipe of three
values; the parent may be killed between any two steps and any `fopen` may
fail. The pipe is smaller than a record, so it fills inside one; three
readings leave two after a coalesced pair or one before and one after a torn
record; a slot is reused by the second client.
- `FilesArePrefixes`: each file is a prefix of what its client sent. Killing the
  parent spoils at most one line over all the files: the child completes the
  torn record with old values, once.
- `PipeFraming`: the next value in the pipe is the one the child expects.
- `ReturnsAfterDrain`: when `main` returns, what was read off a socket is in a
  file.
- `DisconnectedIsRecorded`: a client whose Disconnect is logged gets its
  complete file, even if the parent aborts right after.
- `LogsAgree`: Supervisor log, Unusual log, table and files, written by two
  processes that may both fail, agree.
- `TimeoutMeansIdle`: no reading lies unread at the timeout, as long as the
  table has room.
- `EverybodyEnds`: neither process waits for the other for ever, also when one
  of them fails.

What the last but one does not say: a connection that finds the table full (line
163) is forgotten, and "No activity within 3 seconds" (line 328) is then printed
over its unread readings. A third client makes the liveness properties too
expensive, so no run shows this here; the `select` server has the same table.

### Fairness

Weak fairness of the parent and of the child: each is a process that the kernel
runs when it can. A client may stop anywhere for ever, the server then times
out. Neither a failing `fopen` nor the parent's being killed is under fairness.

### What is proved

`SensorServerProofs`, for every set of clients (each a positive number), every
number of readings, table size, pipe capacity, set of unusual readings, and with
or without failures: `TypeOK`, `PipeFraming`, `FilesArePrefixes`,
`ReturnsAfterDrain`, `LogsAgree`. `TimeoutTheorem` proves `TimeoutMeansIdle` if the
clients are no more than the table's slots; without that it is false, as said above.

The invariant looks at one stream: what the child has read of the current record,
followed by the pipe. `Cell(q, r)` is value `r` of record `q` of that stream,
`Row(q)` its reading. `IInv` consists of

- `WireInv`: sockets and read buffer hold consecutive readings, the older ones in
  the buffer;
- `PhaseInv`: who was started, who has ended, who holds the write end of the pipe;
- `StreamInv`: each value is of the kind the child will take it for (`CellsInv`),
  complete records are readings that were passed on and are not yet in a file,
  each after the earlier ones of its client (`RowsInv`), the last reading passed
  on is in the stream or in the file (`PassedInv`), and a parent that was not
  killed is inside the last record at the value that is still missing
  (`WriterInv`);
- `FilesInv`: the files are faithful and the stream is in order; or the child has
  failed; or the parent was killed inside a record and the pipe's end has been
  reached (`CutShort`), in which case at most one line is not faithful
  (`OneSpoiled`). These are stages: no step leads back.

`PipeFraming` is `CellsInv` read off by position. The proof goes by the parent's
writes (the stream gets longer), the child's reads (the stream stays the same, since
what leaves the pipe enters the record) and the child's append (the stream
loses its first record). The capacity of the pipe plays no part: when
the parent has to wait in the middle of a record, the stream only grows later. `LogsAgree` needs two more: `LoggedInv`, an unusual
reading is logged before it goes anywhere, and `TableInv`, a client is in the
backlog before its Connect line and then in one slot until its Disconnect line.
`TimeoutMeansIdle` needs `ServedInv`, no client falls out between backlog, table
and Disconnect line (the pigeonhole principle gives the free slot at `accept`), and
`ReadyInv`, a socket that `select` reported and the round has not come to is
still readable. Hence a read that finds nothing means that the client has closed,
also when other slots were read and freed since `select`.

`DisconnectedIsRecorded` and `EverybodyEnds` are liveness and model-checked. What
can be said of single states is proved, without any room in the table assumed:

- `RecordedTheorem`: when the child exits, the file of a client whose Disconnect
  is logged is complete, also if the parent was killed or failed right after
  the log line. `GoneInv` says that such a client had sent everything and the parent
  had passed all of it on, `RecordedInv` that its last reading is in its file or
  whole in an unbroken stream. The parent logs a Disconnect between two records, so
  what a kill cuts is a later record of somebody else.
- `StandstillTheorem`: parent and child are never both blocked unless both have
  ended. A full pipe finds the child at a read, and `WriteEndInv` says that a parent
  that waits or is gone has closed its write end, so an empty pipe then ends the
  child.

## 5. A worker and its signals (`04_thread/6_bvn`)

A signal handler that takes a mutex may interrupt the code that holds it. The
kernel chooses the thread and the moment; `signal()` blocks only the signal
whose handler runs, so handlers nest up to three deep on one thread.

| model | code |
|---|---|
| `paused`, `stop`, `mutex` | lines 8-12; `mutex` has an owner, because it is a default one |
| `pc` | a thread's place in `main` or `worker_function` |
| `handlers[t]` | the stack of calls of `sig_handler1` on thread `t`, the innermost first |
| `woken` | `pthread_cond_signal` found the worker waiting |
| `Send`, `Deliver` | somebody sends a signal; the kernel runs the handler on a thread (external) |
| `HandlerLock`, `HandlerSet`, `HandlerSignal`, `HandlerUnlock` | lines 17, 18-30, 25 and 31, 33 |
| `TestStop`, `Lock`, `Wait`, `WakeUp`, `Unlock`, `CheckStop` | lines 39, 41, 42-44, 44, 46, 48 |

`pthread_cond_wait` releases the mutex and starts to wait in one step. Spurious
wake-ups are left out: the loop tests the flags again, so they would add
nothing but ways out of a wait. A handler that interrupts the wait runs without
the mutex and the wait goes on after it. Signals that arrive after the join are
left out: nothing they change is read again.

*exercises* - one instance (`MCExercises`) for this program and those of section 6:
`exercise` is chosen at the start, the module that is not chosen stays in an
initial state, and the fairness is that of the one that is run, so the behaviours
are those of the two side by side. Here: four signals, at any moment, each
delivered to either thread. Three is the deepest nesting; the fourth comes while
three handlers are stacked, or after one has returned.
- `NoLostWakeUp`: a waiting worker that is to go on has been signalled, or a
  handler is about to signal it.
- `SelfLockNeedsHolder`: a handler locks itself out only over the worker's
  critical section or over another handler. A signal that finds `main` in its
  join and no handler running is harmless.
- `SelfLockIsPermanent`: then no further signal gets the program out.
- `StopEnds`: otherwise the program ends after SIGINT, also when SIGUSR1 pauses
  it again afterwards.

*Fairness*: weak, for each thread's code, each thread's handlers and the
delivery of each pending signal: two threads and a kernel that schedules them.
No signal need ever be sent. Deadlock is not checked because the program ends,
and because it does lock itself out; `StopEnds` says when.

*Proved* in `ExerciseProofs`, for every `MaxSignals`: `TypeOK`,
`NoLostWakeUp`, `SelfLockNeedsHolder`, `SelfLockIsPermanent`. None follows from
the code of one thread, because a handler unlocks without asking who locked.
The invariant adds

- `OwnerInv`: a thread owns the mutex exactly if one of its positions, its own
  or that of a stacked handler, is between a lock and an unlock;
- `OnceInv`: there is one such position per thread, so an unlock never releases
  what a handler further down still needs;
- `BornInv`: the worker does nothing before `main` created it.

The stack is a sequence, and three lemmas (`Push`, `Pop`, `Move`) say what a
delivery, a return and a step of a handler do to it. `StopEnds` is only
model-checked.

## 6. Pipe and FIFO programs (`06_pipe_fifo`)

Four programs in which two processes talk: `2_related_pipe`, a parent that writes
to its child; `3_named_pipe`, a producer and a consumer that open the FIFO anew
for each message; and two programs for one exercise, `4_bvn/main.c` ("bvn") and
`4_bvn/vdvd/main.c`. They make the same calls in different orders, so a program
is a table (`Code`) with one row per thread of control, and each kind of call is
one action. The two of `3_named_pipe` repeat their rows.

| model | code |
|---|---|
| `place` | where each thread is in its row; `pc` in the other modules |
| `fifo`, `ends`, `met`, `data` | the FIFO in the file system, open ends of it or of the pipe, the rendezvous of the two `open` calls, the contents |
| `Open`, `Opened` | `open` begins, and returns once the other side is there |
| `Write` | SIGPIPE, which ends the writer's process, if no reader is left |
| `Read` | the child of `2_related_pipe` reads message by message, a FIFO's reader all there is; the consumer prints the first message in its buffer, which is the one before if `read` returned 0 |
| `Close` | what is left in a FIFO that nobody has open is gone |
| `CloseCopy` | the child's copy of the pipe's write end |
| `CreateThread`, `JoinThread` | `pthread_create`, `pthread_join` |
| `waiting`, `DeliverSignal` | a pending SIGUSR1; the handler prints, in `2_related_pipe` reaps; a process without one ends |
| `Exit` | the child ends; SIGCHLD is lost on a parent without a handler |
| `Mkfifo`, `MkfifoFails` | `bvn` goes on after an error, since it compares the function's address (line 106); `3_named_pipe` is taken to succeed |
| `Type` | the producer's user types a message |
| `written`, `printed`, `overlap` | history: messages written and printed, a FIFO reopened before the other side closed it |

The `sleep` calls promise no order and none is modelled: what holds here holds
however long anything takes. `vdvd` does not look at the result of
`pthread_create`, and its threads are taken to start.

*exercises* (section 5) - here: all four programs, with the FIFO there or not there at the
start, and three messages for `3_named_pipe` (bound `MaxMessages`): enough for
one that is read, one that is thrown away or read together with the next, and a
third that finds what these have left.
- `OneByOne`: `3_named_pipe` prints every message once and its producer survives,
  unless one side opens the FIFO again before the other has closed it. Then it
  does go wrong, and in each of the ways the definition's comment names.
- `MessageArrives`: the exercise's reader, its `open` once returned, gets the
  message, unless SIGUSR1 ends the child first. The child of `2_related_pipe`
  prints three messages, and is reaped although the handler is installed after
  the fork: it waits for the end of the pipe, which comes later.
- `FifoThereInVdvd`: in `vdvd` the FIFO exists at both opens, although both
  processes unlink it.
- `HangsInOpenOnly`: in the exercise both processes end, or one waits for ever in
  `open` for a process that has ended; there is no other standstill, and neither
  SIGUSR1 nor SIGPIPE ends the parent.

*fifo_reply* (violation) - "Untitled Document 1" lines 21-22 expect the parent
to receive the child's SIGUSR1 and print so. In `bvn` the child installs no
handler; the parent's signal may end it before it replies.

*Fairness*: weak, for each thread and each pending signal; failures are under
none, and nobody need type. Deadlock is not checked, as programs end or wait for
their user.

*Proved* in `ExerciseProofs`, for every `MaxMessages` and every choice among the four
programs: `FifoTypeOK`, `OneByOne`, `FifoThereInVdvd`, and two safe halves,

- `MessagesTheorem`: no read of the exercise has seen the end of the FIFO, no signal
  ends the parent, and the child of `2_related_pipe` ends with three messages;
- `StandstillTheorem`: when no thread of the exercise can make its next call and a
  process still runs, one of them is in `open` and its partner will never come.

(`ExerciseProofs` extends `PausedWorker` as well, which is why the names of this
module differ: `place` for `pc`, `FifoInit`, `FifoNext` and so on.) `FifoInv` has one
conjunct per program, by the places of its threads:

- `RelatedInv`: who has which end open follows from the places; three messages are
  written, printed or in the pipe;
- `NamedInv`: as long as neither program has overtaken the other, they are in the
  same round, or the producer is a round ahead and its message is in the FIFO. The
  first step that leaves these cases is the one that sets `overlap`;
- `MeetingInv`, `VdvdInv`, `BvnInv`: a thread past its `open` has met its partner
  there; in `vdvd` each process unlinks only after its own thread has ended, hence
  after both opens; in `bvn` the FIFO is there for both opens or for neither.

`RelatedAt`, `NamedAt`, `VdvdAt` and `BvnAt` read a call back to a place. The two
liveness properties as such are only model-checked.

## 7. Thread and semaphore lessons (`04_thread`, `09_semaphore`)

Six programs whose threads share a counter under one mutex: `3_Mutex`,
`4_condition_variable`, `5_poling`, `2_producer_consumer`, `3_sample`,
`4_sample`. As above, a program is a table of calls, and there is one action
per kind of call; `lesson` is chosen at the start. A thread that is not yet
created is one that has not taken its first step, so the failures of
`pthread_create` and `fork` are not in the model. `5_poling` reads `counter`
without the lock; its Makefile builds without optimisation, so each test reads
memory. A waiter of `4_condition_variable` is woken by a signal only. POSIX also
lets `pthread_cond_wait` return without one, and `main` would then find the
counter at its threshold and go on; what is said below about its missed signal
is what happens as long as no such wake-up comes, and nothing promises one.

*thread_lessons* - the programs' own numbers: a threshold of 5 and a buffer of
10; six products in `3_sample`, where the flag and three products in different
hands are all that can be in use at once (bound `MaxProducts`).
- `SemaphoreCountsThings`: in `2_producer_consumer` the parent's "Items in the
  buffer" is right up to one product on its way in and one on its way out, and
  the buffer never overflows; in `4_sample` the consumers decrement without a
  test, and still the buffer never goes below zero.
- `BothKeepGoing`: neither side of `2_producer_consumer` stops for the other.
- `OneTakerPerProduct`: in `3_sample` a product may be overwritten before it is
  consumed, but none is consumed twice, and an available one is never forgotten.
- `EndsOrStuck`: how each lesson ends or hangs. `3_Mutex` locks a default mutex
  twice; `4_condition_variable` waits without testing first and misses a signal
  that came earlier; in `4_sample` the producer exits with the mutex. The
  polling lesson always returns.

*Fairness*: weak, per thread. It does not give a mutex to a given waiter in the
end, and no property needs that. Deadlock is not checked: programs end and, as
`EndsOrStuck` says, some hang.

*Proved* in `ThreadLessonsProofs`, for every threshold, buffer size and number
of products: `TypeOK`, `SemaphoreCountsThings`, `OneTakerPerProduct`. The
invariant has one conjunct per lesson, by the positions of its threads:

- `BufferInv`: every free place and every thing is in a semaphore or in the hand
  of the thread whose position is between the wait and the post;
- `SampleInv`: an available product has a token, or a thread, on the way to it;
- `LimitInv`: besides the count, the producer is at its end once the buffer has
  reached the limit, and below it before. That is why the unprotected test of
  `buffer` does not matter, and why the last product is never announced.

`BufferAt`, `SampleAt` and `LimitAt` read a call back to the position that makes
it, so each step lemma has one case per kind of call. Neither the mutex nor its
owner occurs in the invariant: the counts hold because each semaphore call moves
exactly one thread, and would hold without the mutex if `counter++` were one
step.

Beyond the counts, the mutex:

- `MutexTheorem`: in each lesson the mutex belongs to the one thread whose position
  is in `Section`, a table of the positions after a lock and before an unlock or
  wait. The producer of `4_sample` is in it at its end, because it exits with the
  mutex; so is the thread of `3_Mutex` that locks twice, at its second lock;
- `StandstillTheorem`, the safe half of `BothKeepGoing` and `EndsOrStuck`: when every
  thread waits, all are over or the lesson hangs in the way `Stuck` names for it,
  and the lesson is not the bounded buffer nor `3_sample`. It assumes a threshold
  above 1 (the lessons use 5): with 1 the producer of `4_sample` gives up before it
  has announced anything, and its consumers wait for a product, not for the mutex;
- `StuckIsPermanent`: and then it hangs for ever;
- `BufferTheorem`: the bounded buffer implements `Dish`, with the holder of the
  mutex for the visitor and the things for the meals. What a kitchen process may do
  to the Vegan dish is what a producer or consumer may do to the buffer.

The two liveness properties as such are only model-checked.

## 8. The `select` server (`07_Socket/6_bvn`)

`handle_new_connection` is given the copy of the set (line 111) and puts the
new socket there (line 36). The round that accepts a client therefore reads
from it without asking `select`, and no later round does.

| model | code |
|---|---|
| `client_sockets`, `readfds`, `tempfds` | the variables of `main`; a socket is named by its client |
| `slot`, `Pending` | the loop of `handle_client_data`: entries not in the set are skipped |
| `conn`, `sent`, `inbox`, `backlog` | clients and kernel (external) |
| `reads`, `heard` | history: how often a socket was read, what was printed |
| `AcceptFails` | `accept` returned -1 for a connection aborted while it waited |

Any TCP clients are modelled, as `client.c` does not compile. `max_sd` only
widens what `select` looks at and is left out. Messages are shorter than the
buffer. A connection is not reset after it was accepted, so no `read` returns -1,
which line 59 would take for an index.

*select_server* - three clients, a table of two, two messages each: enough for
a client that finds the table full, for an entry that is freed and used again,
and for a read that returns one or both messages.
- `ReadOrFull`: between rounds every client whose connection was accepted has
  been read, or the table is full. A client is in a set for one round, so the
  round that accepts it must also read from it; in the mutant the two are
  alternatives (an `else` before `handle_client_data`).
- `ReadUnlessBlocked`: a waiting client gets its read, unless the table
  fills up, its connection is aborted, or the server sleeps in the read of a
  client that stays silent.

*select_disconnect* (violation) - two clients of one message each and room for
both, so that neither a full table nor a long stream plays a part.
- `DisconnectedIsRemoved`: a client that disconnects is removed from the list, as
  the comments at lines 48 and 54 say, unless the server sleeps in the read of a
  silent client. A client sends its message, is accepted and read, and then
  disconnects: it is in `tempfds` no more and was never in `readfds`, so `select`
  waits for the listening socket alone, and the entry and the socket stay.

*Fairness*: weak, for the server. Clients may stop anywhere. Deadlock is not
checked: once the clients have nothing to say, the server waits for ever.

*Proved* in `SelectServerProofs`, for every set of clients, table size and
number of messages: `TypeOK`, which includes that no client is in the table
twice, and `ServedOnce`, the cause of that violation: a client is read at most
once, and one that sent something before keeps its entry for ever. The invariant
adds

- `SetsInv`: the master set never holds a client;
- `WaitingInv`: a client in the backlog is there once, was never read and is
  not in the table;
- `PendingInv`: what a round has yet to read was not read before;
- `InboxInv`: what was printed or waits was sent, which bounds `heard`.

Two theorems say what `ReadUnlessBlocked` rests on, and what becomes of the table:

- `ReadOrFullTheorem` proves `ReadOrFull`. By `TurnInv`, as long as there
  is room only the client accepted in this round is still unread;
- `FullIsForEver`: a table that is full at the end of a round stays full whatever the
  clients do, because the read that would free an entry is in no later round.
  Everybody who connects afterwards is accepted and has no entry to be read at.

The first free entry and the next entry to read are least elements of sets of
numbers; a lemma derives their existence from the well-foundedness of `<`. The
assumption is that the table has room for one socket and that neither the
listening socket nor the free mark is a client. `ReadUnlessBlocked` itself is only
model-checked.

## 9. Three socket lessons (`07_Socket`)

The chat of `4_ipv4_stream`, the server of `5_sample/1_TPC_Basic` that answers one client
and returns, and the server of `5_sample/2_Mult_TPC_Server` with a thread for
each client. `lesson` says which one is run.

| model | code |
|---|---|
| `server`, `conn` | where `main` and `chat_func` of the server are; `new_socket_fd` |
| `thread`, `sock` | `handle_client` of each connection, and the number it was given |
| `client`, `line` | where each client is; what each user has typed, "exit" or not |
| `queue`, `inbox`, `open`, `reset` | the kernel's connections (external): not accepted yet, parts to be read, sides open, sides reset |
| `ChatRead`, `Answer`, `ChatWrite`, `ChatClose` | `chat_func`, `stream_server.c` |
| `Heard` | `strncmp("exit", buff, 4)`, also of a message that was cut |
| `CreateThread` | `pthread_create`, whose failure (a positive number) passes the test for `< 0` |
| `disturbed` | history: chats with a cut message or a client that was interrupted |

TCP keeps bytes, not messages: a message is two parts, and a read returns one or
both. A side that closes with unread parts resets the other, one that writes to a
closed side is reset, and reads and writes after that fail. Of a message that was
cut, the second part is taken not to begin with "exit". Failures of `socket`,
`bind`, `accept` and `malloc` are left out.

*sockets* - two clients of each program, with at most four parts under way before
a read must take a whole message (`MaxParts`): two messages, so that an answer
can be out of step with what it answers.
- `TurnsNeverDeadlock`: the two sides of a chat never both wait in `read`.
- `ServerEndsByBrokenChat`: the chat server, which serves one client after the
  other, ends only after a client was interrupted or a message was cut.
- `ClientAnswered`: a client of the threaded server is done with its read some
  time, whatever the others do, or its thread was never created.

*Fairness*: weak, for the server's `main`, each of its threads, and a client that
reads or closes. No user has to type and nobody has to connect. Deadlock is not
checked: a server waits for connections for ever.

*Proved* in `SocketLessonsProofs`, for every set of clients, choice of lessons and
`MaxParts`: `TypeOK`, `TurnsNeverDeadlock`, `ServerEndsByBrokenChat`. The invariant
counts turns. A side at its keyboard owns two, each part under way is one, and
while both sides talk there are at least two (`Talk`). A short read keeps the count
or raises it: it takes one part and lets the reader answer with two. So both
sides are never in `read` with nothing under way. For a chat nobody has disturbed
`Exact` says that it is in one of five stages, which pass into each other in a ring:
`ClientsTurn`, `Asked`, `ServersTurn`, `Answered`, and `SaidExit` for the end. In none
of them does the server's next call fail. `QueueInv` keeps a
connection out of the queue while it is served. `ClientAnswered` is liveness and only
model-checked. The two servers of `5_sample` have no safety property of their own,
and `1_TPC_Basic`, which answers one client and ends, has no property at all.

## 10. Named objects (`08_Shared_memory`, `09_semaphore/1`, `10_message_queues`)

Programs that find a kernel object by a key or a name: a message queue with one
producer and two consumers, a System V segment and a POSIX object with a writer
and a reader each, and a named semaphore. A program is a row of calls
(`Code`); each process runs one of them once, and the same program may be run
several times, in any overlap.

| model | code |
|---|---|
| `named`, `created`, `marked` | what the key or name stands for, how many objects there were, those removed with `IPC_RMID` (external: kernel) |
| `Get`, `Create`, `Open` | `msgget`/`shmget`/`shm_open`, `sem_open` with and without `O_CREAT` |
| `Send`, `Receive` | `msgsnd`, whose result nobody looks at, and `msgrcv` by type |
| `Attach`, `AttachFails`, `Fill`, `Look` | `shmat`/`mmap` and the access; `shmat` of a segment that is gone returns -1, which the program then uses |
| `Remove`, `Unlink`, `UnlinkPointer` | by identifier, by name, and `sem_unlink(&sem)`, which is given a pointer's bytes |
| `Type` | the user types a message; 1 and 2 are the types somebody receives, 0 is refused, 3 stands for the rest |
| `Kill` | the process is killed between two calls |
| `found` | history: processes whose object held a message for them when they found it |

*named_objects* - three processes, each of which may be killed, and room for one
message: the least with a producer and both consumers, with a remover between two
others, and with a queue that is full.
- `FailsOnlyByRemoval`: a process crashes, or finds a message and then shows none,
  only because another one has removed the object under it.
- `SemaphoreBalance`: one process is between `sem_timedwait` and `sem_post`, or
  was killed there, or the semaphore is free. It rests on `sem_unlink` failing.
- `EndsOrWaits`: every process ends but one at its keyboard, one that waits for a
  message nobody sends, and one without room to send.

*Fairness*: weak, for each process' own calls; users need not type, nobody need
be killed. Deadlock is not checked: processes end or wait.

*Proved* in `NamedObjectsProofs`, for every finite set of processes, every choice of
families of `Cast` and of processes that may be killed, and every `Room`: `TypeOK`,
`FailsOnlyByRemoval`, `SemaphoreBalance`. The invariant adds

- `OneFamily`, `PcInv`, `ObjInv`: the processes run programs that meet, each is
  within its program and has an object once it is past the calls that find one;
  there are no more objects than processes that found one;
- `RemovedInv`: an object that is marked has a process past its removal. In no
  program does a call that needs the object come after that, so it is another
  process that finds it gone;
- `SizedInv`, `FoundInv`: a file has its size before anybody maps it, and a message
  in shared memory stays there. These rule out the two failures without a removal;
- `SemaphoreInv`: one semaphore is made, everybody has that one, and its value plus
  its holders is one. That the object is the same for all is the whole point; it
  rests on the failing `sem_unlink`.

`Where` and `PastCalls` read a call back to program and position. A step finds the
object, uses it or ends the process early (`StepKinds`), with one lemma on the effect
of each kind. `EndsOrWaits` is liveness and only model-checked.

`QueueTheorem`: of each queue and each type, the messages in it and those received
from it are no more than were sent to it, and no queue holds more than `Room`. So no
message is received twice or made up, although queues are removed and made anew under
the programs and anyone may be killed. Senders and receivers are counted as sets of
processes (`SentTo`, `TakenFrom`); "no more than", because a killed receiver has lost
its message.

## 11. Kernel modules (`11_linux_kernel_module`)

Lessons 2 to 5 load a module in more and more steps. In lesson 4 programs can
open its device, in lesson 5 they share `mdev.kmalloc_ptr` and `mdev.size`.

| model | code |
|---|---|
| `step`, `have` | how far `hello_world_init` has come, what it has made |
| `numbers`, `stale` | device numbers registered, cdevs in the kernel's map whose module is gone (external) |
| `AllocRegion` ... `AllocBuffer` | the steps of the load, each with its error path; `class_create` and `device_create` return error pointers, which the tests for NULL let pass |
| `hello_world_exit` | refused while a file is open (`fops.owner`); frees `ExitCount` numbers of a region of one, which frees nothing unless it is 1 |
| `StartApp`, `m_open`, `Quit`, `m_release` | `test_app` and other programs; `test_app` keeps its first file open and opens one more per command |
| `ReadSize`, `ReadCopy` | lines 60-61, 63-67 of `5_fops_rw/hello.c`; `Left` is `mdev.size - *offset` modulo `Word` |
| `WriteClear`, `WriteCopy`, `WriteSize` | lines 82, 84-88, 90-92; `WriteFails` for `-EFAULT` |
| `WriteToNull`, `Crash` | a write before `kmalloc`, a call into a module that is gone: the kernel ends the program |
| `passed`, `mixed` | history: who was overtaken by another's write, whether writes overlapped |

A byte of the buffer is the program that wrote it, `"zero"`, or `"junk"` where no
`memset` has been. The buffer is `NPAGES * PAGE_SIZE` bytes here; the code
allocates 1024 and bounds its calls by the larger number, and what lies outside
the allocation is not in the model. Nor is a read past the size that would leave
the buffer. A `copy_from_user` that fails copies nothing. A program that was
killed may be started again.

*char_device* - the four lessons, two `test_app`s and one other program, a buffer
of three bytes with calls of one or two, `size_t` of eight values; one rmmod, two
loads that fail at `kmalloc`. Two calls of two bytes reach the end of the
buffer, two writers overlap while a third program reads; an open file can survive
a failed load and meet the next one.
- `CallsHaveBuffer`: outside the window between `device_create` and `kmalloc` no
  file belongs to a module without its buffer, unless `kmalloc` failed.
- `ReadsDefined`: no read copies memory that was never cleared.
- `PastSizeMeansOvertaken`: a position passes `mdev.size`, and line 60 computes a
  huge count, only by another program's write.
- `LoneWriteIntact`: without overlapping writes the buffer is what the last write
  left, and zeros.
- `LoadLeftovers`: what outlives the module, and by which exit or error path only.
- `ReaderEnds`: a program that reads to the end gets there, is killed, or is
  overtaken; then it gets bytes for ever.

*Fairness*: weak, for a call that has begun and for a program that reads to the
end. Nobody has to open, write, load or unload. Deadlock is not checked: after the
last rmmod nothing is left to do.

*Proved* in `CharDeviceProofs`, for every set of programs, `Capacity`, `Lengths`,
`Word`, set of lessons and both bounds: `TypeOK` (no call leaves the buffer) and
the five invariants above. `IInv` adds

- `RangeInv`: position plus length stay inside the buffer;
- `ObjectInv`, `FileInv`: what exists by how far the load is, and that an open
  file belongs to the loaded module or to one that failed at `kmalloc`;
- `PastInv`: not only a position past the size but a fetch that will go there
  belongs to an overtaken program, since the size may shrink between lines 60
  and 67;
- `JunkInv`: while any byte is uncleared nothing has been written, so the size
  and every position are 0;
- `WriteInv`: a write that overlaps no other has the buffer to itself.

`ReaderEnds` is only model-checked.

## 12. Not modelled

- `02_filesystem`: process A of each lock lesson takes one lock and sleeps, B
  takes its locks and ends. In `2_filelock` B waits until A is killed. In
  `3_fcntl` A prints "byte 1-5" and locks bytes 16 to 20 (`SEEK_CUR`, after a
  write of 15), which B's locks never touch. `1_systemcall` uses one file in one
  process.
- `03_process`: one child and no shared state in every lesson. In `6_safe_fork` a
  child that ends before line 28 installs the handler stays a zombie; that is the
  only order that matters.
- `05_signal`: handlers in one thread that loops for ever.
- `04_thread/1` and `/2`: threads that share nothing. `06_pipe_fifo/1`: a SIGINT
  handler writes what the same process waits to read.
- `07_Socket/1_unix_datagram`, `2_unix_stream`, `3_ipv4_datagram` and `5_sample`'s
  UDP sample: a server that answers each message, a client that sends one and waits
  for the answer. A datagram that is lost leaves an IPv4 client in its `recvfrom`;
  there is no retry.
- `08_Shared_memory`'s anonymous mapping, a process and its child that waits for
  it, and the POSIX queue program of `10_message_queues`, one process with itself.
- `00_intro`, `01_makefile`, `11_linux_kernel_module/1`: print statements.
  `Server_client/main` and `bin`: earlier copies and an unused header.

Within the modelled programs: print statements; addresses, ports and socket
options; the contents of messages beyond who sent them and which one it is;
recipes; time beyond the possibility of a timeout.

Outside the prover's reach, and so left to TLC: every liveness property, since
tlapm does not reason about `ENABLED`. Every safety property that a run checks and
that holds is a theorem as well (`TimeoutMeansIdle` if the table has room). The type invariants are theorems for every module
but `Dish`, which has none of its own; no run lists them.
