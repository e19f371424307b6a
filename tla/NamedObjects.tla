----------------------------- MODULE NamedObjects -----------------------------
(***************************************************************************)
(* The programs that meet at a kernel object they find by a key or a name: *)
(* a System V message queue, a System V segment, a POSIX shared memory     *)
(* object and a named semaphore.  The object outlives the programs; one of *)
(* them removes it while the others may still be on their way to it.       *)
(*                                                                         *)
(* Each program is a row of calls (Code), each process runs one program    *)
(* once, in any order and overlap with the others, and may be killed       *)
(* between two calls.                                                      *)
(***************************************************************************)
EXTENDS Naturals, Sequences, FiniteSets

CONSTANTS
  Procs,     \* the processes, each one run of a program
  Families,  \* the kinds of object that are met at, of DOMAIN Cast
  Killable,  \* processes that may be killed
  Room       \* messages a queue has room for

ASSUME ProcsAssumption == IsFiniteSet(Procs)
ASSUME RoomAssumption == Room \in Nat \ {0}

VARIABLES
  prog,     \* the program of each process
  pc,       \* its position in that program
  dead,     \* processes killed, crashed, or ended by an early return
  obj,      \* the object each process got, 0 before
  named,    \* the object the key or name stands for, 0 if none
  created,  \* how many objects there have been
  marked,   \* objects removed by IPC_RMID
  sized,    \* objects that ftruncate gave their size
  data,     \* messages in each object, by type
  value,    \* the value of each object as a semaphore
  typed,    \* the message type a producer's user has typed
  result,   \* what became of each process
  found     \* history: processes whose object had a message for them

objectVars == <<named, created, marked, sized, data, value>>
vars == <<prog, pc, dead, obj, objectVars, typed, result, found>>

\* The programs.  Each is started with the calls that find its object.
Cast ==
  [queue |-> {"producer", "consumer", "consumer2"}, segment |-> {"writter", "reader"},
   file |-> {"file_writter", "file_reader"}, semaphore |-> {"named_semaphore"}]

ASSUME FamiliesAssumption == Families \subseteq DOMAIN Cast

producer == <<"get", "type", "send">>
consumer == <<"get", "receive", "remove">>
writter == <<"get", "attach", "type", "fill", "detach">>
reader == <<"get", "attach", "look", "detach", "remove">>
file_writter == <<"get", "truncate", "attach", "fill", "detach">>
file_reader == <<"open", "truncate", "attach", "look", "detach", "unlink">>
named_semaphore ==
  <<"create", "open", "wait", "type", "post", "type", "unlinkPointer">>

\* Mutants: reader removes the segment before it attaches it; the semaphore is
\* unlinked by its name.
CodeRemovesFirst ==
  [producer |-> producer, consumer |-> consumer, consumer2 |-> consumer, writter |-> writter,
   reader |-> <<"get", "remove", "attach", "look", "detach">>,
   file_writter |-> file_writter, file_reader |-> file_reader,
   named_semaphore |-> named_semaphore]

CodeUnlinksName ==
  [producer |-> producer, consumer |-> consumer, consumer2 |-> consumer, writter |-> writter,
   reader |-> reader, file_writter |-> file_writter, file_reader |-> file_reader,
   named_semaphore |-> <<"create", "open", "wait", "type", "post", "type", "unlink">>]

Code ==
  [producer |-> producer, consumer |-> consumer, consumer2 |-> consumer, writter |-> writter,
   reader |-> reader, file_writter |-> file_writter, file_reader |-> file_reader,
   named_semaphore |-> named_semaphore]

\* Message types: 1 and 2 are the ones received, 3 stands for the others, 0 for
\* the ones msgsnd refuses.  Shared memory holds one message.
Types == 1..3
Wanted(p) == IF prog[p] = "consumer2" THEN 2 ELSE 1

Calls(p) == Code[prog[p]]
Ended(p) == p \in dead \/ pc[p] > Len(Calls(p))
At(p, call) == ~Ended(p) /\ Calls(p)[pc[p]] = call
Past(p, call) == \E i \in 1..(pc[p] - 1) : Calls(p)[i] = call

\* A removed segment is destroyed once nobody has it attached.
Attached(o) == {p \in Procs \ dead : obj[p] = o /\ Past(p, "attach") /\ ~Past(p, "detach")}
Gone(o) == o \in marked /\ Attached(o) = {}

\* p goes past the call, or ends in it.
Advance(p, call) == At(p, call) /\ pc' = [pc EXCEPT ![p] = @ + 1] /\ UNCHANGED <<prog, dead>>
GiveUp(p, call, r) ==
  /\ At(p, call)
  /\ dead' = dead \cup {p} /\ result' = [result EXCEPT ![p] = r]
  /\ UNCHANGED <<prog, pc, obj, objectVars, typed, found>>

Init ==
  /\ \E f \in Families : prog \in [Procs -> Cast[f]]
  /\ pc = [p \in Procs |-> 1] /\ dead = {} /\ obj = [p \in Procs |-> 0]
  /\ named = 0 /\ created = 0 /\ marked = {} /\ sized = {}
  /\ data = [o \in 1..Cardinality(Procs) |-> [t \in Types |-> 0]]
  /\ value = [o \in 1..Cardinality(Procs) |-> 0]
  /\ typed = [p \in Procs |-> 0] /\ result = [p \in Procs |-> "none"] /\ found = {}

-----------------------------------------------------------------------------
(* Finding the object.                                                     *)

Meets(p, o) ==
  /\ obj' = [obj EXCEPT ![p] = o]
  /\ found' = IF data[o][Wanted(p)] > 0 THEN found \cup {p} ELSE found

\* msgget and shmget with IPC_CREAT, shm_open with O_CREAT
Get(p) ==
  /\ Advance(p, "get")
  /\ IF named # 0 THEN Meets(p, named) /\ UNCHANGED <<named, created>>
                  ELSE Meets(p, created + 1) /\ named' = created + 1 /\ created' = created + 1
  /\ UNCHANGED <<marked, sized, data, value, typed, result>>

\* sem_open with O_CREAT | O_EXCL makes it, or leaves it to the second sem_open.
Create(p) ==
  /\ Advance(p, "create")
  /\ IF named # 0 THEN UNCHANGED <<obj, named, created, value>>
     ELSE /\ named' = created + 1 /\ created' = created + 1
          /\ obj' = [obj EXCEPT ![p] = created + 1]
          /\ value' = [value EXCEPT ![created + 1] = 1]
  /\ UNCHANGED <<marked, sized, data, typed, result, found>>

\* shm_open without O_CREAT, the second sem_open
Open(p) ==
  /\ Advance(p, "open")
  /\ \/ obj[p] = 0 /\ named # 0 /\ Meets(p, named)
     \/ obj[p] # 0 /\ UNCHANGED <<obj, found>>
  /\ UNCHANGED <<objectVars, typed, result>>

OpenFails(p) == obj[p] = 0 /\ named = 0 /\ GiveUp(p, "open", "failed")

-----------------------------------------------------------------------------
(* Using it.                                                               *)

\* The user types a message and its type, a line, or a character.
Type(p) ==
  /\ Advance(p, "type")
  /\ \E t \in Types \cup {0} :
       /\ t # 0 => prog[p] = "producer"
       /\ typed' = [typed EXCEPT ![p] = t]
  /\ UNCHANGED <<obj, objectVars, result, found>>

Content(o) == data[o][1] + data[o][2] + data[o][3]

\* msgsnd waits for room; its result is not looked at: EINVAL for the type,
\* EIDRM or EINVAL for a queue that is removed.
Refused(p) == typed[p] = 0 \/ obj[p] \in marked

Send(p) ==
  /\ Advance(p, "send")
  /\ \/ Refused(p) /\ UNCHANGED data
     \/ /\ ~Refused(p) /\ Content(obj[p]) < Room
        /\ data' = [data EXCEPT ![obj[p]][typed[p]] = @ + 1]
  /\ UNCHANGED <<obj, named, created, marked, sized, value, typed, result, found>>

\* msgrcv waits for a message of its type; if the queue is removed it fails,
\* and an empty message is displayed.
Receive(p) ==
  /\ Advance(p, "receive")
  /\ \/ /\ obj[p] \notin marked /\ data[obj[p]][Wanted(p)] > 0
        /\ data' = [data EXCEPT ![obj[p]][Wanted(p)] = @ - 1]
        /\ result' = [result EXCEPT ![p] = "data"]
     \/ /\ obj[p] \in marked
        /\ result' = [result EXCEPT ![p] = "empty"] /\ UNCHANGED data
  /\ UNCHANGED <<obj, named, created, marked, sized, value, typed, found>>

\* ftruncate
Truncate(p) ==
  /\ Advance(p, "truncate")
  /\ sized' = sized \cup {obj[p]}
  /\ UNCHANGED <<obj, named, created, marked, data, value, typed, result, found>>

\* shmat, mmap
Attach(p) ==
  /\ Advance(p, "attach") /\ ~Gone(obj[p])
  /\ UNCHANGED <<obj, objectVars, typed, result, found>>

\* shmat of a segment that is gone returns -1, which fgets or printf is given.
\* (The writer crashes when its user has typed a line.)
AttachFails(p) == Gone(obj[p]) /\ GiveUp(p, "attach", "crashed")

\* A page of a file object that has no size cannot be touched (SIGBUS).
Touchable(p) == prog[p] \in {"file_writter", "file_reader"} => obj[p] \in sized

Fill(p) ==
  IF ~Touchable(p) THEN GiveUp(p, "fill", "crashed")
  ELSE /\ Advance(p, "fill")
       /\ data' = [data EXCEPT ![obj[p]][1] = 1]
       /\ UNCHANGED <<obj, named, created, marked, sized, value, typed, result, found>>

Look(p) ==
  IF ~Touchable(p) THEN GiveUp(p, "look", "crashed")
  ELSE /\ Advance(p, "look")
       /\ result' = [result EXCEPT ![p] = IF data[obj[p]][1] > 0 THEN "data" ELSE "empty"]
       /\ UNCHANGED <<obj, objectVars, typed, found>>

\* Mutant: sem_wait instead of sem_timedwait.
WaitForEver(p) ==
  /\ Advance(p, "wait") /\ value[obj[p]] > 0
  /\ value' = [value EXCEPT ![obj[p]] = @ - 1]
  /\ UNCHANGED <<obj, named, created, marked, sized, data, typed, result, found>>

\* sem_timedwait
Wait(p) ==
  \/ /\ Advance(p, "wait") /\ value[obj[p]] > 0
     /\ value' = [value EXCEPT ![obj[p]] = @ - 1]
     /\ UNCHANGED <<obj, named, created, marked, sized, data, typed, result, found>>
  \/ At(p, "wait") /\ value[obj[p]] = 0 /\ GiveUp(p, "wait", "failed")

Post(p) ==
  /\ Advance(p, "post")
  /\ value' = [value EXCEPT ![obj[p]] = @ + 1]
  /\ UNCHANGED <<obj, named, created, marked, sized, data, typed, result, found>>

-----------------------------------------------------------------------------
(* Letting it go.                                                          *)

\* shmdt, munmap
Detach(p) == Advance(p, "detach") /\ UNCHANGED <<obj, objectVars, typed, result, found>>

\* IPC_RMID goes by the identifier: the key stops to stand for the object.
Remove(p) ==
  /\ Advance(p, "remove")
  /\ marked' = marked \cup {obj[p]}
  /\ named' = IF named = obj[p] THEN 0 ELSE named
  /\ UNCHANGED <<obj, created, sized, data, value, typed, result, found>>

\* shm_unlink goes by the name, whatever it stands for now.
Unlink(p) ==
  /\ Advance(p, "unlink")
  /\ named' = 0
  /\ UNCHANGED <<obj, created, marked, sized, data, value, typed, result, found>>

\* sem_unlink(&sem) is given the bytes of a pointer for a name: it fails.
UnlinkPointer(p) == Advance(p, "unlinkPointer") /\ UNCHANGED <<obj, objectVars, typed, result, found>>

Kill(p) ==
  /\ p \in Killable /\ ~Ended(p)
  /\ dead' = dead \cup {p} /\ result' = [result EXCEPT ![p] = "killed"]
  /\ UNCHANGED <<prog, pc, obj, objectVars, typed, found>>

-----------------------------------------------------------------------------
Step(p) ==
  \/ Get(p) \/ Create(p) \/ Open(p) \/ OpenFails(p)
  \/ Send(p) \/ Receive(p) \/ Truncate(p) \/ Attach(p) \/ AttachFails(p)
  \/ Fill(p) \/ Look(p) \/ Wait(p) \/ Post(p)
  \/ Detach(p) \/ Remove(p) \/ Unlink(p) \/ UnlinkPointer(p)

Next == \E p \in Procs : Step(p) \/ Type(p) \/ Kill(p)

\* The scheduler runs a process that can run; a user need not type.
Fairness == \A p \in Procs : WF_vars(Step(p))

Spec == Init /\ [][Next]_vars /\ Fairness
-----------------------------------------------------------------------------
TypeOK ==
  /\ prog \in [Procs -> DOMAIN Code] /\ pc \in [Procs -> 1..8]
  /\ dead \subseteq Procs /\ found \subseteq Procs
  /\ obj \in [Procs -> 0..created] /\ created \in 0..Cardinality(Procs)
  /\ named \in 0..created /\ marked \subseteq 1..created /\ sized \subseteq 1..created
  /\ data \in [1..Cardinality(Procs) -> [Types -> Nat]]
  /\ value \in [1..Cardinality(Procs) -> Nat]
  /\ typed \in [Procs -> Types \cup {0}]
  /\ result \in [Procs -> {"none", "data", "empty", "failed", "crashed", "killed"}]

\* A process crashes, or finds a message and then shows none, only if another
\* process has removed the object under it: nobody removes what it still needs
\* itself, and both programs of 2_file_mapping set the size before they map.
FailsOnlyByRemoval ==
  \A p \in Procs :
    result[p] = "crashed" \/ (p \in found /\ result[p] = "empty") =>
      \E q \in Procs \ {p} : obj[q] = obj[p] /\ Past(q, "remove")

\* One process is between sem_timedwait and sem_post, or was killed there, or
\* the semaphore is free.  Over many runs this rests on the object's being the
\* same one for all: line 85 of 1_named_semaphore/main.c never removes it.
Holds(p) == Past(p, "wait") /\ ~Past(p, "post")

SemaphoreBalance ==
  named # 0 /\ (\A p \in Procs : prog[p] = "named_semaphore") =>
    value[named] + Cardinality({p \in Procs : Holds(p)}) = 1

\* Every process comes to its end but one at its keyboard, one that waits for a
\* message of its type in a queue nobody has removed, and one that has no room
\* to send.
Waits(p) ==
  \/ At(p, "type")
  \/ At(p, "send") /\ obj[p] \notin marked /\ Content(obj[p]) = Room
  \/ At(p, "receive") /\ obj[p] \notin marked /\ data[obj[p]][Wanted(p)] = 0

EndsOrWaits == \A p \in Procs : <>[](Ended(p) \/ Waits(p))
=============================================================================
