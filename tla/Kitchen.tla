------------------------------- MODULE Kitchen -------------------------------
(***************************************************************************)
(* The two-dish kitchen of producer_consumer/main.c: a parent that maps    *)
(* shared memory and semaphores, forks two producers and three consumers,  *)
(* reports until SIGINT, then kills and reaps its children.                *)
(*                                                                         *)
(* A step is one semaphore call, one slot search, one slot assignment, one *)
(* system call of the parent or one signal delivery.  A meal is abstracted *)
(* to the fact that its slot is not 0: which of its two recipes a producer *)
(* draws changes a printed line only.  The sleep calls delay a process and *)
(* change nothing, so the scheduler stands for them.                       *)
(***************************************************************************)
EXTENDS Naturals, FiniteSets

CONSTANTS
  BufferSize,     \* BUFFER_SIZE, the slots of each dish
  MayRefuse,      \* children whose fork the system may refuse
  SigintTargets   \* processes that may receive SIGINT (a bound on signals)

Dishes == {"Vegan", "Non_Vegan"}
Slots == 1..BufferSize

\* The pid_t globals name the children; the parent forks them in this order.
Children == {"producer_Vegan", "producer_Non_Vegan", "consumer_Vegan",
             "consumer_Non_Vegan", "consumer_Both"}
ForkOrder == <<"producer_Vegan", "producer_Non_Vegan", "consumer_Vegan",
               "consumer_Non_Vegan", "consumer_Both">>
Procs == Children \cup {"main"}

ASSUME BufferSizeAssumption == BufferSize \in Nat \ {0}
ASSUME BoundsAssumption == MayRefuse \subseteq Children /\ SigintTargets \subseteq Procs

VARIABLES
  buffer,       \* buffer_Vegan, buffer_Non_Vegan: the slots that are not 0
  mutex,        \* mutex_Vegan, mutex_Non_Vegan: semaphore values
  empty,        \* empty_Vegan, empty_Non_Vegan
  full,         \* full_Vegan, full_Non_Vegan
  pc,           \* what each process does next
  slot,         \* the slot a process found in its search, 0 if none
  turn,         \* the dish consumer_Both is trying
  interrupted,  \* each process's own copy of the flag handle_signal sets
  term,         \* children with a SIGTERM pending
  step          \* the parent's progress in its forks, kills and waits

shared == <<buffer, mutex, empty, full>>
vars == <<buffer, mutex, empty, full, pc, slot, turn, interrupted, term, step>>

ChildLabels == {"check", "wait_empty", "wait_mutex", "wait_full", "timed_full", "scan",
                "store", "clear", "post_empty", "post_full", "post_mutex"}
MainLabels == {"setup", "fork", "watch", "report_Vegan", "report_Non_Vegan", "kill",
               "wait", "clean_up", "done", "failed"}

Alive(c) == pc[c] \in ChildLabels

\* Anonymous mappings are zero-filled; no child exists.
Init ==
  /\ buffer = [d \in Dishes |-> {}]
  /\ mutex = [d \in Dishes |-> 0]
  /\ empty = [d \in Dishes |-> 0]
  /\ full = [d \in Dishes |-> 0]
  /\ pc = [p \in Procs |-> IF p = "main" THEN "setup" ELSE "unborn"]
  /\ slot = [c \in Children |-> 0]
  /\ turn = "Vegan"
  /\ interrupted = [p \in Procs |-> FALSE]
  /\ term = {}
  /\ step = 0

-----------------------------------------------------------------------------
(* Steps the five children are built from.                                 *)

Goto(p, from, to) == pc[p] = from /\ pc' = [pc EXCEPT ![p] = to]

\* while (!interrupted) { ... }  exit(0);
Check(c, first) ==
  /\ Goto(c, "check", IF interrupted[c] THEN "zombie" ELSE first)
  /\ UNCHANGED <<shared, slot, turn, interrupted, term, step>>

WaitMutex(c, d, next) ==
  /\ Goto(c, "wait_mutex", next)
  /\ mutex[d] > 0
  /\ mutex' = [mutex EXCEPT ![d] = @ - 1]
  /\ UNCHANGED <<buffer, empty, full, slot, turn, interrupted, term, step>>

PostMutex(c, d, next) ==
  /\ Goto(c, "post_mutex", next)
  /\ mutex' = [mutex EXCEPT ![d] = @ + 1]
  /\ UNCHANGED <<buffer, empty, full, slot, turn, interrupted, term, step>>

WaitEmpty(c, d, next) ==
  /\ Goto(c, "wait_empty", next)
  /\ empty[d] > 0
  /\ empty' = [empty EXCEPT ![d] = @ - 1]
  /\ UNCHANGED <<buffer, mutex, full, slot, turn, interrupted, term, step>>

PostEmpty(c, d, next) ==
  /\ Goto(c, "post_empty", next)
  /\ empty' = [empty EXCEPT ![d] = @ + 1]
  /\ UNCHANGED <<buffer, mutex, full, slot, turn, interrupted, term, step>>

\* sem_wait and a successful sem_timedwait
WaitFull(c, d, from, next) ==
  /\ Goto(c, from, next)
  /\ full[d] > 0
  /\ full' = [full EXCEPT ![d] = @ - 1]
  /\ UNCHANGED <<buffer, mutex, empty, slot, turn, interrupted, term, step>>

PostFull(c, d, next) ==
  /\ Goto(c, "post_full", next)
  /\ full' = [full EXCEPT ![d] = @ + 1]
  /\ UNCHANGED <<buffer, mutex, empty, slot, turn, interrupted, term, step>>

\* The first slot of S in index order, 0 when the loop runs off the end.
First(S) == IF S = {} THEN 0 ELSE CHOOSE i \in S : \A j \in S : i <= j

\* Find a free slot; fill it if there is one.  A full dish drops the meal.
write_to_buffer(c, d, next) ==
  \/ /\ Goto(c, "scan", "store")
     /\ slot' = [slot EXCEPT ![c] = First(Slots \ buffer[d])]
     /\ UNCHANGED <<shared, turn, interrupted, term, step>>
  \/ /\ Goto(c, "store", next)
     /\ buffer' = [buffer EXCEPT ![d] = @ \cup ({slot[c]} \ {0})]
     /\ slot' = [slot EXCEPT ![c] = 0]
     /\ UNCHANGED <<mutex, empty, full, turn, interrupted, term, step>>

\* Find a filled slot; clear it if there is one.  An empty dish returns 0.
read_from_buffer(c, d, next) ==
  \/ /\ Goto(c, "scan", "clear")
     /\ slot' = [slot EXCEPT ![c] = First(buffer[d])]
     /\ UNCHANGED <<shared, turn, interrupted, term, step>>
  \/ /\ Goto(c, "clear", next)
     /\ buffer' = [buffer EXCEPT ![d] = @ \ {slot[c]}]
     /\ slot' = [slot EXCEPT ![c] = 0]
     /\ UNCHANGED <<mutex, empty, full, turn, interrupted, term, step>>

-----------------------------------------------------------------------------
(* The children.                                                           *)

\* Mutant: mutex before empty, the textbook mistake.
ProduceMutexFirst(c, s, d) ==
  \/ Check(c, "wait_mutex")
  \/ WaitMutex(c, s, "wait_empty")
  \/ WaitEmpty(c, s, "scan")
  \/ write_to_buffer(c, d, "post_full")
  \/ PostFull(c, s, "post_mutex")
  \/ PostMutex(c, s, "check")

\* Mutant: full is the one semaphore corrected to the dish that is filled.
ProducePostsOwnFull(c, s, d) ==
  \/ Check(c, "wait_empty")
  \/ WaitEmpty(c, s, "wait_mutex")
  \/ WaitMutex(c, s, "scan")
  \/ write_to_buffer(c, d, "post_full")
  \/ PostFull(c, d, "post_mutex")
  \/ PostMutex(c, s, "check")

\* A producer fills dish d under the semaphores of dish s.
Produce(c, s, d) ==
  \/ Check(c, "wait_empty")
  \/ WaitEmpty(c, s, "wait_mutex")
  \/ WaitMutex(c, s, "scan")
  \/ write_to_buffer(c, d, "post_full")
  \/ PostFull(c, s, "post_mutex")
  \/ PostMutex(c, s, "check")

\* A single-dish consumer takes the mutex before it waits for a meal.
Consume(c, d) ==
  \/ Check(c, "wait_mutex")
  \/ WaitMutex(c, d, "wait_full")
  \/ WaitFull(c, d, "wait_full", "scan")
  \/ read_from_buffer(c, d, "post_empty")
  \/ PostEmpty(c, d, "post_mutex")
  \/ PostMutex(c, d, "check")

producer_Vegan_Process == Produce("producer_Vegan", "Vegan", "Vegan")

\* It fills its own dish, but waits on and posts the Vegan semaphores.
producer_Non_Vegan_Process == Produce("producer_Non_Vegan", "Vegan", "Non_Vegan")

consumer_Vegan_Process == Consume("consumer_Vegan", "Vegan")

consumer_Non_Vegan_Process == Consume("consumer_Non_Vegan", "Non_Vegan")

\* sem_timedwait gave up: try the other dish, or after it start over.
TimeOut(c) ==
  /\ Goto(c, "timed_full", IF turn = "Vegan" THEN "timed_full" ELSE "check")
  /\ full[turn] = 0
  /\ turn' = IF turn = "Vegan" THEN "Non_Vegan" ELSE "Vegan"
  /\ UNCHANGED <<shared, slot, interrupted, term, step>>

\* The last post of a round; the next round starts with the Vegan dish.
BothPostEmpty(c) ==
  /\ Goto(c, "post_empty", "check")
  /\ empty' = [empty EXCEPT ![turn] = @ + 1]
  /\ turn' = "Vegan"
  /\ UNCHANGED <<buffer, mutex, full, slot, interrupted, term, step>>

\* Mutant: the Vegan branch uses mutex_Non_Vegan.
BothWrongMutex ==
  LET c == "consumer_Both" IN
  \/ Check(c, "timed_full")
  \/ WaitFull(c, turn, "timed_full", "wait_mutex")
  \/ TimeOut(c)
  \/ WaitMutex(c, "Non_Vegan", "scan")
  \/ read_from_buffer(c, turn, "post_mutex")
  \/ PostMutex(c, "Non_Vegan", "post_empty")
  \/ BothPostEmpty(c)

consumer_Both_Process ==
  LET c == "consumer_Both" IN
  \/ Check(c, "timed_full")
  \/ WaitFull(c, turn, "timed_full", "wait_mutex")
  \/ TimeOut(c)
  \/ WaitMutex(c, turn, "scan")
  \/ read_from_buffer(c, turn, "post_mutex")
  \/ PostMutex(c, turn, "post_empty")
  \/ BothPostEmpty(c)

-----------------------------------------------------------------------------
(* The parent.                                                             *)

\* Mutants: a wrong initial value.
SetupMutexTwo ==
  /\ Goto("main", "setup", "fork")
  /\ mutex' = [d \in Dishes |-> 2]
  /\ empty' = [d \in Dishes |-> BufferSize]
  /\ full' = [d \in Dishes |-> 0]
  /\ UNCHANGED <<buffer, slot, turn, interrupted, term, step>>

SetupOneSlotMore ==
  /\ Goto("main", "setup", "fork")
  /\ mutex' = [d \in Dishes |-> 1]
  /\ empty' = [d \in Dishes |-> BufferSize + 1]
  /\ full' = [d \in Dishes |-> 0]
  /\ UNCHANGED <<buffer, slot, turn, interrupted, term, step>>

\* mmap and sem_init: mutex 1, full 0, empty BUFFER_SIZE for each dish.
Setup ==
  /\ Goto("main", "setup", "fork")
  /\ mutex' = [d \in Dishes |-> 1]
  /\ empty' = [d \in Dishes |-> BufferSize]
  /\ full' = [d \in Dishes |-> 0]
  /\ UNCHANGED <<buffer, slot, turn, interrupted, term, step>>

\* An mmap failed: exit(EXIT_FAILURE) before any fork.
SetupFails ==
  /\ Goto("main", "setup", "failed")
  /\ UNCHANGED <<shared, slot, turn, interrupted, term, step>>

\* The next fork: the child starts with a copy of the parent's flag, or the
\* call returns -1, which nothing checks.
Fork ==
  /\ pc["main"] = "fork"
  /\ step < 5
  /\ LET c == ForkOrder[step + 1] IN
     /\ \/ /\ pc' = [pc EXCEPT ![c] = "check"]
           /\ interrupted' = [interrupted EXCEPT ![c] = interrupted["main"]]
        \/ /\ c \in MayRefuse
           /\ pc' = [pc EXCEPT ![c] = "refused"]
           /\ UNCHANGED interrupted
  /\ step' = step + 1
  /\ UNCHANGED <<shared, slot, turn, term>>

AllForked ==
  /\ step = 5
  /\ Goto("main", "fork", "watch")
  /\ step' = 0
  /\ UNCHANGED <<shared, slot, turn, interrupted, term>>

\* while (!interrupted)
Watch ==
  /\ Goto("main", "watch", IF interrupted["main"] THEN "kill" ELSE "report_Vegan")
  /\ UNCHANGED <<shared, slot, turn, interrupted, term, step>>

\* sem_getvalue(full_d): the printed number of items of dish d is full[d].
Report(d) ==
  /\ IF d = "Vegan" THEN Goto("main", "report_Vegan", "report_Non_Vegan")
                    ELSE Goto("main", "report_Non_Vegan", "watch")
  /\ UNCHANGED <<shared, slot, turn, interrupted, term, step>>

\* Mutant: the children are asked with SIGINT instead.
KillAsks ==
  /\ pc["main"] = "kill"
  /\ step < 5
  /\ LET c == ForkOrder[step + 1] IN
     interrupted' = [k \in Procs |-> interrupted[k] \/ k = c]
  /\ step' = step + 1
  /\ UNCHANGED <<shared, pc, slot, turn, term>>

\* kill(pid, SIGTERM): a refused child's pid is -1, which addresses every
\* process the user may signal, every child among them.
Kill ==
  /\ pc["main"] = "kill"
  /\ step < 5
  /\ LET c == ForkOrder[step + 1] IN
     term' = term \cup {k \in IF pc[c] = "refused" THEN Children ELSE {c} : Alive(k)}
  /\ step' = step + 1
  /\ UNCHANGED <<shared, pc, slot, turn, interrupted>>

AllKilled ==
  /\ step = 5
  /\ Goto("main", "kill", "wait")
  /\ step' = 0
  /\ UNCHANGED <<shared, slot, turn, interrupted, term>>

\* Mutant: consumer_Both was added later and the count was not.
NumChildrenStale == 4

\* The argument of wait_for_children.
NumChildren == 5

\* wait(NULL): reap any child that has ended, or return at once when there is
\* no child left; otherwise block.
wait_for_children ==
  /\ pc["main"] = "wait"
  /\ step < NumChildren
  /\ \/ \E c \in Children : Goto(c, "zombie", "reaped")
     \/ /\ \A c \in Children : pc[c] \in {"reaped", "refused"}
        /\ UNCHANGED pc
  /\ step' = step + 1
  /\ UNCHANGED <<shared, slot, turn, interrupted, term>>

AllWaited ==
  /\ step = NumChildren
  /\ Goto("main", "wait", "clean_up")
  /\ step' = 0
  /\ UNCHANGED <<shared, slot, turn, interrupted, term>>

\* munmap takes away the parent's view only; then main returns.
clean_up ==
  /\ Goto("main", "clean_up", "done")
  /\ UNCHANGED <<shared, slot, turn, interrupted, term, step>>

main ==
  \/ Setup \/ SetupFails
  \/ Fork \/ AllForked
  \/ Watch \/ (\E d \in Dishes : Report(d))
  \/ Kill \/ AllKilled
  \/ wait_for_children \/ AllWaited
  \/ clean_up

-----------------------------------------------------------------------------
(* Signals, and the whole program.                                         *)

\* SIGINT, from the terminal or from kill(1), reaches a process.  signal()
\* restarts the interrupted system call, so only the flag changes.
handle_signal(p) ==
  /\ p \in SigintTargets
  /\ IF p = "main" THEN pc[p] \in MainLabels \ {"done", "failed"} ELSE Alive(p)
  /\ ~interrupted[p]
  /\ interrupted' = [interrupted EXCEPT ![p] = TRUE]
  /\ UNCHANGED <<shared, pc, slot, turn, term, step>>

\* SIGTERM keeps its default action: it ends the child wherever it is.
Die(c) ==
  /\ c \in term
  /\ Alive(c)
  /\ pc' = [pc EXCEPT ![c] = "zombie"]
  /\ slot' = [slot EXCEPT ![c] = 0]
  /\ UNCHANGED <<shared, turn, interrupted, term, step>>

\* The parent has exited.
Terminated ==
  /\ pc["main"] \in {"done", "failed"}
  /\ UNCHANGED vars

Child ==
  \/ producer_Vegan_Process \/ producer_Non_Vegan_Process
  \/ consumer_Vegan_Process \/ consumer_Non_Vegan_Process \/ consumer_Both_Process

Next ==
  \/ main
  \/ Child
  \/ \E c \in Children : Die(c)
  \/ \E p \in Procs : handle_signal(p)
  \/ Terminated

Spec == Init /\ [][Next]_vars

\* The scheduler runs the parent when it can run, and a pending signal is
\* delivered.  Nothing makes anyone press Ctrl-C.
ShutdownFairness == WF_vars(main) /\ \A c \in Children : WF_vars(Die(c))

\* The children get to run as well; sem_wait promises no order among its
\* waiters, hence weak fairness only.
ChildFairness ==
  /\ WF_vars(producer_Vegan_Process)
  /\ WF_vars(producer_Non_Vegan_Process)
  /\ WF_vars(consumer_Vegan_Process)
  /\ WF_vars(consumer_Non_Vegan_Process)
  /\ WF_vars(consumer_Both_Process)

ShutdownSpec == Spec /\ ShutdownFairness
FairSpec == ShutdownSpec /\ ChildFairness

-----------------------------------------------------------------------------
(* Properties.                                                             *)

\* Every variable has its type.
TypeOK ==
  /\ buffer \in [Dishes -> SUBSET Slots]
  /\ mutex \in [Dishes -> Nat]
  /\ empty \in [Dishes -> Nat]
  /\ full \in [Dishes -> Nat]
  /\ pc \in [Procs -> ChildLabels \cup MainLabels
                        \cup {"unborn", "refused", "zombie", "reaped"}]
  /\ slot \in [Children -> 0..BufferSize]
  /\ turn \in Dishes
  /\ interrupted \in [Procs -> BOOLEAN]
  /\ term \subseteq Children
  /\ step \in 0..5

\* The dish whose semaphores c is using, and the dish whose slots it touches.
SemDish(c) ==
  CASE c = "consumer_Both" -> turn
    [] c = "consumer_Non_Vegan" -> "Non_Vegan"
    [] OTHER -> "Vegan"
SlotDish(c) == IF c = "producer_Non_Vegan" THEN "Non_Vegan" ELSE SemDish(c)

\* c is between its sem_wait and its sem_post of the mutex of dish d.
InCritical(c, d) ==
  /\ SemDish(c) = d
  /\ pc[c] \in {"scan", "store", "clear", "post_full", "post_mutex"}
       \cup (IF c = "consumer_Both" THEN {} ELSE {"wait_full", "post_empty"})

\* c took a token from empty or full of dish d and has not passed it on.
HasToken(c, d) ==
  /\ SemDish(c) = d
  /\ pc[c] \in {"scan", "store", "clear", "post_full", "post_empty"}
       \cup (IF c \in {"consumer_Vegan", "consumer_Non_Vegan"} THEN {} ELSE {"wait_mutex"})
       \cup (IF c = "consumer_Both" THEN {"post_mutex"} ELSE {})

AtSlots(c, d) == SlotDish(c) = d /\ pc[c] \in {"scan", "store", "clear"}

\* No two processes are at the slots of one dish at the same time, although
\* the Non_Vegan dish is filled under the mutex of the other dish: a slot
\* found free or filled is still so when it is assigned (lines 162-189).
DishExclusion ==
  \A d \in Dishes : \A a, b \in Children :
    AtSlots(a, d) /\ AtSlots(b, d) => a = b

Tokens(c, d) == IF HasToken(c, d) THEN 1 ELSE 0
InFlight(d) ==
  Tokens("producer_Vegan", d) + Tokens("producer_Non_Vegan", d)
    + Tokens("consumer_Vegan", d) + Tokens("consumer_Non_Vegan", d)
    + Tokens("consumer_Both", d)

\* Until the parent starts killing, the free and filled tokens of a dish and
\* the tokens its users carry add up to BUFFER_SIZE: no path through a child,
\* its exit included, gains or loses one.  Kills can only lose tokens.
TokenConservation ==
  \A d \in Dishes :
    /\ pc["main"] \in {"fork", "watch", "report_Vegan", "report_Non_Vegan"}
         => empty[d] + full[d] + InFlight(d) = BufferSize
    /\ empty[d] + full[d] + InFlight(d) <= BufferSize

\* A Vegan meal is never dropped: the Vegan producer, which waited on empty,
\* finds a free slot, even though another producer spends the same tokens.
VeganMealStored ==
  pc["producer_Vegan"] = "store" => slot["producer_Vegan"] # 0

\* The users of the Vegan semaphores that block without a time limit.
Blocked(c) ==
  \/ pc[c] = "wait_empty" /\ empty["Vegan"] = 0
  \/ pc[c] = "wait_mutex" /\ mutex[SemDish(c)] = 0
  \/ pc[c] = "wait_full" /\ full[SemDish(c)] = 0

\* consumer_Vegan sleeps on full_Vegan with mutex_Vegan in its hand (300-301).
HoldAndWait ==
  pc["consumer_Vegan"] = "wait_full" /\ full["Vegan"] = 0

\* The only way the two producers and the Vegan consumer all come to a stop
\* before the kills is that hold-and-wait; no other order of calls does it.
StallHasOneCause ==
  /\ \A c \in {"producer_Vegan", "producer_Non_Vegan", "consumer_Vegan"} : Blocked(c)
  /\ pc["consumer_Both"] \in {"check", "timed_full"}
  /\ pc["main"] \in {"fork", "watch", "report_Vegan", "report_Non_Vegan"}
  => HoldAndWait

\* Once consumer_Vegan holds and waits with no post on its way, nothing but
\* its own SIGTERM ends the wait: both producers need the mutex to post.
StallIsPermanent ==
  [][HoldAndWait => HoldAndWait' \/ Die("consumer_Vegan")]_vars

\* The parent unmaps and returns only when every child it created has been
\* reaped: no child of this run outlives it.
NoOrphans ==
  pc["main"] \in {"clean_up", "done"}
    => \A c \in Children : pc[c] \in {"reaped", "refused"}

\* SIGINT ends the program: with every child possibly blocked on a semaphore,
\* the parent still gets through its kills and waits (lines 124-145).
ShutdownCompletes ==
  interrupted["main"] ~> pc["main"] \in {"done", "failed"}

\* The visitor of the Vegan dish, and what it did there.
AtVegan == {c \in Children : InCritical(c, "Vegan")}
NotServed == {"wait_full", "scan", "store", "clear"}
VeganDish == INSTANCE Dish WITH
  Visitors <- Children,
  None <- "nobody",
  visitor <- IF AtVegan = {} THEN "nobody" ELSE CHOOSE c \in AtVegan : TRUE,
  served <- \E c \in AtVegan : pc[c] \notin NotServed,
  meals <- buffer["Vegan"]

\* The Vegan dish, semaphores, searches, kills and all, implements Dish.
ImplementsDish == VeganDish!Spec

-----------------------------------------------------------------------------
(* What the program says of itself and does not do.                        *)

\* "take meal Non vegan from buffer non vegan" (line 270): while the program
\* runs, a meal in the Non_Vegan dish gets its consumer to take from it.
NonVeganMealTaken ==
  buffer["Non_Vegan"] # {} ~> pc["consumer_Non_Vegan"] = "clear"
=============================================================================
