---------------------------- MODULE KitchenProofs -----------------------------
(***************************************************************************)
(* Safety of Kitchen for every BUFFER_SIZE, every set of refused forks and *)
(* every set of signalled processes.                                       *)
(***************************************************************************)
EXTENDS Kitchen, WellFoundedInduction, FiniteSetTheorems, TLAPS

-----------------------------------------------------------------------------
(* The inductive invariant.                                                *)

Gone == {"unborn", "refused", "zombie", "reaped"}
ProducerLabels == {"check", "wait_empty", "wait_mutex", "scan", "store", "post_full",
                   "post_mutex"}
ConsumerLabels == {"check", "wait_mutex", "wait_full", "scan", "clear", "post_empty",
                   "post_mutex"}
BothLabels == {"check", "timed_full", "wait_mutex", "scan", "clear", "post_mutex",
               "post_empty"}

\* Each process is at a label of its own program.
LabelInv ==
  /\ pc["main"] \in MainLabels
  /\ pc["producer_Vegan"] \in ProducerLabels \cup Gone
  /\ pc["producer_Non_Vegan"] \in ProducerLabels \cup Gone
  /\ pc["consumer_Vegan"] \in ConsumerLabels \cup Gone
  /\ pc["consumer_Non_Vegan"] \in ConsumerLabels \cup Gone
  /\ pc["consumer_Both"] \in BothLabels \cup Gone

\* The parent's phases: no child before the semaphores exist, children in
\* order while it forks, no SIGTERM before it kills.
Serving == {"fork", "watch", "report_Vegan", "report_Non_Vegan"}
PhaseInv ==
  /\ pc["main"] \in {"setup", "failed"} => \A c \in Children : pc[c] = "unborn"
  /\ pc["main"] = "setup" => \A d \in Dishes : /\ mutex[d] = 0 /\ empty[d] = 0 /\ full[d] = 0
                                            /\ buffer[d] = {}
  /\ pc["main"] = "fork" =>
       /\ step <= 0 => pc["producer_Vegan"] = "unborn"
       /\ step <= 1 => pc["producer_Non_Vegan"] = "unborn"
       /\ step <= 2 => pc["consumer_Vegan"] = "unborn"
       /\ step <= 3 => pc["consumer_Non_Vegan"] = "unborn"
       /\ step <= 4 => pc["consumer_Both"] = "unborn"
  /\ pc["main"] \in Serving \cup {"setup"} => term = {}

\* The semaphore full_Non_Vegan is never posted, so nobody gets past it; and
\* consumer_Both is on the Non_Vegan dish only while it waits for it.
NonVeganInv ==
  /\ full["Non_Vegan"] = 0
  /\ pc["consumer_Non_Vegan"] \in {"check", "wait_mutex", "wait_full"} \cup Gone
  /\ turn = "Non_Vegan" => pc["consumer_Both"] \in {"timed_full", "zombie", "reaped"}

Holds(c, d) == IF InCritical(c, d) THEN 1 ELSE 0

\* A mutex is binary: free, or in the hand of one process, or lost with one.
MutexInv ==
  \A d \in Dishes :
    mutex[d] + Holds("producer_Vegan", d) + Holds("producer_Non_Vegan", d)
      + Holds("consumer_Vegan", d) + Holds("consumer_Non_Vegan", d)
      + Holds("consumer_Both", d) <= 1

IInv == TypeOK /\ LabelInv /\ PhaseInv /\ NonVeganInv /\ MutexInv /\ TokenConservation

-----------------------------------------------------------------------------
(* The search operator.                                                    *)

\* A nonempty set of natural numbers has a least element.
LEMMA LeastExists ==
  ASSUME NEW S \in SUBSET Nat, S # {}
  PROVE  \E i \in S : \A j \in S : i <= j
<1>1. \E i \in S : \A j \in S : <<j, i>> \notin OpToRel(<, Nat)
  BY WFMin, NatLessThanWellFounded
<1>2. \A i, j \in Nat : <<j, i>> \notin OpToRel(<, Nat) => i <= j
  BY DEF OpToRel
<1> QED BY <1>1, <1>2

\* First finds an element of the set it searches, or returns 0 if it is empty.
LEMMA FirstFinds ==
  ASSUME NEW S \in SUBSET Slots
  PROVE  /\ S # {} => First(S) \in S
         /\ S = {} => First(S) = 0
         /\ First(S) \in 0..BufferSize
<1>1. S # {} => \E i \in S : \A j \in S : i <= j
  BY LeastExists, BufferSizeAssumption DEF Slots
<1>2. S # {} => First(S) \in S
  BY <1>1 DEF First
<1>3. S = {} => First(S) = 0
  BY DEF First
<1>4. S # {} => First(S) \in 0..BufferSize
  <2>1. S # {} => First(S) \in Slots BY <1>2
  <2> QED BY <2>1, BufferSizeAssumption DEF Slots
<1>5. S = {} => First(S) \in 0..BufferSize
  BY <1>3, BufferSizeAssumption
<1> QED BY <1>2, <1>3, <1>4, <1>5

-----------------------------------------------------------------------------
(* Each process preserves the invariant.  The strings that name processes, *)
(* dishes and labels are told apart by the provers; a child's step moves   *)
(* its own pc only, so each conjunct is one case analysis over its steps.  *)

\* What a search leaves in slot is a slot or 0.
LEMMA SearchInRange ==
  ASSUME TypeOK, NEW d \in Dishes
  PROVE  /\ First(buffer[d]) \in 0..BufferSize
         /\ First(Slots \ buffer[d]) \in 0..BufferSize
<1>1. buffer[d] \in SUBSET Slots
  BY DEF TypeOK
<1> QED BY <1>1, FirstFinds

\* Every step a child is built from keeps the types, whoever takes it.
LEMMA PrimitiveTypes ==
  ASSUME TypeOK, NEW c \in Children, NEW d \in Dishes, NEW next \in ChildLabels, NEW from
  PROVE  /\ Check(c, next) => TypeOK'
         /\ WaitMutex(c, d, next) => TypeOK'
         /\ PostMutex(c, d, next) => TypeOK'
         /\ WaitEmpty(c, d, next) => TypeOK'
         /\ PostEmpty(c, d, next) => TypeOK'
         /\ WaitFull(c, d, from, next) => TypeOK'
         /\ PostFull(c, d, next) => TypeOK'
         /\ write_to_buffer(c, d, next) => TypeOK'
         /\ read_from_buffer(c, d, next) => TypeOK'
         /\ TimeOut(c) => TypeOK'
         /\ BothPostEmpty(c) => TypeOK'
<1> USE DEF Goto, shared, Procs, ChildLabels
<1>1. Check(c, next) => TypeOK' BY DEF TypeOK, Check
<1>2. WaitMutex(c, d, next) => TypeOK' BY DEF TypeOK, WaitMutex
<1>3. PostMutex(c, d, next) => TypeOK' BY DEF TypeOK, PostMutex
<1>4. WaitEmpty(c, d, next) => TypeOK' BY DEF TypeOK, WaitEmpty
<1>5. PostEmpty(c, d, next) => TypeOK' BY DEF TypeOK, PostEmpty
<1>6. WaitFull(c, d, from, next) => TypeOK' BY DEF TypeOK, WaitFull
<1>7. PostFull(c, d, next) => TypeOK' BY DEF TypeOK, PostFull
<1>8. write_to_buffer(c, d, next) => TypeOK'
  BY SearchInRange, BufferSizeAssumption DEF TypeOK, write_to_buffer, Slots
<1>9. read_from_buffer(c, d, next) => TypeOK'
  <2>1. CASE Goto(c, "scan", "clear") /\ read_from_buffer(c, d, next)
    <3>1. First(buffer[d]) \in 0..BufferSize
      BY SearchInRange
    <3>2. slot' \in [Children -> 0..BufferSize]
      BY <2>1, <3>1 DEF TypeOK, read_from_buffer
    <3> QED BY <2>1, <3>2 DEF TypeOK, read_from_buffer
  <2>2. CASE Goto(c, "clear", next) /\ read_from_buffer(c, d, next)
    <3>1. buffer' \in [Dishes -> SUBSET Slots]
      BY <2>2 DEF TypeOK, read_from_buffer
    <3> QED BY <2>2, <3>1, BufferSizeAssumption DEF TypeOK, read_from_buffer
  <2> QED BY <2>1, <2>2 DEF read_from_buffer
<1>10. TimeOut(c) => TypeOK' BY DEF TypeOK, TimeOut, Dishes
<1>11. BothPostEmpty(c) => TypeOK' BY DEF TypeOK, BothPostEmpty, Dishes
<1> QED BY <1>1, <1>2, <1>3, <1>4, <1>5, <1>6, <1>7, <1>8, <1>9, <1>10, <1>11

\* The Vegan producer's round takes empty[Vegan] and mutex_Vegan and gives back
\* full[Vegan] and the mutex (197-221).
LEMMA ProducerVeganStep == IInv /\ producer_Vegan_Process => IInv'
<1> SUFFICES ASSUME IInv, producer_Vegan_Process PROVE IInv'
  OBVIOUS
<1>1. TypeOK'
  <2>1. TypeOK /\ turn \in Dishes BY DEF IInv, TypeOK
  <2> QED BY <2>1, PrimitiveTypes DEF Children, Dishes, ChildLabels, producer_Vegan_Process, Produce
<1> USE DEF Procs, Children, Dishes, shared, Goto, producer_Vegan_Process, Produce, Check, WaitEmpty, WaitMutex, write_to_buffer, PostFull, PostMutex
<1>2. LabelInv'
  BY DEF IInv, TypeOK, LabelInv, NonVeganInv, Gone, ProducerLabels, ConsumerLabels, BothLabels
<1>3. PhaseInv'
  BY ZenonT(40) DEF IInv, TypeOK, PhaseInv, Serving
<1>4. NonVeganInv'
  BY DEF IInv, TypeOK, NonVeganInv, LabelInv, Gone, BothLabels
<1>5. MutexInv'
  BY DEF IInv, TypeOK, LabelInv, MutexInv, NonVeganInv, Holds, InCritical, SemDish, Gone
<1>6. TokenConservation'
  BY DEF IInv, TypeOK, LabelInv, TokenConservation, NonVeganInv, InFlight, Tokens, HasToken, SemDish, Gone
<1> QED BY <1>1, <1>2, <1>3, <1>4, <1>5, <1>6 DEF IInv

\* The other producer does so with the same semaphores; its slots are in the
\* dish whose takers NonVeganInv keeps out (231-255).
LEMMA ProducerNonVeganStep == IInv /\ producer_Non_Vegan_Process => IInv'
<1> SUFFICES ASSUME IInv, producer_Non_Vegan_Process PROVE IInv'
  OBVIOUS
<1>1. TypeOK'
  <2>1. TypeOK /\ turn \in Dishes BY DEF IInv, TypeOK
  <2> QED BY <2>1, PrimitiveTypes DEF Children, Dishes, ChildLabels, producer_Non_Vegan_Process, Produce
<1> USE DEF Procs, Children, Dishes, shared, Goto, producer_Non_Vegan_Process, Produce, Check, WaitEmpty, WaitMutex, write_to_buffer, PostFull, PostMutex
<1>2. LabelInv'
  BY DEF IInv, TypeOK, LabelInv, NonVeganInv, Gone, ProducerLabels, ConsumerLabels, BothLabels
<1>3. PhaseInv'
  BY ZenonT(40) DEF IInv, TypeOK, PhaseInv, Serving
<1>4. NonVeganInv'
  BY DEF IInv, TypeOK, NonVeganInv, LabelInv, Gone, BothLabels
<1>5. MutexInv'
  BY DEF IInv, TypeOK, LabelInv, MutexInv, NonVeganInv, Holds, InCritical, SemDish, Gone
<1>6. TokenConservation'
  BY DEF IInv, TypeOK, LabelInv, TokenConservation, NonVeganInv, InFlight, Tokens, HasToken, SemDish, Gone
<1> QED BY <1>1, <1>2, <1>3, <1>4, <1>5, <1>6 DEF IInv

\* consumer_Vegan takes the mutex first and the token of a meal after it
\* (298-322).
LEMMA ConsumerVeganStep == IInv /\ consumer_Vegan_Process => IInv'
<1> SUFFICES ASSUME IInv, consumer_Vegan_Process PROVE IInv'
  OBVIOUS
<1>1. TypeOK'
  <2>1. TypeOK /\ turn \in Dishes BY DEF IInv, TypeOK
  <2> QED BY <2>1, PrimitiveTypes DEF Children, Dishes, ChildLabels, consumer_Vegan_Process, Consume
<1> USE DEF Procs, Children, Dishes, shared, Goto, consumer_Vegan_Process, Consume, Check, WaitMutex, WaitFull, read_from_buffer, PostEmpty, PostMutex
<1>2. LabelInv'
  BY DEF IInv, TypeOK, LabelInv, NonVeganInv, Gone, ProducerLabels, ConsumerLabels, BothLabels
<1>3. PhaseInv'
  BY ZenonT(40) DEF IInv, TypeOK, PhaseInv, Serving
<1>4. NonVeganInv'
  BY DEF IInv, TypeOK, NonVeganInv, LabelInv, Gone, BothLabels
<1>5. MutexInv'
  BY DEF IInv, TypeOK, LabelInv, MutexInv, NonVeganInv, Holds, InCritical, SemDish, Gone
<1>6. TokenConservation'
  BY DEF IInv, TypeOK, LabelInv, TokenConservation, NonVeganInv, InFlight, Tokens, HasToken, SemDish, Gone
<1> QED BY <1>1, <1>2, <1>3, <1>4, <1>5, <1>6 DEF IInv

\* consumer_Non_Vegan takes the mutex and goes no further (264-288).
LEMMA ConsumerNonVeganStep == IInv /\ consumer_Non_Vegan_Process => IInv'
<1> SUFFICES ASSUME IInv, consumer_Non_Vegan_Process PROVE IInv'
  OBVIOUS
<1>1. TypeOK'
  <2>1. TypeOK /\ turn \in Dishes BY DEF IInv, TypeOK
  <2> QED BY <2>1, PrimitiveTypes DEF Children, Dishes, ChildLabels, consumer_Non_Vegan_Process, Consume
<1> USE DEF Procs, Children, Dishes, shared, Goto, consumer_Non_Vegan_Process, Consume, Check, WaitMutex, WaitFull, read_from_buffer, PostEmpty, PostMutex
<1>2. LabelInv'
  BY DEF IInv, TypeOK, LabelInv, NonVeganInv, Gone, ProducerLabels, ConsumerLabels, BothLabels
<1>3. PhaseInv'
  BY ZenonT(40) DEF IInv, TypeOK, PhaseInv, Serving
<1>4. NonVeganInv'
  BY DEF IInv, TypeOK, NonVeganInv, LabelInv, Gone, BothLabels
<1>5. MutexInv'
  BY DEF IInv, TypeOK, LabelInv, MutexInv, NonVeganInv, Holds, InCritical, SemDish, Gone
<1>6. TokenConservation'
  BY DEF IInv, TypeOK, LabelInv, TokenConservation, NonVeganInv, InFlight, Tokens, HasToken, SemDish, Gone
<1> QED BY <1>1, <1>2, <1>3, <1>4, <1>5, <1>6 DEF IInv

\* consumer_Both gives up on a dish without taking anything from it, and gets
\* past the wait on the Vegan dish only (332-387).
LEMMA ConsumerBothStep == IInv /\ consumer_Both_Process => IInv'
<1> SUFFICES ASSUME IInv, consumer_Both_Process PROVE IInv'
  OBVIOUS
<1>1. TypeOK'
  <2>1. TypeOK /\ turn \in Dishes BY DEF IInv, TypeOK
  <2> QED BY <2>1, PrimitiveTypes DEF Children, Dishes, ChildLabels, consumer_Both_Process
<1> USE DEF Procs, Children, Dishes, shared, Goto, consumer_Both_Process, Check, WaitFull, TimeOut, WaitMutex, read_from_buffer, PostMutex, BothPostEmpty
<1>2. LabelInv'
  BY DEF IInv, TypeOK, LabelInv, NonVeganInv, Gone, ProducerLabels, ConsumerLabels, BothLabels
<1>3. PhaseInv'
  BY ZenonT(40) DEF IInv, TypeOK, PhaseInv, Serving
<1>4. NonVeganInv'
  BY DEF IInv, TypeOK, NonVeganInv, LabelInv, Gone, BothLabels
<1>5. MutexInv'
  BY DEF IInv, TypeOK, LabelInv, MutexInv, NonVeganInv, Holds, InCritical, SemDish, Gone
<1>6. TokenConservation'
  BY DEF IInv, TypeOK, LabelInv, TokenConservation, NonVeganInv, InFlight, Tokens, HasToken, SemDish, Gone
<1> QED BY <1>1, <1>2, <1>3, <1>4, <1>5, <1>6 DEF IInv

\* The parent makes the semaphores before the children, and does not signal
\* before it has made them all (46-160).
LEMMA MainStep == IInv /\ main => IInv'
<1> SUFFICES ASSUME IInv, main PROVE IInv'
  OBVIOUS
<1> USE DEF Procs, Children, Dishes, shared, Goto
<1>1. CASE Setup
  <2> USE <1>1, BufferSizeAssumption DEF Setup, IInv, TypeOK, PhaseInv
  <2>1. TypeOK' BY DEF MainLabels
  <2>2. LabelInv' BY DEF LabelInv, MainLabels
  <2>3. PhaseInv' BY DEF Serving
  <2>4. NonVeganInv' BY DEF NonVeganInv
  <2>5. MutexInv' BY DEF Holds, InCritical, MutexInv
  <2>6. TokenConservation' BY DEF InFlight, Tokens, HasToken, TokenConservation
  <2> QED BY <2>1, <2>2, <2>3, <2>4, <2>5, <2>6
<1>2. CASE Fork
  <2> USE <1>2 DEF Fork, ForkOrder, IInv, TypeOK
  <2>0. step \in 0..4
    OBVIOUS
  <2>1. TypeOK'
    <3>1. ForkOrder[step + 1] \in Children BY <2>0
    <3> QED BY <2>0, <3>1 DEF ChildLabels
  <2>2. LabelInv'
    BY <2>0 DEF LabelInv, Gone, ProducerLabels, ConsumerLabels, BothLabels
  <2>3. PhaseInv'
    BY <2>0 DEF PhaseInv, Serving
  <2>4. NonVeganInv'
    BY <2>0 DEF NonVeganInv, PhaseInv, Gone
  <2>5. MutexInv'
    BY <2>0 DEF PhaseInv, MutexInv, Holds, InCritical, SemDish
  <2>6. TokenConservation'
    BY <2>0 DEF PhaseInv, TokenConservation, InFlight, Tokens, HasToken, SemDish
  <2> QED BY <2>1, <2>2, <2>3, <2>4, <2>5, <2>6
<1>3. CASE wait_for_children
  <2> USE <1>3 DEF wait_for_children, NumChildren, IInv, TypeOK
  <2>1. TypeOK' OBVIOUS
  <2>2. LabelInv'
    BY DEF LabelInv, Gone
  <2>3. PhaseInv'
    BY DEF PhaseInv, Serving
  <2>4. NonVeganInv'
    BY DEF NonVeganInv, Gone
  <2>5. MutexInv'
    BY DEF MutexInv, Holds, InCritical, SemDish
  <2>6. TokenConservation'
    BY DEF TokenConservation, InFlight, Tokens, HasToken, SemDish
  <2> QED BY <2>1, <2>2, <2>3, <2>4, <2>5, <2>6
<1>4. CASE \/ SetupFails \/ AllForked \/ Watch \/ \E d \in Dishes : Report(d)
           \/ Kill \/ AllKilled \/ AllWaited \/ clean_up
  <2> DEFINE quiet == /\ \A c \in Children : pc'[c] = pc[c]
                      /\ UNCHANGED <<buffer, mutex, empty, full, slot, turn, interrupted>>
  <2> USE DEF IInv, TypeOK
  <2>1. TypeOK' /\ quiet /\ (pc'["main"] \in Serving => pc["main"] \in Serving)
    <3> USE DEF MainLabels, Serving
    <3>1. CASE SetupFails BY <3>1 DEF SetupFails
    <3>2. CASE AllForked BY <3>2 DEF AllForked
    <3>3. CASE Watch BY <3>3 DEF Watch
    <3>4. ASSUME NEW d \in Dishes, Report(d)
          PROVE  TypeOK' /\ quiet /\ (pc'["main"] \in Serving => pc["main"] \in Serving)
      BY <3>4 DEF Report
    <3>5. CASE Kill
      <4>1. PICK c : term' = term \cup {k \in IF pc[c] = "refused" THEN Children ELSE {c} :
                                          Alive(k)}
                     /\ c = ForkOrder[step + 1]
        BY <3>5 DEF Kill
      <4>2. step \in 0..4 /\ step' = step + 1 /\ c \in Children
        BY <3>5, <4>1 DEF Kill, ForkOrder
      <4>3. term' \subseteq Children
        BY <4>1, <4>2
      <4> QED BY <3>5, <4>2, <4>3 DEF Kill
    <3>6. CASE AllKilled BY <3>6 DEF AllKilled
    <3>7. CASE AllWaited BY <3>7 DEF AllWaited
    <3>8. CASE clean_up BY <3>8 DEF clean_up
    <3> QED BY <1>4, <3>1, <3>2, <3>3, <3>4, <3>5, <3>6, <3>7, <3>8
  <2>2. LabelInv'
    BY <1>4, <2>1 DEF LabelInv, MainLabels, SetupFails, AllForked, Watch, Report, Kill,
       AllKilled, AllWaited, clean_up
  <2>3. PhaseInv'
    BY <1>4, ZenonT(40) DEF PhaseInv, Serving, SetupFails, AllForked, Watch, Report, Kill,
       AllKilled, AllWaited, clean_up
  <2>4. NonVeganInv'
    BY <2>1 DEF NonVeganInv
  <2>5. MutexInv'
    BY <2>1 DEF MutexInv, Holds, InCritical, SemDish
  <2>6. TokenConservation'
    BY <2>1 DEF TokenConservation, InFlight, Tokens, HasToken, SemDish, Serving
  <2> QED BY <2>1, <2>2, <2>3, <2>4, <2>5, <2>6
<1> QED BY <1>1, <1>2, <1>3, <1>4 DEF main

\* A child's death by SIGTERM loses what it carries, only after the kills; a
\* handled signal changes a flag (148-151).
LEMMA SignalStep ==
  IInv /\ ((\E c \in Children : Die(c)) \/ (\E p \in Procs : handle_signal(p))) => IInv'
<1>1. ASSUME IInv, NEW c \in Children, Die(c) PROVE IInv'
  <2> USE <1>1, BufferSizeAssumption DEF Die, Alive, Procs, Children, Dishes, shared, IInv, TypeOK
  <2>1. TypeOK' OBVIOUS
  <2>2. LabelInv'
    BY DEF LabelInv, Gone, MainLabels, ChildLabels
  <2>3. PhaseInv'
    BY DEF PhaseInv, Serving, ChildLabels
  <2>4. NonVeganInv'
    BY DEF NonVeganInv, Gone
  <2>5. MutexInv'
    BY DEF MutexInv, Holds, InCritical, SemDish
  <2>6. TokenConservation'
    BY DEF TokenConservation, InFlight, Tokens, HasToken, SemDish, PhaseInv, Serving
  <2> QED BY <2>1, <2>2, <2>3, <2>4, <2>5, <2>6
<1>2. ASSUME IInv, NEW p \in Procs, handle_signal(p) PROVE IInv'
  <2> USE DEF IInv
  <2>1. UNCHANGED <<buffer, mutex, empty, full, pc, slot, turn, term, step>>
    BY <1>2 DEF handle_signal, shared
  <2>2. TypeOK' BY <1>2, <2>1 DEF handle_signal, TypeOK
  <2>3. LabelInv' BY <1>2, <2>1 DEF LabelInv
  <2>4. PhaseInv' BY <1>2, <2>1 DEF PhaseInv
  <2>5. NonVeganInv' BY <1>2, <2>1 DEF NonVeganInv
  <2>6. MutexInv' BY <1>2, <2>1 DEF MutexInv, Holds, InCritical, SemDish
  <2>7. TokenConservation'
    BY <1>2, <2>1 DEF TokenConservation, InFlight, Tokens, HasToken, SemDish
  <2> QED BY <2>2, <2>3, <2>4, <2>5, <2>6, <2>7
<1> QED BY <1>1, <1>2

-----------------------------------------------------------------------------
(* The theorems.                                                           *)

\* The state before main's first call satisfies the invariant (27-49).
LEMMA InitInv == Init => IInv
<1> SUFFICES ASSUME Init PROVE IInv
  OBVIOUS
<1> USE BufferSizeAssumption DEF Init, Procs, Children, Dishes
<1>1. TypeOK BY DEF TypeOK, MainLabels
<1>2. LabelInv BY DEF LabelInv, MainLabels, Gone
<1>3. PhaseInv BY DEF PhaseInv, Serving
<1>4. NonVeganInv BY DEF NonVeganInv, Gone
<1>5. MutexInv BY DEF MutexInv, Holds, InCritical, SemDish
<1>6. TokenConservation BY DEF TokenConservation, InFlight, Tokens, HasToken, SemDish
<1> QED BY <1>1, <1>2, <1>3, <1>4, <1>5, <1>6 DEF IInv

\* Nothing in the invariant depends on anything but vars.
LEMMA StutterStep == IInv /\ UNCHANGED vars => IInv'
<1> SUFFICES ASSUME IInv, UNCHANGED vars PROVE IInv'
  OBVIOUS
<1> USE DEF IInv
<1>1. UNCHANGED <<buffer, mutex, empty, full, pc, slot, turn, interrupted, term, step>>
  BY DEF vars
<1>2. TypeOK' BY <1>1 DEF TypeOK
<1>3. LabelInv' BY <1>1 DEF LabelInv
<1>4. PhaseInv' BY <1>1 DEF PhaseInv
<1>5. NonVeganInv' BY <1>1 DEF NonVeganInv
<1>6. MutexInv' BY <1>1 DEF MutexInv, Holds, InCritical, SemDish
<1>7. TokenConservation'
  BY <1>1 DEF TokenConservation, InFlight, Tokens, HasToken, SemDish
<1> QED BY <1>2, <1>3, <1>4, <1>5, <1>6, <1>7

\* The invariant is inductive.
THEOREM InductiveInvariant == Spec => []IInv
<1>1. IInv /\ [Next]_vars => IInv'
  BY ProducerVeganStep, ProducerNonVeganStep, ConsumerVeganStep, ConsumerNonVeganStep,
     ConsumerBothStep, MainStep, SignalStep, StutterStep DEF Next, Child, Terminated
<1> QED BY <1>1, InitInv, PTL DEF Spec

\* Every variable keeps its type.
THEOREM TypeCorrectness == Spec => []TypeOK
<1>1. IInv => TypeOK BY DEF IInv
<1> QED BY <1>1, InductiveInvariant, PTL

\* No slot of a dish is searched or assigned by two processes at once.
THEOREM ExclusionTheorem == Spec => []DishExclusion
<1>1. IInv => DishExclusion
  <2> SUFFICES ASSUME IInv, NEW d \in Dishes, NEW a \in Children, NEW b \in Children,
                      AtSlots(a, d), AtSlots(b, d)
               PROVE  a = b
    BY DEF DishExclusion
  <2> USE DEF IInv, TypeOK, LabelInv, NonVeganInv, AtSlots, SlotDish, SemDish, Children, Dishes
  <2>1. CASE d = "Non_Vegan"
    BY <2>1 DEF Gone
  <2>2. CASE d = "Vegan"
    <3>1. a # "producer_Non_Vegan" /\ b # "producer_Non_Vegan"
      BY <2>2
    <3>2. Holds(a, d) = 1 /\ Holds(b, d) = 1
      BY <3>1 DEF Holds, InCritical
    <3> QED BY <2>2, <3>1, <3>2 DEF MutexInv, Holds
  <2> QED BY <2>1, <2>2
<1> QED BY <1>1, InductiveInvariant, PTL

\* No path through a child gains a token, or loses one before the kills.
THEOREM ConservationTheorem == Spec => []TokenConservation
<1>1. IInv => TokenConservation BY DEF IInv
<1> QED BY <1>1, InductiveInvariant, PTL

\* While consumer_Vegan holds mutex_Vegan and full_Vegan is 0, no step of
\* another process posts full_Vegan or moves consumer_Vegan.
LEMMA StallStep ==
  IInv /\ HoldAndWait /\ [Next]_vars => HoldAndWait' \/ Die("consumer_Vegan")
<1> SUFFICES ASSUME IInv, HoldAndWait, [Next]_vars, ~Die("consumer_Vegan")
             PROVE  HoldAndWait'
  OBVIOUS
<1> USE DEF HoldAndWait, Children, Dishes, Procs, shared, Goto
<1>0. TypeOK /\ LabelInv /\ PhaseInv
  BY DEF IInv
<1>1. /\ pc["producer_Vegan"] # "post_full"
      /\ pc["producer_Non_Vegan"] # "post_full"
  BY DEF IInv, TypeOK, MutexInv, Holds, InCritical, SemDish
<1>2. CASE producer_Vegan_Process
  BY <1>0, <1>1, <1>2 DEF TypeOK, producer_Vegan_Process, Produce, Check, WaitEmpty, WaitMutex,
     write_to_buffer, PostFull, PostMutex
<1>3. CASE producer_Non_Vegan_Process
  BY <1>0, <1>1, <1>3 DEF TypeOK, producer_Non_Vegan_Process, Produce, Check, WaitEmpty,
     WaitMutex, write_to_buffer, PostFull, PostMutex
<1>4. CASE consumer_Vegan_Process
  BY <1>0, <1>4 DEF TypeOK, consumer_Vegan_Process, Consume, Check, WaitMutex, WaitFull,
     read_from_buffer, PostEmpty, PostMutex
<1>5. CASE consumer_Non_Vegan_Process
  BY <1>0, <1>5 DEF TypeOK, consumer_Non_Vegan_Process, Consume, Check, WaitMutex, WaitFull,
     read_from_buffer, PostEmpty, PostMutex
<1>6. CASE consumer_Both_Process
  BY <1>0, <1>6 DEF TypeOK, consumer_Both_Process, Check, WaitFull, TimeOut, WaitMutex,
     read_from_buffer, PostMutex, BothPostEmpty
<1>7. CASE main
  <2>1. CASE Setup
    BY <1>0, <2>1 DEF Setup, PhaseInv
  <2>2. CASE Fork
    <3>1. step \in 0..4
      BY <1>0, <2>2 DEF Fork, TypeOK
    <3>2. ForkOrder[step + 1] \in Children /\ ForkOrder[step + 1] # "consumer_Vegan"
      BY <1>0, <2>2, <3>1 DEF Fork, ForkOrder, PhaseInv
    <3> QED BY <1>0, <2>2, <3>2 DEF Fork, TypeOK
  <2>3. CASE wait_for_children
    BY <1>0, <2>3 DEF wait_for_children, TypeOK
  <2>4. CASE \/ SetupFails \/ AllForked \/ Watch \/ \E d \in Dishes : Report(d)
             \/ Kill \/ AllKilled \/ AllWaited \/ clean_up
    BY <1>0, <2>4 DEF TypeOK, SetupFails, AllForked, Watch, Report, Kill, AllKilled, AllWaited,
       clean_up
  <2> QED BY <1>7, <2>1, <2>2, <2>3, <2>4 DEF main
<1>8. ASSUME NEW c \in Children, Die(c) PROVE HoldAndWait'
  BY <1>0, <1>8 DEF Die, TypeOK
<1>9. ASSUME NEW p \in Procs, handle_signal(p) PROVE HoldAndWait'
  BY <1>9 DEF handle_signal
<1>10. CASE Terminated \/ UNCHANGED vars
  BY <1>10 DEF Terminated, vars
<1> QED BY <1>2, <1>3, <1>4, <1>5, <1>6, <1>7, <1>8, <1>9, <1>10 DEF Next, Child

\* A consumer_Vegan that holds the mutex of an empty dish is there for good
\* (300-301): the posts it waits for need the mutex it has.
THEOREM StallTheorem == Spec => StallIsPermanent
<1>1. IInv /\ [Next]_vars =>
        [HoldAndWait => HoldAndWait' \/ Die("consumer_Vegan")]_vars
  BY StallStep
<1> QED BY <1>1, InductiveInvariant, PTL DEF Spec, StallIsPermanent

-----------------------------------------------------------------------------
(* More that holds in every state: the exact mutex, the wait, the meals.   *)

\* While nobody kills, a mutex is free or in the hand of one process, and never
\* lost.
ExactInv ==
  pc["main"] \in Serving =>
    \A d \in Dishes :
      mutex[d] + Holds("producer_Vegan", d) + Holds("producer_Non_Vegan", d)
        + Holds("consumer_Vegan", d) + Holds("consumer_Non_Vegan", d)
        + Holds("consumer_Both", d) = 1

\* The mutexes start at 1 before there is a child; a child that ends by itself
\* holds none, and no child is killed before line 135.
LEMMA ExactStep == IInv /\ ExactInv /\ [Next]_vars => ExactInv'
<1> SUFFICES ASSUME IInv, ExactInv, [Next]_vars PROVE ExactInv'
  OBVIOUS
<1> USE DEF Procs, Children, Dishes, shared, Goto, Holds, InCritical, SemDish, ExactInv
<1>0. TypeOK /\ LabelInv /\ PhaseInv /\ NonVeganInv
  BY DEF IInv
<1>1. CASE producer_Vegan_Process
  BY <1>0, <1>1 DEF TypeOK, LabelInv, Gone, producer_Vegan_Process, Produce, Check, WaitEmpty,
     WaitMutex, write_to_buffer, PostFull, PostMutex
<1>2. CASE producer_Non_Vegan_Process
  BY <1>0, <1>2 DEF TypeOK, LabelInv, Gone, producer_Non_Vegan_Process, Produce, Check,
     WaitEmpty, WaitMutex, write_to_buffer, PostFull, PostMutex
<1>3. CASE consumer_Vegan_Process
  BY <1>0, <1>3 DEF TypeOK, LabelInv, Gone, consumer_Vegan_Process, Consume, Check, WaitMutex,
     WaitFull, read_from_buffer, PostEmpty, PostMutex
<1>4. CASE consumer_Non_Vegan_Process
  BY <1>0, <1>4 DEF TypeOK, LabelInv, Gone, consumer_Non_Vegan_Process, Consume, Check,
     WaitMutex, WaitFull, read_from_buffer, PostEmpty, PostMutex
<1>5. CASE consumer_Both_Process
  BY <1>0, <1>5 DEF TypeOK, LabelInv, NonVeganInv, Gone, consumer_Both_Process, Check, WaitFull,
     TimeOut, WaitMutex, read_from_buffer, PostMutex, BothPostEmpty
<1>6. CASE main
  <2>1. CASE Setup
    BY <1>0, <2>1 DEF Setup, TypeOK, PhaseInv
  <2>2. CASE Fork
    <3>1. step \in 0..4
      BY <1>0, <2>2 DEF Fork, TypeOK
    <3>2. ForkOrder[step + 1] \in Children /\ pc[ForkOrder[step + 1]] = "unborn"
      BY <1>0, <2>2, <3>1 DEF Fork, ForkOrder, PhaseInv
    <3>3. /\ pc'["main"] = pc["main"] /\ UNCHANGED <<mutex, turn>>
          /\ pc'[ForkOrder[step + 1]] \in {"check", "refused"}
          /\ \A c \in Children \ {ForkOrder[step + 1]} : pc'[c] = pc[c]
      BY <1>0, <2>2, <3>2 DEF Fork, TypeOK
    <3>4. \A c \in Children, d \in Dishes : Holds(c, d)' = Holds(c, d)
      BY <3>2, <3>3
    <3> QED BY <3>3, <3>4
  <2>3. CASE wait_for_children
    BY <1>0, <2>3 DEF wait_for_children, TypeOK, Serving
  <2>4. CASE \/ SetupFails \/ AllForked \/ Watch \/ \E d \in Dishes : Report(d)
             \/ Kill \/ AllKilled \/ AllWaited \/ clean_up
    BY <1>0, <2>4 DEF TypeOK, Serving, SetupFails, AllForked, Watch, Report, Kill, AllKilled,
       AllWaited, clean_up
  <2> QED BY <1>6, <2>1, <2>2, <2>3, <2>4 DEF main
<1>7. ASSUME NEW c \in Children, Die(c) PROVE ExactInv'
  BY <1>0, <1>7 DEF Die, TypeOK, PhaseInv
<1>8. ASSUME NEW p \in Procs, handle_signal(p) PROVE ExactInv'
  BY <1>8 DEF handle_signal
<1>9. CASE Terminated \/ UNCHANGED vars
  BY <1>9 DEF Terminated, vars
<1> QED BY <1>1, <1>2, <1>3, <1>4, <1>5, <1>6, <1>7, <1>8, <1>9 DEF Next, Child

\* Producers and consumers stop together only over a consumer_Vegan that sleeps
\* with the mutex (300-301): a mutex that is gone is in somebody's hand.
THEOREM OneCauseTheorem == Spec => []StallHasOneCause
<1>1. Init => ExactInv
  BY DEF Init, ExactInv, Serving, Procs
<1>2. IInv /\ ExactInv => StallHasOneCause
  BY DEF IInv, TypeOK, LabelInv, NonVeganInv, Gone, ProducerLabels, ConsumerLabels, BothLabels,
     ExactInv, Holds, InCritical, SemDish, Serving, StallHasOneCause, HoldAndWait, Blocked,
     Children, Dishes
<1> QED BY <1>1, <1>2, ExactStep, InductiveInvariant, PTL DEF Spec

Reaped(c) == IF pc[c] = "reaped" THEN 1 ELSE 0
AllGone == \A c \in Children : pc[c] \in {"reaped", "refused"}

\* A wait that has returned has reaped a child, or there was none left.
WaitInv ==
  /\ pc["main"] = "wait" =>
       \/ AllGone
       \/ step <= Reaped("producer_Vegan") + Reaped("producer_Non_Vegan")
                    + Reaped("consumer_Vegan") + Reaped("consumer_Non_Vegan")
                    + Reaped("consumer_Both")
  /\ pc["main"] \in {"clean_up", "done"} => AllGone

\* Children do not touch what the parent counts: a child that is reaped or was
\* refused takes no step, and one that steps is not reaped by it.
LEMMA ChildrenKeepCount ==
  ASSUME IInv, Child \/ (\E c \in Children : Die(c)) \/ (\E p \in Procs : handle_signal(p))
  PROVE  /\ pc'["main"] = pc["main"] /\ step' = step
         /\ \A c \in Children : /\ pc[c] \in {"reaped", "refused"} => pc'[c] = pc[c]
                                /\ pc'[c] = "reaped" => pc[c] = "reaped"
<1> USE DEF IInv, TypeOK, LabelInv, Procs, Children, Goto
<1>1. CASE producer_Vegan_Process
  BY <1>1 DEF producer_Vegan_Process, Produce, Check, WaitEmpty, WaitMutex, write_to_buffer,
     PostFull, PostMutex
<1>2. CASE producer_Non_Vegan_Process
  BY <1>2 DEF producer_Non_Vegan_Process, Produce, Check, WaitEmpty, WaitMutex,
     write_to_buffer, PostFull, PostMutex
<1>3. CASE consumer_Vegan_Process
  BY <1>3 DEF consumer_Vegan_Process, Consume, Check, WaitMutex, WaitFull, read_from_buffer,
     PostEmpty, PostMutex
<1>4. CASE consumer_Non_Vegan_Process
  BY <1>4 DEF consumer_Non_Vegan_Process, Consume, Check, WaitMutex, WaitFull,
     read_from_buffer, PostEmpty, PostMutex
<1>5. CASE consumer_Both_Process
  BY <1>5 DEF consumer_Both_Process, Check, WaitFull, TimeOut, WaitMutex, read_from_buffer,
     PostMutex, BothPostEmpty
<1>6. CASE \E c \in Children : Die(c)
  BY <1>6 DEF Die, Alive, ChildLabels
<1>7. CASE \E p \in Procs : handle_signal(p)
  BY <1>7 DEF handle_signal
<1> QED BY <1>1, <1>2, <1>3, <1>4, <1>5, <1>6, <1>7 DEF Child

\* Five waits that each reaped a child have reaped all five.
LEMMA WaitStep == IInv /\ WaitInv /\ [Next]_vars => WaitInv'
<1> SUFFICES ASSUME IInv, WaitInv, [Next]_vars PROVE WaitInv'
  OBVIOUS
<1>0. TypeOK
  BY DEF IInv
<1>1. CASE Child \/ (\E c \in Children : Die(c)) \/ (\E p \in Procs : handle_signal(p))
  BY <1>0, <1>1, ChildrenKeepCount DEF WaitInv, AllGone, Reaped, Children
<1>2. CASE main
  <2> USE <1>0 DEF TypeOK, WaitInv, AllGone, Reaped, Procs, Children, Goto
  <2>1. CASE wait_for_children
    <3>1. CASE \E c \in Children : Goto(c, "zombie", "reaped")
      BY <2>1, <3>1 DEF wait_for_children, NumChildren
    <3>2. CASE AllGone /\ UNCHANGED pc
      BY <2>1, <3>2 DEF wait_for_children
    <3> QED BY <2>1, <3>1, <3>2 DEF wait_for_children
  <2>2. CASE AllWaited
    <3>1. AllGone
      BY <2>2 DEF AllWaited, NumChildren
    <3> QED BY <2>2, <3>1 DEF AllWaited
  <2>3. CASE AllKilled
    BY <2>3 DEF AllKilled
  <2>4. CASE clean_up
    BY <2>4 DEF clean_up
  <2>5. CASE Setup \/ SetupFails \/ Fork \/ AllForked \/ Watch \/ (\E d \in Dishes : Report(d))
             \/ Kill
    <3>1. pc'["main"] \notin {"wait", "clean_up", "done"}
      <4>1. CASE Fork
        <5>1. ForkOrder[step + 1] \in Children
          BY <4>1 DEF Fork, ForkOrder
        <5> QED BY <4>1, <5>1 DEF Fork
      <4>2. CASE Setup \/ SetupFails \/ AllForked \/ Watch \/ (\E d \in Dishes : Report(d)) \/ Kill
        BY <4>2 DEF Setup, SetupFails, AllForked, Watch, Report, Kill
      <4> QED BY <2>5, <4>1, <4>2
    <3> QED BY <3>1
  <2> QED BY <1>2, <2>1, <2>2, <2>3, <2>4, <2>5 DEF main
<1>3. CASE Terminated \/ UNCHANGED vars
  BY <1>3 DEF Terminated, vars, WaitInv, AllGone, Reaped
<1> QED BY <1>1, <1>2, <1>3 DEF Next

\* No child of the run outlives the parent, whichever forks were refused and
\* whatever the children were doing when they were killed (124-145).
THEOREM NoOrphansTheorem == Spec => []NoOrphans
<1>1. Init => WaitInv
  BY DEF Init, WaitInv, Procs
<1>2. WaitInv => NoOrphans
  BY DEF WaitInv, AllGone, NoOrphans
<1> QED BY <1>1, <1>2, WaitStep, InductiveInvariant, PTL DEF Spec

\* The parent is a child's only source of life and death: children are born in the
\* order of the forks, and once killed in that order, one that still lives has a
\* SIGTERM pending.
DoomInv ==
  /\ pc["main"] \in {"setup", "watch", "report_Vegan", "report_Non_Vegan"} => step = 0
  /\ pc["main"] = "fork" => \A i \in 1..step : pc[ForkOrder[i]] # "unborn"
  /\ pc["main"] \notin {"setup", "failed", "fork"} => \A c \in Children : pc[c] # "unborn"
  /\ pc["main"] = "kill" => \A i \in 1..step : Alive(ForkOrder[i]) => ForkOrder[i] \in term
  /\ pc["main"] \in {"wait", "clean_up", "done"} => \A c \in Children : Alive(c) => c \in term

\* ForkOrder lists the children.
LEMMA ForkOrderLists ==
  /\ \A i \in 1..5 : ForkOrder[i] \in Children
  /\ \A c \in Children : \E i \in 1..5 : ForkOrder[i] = c
<1>1. /\ ForkOrder[1] = "producer_Vegan" /\ ForkOrder[2] = "producer_Non_Vegan"
      /\ ForkOrder[3] = "consumer_Vegan" /\ ForkOrder[4] = "consumer_Non_Vegan"
      /\ ForkOrder[5] = "consumer_Both"
  BY DEF ForkOrder
<1>2. \A i \in 1..5 : ForkOrder[i] \in Children
  BY <1>1 DEF Children
<1>3. ASSUME NEW c \in Children PROVE \E i \in 1..5 : ForkOrder[i] = c
  BY <1>1 DEF Children
<1> QED BY <1>2, <1>3

\* A child's own steps and the signals it gets bring nobody to life, and lose no
\* signal.
LEMMA ChildrenStay ==
  ASSUME IInv, Child \/ (\E c \in Children : Die(c)) \/ (\E p \in Procs : handle_signal(p))
  PROVE  /\ pc'["main"] = pc["main"] /\ step' = step /\ term' = term
         /\ \A c \in Children : /\ pc[c] # "unborn" => pc'[c] # "unborn"
                                /\ Alive(c)' => Alive(c)
<1> USE DEF IInv, TypeOK, LabelInv, Procs, Children, Goto, Alive, ChildLabels
<1>1. CASE producer_Vegan_Process
  BY <1>1 DEF producer_Vegan_Process, Produce, Check, WaitEmpty, WaitMutex, write_to_buffer,
     PostFull, PostMutex
<1>2. CASE producer_Non_Vegan_Process
  BY <1>2 DEF producer_Non_Vegan_Process, Produce, Check, WaitEmpty, WaitMutex,
     write_to_buffer, PostFull, PostMutex
<1>3. CASE consumer_Vegan_Process
  BY <1>3 DEF consumer_Vegan_Process, Consume, Check, WaitMutex, WaitFull, read_from_buffer,
     PostEmpty, PostMutex
<1>4. CASE consumer_Non_Vegan_Process
  BY <1>4 DEF consumer_Non_Vegan_Process, Consume, Check, WaitMutex, WaitFull,
     read_from_buffer, PostEmpty, PostMutex
<1>5. CASE consumer_Both_Process
  BY <1>5 DEF consumer_Both_Process, Check, WaitFull, TimeOut, WaitMutex, read_from_buffer,
     PostMutex, BothPostEmpty
<1>6. CASE \E c \in Children : Die(c)
  BY <1>6 DEF Die
<1>7. CASE \E p \in Procs : handle_signal(p)
  BY <1>7 DEF handle_signal
<1> QED BY <1>1, <1>2, <1>3, <1>4, <1>5, <1>6, <1>7 DEF Child

\* Each kill reaches its child or, where the fork was refused, every child.
LEMMA DoomStep == IInv /\ DoomInv /\ [Next]_vars => DoomInv'
<1> SUFFICES ASSUME IInv, DoomInv, [Next]_vars PROVE DoomInv'
  OBVIOUS
<1>0. TypeOK
  BY DEF IInv
<1>1. CASE Child \/ (\E c \in Children : Die(c)) \/ (\E p \in Procs : handle_signal(p))
  <2>1. /\ pc'["main"] = pc["main"] /\ step' = step /\ term' = term
        /\ \A c \in Children : /\ pc[c] # "unborn" => pc'[c] # "unborn"
                               /\ Alive(c)' => Alive(c)
    BY <1>1, ChildrenStay
  <2>2. \A i \in 1..step : ForkOrder[i] \in Children
    BY <1>0, ForkOrderLists DEF TypeOK
  <2>3. ForkOrder' = ForkOrder
    BY DEF ForkOrder
  <2>4. /\ pc'["main"] \in {"setup", "watch", "report_Vegan", "report_Non_Vegan"} => step' = 0
        /\ pc'["main"] = "fork" => \A i \in 1..step' : pc'[ForkOrder[i]] # "unborn"
        /\ pc'["main"] \notin {"setup", "failed", "fork"} => \A c \in Children : pc'[c] # "unborn"
    BY <2>1, <2>2 DEF DoomInv
  <2>5. ASSUME pc'["main"] = "kill", NEW i \in 1..step', Alive(ForkOrder[i])'
        PROVE  ForkOrder[i] \in term'
    <3>1. Alive(ForkOrder[i])
      <4>1. PICK c \in Children : c = ForkOrder[i]
        BY <2>1, <2>2
      <4>2. Alive(c)'
        BY <2>3, <2>5, <4>1 DEF Alive
      <4> QED BY <2>1, <4>1, <4>2
    <3> QED BY <2>1, <2>5, <3>1 DEF DoomInv
  <2>6. pc'["main"] \in {"wait", "clean_up", "done"} => \A c \in Children : Alive(c)' => c \in term'
    BY <2>1 DEF DoomInv
  <2> QED BY <2>3, <2>4, <2>5, <2>6 DEF DoomInv
<1>2. CASE Fork
  <2> DEFINE c == ForkOrder[step + 1]
  <2>1. step \in 0..4 /\ step' = step + 1 /\ c \in Children /\ pc["main"] = "fork"
    BY <1>0, <1>2, ForkOrderLists DEF Fork, TypeOK
  <2>2. pc'["main"] = "fork" /\ pc'[c] # "unborn" /\ \A k \in Children : k # c => pc'[k] = pc[k]
    BY <1>0, <1>2, <2>1 DEF Fork, TypeOK, Procs, Children
  <2>3. ASSUME NEW i \in 1..step' PROVE pc'[ForkOrder[i]] # "unborn"
    <3>1. CASE i = step + 1
      BY <2>2, <3>1
    <3>2. CASE i # step + 1
      <4>1. i \in 1..step /\ i \in 1..5
        BY <2>1, <2>3, <3>2
      <4>2. pc[ForkOrder[i]] # "unborn" /\ ForkOrder[i] \in Children
        BY <2>1, <4>1, ForkOrderLists DEF DoomInv
      <4> QED BY <2>2, <4>2
    <3> QED BY <3>1, <3>2
  <2> QED BY <2>2, <2>3 DEF DoomInv
<1>3. CASE Kill
  <2> DEFINE c == ForkOrder[step + 1]
  <2>1. step \in 0..4 /\ step' = step + 1 /\ c \in Children /\ pc["main"] = "kill" /\ pc' = pc
    BY <1>0, <1>3, ForkOrderLists DEF Kill, TypeOK
  <2>2. term \subseteq term' /\ (Alive(c) => c \in term')
    BY <1>3, <2>1 DEF Kill, Alive, ChildLabels
  <2>3. ASSUME NEW i \in 1..step', Alive(ForkOrder[i]) PROVE ForkOrder[i] \in term'
    <3>1. CASE i = step + 1
      BY <2>2, <2>3, <3>1
    <3>2. CASE i # step + 1
      <4>1. i \in 1..step
        BY <2>1, <2>3, <3>2
      <4> QED BY <2>1, <2>2, <2>3, <4>1 DEF DoomInv
    <3> QED BY <3>1, <3>2
  <2> QED BY <2>1, <2>3 DEF DoomInv, Alive
<1>4. CASE AllForked \/ AllKilled
  <2>1. /\ step = 5 /\ step' = 0 /\ term' = term /\ \A c \in Children : pc'[c] = pc[c]
        /\ \/ pc["main"] = "fork" /\ pc'["main"] = "watch"
           \/ pc["main"] = "kill" /\ pc'["main"] = "wait"
    BY <1>0, <1>4 DEF AllForked, AllKilled, Goto, TypeOK, Procs, Children
  <2>2. \A c \in Children : pc'[c] # "unborn"
    BY <2>1, ForkOrderLists DEF DoomInv
  <2>3. pc["main"] = "kill" => \A c \in Children : Alive(c)' => c \in term'
    BY <2>1, ForkOrderLists DEF DoomInv, Alive
  <2> QED BY <2>1, <2>2, <2>3 DEF DoomInv
<1>5. CASE Setup \/ SetupFails \/ Watch \/ (\E d \in Dishes : Report(d)) \/ AllWaited \/ clean_up
  <2>1. /\ term' = term /\ \A c \in Children : pc'[c] = pc[c]
        /\ \/ pc["main"] = "setup" /\ pc'["main"] = "fork" /\ step' = step
           \/ pc["main"] = "setup" /\ pc'["main"] = "failed"
           \/ /\ pc["main"] \in {"watch", "report_Vegan", "report_Non_Vegan"}
              /\ pc'["main"] \in {"watch", "report_Vegan", "report_Non_Vegan", "kill"}
              /\ step' = step
           \/ pc["main"] \in {"wait", "clean_up"} /\ pc'["main"] \in {"clean_up", "done"}
    BY <1>0, <1>5 DEF Setup, SetupFails, Watch, Report, AllWaited, clean_up, Goto, TypeOK, Procs,
       Children, Dishes
  <2>2. pc["main"] \in {"setup", "watch", "report_Vegan", "report_Non_Vegan"} => step = 0
    BY DEF DoomInv
  <2>3. \A c \in Children : Alive(c)' <=> Alive(c)
    BY <2>1 DEF Alive
  <2> QED BY <2>1, <2>2, <2>3 DEF DoomInv
<1>6. CASE wait_for_children
  <2>1. /\ pc["main"] = "wait" /\ pc'["main"] = "wait" /\ term' = term
        /\ \A c \in Children : pc'[c] = pc[c] \/ pc'[c] = "reaped"
    BY <1>0, <1>6 DEF wait_for_children, Goto, TypeOK, Procs, Children
  <2>2. \A c \in Children : Alive(c)' => Alive(c)
    BY <2>1 DEF Alive, ChildLabels
  <2> QED BY <2>1, <2>2 DEF DoomInv
<1>7. CASE Terminated \/ UNCHANGED vars
  <2>1. UNCHANGED <<pc, step, term>>
    BY <1>7 DEF Terminated, vars
  <2> QED BY <2>1 DEF DoomInv, Alive
<1> QED BY <1>1, <1>2, <1>3, <1>4, <1>5, <1>6, <1>7 DEF Next, main

\* A wait(NULL) of the parent never blocks for good: there is a child to reap, or
\* no child at all, or a child whose SIGTERM is on its way, whichever forks were
\* refused and however the children block each other (134-142).
WaitEnds ==
  pc["main"] = "wait" /\ step < NumChildren =>
    \/ \E c \in Children : pc[c] = "zombie"
    \/ \A c \in Children : pc[c] \in {"reaped", "refused"}
    \/ \E c \in term : Alive(c)

\* The safe half of ShutdownCompletes: whoever is left when the parent waits is
\* about to die.
THEOREM WaitEndsTheorem == Spec => []WaitEnds
<1>1. Init => DoomInv
  BY DEF Init, DoomInv, Procs
<1>2. IInv /\ DoomInv => WaitEnds
  <2> SUFFICES ASSUME IInv, DoomInv, pc["main"] = "wait",
                      NEW c \in Children, pc[c] \notin {"reaped", "refused"}, pc[c] # "zombie"
               PROVE  \E k \in term : Alive(k)
    BY DEF WaitEnds
  <2>1. pc[c] # "unborn"
    BY DEF DoomInv
  <2>2. Alive(c)
    BY <2>1 DEF IInv, LabelInv, Children, Gone, ProducerLabels, ConsumerLabels, BothLabels, Alive,
       ChildLabels
  <2> QED BY <2>2 DEF DoomInv
<1> QED BY <1>1, <1>2, DoomStep, InductiveInvariant, PTL DEF Spec

\* What the idle semaphore means for the dish: no step of any process takes a meal
\* out of the Non_Vegan dish, in either consumer's code (271, 362-368).
NonVeganStays == [][buffer["Non_Vegan"] \subseteq buffer'["Non_Vegan"]]_vars

\* Only a scan behind full_Non_Vegan could lead to a clear, and nobody gets there.
LEMMA NonVeganStaysStep ==
  IInv /\ [Next]_vars => buffer["Non_Vegan"] \subseteq buffer'["Non_Vegan"]
<1> SUFFICES ASSUME IInv, [Next]_vars PROVE buffer["Non_Vegan"] \subseteq buffer'["Non_Vegan"]
  OBVIOUS
<1> USE DEF Procs, Children, Dishes, shared, Goto
<1>0. TypeOK /\ NonVeganInv
  BY DEF IInv
<1>1. ASSUME NEW c \in Children, NEW d \in Dishes, NEW next,
             write_to_buffer(c, d, next) \/ (d = "Vegan" /\ read_from_buffer(c, d, next))
      PROVE  buffer["Non_Vegan"] \subseteq buffer'["Non_Vegan"]
  BY <1>0, <1>1 DEF write_to_buffer, read_from_buffer, TypeOK
<1>2. CASE producer_Vegan_Process
  BY <1>1, <1>2 DEF producer_Vegan_Process, Produce, Check, WaitEmpty, WaitMutex, PostFull,
     PostMutex
<1>3. CASE producer_Non_Vegan_Process
  BY <1>1, <1>3 DEF producer_Non_Vegan_Process, Produce, Check, WaitEmpty, WaitMutex, PostFull,
     PostMutex
<1>4. CASE consumer_Vegan_Process
  BY <1>1, <1>4 DEF consumer_Vegan_Process, Consume, Check, WaitMutex, WaitFull, PostEmpty,
     PostMutex
<1>5. CASE consumer_Non_Vegan_Process
  <2>1. pc["consumer_Non_Vegan"] \notin {"scan", "clear"}
    BY <1>0 DEF NonVeganInv, Gone
  <2> QED BY <1>5, <2>1 DEF consumer_Non_Vegan_Process, Consume, Check, WaitMutex, WaitFull,
     read_from_buffer, PostEmpty, PostMutex
<1>6. CASE consumer_Both_Process
  <2>1. pc["consumer_Both"] \in {"scan", "clear"} => turn = "Vegan"
    BY <1>0 DEF NonVeganInv, TypeOK
  <2>2. CASE \E next : read_from_buffer("consumer_Both", turn, next)
    <3>1. turn = "Vegan"
      BY <2>1, <2>2 DEF read_from_buffer
    <3> QED BY <1>1, <2>2, <3>1
  <2> QED BY <1>6, <2>2 DEF consumer_Both_Process, Check, WaitFull, TimeOut, WaitMutex,
     PostMutex, BothPostEmpty
<1>7. CASE main
  BY <1>7 DEF main, Setup, SetupFails, Fork, AllForked, Watch, Report, Kill, AllKilled,
     wait_for_children, AllWaited, clean_up
<1>8. CASE (\E c \in Children : Die(c)) \/ (\E p \in Procs : handle_signal(p))
  BY <1>8 DEF Die, handle_signal
<1>9. CASE Terminated \/ UNCHANGED vars
  BY <1>9 DEF Terminated, vars
<1> QED BY <1>2, <1>3, <1>4, <1>5, <1>6, <1>7, <1>8, <1>9 DEF Next, Child

\* The reason why "take meal Non vegan" is never printed (270), for every size.
THEOREM NonVeganStaysTheorem == Spec => NonVeganStays
<1>1. IInv /\ [Next]_vars => [buffer["Non_Vegan"] \subseteq buffer'["Non_Vegan"]]_vars
  BY NonVeganStaysStep
<1> QED BY <1>1, InductiveInvariant, PTL DEF Spec, NonVeganStays

\* What can be counted about the slots of a dish.
LEMMA SlotSets ==
  ASSUME NEW B \in SUBSET Slots
  PROVE  /\ Cardinality(B) \in Nat
         /\ B = {} => Cardinality(B) = 0
         /\ Cardinality(B) < BufferSize => Slots \ B # {}
         /\ \A i \in Slots \ B : Cardinality(B \cup {i}) = Cardinality(B) + 1
         /\ \A i \in B : Cardinality(B \ {i}) = Cardinality(B) - 1
<1>1. IsFiniteSet(Slots) /\ Cardinality(Slots) = BufferSize
  BY BufferSizeAssumption, FS_Interval DEF Slots
<1>2. IsFiniteSet(B)
  BY <1>1, FS_Subset
<1>3. Cardinality(B) < BufferSize => Slots \ B # {}
  <2> SUFFICES ASSUME Slots \ B = {} PROVE Cardinality(B) = BufferSize
    BY BufferSizeAssumption
  <2>1. B = Slots
    OBVIOUS
  <2> QED BY <1>1, <2>1
<1> QED BY <1>2, <1>3, FS_CardinalityType, FS_EmptySet, FS_AddElement, FS_RemoveElement

\* Child c is in hand of a token of the Vegan dish that stands for a free slot.
FreeToken(c) ==
  IF \/ /\ c \in {"producer_Vegan", "producer_Non_Vegan"}
        /\ pc[c] \in {"wait_mutex", "scan", "store"}
     \/ c = "consumer_Vegan" /\ pc[c] = "post_empty"
     \/ c = "consumer_Both" /\ turn = "Vegan" /\ pc[c] \in {"post_mutex", "post_empty"}
  THEN 1 ELSE 0

\* The Vegan meals and the tokens for free Vegan slots are no more than the
\* slots.  (The other producer's token stands for a free slot until it becomes
\* one for a meal that is not there; a killed child's is lost.)
MealCount ==
  Cardinality(buffer["Vegan"]) + empty["Vegan"]
    + FreeToken("producer_Vegan") + FreeToken("producer_Non_Vegan")
    + FreeToken("consumer_Vegan") + FreeToken("consumer_Both") <= BufferSize

\* What a search of the Vegan dish has found is still so.
SearchInv ==
  /\ pc["producer_Vegan"] = "store" =>
       slot["producer_Vegan"] \in Slots \ buffer["Vegan"]
  /\ \A c \in {"consumer_Vegan", "consumer_Both"} :
       pc[c] = "clear" => \/ buffer["Vegan"] = {} /\ slot[c] = 0
                          \/ slot[c] \in buffer["Vegan"]

MealInv == MealCount /\ SearchInv

\* Nobody else is at the slots while c is between mutex_Vegan's wait and post.
LEMMA VeganExclusion ==
  ASSUME IInv, NEW a \in Children, NEW b \in Children, InCritical(a, "Vegan"),
         InCritical(b, "Vegan")
  PROVE  a = b
BY DEF IInv, TypeOK, MutexInv, Holds, Dishes, Children

\* The Vegan producer: its search finds a slot, because its token leaves one
\* free; its meal then takes the token's place in the count (197-221).
LEMMA MealProducerVegan == IInv /\ MealInv /\ producer_Vegan_Process => MealInv'
<1> SUFFICES ASSUME IInv, MealInv, producer_Vegan_Process PROVE MealInv'
  OBVIOUS
<1> DEFINE c == "producer_Vegan"
           B == buffer["Vegan"]
<1> USE DEF Procs, Children, Dishes, shared, Goto, MealInv
<1>0. TypeOK /\ LabelInv /\ B \in SUBSET Slots
  BY DEF IInv, TypeOK
<1>1. CASE Check(c, "wait_empty") \/ WaitEmpty(c, "Vegan", "wait_mutex")
           \/ WaitMutex(c, "Vegan", "scan") \/ PostFull(c, "Vegan", "post_mutex")
           \/ PostMutex(c, "Vegan", "check")
  BY <1>0, <1>1, SlotSets DEF TypeOK, MealCount, SearchInv, FreeToken, Check, WaitEmpty,
     WaitMutex, PostFull, PostMutex
<1>2. CASE write_to_buffer(c, "Vegan", "post_full") /\ pc[c] = "scan"
  <2>1. Cardinality(B) < BufferSize
    BY <1>0, <1>2, SlotSets, BufferSizeAssumption DEF TypeOK, MealCount, FreeToken
  <2>2. First(Slots \ B) \in Slots \ B
    BY <1>0, <2>1, SlotSets, FirstFinds
  <2> QED
    BY <1>0, <1>2, <2>2 DEF TypeOK, MealCount, SearchInv, FreeToken, write_to_buffer
<1>3. CASE write_to_buffer(c, "Vegan", "post_full") /\ pc[c] = "store"
  <2>1. slot[c] \in Slots \ B /\ slot[c] # 0
    BY <1>3, BufferSizeAssumption DEF SearchInv, Slots
  <2>2. buffer' = [buffer EXCEPT !["Vegan"] = B \cup {slot[c]}]
    BY <1>3, <2>1 DEF write_to_buffer
  <2>3. Cardinality(buffer["Vegan"]') = Cardinality(B) + 1 /\ Cardinality(B) \in Nat
    BY <1>0, <2>1, <2>2, SlotSets DEF TypeOK
  <2>4. MealCount'
    BY <1>0, <1>3, <2>3 DEF TypeOK, MealCount, FreeToken, write_to_buffer
  <2>5. \A k \in {"consumer_Vegan", "consumer_Both"} : pc[k] # "clear"
    <3>1. InCritical(c, "Vegan")
      BY <1>3 DEF InCritical, SemDish
    <3>2. ASSUME NEW k \in {"consumer_Vegan", "consumer_Both"}, pc[k] = "clear"
          PROVE  InCritical(k, "Vegan")
      BY <3>2 DEF IInv, TypeOK, NonVeganInv, InCritical, SemDish, Gone
    <3> QED BY <3>1, <3>2, VeganExclusion
  <2>6. SearchInv'
    BY <1>0, <1>3, <2>5 DEF TypeOK, SearchInv, write_to_buffer
  <2> QED BY <2>4, <2>6
<1> QED BY <1>1, <1>2, <1>3 DEF producer_Vegan_Process, Produce, write_to_buffer

\* The other producer spends Vegan tokens and leaves the Vegan slots alone
\* (231-255).
LEMMA MealProducerNonVegan == IInv /\ MealInv /\ producer_Non_Vegan_Process => MealInv'
<1> SUFFICES ASSUME IInv, MealInv, producer_Non_Vegan_Process PROVE MealInv'
  OBVIOUS
<1>1. TypeOK /\ LabelInv /\ Cardinality(buffer["Vegan"]) \in Nat
  BY SlotSets DEF IInv, TypeOK, Dishes
<1>2. buffer'["Vegan"] = buffer["Vegan"]
  BY <1>1 DEF TypeOK, Dishes, shared, producer_Non_Vegan_Process, Produce, Check, WaitEmpty,
     WaitMutex, write_to_buffer, PostFull, PostMutex
<1> QED
  BY <1>1, <1>2, BufferSizeAssumption DEF TypeOK, MealInv, MealCount, SearchInv, FreeToken, Procs, Children, Dishes,
     shared, Goto, producer_Non_Vegan_Process, Produce, Check, WaitEmpty, WaitMutex,
     write_to_buffer, PostFull, PostMutex

\* Clearing the slot that was found gives one meal less; from an empty dish
\* nothing is taken, and the token that turns free was in hand all along.
LEMMA MealCleared ==
  ASSUME IInv, MealInv, NEW c \in {"consumer_Vegan", "consumer_Both"}, NEW next,
         read_from_buffer(c, "Vegan", next), InCritical(c, "Vegan"), pc[c] = "clear"
  PROVE  /\ Cardinality(buffer'["Vegan"]) + 1 + empty["Vegan"] + FreeToken("producer_Vegan")
              + FreeToken("producer_Non_Vegan")
              + (IF c = "consumer_Vegan" THEN FreeToken("consumer_Both")
                                         ELSE FreeToken("consumer_Vegan")) <= BufferSize
         /\ buffer'["Vegan"] \in SUBSET Slots
         /\ pc["producer_Vegan"] # "store"
         /\ \A k \in {"consumer_Vegan", "consumer_Both"} \ {c} : pc[k] # "clear"
<1> DEFINE B == buffer["Vegan"]
<1> USE DEF Procs, Children, Dishes, MealInv
<1>0. TypeOK /\ LabelInv /\ B \in SUBSET Slots /\ Cardinality(B) \in Nat
  BY SlotSets DEF IInv, TypeOK
<1>1. buffer'["Vegan"] = B \ {slot[c]}
  BY <1>0 DEF read_from_buffer, Goto, TypeOK
<1>2. FreeToken(c) = 0
  BY DEF FreeToken
<1> DEFINE others == FreeToken("producer_Vegan") + FreeToken("producer_Non_Vegan")
                       + (IF c = "consumer_Vegan" THEN FreeToken("consumer_Both")
                                                  ELSE FreeToken("consumer_Vegan"))
<1>3. ASSUME slot[c] \in B
      PROVE  Cardinality(buffer'["Vegan"]) + 1 + empty["Vegan"] + others <= BufferSize
  <2>1. Cardinality(B \ {slot[c]}) = Cardinality(B) - 1
    BY <1>0, <1>3, SlotSets
  <2> QED BY <1>0, <1>1, <1>2, <2>1, BufferSizeAssumption DEF MealCount, FreeToken, TypeOK
<1>4. ASSUME B = {}
      PROVE  Cardinality(buffer'["Vegan"]) + 1 + empty["Vegan"] + others <= BufferSize
  <2>1. buffer'["Vegan"] = {} /\ Cardinality({}) = 0
    BY <1>1, <1>4, FS_EmptySet
  <2>2. empty["Vegan"] + full["Vegan"] + InFlight("Vegan") <= BufferSize
    BY DEF IInv, TokenConservation
  <2>3. Tokens(c, "Vegan") = 1
    BY DEF Tokens, HasToken, InCritical
  <2>4. \A k \in Children \ {"consumer_Non_Vegan"} : FreeToken(k) <= Tokens(k, "Vegan")
    BY DEF FreeToken, Tokens, HasToken, SemDish
  <2> QED
    BY <1>0, <2>1, <2>2, <2>3, <2>4, BufferSizeAssumption DEF InFlight, Tokens, FreeToken, TypeOK
<1>5. /\ InCritical("producer_Vegan", "Vegan") => c = "producer_Vegan"
      /\ \A k \in {"consumer_Vegan", "consumer_Both"} : InCritical(k, "Vegan") => c = k
  BY VeganExclusion
<1>6. /\ pc["producer_Vegan"] # "store"
      /\ \A k \in {"consumer_Vegan", "consumer_Both"} \ {c} : pc[k] # "clear"
  BY <1>5 DEF IInv, NonVeganInv, TypeOK, InCritical, SemDish, Gone
<1>7. Cardinality(buffer'["Vegan"]) + 1 + empty["Vegan"] + others <= BufferSize
  BY <1>3, <1>4 DEF SearchInv
<1>8. buffer'["Vegan"] \in SUBSET Slots
  BY <1>0, <1>1
<1>9. /\ empty["Vegan"] \in Nat /\ Cardinality(buffer'["Vegan"]) \in Nat
      /\ \A k \in Children : FreeToken(k) \in {0, 1}
  BY <1>0, <1>8, SlotSets DEF TypeOK, FreeToken
<1> QED BY <1>6, <1>7, <1>8, <1>9

\* consumer_Vegan turns a meal's token into one for a free slot (298-322).
LEMMA MealConsumerVegan == IInv /\ MealInv /\ consumer_Vegan_Process => MealInv'
<1> SUFFICES ASSUME IInv, MealInv, consumer_Vegan_Process PROVE MealInv'
  OBVIOUS
<1> DEFINE c == "consumer_Vegan"
           B == buffer["Vegan"]
<1> USE DEF Procs, Children, Dishes, shared, Goto, MealInv
<1>0. TypeOK /\ LabelInv /\ B \in SUBSET Slots /\ Cardinality(B) \in Nat
  BY SlotSets DEF IInv, TypeOK
<1>1. CASE Check(c, "wait_mutex") \/ WaitMutex(c, "Vegan", "wait_full")
           \/ WaitFull(c, "Vegan", "wait_full", "scan") \/ PostEmpty(c, "Vegan", "post_mutex")
           \/ PostMutex(c, "Vegan", "check")
  BY <1>0, <1>1 DEF TypeOK, MealCount, SearchInv, FreeToken, Check, WaitMutex, WaitFull,
     PostEmpty, PostMutex
<1>2. CASE read_from_buffer(c, "Vegan", "post_empty") /\ pc[c] = "scan"
  BY <1>0, <1>2, FirstFinds DEF TypeOK, MealCount, SearchInv, FreeToken, read_from_buffer
<1>3. CASE read_from_buffer(c, "Vegan", "post_empty") /\ pc[c] = "clear"
  <2>1. InCritical(c, "Vegan")
    BY <1>3 DEF InCritical, SemDish
  <2>2. MealCount'
    <3>1. Cardinality(buffer'["Vegan"]) \in Nat
      BY <1>3, <2>1, MealCleared, SlotSets
    <3>2. /\ pc' = [pc EXCEPT ![c] = "post_empty"] /\ UNCHANGED <<empty, turn>>
          /\ empty["Vegan"] \in Nat
      BY <1>0, <1>3 DEF read_from_buffer, TypeOK
    <3>3. /\ FreeToken(c)' = 1
          /\ \A k \in Children \ {c} : FreeToken(k)' = FreeToken(k)
      BY <1>0, <3>2 DEF TypeOK, FreeToken
    <3>4. Cardinality(buffer'["Vegan"]) + 1 + empty["Vegan"] + FreeToken("producer_Vegan")
            + FreeToken("producer_Non_Vegan") + FreeToken("consumer_Both") <= BufferSize
      BY <1>3, <2>1, MealCleared
    <3>5. \A k \in Children : FreeToken(k) \in {0, 1}
      BY DEF FreeToken
    <3> QED BY <3>1, <3>2, <3>3, <3>4, <3>5, BufferSizeAssumption DEF MealCount
  <2>3. SearchInv'
    BY <1>0, <1>3, <2>1, MealCleared DEF TypeOK, SearchInv, read_from_buffer
  <2> QED BY <2>2, <2>3
<1> QED BY <1>1, <1>2, <1>3 DEF consumer_Vegan_Process, Consume, read_from_buffer

\* consumer_Both does so on the Vegan dish; on the other it gets nowhere
\* (332-387).
LEMMA MealConsumerBoth == IInv /\ MealInv /\ consumer_Both_Process => MealInv'
<1> SUFFICES ASSUME IInv, MealInv, consumer_Both_Process PROVE MealInv'
  OBVIOUS
<1> DEFINE c == "consumer_Both"
           B == buffer["Vegan"]
<1> USE DEF Procs, Children, Dishes, shared, Goto, MealInv
<1>0. /\ TypeOK /\ LabelInv /\ B \in SUBSET Slots /\ Cardinality(B) \in Nat
      /\ pc[c] \notin {"check", "timed_full", "zombie", "reaped"} => turn = "Vegan"
  BY SlotSets DEF IInv, TypeOK, NonVeganInv
<1>1. CASE Check(c, "timed_full") \/ WaitFull(c, turn, "timed_full", "wait_mutex")
           \/ TimeOut(c) \/ WaitMutex(c, turn, "scan") \/ PostMutex(c, turn, "post_empty")
           \/ BothPostEmpty(c)
  BY <1>0, <1>1 DEF TypeOK, MealCount, SearchInv, FreeToken, Check, WaitFull, TimeOut,
     WaitMutex, PostMutex, BothPostEmpty
<1>2. CASE read_from_buffer(c, turn, "post_mutex") /\ pc[c] = "scan"
  BY <1>0, <1>2, FirstFinds DEF TypeOK, MealCount, SearchInv, FreeToken, read_from_buffer
<1>3. CASE read_from_buffer(c, turn, "post_mutex") /\ pc[c] = "clear"
  <2>1. InCritical(c, "Vegan") /\ read_from_buffer(c, "Vegan", "post_mutex")
    BY <1>0, <1>3 DEF InCritical, SemDish
  <2>2. MealCount'
    <3>1. Cardinality(buffer'["Vegan"]) \in Nat
      BY <1>3, <2>1, MealCleared, SlotSets
    <3>2. /\ pc' = [pc EXCEPT ![c] = "post_mutex"] /\ UNCHANGED <<empty, turn>>
          /\ empty["Vegan"] \in Nat /\ turn = "Vegan"
      BY <1>0, <1>3 DEF read_from_buffer, TypeOK
    <3>3. /\ FreeToken(c)' = 1
          /\ \A k \in Children \ {c} : FreeToken(k)' = FreeToken(k)
      BY <1>0, <3>2 DEF TypeOK, FreeToken
    <3>4. Cardinality(buffer'["Vegan"]) + 1 + empty["Vegan"] + FreeToken("producer_Vegan")
            + FreeToken("producer_Non_Vegan") + FreeToken("consumer_Vegan") <= BufferSize
      BY <2>1, <1>3, MealCleared
    <3>5. \A k \in Children : FreeToken(k) \in {0, 1}
      BY DEF FreeToken
    <3> QED BY <3>1, <3>2, <3>3, <3>4, <3>5, BufferSizeAssumption DEF MealCount
  <2>3. SearchInv'
    BY <1>0, <1>3, <2>1, MealCleared DEF TypeOK, SearchInv, read_from_buffer
  <2> QED BY <2>2, <2>3
<1> QED BY <1>1, <1>2, <1>3 DEF consumer_Both_Process, read_from_buffer

\* consumer_Non_Vegan never gets to a slot, and none is Vegan anyway (265-290).
LEMMA MealConsumerNonVegan == IInv /\ MealInv /\ consumer_Non_Vegan_Process => MealInv'
<1> SUFFICES ASSUME IInv, MealInv, consumer_Non_Vegan_Process PROVE MealInv'
  OBVIOUS
<1>0. TypeOK /\ LabelInv
  BY DEF IInv
<1>1. /\ buffer'["Vegan"] = buffer["Vegan"] /\ empty'["Vegan"] = empty["Vegan"]
      /\ turn' = turn
      /\ \A k \in Children \ {"consumer_Non_Vegan"} : pc'[k] = pc[k] /\ slot'[k] = slot[k]
  BY <1>0 DEF TypeOK, Procs, Children, Dishes, shared, Goto, consumer_Non_Vegan_Process,
     Consume, Check, WaitMutex, WaitFull, read_from_buffer, PostEmpty, PostMutex
<1> QED BY <1>1 DEF MealInv, MealCount, SearchInv, FreeToken, Children

\* A kill loses the token and the search result of the child it ends.
LEMMA MealDie == IInv /\ MealInv /\ (\E c \in Children : Die(c)) => MealInv'
<1> SUFFICES ASSUME IInv, MealInv, NEW c \in Children, Die(c) PROVE MealInv'
  OBVIOUS
<1>0. TypeOK /\ Cardinality(buffer["Vegan"]) \in Nat
  BY SlotSets DEF IInv, TypeOK, Dishes
<1>1. /\ pc' = [pc EXCEPT ![c] = "zombie"] /\ slot' = [slot EXCEPT ![c] = 0]
      /\ buffer' = buffer /\ empty' = empty /\ turn' = turn
  BY DEF Die, shared
<1>2. pc'[c] = "zombie" /\ \A k \in Children \ {c} : pc'[k] = pc[k] /\ slot'[k] = slot[k]
  BY <1>0, <1>1 DEF TypeOK, Procs
<1>3. \A k \in Children : /\ FreeToken(k)' \in {0, 1} /\ FreeToken(k) \in {0, 1}
                          /\ FreeToken(k)' <= FreeToken(k)
  BY <1>1, <1>2 DEF FreeToken
<1>4. MealCount'
  BY <1>0, <1>1, <1>3, BufferSizeAssumption DEF MealInv, MealCount, TypeOK, Dishes, Children
<1>5. SearchInv'
  BY <1>1, <1>2 DEF MealInv, SearchInv, Children
<1> QED BY <1>4, <1>5 DEF MealInv

\* The parent's first step makes a dish of free slots; no later one moves a
\* meal or a token.
LEMMA MealMain == IInv /\ MealInv /\ main => MealInv'
<1> SUFFICES ASSUME IInv, MealInv, main PROVE MealInv'
  OBVIOUS
<1> USE DEF Procs, Children, Dishes, shared, Goto, MealInv
<1>0. TypeOK /\ LabelInv
  BY DEF IInv
<1>1. CASE Setup
  <2>1. /\ \A k \in Children : pc'[k] = "unborn"
        /\ buffer'["Vegan"] = {} /\ empty'["Vegan"] = BufferSize
    BY <1>0, <1>1 DEF IInv, TypeOK, Setup, PhaseInv
  <2>2. \A k \in Children : FreeToken(k)' = 0
    BY <2>1 DEF FreeToken
  <2> QED BY <2>1, <2>2, FS_EmptySet, BufferSizeAssumption DEF MealCount, SearchInv
<1>2. CASE ~Setup
  <2>1. /\ buffer' = buffer /\ empty' = empty /\ slot' = slot /\ turn' = turn
        /\ \A k \in Children : \/ pc'[k] = pc[k]
                               \/ pc[k] \in {"unborn", "zombie"} /\ pc'[k] \in {"check", "refused", "reaped"}
    <3>1. CASE Fork
      <4>1. ForkOrder[step + 1] \in Children /\ pc[ForkOrder[step + 1]] = "unborn"
        BY <1>0, <3>1 DEF Fork, ForkOrder, TypeOK, IInv, PhaseInv
      <4> QED BY <1>0, <3>1, <4>1 DEF Fork, TypeOK
    <3>2. CASE wait_for_children
      BY <1>0, <3>2 DEF wait_for_children, TypeOK
    <3>3. CASE SetupFails \/ AllForked \/ Watch \/ (\E d \in Dishes : Report(d)) \/ Kill
               \/ AllKilled \/ AllWaited \/ clean_up
      BY <1>0, <3>3 DEF TypeOK, SetupFails, AllForked, Watch, Report, Kill, AllKilled,
         AllWaited, clean_up
    <3> QED BY <1>2, <3>1, <3>2, <3>3 DEF main
  <2>2. \A k \in Children : FreeToken(k)' = FreeToken(k)
    BY <2>1 DEF FreeToken
  <2> QED BY <2>1, <2>2 DEF MealCount, SearchInv
<1> QED BY <1>1, <1>2

\* Every step keeps the Vegan dish counted.
LEMMA MealStep == IInv /\ MealInv /\ [Next]_vars => MealInv'
<1> SUFFICES ASSUME IInv, MealInv, [Next]_vars PROVE MealInv'
  OBVIOUS
<1>1. CASE Child
  BY <1>1, MealProducerVegan, MealProducerNonVegan, MealConsumerVegan, MealConsumerNonVegan,
     MealConsumerBoth DEF Child
<1>2. CASE \E p \in Procs : handle_signal(p)
  BY <1>2 DEF handle_signal, shared, MealInv, MealCount, SearchInv, FreeToken
<1>3. CASE Terminated \/ UNCHANGED vars
  BY <1>3 DEF Terminated, vars, MealInv, MealCount, SearchInv, FreeToken
<1> QED BY <1>1, <1>2, <1>3, MealMain, MealDie DEF Next

\* Before the semaphores are set up there is neither meal nor token.
LEMMA MealInit == Init => MealInv
<1> SUFFICES ASSUME Init PROVE MealInv
  OBVIOUS
<1>1. /\ buffer["Vegan"] = {} /\ empty["Vegan"] = 0
      /\ \A k \in Children : pc[k] = "unborn"
  BY DEF Init, Procs, Children, Dishes
<1>2. \A k \in Children : FreeToken(k) = 0
  BY <1>1 DEF FreeToken
<1> QED BY <1>1, <1>2, FS_EmptySet, BufferSizeAssumption DEF MealInv, MealCount, SearchInv, Children

\* No Vegan meal is dropped: whenever the Vegan producer is about to store one,
\* its search has found a slot (157-176, 197-221).
THEOREM VeganMealStoredTheorem == Spec => []VeganMealStored
<1>1. MealInv => VeganMealStored
  BY BufferSizeAssumption DEF MealInv, SearchInv, VeganMealStored, Slots
<1> QED BY <1>1, MealInit, MealStep, InductiveInvariant, PTL DEF Spec

-----------------------------------------------------------------------------
(* The Vegan dish implements Dish.                                         *)

InVegan(c) == InCritical(c, "Vegan")
Served(c) == pc[c] \notin NotServed

\* What one process's step can be to the dish: nothing, an arrival, its turn
\* at the slots, or a departure.
Stays(c) == /\ InVegan(c)' = InVegan(c) /\ (InVegan(c) => Served(c)' = Served(c))
            /\ buffer'["Vegan"] = buffer["Vegan"]
Comes(c) == /\ mutex["Vegan"] > 0 /\ InVegan(c)' /\ ~Served(c)'
            /\ buffer'["Vegan"] = buffer["Vegan"]
IsServed(c) ==
  /\ InVegan(c) /\ InVegan(c)' /\ ~Served(c) /\ Served(c)'
  /\ LET meals == buffer["Vegan"] IN
     \/ \E i \in Slots \ meals : buffer'["Vegan"] = meals \cup {i}
     \/ \E i \in meals : buffer'["Vegan"] = meals \ {i}
     \/ buffer'["Vegan"] = meals
Goes(c) == InVegan(c) /\ ~InVegan(c)' /\ buffer'["Vegan"] = buffer["Vegan"]
Visits(c) == Stays(c) \/ Comes(c) \/ IsServed(c) \/ Goes(c)

\* A step of c only: no other child moves, and turn is consumer_Both's own.
Alone(c) ==
  /\ \A k \in Children \ {c} : pc'[k] = pc[k]
  /\ turn' = turn \/ c = "consumer_Both"

\* A producer's visit: sem_wait(mutex_Vegan) brings it, the assignment serves
\* it, sem_post(mutex_Vegan) ends it (197-221, 231-255).
LEMMA ProducersVisit ==
  ASSUME IInv, MealInv
  PROVE  /\ producer_Vegan_Process =>
              Alone("producer_Vegan") /\ Visits("producer_Vegan")
         /\ producer_Non_Vegan_Process =>
              Alone("producer_Non_Vegan") /\ Visits("producer_Non_Vegan")
<1> USE DEF Procs, Children, Dishes, shared, Goto, Alone, Visits, Stays, Comes, IsServed, Goes,
        InVegan, Served, InCritical, SemDish, NotServed
<1>0. TypeOK /\ LabelInv
  BY DEF IInv
<1>1. ASSUME producer_Vegan_Process
      PROVE  Alone("producer_Vegan") /\ Visits("producer_Vegan")
  <2> DEFINE c == "producer_Vegan"
  <2>1. CASE Check(c, "wait_empty") \/ WaitEmpty(c, "Vegan", "wait_mutex")
    BY <1>0, <2>1 DEF TypeOK, Check, WaitEmpty
  <2>2. CASE WaitMutex(c, "Vegan", "scan")
    BY <1>0, <2>2 DEF TypeOK, WaitMutex
  <2>3. CASE write_to_buffer(c, "Vegan", "post_full") /\ pc[c] = "scan"
    BY <1>0, <2>3 DEF TypeOK, write_to_buffer
  <2>4. CASE write_to_buffer(c, "Vegan", "post_full") /\ pc[c] = "store"
    <3>1. slot[c] \in Slots \ buffer["Vegan"] /\ slot[c] # 0
      BY <2>4, BufferSizeAssumption DEF MealInv, SearchInv, Slots
    <3>2. buffer'["Vegan"] = buffer["Vegan"] \cup {slot[c]}
      BY <1>0, <2>4, <3>1 DEF write_to_buffer, TypeOK
    <3> QED BY <1>0, <2>4, <3>1, <3>2 DEF TypeOK, write_to_buffer
  <2>5. CASE PostFull(c, "Vegan", "post_mutex") \/ PostMutex(c, "Vegan", "check")
    BY <1>0, <2>5 DEF TypeOK, PostFull, PostMutex
  <2> QED
    BY <1>1, <2>1, <2>2, <2>3, <2>4, <2>5 DEF producer_Vegan_Process, Produce, write_to_buffer
<1>2. ASSUME producer_Non_Vegan_Process
      PROVE  Alone("producer_Non_Vegan") /\ Visits("producer_Non_Vegan")
  BY <1>0, <1>2 DEF TypeOK, producer_Non_Vegan_Process, Produce, Check, WaitEmpty, WaitMutex,
     write_to_buffer, PostFull, PostMutex
<1> QED BY <1>1, <1>2

\* A consumer's visit ends the same way; the meal it takes is one that is
\* there, and consumer_Both never visits while it tries the other dish
\* (298-322, 332-387).
LEMMA ConsumersVisit ==
  ASSUME IInv, MealInv
  PROVE  /\ consumer_Vegan_Process =>
              Alone("consumer_Vegan") /\ Visits("consumer_Vegan")
         /\ consumer_Non_Vegan_Process =>
              Alone("consumer_Non_Vegan") /\ Visits("consumer_Non_Vegan")
         /\ consumer_Both_Process =>
              Alone("consumer_Both") /\ Visits("consumer_Both")
<1> USE DEF Procs, Children, Dishes, shared, Goto, Alone, Visits, Stays, Comes, IsServed, Goes,
        InVegan, Served, InCritical, SemDish, NotServed
<1>0. TypeOK /\ LabelInv /\ NonVeganInv
  BY DEF IInv
<1>1. ASSUME NEW c \in {"consumer_Vegan", "consumer_Both"}, pc[c] = "clear"
      PROVE  \/ \E i \in buffer["Vegan"] : buffer["Vegan"] \ {slot[c]} = buffer["Vegan"] \ {i}
             \/ buffer["Vegan"] \ {slot[c]} = buffer["Vegan"]
  BY <1>1 DEF MealInv, SearchInv
<1>2. ASSUME consumer_Vegan_Process
      PROVE  Alone("consumer_Vegan") /\ Visits("consumer_Vegan")
  <2> DEFINE c == "consumer_Vegan"
  <2>1. CASE read_from_buffer(c, "Vegan", "post_empty") /\ pc[c] = "clear"
    <3>1. buffer'["Vegan"] = buffer["Vegan"] \ {slot[c]}
      BY <1>0, <2>1 DEF TypeOK, read_from_buffer
    <3> QED BY <1>0, <1>1, <2>1, <3>1 DEF TypeOK, read_from_buffer
  <2>2. CASE \/ Check(c, "wait_mutex") \/ WaitMutex(c, "Vegan", "wait_full")
             \/ WaitFull(c, "Vegan", "wait_full", "scan")
             \/ read_from_buffer(c, "Vegan", "post_empty") /\ pc[c] = "scan"
             \/ PostEmpty(c, "Vegan", "post_mutex") \/ PostMutex(c, "Vegan", "check")
    BY <1>0, <2>2 DEF TypeOK, Check, WaitMutex, WaitFull, read_from_buffer, PostEmpty, PostMutex
  <2> QED BY <1>2, <2>1, <2>2 DEF consumer_Vegan_Process, Consume, read_from_buffer
<1>3. ASSUME consumer_Non_Vegan_Process
      PROVE  Alone("consumer_Non_Vegan") /\ Visits("consumer_Non_Vegan")
  BY <1>0, <1>3 DEF TypeOK, consumer_Non_Vegan_Process, Consume, Check, WaitMutex, WaitFull,
     read_from_buffer, PostEmpty, PostMutex
<1>4. ASSUME consumer_Both_Process
      PROVE  Alone("consumer_Both") /\ Visits("consumer_Both")
  <2> DEFINE c == "consumer_Both"
  <2>0. pc[c] \notin {"check", "timed_full", "zombie", "reaped"} => turn = "Vegan"
    BY <1>0 DEF NonVeganInv, TypeOK
  <2>1. CASE read_from_buffer(c, turn, "post_mutex") /\ pc[c] = "clear"
    <3>1. buffer'["Vegan"] = buffer["Vegan"] \ {slot[c]}
      BY <1>0, <2>0, <2>1 DEF TypeOK, read_from_buffer
    <3> QED BY <1>0, <1>1, <2>0, <2>1, <3>1 DEF TypeOK, read_from_buffer
  <2>2. CASE \/ Check(c, "timed_full") \/ WaitFull(c, turn, "timed_full", "wait_mutex")
             \/ TimeOut(c) \/ WaitMutex(c, turn, "scan")
             \/ read_from_buffer(c, turn, "post_mutex") /\ pc[c] = "scan"
             \/ PostMutex(c, turn, "post_empty") \/ BothPostEmpty(c)
    BY <1>0, <2>0, <2>2 DEF TypeOK, Check, WaitFull, TimeOut, WaitMutex, read_from_buffer,
       PostMutex, BothPostEmpty
  <2> QED BY <1>4, <2>1, <2>2 DEF consumer_Both_Process, read_from_buffer
<1> QED BY <1>2, <1>3, <1>4

\* The visitor of the mapping: nobody, or the one process between wait and post.
LEMMA VisitorOfVegan ==
  ASSUME IInv
  PROVE  /\ \A c \in Children : InVegan(c) => AtVegan = {c}
         /\ mutex["Vegan"] > 0 => AtVegan = {}
<1>1. ASSUME NEW c \in Children, InVegan(c) PROVE AtVegan = {c}
  BY <1>1, VeganExclusion DEF AtVegan, InVegan
<1>2. ASSUME mutex["Vegan"] > 0 PROVE AtVegan = {}
  BY <1>2 DEF IInv, TypeOK, MutexInv, Holds, Dishes, Children, AtVegan
<1> QED BY <1>1, <1>2

\* A visit step of one process is a step of the dish.
LEMMA VisitStep ==
  ASSUME IInv, NEW c \in Children, Alone(c), Visits(c)
  PROVE  [VeganDish!Next]_VeganDish!vars
<1> USE DEF VeganDish!Next, VeganDish!vars, VeganDish!Arrive, VeganDish!Serve, VeganDish!Leave,
        Served
<1>1. \A k \in Children \ {c} : /\ InVegan(k)' = InVegan(k) /\ Served(k)' = Served(k)
  BY DEF Alone, InVegan, InCritical, SemDish, Children
<1>2. "nobody" \notin Children
  BY DEF Children
<1>3. /\ \A k \in Children : k \in AtVegan <=> InVegan(k)
      /\ \A k \in Children : k \in AtVegan' <=> InVegan(k)'
      /\ AtVegan \subseteq Children /\ AtVegan' \subseteq Children
  BY DEF AtVegan, InVegan
<1>4. CASE Stays(c)
  <2>1. AtVegan' = AtVegan
    BY <1>1, <1>3, <1>4 DEF Stays
  <2>2. (\E k \in AtVegan : Served(k))' <=> (\E k \in AtVegan : Served(k))
    BY <1>1, <1>3, <1>4, <2>1 DEF Stays
  <2> QED BY <1>4, <2>1, <2>2 DEF Stays
<1>5. CASE Comes(c)
  <2>1. AtVegan = {}
    BY <1>5, VisitorOfVegan DEF Comes
  <2>2. AtVegan' = {c}
    BY <1>1, <1>3, <1>5, <2>1 DEF Comes
  <2> QED BY <1>5, <2>1, <2>2 DEF Comes
<1>6. CASE IsServed(c)
  <2>1. AtVegan = {c}
    BY <1>6, VisitorOfVegan DEF IsServed
  <2>2. AtVegan' = {c}
    BY <1>1, <1>3, <1>6, <2>1 DEF IsServed
  <2> QED BY <1>2, <1>6, <2>1, <2>2 DEF IsServed
<1>7. CASE Goes(c)
  <2>1. AtVegan = {c}
    BY <1>7, VisitorOfVegan DEF Goes
  <2>2. AtVegan' = {}
    BY <1>1, <1>3, <1>7, <2>1 DEF Goes
  <2> QED BY <1>2, <1>7, <2>1, <2>2 DEF Goes
<1> QED BY <1>4, <1>5, <1>6, <1>7 DEF Visits

\* A kill ends the visit of the child it ends, if it was on one.
LEMMA KillVisit ==
  ASSUME IInv, NEW c \in Children, Die(c)
  PROVE  Alone(c) /\ Visits(c)
BY DEF IInv, TypeOK, Procs, Children, shared, Die, Alone, Visits, Stays, Goes, InVegan, Served,
   InCritical, SemDish

\* The visitors are the same when everyone's position is.
LEMMA SameVisitors ==
  ASSUME \A k \in Children : InVegan(k)' <=> InVegan(k)
  PROVE  AtVegan' = AtVegan
<1>1. /\ \A k \in Children : k \in AtVegan <=> InVegan(k)
      /\ \A k \in Children : k \in AtVegan' <=> InVegan(k)'
      /\ AtVegan \subseteq Children /\ AtVegan' \subseteq Children
  BY DEF AtVegan, InVegan
<1> QED BY <1>1

\* The parent and the signals leave the dish to the children.
LEMMA OthersKeepVisit ==
  ASSUME IInv, main \/ (\E p \in Procs : handle_signal(p)) \/ Terminated \/ UNCHANGED vars
  PROVE  UNCHANGED VeganDish!vars
<1>0. TypeOK
  BY DEF IInv
<1>1. /\ buffer' = buffer /\ turn' = turn
      /\ \A k \in Children : \/ pc'[k] = pc[k]
                             \/ pc[k] \in Gone /\ pc'[k] \in Gone \cup {"check"}
  <2> USE DEF Procs, Children, Dishes, shared, Goto, TypeOK
  <2>1. CASE Fork
    <3>1. ForkOrder[step + 1] \in Children /\ pc[ForkOrder[step + 1]] = "unborn"
      BY <1>0, <2>1 DEF Fork, ForkOrder, IInv, PhaseInv
    <3> QED BY <1>0, <2>1, <3>1 DEF Fork, Gone
  <2>2. CASE wait_for_children
    BY <1>0, <2>2 DEF wait_for_children, Gone
  <2>3. CASE Setup \/ SetupFails \/ AllForked \/ Watch \/ (\E d \in Dishes : Report(d)) \/ Kill
             \/ AllKilled \/ AllWaited \/ clean_up
    BY <1>0, <2>3 DEF Setup, SetupFails, AllForked, Watch, Report, Kill, AllKilled, AllWaited,
       clean_up
  <2>4. CASE (\E p \in Procs : handle_signal(p)) \/ Terminated \/ UNCHANGED vars
    BY <2>4 DEF handle_signal, Terminated, vars
  <2> QED BY <2>1, <2>2, <2>3, <2>4 DEF main
<1>2. \A k \in Children : /\ InVegan(k)' <=> InVegan(k)
                          /\ InVegan(k) => (Served(k)' <=> Served(k))
  BY <1>1 DEF InVegan, InCritical, SemDish, Served, Gone
<1>3. AtVegan' = AtVegan
  BY <1>2, SameVisitors
<1>4. (\E k \in AtVegan : Served(k))' <=> (\E k \in AtVegan : Served(k))
  BY <1>2, <1>3 DEF AtVegan, InVegan
<1> QED BY <1>1, <1>3, <1>4 DEF VeganDish!vars, Served

\* The Vegan dish, semaphores, searches, kills and all, is a dish with one
\* visitor at a time whose meals move once per visit (157-221, 231-387).
THEOREM DishTheorem == Spec => ImplementsDish
<1>1. Init => VeganDish!Init
  <2> SUFFICES ASSUME Init PROVE VeganDish!Init
    OBVIOUS
  <2>1. \A c \in Children : ~InCritical(c, "Vegan")
    BY DEF Init, InCritical, Procs, Children
  <2>2. AtVegan = {}
    BY <2>1 DEF AtVegan
  <2> QED BY <2>2 DEF Init, VeganDish!Init, Dishes
<1>2. IInv /\ MealInv /\ [Next]_vars => [VeganDish!Next]_VeganDish!vars
  <2> SUFFICES ASSUME IInv, MealInv, [Next]_vars PROVE [VeganDish!Next]_VeganDish!vars
    OBVIOUS
  <2>1. CASE Child
    <3>1. \E c \in Children : Alone(c) /\ Visits(c)
      BY <2>1, ProducersVisit, ConsumersVisit DEF Child, Children
    <3> QED BY <3>1, VisitStep
  <2>2. CASE \E c \in Children : Die(c)
    BY <2>2, KillVisit, VisitStep
  <2>3. CASE main \/ (\E p \in Procs : handle_signal(p)) \/ Terminated \/ UNCHANGED vars
    BY <2>3, OthersKeepVisit
  <2> QED BY <2>1, <2>2, <2>3 DEF Next
<1> QED
  BY <1>1, <1>2, MealInit, MealStep, InductiveInvariant, PTL
  DEF Spec, ImplementsDish, VeganDish!Spec
=============================================================================
