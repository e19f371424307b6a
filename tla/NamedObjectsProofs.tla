--------------------------- MODULE NamedObjectsProofs ---------------------------
(***************************************************************************)
(* Safety of NamedObjects for every finite set of processes, every choice  *)
(* of those that may be killed and every size of a queue.                  *)
(*                                                                         *)
(* Two arguments.  An object that is marked has been removed by a process  *)
(* that is past its removal, and no program removes an object it still     *)
(* needs.  And the one semaphore, which is never removed, loses in value   *)
(* what the processes between wait and post hold.                          *)
(***************************************************************************)
EXTENDS NamedObjects, Integers, FiniteSetTheorems, TLAPS

-----------------------------------------------------------------------------
(* The inductive invariant.                                                *)

\* The programs that receive from a queue, that read shared memory, and that
\* map a file object.
Receivers == {"consumer", "consumer2"}
Readers == {"reader", "file_reader"}
Mappers == {"file_writter", "file_reader"}

\* The processes run the programs of one family.
OneFamily == \E f \in DOMAIN Cast : \A p \in Procs : prog[p] \in Cast[f]

\* A process goes no further than the end of its program.
PcInv == \A p \in Procs : pc[p] <= Len(Calls(p)) + 1

\* A process has an object once it is past the calls that find it, and each
\* object was made by one of them.
Finders == {p \in Procs : obj[p] # 0}
ObjInv ==
  /\ \A p \in Procs : pc[p] = 1 => obj[p] = 0
  /\ \A p \in Procs : pc[p] > 1 /\ ~(prog[p] = "named_semaphore" /\ pc[p] = 2) => obj[p] # 0
  /\ \A p \in Procs : result[p] \in {"crashed", "empty"} => obj[p] # 0
  /\ created <= Cardinality(Finders)

\* Who is past the call that removes its object.
RemovedInv ==
  \A o \in marked : \E q \in Procs : obj[q] = o /\ Past(q, "remove")

\* A file object has its size before it is mapped.
SizedInv ==
  \A p \in Procs : prog[p] \in Mappers /\ pc[p] > 2 => obj[p] \in sized

\* A message in shared memory stays there.
FoundInv ==
  \A p \in found : obj[p] # 0 /\ (prog[p] \in Readers => data[obj[p]][1] > 0)

\* Another process has removed the object of x.
RemovedUnder(x) == \E q \in Procs \ {x} : obj[q] = obj[x] /\ Past(q, "remove")

\* One semaphore, made once; it is taken by the processes between the calls.
Holders == {p \in Procs : Holds(p)}
SemaphoreInv ==
  (\A p \in Procs : prog[p] = "named_semaphore") =>
    /\ named = 0 => \A p \in Procs : pc[p] = 1
    /\ \A p \in Procs : obj[p] \in {0, named}
    /\ named # 0 => value[named] + Cardinality(Holders) = 1

IInv ==
  /\ TypeOK /\ OneFamily /\ PcInv /\ ObjInv /\ RemovedInv /\ SizedInv /\ FoundInv /\ FailsOnlyByRemoval
  /\ SemaphoreInv
-----------------------------------------------------------------------------
(* The programs.                                                           *)

\* The calls of each program, one by one.
LEMMA Rows ==
  /\ DOMAIN Code = {"producer", "consumer", "consumer2", "writter", "reader", "file_writter",
                    "file_reader", "named_semaphore"}
  /\ Code["producer"][1] = "get" /\ Code["producer"][2] = "type" /\ Code["producer"][3] = "send"
  /\ Len(Code["producer"]) = 3
  /\ \A k \in Receivers : /\ Code[k][1] = "get" /\ Code[k][2] = "receive" /\ Code[k][3] = "remove"
                          /\ Len(Code[k]) = 3
  /\ Code["writter"][1] = "get" /\ Code["writter"][2] = "attach" /\ Code["writter"][3] = "type"
  /\ Code["writter"][4] = "fill" /\ Code["writter"][5] = "detach"
  /\ Len(Code["writter"]) = 5
  /\ Code["reader"][1] = "get" /\ Code["reader"][2] = "attach" /\ Code["reader"][3] = "look"
  /\ Code["reader"][4] = "detach" /\ Code["reader"][5] = "remove"
  /\ Len(Code["reader"]) = 5
  /\ Code["file_writter"][1] = "get" /\ Code["file_writter"][2] = "truncate"
  /\ Code["file_writter"][3] = "attach" /\ Code["file_writter"][4] = "fill"
  /\ Code["file_writter"][5] = "detach"
  /\ Len(Code["file_writter"]) = 5
  /\ Code["file_reader"][1] = "open" /\ Code["file_reader"][2] = "truncate"
  /\ Code["file_reader"][3] = "attach" /\ Code["file_reader"][4] = "look"
  /\ Code["file_reader"][5] = "detach" /\ Code["file_reader"][6] = "unlink"
  /\ Len(Code["file_reader"]) = 6
  /\ Code["named_semaphore"][1] = "create" /\ Code["named_semaphore"][2] = "open"
  /\ Code["named_semaphore"][3] = "wait" /\ Code["named_semaphore"][4] = "type"
  /\ Code["named_semaphore"][5] = "post" /\ Code["named_semaphore"][6] = "type"
  /\ Code["named_semaphore"][7] = "unlinkPointer"
  /\ Len(Code["named_semaphore"]) = 7
<1> USE DEF Code, Receivers
<1>1. DOMAIN Code = {"producer", "consumer", "consumer2", "writter", "reader", "file_writter",
                     "file_reader", "named_semaphore"}
  OBVIOUS
<1>2. Code["producer"] = producer /\ \A k \in Receivers : Code[k] = consumer
  OBVIOUS
<1>3. /\ Code["writter"] = writter /\ Code["reader"] = reader
      /\ Code["file_writter"] = file_writter /\ Code["file_reader"] = file_reader
      /\ Code["named_semaphore"] = named_semaphore
  OBVIOUS
<1> QED BY ONLY <1>1, <1>2, <1>3 DEF producer, consumer, writter, reader, file_writter, file_reader,
        named_semaphore

\* Where a process is whose next call is the one named.
LEMMA Where ==
  ASSUME TypeOK, NEW p \in Procs
  PROVE  /\ \A call : At(p, call) => pc[p] \in 1..7
         /\ At(p, "get") => pc[p] = 1 /\ prog[p] # "named_semaphore"
         /\ At(p, "create") => pc[p] = 1 /\ prog[p] = "named_semaphore"
         /\ At(p, "open") => \/ pc[p] = 1 /\ prog[p] = "file_reader"
                             \/ pc[p] = 2 /\ prog[p] = "named_semaphore"
         /\ At(p, "send") => pc[p] = 3 /\ prog[p] = "producer"
         /\ At(p, "receive") => pc[p] = 2 /\ prog[p] \in Receivers
         /\ At(p, "remove") => \/ pc[p] = 3 /\ prog[p] \in Receivers
                               \/ pc[p] = 5 /\ prog[p] = "reader"
         /\ At(p, "truncate") => pc[p] = 2 /\ prog[p] \in Mappers
         /\ At(p, "attach") => \/ pc[p] = 2 /\ prog[p] \in {"writter", "reader"}
                               \/ pc[p] = 3 /\ prog[p] \in Mappers
         /\ At(p, "fill") => pc[p] = 4 /\ prog[p] \in {"writter", "file_writter"}
         /\ At(p, "look") => \/ pc[p] = 3 /\ prog[p] = "reader"
                             \/ pc[p] = 4 /\ prog[p] = "file_reader"
         /\ At(p, "wait") => pc[p] = 3 /\ prog[p] = "named_semaphore"
         /\ At(p, "post") => pc[p] = 5 /\ prog[p] = "named_semaphore"
         /\ At(p, "type") => /\ pc[p] > 1 /\ (prog[p] = "named_semaphore" => pc[p] \in {4, 6})
                             /\ prog[p] = "producer" => pc[p] = 2
         /\ At(p, "detach") => pc[p] > 1 /\ prog[p] \in {"writter", "reader"} \cup Mappers
         /\ At(p, "unlink") => pc[p] = 6 /\ prog[p] = "file_reader"
         /\ At(p, "unlinkPointer") => pc[p] = 7 /\ prog[p] = "named_semaphore"
<1>1. PICK k \in DOMAIN Code, n \in 1..8 : k = prog[p] /\ n = pc[p]
  BY DEF TypeOK
<1>2. \A call : At(p, call) => n <= Len(Code[k]) /\ Code[k][n] = call
  <2>1. Len(Code[k]) \in Nat
    BY Rows DEF Receivers
  <2> QED BY <1>1, <2>1 DEF At, Ended, Calls
<1> SUFFICES ASSUME n <= Len(Code[k])
             PROVE  /\ n \in 1..7
                    /\ Code[k][n] = "get" => n = 1 /\ k # "named_semaphore"
                    /\ Code[k][n] = "create" => n = 1 /\ k = "named_semaphore"
                    /\ Code[k][n] = "open" => \/ n = 1 /\ k = "file_reader"
                                              \/ n = 2 /\ k = "named_semaphore"
                    /\ Code[k][n] = "send" => n = 3 /\ k = "producer"
                    /\ Code[k][n] = "receive" => n = 2 /\ k \in Receivers
                    /\ Code[k][n] = "remove" => \/ n = 3 /\ k \in Receivers
                                                \/ n = 5 /\ k = "reader"
                    /\ Code[k][n] = "truncate" => n = 2 /\ k \in Mappers
                    /\ Code[k][n] = "attach" => \/ n = 2 /\ k \in {"writter", "reader"}
                                                \/ n = 3 /\ k \in Mappers
                    /\ Code[k][n] = "fill" => n = 4 /\ k \in {"writter", "file_writter"}
                    /\ Code[k][n] = "look" => \/ n = 3 /\ k = "reader"
                                              \/ n = 4 /\ k = "file_reader"
                    /\ Code[k][n] = "wait" => n = 3 /\ k = "named_semaphore"
                    /\ Code[k][n] = "post" => n = 5 /\ k = "named_semaphore"
                    /\ Code[k][n] = "type" => /\ n > 1 /\ (k = "named_semaphore" => n \in {4, 6})
                                              /\ k = "producer" => n = 2
                    /\ Code[k][n] = "detach" => n > 1 /\ k \in {"writter", "reader"} \cup Mappers
                    /\ Code[k][n] = "unlink" => n = 6 /\ k = "file_reader"
                    /\ Code[k][n] = "unlinkPointer" => n = 7 /\ k = "named_semaphore"
  BY <1>1, <1>2
<1> USE DEF Receivers, Mappers
<1>3. CASE k = "producer"
  <2>1. n \in {1, 2, 3}
    BY <1>3, Rows
  <2> QED BY <1>3, <2>1, Rows
<1>4. CASE k \in Receivers
  <2>0. Len(Code[k]) = 3
    BY <1>4, Rows
  <2>1. n \in {1, 2, 3}
    BY <2>0
  <2> QED BY <1>4, <2>1, Rows
<1>5. CASE k = "writter"
  <2>1. n \in {1, 2, 3, 4, 5}
    BY <1>5, Rows
  <2> QED BY <1>5, <2>1, Rows
<1>6. CASE k = "reader"
  <2>1. n \in {1, 2, 3, 4, 5}
    BY <1>6, Rows
  <2> QED BY <1>6, <2>1, Rows
<1>7. CASE k = "file_writter"
  <2>1. n \in {1, 2, 3, 4, 5}
    BY <1>7, Rows
  <2> QED BY <1>7, <2>1, Rows
<1>8. CASE k = "file_reader"
  <2>1. n \in {1, 2, 3, 4, 5, 6}
    BY <1>8, Rows
  <2> QED BY <1>8, <2>1, Rows
<1>9. CASE k = "named_semaphore"
  <2>1. n \in {1, 2, 3, 4, 5, 6, 7}
    BY <1>9, Rows
  <2> QED BY <1>9, <2>1, Rows
<1> QED BY <1>3, <1>4, <1>5, <1>6, <1>7, <1>8, <1>9, Rows

\* Program k has gone past the call when it is at its n-th.
PastAt(k, n, call) == \E i \in 1..(n - 1) : Code[k][i] = call

\* Which programs are past a removal, and between wait and post, and where.
LEMMA RowPast ==
  ASSUME NEW k \in DOMAIN Code, NEW n \in 1..8, n <= Len(Code[k]) + 1
  PROVE  /\ PastAt(k, n, "remove") <=> (k \in Receivers /\ n > 3) \/ (k = "reader" /\ n > 5)
         /\ k = "named_semaphore" =>
              (PastAt(k, n, "wait") /\ ~PastAt(k, n, "post") <=> n \in {4, 5})
<1>2. /\ \A call : PastAt(k, n, call) <=> \E i \in 1..(n - 1) : Code[k][i] = call
      /\ n <= Len(Code[k]) + 1
  BY DEF PastAt
<1> USE DEF Receivers
<1>3. ASSUME NEW i \in 1..(n - 1)
      PROVE  Code[k][i] = "remove" <=> (k \in Receivers /\ i = 3) \/ (k = "reader" /\ i = 5)
  <2>1. Len(Code[k]) \in Nat
    BY Rows
  <2>2. i <= Len(Code[k])
    BY <1>2, <2>1
  <2>3. CASE k \in Receivers
    <3>1. Len(Code[k]) = 3 /\ Code[k][1] = "get" /\ Code[k][2] = "receive" /\ Code[k][3] = "remove"
      BY <2>3, Rows
    <3>2. i \in {1, 2, 3}
      BY <2>2, <3>1
    <3> QED BY <2>3, <3>1, <3>2
  <2>4. CASE k = "producer"
    <3>1. i \in {1, 2, 3}
      BY <2>2, <2>4, Rows
    <3> QED BY <2>4, <3>1, Rows
  <2>5. CASE k \in {"writter", "reader", "file_writter"}
    <3>1. Len(Code[k]) = 5
      BY <2>5, Rows
    <3>2. i \in {1, 2, 3, 4, 5}
      BY <2>2, <3>1
    <3> QED BY <2>5, <3>2, Rows
  <2>6. CASE k \in {"file_reader", "named_semaphore"}
    <3>1. i \in {1, 2, 3, 4, 5, 6, 7}
      BY <2>2, <2>6, Rows
    <3> QED BY <2>2, <2>6, <3>1, Rows
  <2> QED BY <2>3, <2>4, <2>5, <2>6, Rows
<1>4. PastAt(k, n, "remove") <=> (k \in Receivers /\ n > 3) \/ (k = "reader" /\ n > 5)
  <2>1. n > 3 => 3 \in 1..(n - 1)
    OBVIOUS
  <2>2. n > 5 => 5 \in 1..(n - 1)
    OBVIOUS
  <2> QED BY <1>2, <1>3, <2>1, <2>2
<1>5. k = "named_semaphore" => (PastAt(k, n, "wait") /\ ~PastAt(k, n, "post") <=> n \in {4, 5})
  <2> SUFFICES ASSUME k = "named_semaphore" 
                PROVE  PastAt(k, n, "wait") /\ ~PastAt(k, n, "post") <=> n \in {4, 5}
    OBVIOUS
  <2>1. \A i \in 1..(n - 1) : i \in {1, 2, 3, 4, 5, 6, 7}
    OBVIOUS
  <2>2. PastAt(k, n, "wait") <=> n > 3
    <3>1. n > 3 => 3 \in 1..(n - 1)
      OBVIOUS
    <3>2. \A i \in 1..(n - 1) : Code[k][i] = "wait" <=> i = 3
      BY <2>1, Rows
    <3> QED BY <1>2, <3>1, <3>2
  <2>3. PastAt(k, n, "post") <=> n > 5
    <3>1. n > 5 => 5 \in 1..(n - 1)
      OBVIOUS
    <3>2. \A i \in 1..(n - 1) : Code[k][i] = "post" <=> i = 5
      BY <2>1, Rows
    <3> QED BY <1>2, <3>1, <3>2
  <2> QED BY <2>2, <2>3
<1> QED BY <1>4, <1>5

\* Who is past a removal, and who holds the semaphore, before and after a step.
LEMMA PastCalls ==
  ASSUME TypeOK, PcInv, NEW p \in Procs
  PROVE  /\ Past(p, "remove") <=> \/ prog[p] \in Receivers /\ pc[p] > 3
                                  \/ prog[p] = "reader" /\ pc[p] > 5
         /\ prog[p] = "named_semaphore" => (Holds(p) <=> pc[p] \in {4, 5})
<1>1. /\ prog[p] \in DOMAIN Code /\ pc[p] \in 1..8 /\ pc[p] <= Len(Code[prog[p]]) + 1
      /\ \A call : Past(p, call) <=> PastAt(prog[p], pc[p], call)
  BY DEF TypeOK, PcInv, Calls, Past, PastAt
<1> QED BY <1>1, RowPast DEF Holds

\* The same in the next state.
LEMMA PastCallsNext ==
  ASSUME TypeOK', PcInv', NEW p \in Procs, prog'[p] = "named_semaphore"
  PROVE  Holds(p)' <=> pc'[p] \in {4, 5}
<1>1. /\ prog'[p] \in DOMAIN Code /\ pc'[p] \in 1..8 /\ pc'[p] <= Len(Code[prog'[p]]) + 1
      /\ \A call : Past(p, call)' <=> PastAt(prog'[p], pc'[p], call)
  BY DEF TypeOK, PcInv, Calls, Past, PastAt
<1>2. Holds(p)' <=> PastAt(prog'[p], pc'[p], "wait") /\ ~PastAt(prog'[p], pc'[p], "post")
  BY <1>1 DEF Holds
<1> QED BY <1>1, <1>2, RowPast

-----------------------------------------------------------------------------
(* What a step leaves alone.                                               *)

\* An action of p that goes past a call.
LEMMA AdvanceEffect ==
  ASSUME TypeOK, PcInv, NEW p \in Procs, NEW call, Advance(p, call)
  PROVE  /\ At(p, call) /\ pc[p] \in 1..7 /\ pc'[p] = pc[p] + 1
         /\ pc' \in [Procs -> 1..8] /\ PcInv'
         /\ \A q \in Procs : q # p => pc'[q] = pc[q]
         /\ UNCHANGED <<prog, dead>>
<1>1. At(p, call) /\ pc' = [pc EXCEPT ![p] = @ + 1] /\ UNCHANGED <<prog, dead>>
  BY DEF Advance
<1>2. pc[p] \in 1..7
  BY <1>1, Where
<1>3. pc'[p] = pc[p] + 1 /\ pc' \in [Procs -> 1..8] /\ \A q \in Procs : q # p => pc'[q] = pc[q]
  BY <1>1, <1>2 DEF TypeOK
<1>4. PcInv'
  <2>1. \A q \in Procs : Len(Calls(q)) \in Nat /\ Len(Calls(q))' = Len(Calls(q))
    BY <1>1, Rows DEF Calls, TypeOK, Receivers
  <2>2. pc[p] <= Len(Calls(p))
    BY <1>1, <1>2, <2>1 DEF At, Ended
  <2> QED BY <1>2, <1>3, <2>1, <2>2 DEF PcInv
<1> QED BY <1>1, <1>2, <1>3, <1>4

\* The steps in which p finds its object, uses it or lets it go, and ends early.
Finds(p) == Get(p) \/ Create(p) \/ Open(p)
Uses(p) ==
  \/ Type(p) \/ Send(p) \/ Receive(p) \/ Truncate(p) \/ Attach(p)
  \/ Touchable(p) /\ (Fill(p) \/ Look(p))
  \/ value[obj[p]] > 0 /\ Wait(p)
  \/ Post(p) \/ Detach(p) \/ Remove(p) \/ Unlink(p) \/ UnlinkPointer(p)
Stops(p) ==
  \/ OpenFails(p) \/ AttachFails(p) \/ Kill(p)
  \/ ~Touchable(p) /\ (Fill(p) \/ Look(p))
  \/ value[obj[p]] = 0 /\ Wait(p)

\* There are no other steps.
LEMMA StepKinds ==
  ASSUME NEW p \in Procs, Step(p) \/ Type(p) \/ Kill(p)
  PROVE  Finds(p) \/ Uses(p) \/ Stops(p)
BY DEF Step, Finds, Uses, Stops, Wait

\* A process that ends early changes its result, and crashes on an object that
\* is gone or has no size.
LEMMA StopEffect ==
  ASSUME TypeOK, NEW p \in Procs, Stops(p)
  PROVE  /\ UNCHANGED <<prog, pc, obj, objectVars, typed, found>>
         /\ dead' = dead \cup {p}
         /\ \E l \in {"failed", "crashed", "killed"} :
              /\ result' = [result EXCEPT ![p] = l]
              /\ l = "crashed" => \/ At(p, "attach") /\ obj[p] \in marked
                                  \/ (At(p, "fill") \/ At(p, "look")) /\ ~Touchable(p)
<1>1. CASE OpenFails(p)
  BY <1>1 DEF OpenFails, GiveUp
<1>2. CASE AttachFails(p)
  BY <1>2 DEF AttachFails, GiveUp, Gone
<1>3. CASE Kill(p)
  BY <1>3 DEF Kill
<1>4. CASE ~Touchable(p) /\ (Fill(p) \/ Look(p))
  BY <1>4 DEF Fill, Look, GiveUp
<1>5. CASE value[obj[p]] = 0 /\ Wait(p)
  BY <1>5 DEF Wait, GiveUp
<1> QED BY <1>1, <1>2, <1>3, <1>4, <1>5 DEF Stops

\* A use leaves everybody's object as it was.
LEMMA UseEffect ==
  ASSUME TypeOK, NEW p \in Procs, Uses(p)
  PROVE  /\ UNCHANGED <<obj, created, found>>
         /\ \E call : Advance(p, call)
         /\ \A q \in Procs : q # p => result'[q] = result[q]
         /\ marked \subseteq marked' /\ sized \subseteq sized'
<1> USE DEF objectVars
<1>1. CASE \/ Type(p) \/ Send(p) \/ Attach(p) \/ Post(p) \/ Detach(p) \/ Unlink(p)
           \/ UnlinkPointer(p)
  BY <1>1 DEF Type, Send, Attach, Post, Detach, Unlink, UnlinkPointer
<1>2. CASE Truncate(p) \/ Remove(p)
  BY <1>2 DEF Truncate, Remove
<1>3. CASE Receive(p)
  BY <1>3 DEF Receive, TypeOK
<1>4. CASE Touchable(p) /\ (Fill(p) \/ Look(p))
  BY <1>4 DEF Fill, Look, TypeOK
<1>5. CASE value[obj[p]] > 0 /\ Wait(p)
  BY <1>5 DEF Wait, TypeOK
<1> QED BY <1>1, <1>2, <1>3, <1>4, <1>5 DEF Uses

\* Finding an object changes what the process has, and nothing else of anybody.
LEMMA FindEffect ==
  ASSUME TypeOK, NEW p \in Procs, Finds(p)
  PROVE  /\ UNCHANGED <<marked, sized, data, typed, result>>
         /\ \E call : Advance(p, call)
         /\ \A q \in Procs : q # p => obj'[q] = obj[q] /\ (q \in found' <=> q \in found)
         /\ found' \subseteq found \cup {p}
         /\ obj'[p] # obj[p] => At(p, "get") \/ At(p, "create") \/ obj[p] = 0
<1> USE DEF objectVars, Meets, Advance
<1>1. CASE Get(p)
  <2>1. /\ UNCHANGED <<marked, sized, data, typed, result>> /\ Advance(p, "get")
        /\ \E o : Meets(p, o)
    BY <1>1 DEF Get
  <2> QED BY <2>1 DEF TypeOK
<1>2. CASE Create(p)
  BY <1>2 DEF Create, TypeOK
<1>3. CASE Open(p)
  BY <1>3 DEF Open, TypeOK
<1> QED BY <1>1, <1>2, <1>3 DEF Finds

\* What every step of p keeps.
LEMMA StepFrame ==
  ASSUME TypeOK, PcInv, ObjInv, NEW p \in Procs, Step(p) \/ Type(p) \/ Kill(p)
  PROVE  /\ prog' = prog /\ PcInv' /\ pc' \in [Procs -> 1..8]
         /\ \A q \in Procs : q # p =>
              /\ pc'[q] = pc[q] /\ obj'[q] = obj[q] /\ result'[q] = result[q]
              /\ q \in found' <=> q \in found
         /\ pc'[p] = pc[p] \/ pc'[p] = pc[p] + 1
         /\ obj[p] # 0 => obj'[p] = obj[p]
         /\ marked \subseteq marked' /\ sized \subseteq sized'
<1>1. CASE Finds(p)
  <2>1. /\ PcInv' /\ pc' \in [Procs -> 1..8] /\ pc'[p] = pc[p] + 1 /\ prog' = prog
        /\ \A q \in Procs : q # p => pc'[q] = pc[q]
    BY <1>1, FindEffect, AdvanceEffect
  <2>2. obj[p] # 0 => obj'[p] = obj[p]
    BY <1>1, FindEffect, Where DEF ObjInv
  <2> QED BY <1>1, <2>1, <2>2, FindEffect
<1>2. CASE Uses(p)
  <2>1. /\ PcInv' /\ pc' \in [Procs -> 1..8] /\ pc'[p] = pc[p] + 1 /\ prog' = prog
        /\ \A q \in Procs : q # p => pc'[q] = pc[q]
    BY <1>2, UseEffect, AdvanceEffect
  <2> QED BY <1>2, <2>1, UseEffect
<1>3. CASE Stops(p)
  <2>1. /\ UNCHANGED <<prog, pc, obj, marked, sized, found>>
        /\ \A q \in Procs : q # p => result'[q] = result[q]
    BY <1>3, StopEffect DEF objectVars, TypeOK
  <2> QED BY <2>1 DEF PcInv, Calls, TypeOK
<1> QED BY <1>1, <1>2, <1>3, StepKinds

-----------------------------------------------------------------------------
(* Types and objects.                                                      *)

\* There are no more objects than processes.
LEMMA FindersBound ==
  ASSUME TypeOK
  PROVE  /\ IsFiniteSet(Finders) /\ Cardinality(Finders) \in Nat
         /\ Cardinality(Procs) \in Nat /\ Cardinality(Finders) <= Cardinality(Procs)
BY ProcsAssumption, FS_Subset, FS_CardinalityType DEF Finders

\* A process that makes an object had none.
LEMMA MakesOne ==
  ASSUME TypeOK, ObjInv, NEW p \in Procs, pc[p] = 1, obj' = [obj EXCEPT ![p] = created + 1]
  PROVE  /\ Cardinality(Finders)' = Cardinality(Finders) + 1
         /\ created + 1 <= Cardinality(Procs) /\ created + 1 <= Cardinality(Finders)'
         /\ obj' \in [Procs -> 0..(created + 1)]
<1>1. created \in Nat /\ obj \in [Procs -> 0..created]
  BY FindersBound DEF TypeOK
<1>2. Finders' = Finders \cup {p} /\ p \notin Finders
  BY <1>1 DEF Finders, ObjInv
<1>3. Cardinality(Finders)' = Cardinality(Finders) + 1
  BY <1>2, FindersBound, FS_AddElement
<1>4. Finders' \subseteq Procs
  BY DEF Finders
<1>5. Cardinality(Finders') <= Cardinality(Procs)
  BY <1>4, ProcsAssumption, FS_Subset
<1>6. created <= Cardinality(Finders)
  BY DEF ObjInv
<1>7. obj' \in [Procs -> 0..(created + 1)]
  BY <1>1
<1>8. created + 1 <= Cardinality(Finders)'
  BY <1>1, <1>3, <1>6, FindersBound
<1> QED BY <1>1, <1>3, <1>5, <1>7, <1>8, FindersBound

\* A process that finds an object gets one of those there are.
LEMMA FindTypes ==
  ASSUME TypeOK, PcInv, ObjInv, NEW p \in Procs, Finds(p)
  PROVE  TypeOK' /\ created' <= Cardinality(Finders)'
<1>0. /\ UNCHANGED <<marked, sized, data, typed, result, prog, dead>> /\ pc' \in [Procs -> 1..8]
      /\ found' \subseteq Procs
  BY FindEffect, AdvanceEffect DEF TypeOK
<1>1. Cardinality(Procs) \in Nat /\ created \in Nat /\ named \in 0..created
  BY FindersBound DEF TypeOK
<1>2. ASSUME pc[p] = 1, obj' = [obj EXCEPT ![p] = created + 1], named' = created + 1,
             created' = created + 1, value' \in [1..Cardinality(Procs) -> Nat]
      PROVE  TypeOK' /\ created' <= Cardinality(Finders)'
  <2>1. /\ created + 1 <= Cardinality(Procs) /\ created + 1 <= Cardinality(Finders)'
        /\ obj' \in [Procs -> 0..(created + 1)]
    BY <1>2, MakesOne
  <2>2. created' \in 0..Cardinality(Procs) /\ named' \in 0..created' /\ 1..created \subseteq 1..created'
    BY <1>1, <1>2, <2>1
  <2>3. marked' \subseteq 1..created' /\ sized' \subseteq 1..created' /\ obj' \in [Procs -> 0..created']
    BY <1>0, <1>2, <2>1, <2>2 DEF TypeOK
  <2> QED BY <1>0, <1>2, <2>1, <2>2, <2>3 DEF TypeOK
<1>3. ASSUME UNCHANGED <<named, created, value>>,
             obj' = obj \/ (obj' = [obj EXCEPT ![p] = named] /\ named # 0)
      PROVE  TypeOK' /\ created' <= Cardinality(Finders)'
  <2>1. obj' \in [Procs -> 0..created]
    BY <1>1, <1>3 DEF TypeOK
  <2>2. Finders \subseteq Finders' /\ Finders' \subseteq Procs
    BY <1>3 DEF Finders, TypeOK
  <2>3. Cardinality(Finders) <= Cardinality(Finders') /\ Cardinality(Finders') \in Nat
    <3>1. IsFiniteSet(Finders')
      BY <2>2, ProcsAssumption, FS_Subset
    <3> QED BY <2>2, <3>1, FS_Subset, FS_CardinalityType
  <2>4. TypeOK'
    BY <1>0, <1>3, <2>1 DEF TypeOK
  <2> QED BY <1>1, <1>3, <2>3, <2>4, FindersBound DEF ObjInv
<1>4. CASE Get(p)
  <2>1. pc[p] = 1
    BY <1>4, Where DEF Get, Advance
  <2>2. CASE named # 0
    BY <1>3, <1>4, <2>2 DEF Get, Meets
  <2>3. CASE named = 0
    BY <1>2, <1>4, <2>1, <2>3 DEF Get, Meets, TypeOK
  <2> QED BY <2>2, <2>3
<1>5. CASE Create(p)
  <2>1. pc[p] = 1
    BY <1>5, Where DEF Create, Advance
  <2>2. CASE named # 0
    BY <1>3, <1>5, <2>2 DEF Create
  <2>3. CASE named = 0
    <3>1. value' \in [1..Cardinality(Procs) -> Nat]
      BY <1>5, <2>3 DEF Create, TypeOK
    <3> QED BY <1>2, <1>5, <2>1, <2>3, <3>1 DEF Create
  <2> QED BY <2>2, <2>3
<1>6. CASE Open(p)
  BY <1>3, <1>6 DEF Open, Meets, objectVars
<1> QED BY <1>4, <1>5, <1>6 DEF Finds

\* A table of numbers stays one when one of them changes.
LEMMA TableUpdate ==
  ASSUME NEW D, NEW E, NEW f \in [D -> [E -> Nat]], NEW o, NEW t, NEW v,
         o \in D /\ t \in E => v \in Nat
  PROVE  [f EXCEPT ![o][t] = v] \in [D -> [E -> Nat]]
<1>1. CASE o \in D
  <2>1. [f[o] EXCEPT ![t] = v] \in [E -> Nat]
    BY <1>1
  <2> QED BY <1>1, <2>1
<1>2. CASE o \notin D
  BY <1>2
<1> QED BY <1>1, <1>2

\* A use keeps the types.
LEMMA UseTypes ==
  ASSUME TypeOK, PcInv, ObjInv, NEW p \in Procs, Uses(p)
  PROVE  TypeOK' /\ created' <= Cardinality(Finders)'
<1>0. /\ UNCHANGED <<obj, created, found, prog, dead>> /\ pc' \in [Procs -> 1..8]
  BY UseEffect, AdvanceEffect DEF TypeOK
<1>1. created' <= Cardinality(Finders)'
  BY <1>0 DEF ObjInv, Finders
<1> USE DEF objectVars
<1>2. Wanted(p) \in Types /\ Types \subseteq Nat
  BY DEF Wanted, Types
<1> DEFINE Data == [1..Cardinality(Procs) -> [Types -> Nat]]
<1>2a. data \in Data
  BY DEF TypeOK
<1>3. CASE Type(p)
  BY <1>0, <1>1, <1>3 DEF Type, TypeOK
<1>4. CASE Send(p)
  <2>1. data' \in Data
    <3>1. CASE data' = data
      BY <1>2a, <3>1
    <3>2. CASE data' = [data EXCEPT ![obj[p]][typed[p]] = @ + 1]
      <4>1. obj[p] \in 1..Cardinality(Procs) /\ typed[p] \in Types => data[obj[p]][typed[p]] + 1 \in Nat
        BY <1>2a
      <4>2. data' = [data EXCEPT ![obj[p]][typed[p]] = data[obj[p]][typed[p]] + 1]
        BY <3>2
      <4> QED BY <1>2a, <4>1, <4>2, TableUpdate
    <3> QED BY <1>4, <3>1, <3>2 DEF Send
  <2> QED BY <1>0, <1>1, <1>4, <2>1 DEF Send, TypeOK
<1>5. CASE Receive(p)
  <2>1. data' \in Data
    <3>1. CASE data' = data
      BY <1>2a, <3>1
    <3>2. CASE /\ data[obj[p]][Wanted(p)] > 0
               /\ data' = [data EXCEPT ![obj[p]][Wanted(p)] = @ - 1]
      <4>1. obj[p] \in 1..Cardinality(Procs) /\ Wanted(p) \in Types =>
              data[obj[p]][Wanted(p)] - 1 \in Nat
        <5>1. obj[p] \in 1..Cardinality(Procs) /\ Wanted(p) \in Types =>
                data[obj[p]][Wanted(p)] \in Nat
          BY <1>2a
        <5> QED BY <3>2, <5>1
      <4>2. data' = [data EXCEPT ![obj[p]][Wanted(p)] = data[obj[p]][Wanted(p)] - 1]
        BY <3>2
      <4> QED BY <1>2a, <4>1, <4>2, TableUpdate
    <3> QED BY <1>5, <3>1, <3>2 DEF Receive
  <2> QED BY <1>0, <1>1, <1>5, <2>1 DEF Receive, TypeOK
<1>6. CASE Truncate(p) \/ Remove(p)
  <2>1. obj[p] \in 1..created
    <3>1. obj[p] # 0
      BY <1>6, Where DEF Truncate, Remove, Advance, ObjInv, Mappers, Receivers
    <3> QED BY <3>1 DEF TypeOK
  <2>2. named' \in 0..created
    BY <1>6 DEF Truncate, Remove, TypeOK
  <2> QED BY <1>0, <1>1, <1>6, <2>1, <2>2 DEF Truncate, Remove, TypeOK
<1>7. CASE Touchable(p) /\ (Fill(p) \/ Look(p))
  <2>1. data' \in Data
    <3>1. data' = data \/ data' = [data EXCEPT ![obj[p]][1] = 1]
      BY <1>7 DEF Fill, Look
    <3>2. CASE data' = [data EXCEPT ![obj[p]][1] = 1]
      BY <1>2a, <3>2, TableUpdate
    <3> QED BY <1>2a, <3>1, <3>2
  <2>2. /\ UNCHANGED <<named, marked, sized, value, typed>>
        /\ result' \in [Procs -> {"none", "data", "empty", "failed", "crashed", "killed"}]
    BY <1>7 DEF Fill, Look, TypeOK
  <2> QED BY <1>0, <1>1, <2>1, <2>2 DEF TypeOK
<1>8. CASE (value[obj[p]] > 0 /\ Wait(p)) \/ Post(p)
  <2>1. value' \in [1..Cardinality(Procs) -> Nat]
    BY <1>8 DEF Wait, Post, TypeOK
  <2>2. UNCHANGED <<named, marked, sized, data, typed, result>>
    BY <1>8 DEF Wait, Post
  <2> QED BY <1>0, <1>1, <2>1, <2>2 DEF TypeOK
<1>9. CASE Attach(p) \/ Detach(p) \/ Unlink(p) \/ UnlinkPointer(p)
  <2>1. named' \in 0..created
    BY <1>9, FindersBound DEF Attach, Detach, Unlink, UnlinkPointer, TypeOK
  <2> QED BY <1>0, <1>1, <1>9, <2>1 DEF Attach, Detach, Unlink, UnlinkPointer, TypeOK
<1> QED BY <1>3, <1>4, <1>5, <1>6, <1>7, <1>8, <1>9 DEF Uses

\* Every step keeps the types, and everybody's object one of those there are.
LEMMA ObjStep ==
  ASSUME TypeOK, PcInv, ObjInv, NEW p \in Procs, Step(p) \/ Type(p) \/ Kill(p)
  PROVE  TypeOK' /\ PcInv' /\ ObjInv'
<1>1. PcInv' /\ prog' = prog
  BY StepFrame
<1>2. TypeOK' /\ created' <= Cardinality(Finders)'
  <2>1. CASE Stops(p)
    <3>1. result' \in [Procs -> {"none", "data", "empty", "failed", "crashed", "killed"}]
      BY <2>1, StopEffect DEF TypeOK
    <3>2. UNCHANGED <<prog, pc, obj, objectVars, typed, found>> /\ dead' = dead \cup {p}
      BY <2>1, StopEffect
    <3>3. Finders' = Finders
      BY <3>2 DEF Finders
    <3>4. created' <= Cardinality(Finders)'
      BY <3>2, <3>3 DEF ObjInv, objectVars
    <3> QED BY <3>1, <3>2, <3>4 DEF TypeOK, objectVars
  <2> QED BY <2>1, FindTypes, UseTypes, StepKinds
<1>3. ASSUME NEW q \in Procs
      PROVE  /\ pc'[q] = 1 => obj'[q] = 0
             /\ pc'[q] > 1 /\ ~(prog[q] = "named_semaphore" /\ pc'[q] = 2) => obj'[q] # 0
             /\ result'[q] \in {"crashed", "empty"} => obj'[q] # 0
  <2>1. CASE q # p
    BY <1>3, <2>1, StepFrame DEF ObjInv
  <2>2. CASE q = p /\ Stops(p)
    <3>1. UNCHANGED <<pc, obj>> /\ (result'[p] = "crashed" => obj[p] # 0 ) /\ result'[p] # "empty"
      <4>1. At(p, "attach") \/ At(p, "fill") \/ At(p, "look") => obj[p] # 0
        BY Where DEF ObjInv, Mappers
      <4> QED BY <2>2, <4>1, StopEffect DEF TypeOK
    <3> QED BY <2>2, <3>1 DEF ObjInv
  <2>3. CASE q = p /\ Uses(p)
    <3>1. pc'[p] = pc[p] + 1 /\ pc[p] \in 1..7 /\ obj' = obj
      BY <2>3, UseEffect, AdvanceEffect
    <3>2. obj[p] # 0
      BY <2>3, Where DEF ObjInv, Uses, Type, Send, Receive, Truncate, Attach, Fill, Look, Wait, Post,
         Detach, Remove, Unlink, UnlinkPointer, Advance, GiveUp, Receivers, Mappers
    <3> QED BY <2>3, <3>1, <3>2
  <2>4. CASE q = p /\ Finds(p)
    <3>1. pc'[p] = pc[p] + 1 /\ pc[p] \in 1..7 /\ result' = result
      BY <2>4, FindEffect, AdvanceEffect
    <3>2. obj'[p] # 0 \/ (prog[p] = "named_semaphore" /\ pc[p] = 1 /\ obj' = obj)
      <4>1. CASE Get(p)
        BY <4>1, FindersBound DEF Get, Meets, TypeOK
      <4>2. CASE Create(p)
        BY <4>2, Where, FindersBound DEF Create, Advance, TypeOK
      <4>3. CASE Open(p)
        BY <4>3 DEF Open, Meets, TypeOK
      <4> QED BY <2>4, <4>1, <4>2, <4>3 DEF Finds
    <3> QED BY <2>4, <3>1, <3>2 DEF ObjInv
  <2> QED BY <2>1, <2>2, <2>3, <2>4, StepKinds
<1> QED BY <1>1, <1>2, <1>3 DEF ObjInv
-----------------------------------------------------------------------------
(* Removal.                                                                *)

\* A call that is behind a process stays behind it, and so does its object.
LEMMA PastStays ==
  ASSUME TypeOK, PcInv, ObjInv, NEW p \in Procs, Step(p) \/ Type(p) \/ Kill(p), NEW q \in Procs
  PROVE  /\ \A call : Past(q, call) => Past(q, call)'
         /\ obj[q] # 0 => obj'[q] = obj[q]
<1>1. prog'[q] = prog[q] /\ (pc'[q] = pc[q] \/ pc'[q] = pc[q] + 1) /\ pc[q] \in 1..8
  BY StepFrame DEF TypeOK
<1>2. \A i \in 1..(pc[q] - 1) : i \in 1..(pc'[q] - 1)
  BY <1>1
<1> QED BY <1>1, <1>2, StepFrame DEF Past, Calls

\* Once the object of x is removed by another process, it stays so.
LEMMA RemovedUnderStays ==
  ASSUME TypeOK, PcInv, ObjInv, NEW p \in Procs, Step(p) \/ Type(p) \/ Kill(p),
         NEW x \in Procs, obj[x] # 0, RemovedUnder(x)
  PROVE  RemovedUnder(x)'
<1>1. PICK q \in Procs \ {x} : obj[q] = obj[x] /\ Past(q, "remove")
  BY DEF RemovedUnder
<1>2. obj'[q] = obj[q] /\ obj'[x] = obj[x] /\ Past(q, "remove")'
  BY <1>1, PastStays
<1> QED BY <1>1, <1>2 DEF RemovedUnder

\* A removed object that a process still needs was removed by another.
LEMMA RemovedByAnother ==
  ASSUME TypeOK, PcInv, RemovedInv, NEW x \in Procs, obj[x] \in marked,
         At(x, "receive") \/ At(x, "attach")
  PROVE  RemovedUnder(x)
<1>1. PICK q \in Procs : obj[q] = obj[x] /\ Past(q, "remove")
  BY DEF RemovedInv
<1>2. pc[x] = 2 \/ (pc[x] = 3 /\ prog[x] \in Mappers)
  BY Where
<1>3. ~Past(x, "remove")
  BY <1>2, PastCalls DEF Mappers, Receivers
<1> QED BY <1>1, <1>3 DEF RemovedUnder

\* RemovedInv and SizedInv are kept.
LEMMA RemovedStep ==
  ASSUME TypeOK, PcInv, ObjInv, RemovedInv, SizedInv, NEW p \in Procs, Step(p) \/ Type(p) \/ Kill(p)
  PROVE  RemovedInv' /\ SizedInv'
<1>1. RemovedInv'
  <2>1. ASSUME NEW o \in marked
        PROVE  \E q \in Procs : obj'[q] = o /\ Past(q, "remove")'
    <3>1. PICK q \in Procs : obj[q] = o /\ Past(q, "remove")
      BY DEF RemovedInv
    <3>2. obj[q] # 0
      BY <3>1 DEF TypeOK
    <3> QED BY <3>1, <3>2, PastStays
  <2>2. CASE Remove(p)
    <3>1. /\ At(p, "remove") /\ marked' = marked \cup {obj[p]} /\ obj' = obj
          /\ pc'[p] = pc[p] + 1 /\ pc[p] \in 1..7 /\ prog' = prog
      BY <2>2, AdvanceEffect DEF Remove
    <3>2. Past(p, "remove")'
      <4>1. pc[p] \in 1..(pc'[p] - 1)
        BY <3>1
      <4> QED BY <3>1, <4>1 DEF Past, At, Calls
    <3> QED BY <2>1, <3>1, <3>2 DEF RemovedInv
  <2>3. CASE ~Remove(p)
    <3>1. marked' = marked
      <4>1. CASE Uses(p)
        BY <2>3, <4>1 DEF Uses, Type, Send, Receive, Truncate, Attach, Fill, Look, Wait, Post, Detach,
           Unlink, UnlinkPointer, objectVars, GiveUp
      <4> QED BY <4>1, StepKinds, FindEffect, StopEffect DEF objectVars
    <3> QED BY <2>1, <3>1 DEF RemovedInv
  <2> QED BY <2>2, <2>3
<1>2. SizedInv'
  <2> SUFFICES ASSUME NEW x \in Procs, prog'[x] \in Mappers, pc'[x] > 2
               PROVE  obj'[x] \in sized'
    BY DEF SizedInv
  <2>1. prog'[x] = prog[x] /\ sized \subseteq sized'
    BY StepFrame
  <2>2. CASE pc[x] > 2
    <3>1. obj[x] \in sized /\ obj[x] # 0
      BY <2>1, <2>2 DEF SizedInv, TypeOK
    <3> QED BY <2>1, <3>1, PastStays
  <2>3. CASE ~(pc[x] > 2)
    <3>1. x = p /\ pc[p] = 2 /\ pc'[p] = pc[p] + 1 /\ prog[p] \in Mappers
      <4>1. PICK n \in 1..8 : n = pc[x]
        BY DEF TypeOK
      <4>2. x = p
        BY <2>3, StepFrame
      <4>3. pc'[x] = n + 1
        BY <2>3, <4>1, <4>2, StepFrame
      <4>4. n = 2
        BY <2>3, <4>1, <4>3
      <4> QED BY <2>1, <4>1, <4>2, <4>3, <4>4
    <3>2. At(p, "truncate")
      <4>1. pc'[p] # pc[p]
        BY <3>1
      <4>2. \E call : At(p, call)
        BY <4>1, StepKinds, FindEffect, UseEffect, StopEffect, AdvanceEffect
      <4>3. /\ Len(Code[prog[p]]) \in Nat
            /\ Code[prog[p]][2] = "truncate"
        BY <3>1, Rows DEF Mappers
      <4> QED BY <3>1, <4>2, <4>3 DEF At, Calls
    <3>3. Truncate(p)
      <4>1. Finds(p) \/ Uses(p)
        BY <3>1, StepKinds, StopEffect
      <4>2. \A call : At(p, call) => call = "truncate"
        BY <3>2 DEF At
      <4> QED BY <4>1, <4>2 DEF Finds, Uses, Get, Create, Open, Type, Send, Receive, Attach, Fill, Look,
              Wait, Post, Detach, Remove, Unlink, UnlinkPointer, Advance, GiveUp
    <3> QED BY <3>1, <3>3 DEF Truncate
  <2> QED BY <2>2, <2>3
<1> QED BY <1>1, <1>2

\* FoundInv is kept: nobody takes a message out of shared memory.
LEMMA FoundStep ==
  ASSUME TypeOK, OneFamily, PcInv, ObjInv, FoundInv, NEW p \in Procs, Step(p) \/ Type(p) \/ Kill(p)
  PROVE  FoundInv'
<1> SUFFICES ASSUME NEW x \in found'
             PROVE  obj'[x] # 0 /\ (prog'[x] \in Readers => data'[obj'[x]][1] > 0)
  BY DEF FoundInv
<1>1. x \in Procs /\ prog'[x] = prog[x]
  BY ObjStep, StepFrame DEF TypeOK
<1>2. CASE Finds(p)
  <2>1. data' = data
    BY <1>2, FindEffect
  <2>2. CASE x \in found
    <3>1. obj'[x] = obj[x]
      BY <1>1, <2>2, PastStays DEF FoundInv
    <3> QED BY <1>1, <2>1, <2>2, <3>1 DEF FoundInv
  <2>3. CASE x \notin found
    <3>1. x = p
      BY <1>1, <1>2, <2>3, FindEffect
    <3>2. \E o : o # 0 /\ Meets(p, o)
      BY <1>2, <2>3, <3>1, FindersBound DEF Finds, Get, Create, Open, TypeOK
    <3>3. obj'[p] # 0 /\ data[obj'[p]][Wanted(p)] > 0
      BY <2>3, <3>1, <3>2 DEF Meets, TypeOK
    <3>4. prog[p] \in Readers => Wanted(p) = 1
      BY DEF Wanted, Readers
    <3> QED BY <1>1, <2>1, <3>1, <3>3, <3>4
  <2> QED BY <2>2, <2>3
<1>3. CASE ~Finds(p)
  <2>1. found' = found /\ obj' = obj
    BY <1>3, StepKinds, UseEffect, StopEffect
  <2>2. obj[x] # 0 /\ (prog[x] \in Readers => data[obj[x]][1] > 0)
    BY <2>1 DEF FoundInv
  <2>3. CASE data' = data
    BY <1>1, <2>1, <2>2, <2>3
  <2>4. CASE Send(p) \/ Receive(p)
    <3>1. prog[p] \in Receivers \cup {"producer"}
      <4>1. CASE Send(p)
        BY <4>1, Where DEF Send, Advance
      <4>2. CASE Receive(p)
        BY <4>2, Where DEF Receive, Advance
      <4> QED BY <2>4, <4>1, <4>2
    <3>2. prog[x] \notin Readers
      BY <1>1, <3>1 DEF OneFamily, Cast, Receivers, Readers
    <3> QED BY <1>1, <2>1, <2>2, <3>2
  <2>5. CASE data' = [data EXCEPT ![obj[p]][1] = 1]
    <3>1. obj[x] \in 1..Cardinality(Procs)
      BY <1>1, <2>2, FindersBound DEF TypeOK
    <3>2. data'[obj[x]][1] = data[obj[x]][1] \/ data'[obj[x]][1] = 1
      BY <2>5, <3>1 DEF TypeOK, Types
    <3> QED BY <1>1, <2>1, <2>2, <3>2
  <2>6. data' = data \/ Send(p) \/ Receive(p) \/ data' = [data EXCEPT ![obj[p]][1] = 1]
    <3>1. CASE Uses(p)
      BY <3>1 DEF Uses, Type, Truncate, Attach, Fill, Look, Wait, Post, Detach, Remove, Unlink,
         UnlinkPointer, objectVars, GiveUp
    <3> QED BY <1>3, <3>1, StepKinds, StopEffect DEF objectVars
  <2> QED BY <2>3, <2>4, <2>5, <2>6
<1> QED BY <1>2, <1>3

\* FailsOnlyByRemoval is kept.
LEMMA RemovalStep ==
  ASSUME TypeOK, OneFamily, PcInv, ObjInv, RemovedInv, SizedInv, FoundInv, FailsOnlyByRemoval,
         NEW p \in Procs, Step(p) \/ Type(p) \/ Kill(p)
  PROVE  FailsOnlyByRemoval'
<1> SUFFICES ASSUME NEW x \in Procs,
                    result'[x] = "crashed" \/ (x \in found' /\ result'[x] = "empty")
             PROVE  RemovedUnder(x)'
  BY DEF FailsOnlyByRemoval, RemovedUnder
<1>1. SUFFICES obj[x] # 0 /\ RemovedUnder(x)
  BY RemovedUnderStays
<1>2. CASE result'[x] = result[x]
  <2>1. obj[x] # 0
    BY <1>2 DEF ObjInv
  <2>2. x \in found' => x \in found
    <3>1. CASE Finds(p) /\ x = p
      <4>1. obj'[p] = obj[p]
        BY <2>1, <3>1, PastStays
      <4>2. ~Get(p)
        BY <2>1, <3>1, Where DEF Get, Advance, ObjInv
      <4> QED BY <2>1, <3>1, <4>2 DEF Finds, Create, Open
    <3>2. CASE Finds(p) /\ x # p
      BY <3>2, FindEffect
    <3>3. CASE ~Finds(p)
      BY <3>3, StepKinds, UseEffect, StopEffect
    <3> QED BY <3>1, <3>2, <3>3
  <2> QED BY <1>2, <2>1, <2>2 DEF FailsOnlyByRemoval, RemovedUnder
<1>3. CASE result'[x] # result[x]
  <2>1. x = p
    BY <1>3, StepFrame
  <2>2. CASE Finds(p)
    BY <1>3, <2>2, FindEffect
  <2>3. CASE Stops(p)
    <3>1. PICK l \in {"failed", "crashed", "killed"} :
            /\ result' = [result EXCEPT ![p] = l]
            /\ l = "crashed" => \/ At(p, "attach") /\ obj[p] \in marked
                                \/ (At(p, "fill") \/ At(p, "look")) /\ ~Touchable(p)
      BY <2>3, StopEffect
    <3>2. l = "crashed"
      BY <2>1, <3>1 DEF TypeOK
    <3>3. ~((At(p, "fill") \/ At(p, "look")) /\ ~Touchable(p))
      BY Where DEF Touchable, SizedInv, Mappers
    <3>4. At(p, "attach") /\ obj[p] \in marked
      BY <3>1, <3>2, <3>3
    <3>5. obj[p] # 0
      BY <3>4 DEF TypeOK
    <3> QED BY <2>1, <3>4, <3>5, RemovedByAnother
  <2>4. CASE Uses(p)
    <3>1. found' = found
      BY <2>4, UseEffect
    <3>2. CASE Receive(p)
      <4>1. obj[p] \in marked /\ At(p, "receive")
        BY <1>3, <2>1, <3>2 DEF Receive, Advance, TypeOK
      <4>2. obj[p] # 0
        BY <4>1 DEF TypeOK
      <4> QED BY <2>1, <4>1, <4>2, RemovedByAnother
    <3>3. CASE Touchable(p) /\ Look(p)
      <4>1. /\ At(p, "look")
            /\ result' = [result EXCEPT ![p] = IF data[obj[p]][1] > 0 THEN "data" ELSE "empty"]
        BY <3>3 DEF Look, Advance
      <4>2. prog[p] \in Readers
        BY <4>1, Where DEF Readers
      <4>3. ~(data[obj[p]][1] > 0)
        BY <1>3, <2>1, <4>1 DEF TypeOK
      <4>4. p \in found
        BY <2>1, <3>1, <4>1 DEF TypeOK
      <4> QED BY <4>2, <4>3, <4>4 DEF FoundInv
    <3>4. result' = result \/ Receive(p) \/ (Touchable(p) /\ Look(p))
      BY <2>4 DEF Uses, Type, Send, Truncate, Attach, Fill, Wait, Post, Detach, Remove, Unlink,
         UnlinkPointer, GiveUp
    <3> QED BY <1>3, <3>2, <3>3, <3>4
  <2> QED BY <2>2, <2>3, <2>4, StepKinds
<1> QED BY <1>2, <1>3

-----------------------------------------------------------------------------
(* The semaphore.                                                          *)

\* A step of p that takes nothing and gives nothing back.
LEMMA SameHolders ==
  ASSUME TypeOK, PcInv, TypeOK', PcInv', NEW p \in Procs, prog' = prog,
         \A q \in Procs : prog[q] = "named_semaphore",
         \A q \in Procs \ {p} : pc'[q] = pc[q],
         pc[p] \in {4, 5} <=> pc'[p] \in {4, 5}
  PROVE  Holders' = Holders
<1>1. ASSUME NEW q \in Procs
      PROVE  Holds(q)' <=> Holds(q)
  <2>1. pc[q] \in {4, 5} <=> pc'[q] \in {4, 5}
    BY <1>1
  <2>2. Holds(q)' <=> pc'[q] \in {4, 5}
    BY PastCallsNext
  <2> QED BY <2>1, <2>2, PastCalls
<1> QED BY <1>1 DEF Holders

\* SemaphoreInv is kept: who takes the semaphore makes its value less by one,
\* who gives it back more by one.
LEMMA SemaphoreStep ==
  ASSUME TypeOK, PcInv, ObjInv, SemaphoreInv, NEW p \in Procs, Step(p) \/ Type(p) \/ Kill(p)
  PROVE  SemaphoreInv'
<1>1. TypeOK' /\ PcInv' /\ ObjInv' /\ prog' = prog
  BY ObjStep, StepFrame
<1> SUFFICES ASSUME \A q \in Procs : prog[q] = "named_semaphore"
             PROVE  /\ named' = 0 => \A q \in Procs : pc'[q] = 1
                    /\ \A q \in Procs : obj'[q] \in {0, named'}
                    /\ named' # 0 => value'[named'] + Cardinality(Holders') = 1
  BY <1>1 DEF SemaphoreInv
<1>2. /\ named = 0 => \A q \in Procs : pc[q] = 1
      /\ \A q \in Procs : obj[q] \in {0, named}
      /\ named # 0 => value[named] + Cardinality(Holders) = 1
  BY DEF SemaphoreInv
<1>3. \A q \in Procs \ {p} : pc'[q] = pc[q] /\ obj'[q] = obj[q]
  BY StepFrame
<1>4. pc[p] \in 1..8 /\ prog[p] = "named_semaphore"
  BY DEF TypeOK
<1>5. ASSUME NEW n \in Nat, UNCHANGED <<named, value>>, pc[p] = n,
             pc' = pc \/ (pc'[p] = n + 1 /\ n \in {2, 4, 6, 7}) \/ (pc'[p] = 2 /\ n = 1 /\ named # 0),
             obj'[p] \in {obj[p], named}
      PROVE  /\ named' = 0 => \A q \in Procs : pc'[q] = 1
             /\ \A q \in Procs : obj'[q] \in {0, named'}
             /\ named' # 0 => value'[named'] + Cardinality(Holders') = 1
  <2>1. pc[p] \in {4, 5} <=> pc'[p] \in {4, 5}
    BY <1>5
  <2>2. Holders' = Holders
    BY <1>1, <1>3, <2>1, SameHolders
  <2>3. named' = 0 => \A q \in Procs : pc'[q] = 1
    BY <1>2, <1>5
  <2> QED BY <1>2, <1>3, <1>5, <2>2, <2>3
<1>6. CASE Stops(p)
  BY <1>4, <1>5, <1>6, StopEffect DEF objectVars
<1>7. CASE Create(p)
  <2>1. pc[p] = 1 /\ pc'[p] = 2
    <3>1. Advance(p, "create")
      BY <1>7 DEF Create
    <3> QED BY <3>1, Where, AdvanceEffect
  <2>2. CASE named # 0
    BY <1>5, <1>7, <2>1, <2>2 DEF Create
  <2>3. CASE named = 0
    <3>1. /\ obj' = [obj EXCEPT ![p] = created + 1] /\ named' = created + 1
          /\ value' = [value EXCEPT ![created + 1] = 1]
      BY <1>7, <2>3 DEF Create
    <3>2. created + 1 <= Cardinality(Procs) /\ created \in Nat /\ Cardinality(Procs) \in Nat
      <4>1. created + 1 <= Cardinality(Procs)
        BY <2>1, <3>1, MakesOne
      <4>2. Cardinality(Procs) \in Nat
        BY FindersBound
      <4> QED BY <4>1, <4>2 DEF TypeOK
    <3>3. value'[named'] = 1
      BY <3>1, <3>2 DEF TypeOK
    <3>4. \A q \in Procs : pc'[q] \in {1, 2}
      BY <1>2, <1>3, <2>1, <2>3
    <3>5. Holders' = {}
      BY <1>1, <3>4, PastCallsNext DEF Holders
    <3>6. \A q \in Procs : obj'[q] \in {0, named'}
      BY <1>2, <2>3, <3>1 DEF TypeOK
    <3>7. named' # 0
      BY <3>1, <3>2
    <3> QED BY <3>3, <3>5, <3>6, <3>7, FS_EmptySet
  <2> QED BY <2>2, <2>3
<1>8. CASE Open(p)
  <2>1. pc[p] = 2 /\ pc'[p] = 3
    <3>1. Advance(p, "open")
      BY <1>8 DEF Open
    <3> QED BY <1>4, <3>1, Where, AdvanceEffect
  <2>2. UNCHANGED <<named, value>> /\ obj'[p] \in {obj[p], named}
    BY <1>8 DEF Open, Meets, objectVars, TypeOK
  <2> QED BY <1>5, <2>1, <2>2
<1>9. CASE Type(p) \/ UnlinkPointer(p)
  <2>1. pc[p] \in {4, 6, 7} /\ pc'[p] = pc[p] + 1
    BY <1>4, <1>9, Where, AdvanceEffect DEF Type, UnlinkPointer, Advance
  <2>2. UNCHANGED <<named, value, obj>>
    BY <1>9 DEF Type, UnlinkPointer, objectVars
  <2> QED BY <1>5, <2>1, <2>2
<1>10. ASSUME NEW n \in Nat, n = value[obj[p]], obj[p] # 0
       PROVE  /\ obj[p] = named /\ named \in 1..Cardinality(Procs) /\ n = value[named]
              /\ IsFiniteSet(Holders) /\ n + Cardinality(Holders) = 1
              /\ Cardinality(Holders) \in Nat
  <2>1. obj[p] = named /\ named \in 1..Cardinality(Procs)
    BY <1>2, <1>10, FindersBound DEF TypeOK
  <2>2. IsFiniteSet(Holders) /\ Cardinality(Holders) \in Nat
    BY ProcsAssumption, FS_Subset, FS_CardinalityType DEF Holders
  <2> QED BY <1>2, <1>10, <2>1, <2>2
<1>11. \A q \in Procs : Holds(q)' <=> pc'[q] \in {4, 5}
  BY <1>1, PastCallsNext
<1>12. \A q \in Procs : Holds(q) <=> pc[q] \in {4, 5}
  BY PastCalls
<1>13. CASE Advance(p, "wait") /\ Wait(p) /\ value[obj[p]] > 0
  <2>1. pc[p] = 3 /\ pc'[p] = 4 /\ obj[p] # 0
    <3>1. pc[p] = 3 /\ pc'[p] = 4
      BY <1>13, Where, AdvanceEffect
    <3> QED BY <3>1 DEF ObjInv
  <2>2. PICK n \in Nat : n = value[obj[p]]
    BY <2>1, FindersBound DEF TypeOK
  <2>3. UNCHANGED <<named, obj>> /\ value' = [value EXCEPT ![obj[p]] = @ - 1]
    BY <1>13 DEF Wait, GiveUp
  <2>4. Holders' = Holders \cup {p} /\ p \notin Holders
    BY <1>3, <1>11, <1>12, <2>1 DEF Holders
  <2>5. Cardinality(Holders') = Cardinality(Holders) + 1
    BY <1>10, <2>1, <2>2, <2>4, FS_AddElement
  <2>6. value'[named'] = n - 1 /\ named # 0
    BY <1>10, <2>1, <2>2, <2>3 DEF TypeOK
  <2> QED BY <1>2, <1>10, <2>1, <2>2, <2>3, <2>5, <2>6
<1>14. CASE Post(p)
  <2>1. pc[p] = 5 /\ pc'[p] = 6 /\ obj[p] # 0
    <3>1. Advance(p, "post")
      BY <1>14 DEF Post
    <3>2. pc[p] = 5 /\ pc'[p] = 6
      BY <3>1, Where, AdvanceEffect
    <3> QED BY <3>2 DEF ObjInv
  <2>2. PICK n \in Nat : n = value[obj[p]]
    BY <2>1, FindersBound DEF TypeOK
  <2>3. UNCHANGED <<named, obj>> /\ value' = [value EXCEPT ![obj[p]] = @ + 1]
    BY <1>14 DEF Post
  <2>4. Holders' = Holders \ {p} /\ p \in Holders
    BY <1>3, <1>11, <1>12, <2>1 DEF Holders
  <2>5. Cardinality(Holders') = Cardinality(Holders) - 1
    BY <1>10, <2>1, <2>2, <2>4, FS_RemoveElement
  <2>6. value'[named'] = n + 1 /\ named # 0
    BY <1>10, <2>1, <2>2, <2>3 DEF TypeOK
  <2> QED BY <1>2, <1>10, <2>1, <2>2, <2>3, <2>5, <2>6
<1>15. \/ Stops(p) \/ Create(p) \/ Open(p) \/ Type(p) \/ UnlinkPointer(p) \/ Post(p)
       \/ (Advance(p, "wait") /\ Wait(p) /\ value[obj[p]] > 0)
  <2>1. ~Get(p)
    BY <1>4, Where DEF Get, Advance
  <2>2. ~(\/ Send(p) \/ Receive(p) \/ Truncate(p) \/ Attach(p) \/ Detach(p) \/ Remove(p) \/ Unlink(p))
    BY <1>4, Where DEF Send, Receive, Truncate, Attach, Detach, Remove, Unlink, Advance, Receivers,
       Mappers
  <2>3. ~(Touchable(p) /\ (Fill(p) \/ Look(p)))
    BY <1>4, Where DEF Fill, Look, Advance
  <2> QED BY <2>1, <2>2, <2>3, StepKinds DEF Finds, Uses, Wait, GiveUp
<1> QED BY <1>6, <1>7, <1>8, <1>9, <1>13, <1>14, <1>15

-----------------------------------------------------------------------------
(* Messages.                                                               *)

\* The messages of type t that queue o was sent, by their senders, and those
\* that were taken out of it and shown, by their receivers.
SentTo(o, t) ==
  {p \in Procs : prog[p] = "producer" /\ pc[p] > 3 /\ obj[p] = o /\ typed[p] = t}
TakenFrom(o, t) ==
  {p \in Procs : prog[p] \in Receivers /\ result[p] = "data" /\ obj[p] = o /\ Wanted(p) = t}

\* What is in a queue and what was taken out of it has been sent to it, and
\* there is never more in it than it has room for.
QueueInv ==
  (\A p \in Procs : prog[p] \in Cast.queue) =>
    /\ \A p \in Procs : prog[p] \in Receivers /\ pc[p] <= 2 => result[p] # "data"
    /\ \A o \in 1..Cardinality(Procs) :
         /\ Content(o) <= Room
         /\ \A t \in Types :
              data[o][t] + Cardinality(TakenFrom(o, t)) <= Cardinality(SentTo(o, t))

\* Only these calls are made at a queue, and where they are.
LEMMA QueueCalls ==
  ASSUME TypeOK, NEW p \in Procs, prog[p] \in Cast.queue, Step(p) \/ Type(p) \/ Kill(p)
  PROVE  \/ Get(p) /\ pc[p] = 1
         \/ Type(p) /\ (prog[p] = "producer" => pc[p] = 2)
         \/ Send(p) /\ prog[p] = "producer" /\ pc[p] = 3
         \/ Receive(p) /\ prog[p] \in Receivers /\ pc[p] = 2
         \/ Remove(p) /\ prog[p] \in Receivers
         \/ Kill(p)
<1>1. prog[p] \in {"producer", "consumer", "consumer2"}
  BY DEF Cast
<1>2. /\ ~At(p, "create") /\ ~At(p, "open") /\ ~At(p, "truncate") /\ ~At(p, "attach")
      /\ ~At(p, "fill") /\ ~At(p, "look") /\ ~At(p, "wait") /\ ~At(p, "post")
      /\ ~At(p, "detach") /\ ~At(p, "unlink") /\ ~At(p, "unlinkPointer")
  BY <1>1, Where DEF Mappers
<1>3. /\ ~Create(p) /\ ~Open(p) /\ ~OpenFails(p) /\ ~Truncate(p) /\ ~Attach(p) /\ ~AttachFails(p)
      /\ ~Fill(p) /\ ~Look(p) /\ ~Wait(p) /\ ~Post(p) /\ ~Detach(p) /\ ~Unlink(p)
      /\ ~UnlinkPointer(p)
  BY <1>2 DEF Create, Open, OpenFails, Truncate, Attach, AttachFails, Fill, Look, Wait, Post, Detach,
     Unlink, UnlinkPointer, Advance, GiveUp
<1>4. \/ Get(p) \/ Send(p) \/ Receive(p) \/ Remove(p) \/ Type(p) \/ Kill(p)
  BY <1>3 DEF Step
<1>5. /\ Get(p) => pc[p] = 1
      /\ Type(p) => (prog[p] = "producer" => pc[p] = 2)
      /\ Send(p) => prog[p] = "producer" /\ pc[p] = 3
      /\ Receive(p) => prog[p] \in Receivers /\ pc[p] = 2
      /\ Remove(p) => prog[p] \in Receivers
  BY <1>1, Where DEF Get, Type, Send, Receive, Remove, Advance, Receivers
<1> QED BY <1>4, <1>5

\* Senders and receivers are counted.
LEMMA Counts ==
  ASSUME NEW S \in SUBSET Procs
  PROVE  IsFiniteSet(S) /\ Cardinality(S) \in Nat
BY ProcsAssumption, FS_Subset, FS_CardinalityType

\* QueueInv is kept: a send that is not refused puts in one message and makes
\* one more sender, a receive takes one and makes one more receiver.
LEMMA QueueStep ==
  ASSUME TypeOK, PcInv, ObjInv, QueueInv, NEW p \in Procs, Step(p) \/ Type(p) \/ Kill(p)
  PROVE  QueueInv'
<1>1. TypeOK' /\ prog' = prog
  BY ObjStep, StepFrame
<1>2. SUFFICES ASSUME \A q \in Procs : prog[q] \in Cast.queue
               PROVE  /\ \A q \in Procs : prog[q] \in Receivers /\ pc'[q] <= 2 => result'[q] # "data"
                      /\ \A o \in 1..Cardinality(Procs) :
                           /\ Content(o)' <= Room
                           /\ \A t \in Types :
                                data'[o][t] + Cardinality(TakenFrom(o, t)') <= Cardinality(SentTo(o, t)')
  BY <1>1 DEF QueueInv
<1>3. /\ \A q \in Procs : prog[q] \in Receivers /\ pc[q] <= 2 => result[q] # "data"
      /\ \A o \in 1..Cardinality(Procs) :
           /\ Content(o) <= Room
           /\ \A t \in Types : data[o][t] + Cardinality(TakenFrom(o, t)) <= Cardinality(SentTo(o, t))
  BY <1>2 DEF QueueInv
<1>4. \A q \in Procs : q # p => pc'[q] = pc[q] /\ obj'[q] = obj[q] /\ result'[q] = result[q]
  BY StepFrame
<1>5. /\ \A q \in Procs : q # p => typed'[q] = typed[q]
      /\ pc[p] \in 1..8 /\ (pc'[p] = pc[p] \/ pc'[p] = pc[p] + 1)
  <2>1. \A q \in Procs : q # p => typed'[q] = typed[q]
    BY <1>2, QueueCalls DEF Get, Type, Send, Receive, Remove, Kill, TypeOK
  <2> QED BY <2>1, StepFrame DEF TypeOK
<1>6. \A o \in 1..Cardinality(Procs), t \in Types :
        /\ SentTo(o, t) \in SUBSET Procs /\ TakenFrom(o, t) \in SUBSET Procs
        /\ SentTo(o, t)' \in SUBSET Procs /\ TakenFrom(o, t)' \in SUBSET Procs
        /\ data[o][t] \in Nat /\ data'[o][t] \in Nat
  BY <1>1 DEF SentTo, TakenFrom, TypeOK
<1>7. ASSUME data' = data,
             result'[p] = result[p] \/ result'[p] # "data",
             prog[p] = "producer" /\ pc[p] > 3 => obj'[p] = obj[p] /\ typed'[p] = typed[p],
             result[p] = "data" /\ prog[p] \in Receivers => obj'[p] = obj[p]
      PROVE  /\ \A q \in Procs : prog[q] \in Receivers /\ pc'[q] <= 2 => result'[q] # "data"
             /\ \A o \in 1..Cardinality(Procs) :
                  /\ Content(o)' <= Room
                  /\ \A t \in Types :
                       data'[o][t] + Cardinality(TakenFrom(o, t)') <= Cardinality(SentTo(o, t)')
  <2>1. \A q \in Procs : prog[q] \in Receivers /\ pc'[q] <= 2 => result'[q] # "data"
    <3> TAKE q \in Procs
    <3>1. pc[q] \in 1..8
      BY DEF TypeOK
    <3> QED BY <1>3, <1>4, <1>5, <1>7, <3>1
  <2>2. ASSUME NEW o \in 1..Cardinality(Procs), NEW t \in Types
        PROVE  data'[o][t] + Cardinality(TakenFrom(o, t)') <= Cardinality(SentTo(o, t)')
    <3>1. SentTo(o, t) \subseteq SentTo(o, t)'
      BY <1>1, <1>4, <1>5, <1>7 DEF SentTo
    <3>2. TakenFrom(o, t)' \subseteq TakenFrom(o, t)
      BY <1>1, <1>4, <1>7 DEF TakenFrom, Wanted
    <3>3. Cardinality(SentTo(o, t)) <= Cardinality(SentTo(o, t)')
      BY <1>6, <3>1, Counts, FS_Subset
    <3>4. Cardinality(TakenFrom(o, t)') <= Cardinality(TakenFrom(o, t))
      BY <1>6, <3>2, Counts, FS_Subset
    <3>5. /\ Cardinality(SentTo(o, t)) \in Nat /\ Cardinality(SentTo(o, t)') \in Nat
          /\ Cardinality(TakenFrom(o, t)) \in Nat /\ Cardinality(TakenFrom(o, t)') \in Nat
      BY <1>6, Counts
    <3>6. data'[o][t] = data[o][t] /\ data[o][t] \in Nat
      BY <1>6, <1>7
    <3>7. data[o][t] + Cardinality(TakenFrom(o, t)) <= Cardinality(SentTo(o, t))
      BY <1>3
    <3> QED BY <3>3, <3>4, <3>5, <3>6, <3>7
  <2>3. \A o \in 1..Cardinality(Procs) : Content(o)' <= Room
    BY <1>3, <1>7 DEF Content
  <2> QED BY <2>1, <2>2, <2>3
<1>8. CASE Get(p) /\ pc[p] = 1
  <2>1. data' = data /\ result' = result
    BY <1>8 DEF Get
  <2> QED BY <1>3, <1>7, <1>8, <2>1
<1>9. CASE Type(p) /\ (prog[p] = "producer" => pc[p] = 2)
  BY <1>7, <1>9 DEF Type, objectVars
<1>10. CASE Kill(p)
  BY <1>7, <1>10 DEF Kill, objectVars, TypeOK
<1>11. CASE Remove(p) /\ prog[p] \in Receivers
  BY <1>7, <1>11 DEF Remove
<1>12. obj[p] # 0 => obj[p] \in 1..Cardinality(Procs)
  BY FindersBound DEF TypeOK
<1>13. CASE Send(p) /\ prog[p] = "producer" /\ pc[p] = 3
  <2>1. CASE Refused(p)
    BY <1>7, <1>13, <2>1 DEF Send
  <2>2. CASE ~Refused(p)
    <3>0. typed[p] \in Types /\ obj[p] \in 1..Cardinality(Procs)
      <4>1. obj[p] # 0
        BY <1>13 DEF ObjInv
      <4>2. typed[p] # 0
        BY <2>2 DEF Refused
      <4> QED BY <1>12, <4>1, <4>2 DEF TypeOK
    <3>2. PICK b \in 1..Cardinality(Procs), k \in Types : b = obj[p] /\ k = typed[p]
      BY <3>0
    <3>1. /\ Content(b) < Room /\ data' = [data EXCEPT ![b][k] = @ + 1]
          /\ UNCHANGED <<obj, typed, result>>
      BY <1>13, <2>2, <3>2 DEF Send
    <3>3. pc'[p] = 4
      BY <1>13, AdvanceEffect DEF Send
    <3>4. \A o \in 1..Cardinality(Procs), t \in Types :
            data'[o][t] = IF o = b /\ t = k THEN data[o][t] + 1 ELSE data[o][t]
      BY <3>1, <3>2 DEF TypeOK
    <3>5. \A o, t : TakenFrom(o, t)' = TakenFrom(o, t)
      BY <1>1, <3>1 DEF TakenFrom, Wanted
    <3>6. SentTo(b, k)' = SentTo(b, k) \cup {p} /\ p \notin SentTo(b, k)
      BY <1>1, <1>4, <1>13, <3>1, <3>2, <3>3 DEF SentTo
    <3>7. \A o, t : ~(o = b /\ t = k) => SentTo(o, t)' = SentTo(o, t)
      BY <1>1, <1>4, <1>13, <3>1, <3>2, <3>3 DEF SentTo
    <3>8. ASSUME NEW o \in 1..Cardinality(Procs), NEW t \in Types
          PROVE  data'[o][t] + Cardinality(TakenFrom(o, t)') <= Cardinality(SentTo(o, t)')
      <4>1. CASE o = b /\ t = k
        <5>1. Cardinality(SentTo(b, k)') = Cardinality(SentTo(b, k)) + 1
          BY <1>6, <3>2, <3>6, Counts, FS_AddElement
        <5>2. /\ Cardinality(SentTo(b, k)) \in Nat /\ Cardinality(TakenFrom(b, k)) \in Nat
              /\ data[b][k] \in Nat
          BY <1>6, <3>2, Counts
        <5>3. data[b][k] + Cardinality(TakenFrom(b, k)) <= Cardinality(SentTo(b, k))
          BY <1>3, <3>2
        <5>4. data'[b][k] = data[b][k] + 1 /\ TakenFrom(b, k)' = TakenFrom(b, k)
          BY <3>2, <3>4, <3>5
        <5> QED BY <4>1, <5>1, <5>2, <5>3, <5>4
      <4>2. CASE ~(o = b /\ t = k)
        <5>1. data'[o][t] = data[o][t] /\ TakenFrom(o, t)' = TakenFrom(o, t) /\ SentTo(o, t)' = SentTo(o, t)
          BY <3>4, <3>5, <3>7, <4>2
        <5> QED BY <1>3, <5>1
      <4> QED BY <4>1, <4>2
    <3>9. ASSUME NEW o \in 1..Cardinality(Procs)
          PROVE  Content(o)' <= Room
      <4>1. \A t \in {1, 2, 3} : data[o][t] \in Nat /\ data[b][t] \in Nat
        BY <1>6, <3>2 DEF Types
      <4>2. \A t \in {1, 2, 3} :
              data'[o][t] = IF o = b /\ t = k THEN data[o][t] + 1 ELSE data[o][t]
        BY <3>4 DEF Types
      <4>3. Content(o) <= Room /\ Content(b) < Room /\ Room \in Nat
        BY <1>3, <3>1, RoomAssumption
      <4>4. k = 1 \/ k = 2 \/ k = 3
        BY <3>2 DEF Types
      <4>5. CASE o = b
        <5>1. data'[o][1] + data'[o][2] + data'[o][3] = data[o][1] + data[o][2] + data[o][3] + 1
          BY <4>1, <4>2, <4>4, <4>5
        <5> QED BY <4>1, <4>3, <4>5, <5>1 DEF Content
      <4>6. CASE o # b
        BY <4>2, <4>3, <4>6 DEF Content
      <4> QED BY <4>5, <4>6
    <3>10. \A q \in Procs : prog[q] \in Receivers /\ pc'[q] <= 2 => result'[q] # "data"
      BY <1>3, <1>4, <1>13, <3>1 DEF Receivers
    <3> QED BY <3>8, <3>9, <3>10
  <2> QED BY <2>1, <2>2
<1>14. CASE Receive(p) /\ prog[p] \in Receivers /\ pc[p] = 2
  <2>0. UNCHANGED <<obj, typed>> /\ pc'[p] = 3 /\ prog[p] # "producer"
    BY <1>14, AdvanceEffect DEF Receive, Receivers
  <2>1. CASE data' = data /\ result' = [result EXCEPT ![p] = "empty"]
    BY <1>7, <2>0, <2>1 DEF TypeOK
  <2>2. CASE /\ data[obj[p]][Wanted(p)] > 0
             /\ data' = [data EXCEPT ![obj[p]][Wanted(p)] = @ - 1]
             /\ result' = [result EXCEPT ![p] = "data"]
    <3>0. Wanted(p) \in Types /\ obj[p] \in 1..Cardinality(Procs)
      <4>1. obj[p] # 0
        BY <1>14 DEF ObjInv, Receivers
      <4> QED BY <1>12, <4>1 DEF Types, Wanted
    <3>1. PICK b \in 1..Cardinality(Procs), k \in Types : b = obj[p] /\ k = Wanted(p)
      BY <3>0
    <3>2. \A o \in 1..Cardinality(Procs), t \in Types :
            data'[o][t] = IF o = b /\ t = k THEN data[o][t] - 1 ELSE data[o][t]
      BY <2>2, <3>1 DEF TypeOK
    <3>3. \A o, t : SentTo(o, t)' = SentTo(o, t)
      BY <1>1, <1>4, <2>0 DEF SentTo
    <3>4. result[p] # "data" /\ result'[p] = "data" /\ \A q \in Procs : Wanted(q)' = Wanted(q)
      BY <1>1, <1>3, <1>14, <2>2 DEF TypeOK, Wanted
    <3>5. TakenFrom(b, k)' = TakenFrom(b, k) \cup {p} /\ p \notin TakenFrom(b, k)
      BY <1>1, <1>4, <1>14, <2>0, <3>1, <3>4 DEF TakenFrom
    <3>6. \A o, t : ~(o = b /\ t = k) => TakenFrom(o, t)' = TakenFrom(o, t)
      BY <1>1, <1>4, <2>0, <3>1, <3>4 DEF TakenFrom
    <3>7. ASSUME NEW o \in 1..Cardinality(Procs), NEW t \in Types
          PROVE  data'[o][t] + Cardinality(TakenFrom(o, t)') <= Cardinality(SentTo(o, t)')
      <4>1. CASE o = b /\ t = k
        <5>1. Cardinality(TakenFrom(b, k)') = Cardinality(TakenFrom(b, k)) + 1
          BY <1>6, <3>1, <3>5, Counts, FS_AddElement
        <5>2. /\ Cardinality(SentTo(b, k)) \in Nat /\ Cardinality(TakenFrom(b, k)) \in Nat
              /\ data[b][k] \in Nat
          BY <1>6, <3>1, Counts
        <5>3. data[b][k] + Cardinality(TakenFrom(b, k)) <= Cardinality(SentTo(b, k))
          BY <1>3, <3>1
        <5>4. data'[b][k] = data[b][k] - 1 /\ SentTo(b, k)' = SentTo(b, k)
          BY <3>1, <3>2, <3>3
        <5> QED BY <4>1, <5>1, <5>2, <5>3, <5>4
      <4>2. CASE ~(o = b /\ t = k)
        <5>1. data'[o][t] = data[o][t] /\ TakenFrom(o, t)' = TakenFrom(o, t) /\ SentTo(o, t)' = SentTo(o, t)
          BY <3>2, <3>3, <3>6, <4>2
        <5> QED BY <1>3, <5>1
      <4> QED BY <4>1, <4>2
    <3>8. ASSUME NEW o \in 1..Cardinality(Procs)
          PROVE  Content(o)' <= Room
      <4>1. \A t \in {1, 2, 3} : data[o][t] \in Nat /\ data'[o][t] <= data[o][t] /\ data'[o][t] \in Nat
        BY <1>6, <3>2 DEF Types
      <4> QED BY <1>3, <4>1, RoomAssumption DEF Content
    <3>9. \A q \in Procs : prog[q] \in Receivers /\ pc'[q] <= 2 => result'[q] # "data"
      BY <1>3, <1>4, <2>0
    <3> QED BY <3>7, <3>8, <3>9
  <2> QED BY <1>14, <2>1, <2>2 DEF Receive
<1> QED BY <1>2, <1>8, <1>9, <1>10, <1>11, <1>13, <1>14, QueueCalls

-----------------------------------------------------------------------------
(* The theorems.                                                           *)

\* The initial states.
LEMMA InitInvariant == Init => IInv
<1> SUFFICES ASSUME Init PROVE IInv
  OBVIOUS
<1>1. PICK f \in Families : prog \in [Procs -> Cast[f]]
  BY DEF Init
<1>2. f \in DOMAIN Cast
  BY FamiliesAssumption
<1>3. OneFamily
  BY <1>1, <1>2 DEF OneFamily
<1>4. Cardinality(Procs) \in Nat
  BY ProcsAssumption, FS_CardinalityType
<1>5. TypeOK
  <2>1. Cast[f] \subseteq DOMAIN Code
    BY <1>2 DEF Cast, Code
  <2>2. prog \in [Procs -> DOMAIN Code]
    BY <1>1, <2>1
  <2> QED BY <1>4, <2>2 DEF Init, TypeOK
<1>6. PcInv
  <2>1. \A q \in Procs : Len(Calls(q)) \in Nat
    BY <1>5, Rows DEF TypeOK, Calls, Receivers
  <2> QED BY <2>1 DEF Init, PcInv
<1>7. ObjInv
  <2>1. Finders = {}
    BY DEF Init, Finders
  <2>2. created <= Cardinality(Finders)
    BY <2>1, FS_EmptySet DEF Init
  <2> QED BY <2>2 DEF Init, ObjInv
<1>8. RemovedInv /\ SizedInv /\ FoundInv /\ FailsOnlyByRemoval
  BY DEF Init, RemovedInv, SizedInv, FoundInv, FailsOnlyByRemoval
<1>9. SemaphoreInv
  BY DEF Init, SemaphoreInv
<1> QED BY <1>3, <1>5, <1>6, <1>7, <1>8, <1>9 DEF IInv

\* The invariant is inductive, whatever the calls of the processes interleave
\* and whoever is killed.
THEOREM InductiveInvariant == Spec => []IInv
<1>1. IInv /\ [Next]_vars => IInv'
  <2> SUFFICES ASSUME IInv, [Next]_vars PROVE IInv'
    OBVIOUS
  <2> USE DEF IInv
  <2>1. ASSUME NEW p \in Procs, Step(p) \/ Type(p) \/ Kill(p)
        PROVE  IInv'
    <3>1. TypeOK' /\ PcInv' /\ ObjInv'
      BY <2>1, ObjStep
    <3>2. OneFamily'
      BY <2>1, StepFrame DEF OneFamily
    <3>3. RemovedInv' /\ SizedInv'
      BY <2>1, RemovedStep
    <3>4. FoundInv' /\ FailsOnlyByRemoval'
      BY <2>1, FoundStep, RemovalStep
    <3>5. SemaphoreInv'
      BY <2>1, SemaphoreStep
    <3> QED BY <3>1, <3>2, <3>3, <3>4, <3>5
  <2>2. CASE UNCHANGED vars
    BY <2>2 DEF vars, objectVars, TypeOK, OneFamily, PcInv, Calls, ObjInv, Finders, RemovedInv, Past,
       SizedInv, FoundInv, FailsOnlyByRemoval, SemaphoreInv, Holders, Holds
  <2> QED BY <2>1, <2>2 DEF Next
<1> QED BY <1>1, InitInvariant, PTL DEF Spec

\* Every variable keeps its type; no semaphore value and no number of messages
\* goes below zero, and there are never more objects than processes.
THEOREM TypeCorrectness == Spec => []TypeOK
BY InductiveInvariant, PTL DEF IInv

\* A process crashes on a shared object, or shows nothing although it found a
\* message, only if another process has removed the object under it: shmctl and
\* msgctl with IPC_RMID at the end of reader.c and consumer.c.
THEOREM RemovalTheorem == Spec => []FailsOnlyByRemoval
BY InductiveInvariant, PTL DEF IInv

\* What the processes between sem_timedwait and sem_post of 1_named_semaphore
\* hold, those killed there included, is what the semaphore lacks.
THEOREM SemaphoreTheorem == Spec => []SemaphoreBalance
<1>1. IInv => SemaphoreBalance
  BY DEF IInv, SemaphoreInv, SemaphoreBalance, Holders
<1> QED BY <1>1, InductiveInvariant, PTL

\* No message of the System V queue is shown twice or without a sender: what is
\* in a queue and what was taken out of it, of each type, is no more than was
\* sent to it, although queues are removed and made anew under the programs and
\* anyone may be killed (producer.c, consumer.c and consumer2.c), and a queue
\* never holds more than it has room for.
THEOREM QueueTheorem == Spec => []QueueInv
<1>1. Init => QueueInv
  <2> SUFFICES ASSUME Init PROVE QueueInv
    OBVIOUS
  <2>1. \A o, t : SentTo(o, t) = {} /\ TakenFrom(o, t) = {}
    BY DEF Init, SentTo, TakenFrom
  <2>2. Cardinality({}) = 0
    BY FS_EmptySet
  <2>3. \A o \in 1..Cardinality(Procs) : \A t \in {1, 2, 3} : data[o][t] = 0
    BY DEF Init, Types
  <2>4. \A o \in 1..Cardinality(Procs) : Content(o) <= Room
    BY <2>3, RoomAssumption DEF Content
  <2>5. \A p \in Procs : result[p] # "data"
    BY DEF Init
  <2>6. ASSUME NEW o \in 1..Cardinality(Procs), NEW t \in {1, 2, 3}
        PROVE  data[o][t] + Cardinality(TakenFrom(o, t)) <= Cardinality(SentTo(o, t))
    BY <2>1, <2>2, <2>3
  <2> QED BY <2>4, <2>5, <2>6 DEF QueueInv, Types
<1>2. IInv /\ QueueInv /\ [Next]_vars => QueueInv'
  <2> SUFFICES ASSUME IInv, QueueInv, [Next]_vars PROVE QueueInv'
    OBVIOUS
  <2>1. ASSUME NEW p \in Procs, Step(p) \/ Type(p) \/ Kill(p)
        PROVE  QueueInv'
    BY <2>1, QueueStep DEF IInv
  <2>2. CASE UNCHANGED vars
    BY <2>2 DEF vars, objectVars, QueueInv, Content, SentTo, TakenFrom, Wanted
  <2> QED BY <2>1, <2>2 DEF Next
<1> QED BY <1>1, <1>2, InductiveInvariant, PTL DEF Spec
=============================================================================
