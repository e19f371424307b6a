--------------------------- MODULE CharDeviceProofs ---------------------------
(***************************************************************************)
(* Safety of CharDevice for every set of programs, buffer size, set of     *)
(* byte counts and number of loads and unloads.                            *)
(***************************************************************************)
EXTENDS CharDevice, TLAPS

-----------------------------------------------------------------------------
(* The inductive invariant.                                                *)

\* A call stays inside the buffer, and only a call has a length.
RangeInv ==
  \A p \in Programs :
    /\ offset[p] + len[p] <= Capacity
    /\ len[p] > 0 => pc[p] \in {"fetch", "copy", "size"}
    /\ offset[p] > 0 => pc[p] \notin {"out", "menu"}

\* What exists, by how far the load has come.
ObjectInv ==
  /\ "cdev" \in have => lesson \in {4, 5} /\ step >= 3
  /\ "node" \in have => step >= 4 /\ (lesson \in {4, 5} => step >= 5)
  /\ "buffer" \in have <=> lesson = 5 /\ step = 6
  /\ step > 1 => numbers >= 1

\* An open file belongs to the module that is loaded, or to one whose load
\* failed at kmalloc.
FileInv ==
  \A p \in Programs :
    /\ HasFile(p) /\ p \notin lost => Openable
    /\ p \in lost => HasFile(p) /\ noBuffer > 0

\* A program at, or about to go to, a position past the size was overtaken.
PastInv ==
  \A p \in Programs :
    offset[p] > size \/ (pc[p] = "fetch" /\ offset[p] + len[p] > size)
      => p \in passed \cup lost

\* As long as no memset has reached the buffer, nothing has been written and
\* nothing can be read.
JunkInv ==
  (\E i \in 1..Capacity : buffer[i] = "junk") =>
    /\ size = 0
    /\ \A p \in Programs \ lost :
         offset[p] = 0 /\ len[p] = 0 /\ pc[p] \notin {"copy", "size"}

\* A write that overlaps no other has the buffer to itself, zeros when it
\* copies and what it has copied afterwards.
WriteInv ==
  ~mixed =>
    /\ \A p, q \in Programs : Writing(p) /\ Writing(q) => p = q
    /\ \A p \in Programs \ lost :
         /\ pc[p] = "copy" => buffer = [i \in 1..Capacity |-> "zero"]
         /\ pc[p] = "size" =>
              buffer = [i \in 1..Capacity |->
                          IF i \in offset[p] + 1 .. offset[p] + len[p] THEN p ELSE "zero"]

IInv ==
  /\ TypeOK /\ RangeInv /\ ObjectInv /\ FileInv /\ PastInv
  /\ JunkInv /\ WriteInv /\ LoneWriteIntact /\ LoadLeftovers

-----------------------------------------------------------------------------
(* The load.                                                               *)

\* Where each step of hello_world_init is, and where the load is over.
LEMMA StepNumbers ==
  ASSUME lesson \in 2..5
  PROVE  /\ Len(Steps[lesson]) = IF lesson = 2 THEN 1 ELSE lesson
         /\ Loading("region") => step = 1
         /\ Loading("cdev") => lesson \in {4, 5} /\ step = 2
         /\ Loading("class") => step = IF lesson = 3 THEN 2 ELSE 3
         /\ Loading("device") => step = IF lesson = 3 THEN 3 ELSE 4
         /\ Loading("buffer") <=> lesson = 5 /\ step = 5
         /\ \A s : Loading(s) => step \in 1..Len(Steps[lesson]) /\ (step = 1 => s = "region")
<1>1. CASE lesson = 2
  <2>1. Steps[lesson] = <<"region">> BY <1>1 DEF Steps
  <2> QED BY <1>1, <2>1 DEF Loading
<1>2. CASE lesson = 3
  <2>1. Steps[lesson] = <<"region", "class", "device">> BY <1>2 DEF Steps
  <2> QED BY <1>2, <2>1 DEF Loading
<1>3. CASE lesson = 4
  <2>1. Steps[lesson] = <<"region", "cdev", "class", "device">> BY <1>3 DEF Steps
  <2> QED BY <1>3, <2>1 DEF Loading
<1>4. CASE lesson = 5
  <2>1. Steps[lesson] = <<"region", "cdev", "class", "device", "buffer">> BY <1>4 DEF Steps
  <2> QED BY <1>4, <2>1 DEF Loading
<1> QED BY <1>1, <1>2, <1>3, <1>4

\* Objects are added one step at a time, and opening comes last.
LEMMA DoneStep ==
  ASSUME IInv, NEW object \in SUBSET {"cdev", "class", "node", "buffer"}, Done(object),
         \E s : Loading(s),
         "cdev" \in object => Loading("cdev"),
         "node" \in object => Loading("device"),
         "buffer" \in object <=> Loading("buffer"),
         NEW n \in Nat, numbers' = n, n = IF Loading("region") THEN numbers + 1 ELSE numbers
  PROVE  IInv'
<1> USE DEF Done, programVars, deviceVars
<1>1. TypeOK /\ lesson \in 2..5
  BY DEF IInv, TypeOK
<1>2. step \in 1..Len(Steps[lesson]) /\ step' = step + 1 /\ lesson' = lesson
  BY <1>1, StepNumbers
<1>3. have \subseteq have' /\ have' = have \cup object
  OBVIOUS
<1>4. TypeOK'
  BY <1>1, <1>2, <1>3, StepNumbers DEF TypeOK
<1>5. RangeInv' /\ PastInv' /\ JunkInv' /\ WriteInv' /\ LoneWriteIntact'
  BY DEF IInv, RangeInv, PastInv, JunkInv, WriteInv, LoneWriteIntact, HasFile, Writing
<1>6. ObjectInv'
  <2> USE <1>1, <1>2, <1>3, StepNumbers DEF IInv, ObjectInv, TypeOK
  <2>1. "cdev" \in have' => lesson \in {4, 5} /\ step' >= 3
    OBVIOUS
  <2>2. "node" \in have' => step' >= 4 /\ (lesson \in {4, 5} => step' >= 5)
    OBVIOUS
  <2>3. "buffer" \in have' <=> lesson = 5 /\ step' = 6
    OBVIOUS
  <2>4. step' > 1 => numbers' >= 1
    <3>1. CASE step = 1
      BY <3>1
    <3>2. CASE step > 1
      BY <3>2
    <3> QED BY <3>1, <3>2
  <2> HIDE DEF Done
  <2> QED BY <2>1, <2>2, <2>3, <2>4
<1>7. FileInv'
  BY <1>3 DEF IInv, FileInv, HasFile, Openable
<1>8. LoadLeftovers'
  BY <1>1, <1>2, StepNumbers DEF IInv, LoadLeftovers, ObjectInv, TypeOK
<1> QED BY <1>4, <1>5, <1>6, <1>7, <1>8 DEF IInv

\* A module that goes leaves only the programs whose files it did not wait for.
LEMMA GoneStep ==
  ASSUME IInv, NEW cdevs \in Nat, Gone(cdevs),
         NEW n \in Nat, NEW u \in Nat, NEW b \in Nat,
         numbers' = n, unloads' = u, noBuffer' = b, n <= u, b >= noBuffer + cdevs,
         (\E p \in Programs : HasFile(p) /\ p \notin lost) => b > 0
  PROVE  IInv'
<1> USE CapacityAssumption DEF Gone
<1>1. TypeOK
  BY DEF IInv
<1>2. TypeOK'
  <2>1. 0 \in 0..Capacity /\ 0 \in 0..Len(Steps[lesson]) + 1
    BY <1>1, StepNumbers DEF TypeOK
  <2>2. stale + cdevs \in Nat
    BY <1>1 DEF TypeOK
  <2> QED BY <1>1, <2>1, <2>2 DEF TypeOK
<1>3. RangeInv'
  BY DEF IInv, RangeInv, HasFile
<1>4. ObjectInv'
  BY DEF ObjectInv
<1>5. FileInv'
  BY <1>1 DEF IInv, FileInv, HasFile, TypeOK
<1>6. ASSUME NEW p \in Programs, p \notin lost'
      PROVE  pc[p] = "out" /\ offset[p] = 0 /\ len[p] = 0
  <2>1. ~HasFile(p)
    BY <1>6
  <2>2. offset[p] \in Nat /\ len[p] \in Nat
    BY <1>1 DEF TypeOK
  <2> QED BY <2>1, <2>2 DEF IInv, RangeInv, HasFile
<1>7. PastInv' /\ JunkInv'
  BY <1>1, <1>6 DEF PastInv, JunkInv, TypeOK
<1>8. \A p \in Programs : ~Writing(p)'
  BY <1>6 DEF Writing
<1>9. WriteInv' /\ LoneWriteIntact'
  BY <1>6, <1>8 DEF WriteInv, LoneWriteIntact
<1>10. LoadLeftovers'
  <2>1. stale <= noBuffer
    BY DEF IInv, LoadLeftovers
  <2>2. stale' <= noBuffer' /\ step' = 0
    BY <1>1, <2>1 DEF TypeOK
  <2> QED BY <2>2 DEF LoadLeftovers
<1> QED BY <1>2, <1>3, <1>4, <1>5, <1>7, <1>9, <1>10 DEF IInv

\* The load keeps the invariant, through each of its error paths (94-141).
LEMMA LoadStep == IInv /\ hello_world_init => IInv'
<1> SUFFICES ASSUME IInv, hello_world_init PROVE IInv'
  OBVIOUS
<1>1. TypeOK /\ ObjectInv /\ FileInv /\ LoadLeftovers
  BY DEF IInv
<1>2. lesson \in 2..5 /\ step \in Nat /\ numbers \in Nat /\ noBuffer \in Nat /\ unloads \in Nat
  BY <1>1, StepNumbers DEF TypeOK
<1>3. step < 5 => \A p \in Programs : HasFile(p) => p \in lost
  BY <1>1, <1>2 DEF FileInv, Openable, ObjectInv
<1>4. CASE Load
  <2> USE <1>4 DEF Load, programVars, deviceVars
  <2>1. TypeOK'
    BY <1>1, <1>2, StepNumbers DEF TypeOK
  <2>2. ObjectInv' /\ LoadLeftovers'
    BY <1>1, <1>2 DEF ObjectInv, LoadLeftovers
  <2>3. RangeInv' /\ PastInv' /\ JunkInv' /\ WriteInv' /\ LoneWriteIntact' /\ FileInv'
    BY DEF IInv, RangeInv, PastInv, JunkInv, WriteInv, LoneWriteIntact, FileInv, Openable,
       HasFile, Writing
  <2> QED BY <2>1, <2>2, <2>3 DEF IInv
<1>5. CASE AllocRegion
  <2>1. step = 1 /\ ~Loading("buffer")
    BY <1>2, <1>5, StepNumbers DEF AllocRegion
  <2>2. CASE Done({}) /\ numbers' = numbers + 1
    BY <1>2, <1>5, <2>1, <2>2, DoneStep DEF AllocRegion
  <2>3. CASE Gone(0) /\ UNCHANGED <<numbers, unloads, noBuffer>>
    BY <1>1, <1>2, <1>3, <2>1, <2>3, GoneStep DEF LoadLeftovers
  <2> QED BY <1>5, <2>2, <2>3 DEF AllocRegion
<1>6. CASE AddCdev
  <2>1. step = 2 /\ ~Loading("buffer") /\ ~Loading("region")
    BY <1>2, <1>6, StepNumbers DEF AddCdev
  <2>2. CASE Done({"cdev"}) /\ UNCHANGED numbers
    BY <1>2, <1>6, <2>1, <2>2, DoneStep DEF AddCdev
  <2>3. CASE Gone(0) /\ Unregister(1) /\ UNCHANGED <<unloads, noBuffer>>
    BY <1>1, <1>2, <1>3, <2>1, <2>3, GoneStep DEF LoadLeftovers, ObjectInv, Unregister
  <2> QED BY <1>6, <2>2, <2>3 DEF AddCdev
<1>7. CASE CreateClass
  <2>1. ~Loading("buffer") /\ ~Loading("region")
    BY <1>2, <1>7, StepNumbers DEF CreateClass
  <2> QED BY <1>2, <1>7, <2>1, DoneStep DEF CreateClass
<1>8. CASE CreateDevice
  <2>1. ~Loading("buffer") /\ ~Loading("region")
    BY <1>2, <1>8, StepNumbers DEF CreateDevice
  <2> QED BY <1>2, <1>8, <2>1, DoneStep DEF CreateDevice
<1>9. CASE AllocBuffer
  <2>1. lesson = 5 /\ step = 5 /\ ~Loading("region")
    BY <1>2, <1>9, StepNumbers DEF AllocBuffer
  <2>2. CASE Done({"buffer"}) /\ UNCHANGED numbers
    BY <1>2, <1>9, <2>1, <2>2, DoneStep DEF AllocBuffer
  <2>3. CASE Gone(1) /\ Unregister(1) /\ noBuffer' = noBuffer + 1 /\ UNCHANGED unloads
    BY <1>1, <1>2, <2>1, <2>3, GoneStep DEF LoadLeftovers, ObjectInv, Unregister
  <2> QED BY <1>9, <2>2, <2>3 DEF AllocBuffer
<1> QED BY <1>4, <1>5, <1>6, <1>7, <1>8, <1>9 DEF hello_world_init

\* rmmod waits for the open files of the module (143-153, fops.owner).
LEMMA ExitStep == IInv /\ hello_world_exit => IInv'
<1> SUFFICES ASSUME IInv, hello_world_exit PROVE IInv'
  OBVIOUS
<1>1. TypeOK /\ ObjectInv /\ LoadLeftovers
  BY DEF IInv
<1>2. lesson \in 2..5 /\ numbers \in Nat /\ noBuffer \in Nat /\ unloads \in Nat
  BY <1>1 DEF TypeOK
<1>3. step > 1
  BY <1>2, StepNumbers DEF hello_world_exit, Loaded
<1>4. numbers' \in Nat /\ numbers' <= unloads'
  BY <1>1, <1>2, <1>3 DEF hello_world_exit, Unregister, ObjectInv, LoadLeftovers
<1> QED BY <1>2, <1>4, GoneStep DEF hello_world_exit

-----------------------------------------------------------------------------
(* The programs.                                                           *)

\* What a program does leaves the module as it is.
LEMMA ModuleKept ==
  ASSUME IInv, UNCHANGED moduleVars
  PROVE  ObjectInv' /\ LoadLeftovers' /\ (Openable' <=> Openable)
BY DEF IInv, moduleVars, ObjectInv, LoadLeftovers, Openable

\* Outside m_read and m_write a program goes from call to call.
LEMMA QuietStep ==
  ASSUME IInv, NEW p \in Programs, NEW l \in {"out", "menu", "call", "called"},
         p \notin lost, pc[p] \in {"out", "menu", "call", "called"}, Goto(p, l),
         l \in {"out", "menu"} => offset[p] = 0,
         Openable,
         mode' \in [Programs -> {"none", "read", "write"}],
         UNCHANGED <<moduleVars, offset, len, lost, deviceVars>>
  PROVE  IInv'
<1> USE DEF Goto, moduleVars, deviceVars
<1>1. TypeOK' BY DEF IInv, TypeOK
<1>2. RangeInv' BY DEF IInv, TypeOK, RangeInv, HasFile
<1>3. FileInv' BY DEF IInv, TypeOK, FileInv, HasFile, Openable
<1>4. PastInv' BY DEF IInv, TypeOK, PastInv
<1>5. JunkInv' BY DEF IInv, TypeOK, JunkInv
<1>6. \A q \in Programs : Writing(q)' <=> Writing(q)
  BY DEF IInv, TypeOK, Writing
<1>7. WriteInv' BY <1>6 DEF IInv, TypeOK, WriteInv
<1>8. LoneWriteIntact' BY <1>6 DEF IInv, LoneWriteIntact
<1> QED BY <1>1, <1>2, <1>3, <1>4, <1>5, <1>7, <1>8, ModuleKept DEF IInv

\* open, close by exit, and the calls of lesson 4 (test_app 26-85).
LEMMA CallStep ==
  ASSUME IInv, NEW p \in Programs,
         StartApp(p) \/ m_open(p) \/ Quit(p) \/ WriteAgain(p) \/ CallLesson4(p)
  PROVE  IInv'
<1> USE DEF Goto, HasFile
<1>1. TypeOK /\ RangeInv /\ FileInv
  BY DEF IInv
<1>2. offset[p] \in Nat
  BY <1>1 DEF TypeOK
<1>3. CASE StartApp(p)
  <2>1. p \notin lost /\ offset[p] = 0
    BY <1>1, <1>2, <1>3 DEF StartApp, FileInv, RangeInv
  <2> QED BY <1>1, <1>3, <2>1, QuietStep DEF StartApp, TypeOK
<1>4. CASE m_open(p)
  <2>1. mode' \in [Programs -> {"none", "read", "write"}]
    BY <1>1, <1>4 DEF m_open, TypeOK
  <2> QED BY <1>1, <1>4, <2>1, QuietStep DEF m_open
<1>5. CASE Quit(p)
  <2>1. Openable /\ offset[p] = 0
    BY <1>1, <1>2, <1>5 DEF Quit, FileInv, RangeInv
  <2> QED BY <1>1, <1>5, <2>1, QuietStep DEF Quit, TypeOK
<1>6. CASE WriteAgain(p)
  <2>1. Openable
    BY <1>1, <1>6 DEF WriteAgain, FileInv
  <2> QED BY <1>1, <1>6, <2>1, QuietStep DEF WriteAgain, TypeOK
<1>7. CASE CallLesson4(p)
  <2>1. Openable
    BY <1>1, <1>7 DEF CallLesson4, Calls, FileInv
  <2> QED BY <1>1, <1>7, <2>1, QuietStep DEF CallLesson4, Calls, TypeOK
<1> QED BY <1>3, <1>4, <1>5, <1>6, <1>7

\* A program that lets its file go, by close, by a fault in m_write, or with a
\* module that is gone, leaves nothing of it (45-50, 82).
LEMMA ReleaseStep ==
  ASSUME IInv, NEW p \in Programs, m_release(p) \/ WriteToNull(p) \/ Crash(p)
  PROVE  IInv'
<1> USE CapacityAssumption DEF Goto
<1>1. TypeOK /\ RangeInv /\ FileInv
  BY DEF IInv
<1>0. len[p] \in Nat /\ (len[p] > 0 => pc[p] \in {"fetch", "copy", "size"})
  BY <1>1 DEF TypeOK, RangeInv
<1>2. /\ UNCHANGED <<moduleVars, buffer, size, mixed>>
      /\ pc' = [pc EXCEPT ![p] = pc'[p]] /\ pc'[p] \in {"out", "menu"}
      /\ offset' = [offset EXCEPT ![p] = 0] /\ mode' = [mode EXCEPT ![p] = "none"]
      /\ len' \in [Programs -> 0..Capacity] /\ len'[p] = 0
      /\ \A q \in Programs \ {p} : len'[q] = len[q]
      /\ passed' = passed \ {p} /\ lost' = lost \ {p}
  <2>1. CASE m_release(p)
    <3>1. len[p] = 0
      BY <1>0, <2>1 DEF m_release
    <3> QED BY <1>1, <2>1, <3>1 DEF m_release, TypeOK
  <2>2. CASE WriteToNull(p)
    <3>1. len[p] = 0
      BY <1>0, <2>2 DEF WriteToNull, Calls
    <3> QED BY <1>1, <2>2, <3>1 DEF WriteToNull, Calls, TypeOK
  <2>3. CASE Crash(p)
    BY <1>1, <2>3 DEF Crash, TypeOK
  <2> QED BY <2>1, <2>2, <2>3
<1>3. ~Writing(p) /\ (pc'[p] = "menu" => HasFile(p) /\ p \notin lost)
  BY <1>1 DEF m_release, WriteToNull, Calls, Crash, Writing, HasFile, TypeOK
<1> HIDE DEF Goto
<1>4. TypeOK' BY <1>1, <1>2 DEF TypeOK, moduleVars
<1>5. RangeInv' BY <1>1, <1>2 DEF TypeOK, RangeInv
<1>6. FileInv' BY <1>1, <1>2, <1>3, ModuleKept DEF TypeOK, FileInv, HasFile, moduleVars
<1>7. PastInv' BY <1>1, <1>2 DEF IInv, TypeOK, PastInv
<1>8. JunkInv' BY <1>1, <1>2 DEF IInv, TypeOK, JunkInv
<1>9. \A q \in Programs : Writing(q)' <=> Writing(q)
  BY <1>1, <1>2, <1>3 DEF TypeOK, Writing
<1>10. WriteInv' BY <1>1, <1>2, <1>9 DEF IInv, TypeOK, WriteInv
<1>11. LoneWriteIntact' BY <1>2, <1>9 DEF IInv, LoneWriteIntact
<1> QED BY <1>2, <1>4, <1>5, <1>6, <1>7, <1>8, <1>10, <1>11, ModuleKept DEF IInv

-----------------------------------------------------------------------------
(* m_read and m_write.                                                     *)

\* min of what is left and what is asked for, and nothing of an empty buffer.
LEMMA ToReadBounds ==
  ASSUME TypeOK, NEW p \in Programs, NEW n \in Lengths
  PROVE  /\ ToRead(p, n) \in Nat
         /\ offset[p] <= size => offset[p] + ToRead(p, n) <= size
<1>1. offset[p] \in 0..Capacity /\ size \in 0..Capacity /\ n \in Nat
  BY LengthsAssumption DEF TypeOK
<1>2. Left(p) \in Nat /\ (offset[p] <= size => Left(p) = size - offset[p])
  BY <1>1, CapacityAssumption, WordAssumption DEF Left
<1> QED BY <1>1, <1>2 DEF ToRead

\* The count to write stays in the buffer.
LEMMA ToWriteBounds ==
  ASSUME TypeOK, NEW p \in Programs, NEW n \in Lengths
  PROVE  ToWrite(p, n) \in 0..Capacity /\ offset[p] + ToWrite(p, n) <= Capacity
<1>1. offset[p] \in 0..Capacity /\ n \in Nat
  BY LengthsAssumption DEF TypeOK
<1> QED BY <1>1, CapacityAssumption DEF ToWrite

\* The first half of a call fixes its length (59-60, 78-82).
LEMMA ReadSizeStep == ASSUME IInv, NEW p \in Programs, ReadSize(p) PROVE IInv'
<1> USE CapacityAssumption
<1>1. TypeOK /\ RangeInv /\ FileInv
  BY DEF IInv
<1>2. PICK n \in Lengths :
        offset[p] + ToRead(p, n) <= Capacity /\ len' = [len EXCEPT ![p] = ToRead(p, n)]
  BY DEF ReadSize
<1>3. /\ pc[p] = "call" /\ p \notin lost /\ pc' = [pc EXCEPT ![p] = "fetch"]
      /\ UNCHANGED <<moduleVars, mode, offset, lost, deviceVars>>
  BY DEF ReadSize, Calls, Goto
<1>4. /\ offset[p] \in 0..Capacity /\ ToRead(p, n) \in 0..Capacity
      /\ offset[p] <= size => offset[p] + ToRead(p, n) <= size
  BY <1>1, <1>2, ToReadBounds DEF TypeOK
<1>5. TypeOK' BY <1>1, <1>2, <1>3, <1>4 DEF TypeOK, moduleVars, deviceVars
<1>6. RangeInv' BY <1>1, <1>2, <1>3, <1>4 DEF RangeInv, TypeOK
<1>7. FileInv' BY <1>1, <1>3, ModuleKept DEF FileInv, HasFile, TypeOK, moduleVars
<1>8. PastInv'
  BY <1>1, <1>2, <1>3, <1>4 DEF IInv, PastInv, TypeOK, deviceVars
<1>9. JunkInv'
  BY <1>1, <1>2, <1>3, <1>4 DEF IInv, JunkInv, TypeOK, deviceVars
<1>10. \A q \in Programs : Writing(q)' <=> Writing(q)
  BY <1>1, <1>3 DEF TypeOK, Writing
<1>11. WriteInv' BY <1>1, <1>2, <1>3, <1>10 DEF IInv, TypeOK, WriteInv, deviceVars
<1>12. LoneWriteIntact' BY <1>3, <1>10 DEF IInv, LoneWriteIntact, deviceVars
<1> QED BY <1>3, <1>5, <1>6, <1>7, <1>8, <1>9, <1>11, <1>12, ModuleKept DEF IInv

\* copy_to_user moves the position to the end of what was read (63-68).
LEMMA ReadCopyStep == ASSUME IInv, NEW p \in Programs, ReadCopy(p) PROVE IInv'
<1> USE CapacityAssumption
<1>1. TypeOK /\ RangeInv /\ FileInv
  BY DEF IInv
<1>2. /\ pc[p] = "fetch" /\ p \notin lost
      /\ pc' = [pc EXCEPT ![p] = pc'[p]] /\ pc'[p] \in {"call", "called"}
      /\ offset' = [offset EXCEPT ![p] = @ + len[p]] /\ len' = [len EXCEPT ![p] = 0]
      /\ UNCHANGED <<moduleVars, mode, lost, deviceVars>>
  BY <1>1 DEF ReadCopy, Goto, TypeOK
<1>3. offset[p] \in Nat /\ len[p] \in Nat /\ offset[p] + len[p] \in 0..Capacity
  BY <1>1 DEF TypeOK, RangeInv
<1>4. TypeOK'
  <2>1. offset' \in [Programs -> 0..Capacity] /\ len' \in [Programs -> 0..Capacity]
    BY <1>1, <1>2, <1>3 DEF TypeOK
  <2>2. pc' \in [Programs -> {"out", "menu", "call", "fetch", "copy", "size", "called"}]
    BY <1>1, <1>2 DEF TypeOK
  <2> QED BY <1>1, <1>2, <2>1, <2>2 DEF TypeOK, moduleVars, deviceVars
<1>5. RangeInv' BY <1>1, <1>2, <1>3 DEF RangeInv, TypeOK
<1>6. FileInv' BY <1>1, <1>2, ModuleKept DEF FileInv, HasFile, TypeOK, moduleVars
<1>7. PastInv' BY <1>1, <1>2, <1>3 DEF IInv, PastInv, TypeOK, deviceVars
<1>8. JunkInv' BY <1>1, <1>2, <1>3 DEF IInv, JunkInv, TypeOK, deviceVars
<1>9. \A q \in Programs : Writing(q)' <=> Writing(q)
  BY <1>1, <1>2 DEF TypeOK, Writing
<1>10. WriteInv' BY <1>1, <1>2, <1>9 DEF IInv, TypeOK, WriteInv, deviceVars
<1>11. LoneWriteIntact' BY <1>2, <1>9 DEF IInv, LoneWriteIntact, deviceVars
<1> QED BY <1>2, <1>4, <1>5, <1>6, <1>7, <1>8, <1>10, <1>11, ModuleKept DEF IInv

\* memset: the buffer has no junk any more, and is this write's alone unless
\* another is under way (74-82).
LEMMA WriteClearStep == ASSUME IInv, NEW p \in Programs, WriteClear(p) PROVE IInv'
<1> USE CapacityAssumption
<1>1. TypeOK /\ RangeInv /\ FileInv
  BY DEF IInv
<1>2. PICK n \in Lengths : len' = [len EXCEPT ![p] = ToWrite(p, n)]
  BY DEF WriteClear
<1>3. /\ pc[p] = "call" /\ p \notin lost /\ pc' = [pc EXCEPT ![p] = "copy"]
      /\ buffer' = [i \in 1..Capacity |-> "zero"]
      /\ mixed' = \E q \in Programs \ {p} : Writing(q)
      /\ UNCHANGED <<moduleVars, mode, offset, lost, size, passed>>
  BY DEF WriteClear, Calls, Goto
<1>4. ToWrite(p, n) \in 0..Capacity /\ offset[p] + ToWrite(p, n) <= Capacity
  BY <1>1, ToWriteBounds
<1>5. TypeOK' BY <1>1, <1>2, <1>3, <1>4 DEF TypeOK, moduleVars
<1>6. RangeInv' BY <1>1, <1>2, <1>3, <1>4 DEF RangeInv, TypeOK
<1>7. FileInv' BY <1>1, <1>3, ModuleKept DEF FileInv, HasFile, TypeOK, moduleVars
<1>8. PastInv' BY <1>1, <1>2, <1>3 DEF IInv, PastInv, TypeOK
<1>9. JunkInv' BY <1>3 DEF JunkInv
<1>10. Writing(p)' /\ \A q \in Programs \ {p} : Writing(q)' <=> Writing(q)
  BY <1>1, <1>3 DEF TypeOK, Writing
<1>11. WriteInv' BY <1>1, <1>3, <1>10 DEF TypeOK, WriteInv, Writing
<1>12. LoneWriteIntact' BY <1>10 DEF LoneWriteIntact
<1> QED BY <1>3, <1>5, <1>6, <1>7, <1>8, <1>9, <1>11, <1>12, ModuleKept DEF IInv

\* copy_from_user puts the program's bytes at its position (83).
LEMMA WriteCopyStep == ASSUME IInv, NEW p \in Programs, WriteCopy(p) PROVE IInv'
<1> USE CapacityAssumption
<1>1. TypeOK /\ RangeInv /\ FileInv /\ JunkInv
  BY DEF IInv
<1>2. /\ pc[p] = "copy" /\ p \notin lost /\ pc' = [pc EXCEPT ![p] = "size"]
      /\ buffer' = [i \in 1..Capacity |->
                      IF i \in offset[p] + 1 .. offset[p] + len[p] THEN p ELSE buffer[i]]
      /\ UNCHANGED <<moduleVars, mode, offset, len, lost, size, passed, mixed>>
  BY DEF WriteCopy, Goto
<1>3. TypeOK' BY <1>1, <1>2 DEF TypeOK, moduleVars
<1>4. RangeInv' BY <1>1, <1>2 DEF RangeInv, TypeOK
<1>5. FileInv' BY <1>1, <1>2, ModuleKept DEF FileInv, HasFile, TypeOK, moduleVars
<1>6. PastInv' BY <1>1, <1>2 DEF IInv, PastInv, TypeOK
<1>7. JunkInv'
  <2>1. \A i \in 1..Capacity : buffer[i] # "junk"
    BY <1>1, <1>2 DEF JunkInv
  <2>2. p # "junk"
    BY ProgramsAssumption
  <2>3. \A i \in 1..Capacity : buffer'[i] # "junk"
    BY <1>2, <2>1, <2>2
  <2> QED BY <2>3 DEF JunkInv
<1>8. Writing(p) /\ Writing(p)' /\ \A q \in Programs : Writing(q)' <=> Writing(q)
  BY <1>1, <1>2 DEF TypeOK, Writing
<1>9. WriteInv'
  <2> SUFFICES ASSUME ~mixed PROVE WriteInv'
    BY <1>2 DEF WriteInv
  <2>1. \A q \in Programs : Writing(q) => q = p
    BY <1>8 DEF IInv, WriteInv
  <2>2. buffer = [i \in 1..Capacity |-> "zero"]
    BY <1>2 DEF IInv, WriteInv
  <2>3. buffer' = [i \in 1..Capacity |->
                     IF i \in offset'[p] + 1 .. offset'[p] + len'[p] THEN p ELSE "zero"]
    BY <1>2, <2>2
  <2>4. pc'[p] = "size"
    BY <1>1, <1>2 DEF TypeOK
  <2>5. \A q \in Programs \ lost' : pc'[q] \in {"copy", "size"} => q = p
    BY <1>8, <2>1 DEF Writing
  <2> QED BY <1>8, <2>1, <2>3, <2>4, <2>5 DEF WriteInv
<1>10. LoneWriteIntact' BY <1>8 DEF LoneWriteIntact
<1> QED BY <1>2, <1>3, <1>4, <1>5, <1>6, <1>7, <1>9, <1>10, ModuleKept DEF IInv

\* A copy that fails leaves the zeros (83-84).
LEMMA WriteFailsStep == ASSUME IInv, NEW p \in Programs, WriteFails(p) PROVE IInv'
<1> USE CapacityAssumption
<1>1. TypeOK /\ RangeInv /\ FileInv
  BY DEF IInv
<1>2. /\ pc[p] = "copy" /\ p \notin lost /\ pc' = [pc EXCEPT ![p] = "called"]
      /\ len' = [len EXCEPT ![p] = 0]
      /\ UNCHANGED <<moduleVars, mode, offset, lost, deviceVars>>
  BY DEF WriteFails, Goto
<1>3. TypeOK' BY <1>1, <1>2 DEF TypeOK, moduleVars, deviceVars
<1>4. RangeInv' BY <1>1, <1>2 DEF RangeInv, TypeOK
<1>5. FileInv' BY <1>1, <1>2, ModuleKept DEF FileInv, HasFile, TypeOK, moduleVars
<1>6. PastInv' BY <1>1, <1>2 DEF IInv, PastInv, TypeOK, deviceVars
<1>7. JunkInv' BY <1>1, <1>2 DEF IInv, JunkInv, TypeOK, deviceVars
<1>8. Writing(p) /\ ~Writing(p)' /\ \A q \in Programs \ {p} : Writing(q)' <=> Writing(q)
  BY <1>1, <1>2 DEF TypeOK, Writing
<1>9. WriteInv' BY <1>1, <1>2, <1>8 DEF IInv, TypeOK, WriteInv, deviceVars
<1>10. LoneWriteIntact'
  <2> SUFFICES ASSUME ~mixed PROVE LoneWriteIntact'
    BY <1>2 DEF LoneWriteIntact, deviceVars
  <2>1. buffer = [i \in 1..Capacity |-> "zero"]
    BY <1>2 DEF IInv, WriteInv
  <2> QED BY <1>2, <2>1 DEF LoneWriteIntact, deviceVars
<1> QED BY <1>2, <1>3, <1>4, <1>5, <1>6, <1>7, <1>9, <1>10, ModuleKept DEF IInv

\* The end of the write becomes the size, and everybody else who is in the
\* middle of the file has been overtaken (88-91).
LEMMA WriteSizeStep == ASSUME IInv, NEW p \in Programs, WriteSize(p) PROVE IInv'
<1> USE CapacityAssumption
<1>1. TypeOK /\ RangeInv /\ FileInv
  BY DEF IInv
<1>2. /\ pc[p] = "size" /\ p \notin lost /\ pc' = [pc EXCEPT ![p] = "called"]
      /\ offset' = [offset EXCEPT ![p] = @ + len[p]] /\ len' = [len EXCEPT ![p] = 0]
      /\ size' = offset[p] + len[p]
      /\ passed' = (passed \cup {q \in Programs : offset[q] + len[q] > 0}) \ {p}
      /\ UNCHANGED <<moduleVars, mode, lost, buffer, mixed>>
  BY DEF WriteSize, Goto
<1>3. offset[p] \in Nat /\ len[p] \in Nat /\ offset[p] + len[p] \in 0..Capacity
  BY <1>1 DEF TypeOK, RangeInv
<1>4. TypeOK' BY <1>1, <1>2, <1>3 DEF TypeOK, moduleVars
<1>5. RangeInv' BY <1>1, <1>2, <1>3 DEF RangeInv, TypeOK
<1>6. FileInv' BY <1>1, <1>2, ModuleKept DEF FileInv, HasFile, TypeOK, moduleVars
<1>7. PastInv'
  <2> SUFFICES ASSUME NEW q \in Programs,
                      offset'[q] > size' \/ (pc'[q] = "fetch" /\ offset'[q] + len'[q] > size')
               PROVE  q \in passed' \cup lost'
    BY DEF PastInv
  <2>1. q # p
    BY <1>1, <1>2, <1>3 DEF TypeOK
  <2>2. offset[q] \in Nat /\ len[q] \in Nat /\ offset'[q] = offset[q] /\ len'[q] = len[q]
    BY <1>1, <1>2, <2>1 DEF TypeOK
  <2>3. offset[q] + len[q] > 0
    BY <1>2, <1>3, <2>2
  <2> QED BY <1>2, <2>1, <2>3
<1>8. JunkInv' BY <1>2 DEF IInv, JunkInv
<1>9. Writing(p) /\ ~Writing(p)' /\ \A q \in Programs \ {p} : Writing(q)' <=> Writing(q)
  BY <1>1, <1>2 DEF TypeOK, Writing
<1>10. WriteInv'
  <2> SUFFICES ASSUME ~mixed PROVE WriteInv'
    BY <1>2 DEF WriteInv
  <2>1. \A q \in Programs : ~Writing(q)'
    BY <1>9 DEF IInv, WriteInv
  <2> QED BY <2>1 DEF WriteInv, Writing
<1>11. LoneWriteIntact'
  <2> SUFFICES ASSUME ~mixed PROVE LoneWriteIntact'
    BY <1>2 DEF LoneWriteIntact
  <2>1. buffer = [i \in 1..Capacity |->
                    IF i \in offset[p] + 1 .. offset[p] + len[p] THEN p ELSE "zero"]
    BY <1>2 DEF IInv, WriteInv
  <2>2. offset[p] \in 0..size'
    BY <1>2, <1>3
  <2> QED BY <1>2, <2>1, <2>2 DEF LoneWriteIntact
<1> QED BY <1>2, <1>4, <1>5, <1>6, <1>7, <1>8, <1>10, <1>11, ModuleKept DEF IInv

-----------------------------------------------------------------------------
(* The theorems.                                                           *)

\* Nothing is loaded and nothing is open (12-19).
LEMMA InitInv == Init => IInv
<1> SUFFICES ASSUME Init PROVE IInv
  OBVIOUS
<1> USE CapacityAssumption, LessonsAssumption DEF Init
<1>1. TypeOK
  <2>1. lesson \in 2..5
    OBVIOUS
  <2>2. step \in 0..Len(Steps[lesson]) + 1
    BY <2>1, StepNumbers
  <2>3. 0 \in 0..Capacity
    OBVIOUS
  <2>4. buffer \in [1..Capacity -> Programs \cup {"zero", "junk"}]
    OBVIOUS
  <2> QED BY <2>1, <2>2, <2>3, <2>4 DEF TypeOK
<1>2. RangeInv /\ ObjectInv /\ FileInv BY DEF RangeInv, ObjectInv, FileInv, HasFile
<1>3. PastInv /\ JunkInv BY DEF PastInv, JunkInv
<1>4. WriteInv /\ LoneWriteIntact BY DEF WriteInv, LoneWriteIntact, Writing
<1>5. LoadLeftovers BY DEF LoadLeftovers
<1> QED BY <1>1, <1>2, <1>3, <1>4, <1>5 DEF IInv

\* Nothing in the invariant depends on anything but vars.
LEMMA StutterStep == IInv /\ UNCHANGED vars => IInv'
BY DEF vars, moduleVars, programVars, deviceVars, IInv, TypeOK, RangeInv, ObjectInv, FileInv,
   PastInv, JunkInv, WriteInv, LoneWriteIntact, LoadLeftovers, HasFile, Writing, Openable

\* The invariant is inductive.
THEOREM InductiveInvariant == Spec => []IInv
<1>1. ASSUME IInv, NEW p \in Programs, Program(p) PROVE IInv'
  BY <1>1, CallStep, ReleaseStep, ReadSizeStep, ReadCopyStep, WriteClearStep, WriteCopyStep,
     WriteFailsStep, WriteSizeStep DEF Program, m_read, m_write
<1>2. IInv /\ [Next]_vars => IInv'
  BY <1>1, LoadStep, ExitStep, StutterStep DEF Next
<1> QED BY <1>2, InitInv, PTL DEF Spec

\* Every variable keeps its type; a position never leaves the buffer.
THEOREM TypeCorrectness == Spec => []TypeOK
<1>1. IInv => TypeOK BY DEF IInv
<1> QED BY <1>1, InductiveInvariant, PTL

\* Outside the window between device_create and kmalloc no call meets a module
\* without its buffer, unless an earlier load failed under an open file.
THEOREM CallsHaveBufferTheorem == Spec => []CallsHaveBuffer
<1>1. IInv => CallsHaveBuffer
  <2> SUFFICES ASSUME IInv, NEW p \in Programs, lesson = 5, HasFile(p),
                      p \in lost \/ "buffer" \notin have
               PROVE  Loading("buffer") \/ (p \in lost /\ noBuffer > 0)
    BY DEF CallsHaveBuffer
  <2>1. CASE p \in lost
    BY <2>1 DEF IInv, FileInv
  <2>2. CASE p \notin lost
    <3>1. lesson \in 2..5 /\ step \in 0..Len(Steps[lesson]) + 1
      BY DEF IInv, TypeOK
    <3>2. "node" \in have
      BY <2>2 DEF IInv, FileInv, Openable
    <3>3. step >= 5 /\ step # 6
      BY <2>2, <3>2 DEF IInv, ObjectInv
    <3>4. Len(Steps[lesson]) = 5
      BY <3>1, StepNumbers
    <3>5. step = 5
      BY <3>1, <3>3, <3>4
    <3> QED BY <3>1, <3>5, StepNumbers
  <2> QED BY <2>1, <2>2
<1> QED BY <1>1, InductiveInvariant, PTL

\* m_read copies nothing that kmalloc left in the buffer.
THEOREM ReadsDefinedTheorem == Spec => []ReadsDefined
<1>1. IInv => ReadsDefined
  <2> SUFFICES ASSUME IInv, NEW p \in Programs, pc[p] = "fetch", p \notin lost,
                      NEW i \in offset[p] + 1 .. offset[p] + len[p], buffer[i] = "junk"
               PROVE  FALSE
    BY DEF ReadsDefined
  <2>1. offset[p] \in Nat /\ len[p] \in Nat /\ offset[p] + len[p] <= Capacity
    BY DEF IInv, TypeOK, RangeInv
  <2>2. i \in 1..Capacity
    BY <2>1, CapacityAssumption
  <2>3. offset[p] = 0 /\ len[p] = 0
    BY <2>2 DEF IInv, JunkInv
  <2> QED BY <2>3
<1> QED BY <1>1, InductiveInvariant, PTL

\* Only another program's write makes line 60 subtract a position from a
\* smaller size.
THEOREM PastSizeTheorem == Spec => []PastSizeMeansOvertaken
<1>1. IInv => PastSizeMeansOvertaken
  BY DEF IInv, PastInv, PastSizeMeansOvertaken
<1> QED BY <1>1, InductiveInvariant, PTL

\* Without an overlapping write the buffer is what the last write made it.
THEOREM LoneWriteTheorem == Spec => []LoneWriteIntact
<1>1. IInv => LoneWriteIntact BY DEF IInv
<1> QED BY <1>1, InductiveInvariant, PTL

\* Numbers are leaked by rmmod only, cdevs by the error path of kmalloc only.
THEOREM LeftoversTheorem == Spec => []LoadLeftovers
<1>1. IInv => LoadLeftovers BY DEF IInv
<1> QED BY <1>1, InductiveInvariant, PTL
=============================================================================
