------------------------------ MODULE CharDevice ------------------------------
(***************************************************************************)
(* The kernel modules of 11_linux_kernel_module: lessons 2 to 5 load a     *)
(* module in more and more steps, lesson 4 gives it a device that programs *)
(* can open, lesson 5 keeps what they write in a buffer.                   *)
(*                                                                         *)
(* The device can be opened as soon as its node exists, which is before    *)
(* the load has finished.  No lock is taken anywhere: calls of different   *)
(* programs interleave between every two of their accesses to mdev.        *)
(***************************************************************************)
EXTENDS Naturals, Sequences

CONSTANTS
  Apps,      \* test_app programs: one call per file they open
  Others,    \* other programs (cat, cp): many calls on one file
  Lessons,   \* the lessons that are run, of 2..5
  Capacity,  \* NPAGES * PAGE_SIZE
  Lengths,   \* byte counts that the programs pass to read and write
  Word,      \* the number of values of a size_t
  MaxUnloads, MaxFailures  \* bounds on rmmods and on loads that fail at kmalloc

Programs == Apps \cup Others

ASSUME CapacityAssumption == Capacity \in Nat \ {0}
ASSUME LengthsAssumption == Lengths \subseteq Nat \ {0}
ASSUME WordAssumption == Word \in Nat /\ Word > 2 * Capacity
ASSUME LessonsAssumption == Lessons \subseteq 2..5
ASSUME BoundsAssumption == MaxUnloads \in Nat /\ MaxFailures \in Nat
ASSUME ProgramsAssumption == Apps \cap Others = {} /\ {"zero", "junk"} \cap Programs = {}

VARIABLES
  lesson,   \* which module this is
  step,     \* 0: not loaded; then the next step of its init; then loaded
  have,     \* the kernel objects that exist for the loaded module
  numbers,  \* device numbers registered under "m-cdev"
  stale,    \* cdevs in the kernel's map whose module is gone
  pc,       \* where each program is
  mode,     \* what it does with the file of its command
  offset,   \* that file's position
  len,      \* to_read or to_write of its call
  lost,     \* programs with a file of a module that is gone
  buffer,   \* the Capacity bytes at mdev.kmalloc_ptr
  size,     \* mdev.size
  unloads,  \* history: rmmods
  noBuffer, \* history: loads that ended at kmalloc
  passed,   \* history: programs in the middle of a file others have written since
  mixed     \* history: TRUE if two writes overlapped since a lone one

moduleVars == <<lesson, step, have, numbers, stale, unloads, noBuffer>>
programVars == <<pc, mode, offset, len, lost>>
deviceVars == <<buffer, size, passed, mixed>>
vars == <<moduleVars, programVars, deviceVars>>

\* The steps of hello_world_init in each lesson, and the number of minors its
\* hello_world_exit gives back.
Steps ==
  [l \in 2..5 |->
     CASE l = 2 -> <<"region">>
       [] l = 3 -> <<"region", "class", "device">>
       [] l = 4 -> <<"region", "cdev", "class", "device">>
       [] l = 5 -> <<"region", "cdev", "class", "device", "buffer">>]

ExitCount == [l \in 2..5 |-> IF l \in {2, 3} THEN 1 ELSE 3]

Loaded == step = Len(Steps[lesson]) + 1
Loading(s) == step \in DOMAIN Steps[lesson] /\ Steps[lesson][step] = s

HasFile(p) == pc[p] # "out"
Writing(p) == pc[p] \in {"copy", "size"} /\ p \notin lost

Init ==
  /\ lesson \in Lessons
  /\ step = 0 /\ have = {} /\ numbers = 0 /\ stale = 0
  /\ unloads = 0 /\ noBuffer = 0
  /\ pc = [p \in Programs |-> "out"] /\ mode = [p \in Programs |-> "none"]
  /\ offset = [p \in Programs |-> 0] /\ len = [p \in Programs |-> 0] /\ lost = {}
  /\ buffer = [i \in 1..Capacity |-> "junk"] /\ size = 0
  /\ passed = {} /\ mixed = FALSE

-----------------------------------------------------------------------------
(* Loading and unloading.                                                  *)

\* unregister_chrdev_region frees a region only if it is given the region's
\* own count, which is 1.
Unregister(count) == numbers' = IF count = 1 THEN numbers - 1 ELSE numbers

\* What is left of the module when its memory is freed: the map keeps its
\* cdev if nobody called cdev_del, open files keep pointing into it.
Gone(cdevs) ==
  /\ step' = 0 /\ have' = {} /\ stale' = stale + cdevs
  /\ buffer' = [i \in 1..Capacity |-> "junk"] /\ size' = 0
  /\ lost' = lost \cup {p \in Programs : HasFile(p)}
  /\ UNCHANGED <<lesson, pc, mode, offset, len, passed, mixed>>

Load ==
  /\ step = 0 /\ unloads < MaxUnloads /\ noBuffer < MaxFailures
  /\ step' = 1
  /\ UNCHANGED <<lesson, have, numbers, stale, unloads, noBuffer, programVars, deviceVars>>

Done(object) ==
  /\ step' = step + 1
  /\ have' = have \cup object
  /\ UNCHANGED <<lesson, stale, unloads, noBuffer, programVars, deviceVars>>

AllocRegion ==
  /\ Loading("region")
  /\ \/ Done({}) /\ numbers' = numbers + 1
     \/ Gone(0) /\ UNCHANGED <<numbers, unloads, noBuffer>>

\* rm_device_numb; the labels above it are reached from AllocBuffer only.
AddCdev ==
  /\ Loading("cdev")
  /\ \/ Done({"cdev"}) /\ UNCHANGED numbers
     \/ Gone(0) /\ Unregister(1) /\ UNCHANGED <<unloads, noBuffer>>

\* A class_create or device_create that fails returns an error pointer, not
\* the NULL that is tested for: the load goes on.
CreateClass ==
  /\ Loading("class")
  /\ Done({"class"}) \/ Done({})
  /\ UNCHANGED numbers

CreateDevice ==
  /\ Loading("device")
  /\ Done({}) \/ ("class" \in have /\ Done({"node"}))
  /\ UNCHANGED numbers

\* Mutants: the error path gives back as many numbers as the exit does, or is
\* left out.
AllocBufferExitCount ==
  /\ Loading("buffer")
  /\ \/ Done({"buffer"}) /\ UNCHANGED numbers
     \/ Gone(1) /\ Unregister(3) /\ noBuffer' = noBuffer + 1 /\ UNCHANGED unloads

AllocBuffer ==
  /\ Loading("buffer")
  /\ \/ Done({"buffer"}) /\ UNCHANGED numbers
     \/ Gone(1) /\ Unregister(1) /\ noBuffer' = noBuffer + 1 /\ UNCHANGED unloads

hello_world_init == Load \/ AllocRegion \/ AddCdev \/ CreateClass \/ CreateDevice \/ AllocBuffer

\* Mutant: rmmod of a module that does not name itself the owner of its files.
ExitUnpinned ==
  /\ Loaded
  /\ Gone(0) /\ Unregister(ExitCount[lesson])
  /\ unloads' = unloads + 1 /\ UNCHANGED noBuffer

\* fops.owner: rmmod is refused while one of the module's files is open.
hello_world_exit ==
  /\ Loaded
  /\ \A p \in Programs : HasFile(p) => p \in lost
  /\ Gone(0) /\ Unregister(ExitCount[lesson])
  /\ unloads' = unloads + 1 /\ UNCHANGED noBuffer

-----------------------------------------------------------------------------
(* The programs.                                                           *)

Openable == {"node", "cdev"} \subseteq have

Goto(p, l) == pc' = [pc EXCEPT ![p] = l]

\* test_app opens the device when it starts and keeps that file to its end.
StartApp(p) ==
  /\ p \in Apps /\ pc[p] = "out" /\ Openable
  /\ Goto(p, "menu")
  /\ UNCHANGED <<moduleVars, mode, offset, len, lost, deviceVars>>

m_open(p) ==
  /\ pc[p] = IF p \in Apps THEN "menu" ELSE "out"
  /\ p \notin lost /\ Openable
  /\ Goto(p, "call")
  /\ \E m \in {"read", "write"} : mode' = [mode EXCEPT ![p] = m]
  /\ UNCHANGED <<moduleVars, offset, len, lost, deviceVars>>

\* test_app returns if its second open fails, with exit it ends.
Quit(p) ==
  /\ p \in Apps /\ pc[p] = "menu" /\ p \notin lost
  /\ Goto(p, "out")
  /\ UNCHANGED <<moduleVars, mode, offset, len, lost, deviceVars>>

m_release(p) ==
  /\ pc[p] = "called" /\ p \notin lost
  /\ Goto(p, IF p \in Apps THEN "menu" ELSE "out")
  /\ mode' = [mode EXCEPT ![p] = "none"]
  /\ offset' = [offset EXCEPT ![p] = 0]
  /\ passed' = passed \ {p}
  /\ UNCHANGED <<moduleVars, len, lost, buffer, size, mixed>>

\* Another program than test_app writes once more on the same file.
WriteAgain(p) ==
  /\ p \in Others /\ mode[p] = "write" /\ pc[p] = "called" /\ p \notin lost
  /\ Goto(p, "call")
  /\ UNCHANGED <<moduleVars, mode, offset, len, lost, deviceVars>>

\* Whatever a program does with a file whose module is gone runs into memory
\* that has been freed.  The kernel ends it.
Crash(p) ==
  /\ HasFile(p) /\ p \in lost
  /\ Goto(p, "out") /\ lost' = lost \ {p} /\ passed' = passed \ {p}
  /\ mode' = [mode EXCEPT ![p] = "none"]
  /\ offset' = [offset EXCEPT ![p] = 0] /\ len' = [len EXCEPT ![p] = 0]
  /\ UNCHANGED <<moduleVars, buffer, size, mixed>>

-----------------------------------------------------------------------------
(* m_read and m_write.                                                     *)

Calls(p, m) == pc[p] = "call" /\ mode[p] = m /\ p \notin lost

\* Lesson 4: m_read returns 0, m_write returns what it was asked to write.
CallLesson4(p) ==
  /\ lesson = 4 /\ (Calls(p, "read") \/ Calls(p, "write"))
  /\ Goto(p, "called")
  /\ UNCHANGED <<moduleVars, mode, offset, len, lost, deviceVars>>

\* mdev.size - *offset as a size_t.
Left(p) == IF offset[p] <= size THEN size - offset[p] ELSE Word - (offset[p] - size)

\* Mutant: min(size, n) without the position.
ToReadFromStart(p, n) == IF n > size THEN size ELSE n

ToRead(p, n) == IF n > Left(p) THEN Left(p) ELSE n

ToWrite(p, n) == IF n + offset[p] > Capacity THEN Capacity - offset[p] ELSE n

\* A read that starts past mdev.size is modelled while it stays in the buffer.
ReadSize(p) ==
  /\ lesson = 5 /\ Calls(p, "read")
  /\ \E n \in Lengths :
       /\ offset[p] + ToRead(p, n) <= Capacity
       /\ len' = [len EXCEPT ![p] = ToRead(p, n)]
  /\ Goto(p, "fetch")
  /\ UNCHANGED <<moduleVars, mode, offset, lost, deviceVars>>

\* Mutant: *offset stays where it is.
ReadCopyInPlace(p) ==
  /\ pc[p] = "fetch" /\ p \notin lost
  /\ len' = [len EXCEPT ![p] = 0]
  /\ Goto(p, IF p \in Others /\ len[p] > 0 THEN "call" ELSE "called")
  /\ UNCHANGED <<moduleVars, mode, offset, lost, deviceVars>>

\* copy_to_user; a program that reads to the end goes on until it gets 0.
ReadCopy(p) ==
  /\ pc[p] = "fetch" /\ p \notin lost
  /\ offset' = [offset EXCEPT ![p] = @ + len[p]]
  /\ len' = [len EXCEPT ![p] = 0]
  /\ Goto(p, IF p \in Others /\ len[p] > 0 THEN "call" ELSE "called")
  /\ UNCHANGED <<moduleVars, mode, lost, deviceVars>>

m_read(p) == ReadSize(p) \/ ReadCopy(p)

\* Mutant: the buffer is not cleared.
WriteOver(p) ==
  /\ lesson = 5 /\ Calls(p, "write") /\ "buffer" \in have
  /\ \E n \in Lengths : len' = [len EXCEPT ![p] = ToWrite(p, n)]
  /\ Goto(p, "copy")
  /\ mixed' = \E q \in Programs \ {p} : Writing(q)
  /\ UNCHANGED <<moduleVars, mode, offset, lost, buffer, size, passed>>

\* Mutant: memset from the position on, not from the start.
WriteClearTail(p) ==
  /\ lesson = 5 /\ Calls(p, "write") /\ "buffer" \in have
  /\ \E n \in Lengths : len' = [len EXCEPT ![p] = ToWrite(p, n)]
  /\ buffer' = [i \in 1..Capacity |-> IF i > offset[p] THEN "zero" ELSE buffer[i]]
  /\ Goto(p, "copy")
  /\ mixed' = \E q \in Programs \ {p} : Writing(q)
  /\ UNCHANGED <<moduleVars, mode, offset, lost, size, passed>>

\* memset
WriteClear(p) ==
  /\ lesson = 5 /\ Calls(p, "write") /\ "buffer" \in have
  /\ \E n \in Lengths : len' = [len EXCEPT ![p] = ToWrite(p, n)]
  /\ buffer' = [i \in 1..Capacity |-> "zero"]
  /\ Goto(p, "copy")
  /\ mixed' = \E q \in Programs \ {p} : Writing(q)
  /\ UNCHANGED <<moduleVars, mode, offset, lost, size, passed>>

\* kmalloc_ptr is still NULL: the kernel ends the program and closes its files.
WriteToNull(p) ==
  /\ lesson = 5 /\ Calls(p, "write") /\ "buffer" \notin have
  /\ Goto(p, "out") /\ mode' = [mode EXCEPT ![p] = "none"]
  /\ offset' = [offset EXCEPT ![p] = 0] /\ passed' = passed \ {p}
  /\ UNCHANGED <<moduleVars, len, lost, buffer, size, mixed>>

WriteCopy(p) ==
  /\ pc[p] = "copy" /\ p \notin lost
  /\ buffer' = [i \in 1..Capacity |->
                  IF i \in offset[p] + 1 .. offset[p] + len[p] THEN p ELSE buffer[i]]
  /\ Goto(p, "size")
  /\ UNCHANGED <<moduleVars, mode, offset, len, lost, size, passed, mixed>>

\* copy_from_user fails (-EFAULT); test_app always passes its own array.
WriteFails(p) ==
  /\ p \in Others /\ pc[p] = "copy" /\ p \notin lost
  /\ len' = [len EXCEPT ![p] = 0]
  /\ Goto(p, "called")
  /\ UNCHANGED <<moduleVars, mode, offset, lost, deviceVars>>

WriteSize(p) ==
  /\ pc[p] = "size" /\ p \notin lost
  /\ offset' = [offset EXCEPT ![p] = @ + len[p]] /\ size' = offset[p] + len[p]
  /\ len' = [len EXCEPT ![p] = 0]
  /\ passed' = (passed \cup {q \in Programs : offset[q] + len[q] > 0}) \ {p}
  /\ Goto(p, "called")
  /\ UNCHANGED <<moduleVars, mode, lost, buffer, mixed>>

m_write(p) == WriteClear(p) \/ WriteToNull(p) \/ WriteCopy(p) \/ WriteFails(p) \/ WriteSize(p)

-----------------------------------------------------------------------------
Program(p) ==
  \/ StartApp(p) \/ Quit(p) \/ m_open(p) \/ m_release(p) \/ WriteAgain(p)
  \/ Crash(p) \/ CallLesson4(p) \/ m_read(p) \/ m_write(p)

Next == hello_world_init \/ hello_world_exit \/ \E p \in Programs : Program(p)

\* A call that has begun goes on, and a program that reads to the end does so.
\* Nothing else has to happen.
InCall(p) == m_read(p) \/ m_write(p) \/ CallLesson4(p) \/ (mode[p] = "read" /\ m_release(p)) \/ Crash(p)

Fairness == \A p \in Programs : WF_vars(InCall(p))

Spec == Init /\ [][Next]_vars /\ Fairness
-----------------------------------------------------------------------------
\* Types.
TypeOK ==
  /\ lesson \in 2..5 /\ step \in 0..Len(Steps[lesson]) + 1
  /\ have \subseteq {"cdev", "class", "node", "buffer"}
  /\ numbers \in Nat /\ stale \in Nat /\ unloads \in Nat /\ noBuffer \in Nat
  /\ pc \in [Programs -> {"out", "menu", "call", "fetch", "copy", "size", "called"}]
  /\ mode \in [Programs -> {"none", "read", "write"}]
  /\ offset \in [Programs -> 0..Capacity] /\ len \in [Programs -> 0..Capacity]
  /\ lost \subseteq Programs /\ passed \subseteq Programs
  /\ buffer \in [1..Capacity -> Programs \cup {"zero", "junk"}]
  /\ size \in 0..Capacity /\ mixed \in BOOLEAN

\* No call of lesson 5 meets a module without its buffer once the load is over:
\* an open file keeps the module in (fops.owner, line 31).  Only the window
\* between device_create (120) and kmalloc (126) is open to programs.
CallsHaveBuffer ==
  \A p \in Programs :
    lesson = 5 /\ HasFile(p) /\ (p \in lost \/ "buffer" \notin have) =>
      Loading("buffer") \/ (p \in lost /\ noBuffer > 0)

\* m_read (63) copies no byte of the buffer that no memset has reached, however
\* the calls and the loads interleave: kmalloc does not clear it, only
\* mdev.size = 0 keeps it from being read.
ReadsDefined ==
  \A p \in Programs :
    pc[p] = "fetch" /\ p \notin lost =>
      \A i \in offset[p] + 1 .. offset[p] + len[p] : buffer[i] # "junk"

\* A position passes mdev.size, which makes line 60 compute a huge count, only
\* by another program's write after this one's open or last write.
PastSizeMeansOvertaken ==
  \A p \in Programs : offset[p] > size => p \in passed \cup lost

\* Without overlapping writes, the buffer is what the last write made it: its
\* bytes up to mdev.size, zeros everywhere else; or all zeros if it failed or
\* found no room.
LoneWriteIntact ==
  (\A p \in Programs : ~Writing(p)) /\ ~mixed =>
    \/ \E c \in {"zero", "junk"} : buffer = [i \in 1..Capacity |-> c]
    \/ \E w \in Programs, start \in 0..size :
         buffer = [i \in 1..Capacity |-> IF i \in start + 1 .. size THEN w ELSE "zero"]

\* A device number outlives its module only after an rmmod (exit passes 3 for a
\* region of 1), a cdev only after a load that failed at kmalloc (its error path
\* has no cdev_del); every other error path takes back what was done.
LoadLeftovers ==
  /\ numbers <= unloads + (IF step > 1 THEN 1 ELSE 0)
  /\ stale <= noBuffer

\* A program that reads the device to its end gets there, or is killed with its
\* file, or is overtaken: then line 60 gives it bytes for ever.
ReaderEnds ==
  \A p \in Others :
    (mode[p] = "read" /\ lesson = 5) ~> (pc[p] = "out" \/ offset[p] > size)

=============================================================================
