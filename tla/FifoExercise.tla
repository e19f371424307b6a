----------------------------- MODULE FifoExercise -----------------------------
(***************************************************************************)
(* The programs of 06_pipe_fifo in which two processes talk:               *)
(*   "related_pipe"  2_related_pipe: a parent writes to its child          *)
(*   "named_pipe"    3_named_pipe: a producer and a consumer open the FIFO *)
(*                   anew for every message                                *)
(*   "bvn", "vdvd"   4_bvn/main.c and 4_bvn/vdvd/main.c, two programs for  *)
(*                   one exercise: a parent's thread writes a message into *)
(*                   a FIFO, a child's thread reads it, and the processes  *)
(*                   send each other SIGUSR1                               *)
(*                                                                         *)
(* Each thread of control is a row of calls (Code) and a position in it;   *)
(* there is one action per kind of call.  The sleep calls are what the     *)
(* programs order each other with; they promise no order, and none is      *)
(* modelled.  The names PausedWorker also has are told from its, so that   *)
(* one module, ExerciseProofs, extends both.                               *)
(***************************************************************************)
EXTENDS Naturals, Sequences

CONSTANTS
  Versions,    \* the programs that are run
  MaxMessages  \* messages the producer's user types (a bound)

ASSUME VersionsAssumption ==
  Versions \subseteq {"related_pipe", "named_pipe", "bvn", "vdvd"}
ASSUME MaxMessagesAssumption == MaxMessages \in Nat

Actors == {"parent", "writer", "child", "reader"}
Processes == {"parent", "child"}

VARIABLES
  version,   \* which program this is
  place,     \* position of each actor in its code, 0 before it starts
  fifo,      \* TRUE if the FIFO exists in the file system
  ends,      \* who has an end of it open, or waits in open for the other
  met,       \* whose open has found the other side
  data,      \* messages in the FIFO or pipe
  got,       \* what the reader's read returned
  handling,  \* processes with a handler for SIGUSR1
  waiting,   \* processes with a SIGUSR1 pending
  heard,     \* processes whose handler has run
  killed,    \* processes ended by a signal
  written,   \* history: messages written
  printed,   \* history: messages the consumer or the child has printed
  overlap    \* history: TRUE if a FIFO was reopened before the other closed it

countVars == <<written, printed, overlap>>
fifoVars == <<fifo, ends, met, data, got, countVars>>
signalVars == <<handling, waiting, heard, killed>>
allVars == <<version, place, fifoVars, signalVars>>

\* The calls of each actor, in their order.
Bvn ==
  [parent |-> <<"fork", "signal", "mkfifo", "create", "join">>,
   writer |-> <<"open", "opened", "write", "close", "kill">>,
   child  |-> <<"create", "join">>,
   reader |-> <<"open", "opened", "read", "close", "kill">>]

Vdvd ==
  [parent |-> <<"mkfifo", "fork", "signal", "create", "kill", "join", "unlink">>,
   writer |-> <<"open", "opened", "write", "close">>,
   child  |-> <<"signal", "create", "join", "unlink">>,
   reader |-> <<"open", "opened", "read", "kill", "close">>]

\* The child first closes its copy of the end that its parent writes to.
RelatedPipe ==
  [parent |-> <<"fork", "signal", "write", "write", "write", "close", "pause">>,
   child  |-> <<"close_copy", "read", "exit">>,
   writer |-> <<>>, reader |-> <<>>]

\* Two programs, each repeating its row but for mkfifo.
NamedPipe ==
  [parent |-> <<"mkfifo", "type", "open", "opened", "write", "close">>,
   child  |-> <<"mkfifo", "open", "opened", "read", "close">>,
   writer |-> <<>>, reader |-> <<>>]

\* Mutants: vdvd with the parent's unlink before its join; with the writer
\* closing its end before it writes; with join before create; a consumer that
\* reads on to the end.
CodeUnlinksFirst ==
  [bvn |-> Bvn, related_pipe |-> RelatedPipe, named_pipe |-> NamedPipe, vdvd |->
     [parent |-> <<"mkfifo", "fork", "signal", "create", "kill", "unlink", "join">>,
      writer |-> <<"open", "opened", "write", "close">>,
      child  |-> <<"signal", "create", "join", "unlink">>,
      reader |-> <<"open", "opened", "read", "kill", "close">>]]

CodeClosesFirst ==
  [bvn |-> Bvn, related_pipe |-> RelatedPipe, named_pipe |-> NamedPipe, vdvd |->
     [parent |-> <<"mkfifo", "fork", "signal", "create", "kill", "join", "unlink">>,
      writer |-> <<"open", "opened", "close", "write">>,
      child  |-> <<"signal", "create", "join", "unlink">>,
      reader |-> <<"open", "opened", "read", "kill", "close">>]]

CodeJoinsFirst ==
  [bvn |-> Bvn, related_pipe |-> RelatedPipe, named_pipe |-> NamedPipe, vdvd |->
     [parent |-> <<"mkfifo", "fork", "signal", "join", "create", "kill", "unlink">>,
      writer |-> <<"open", "opened", "write", "close">>,
      child  |-> <<"signal", "create", "join", "unlink">>,
      reader |-> <<"open", "opened", "read", "kill", "close">>]]

CodeReadsOn ==
  [bvn |-> Bvn, related_pipe |-> RelatedPipe, vdvd |-> Vdvd, named_pipe |->
     [parent |-> <<"mkfifo", "type", "open", "opened", "write", "close">>,
      child  |-> <<"mkfifo", "open", "opened", "read", "read", "close">>,
      writer |-> <<>>, reader |-> <<>>]]

Code == [bvn |-> Bvn, vdvd |-> Vdvd, related_pipe |-> RelatedPipe, named_pipe |-> NamedPipe]

ThreadOf == [parent |-> "writer", child |-> "reader"]
ProcessOf == [parent |-> "parent", writer |-> "parent", child |-> "child", reader |-> "child"]
Other == [parent |-> "child", child |-> "parent", writer |-> "reader", reader |-> "writer"]

End(a) == Len(Code[version][a]) + 1
Running(p) == place[p] \in 1..(End(p) - 1) /\ p \notin killed

\* Actor a is about to make the call.
At(a, call) ==
  /\ Running(ProcessOf[a])
  /\ place[a] \in DOMAIN Code[version][a]
  /\ Code[version][a][place[a]] = call

\* It makes the call and goes on, or gives up: return, exit or pthread_exit.
After(a) == IF version = "named_pipe" /\ place[a] = End(a) - 1 THEN 2 ELSE place[a] + 1
Advance(a, call) == At(a, call) /\ place' = [place EXCEPT ![a] = After(a)]
GiveUp(a, call) == At(a, call) /\ place' = [place EXCEPT ![a] = End(a)]

\* No program need be the first that runs in its directory, so the FIFO may be
\* there already.  The producer and the consumer are started independently.
FifoInit ==
  /\ version \in Versions
  /\ place = [a \in Actors |->
                IF a = "parent" \/ (a = "child" /\ version = "named_pipe") THEN 1 ELSE 0]
  /\ fifo \in BOOLEAN
  /\ ends = {} /\ met = {} /\ data = 0 /\ got = "nothing"
  /\ handling = {} /\ waiting = {} /\ heard = {} /\ killed = {}
  /\ written = 0 /\ printed = 0 /\ overlap = FALSE

-----------------------------------------------------------------------------
(* Processes and threads.                                                  *)

\* The child inherits the parent's handlers and the ends of its pipe.
Fork ==
  /\ At("parent", "fork")
  /\ place' = [place EXCEPT !["parent"] = @ + 1, !["child"] = 1]
  /\ handling' = IF "parent" \in handling THEN Processes ELSE handling
  /\ ends' = IF version = "related_pipe" THEN {"parent", "child", "copy"} ELSE ends
  /\ UNCHANGED <<version, fifo, met, data, got, countVars, waiting, heard, killed>>

ForkFails ==
  /\ GiveUp("parent", "fork")
  /\ UNCHANGED <<version, fifoVars, signalVars>>

CreateThread(p) ==
  /\ At(p, "create")
  /\ place' = [place EXCEPT ![p] = @ + 1, ![ThreadOf[p]] = 1]
  /\ UNCHANGED <<version, fifoVars, signalVars>>

\* Only bvn looks at the result; in vdvd the thread is taken to start.
CreateThreadFails(p) ==
  /\ version = "bvn"
  /\ GiveUp(p, "create")
  /\ UNCHANGED <<version, fifoVars, signalVars>>

JoinThread(p) ==
  /\ Advance(p, "join")
  /\ place[ThreadOf[p]] = End(ThreadOf[p])
  /\ UNCHANGED <<version, fifoVars, signalVars>>

-----------------------------------------------------------------------------
(* The FIFO.                                                               *)

\* It exists now, or did before (EEXIST).
Mkfifo(a) ==
  /\ Advance(a, "mkfifo")
  /\ fifo' = TRUE
  /\ UNCHANGED <<version, ends, met, data, got, countVars, signalVars>>

\* Any other error: vdvd exits, bvn compares the function's address with 0.
MkfifoFails ==
  /\ ~fifo /\ version # "named_pipe"
  /\ IF version = "vdvd" THEN GiveUp("parent", "mkfifo") ELSE Advance("parent", "mkfifo")
  /\ UNCHANGED <<version, fifoVars, signalVars>>

\* open: without the FIFO the thread ends; otherwise it waits for the other
\* side, which it meets if that is in its open already.
Open(a) ==
  /\ fifo
  /\ Advance(a, "open")
  /\ ends' = ends \cup {a}
  /\ met' = IF Other[a] \in ends THEN {a, Other[a]} ELSE met
  /\ overlap' = (overlap \/ Other[a] \in met)
  /\ UNCHANGED <<version, fifo, data, got, written, printed, signalVars>>

OpenFails(a) ==
  /\ ~fifo
  /\ GiveUp(a, "open")
  /\ UNCHANGED <<version, fifoVars, signalVars>>

Opened(a) ==
  /\ a \in met
  /\ Advance(a, "opened")
  /\ UNCHANGED <<version, fifoVars, signalVars>>

\* Without a reader a write raises SIGPIPE, which ends the process.
Write(a) ==
  /\ IF Other[a] \in ends
       THEN /\ Advance(a, "write")
            /\ data' = data + 1 /\ written' = written + 1
            /\ UNCHANGED <<ends, killed>>
       ELSE /\ At(a, "write")
            /\ killed' = killed \cup {ProcessOf[a]}
            /\ ends' = ends \ {a}
            /\ UNCHANGED <<place, data, written>>
  /\ UNCHANGED <<version, fifo, met, got, printed, overlap, handling, waiting, heard>>

\* read returns what is there, in 2_related_pipe one message, or nothing once
\* no writer is left.  The consumer prints the first message in its buffer,
\* which is the one before if read has returned nothing.
Read(a) ==
  /\ data > 0 \/ {Other[a], "copy"} \cap ends = {}
  /\ got' = IF data > 0 THEN "message" ELSE "end"
  /\ IF version = "related_pipe" /\ data > 0
       THEN At(a, "read") /\ data' = data - 1 /\ UNCHANGED place
       ELSE Advance(a, "read") /\ data' = 0
  /\ printed' = IF version = "related_pipe" /\ data = 0 THEN printed ELSE printed + 1
  /\ UNCHANGED <<version, fifo, ends, met, written, overlap, signalVars>>

\* What is left in a FIFO that nobody has open is gone.
Close(a) ==
  /\ Advance(a, "close")
  /\ ends' = ends \ {a} /\ met' = met \ {a}
  /\ data' = IF ends' = {} THEN 0 ELSE data
  /\ UNCHANGED <<version, fifo, got, countVars, signalVars>>

CloseCopy(a) ==
  /\ Advance(a, "close_copy")
  /\ ends' = ends \ {"copy"}
  /\ UNCHANGED <<version, fifo, met, data, got, countVars, signalVars>>

\* fgets: the producer's user types a message.
Type ==
  /\ written < MaxMessages
  /\ Advance("parent", "type")
  /\ UNCHANGED <<version, fifoVars, signalVars>>

Unlink(p) ==
  /\ Advance(p, "unlink")
  /\ fifo' = FALSE
  /\ UNCHANGED <<version, ends, met, data, got, countVars, signalVars>>

-----------------------------------------------------------------------------
(* Signals.                                                                *)

Signal(p) ==
  /\ Advance(p, "signal")
  /\ handling' = handling \cup {p}
  /\ UNCHANGED <<version, fifoVars, waiting, heard, killed>>

\* SIGUSR1 to the other process.  One that has ended gets nothing: its pid
\* belongs to a zombie, or getppid returns another process.
Kill(a) ==
  /\ Advance(a, "kill")
  /\ LET p == Other[ProcessOf[a]] IN
     waiting' = IF Running(p) THEN waiting \cup {p} ELSE waiting
  /\ UNCHANGED <<version, fifoVars, handling, heard, killed>>

\* The child ends: SIGCHLD, which is ignored if the parent has no handler yet.
Exit(a) ==
  /\ Advance(a, "exit")
  /\ ends' = ends \ {a}
  /\ waiting' = IF "parent" \in handling THEN waiting \cup {"parent"} ELSE waiting
  /\ UNCHANGED <<version, fifo, met, data, got, countVars, handling, heard, killed>>

\* The handler prints, in 2_related_pipe it reaps the child; without one the
\* process ends and its ends are closed.
DeliverSignal(p) ==
  /\ p \in waiting
  /\ Running(p)
  /\ waiting' = waiting \ {p}
  /\ IF p \in handling
       THEN heard' = heard \cup {p} /\ UNCHANGED <<ends, data, killed>>
       ELSE /\ killed' = killed \cup {p}
            /\ ends' = ends \ {ThreadOf[p]}
            /\ data' = IF ends' = {} THEN 0 ELSE data
            /\ UNCHANGED heard
  /\ UNCHANGED <<version, place, fifo, met, got, countVars, handling>>

-----------------------------------------------------------------------------

Actor(a) ==
  \/ Open(a) \/ OpenFails(a) \/ Opened(a) \/ Write(a) \/ Read(a) \/ Close(a) \/ Kill(a)
  \/ a \in Processes /\ (CreateThread(a) \/ JoinThread(a) \/ Mkfifo(a) \/ Unlink(a) \/ Signal(a))
  \/ a = "parent" /\ Fork
  \/ a = "child" /\ (CloseCopy(a) \/ Exit(a))

FifoNext ==
  \/ \E a \in Actors : Actor(a)
  \/ \E p \in Processes : DeliverSignal(p) \/ CreateThreadFails(p)
  \/ ForkFails \/ MkfifoFails \/ Type

FifoSpec == FifoInit /\ [][FifoNext]_allVars

\* Every thread runs when it can, and pending signals are delivered.  The
\* producer's user need not type.
FifoFairness ==
  /\ \A a \in Actors : WF_allVars(Actor(a))
  /\ \A p \in Processes : WF_allVars(DeliverSignal(p))

FifoFairSpec == FifoSpec /\ FifoFairness

-----------------------------------------------------------------------------
(* Properties.                                                             *)

\* Every variable has its type, and no process returns while its thread still
\* has the FIFO open.
FifoTypeOK ==
  /\ version \in Versions
  /\ \A a \in Actors : place[a] \in 0..End(a)
  /\ fifo \in BOOLEAN /\ data \in Nat /\ written \in Nat /\ printed \in Nat
  /\ overlap \in BOOLEAN
  /\ ends \subseteq Actors \cup {"copy"} /\ met \subseteq Actors
  /\ \A a \in ends \ {"copy"} : Running(ProcessOf[a])
  /\ got \in {"nothing", "message", "end"}
  /\ \A S \in {handling, waiting, heard, killed} : S \subseteq Processes

\* Once the exercise's reader has the FIFO open it reads the message, not the
\* end of the FIFO, unless the other process's SIGUSR1 ends the child before
\* that.  The child of 2_related_pipe reads three messages and the end, and
\* its parent reaps it: the pipe keeps the child alive until the handler,
\* which is installed after the fork (63), is there.
MessageArrives ==
  /\ At("reader", "read") ~> got = "message" \/ "child" \in killed
  /\ (version = "related_pipe" /\ place["child"] > 0) ~> (printed = 3 /\ "parent" \in heard)

\* 3_named_pipe prints every message once and its producer survives, unless one
\* side opens the FIFO again before the other has closed it.  (Then a message
\* may be thrown away, read together with the next, or printed again, and a
\* write may raise SIGPIPE.)
OneByOne ==
  version = "named_pipe" /\ ~overlap => written = printed + data /\ killed = {}

\* "The FIFO must be created before it is used": so it is in vdvd, for both
\* opens, although both processes unlink it and either may be the first.
FifoThereInVdvd ==
  version = "vdvd" => \A a \in {"reader", "writer"} : At(a, "open") => fifo

Stranded(a) ==
  At(a, "opened") /\ a \notin met /\ ~Running(ProcessOf[Other[a]])

\* In the exercise both processes end, or one waits for ever in its open for a
\* process that has ended; no other two calls wait for each other.  The parent
\* does not end by a signal: SIGUSR1 finds its handler, and the child does not
\* die between the two opens and the write, where the parent would get SIGPIPE.
HangsInOpenOnly ==
  version \in {"bvn", "vdvd"} =>
  <>( \/ (\A p \in Processes : ~Running(p)) /\ "parent" \notin killed
      \/ \E a \in {"reader", "writer"} : Stranded(a) )

\* The exercise expects: the child sends SIGUSR1 back, the parent receives it
\* and prints so.
ParentHearsChild ==
  got = "message" ~> "parent" \in heard
=============================================================================
