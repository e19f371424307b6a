-------------------------- MODULE SensorServerProofs --------------------------
(***************************************************************************)
(* Safety of SensorServer for every set of clients, number of readings,    *)
(* table size, pipe capacity and set of unusual readings.                  *)
(*                                                                         *)
(* The pipe carries bare values.  What the child has read of the current   *)
(* record and what is in the pipe are one stream; the invariant says what  *)
(* is at each position of it, and which readings its complete records are. *)
(***************************************************************************)
EXTENDS SensorServer, SequenceTheorems, FiniteSetTheorems, WellFoundedInduction, TLAPS

-----------------------------------------------------------------------------
(* The stream.                                                             *)

\* The values of the current record in the child's hands.
InHand == IF child = "append" THEN 4 ELSE ValuesRead
StreamLen == InHand + Len(pipe)

\* Value r of record q of the stream, with its kind; record 0 is the child's.
Cell(q, r) ==
  IF 4*q + r <= InHand THEN <<Kinds[r], record[Kinds[r]]>> ELSE pipe[4*q + r - InHand]

\* The reading of record q, and whether the parent has written all of it.
Row(q) == Cell(q, 2)[2]
Complete(q) == 4*q + 4 <= StreamLen

\* The record in which the parent stops is the last; Offset of its values are
\* written.
Offset ==
  CASE parent = "write_TEMP" -> 1 [] parent = "write_TIME" -> 2 [] parent = "write_name" -> 3
    [] OTHER -> 0

-----------------------------------------------------------------------------
(* Where the readings of a client are.                                     *)

Busy == {"parse"} \cup WriteLabels

\* Readings of c the parent took off its socket, those it has in its buffer,
\* those it has passed on, and those in the file.
Taken(c) == sent[c] - Len(wire[c])
InParent(c) == IF parent \in Busy /\ buffer[1][1] = c THEN Len(buffer) ELSE 0
Passed(c) == Taken(c) - InParent(c)
Kept(c) == Len(files[c])

-----------------------------------------------------------------------------
(* The inductive invariant.                                                *)

Record == [ID : Table \cup {-1}, TEMP : Reading, TIME : Reading, filename : Reading]

\* Types of what TypeOK leaves out.
FilesType == head = <<>> /\ files \in [Clients -> Seq(Record)]

\* Sockets and buffer hold consecutive readings, the buffer the older ones.
WireInv ==
  /\ \A c \in Clients : \A j \in 1..Len(wire[c]) : wire[c][j] = <<c, Taken(c) + j>>
  /\ parent \in Busy =>
       /\ slot \in Table
       /\ buffer # <<>>
       /\ \A j \in 1..Len(buffer) :
            buffer[j] = <<buffer[1][1], Taken(buffer[1][1]) - Len(buffer) + j>>
  /\ parent \in WriteLabels => Len(buffer) = 1

\* Who has been started, who has ended, who holds the write end.
PhaseInv ==
  /\ parent \notin {"wait", "done", "failed", "killed"} => "parent" \in writers
  /\ "child" \in writers => child = "close"
  /\ child = "unborn" => parent \in {"start", "failed"}
  /\ parent = "start" => child = "unborn"
  /\ parent = "done" => ChildEnded
  /\ child = "exited" => pipe = <<>> /\ writers = {}
  /\ parent = "accept" /\ Listener \in readfds => backlog # <<>>

\* Each value of the stream is of the kind the child will take it for, and the
\* values of one record are of one reading.
CellsInv ==
  \A q \in Nat :
    /\ 4*q + 1 <= StreamLen => Cell(q, 1) \in {"ID"} \X Table
    /\ 4*q + 2 <= StreamLen => Cell(q, 2) \in {"TEMP"} \X Message
    /\ 4*q + 3 <= StreamLen => Cell(q, 3) = <<"TIME", Row(q)>>
    /\ 4*q + 4 <= StreamLen => Cell(q, 4) = <<"filename", Row(q)>>

\* The complete records are readings passed on and not yet in a file, each once,
\* each after the earlier ones of its client.
RowsInv ==
  /\ \A q \in Nat : Complete(q) => /\ Kept(Row(q)[1]) < Row(q)[2]
                                   /\ Row(q)[2] <= Passed(Row(q)[1])
  /\ \A p, q \in Nat : p < q /\ Complete(q) => Row(p) # Row(q)
  /\ \A q \in Nat : Complete(q) =>
       \A k \in 1..Readings : Kept(Row(q)[1]) < k /\ k < Row(q)[2] =>
         \E p \in Nat : p < q /\ Row(p) = <<Row(q)[1], k>>

\* Unless the parent ended abnormally, the last reading passed on is in the
\* stream or in the file.
PassedInv ==
  /\ \A c \in Clients : Kept(c) <= Passed(c)
  /\ parent \notin {"failed", "killed"} =>
       \A c \in Clients : Kept(c) < Passed(c) =>
         \E q \in Nat : Complete(q) /\ Row(q) = <<c, Passed(c)>>

\* A parent that was not killed stops between two records, or is inside the
\* record of the reading in its buffer.
WriterInv ==
  parent # "killed" =>
    \E r \in Nat : /\ StreamLen = 4*r + Offset
                   /\ Offset \in {2, 3} => Row(r) = buffer[1]

StreamInv == CellsInv /\ RowsInv /\ PassedInv /\ WriterInv

AllFaithful == \A c \in Clients : \A k \in 1..Len(files[c]) : Faithful(c, k)
OneSpoiled ==
  \E line \in Nat \X Nat :
    \A c \in Clients : \A k \in 1..Len(files[c]) : Faithful(c, k) \/ line = <<c, k>>

\* The end of the pipe came inside a record.
CutShort == parent = "killed" /\ pipe = <<>> /\ writers = {}

\* The files are whole; they may still be when the child completes a torn record
\* with old values, and then one line is not.
FilesInv ==
  \/ AllFaithful /\ child # "failed" /\ StreamInv
  \/ AllFaithful /\ child = "failed"
  \/ AllFaithful /\ CutShort /\ child \in {"read_TIME", "read_name", "append"}
  \/ OneSpoiled /\ CutShort /\ child \in {"read_ID", "exited"}

BaseInv == TypeOK /\ FilesType /\ WireInv /\ PhaseInv

IInv == BaseInv /\ FilesInv

\* An unusual value has been logged before it goes anywhere, and what is logged
\* was taken off a socket.
Logged(x) == x \in UnusualReadings => x \in unusual
LoggedInv ==
  /\ \A m \in unusual : m[2] <= Taken(m[1])
  /\ parent \in WriteLabels => Logged(buffer[1])
  /\ \A i \in 1..Len(pipe) : pipe[i][1] = "TEMP" => Logged(pipe[i][2])
  /\ Logged(record.TEMP)
  /\ \A c \in Clients : \A k \in 1..Len(files[c]) : Logged(files[c][k].TEMP)

\* A client waits in the backlog once, before its Connect line, and is then in
\* at most one slot, until its Disconnect line.
BacklogInv ==
  /\ \A i, j \in 1..Len(backlog) : backlog[i] = backlog[j] => i = j
  /\ \A i \in 1..Len(backlog) : conn[backlog[i]] # "idle" /\ supervisor[backlog[i]] = <<>>
  /\ \A c \in Clients : conn[c] = "idle" => supervisor[c] = <<>>
TableInv == TableMatchesSupervisor /\ BacklogInv

\* While there is room for every client, one that has connected is in the
\* backlog, then in the table, and its socket is empty once it is out of both.
ServedInv ==
  \A c \in Clients :
    /\ supervisor[c] = <<>> /\ conn[c] \in {"open", "closed", "lost"} =>
         \E i \in 1..Len(backlog) : backlog[i] = c
    /\ supervisor[c] = <<"Connect">> => \E i \in Table : client_socket[i] = c
    /\ supervisor[c] = <<"Connect", "Disconnect">> => wire[c] = <<>> /\ conn[c] = "closed"
    /\ conn[c] \in {"idle", "refused"} => wire[c] = <<>>

\* The first slot the round has not been to; a socket that select reported and
\* that is there or beyond still has something to read, or its end.
NextSlot == IF parent \in Busy THEN slot + 1 ELSE slot
Ready(c) == wire[c] # <<>> \/ conn[c] = "closed"
ReadyInv ==
  /\ parent = "accept" =>
       \A c \in Clients : c \in readfds => supervisor[c] = <<"Connect">> /\ Ready(c)
  /\ parent \in {"slots"} \cup Busy =>
       \A i \in Table : client_socket[i] \in readfds /\ i >= NextSlot => Ready(client_socket[i])

-----------------------------------------------------------------------------
(* Types and phases.                                                       *)

\* A nonempty set of natural numbers has a least element, which Least returns.
LEMMA LeastFound ==
  ASSUME NEW S \in SUBSET Nat, S # {}
  PROVE  Least(S) \in S /\ \A j \in S : Least(S) <= j
<1>1. \E i \in S : \A j \in S : <<j, i>> \notin OpToRel(<, Nat)
  BY WFMin, NatLessThanWellFounded
<1>2. \A i, j \in Nat : <<j, i>> \notin OpToRel(<, Nat) => i <= j
  BY DEF OpToRel
<1>3. \E i \in S : \A j \in S : i <= j
  BY <1>1, <1>2
<1> QED BY <1>3 DEF Least

\* The table index the next read is from is one of the table, and its entry is
\* a client.
LEMMA PendingClient ==
  ASSUME TypeOK, Pending # {}
  PROVE  /\ Least(Pending) \in Table
         /\ client_socket[Least(Pending)] \in Clients
         /\ client_socket[Least(Pending)] \in readfds
<1>1. Pending \in SUBSET Nat
  BY SizesAssumption DEF Pending, Table
<1>2. Least(Pending) \in Pending
  BY <1>1, LeastFound
<1>3. Free # Listener /\ Free \notin Clients
  BY ClientsAssumption DEF Free, Listener
<1> QED BY <1>2, <1>3 DEF Pending, TypeOK

\* Nothing is sent, passed on or kept before the program starts.
LEMMA InitBase == Init => BaseInv
<1> SUFFICES ASSUME Init PROVE BaseInv
  OBVIOUS
<1>1. TypeOK
  BY SizesAssumption, FaultsAssumption DEF Init, TypeOK, Table, Free, Reading, Junk
<1>2. FilesType /\ WireInv /\ PhaseInv
  BY DEF Init, FilesType, WireInv, PhaseInv, Busy, WriteLabels
<1> QED BY <1>1, <1>2 DEF BaseInv

\* The client's steps keep the types.
LEMMA ClientTypes ==
  ASSUME TypeOK, NEW c \in Clients, Client(c)
  PROVE  TypeOK'
<1> USE DEF TypeOK, netVars, parentVars, pipeVars, childVars, logVars
<1>1. CASE Connect(c)
  <2>1. Append(backlog, c) \in Seq(Clients)
    BY AppendProperties
  <2>2. backlog' \in Seq(Clients)
    BY <1>1, <2>1 DEF Connect
  <2>3. conn' \in [Clients -> {"idle", "open", "closed", "refused", "lost"}]
    BY <1>1 DEF Connect
  <2> QED BY <1>1, <2>2, <2>3 DEF Connect
<1>2. CASE Send(c)
  <2>1. CASE Ended
    BY <1>2, <2>1 DEF Send
  <2>2. CASE ~Ended
    <3>1. sent[c] + 1 \in 1..Readings /\ <<c, sent[c] + 1>> \in Message
      BY <1>2, SizesAssumption DEF Send, Message
    <3>2. Append(wire[c], <<c, sent[c] + 1>>) \in Seq(Message)
      BY <3>1, AppendProperties
    <3>3. sent' \in [Clients -> 0..Readings]
      <4>1. sent[c] + 1 \in 0..Readings
        BY <3>1
      <4> QED BY <1>2, <2>2, <4>1 DEF Send
    <3>4. wire' \in [Clients -> Seq(Message)]
      BY <1>2, <2>2, <3>2 DEF Send
    <3> QED BY <1>2, <2>2, <3>3, <3>4 DEF Send
  <2> QED BY <2>1, <2>2
<1>3. CASE Close(c)
  BY <1>3 DEF Close
<1> QED BY <1>1, <1>2, <1>3 DEF Client

\* The parent's steps keep the types.
LEMMA ParentTypes ==
  ASSUME BaseInv, Parent \/ StartupFails \/ LogFails \/ KillParent
  PROVE  TypeOK'
<1> USE DEF TypeOK, clientVars, netVars, parentVars, pipeVars, childVars, logVars, Goto,
        ParentEnds
<1>0. TypeOK
  BY DEF BaseInv
<1>1. CASE Startup \/ SelectTimesOut \/ NoConnection \/ ClosePipe \/ WaitChild
  BY <1>0, <1>1 DEF Startup, SelectTimesOut, NoConnection, ClosePipe, WaitChild
<1>7. CASE SlotsDone
  BY <1>0, <1>7, SizesAssumption DEF SlotsDone
<1>8. CASE Select
  <2>1. Readable \subseteq Clients \cup {Listener}
    BY DEF Readable
  <2> QED BY <1>0, <1>8, <2>1 DEF Select
<1>9. CASE StartupFails \/ LogFails \/ KillParent
  BY <1>0, <1>9 DEF StartupFails, LogFails, KillParent
<1>2. CASE handle_new_connection
  <2>1. backlog # <<>>
    BY <1>2 DEF handle_new_connection, BaseInv, PhaseInv
  <2>2. Head(backlog) \in Clients /\ Tail(backlog) \in Seq(Clients)
    BY <1>0, <2>1, HeadTailProperties
  <2>3. Append(supervisor[Head(backlog)], "Connect") \in Seq({"Connect", "Disconnect"})
    BY <1>0, <2>2, AppendProperties
  <2> QED BY <1>0, <1>2, <2>2, <2>3 DEF handle_new_connection
<1>3. CASE ReadEnd
  <2> DEFINE i == Least(Pending)
             c == client_socket[i]
  <2>1. i \in Table /\ c \in Clients
    BY <1>0, <1>3, PendingClient DEF ReadEnd
  <2>2. Append(supervisor[c], "Disconnect") \in Seq({"Connect", "Disconnect"})
    BY <1>0, <2>1, AppendProperties
  <2>3. i + 1 \in 0..MaxClients
    BY <2>1, SizesAssumption DEF Table
  <2> QED BY <1>0, <1>3, <2>1, <2>2, <2>3 DEF ReadEnd
<1>4. CASE ReadData
  <2> DEFINE i == Least(Pending)
             c == client_socket[i]
  <2>1. i \in Table /\ c \in Clients /\ i \in 0..MaxClients
    BY <1>0, <1>4, PendingClient, SizesAssumption DEF ReadData, Table
  <2>2. PICK k \in 1..Len(wire[c]) : /\ buffer' = SubSeq(wire[c], 1, k)
                                     /\ wire' = [wire EXCEPT ![c] = SubSeq(@, k + 1, Len(@))]
    BY <1>4 DEF ReadData
  <2>3. /\ SubSeq(wire[c], 1, k) \in Seq(Message)
        /\ SubSeq(wire[c], k + 1, Len(wire[c])) \in Seq(Message)
    BY <1>0, <2>1, <2>2, SubSeqProperties, LenProperties, ElementOfSeq
  <2> QED BY <1>0, <1>4, <2>1, <2>2, <2>3 DEF ReadData
<1>5. CASE parsePhrase
  BY <1>0, <1>5 DEF parsePhrase, WriteLabels
<1>6. CASE WriteRecord
  <2>1. /\ slot \in Table /\ buffer[1] \in Message
        /\ slot + 1 \in 0..MaxClients
    BY <1>0, <1>6, ElementOfSeq, SizesAssumption DEF WriteRecord, WriteValue, BaseInv, WireInv,
       Busy, WriteLabels, Table
  <2> DEFINE Values == ({"ID"} \X Table) \cup ({"TEMP", "TIME", "filename"} \X Message)
  <2>2. \/ pipe' = pipe
        \/ Len(pipe) < PipeCapacity /\ \E x \in Values : pipe' = Append(pipe, x)
    BY <1>6, <2>1 DEF WriteRecord, WriteValue
  <2>3. pipe' \in Seq(Values) /\ Len(pipe') <= PipeCapacity
    <3>1. CASE pipe' = pipe
      BY <1>0, <3>1
    <3>2. ASSUME NEW x \in Values, Len(pipe) < PipeCapacity, pipe' = Append(pipe, x)
          PROVE  pipe' \in Seq(Values) /\ Len(pipe') <= PipeCapacity
      <4>1. pipe \in Seq(Values)
        BY <1>0
      <4> HIDE DEF Values
      <4>2. Append(pipe, x) \in Seq(Values) /\ Len(Append(pipe, x)) = Len(pipe) + 1
        BY <4>1, <3>2, AppendProperties
      <4>3. Len(pipe) \in Nat
        BY <4>1
      <4> QED BY <3>2, <4>2, <4>3, SizesAssumption
    <3> QED BY <2>2, <3>1, <3>2
  <2>4. /\ parent' \in {"write_TEMP", "write_TIME", "write_name", "slots", "killed"}
        /\ slot' \in 0..MaxClients
        /\ writers' \subseteq {"parent", "child"}
        /\ UNCHANGED <<clientVars, netVars, client_socket, readfds, buffer, childVars, logVars>>
    BY <1>0, <1>6, <2>1 DEF WriteRecord, WriteValue
  <2> QED BY <1>0, <2>3, <2>4 DEF WriteLabels
<1> QED BY <1>1, <1>2, <1>3, <1>4, <1>5, <1>6, <1>7, <1>8, <1>9 DEF Parent, handle_client_data

\* What the child takes from the pipe is of the kind it takes it for.
LEMMA HeadKind ==
  ASSUME BaseInv, FilesInv, NEW r \in 1..4, pipe # <<>>, InHand = r - 1,
         child \in {"read_ID", "read_TEMP", "read_TIME", "read_name"}
  PROVE  /\ Head(pipe) = Cell(0, r) /\ r <= StreamLen
         /\ r = 1 => Head(pipe)[2] \in Table
         /\ r # 1 => Head(pipe)[2] \in Message
         /\ Head(pipe)[1] = Kinds[r]
<1>0. TypeOK /\ Len(pipe) \in Nat /\ Len(pipe) > 0
  BY DEF BaseInv, TypeOK
<1>1. StreamInv /\ r <= StreamLen
  BY <1>0 DEF FilesInv, CutShort, StreamLen
<1>2. Head(pipe) = Cell(0, r)
  BY <1>0 DEF Cell
<1>3. CASE r = 1
  BY <1>1, <1>2, <1>3 DEF StreamInv, CellsInv, Kinds
<1>4. CASE r # 1
  <2>1. 2 <= StreamLen => Cell(0, 2) \in {"TEMP"} \X Message
    BY <1>1 DEF StreamInv, CellsInv
  <2>2. /\ 3 <= StreamLen => Cell(0, 3) = <<"TIME", Row(0)>>
        /\ 4 <= StreamLen => Cell(0, 4) = <<"filename", Row(0)>>
    BY <1>1 DEF StreamInv, CellsInv
  <2>3. StreamLen \in Nat
    BY <1>0 DEF StreamLen
  <2> QED BY <1>1, <1>2, <1>4, <2>1, <2>2, <2>3 DEF Row, Kinds
<1> QED BY <1>1, <1>2, <1>3, <1>4

\* The child's steps keep the types.
LEMMA ChildTypes == IInv /\ Child => TypeOK' /\ FilesType'
<1> SUFFICES ASSUME IInv, Child PROVE TypeOK' /\ FilesType'
  OBVIOUS
<1> USE DEF clientVars, netVars, parentVars, pipeVars, logVars
<1>0. BaseInv /\ FilesInv /\ TypeOK /\ FilesType
  BY DEF IInv, BaseInv
<1>1. CASE ChildClosesWriteEnd
  BY <1>0, <1>1 DEF ChildClosesWriteEnd, TypeOK, FilesType
<1>2. CASE ReadRecord
  <2> DEFINE Values == ({"ID"} \X Table) \cup ({"TEMP", "TIME", "filename"} \X Message)
  <2>1. ASSUME pipe # <<>>, pipe' = Tail(pipe)
        PROVE  pipe' \in Seq(Values) /\ Len(pipe') <= PipeCapacity
    <3>1. pipe \in Seq(Values) /\ Len(pipe) \in Nat /\ Len(pipe) <= PipeCapacity
      BY <1>0 DEF TypeOK
    <3> HIDE DEF Values
    <3>2. Tail(pipe) \in Seq(Values) /\ Len(Tail(pipe)) = Len(pipe) - 1
      BY <2>1, <3>1, HeadTailProperties
    <3> QED BY <2>1, <3>1, <3>2, SizesAssumption
  <2>2. ASSUME pipe # <<>>
        PROVE  /\ child = "read_ID" => Head(pipe)[2] \in Table
               /\ child \in {"read_TEMP", "read_TIME", "read_name"} => Head(pipe)[2] \in Message
    BY <1>0, <2>2, HeadKind DEF InHand, ValuesRead
  <2>3. /\ pipe' \in Seq(Values) /\ Len(pipe') <= PipeCapacity
        /\ record' \in Record
        /\ child' \in {"read_TEMP", "read_TIME", "read_name", "append", "exited"}
        /\ UNCHANGED <<clientVars, netVars, parentVars, writers, head, files, logVars>>
    <3>1. CASE pipe # <<>>
      <4>1. pipe' = Tail(pipe)
        BY <1>2, <3>1 DEF ReadRecord, ReadValue
      <4>2. record' \in Record
        BY <1>0, <1>2, <2>2, <3>1 DEF ReadRecord, ReadValue, TypeOK, Record, Reading
      <4> HIDE DEF Values
      <4> QED BY <1>2, <2>1, <3>1, <4>1, <4>2 DEF ReadRecord, ReadValue
    <3>2. CASE pipe = <<>>
      BY <1>0, <1>2, <3>2 DEF ReadRecord, ReadValue, TypeOK, Record
    <3> QED BY <3>1, <3>2
  <2> QED BY <1>0, <2>3 DEF TypeOK, FilesType, Record
<1>3. CASE AppendRecord
  <2>1. <<record>> \o head = <<record>> /\ record \in Record
    BY <1>0 DEF FilesType, TypeOK, Record
  <2>2. CASE record.filename # Junk
    <3>1. record.filename[1] \in Clients
      BY <1>0, <2>2 DEF TypeOK, Reading, Message
    <3>2. files[record.filename[1]] \o <<record>> \in Seq(Record)
      BY <1>0, <2>1, <3>1, ConcatProperties DEF FilesType
    <3> QED BY <1>0, <1>3, <2>1, <2>2, <3>1, <3>2 DEF AppendRecord, clear_linked_list, TypeOK, FilesType
  <2>3. CASE record.filename = Junk
    BY <1>0, <1>3, <2>3 DEF AppendRecord, clear_linked_list, TypeOK, FilesType
  <2> QED BY <2>2, <2>3
<1>4. CASE AppendFails
  BY <1>0, <1>4 DEF AppendFails, TypeOK, FilesType
<1> QED BY <1>1, <1>2, <1>3, <1>4 DEF Child

\* Only the child touches the files.
LEMMA FilesTypeStep ==
  ASSUME FilesType, \/ (\E c \in Clients : Client(c)) \/ Parent \/ StartupFails \/ LogFails
                    \/ KillParent \/ Terminated \/ UNCHANGED vars
  PROVE  FilesType' /\ UNCHANGED <<record, files>>
BY DEF FilesType, childVars, parentVars, pipeVars, netVars, logVars, vars, Client, Connect, Send, Close,
   Parent, handle_client_data, Startup, Select, SelectTimesOut, NoConnection,
   handle_new_connection, ReadEnd, ReadData, SlotsDone, parsePhrase, WriteRecord, WriteValue,
   ClosePipe, WaitChild, StartupFails, LogFails, KillParent, Terminated

\* A send lengthens the wire by the reading that comes next.
LEMMA WireSend ==
  ASSUME BaseInv, NEW c \in Clients, Send(c)
  PROVE  WireInv' /\ \A x \in Clients : Taken(x)' = Taken(x)
<1>0. TypeOK /\ WireInv
  BY DEF BaseInv
<1>1. UNCHANGED <<parent, slot, buffer>>
  BY DEF Send, parentVars
<1>2. CASE Ended
  BY <1>0, <1>1, <1>2 DEF Send, WireInv, Taken
<1>3. CASE ~Ended
  <2> DEFINE m == <<c, sent[c] + 1>>
  <2>1. /\ sent' = [sent EXCEPT ![c] = @ + 1]
        /\ wire' = [wire EXCEPT ![c] = Append(@, m)]
        /\ sent[c] \in Nat /\ wire[c] \in Seq(Message) /\ m \in Message
    <3>1. sent[c] \in 0..Readings /\ sent[c] < Readings
      BY <1>0 DEF TypeOK, Send
    <3>2. m \in Message
      BY <3>1, SizesAssumption DEF Message
    <3> QED BY <1>0, <1>3, <3>1, <3>2 DEF Send, TypeOK
  <2>2. /\ Len(wire'[c]) = Len(wire[c]) + 1
        /\ \A j \in 1..Len(wire[c]) : wire'[c][j] = wire[c][j]
        /\ wire'[c][Len(wire[c]) + 1] = m
        /\ Len(wire[c]) \in Nat
    BY <1>0, <2>1, AppendProperties DEF TypeOK
  <2>3. \A x \in Clients \ {c} : wire'[x] = wire[x] /\ sent'[x] = sent[x]
    BY <1>0, <2>1 DEF TypeOK
  <2>4. \A x \in Clients : Taken(x)' = Taken(x)
    <3>1. Taken(c)' = Taken(c)
      BY <1>0, <2>1, <2>2 DEF Taken, TypeOK
    <3> QED BY <2>3, <3>1 DEF Taken
  <2>5. \A x \in Clients : \A j \in 1..Len(wire'[x]) : wire'[x][j] = <<x, Taken(x)' + j>>
    <3>1. \A j \in 1..Len(wire'[c]) : wire'[c][j] = <<c, Taken(c) + j>>
      BY <1>0, <2>1, <2>2 DEF WireInv, Taken
    <3> QED BY <1>0, <2>3, <2>4, <3>1 DEF WireInv
  <2>6. parent \in Busy => buffer[1][1] \in Clients
    BY <1>0, ElementOfSeq DEF TypeOK, WireInv, Message
  <2> QED BY <1>0, <1>1, <2>4, <2>5, <2>6 DEF WireInv
<1> QED BY <1>2, <1>3

\* A read takes the oldest readings off the wire, in order, into the buffer.
LEMMA WireRead ==
  ASSUME BaseInv, ReadData
  PROVE  WireInv' /\ \A x \in Clients : Passed(x)' = Passed(x) /\ Taken(x)' >= Taken(x)
<1>0. TypeOK /\ WireInv
  BY DEF BaseInv
<1>1. PICK c \in Clients :
        /\ c = client_socket[Least(Pending)]
        /\ parent = "slots" /\ parent' = "parse" /\ sent' = sent /\ slot' \in Table
  BY <1>0, PendingClient DEF ReadData, Goto, clientVars
<1>2. PICK k \in 1..Len(wire[c]) : /\ buffer' = SubSeq(wire[c], 1, k)
                                   /\ wire' = [wire EXCEPT ![c] = SubSeq(@, k + 1, Len(@))]
  BY <1>1 DEF ReadData
<1>3. wire[c] \in Seq(Message) /\ Len(wire[c]) \in Nat /\ sent[c] \in Nat
  BY <1>0, <1>1 DEF TypeOK
<1>4. /\ Len(buffer') = k
      /\ \A j \in 1..k : buffer'[j] = wire[c][j]
  BY <1>2, <1>3, SubSeqProperties, ElementOfSeq
<1>5. /\ Len(wire'[c]) = Len(wire[c]) - k
      /\ \A j \in 1..Len(wire'[c]) : wire'[c][j] = wire[c][k + j]
      /\ \A x \in Clients \ {c} : wire'[x] = wire[x]
  <2>1. \A i \in k + 1 .. Len(wire[c]) : wire[c][i] \in Message
    BY <1>2, <1>3, ElementOfSeq
  <2>2. /\ Len(SubSeq(wire[c], k + 1, Len(wire[c]))) = Len(wire[c]) - k
        /\ \A j \in 1..Len(wire[c]) - k :
             SubSeq(wire[c], k + 1, Len(wire[c]))[j] = wire[c][k + 1 + j - 1]
    BY <1>2, <1>3, <2>1, SubSeqProperties
  <2>3. \A j \in 1..Len(wire[c]) - k : wire[c][k + 1 + j - 1] = wire[c][k + j]
    BY <1>2, <1>3
  <2> QED BY <1>0, <1>1, <1>2, <2>2, <2>3 DEF TypeOK
<1>6. /\ Taken(c)' = Taken(c) + k
      /\ \A x \in Clients \ {c} : Taken(x)' = Taken(x)
      /\ Taken(c) \in Int
  <2>1. Len(wire'[c]) = Len(wire[c]) - k /\ sent'[c] = sent[c]
    BY <1>1, <1>5
  <2>2. Taken(c)' = sent'[c] - Len(wire'[c])
    BY DEF Taken
  <2>3. Taken(c)' = Taken(c) + k /\ Taken(c) \in Int
    BY <1>2, <1>3, <2>1, <2>2 DEF Taken
  <2>4. \A x \in Clients \ {c} : Taken(x)' = Taken(x)
    BY <1>1, <1>5 DEF Taken
  <2> QED BY <2>3, <2>4
<1>7. \A j \in 1..k : buffer'[j] = <<c, Taken(c) + j>>
  BY <1>0, <1>1, <1>2, <1>3, <1>4 DEF WireInv
<1>8. buffer'[1][1] = c /\ buffer' # <<>>
  <2>1. 1 \in 1..k
    BY <1>2
  <2> QED BY <1>2, <1>3, <1>4, <1>7, <2>1
<1>9. \A x \in Clients : \A j \in 1..Len(wire'[x]) : wire'[x][j] = <<x, Taken(x)' + j>>
  <2>1. \A j \in 1..Len(wire'[c]) : wire'[c][j] = <<c, Taken(c)' + j>>
    <3> SUFFICES ASSUME NEW j \in 1..Len(wire'[c]) PROVE wire'[c][j] = <<c, Taken(c)' + j>>
      OBVIOUS
    <3>1. k + j \in 1..Len(wire[c])
      BY <1>2, <1>3, <1>5
    <3>2. wire[c][k + j] = <<c, Taken(c) + (k + j)>>
      BY <1>0, <1>1, <3>1 DEF WireInv
    <3>3. Taken(c) + (k + j) = Taken(c)' + j
      BY <1>2, <1>5, <1>6
    <3> QED BY <1>5, <3>2, <3>3
  <2>2. \A x \in Clients \ {c} : \A j \in 1..Len(wire'[x]) : wire'[x][j] = <<x, Taken(x)' + j>>
    BY <1>0, <1>5, <1>6 DEF WireInv
  <2> QED BY <2>1, <2>2
<1>10. \A j \in 1..Len(buffer') : buffer'[j] = <<c, Taken(c)' - Len(buffer') + j>>
  BY <1>2, <1>4, <1>6, <1>7
<1>11. WireInv'
  BY <1>1, <1>8, <1>9, <1>10 DEF WireInv, Busy, WriteLabels
<1>12. \A x \in Clients : Passed(x)' = Passed(x)
  BY <1>1, <1>2, <1>4, <1>6, <1>8 DEF Passed, InParent, Busy, WriteLabels
<1>13. \A x \in Clients : Taken(x)' >= Taken(x)
  <2>1. \A x \in Clients : Taken(x) \in Int
    BY <1>0 DEF TypeOK, Taken
  <2> QED BY <1>2, <1>6, <2>1
<1> QED BY <1>11, <1>12, <1>13

\* Whoever holds what: unless a client sends or the parent reads, nothing moves
\* on a wire, and the buffer stays while it is in use.
LEMMA WireStill ==
  ASSUME BaseInv, UNCHANGED <<sent, wire>>,
         parent' \in Busy => parent \in Busy /\ UNCHANGED <<buffer, slot>>,
         parent' \in WriteLabels => Len(buffer) = 1
  PROVE  WireInv' /\ \A x \in Clients : Taken(x)' = Taken(x)
BY DEF BaseInv, WireInv, Taken, Busy

\* Every step keeps wires and buffer in order.
LEMMA WireStep == IInv /\ [Next]_vars => WireInv'
<1> SUFFICES ASSUME IInv, [Next]_vars PROVE WireInv'
  OBVIOUS
<1> USE DEF Busy, WriteLabels, clientVars, netVars, parentVars, pipeVars, childVars, logVars
<1>0. BaseInv /\ WireInv
  BY DEF IInv, BaseInv
<1>1. CASE \E c \in Clients : Client(c)
  <2>1. PICK c \in Clients : Client(c)
    BY <1>1
  <2>2. CASE Send(c)
    BY <1>0, <2>2, WireSend
  <2>3. CASE Connect(c) \/ Close(c)
    <3>1. UNCHANGED <<sent, wire, parent, buffer, slot>>
      BY <2>3 DEF Connect, Close
    <3> QED BY <1>0, <3>1 DEF WireInv, Taken
  <2> QED BY <2>1, <2>2, <2>3 DEF Client
<1>2. CASE ReadData
  BY <1>0, <1>2, WireRead
<1>3. CASE parsePhrase
  <2>1. UNCHANGED <<sent, wire, buffer, slot>> /\ parent = "parse"
    BY <1>3 DEF parsePhrase
  <2>2. parent' = "killed" \/ (parent' = "write_ID" /\ Len(buffer) = 1)
    BY <1>3 DEF parsePhrase, ParentEnds
  <2> QED BY <1>0, <2>1, <2>2, WireStill
<1>4. CASE WriteRecord
  <2>1. /\ UNCHANGED <<sent, wire, buffer>> /\ parent \in WriteLabels
        /\ parent' \in WriteLabels => slot' = slot
    BY <1>4 DEF WriteRecord, WriteValue, ParentEnds
  <2>2. Len(buffer) = 1
    BY <1>0, <2>1 DEF WireInv
  <2>3. parent' \in Busy => parent' \in WriteLabels
    BY <1>4 DEF WriteRecord, WriteValue, ParentEnds
  <2> QED BY <1>0, <2>1, <2>2, <2>3, WireStill
<1>5. CASE \/ Startup \/ Select \/ SelectTimesOut \/ NoConnection \/ handle_new_connection
           \/ ReadEnd \/ SlotsDone \/ ClosePipe \/ WaitChild \/ StartupFails \/ LogFails
           \/ KillParent
  <2>1. UNCHANGED <<sent, wire>> /\ parent' \notin Busy
    BY <1>5 DEF Startup, Select, SelectTimesOut, NoConnection, handle_new_connection,
       ReadEnd, SlotsDone, ClosePipe, WaitChild, StartupFails, LogFails, KillParent, ParentEnds,
       Goto
  <2> QED BY <1>0, <2>1, WireStill
<1>6. CASE Child \/ Terminated \/ UNCHANGED vars
  <2>1. UNCHANGED <<sent, wire, parent, buffer, slot>>
    BY <1>6 DEF Child, ChildClosesWriteEnd, ReadRecord, ReadValue, AppendRecord, AppendFails,
       Terminated, vars
  <2> QED BY <1>0, <2>1 DEF WireInv, Taken
<1> QED BY <1>1, <1>2, <1>3, <1>4, <1>5, <1>6 DEF Next, Parent, handle_client_data

\* Every step keeps the phases of parent and child.
LEMMA PhaseStep == IInv /\ [Next]_vars => PhaseInv'
<1> SUFFICES ASSUME IInv, [Next]_vars PROVE PhaseInv'
  OBVIOUS
<1> USE DEF clientVars, netVars, parentVars, pipeVars, childVars, logVars, Goto, ParentEnds,
        ChildEnded
<1>0. BaseInv /\ PhaseInv /\ TypeOK
  BY DEF IInv, BaseInv
<1>1. CASE \E c \in Clients : Client(c)
  <2>1. PICK c \in Clients : Client(c)
    BY <1>1
  <2>2. UNCHANGED <<parent, child, pipe, writers, readfds>>
    BY <2>1 DEF Client, Connect, Send, Close
  <2>3. backlog' = backlog \/ backlog' = Append(backlog, c)
    BY <2>1 DEF Client, Connect, Send, Close
  <2>4. backlog # <<>> => backlog' # <<>>
    BY <1>0, <2>3, AppendProperties DEF TypeOK
  <2> QED BY <1>0, <2>2, <2>4 DEF PhaseInv
<1>2. CASE Startup \/ StartupFails
  BY <1>0, <1>2 DEF Startup, StartupFails, PhaseInv
<1>3. CASE Select
  <2>1. Listener \in Readable => backlog # <<>>
    BY ClientsAssumption DEF Readable, Listener
  <2> QED BY <1>0, <1>3, <2>1 DEF Select, PhaseInv
<1>4. CASE \/ SelectTimesOut \/ NoConnection \/ handle_new_connection \/ ReadEnd \/ ReadData
           \/ SlotsDone \/ ClosePipe \/ WaitChild
  BY <1>0, <1>4 DEF SelectTimesOut, NoConnection, handle_new_connection, ReadEnd, ReadData,
     SlotsDone, ClosePipe, WaitChild, PhaseInv
<1>5. CASE parsePhrase \/ LogFails \/ KillParent
  BY <1>0, <1>5 DEF parsePhrase, LogFails, KillParent, Up, PhaseInv
<1>6. CASE WriteRecord
  BY <1>0, <1>6 DEF WriteRecord, WriteValue, PhaseInv
<1>7. CASE Child
  BY <1>0, <1>7 DEF Child, ChildClosesWriteEnd, ReadRecord, ReadValue, AppendRecord, AppendFails,
     PhaseInv, TypeOK
<1>8. CASE Terminated \/ UNCHANGED vars
  BY <1>0, <1>8 DEF Terminated, vars, PhaseInv
<1> QED BY <1>1, <1>2, <1>3, <1>4, <1>5, <1>6, <1>7, <1>8 DEF Next, Parent, handle_client_data

\* Types, wires and phases are kept by every step.
LEMMA BaseStep == IInv /\ [Next]_vars => BaseInv'
<1> SUFFICES ASSUME IInv, [Next]_vars PROVE BaseInv'
  OBVIOUS
<1>0. BaseInv /\ TypeOK /\ FilesType
  BY DEF IInv, BaseInv
<1>1. TypeOK'
  <2>1. CASE Terminated \/ UNCHANGED vars
    BY <1>0, <2>1 DEF TypeOK, Terminated, vars, clientVars, netVars, parentVars, pipeVars,
       childVars, logVars
  <2> QED BY <1>0, <2>1, ClientTypes, ParentTypes, ChildTypes DEF Next
<1>2. FilesType'
  BY <1>0, FilesTypeStep, ChildTypes DEF Next
<1> QED BY <1>1, <1>2, WireStep, PhaseStep DEF BaseInv

-----------------------------------------------------------------------------
(* What a step does to the stream.                                         *)

\* Kinds are read in the order of the record's values.
LEMMA KindOrder ==
  Kinds[1] = "ID" /\ Kinds[2] = "TEMP" /\ Kinds[3] = "TIME" /\ Kinds[4] = "filename"
BY DEF Kinds

\* A read moves a value from the pipe to the child's hand: the stream is the
\* same.
LEMMA StreamRead ==
  ASSUME TypeOK, NEW r \in 1..4, pipe # <<>>, pipe' = Tail(pipe), InHand = r - 1, InHand' = r,
         record' = [record EXCEPT ![Kinds[r]] = Head(pipe)[2]], Head(pipe)[1] = Kinds[r]
  PROVE  /\ StreamLen' = StreamLen
         /\ \A q \in Nat, s \in 1..4 : 4*q + s <= StreamLen => Cell(q, s)' = Cell(q, s)
<1> DEFINE Values == ({"ID"} \X Table) \cup ({"TEMP", "TIME", "filename"} \X Message)
<1>1. pipe \in Seq(Values) /\ Len(pipe) \in Nat /\ Len(pipe) > 0
  BY DEF TypeOK
<1>2. /\ Head(pipe) \in Values /\ Head(pipe) = pipe[1]
      /\ Len(pipe') = Len(pipe) - 1
      /\ \A i \in 1..Len(pipe) - 1 : pipe'[i] = pipe[i + 1]
  <2> HIDE DEF Values
  <2> QED BY <1>1, HeadTailProperties
<1>3. StreamLen' = StreamLen /\ StreamLen \in Nat
  BY <1>1, <1>2 DEF StreamLen
<1>4. ASSUME NEW q \in Nat, NEW s \in 1..4, 4*q + s <= StreamLen
      PROVE  Cell(q, s)' = Cell(q, s)
  <2>1. CASE 4*q + s < r
    <3>1. s # r /\ 4*q + s <= InHand /\ 4*q + s <= InHand'
      BY <2>1
    <3>2. Kinds[s] # Kinds[r] /\ Kinds[s] \in {"ID", "TEMP", "TIME", "filename"}
      BY <3>1, KindOrder
    <3>3. record'[Kinds[s]] = record[Kinds[s]]
      BY <3>2 DEF TypeOK
    <3> QED BY <3>1, <3>3 DEF Cell
  <2>2. CASE 4*q + s = r
    <3>1. q = 0 /\ s = r
      BY <2>2
    <3>2. record'[Kinds[r]] = Head(pipe)[2]
      BY KindOrder DEF TypeOK
    <3>3. Cell(q, s)' = <<Kinds[r], Head(pipe)[2]>>
      BY <2>2, <3>1, <3>2 DEF Cell
    <3>4. Cell(q, s) = Head(pipe)
      BY <1>2, <2>2 DEF Cell
    <3>5. Head(pipe) = <<Head(pipe)[1], Head(pipe)[2]>>
      BY <1>2
    <3> QED BY <3>3, <3>4, <3>5
  <2>3. CASE 4*q + s > r
    <3>1. /\ 4*q + s - r \in 1..Len(pipe) - 1 /\ 4*q + s - r + 1 = 4*q + s - InHand
          /\ ~(4*q + s <= InHand) /\ ~(4*q + s <= InHand')
      BY <1>1, <1>4, <2>3 DEF StreamLen
    <3> QED BY <1>2, <3>1 DEF Cell
  <2> QED BY <2>1, <2>2, <2>3
<1> QED BY <1>3, <1>4

\* A write makes the stream longer by one value.
LEMMA StreamWrite ==
  ASSUME TypeOK, NEW x, pipe' = Append(pipe, x), InHand' = InHand, record' = record
  PROVE  /\ StreamLen' = StreamLen + 1
         /\ \A q \in Nat, s \in 1..4 : 4*q + s <= StreamLen => Cell(q, s)' = Cell(q, s)
         /\ \A q \in Nat, s \in 1..4 : 4*q + s = StreamLen + 1 => Cell(q, s)' = x
<1>1. Len(pipe) \in Nat /\ InHand \in 0..4
  BY DEF TypeOK, InHand, ValuesRead
<1>2. /\ Len(pipe') = Len(pipe) + 1
      /\ \A i \in 1..Len(pipe) : pipe'[i] = pipe[i]
      /\ pipe'[Len(pipe) + 1] = x
  BY DEF TypeOK
<1>3. StreamLen' = StreamLen + 1
  BY <1>1, <1>2 DEF StreamLen
<1>4. ASSUME NEW q \in Nat, NEW s \in 1..4
      PROVE  /\ 4*q + s <= StreamLen => Cell(q, s)' = Cell(q, s)
             /\ 4*q + s = StreamLen + 1 => Cell(q, s)' = x
  <2>1. CASE 4*q + s <= InHand
    BY <1>1, <2>1 DEF Cell, StreamLen
  <2>2. CASE 4*q + s > InHand
    <3>1. /\ 4*q + s <= StreamLen => 4*q + s - InHand \in 1..Len(pipe)
          /\ 4*q + s = StreamLen + 1 => 4*q + s - InHand = Len(pipe) + 1
          /\ ~(4*q + s <= InHand)
      BY <1>1, <2>2 DEF StreamLen
    <3> QED BY <1>2, <3>1 DEF Cell
  <2> QED BY <1>1, <2>1, <2>2
<1> QED BY <1>3, <1>4

\* Writing the record to its file takes the first four values off the stream.
LEMMA StreamAppend ==
  ASSUME TypeOK, InHand = 4, InHand' = 0, pipe' = pipe
  PROVE  /\ StreamLen' = StreamLen - 4
         /\ \A q \in Nat, s \in 1..4 : Cell(q, s)' = Cell(q + 1, s)
<1>1. Len(pipe) \in Nat
  BY DEF TypeOK
<1>2. ASSUME NEW q \in Nat, NEW s \in 1..4 PROVE Cell(q, s)' = Cell(q + 1, s)
  <2>1. ~(4*q + s <= 0) /\ ~(4*(q + 1) + s <= 4) /\ 4*(q + 1) + s - 4 = 4*q + s - 0
    OBVIOUS
  <2> QED BY <2>1 DEF Cell
<1>3. StreamLen = 4 + Len(pipe) /\ StreamLen' = 0 + Len(pipe)
  BY DEF StreamLen
<1> QED BY <1>1, <1>2, <1>3

-----------------------------------------------------------------------------
(* Steps that keep the stream.                                             *)

\* The readings in hand, in the buffer and in the files are still counted if
\* none of the numbers moves.
LEMMA StreamSame ==
  ASSUME BaseInv, BaseInv', StreamInv, StreamLen' = StreamLen,
         \A q \in Nat, s \in 1..4 : 4*q + s <= StreamLen => Cell(q, s)' = Cell(q, s),
         files' = files, \A c \in Clients : Passed(c)' = Passed(c),
         Offset' = Offset, Offset \in {2, 3} => buffer' = buffer,
         parent = "killed" => parent' = "killed",
         parent = "failed" => parent' = "failed"
  PROVE  StreamInv'
<1>0. StreamLen \in Nat
  BY DEF BaseInv, TypeOK, StreamLen, InHand, ValuesRead
<1>1. \A q \in Nat : 4*q + 2 <= StreamLen => Row(q)' = Row(q)
  BY DEF Row
<1>2. \A q \in Nat : Complete(q)' <=> Complete(q)
  BY DEF Complete
<1>3. \A q \in Nat : Complete(q) => 4*q + 2 <= StreamLen /\ Row(q)[1] \in Clients
  BY <1>0 DEF Complete, StreamInv, CellsInv, Row, Message
<1>4. \A c \in Clients : Kept(c)' = Kept(c)
  BY DEF Kept
<1>5. CellsInv'
  <2> SUFFICES ASSUME NEW q \in Nat
               PROVE  /\ 4*q + 1 <= StreamLen => Cell(q, 1)' \in {"ID"} \X Table
                      /\ 4*q + 2 <= StreamLen => Cell(q, 2)' \in {"TEMP"} \X Message
                      /\ 4*q + 3 <= StreamLen => Cell(q, 3)' = <<"TIME", Row(q)'>>
                      /\ 4*q + 4 <= StreamLen => Cell(q, 4)' = <<"filename", Row(q)'>>
    BY DEF CellsInv
  <2> QED BY <1>0, <1>1 DEF StreamInv, CellsInv
<1>6. \A p, q \in Nat : p < q /\ Complete(q) => Complete(p)
  BY <1>0 DEF Complete
<1>7. RowsInv'
  BY <1>1, <1>2, <1>3, <1>4, <1>6 DEF StreamInv, RowsInv
<1>8. PassedInv'
  BY <1>1, <1>2, <1>3, <1>4 DEF StreamInv, PassedInv
<1>9. WriterInv'
  <2> SUFFICES ASSUME parent' # "killed"
               PROVE  \E r \in Nat : /\ StreamLen = 4*r + Offset
                                     /\ Offset \in {2, 3} => Row(r)' = buffer'[1]
    BY DEF WriterInv
  <2>1. PICK r \in Nat : /\ StreamLen = 4*r + Offset
                         /\ Offset \in {2, 3} => Row(r) = buffer[1]
    BY DEF StreamInv, WriterInv
  <2>2. Offset \in {2, 3} => Row(r)' = Row(r)
    BY <1>1, <2>1
  <2> QED BY <2>1, <2>2
<1> QED BY <1>5, <1>7, <1>8, <1>9 DEF StreamInv

\* A step that leaves pipe, record and files alone, and moves no reading across
\* the parent, leaves everything as it was.
LEMMA FilesIdle ==
  ASSUME BaseInv, BaseInv', FilesInv, UNCHANGED <<pipe, record, files>>,
         child' = child \/ (child \in {"unborn", "close"} /\ child' \in {"close", "read_ID"}),
         \A c \in Clients : Passed(c)' = Passed(c),
         Offset' = Offset, Offset \in {2, 3} => buffer' = buffer,
         parent = "killed" => parent' = "killed", parent = "failed" => parent' = "failed",
         writers' \subseteq writers \/ parent # "killed"
  PROVE  FilesInv' /\ (StreamInv => StreamInv')
<1>1. InHand' = InHand /\ (CutShort => CutShort')
  BY DEF InHand, ValuesRead, CutShort
<1>2. StreamLen' = StreamLen /\ \A q \in Nat, s \in 1..4 : Cell(q, s)' = Cell(q, s)
  BY <1>1 DEF StreamLen, Cell
<1>3. StreamInv => StreamInv'
  BY <1>2, StreamSame
<1>4. (AllFaithful => AllFaithful') /\ (OneSpoiled => OneSpoiled')
  BY DEF AllFaithful, OneSpoiled, Faithful
<1> QED BY <1>1, <1>3, <1>4 DEF FilesInv

\* The parent ends early: what it had passed on is still in the stream, and only
\* a killed one leaves a record unfinished.
LEMMA FilesParentEnds ==
  ASSUME BaseInv, BaseInv', FilesInv, UNCHANGED <<pipe, childVars, sent, wire, buffer>>,
         parent \notin {"killed", "failed"},
         parent' = "killed" \/ (parent' = "failed" /\ parent \notin WriteLabels)
  PROVE  FilesInv' /\ (StreamInv => StreamInv')
<1> USE DEF childVars
<1>1. InHand' = InHand /\ ~CutShort
  BY DEF InHand, ValuesRead, CutShort
<1>2. StreamLen' = StreamLen /\ \A q \in Nat, s \in 1..4 : Cell(q, s)' = Cell(q, s)
  BY <1>1 DEF StreamLen, Cell
<1>3. AllFaithful => AllFaithful'
  BY DEF AllFaithful, Faithful
<1>4. ASSUME StreamInv PROVE StreamInv'
  <2>0. StreamLen \in Nat
    BY DEF BaseInv, TypeOK, StreamLen, InHand, ValuesRead
  <2>1. \A q \in Nat : Row(q)' = Row(q) /\ (Complete(q)' <=> Complete(q))
    BY <1>2 DEF Row, Complete
  <2>2. \A c \in Clients : /\ Kept(c)' = Kept(c) /\ Passed(c) <= Passed(c)'
                           /\ Passed(c) \in Int /\ Passed(c)' \in Int /\ Kept(c) \in Int
    <3> SUFFICES ASSUME NEW c \in Clients
                 PROVE  /\ Kept(c)' = Kept(c) /\ Passed(c) <= Passed(c)'
                        /\ Passed(c) \in Int /\ Passed(c)' \in Int /\ Kept(c) \in Int
      OBVIOUS
    <3>1. Taken(c)' = Taken(c) /\ Taken(c) \in Int /\ Kept(c)' = Kept(c) /\ Kept(c) \in Int
      BY DEF Taken, Kept, BaseInv, TypeOK, FilesType
    <3>2. InParent(c) \in Nat
      BY DEF InParent, BaseInv, TypeOK
    <3>3. InParent(c)' = 0
      BY DEF InParent, Busy, WriteLabels
    <3> QED BY <3>1, <3>2, <3>3 DEF Passed
  <2>3. \A q \in Nat : Complete(q) => Row(q) \in Clients \X (1..Readings)
    BY <1>4, <2>0 DEF Complete, StreamInv, CellsInv, Row, Message
  <2>4. CellsInv'
    BY <1>2, <1>4, <2>1 DEF StreamInv, CellsInv
  <2>5. RowsInv'
    BY <1>4, <2>1, <2>2, <2>3 DEF StreamInv, RowsInv
  <2>6. PassedInv'
    BY <1>4, <2>2 DEF StreamInv, PassedInv
  <2>7. WriterInv'
    <3>1. CASE parent' = "killed"
      BY <3>1 DEF WriterInv
    <3>2. CASE parent' = "failed" /\ parent \notin WriteLabels
      <4>1. Offset = 0 /\ Offset' = 0
        BY <3>2 DEF Offset, WriteLabels
      <4> QED BY <1>2, <1>4, <4>1 DEF StreamInv, WriterInv
    <3> QED BY <3>1, <3>2
  <2> QED BY <2>4, <2>5, <2>6, <2>7 DEF StreamInv
<1> QED BY <1>1, <1>3, <1>4 DEF FilesInv

-----------------------------------------------------------------------------
(* The parent writes.                                                      *)

\* What a write finds: an unbroken stream that ends in the parent's record, and
\* in the buffer the reading that comes after those passed on.
LEMMA WriteFinds ==
  ASSUME BaseInv, FilesInv, parent \in WriteLabels, ~ChildEnded
  PROVE  /\ AllFaithful /\ StreamInv /\ StreamLen \in Nat
         /\ buffer[1] \in Message /\ slot \in Table
         /\ buffer[1] = <<buffer[1][1], Passed(buffer[1][1]) + 1>>
         /\ InParent(buffer[1][1]) = 1
<1>0. TypeOK /\ WireInv
  BY DEF BaseInv
<1>1. AllFaithful /\ StreamInv
  BY DEF FilesInv, CutShort, ChildEnded, WriteLabels
<1>2. StreamLen \in Nat
  BY <1>0 DEF TypeOK, StreamLen, InHand, ValuesRead
<1>3. Len(buffer) = 1 /\ slot \in Table /\ buffer \in Seq(Message)
  BY <1>0 DEF TypeOK, WireInv, Busy
<1>4. buffer[1] \in Message
  BY <1>3
<1>5. buffer[1] = <<buffer[1][1], Taken(buffer[1][1]) - 1 + 1>>
  BY <1>0, <1>3 DEF WireInv, Busy
<1>6. InParent(buffer[1][1]) = 1
  BY <1>3 DEF InParent, Busy
<1>7. buffer[1][1] \in Clients
  BY <1>4 DEF Message
<1>8. Taken(buffer[1][1]) \in Int
  BY <1>0, <1>7 DEF Taken, TypeOK
<1> QED BY <1>1, <1>2, <1>3, <1>4, <1>5, <1>6, <1>8 DEF Passed

\* The value written is the next of its record.
LEMMA WriteCells ==
  ASSUME BaseInv, StreamInv, NEW r \in Nat, NEW x, NEW o \in 0..3,
         StreamLen = 4*r + o, o \in {2, 3} => Row(r) = buffer[1],
         pipe' = Append(pipe, x), UNCHANGED childVars,
         buffer[1] \in Message, slot \in Table,
         x = CASE o = 0 -> <<"ID", slot>> [] o = 1 -> <<"TEMP", buffer[1]>>
               [] o = 2 -> <<"TIME", buffer[1]>> [] OTHER -> <<"filename", buffer[1]>>
  PROVE  /\ CellsInv'
         /\ StreamLen' = 4*r + o + 1
         /\ \A q \in Nat : 4*q + 2 <= StreamLen => Row(q)' = Row(q)
         /\ o # 0 => Row(r)' = buffer[1]
<1> USE DEF childVars
<1>0. TypeOK /\ StreamLen \in Nat
  BY DEF BaseInv, TypeOK, StreamLen, InHand, ValuesRead
<1>1. InHand' = InHand
  BY DEF InHand, ValuesRead
<1>2. /\ StreamLen' = StreamLen + 1
      /\ \A q \in Nat, s \in 1..4 : 4*q + s <= StreamLen => Cell(q, s)' = Cell(q, s)
      /\ \A q \in Nat, s \in 1..4 : 4*q + s = StreamLen + 1 => Cell(q, s)' = x
  BY <1>0, <1>1, StreamWrite
<1>3. StreamLen' = 4*r + o + 1 /\ Cell(r, o + 1)' = x
  <2>1. o + 1 \in 1..4 /\ 4*r + (o + 1) = StreamLen + 1 /\ StreamLen + 1 = 4*r + o + 1
    BY <1>0
  <2> QED BY <1>2, <2>1
<1>4. \A q \in Nat : 4*q + 2 <= StreamLen => Row(q)' = Row(q)
  BY <1>2 DEF Row
<1>5. o # 0 => Row(r)' = buffer[1]
  <2>1. CASE o = 1
    BY <1>3, <2>1 DEF Row
  <2>2. CASE o \in {2, 3}
    BY <1>0, <1>4, <2>2
  <2> QED BY <1>0, <2>1, <2>2
<1>6. ASSUME NEW q \in Nat, q # r
      PROVE  \A s \in 1..4 : 4*q + s <= StreamLen' => 4*q + s <= StreamLen
  BY <1>0, <1>3, <1>6
<1>7. ASSUME NEW q \in Nat
      PROVE  /\ 4*q + 1 <= StreamLen' => Cell(q, 1)' \in {"ID"} \X Table
             /\ 4*q + 2 <= StreamLen' => Cell(q, 2)' \in {"TEMP"} \X Message
             /\ 4*q + 3 <= StreamLen' => Cell(q, 3)' = <<"TIME", Row(q)'>>
             /\ 4*q + 4 <= StreamLen' => Cell(q, 4)' = <<"filename", Row(q)'>>
  <2>1. CASE q # r
    BY <1>0, <1>2, <1>4, <1>6, <2>1 DEF StreamInv, CellsInv
  <2>2. CASE q = r
    <3>1. CASE o = 0
      BY <1>0, <1>3, <2>2, <3>1
    <3>2. CASE o = 1
      BY <1>0, <1>2, <1>3, <2>2, <3>2 DEF StreamInv, CellsInv
    <3>3. CASE o = 2
      <4>1. Cell(r, 1) \in {"ID"} \X Table /\ Cell(r, 2) \in {"TEMP"} \X Message
        BY <1>0, <3>3 DEF StreamInv, CellsInv
      <4>2. Cell(r, 1)' = Cell(r, 1) /\ Cell(r, 2)' = Cell(r, 2) /\ ~(4*r + 4 <= StreamLen')
        BY <1>0, <1>2, <1>3, <3>3
      <4>3. Row(r)' = buffer[1] /\ Cell(r, 3)' = <<"TIME", buffer[1]>>
        BY <1>0, <1>3, <1>5, <3>3
      <4> QED BY <2>2, <4>1, <4>2, <4>3
    <3>4. CASE o = 3
      <4>1. /\ Cell(r, 1) \in {"ID"} \X Table /\ Cell(r, 2) \in {"TEMP"} \X Message
            /\ Cell(r, 3) = <<"TIME", Row(r)>>
        BY <1>0, <3>4 DEF StreamInv, CellsInv
      <4>2. Cell(r, 1)' = Cell(r, 1) /\ Cell(r, 2)' = Cell(r, 2) /\ Cell(r, 3)' = Cell(r, 3)
        BY <1>0, <1>2, <3>4
      <4>3. Row(r)' = Row(r) /\ Row(r)' = buffer[1] /\ Cell(r, 4)' = <<"filename", buffer[1]>>
        BY <1>0, <1>3, <1>4, <1>5, <3>4
      <4> QED BY <2>2, <4>1, <4>2, <4>3
    <3> QED BY <1>0, <3>1, <3>2, <3>3, <3>4
  <2> QED BY <2>1, <2>2
<1> QED BY <1>3, <1>4, <1>5, <1>7 DEF CellsInv

\* With the fourth value a record is complete: the parent has passed on one more
\* reading, the next of its client.
LEMMA WriteCompletes ==
  ASSUME BaseInv, StreamInv, NEW r \in Nat, parent = "write_name", parent' = "slots",
         StreamLen = 4*r + 3, StreamLen' = 4*r + 4,
         \A q \in Nat : 4*q + 2 <= StreamLen => Row(q)' = Row(q), Row(r)' = buffer[1],
         UNCHANGED <<files, sent, wire, buffer>>,
         buffer[1] \in Message, buffer[1] = <<buffer[1][1], Passed(buffer[1][1]) + 1>>,
         InParent(buffer[1][1]) = 1
  PROVE  RowsInv' /\ PassedInv'
<1>0. TypeOK /\ FilesType
  BY DEF BaseInv
<1>1. PICK c \in Clients : buffer[1][1] = c
  BY DEF Message
<1>2. \A x \in Clients : /\ Kept(x)' = Kept(x) /\ Kept(x) \in Int /\ Passed(x) \in Int
                         /\ Kept(x) <= Passed(x)
  <2>1. \A x \in Clients : Kept(x) <= Passed(x)
    BY DEF StreamInv, PassedInv
  <2>2. \A x \in Clients : Kept(x)' = Kept(x) /\ Kept(x) \in Int
    BY <1>0 DEF Kept, FilesType
  <2>3. \A x \in Clients : Taken(x) \in Int /\ InParent(x) \in Int
    BY <1>0 DEF Taken, InParent, TypeOK
  <2> QED BY <2>1, <2>2, <2>3 DEF Passed
<1>3. /\ Passed(c)' = Passed(c) + 1
      /\ \A x \in Clients \ {c} : Passed(x)' = Passed(x)
  <2>1. \A x \in Clients : InParent(x)' = 0 /\ Taken(x)' = Taken(x) /\ Taken(x) \in Int
    BY <1>0 DEF InParent, Busy, WriteLabels, Taken, TypeOK
  <2>2. \A x \in Clients \ {c} : InParent(x) = 0
    BY <1>1 DEF InParent
  <2> QED BY <1>1, <2>1, <2>2 DEF Passed
<1>4. Row(r)' = <<c, Passed(c) + 1>>
  BY <1>1
<1>5. /\ \A q \in Nat : Complete(q)' <=> Complete(q) \/ q = r
      /\ \A q \in Nat : Complete(q) => Row(q)' = Row(q) /\ Row(q) \in Clients \X (1..Readings)
      /\ \A q \in Nat : Complete(q) <=> q < r
  <2>1. \A q \in Nat : Complete(q)' <=> Complete(q) \/ q = r
    BY DEF Complete
  <2>2. \A q \in Nat : Complete(q) <=> q < r
    BY DEF Complete
  <2>3. \A q \in Nat : Complete(q) => 4*q + 2 <= StreamLen
    BY DEF Complete
  <2>4. \A q \in Nat : Complete(q) => Row(q) \in Clients \X (1..Readings)
    BY <2>3 DEF StreamInv, CellsInv, Row, Message
  <2> QED BY <2>1, <2>2, <2>3, <2>4
<1>6. RowsInv'
  <2>1. ASSUME NEW q \in Nat, Complete(q)'
        PROVE  Kept(Row(q)[1])' < Row(q)'[2] /\ Row(q)'[2] <= Passed(Row(q)[1])'
    <3>1. CASE q = r
      BY <1>2, <1>3, <1>4, <3>1
    <3>2. CASE Complete(q)
      <4>1. Kept(Row(q)[1]) < Row(q)[2] /\ Row(q)[2] <= Passed(Row(q)[1])
        BY <3>2 DEF StreamInv, RowsInv
      <4> QED BY <1>2, <1>3, <1>5, <3>2, <4>1
    <3> QED BY <1>5, <2>1, <3>1, <3>2
  <2>2. ASSUME NEW p \in Nat, NEW q \in Nat, p < q, Complete(q)'
        PROVE  Row(p)' # Row(q)'
    <3>1. CASE q = r
      <4>1. Complete(p)
        BY <1>5, <2>2, <3>1
      <4>2. Row(p)[2] <= Passed(Row(p)[1])
        BY <4>1 DEF StreamInv, RowsInv
      <4>3. Row(p) # <<c, Passed(c) + 1>>
        BY <1>2, <4>2
      <4> QED BY <1>4, <1>5, <3>1, <4>1, <4>3
    <3>2. CASE Complete(q)
      BY <1>5, <2>2, <3>2 DEF StreamInv, RowsInv
    <3> QED BY <1>5, <2>2, <3>1, <3>2
  <2>3. ASSUME NEW q \in Nat, Complete(q)', NEW k \in 1..Readings,
               Kept(Row(q)[1])' < k, k < Row(q)'[2]
        PROVE  \E p \in Nat : p < q /\ Row(p)' = <<Row(q)'[1], k>>
    <3>1. CASE q = r
      <4>1. Kept(c) < k /\ k <= Passed(c)
        BY <1>2, <1>4, <2>3, <3>1
      <4>2. PICK last \in Nat : Complete(last) /\ Row(last) = <<c, Passed(c)>>
        BY <1>2, <4>1 DEF StreamInv, PassedInv
      <4>3. CASE k = Passed(c)
        BY <1>4, <1>5, <3>1, <4>2, <4>3
      <4>4. CASE k < Passed(c)
        <5>1. PICK p \in Nat : p < last /\ Row(p) = <<c, k>>
          BY <4>1, <4>2, <4>4 DEF StreamInv, RowsInv
        <5>2. p < r /\ Row(p)' = Row(p)
          BY <1>5, <4>2, <5>1
        <5> QED BY <1>4, <3>1, <5>1, <5>2
      <4> QED BY <1>2, <4>1, <4>3, <4>4
    <3>2. CASE Complete(q)
      <4>1. Row(q)' = Row(q) /\ Row(q)[1] \in Clients
        BY <1>5, <3>2
      <4>2. PICK p \in Nat : p < q /\ Row(p) = <<Row(q)[1], k>>
        BY <1>2, <2>3, <3>2, <4>1 DEF StreamInv, RowsInv
      <4>3. Row(p)' = Row(p)
        BY <1>5, <3>2, <4>2
      <4> QED BY <4>1, <4>2, <4>3
    <3> QED BY <1>5, <2>3, <3>1, <3>2
  <2> QED BY <2>1, <2>2, <2>3 DEF RowsInv
<1>7. PassedInv'
  <2>1. \A x \in Clients : Kept(x)' <= Passed(x)'
    BY <1>2, <1>3
  <2>2. ASSUME NEW x \in Clients, Kept(x)' < Passed(x)'
        PROVE  \E q \in Nat : Complete(q)' /\ Row(q)' = <<x, Passed(x)'>>
    <3>1. CASE x = c
      BY <1>3, <1>4, <1>5, <3>1
    <3>2. CASE x # c
      <4>1. PICK q \in Nat : Complete(q) /\ Row(q) = <<x, Passed(x)>>
        BY <1>2, <1>3, <2>2, <3>2 DEF StreamInv, PassedInv
      <4> QED BY <1>3, <1>5, <3>2, <4>1
    <3> QED BY <3>1, <3>2
  <2> QED BY <2>1, <2>2 DEF PassedInv
<1> QED BY <1>6, <1>7

\* Each of the four writes keeps the stream in order.
LEMMA FilesWrite ==
  ASSUME BaseInv, FilesInv, WriteRecord, ~ChildEnded
  PROVE  FilesInv' /\ StreamInv'
<1> USE DEF clientVars, netVars, childVars, logVars
<1>0. /\ parent \in WriteLabels
      /\ UNCHANGED <<sent, wire, buffer, child, record, head, files>>
  BY DEF WriteRecord, WriteValue, WriteLabels
<1>1. /\ AllFaithful /\ StreamInv /\ StreamLen \in Nat /\ buffer[1] \in Message /\ slot \in Table
      /\ buffer[1] = <<buffer[1][1], Passed(buffer[1][1]) + 1>>
      /\ InParent(buffer[1][1]) = 1
  BY <1>0, WriteFinds
<1>2. PICK r \in Nat : StreamLen = 4*r + Offset /\ (Offset \in {2, 3} => Row(r) = buffer[1])
  BY <1>0, <1>1 DEF StreamInv, WriterInv, WriteLabels
<1>3. PICK o \in 0..3 : o = Offset
  BY DEF Offset
<1> DEFINE x == CASE o = 0 -> <<"ID", slot>> [] o = 1 -> <<"TEMP", buffer[1]>>
                  [] o = 2 -> <<"TIME", buffer[1]>> [] OTHER -> <<"filename", buffer[1]>>
<1>4. /\ pipe' = Append(pipe, x)
      /\ o = 3 => parent = "write_name" /\ parent' = "slots"
      /\ o # 3 => parent' \in WriteLabels /\ Offset' = o + 1
  <2>1. CASE WriteValue("write_ID", "write_TEMP", "ID", slot)
    <3>1. o = 0 /\ Offset' = 1 /\ parent' = "write_TEMP" /\ pipe' = Append(pipe, <<"ID", slot>>)
      BY <1>3, <2>1 DEF WriteValue, Offset
    <3> QED BY <3>1 DEF WriteLabels
  <2>2. CASE WriteValue("write_TEMP", "write_TIME", "TEMP", buffer[1])
    <3>1. /\ o = 1 /\ Offset' = 2 /\ parent' = "write_TIME"
          /\ pipe' = Append(pipe, <<"TEMP", buffer[1]>>)
      BY <1>3, <2>2 DEF WriteValue, Offset
    <3> QED BY <3>1 DEF WriteLabels
  <2>3. CASE WriteValue("write_TIME", "write_name", "TIME", buffer[1])
    <3>1. /\ o = 2 /\ Offset' = 3 /\ parent' = "write_name"
          /\ pipe' = Append(pipe, <<"TIME", buffer[1]>>)
      BY <1>3, <2>3 DEF WriteValue, Offset
    <3> QED BY <3>1 DEF WriteLabels
  <2>4. CASE WriteValue("write_name", "slots", "filename", buffer[1])
    <3>1. /\ o = 3 /\ parent = "write_name" /\ parent' = "slots"
          /\ pipe' = Append(pipe, <<"filename", buffer[1]>>)
      BY <1>3, <2>4 DEF WriteValue, Offset
    <3> QED BY <3>1
  <2> QED BY <2>1, <2>2, <2>3, <2>4 DEF WriteRecord
<1>5. UNCHANGED childVars
  BY <1>0
<1> HIDE DEF x
<1>6. /\ CellsInv' /\ StreamLen' = 4*r + o + 1
      /\ \A q \in Nat : 4*q + 2 <= StreamLen => Row(q)' = Row(q)
      /\ o # 0 => Row(r)' = buffer[1]
  <2>1. /\ StreamLen = 4*r + o /\ (o \in {2, 3} => Row(r) = buffer[1])
        /\ x = CASE o = 0 -> <<"ID", slot>> [] o = 1 -> <<"TEMP", buffer[1]>>
                 [] o = 2 -> <<"TIME", buffer[1]>> [] OTHER -> <<"filename", buffer[1]>>
    BY <1>2, <1>3 DEF x
  <2> QED BY <1>1, <1>4, <1>5, <2>1, WriteCells
<1>7. RowsInv' /\ PassedInv' /\ WriterInv'
  <2>1. CASE o = 3
    <3>1. RowsInv' /\ PassedInv'
      BY <1>0, <1>1, <1>2, <1>3, <1>4, <1>6, <2>1, WriteCompletes
    <3>2. Offset' = 0 /\ StreamLen' = 4*(r + 1) + 0 /\ r + 1 \in Nat
      BY <1>4, <1>6, <2>1 DEF Offset
    <3> QED BY <3>1, <3>2 DEF WriterInv
  <2>2. CASE o # 3
    <3>1. parent' \in WriteLabels /\ Offset' = o + 1 /\ o \in 0..2
      BY <1>4, <2>2
    <3>2. \A c \in Clients : Kept(c)' = Kept(c) /\ Passed(c)' = Passed(c)
      BY <1>0, <3>1 DEF Kept, Passed, Taken, InParent, Busy
    <3>3. /\ \A q \in Nat : Complete(q)' <=> Complete(q)
          /\ \A q \in Nat : Complete(q) <=> q < r
          /\ \A q \in Nat : Complete(q) => 4*q + 2 <= StreamLen
      BY <1>1, <1>2, <1>3, <1>6, <3>1 DEF Complete
    <3>4. \A q \in Nat : Complete(q) => Row(q)' = Row(q) /\ Row(q) \in Clients \X (1..Readings)
      BY <1>1, <1>6, <3>3 DEF StreamInv, CellsInv, Row, Message
    <3>5. RowsInv'
      BY <1>1, <3>2, <3>3, <3>4 DEF StreamInv, RowsInv
    <3>6. PassedInv'
      <4>1. parent \notin {"failed", "killed"}
        BY <1>0 DEF WriteLabels
      <4> QED BY <1>1, <3>2, <3>3, <3>4, <4>1 DEF StreamInv, PassedInv
    <3>7. WriterInv'
      <4>1. StreamLen' = 4*r + Offset'
        BY <1>6, <3>1
      <4> QED BY <1>0, <1>6, <3>1, <4>1 DEF WriterInv
    <3> QED BY <3>5, <3>6, <3>7
  <2> QED BY <2>1, <2>2
<1>8. AllFaithful' /\ child' # "failed"
  BY <1>0, <1>1 DEF AllFaithful, Faithful, ChildEnded
<1> QED BY <1>6, <1>7, <1>8 DEF FilesInv, StreamInv

-----------------------------------------------------------------------------
(* The child reads and records.                                            *)

\* A read keeps the stream; the end of the pipe is met between two records, or
\* in the record a killed parent left unfinished.
LEMMA FilesRead ==
  ASSUME BaseInv, BaseInv', FilesInv, ReadRecord
  PROVE  FilesInv' /\ (StreamInv /\ StreamLen >= 4 => StreamInv')
<1> USE DEF clientVars, netVars, parentVars, logVars
<1>0. /\ child \in {"read_ID", "read_TEMP", "read_TIME", "read_name"}
      /\ UNCHANGED <<sent, wire, parent, buffer, writers, files>>
  BY DEF ReadRecord, ReadValue
<1>1. /\ \A c \in Clients : Passed(c)' = Passed(c)
      /\ Offset' = Offset
  BY <1>0 DEF Passed, Taken, InParent, Offset
<1>2. (AllFaithful => AllFaithful') /\ (OneSpoiled => OneSpoiled')
  BY <1>0 DEF AllFaithful, OneSpoiled, Faithful
<1>3. CASE pipe # <<>>
  <2>1. AllFaithful /\ StreamInv
    BY <1>0, <1>3 DEF FilesInv, CutShort
  <2>2. PICK r \in 1..4 : /\ InHand = r - 1 /\ InHand' = r
                          /\ record' = [record EXCEPT ![Kinds[r]] = Head(pipe)[2]]
    BY <1>3, KindOrder DEF ReadRecord, ReadValue, InHand, ValuesRead
  <2>3. pipe' = Tail(pipe) /\ child' # "failed"
    BY <1>3 DEF ReadRecord, ReadValue
  <2>4. Head(pipe)[1] = Kinds[r]
    BY <1>0, <1>3, <2>2, HeadKind
  <2>5. /\ StreamLen' = StreamLen
        /\ \A q \in Nat, s \in 1..4 : 4*q + s <= StreamLen => Cell(q, s)' = Cell(q, s)
    BY <1>3, <2>2, <2>3, <2>4, StreamRead DEF BaseInv
  <2>6. StreamInv'
    BY <1>0, <1>1, <2>1, <2>5, StreamSame
  <2> QED BY <1>2, <2>1, <2>3, <2>6 DEF FilesInv
<1>4. CASE pipe = <<>>
  <2>1. /\ writers = {} /\ UNCHANGED <<record, pipe>>
        /\ child' = CASE child = "read_ID" -> "exited" [] child = "read_TEMP" -> "read_TIME"
                      [] child = "read_TIME" -> "read_name" [] OTHER -> "append"
    BY <1>0, <1>4 DEF ReadRecord, ReadValue
  <2>4. ~(StreamLen >= 4)
    BY <1>0, <1>4 DEF StreamLen, InHand, ValuesRead
  <2>2. CASE child = "read_ID"
    <3>1. InHand' = InHand /\ child' = "exited"
      BY <2>1, <2>2 DEF InHand, ValuesRead
    <3>2. StreamLen' = StreamLen /\ \A q \in Nat, s \in 1..4 : Cell(q, s)' = Cell(q, s)
      BY <2>1, <3>1 DEF StreamLen, Cell
    <3>3. StreamInv => StreamInv'
      BY <1>0, <1>1, <3>2, StreamSame
    <3> QED BY <1>0, <1>2, <2>1, <2>2, <2>4, <3>1, <3>3 DEF FilesInv, CutShort
  <2>3. CASE child # "read_ID"
    <3>1. AllFaithful /\ child' \in {"read_TIME", "read_name", "append"}
      BY <1>0, <2>1, <2>3 DEF FilesInv
    <3>2. parent = "killed"
      <4> SUFFICES ASSUME parent # "killed" PROVE FALSE
        OBVIOUS
      <4>1. StreamLen \in 1..3
        BY <1>0, <1>4, <2>3 DEF StreamLen, InHand, ValuesRead
      <4>2. Offset = 0
        BY <2>1 DEF BaseInv, PhaseInv, Offset
      <4>3. StreamInv
        BY <1>0, <2>3 DEF FilesInv, CutShort
      <4>4. PICK r \in Nat : StreamLen = 4*r + 0
        BY <4>2, <4>3 DEF StreamInv, WriterInv
      <4> QED BY <4>1, <4>4
    <3>3. CutShort'
      BY <1>0, <1>4, <2>1, <3>2 DEF CutShort
    <3> QED BY <1>2, <2>4, <3>1, <3>3 DEF FilesInv
  <2> QED BY <2>2, <2>3
<1> QED BY <1>3, <1>4

\* The record in the child's hand is the reading that comes next in its file,
\* and the stream goes on with the next record.
LEMMA AppendStream ==
  ASSUME BaseInv, StreamInv, AllFaithful, AppendRecord
  PROVE  StreamInv' /\ AllFaithful'
<1> USE DEF clientVars, netVars, parentVars, pipeVars, logVars
<1>0. TypeOK /\ FilesType /\ StreamLen \in Nat
  BY DEF BaseInv, TypeOK, StreamLen, InHand, ValuesRead
<1>1. /\ InHand = 4 /\ InHand' = 0
      /\ UNCHANGED <<sent, wire, parent, buffer, pipe, record>>
  BY DEF AppendRecord, InHand, ValuesRead
<1>2. /\ StreamLen' = StreamLen - 4 /\ StreamLen' \in Nat
      /\ \A q \in Nat, s \in 1..4 : Cell(q, s)' = Cell(q + 1, s)
  <2>1. StreamLen' \in Nat
    BY <1>0, <1>1 DEF TypeOK, StreamLen
  <2> QED BY <1>0, <1>1, <2>1, StreamAppend
<1>2a. StreamLen' = StreamLen - 4 /\ StreamLen' \in Nat /\ StreamLen \in Nat
  BY <1>0, <1>2
<1>3. /\ \A q \in Nat : Row(q)' = Row(q + 1)
      /\ \A q \in Nat : Complete(q)' <=> Complete(q + 1)
  <2>1. \A q \in Nat : Row(q)' = Row(q + 1)
    BY <1>2 DEF Row
  <2>2. \A q \in Nat : Complete(q)' <=> Complete(q + 1)
    BY <1>2a DEF Complete
  <2> QED BY <2>1, <2>2
<1>4. Complete(0) /\ Row(0) \in Message
  <2>1. Complete(0) /\ 4*0 + 2 <= StreamLen
    BY <1>2a DEF Complete
  <2> QED BY <2>1 DEF StreamInv, CellsInv, Row
<1>5. record.TEMP = Row(0) /\ record.TIME = Row(0) /\ record.filename = Row(0)
  <2>1. /\ Cell(0, 2) = <<"TEMP", record.TEMP>> /\ Cell(0, 3) = <<"TIME", record.TIME>>
        /\ Cell(0, 4) = <<"filename", record.filename>>
    BY <1>1, KindOrder DEF Cell
  <2>2. 4*0 + 3 <= StreamLen /\ 4*0 + 4 <= StreamLen
    BY <1>2a
  <2>3. Cell(0, 3) = <<"TIME", Row(0)>> /\ Cell(0, 4) = <<"filename", Row(0)>>
    BY <2>2 DEF StreamInv, CellsInv
  <2> QED BY <2>1, <2>3 DEF Row
<1>6. PICK c \in Clients, k \in 1..Readings : Row(0) = <<c, k>>
  BY <1>4 DEF Message
<1>7. \A x \in Clients : /\ Kept(x) \in Nat /\ Passed(x) \in Int /\ Kept(x) <= Passed(x)
                         /\ Passed(x)' = Passed(x)
  <2>1. \A x \in Clients : Kept(x) \in Nat /\ Kept(x) <= Passed(x)
    BY <1>0 DEF Kept, FilesType, StreamInv, PassedInv
  <2>2. \A x \in Clients : Passed(x) \in Int
    BY <1>0 DEF Passed, Taken, InParent, TypeOK
  <2>3. \A x \in Clients : Passed(x)' = Passed(x)
    BY <1>1 DEF Passed, Taken, InParent
  <2> QED BY <2>1, <2>2, <2>3
<1>8. k = Kept(c) + 1
  <2>1. Kept(c) < k
    BY <1>4, <1>6 DEF StreamInv, RowsInv
  <2>2. ASSUME Kept(c) + 1 < k PROVE FALSE
    <3>1. Kept(c) + 1 \in 1..Readings
      BY <1>7, <2>2, SizesAssumption
    <3>2. \E p \in Nat : p < 0 /\ Row(p) = <<Row(0)[1], Kept(c) + 1>>
      BY <1>4, <1>6, <1>7, <2>2, <3>1 DEF StreamInv, RowsInv
    <3> QED BY <3>2
  <2> QED BY <1>7, <2>1, <2>2
<1>9. files' = [files EXCEPT ![c] = @ \o <<record>>] /\ record \in Record
  <2>1. <<record>> \o head = <<record>> /\ record \in Record
    BY <1>0 DEF FilesType, TypeOK, Record
  <2>2. record.filename # Junk /\ record.filename[1] = c
    BY <1>5, <1>6 DEF Junk
  <2> QED BY <2>1, <2>2 DEF AppendRecord
<1>10. /\ Len(files'[c]) = Kept(c) + 1
       /\ \A j \in 1..Kept(c) : files'[c][j] = files[c][j]
       /\ files'[c][Kept(c) + 1] = record
       /\ \A x \in Clients \ {c} : files'[x] = files[x]
  <2>1. files[c] \in Seq(Record) /\ <<record>> \in Seq(Record)
    BY <1>0, <1>9 DEF FilesType
  <2>2. /\ Len(files[c] \o <<record>>) = Len(files[c]) + 1
        /\ \A i \in 1..Len(files[c]) + 1 : (files[c] \o <<record>>)[i] =
             IF i <= Len(files[c]) THEN files[c][i] ELSE <<record>>[i - Len(files[c])]
    BY <2>1, ConcatProperties
  <2>3. files'[c] = files[c] \o <<record>> /\ \A x \in Clients \ {c} : files'[x] = files[x]
    BY <1>0, <1>9 DEF FilesType
  <2>4. <<record>>[Kept(c) + 1 - Kept(c)] = record
    BY <1>7
  <2> QED BY <1>7, <2>2, <2>3, <2>4 DEF Kept
<1>11. /\ Kept(c)' = Kept(c) + 1
       /\ \A x \in Clients \ {c} : Kept(x)' = Kept(x)
  BY <1>10 DEF Kept
<1>12. AllFaithful'
  <2>1. \A x \in Clients \ {c} : \A j \in 1..Len(files'[x]) : Faithful(x, j)'
    BY <1>10 DEF AllFaithful, Faithful
  <2>2. \A j \in 1..Kept(c) : Faithful(c, j)'
    BY <1>10 DEF AllFaithful, Faithful, Kept
  <2>3. Faithful(c, k)'
    BY <1>5, <1>6, <1>8, <1>10 DEF Faithful
  <2> QED BY <1>7, <1>8, <1>10, <2>1, <2>2, <2>3 DEF AllFaithful
<1>13. CellsInv'
  <2> SUFFICES ASSUME NEW q \in Nat
               PROVE  /\ 4*q + 1 <= StreamLen' => Cell(q, 1)' \in {"ID"} \X Table
                      /\ 4*q + 2 <= StreamLen' => Cell(q, 2)' \in {"TEMP"} \X Message
                      /\ 4*q + 3 <= StreamLen' => Cell(q, 3)' = <<"TIME", Row(q)'>>
                      /\ 4*q + 4 <= StreamLen' => Cell(q, 4)' = <<"filename", Row(q)'>>
    BY DEF CellsInv
  <2>1. \A s \in 1..4 : 4*q + s <= StreamLen' => 4*(q + 1) + s <= StreamLen
    BY <1>2a
  <2>2. /\ 4*(q + 1) + 1 <= StreamLen => Cell(q + 1, 1) \in {"ID"} \X Table
        /\ 4*(q + 1) + 2 <= StreamLen => Cell(q + 1, 2) \in {"TEMP"} \X Message
        /\ 4*(q + 1) + 3 <= StreamLen => Cell(q + 1, 3) = <<"TIME", Row(q + 1)>>
        /\ 4*(q + 1) + 4 <= StreamLen => Cell(q + 1, 4) = <<"filename", Row(q + 1)>>
    BY DEF StreamInv, CellsInv
  <2> QED BY <1>2, <1>3, <2>1, <2>2
<1>14. \A q \in Nat : Complete(q) => Row(q) \in Clients \X (1..Readings)
  BY <1>0 DEF Complete, StreamInv, CellsInv, Row, Message
<1>15. RowsInv'
  <2>1. ASSUME NEW q \in Nat, Complete(q)'
        PROVE  Kept(Row(q)[1])' < Row(q)'[2] /\ Row(q)'[2] <= Passed(Row(q)[1])'
    <3>1. Complete(q + 1) /\ Row(q)' = Row(q + 1) /\ Row(q + 1) \in Clients \X (1..Readings)
      BY <1>3, <1>14, <2>1
    <3>2. Kept(Row(q + 1)[1]) < Row(q + 1)[2] /\ Row(q + 1)[2] <= Passed(Row(q + 1)[1])
      BY <3>1 DEF StreamInv, RowsInv
    <3>3. Row(q + 1) # Row(0)
      BY <3>1 DEF StreamInv, RowsInv
    <3>4. Row(q + 1)[1] = c => Row(q + 1)[2] > Kept(c) + 1
      BY <1>6, <1>7, <1>8, <3>1, <3>2, <3>3
    <3> QED BY <1>7, <1>11, <3>1, <3>2, <3>4
  <2>2. ASSUME NEW p \in Nat, NEW q \in Nat, p < q, Complete(q)'
        PROVE  Row(p)' # Row(q)'
    <3>1. p + 1 < q + 1 /\ Complete(q + 1) /\ p + 1 \in Nat /\ q + 1 \in Nat
      BY <1>3, <2>2
    <3>2. Row(p + 1) # Row(q + 1)
      BY <3>1 DEF StreamInv, RowsInv
    <3> QED BY <1>3, <3>2
  <2>3. ASSUME NEW q \in Nat, Complete(q)', NEW j \in 1..Readings,
               Kept(Row(q)[1])' < j, j < Row(q)'[2]
        PROVE  \E p \in Nat : p < q /\ Row(p)' = <<Row(q)'[1], j>>
    <3>1. Complete(q + 1) /\ Row(q)' = Row(q + 1) /\ Row(q + 1) \in Clients \X (1..Readings)
      BY <1>3, <1>14, <2>3
    <3>2. Kept(Row(q + 1)[1]) < j /\ j < Row(q + 1)[2]
          /\ (Row(q + 1)[1] = c => Kept(c) + 1 < j)
      BY <1>7, <1>11, <2>3, <3>1
    <3>3. PICK p \in Nat : p < q + 1 /\ Row(p) = <<Row(q + 1)[1], j>>
      BY <3>1, <3>2 DEF StreamInv, RowsInv
    <3>4. p # 0
      BY <1>6, <1>8, <3>2, <3>3
    <3>5. p - 1 \in Nat /\ p - 1 < q /\ Row(p - 1)' = Row(p)
      <4>1. p - 1 \in Nat /\ p - 1 < q /\ (p - 1) + 1 = p
        BY <3>3, <3>4
      <4> QED BY <1>3, <4>1
    <3> QED BY <3>1, <3>3, <3>5
  <2> QED BY <2>1, <2>2, <2>3 DEF RowsInv
<1>16. PassedInv'
  <2>1. \A x \in Clients : Kept(x)' <= Passed(x)'
    <3>1. k <= Passed(c)
      BY <1>4, <1>6 DEF StreamInv, RowsInv
    <3> QED BY <1>7, <1>8, <1>11, <3>1
  <2>2. ASSUME parent \notin {"failed", "killed"}, NEW x \in Clients, Kept(x)' < Passed(x)'
        PROVE  \E q \in Nat : Complete(q)' /\ Row(q)' = <<x, Passed(x)'>>
    <3>1. Kept(x) < Passed(x) /\ (x = c => Kept(c) + 1 < Passed(c))
      BY <1>7, <1>11, <2>2
    <3>2. PICK q \in Nat : Complete(q) /\ Row(q) = <<x, Passed(x)>>
      BY <2>2, <3>1 DEF StreamInv, PassedInv
    <3>3. q # 0
      BY <1>6, <1>8, <3>1, <3>2
    <3>4. q - 1 \in Nat /\ Complete(q - 1)' /\ Row(q - 1)' = Row(q)
      <4>1. q - 1 \in Nat /\ (q - 1) + 1 = q
        BY <3>3
      <4> QED BY <1>3, <3>2, <4>1
    <3> QED BY <1>7, <3>2, <3>4
  <2> QED BY <1>1, <2>1, <2>2 DEF PassedInv
<1>17. WriterInv'
  <2> SUFFICES ASSUME parent # "killed"
               PROVE  \E r \in Nat : /\ StreamLen' = 4*r + Offset
                                     /\ Offset \in {2, 3} => Row(r)' = buffer[1]
    BY <1>1 DEF WriterInv, Offset
  <2>1. PICK r \in Nat : StreamLen = 4*r + Offset /\ (Offset \in {2, 3} => Row(r) = buffer[1])
    BY DEF StreamInv, WriterInv
  <2>2. r - 1 \in Nat /\ StreamLen' = 4*(r - 1) + Offset /\ (r - 1) + 1 = r
    BY <1>2, <2>1 DEF Offset
  <2> QED BY <1>3, <2>1, <2>2
<1> QED BY <1>12, <1>13, <1>15, <1>16, <1>17 DEF StreamInv

\* A torn record ends up as one line of some file, and that is the only one.
LEMMA AppendTorn ==
  ASSUME BaseInv, AllFaithful, CutShort, AppendRecord
  PROVE  OneSpoiled' /\ CutShort'
<1> USE DEF clientVars, netVars, parentVars, pipeVars, logVars
<1>0. TypeOK /\ FilesType
  BY DEF BaseInv
<1>1. CutShort'
  BY DEF AppendRecord, CutShort
<1>2. CASE record.filename = Junk
  <2>1. files' = files
    BY <1>2 DEF AppendRecord
  <2>2. AllFaithful'
    BY <2>1 DEF AllFaithful, Faithful
  <2>3. <<0, 0>> \in Nat \X Nat
    OBVIOUS
  <2> QED BY <1>1, <2>2, <2>3 DEF AllFaithful, OneSpoiled
<1>3. CASE record.filename # Junk
  <2>1. PICK c \in Clients : record.filename[1] = c
    BY <1>0, <1>3 DEF TypeOK, Reading, Message
  <2>2. files' = [files EXCEPT ![c] = @ \o <<record>>]
    BY <1>0, <1>3, <2>1 DEF AppendRecord, FilesType
  <2>3. files[c] \in Seq(Record) /\ <<record>> \in Seq(Record) /\ Len(files[c]) \in Nat
    <3>1. files[c] \in Seq(Record) /\ Len(files[c]) \in Nat
      BY <1>0 DEF FilesType
    <3>2. record \in Record
      BY <1>0 DEF TypeOK, Record
    <3> QED BY <3>1, <3>2
  <2>4. /\ Len(files'[c]) = Len(files[c]) + 1
        /\ \A i \in 1..Len(files[c]) : files'[c][i] = files[c][i]
        /\ \A x \in Clients \ {c} : files'[x] = files[x]
    <3>1. /\ Len(files[c] \o <<record>>) = Len(files[c]) + 1
          /\ \A i \in 1..Len(files[c]) + 1 : (files[c] \o <<record>>)[i] =
               IF i <= Len(files[c]) THEN files[c][i] ELSE <<record>>[i - Len(files[c])]
      BY <2>3, ConcatProperties
    <3>2. files'[c] = files[c] \o <<record>> /\ \A x \in Clients \ {c} : files'[x] = files[x]
      BY <1>0, <2>2 DEF FilesType
    <3> QED BY <2>3, <3>1, <3>2
  <2>5. \A x \in Clients : \A k \in 1..Len(files'[x]) :
          Faithful(x, k)' \/ <<c, Len(files[c]) + 1>> = <<x, k>>
    <3>1. \A x \in Clients \ {c} : \A k \in 1..Len(files'[x]) : Faithful(x, k)'
      BY <2>4 DEF AllFaithful, Faithful
    <3>2. \A k \in 1..Len(files[c]) : Faithful(c, k)'
      BY <2>4 DEF AllFaithful, Faithful
    <3> QED BY <2>3, <2>4, <3>1, <3>2
  <2>6. PICK n \in Nat : n = Len(files[c]) + 1
    BY <2>3
  <2>7. <<c, n>> \in Nat \X Nat
    BY ClientsAssumption
  <2> QED BY <1>1, <2>5, <2>6, <2>7 DEF OneSpoiled
<1> QED BY <1>2, <1>3

\* A reading passed on is one not in the buffer any more: the steps that do not
\* move readings keep the count.
LEMMA PassedStill ==
  ASSUME UNCHANGED buffer, \A c \in Clients : Taken(c)' = Taken(c),
         parent' \in Busy <=> parent \in Busy
  PROVE  \A c \in Clients : Passed(c)' = Passed(c)
BY DEF Passed, InParent

\* A stream that holds a complete record stays in order while the child lives.
StreamLasts == StreamInv /\ StreamLen >= 4 /\ child' # "failed" => StreamInv'

\* Every step keeps the files whole, but for the one line.
LEMMA FilesStep == IInv /\ [Next]_vars => FilesInv' /\ StreamLasts
<1> SUFFICES ASSUME IInv, [Next]_vars PROVE FilesInv' /\ StreamLasts
  OBVIOUS
<1> USE DEF clientVars, netVars, parentVars, pipeVars, childVars, logVars
<1>0. BaseInv /\ BaseInv' /\ FilesInv /\ TypeOK /\ PhaseInv
  BY BaseStep DEF IInv, BaseInv
<1>1. CASE \E c \in Clients : Client(c)
  <2>1. PICK c \in Clients : Client(c)
    BY <1>1
  <2>2. UNCHANGED <<parent, buffer, pipe, writers, child, record, files>>
    BY <2>1 DEF Client, Connect, Send, Close
  <2>3. \A x \in Clients : Taken(x)' = Taken(x)
    <3>1. CASE Send(c)
      BY <1>0, <3>1, WireSend
    <3>2. CASE Connect(c) \/ Close(c)
      BY <3>2 DEF Connect, Close, Taken
    <3> QED BY <2>1, <3>1, <3>2 DEF Client
  <2>4. (\A x \in Clients : Passed(x)' = Passed(x)) /\ Offset' = Offset
    BY <2>2, <2>3, PassedStill DEF Offset
  <2> QED BY <1>0, <2>2, <2>4, FilesIdle DEF StreamLasts
<1>2. CASE \/ Startup \/ Select \/ SelectTimesOut \/ NoConnection \/ handle_new_connection
           \/ ReadEnd \/ SlotsDone \/ ClosePipe \/ WaitChild
  <2>1. /\ UNCHANGED <<sent, wire, buffer, pipe, record, files>>
        /\ parent \in {"start", "select", "accept", "slots", "close_pipe", "wait"}
        /\ parent' \in {"select", "accept", "slots", "close_pipe", "wait", "done"}
        /\ child' = child \/ (parent = "start" /\ child' = "close")
    BY <1>2 DEF Goto, Startup, Select, SelectTimesOut, NoConnection, handle_new_connection,
       ReadEnd, SlotsDone, ClosePipe, WaitChild
  <2>2. \A x \in Clients : Taken(x)' = Taken(x)
    BY <2>1 DEF Taken
  <2>3. (\A x \in Clients : Passed(x)' = Passed(x)) /\ Offset' = Offset
    BY <2>1, <2>2, PassedStill DEF Offset, Busy, WriteLabels
  <2>4. child' = child \/ (child \in {"unborn", "close"} /\ child' \in {"close", "read_ID"})
    BY <1>0, <2>1 DEF PhaseInv
  <2> QED BY <1>0, <2>1, <2>3, <2>4, FilesIdle DEF StreamLasts
<1>3. CASE ReadData
  <2>1. /\ UNCHANGED <<pipe, writers, child, record, files>>
        /\ parent = "slots" /\ parent' = "parse"
    BY <1>3 DEF ReadData, Goto
  <2>2. (\A x \in Clients : Passed(x)' = Passed(x)) /\ Offset = 0 /\ Offset' = 0
    BY <1>0, <1>3, <2>1, WireRead DEF Offset
  <2> QED BY <1>0, <2>1, <2>2, FilesIdle DEF StreamLasts
<1>4. CASE parsePhrase /\ Len(buffer) = 1
  <2>1. /\ UNCHANGED <<sent, wire, buffer, pipe, writers, child, record, files>>
        /\ parent = "parse" /\ parent' = "write_ID"
    BY <1>4 DEF parsePhrase
  <2>2. \A x \in Clients : Taken(x)' = Taken(x)
    BY <2>1 DEF Taken
  <2>3. (\A x \in Clients : Passed(x)' = Passed(x)) /\ Offset' = Offset
    BY <2>1, <2>2, PassedStill DEF Offset, Busy, WriteLabels
  <2> QED BY <1>0, <2>1, <2>3, FilesIdle DEF StreamLasts
<1>5. CASE \/ StartupFails \/ LogFails \/ KillParent \/ (parsePhrase /\ Len(buffer) # 1)
           \/ (WriteRecord /\ ChildEnded)
  <2>1. UNCHANGED <<pipe, childVars, sent, wire, buffer>>
    BY <1>5 DEF StartupFails, LogFails, KillParent, parsePhrase, WriteRecord, WriteValue
  <2>2. parent \notin {"killed", "failed"}
    BY <1>5 DEF StartupFails, LogFails, KillParent, Up, parsePhrase, WriteRecord, WriteValue
  <2>3. parent' = "killed" \/ (parent' = "failed" /\ parent \notin WriteLabels)
    BY <1>5 DEF StartupFails, LogFails, KillParent, parsePhrase, WriteRecord, WriteValue,
       ParentEnds, WriteLabels
  <2> QED BY <1>0, <2>1, <2>2, <2>3, FilesParentEnds DEF StreamLasts
<1>6. CASE WriteRecord /\ ~ChildEnded
  BY <1>0, <1>6, FilesWrite DEF StreamLasts
<1>7. CASE ChildClosesWriteEnd
  <2>1. /\ UNCHANGED <<sent, wire, parent, buffer, pipe, record, files>>
        /\ child = "close" /\ child' = "read_ID" /\ writers' \subseteq writers
    BY <1>7 DEF ChildClosesWriteEnd
  <2>2. (\A x \in Clients : Passed(x)' = Passed(x)) /\ Offset' = Offset
    BY <2>1 DEF Passed, Taken, InParent, Offset
  <2> QED BY <1>0, <2>1, <2>2, FilesIdle DEF StreamLasts
<1>8. CASE ReadRecord
  BY <1>0, <1>8, FilesRead DEF StreamLasts
<1>9. CASE AppendRecord
  <2>1. child = "append" /\ child' = "read_ID"
    BY <1>9 DEF AppendRecord
  <2>2. \/ AllFaithful /\ StreamInv
        \/ AllFaithful /\ CutShort
    BY <1>0, <2>1 DEF FilesInv
  <2>3. FilesInv'
    BY <1>0, <1>9, <2>1, <2>2, AppendStream, AppendTorn DEF FilesInv
  <2> QED BY <1>0, <1>9, <2>2, <2>3, AppendStream DEF StreamLasts
<1>10. CASE AppendFails
  <2>1. child = "append" /\ child' = "failed" /\ files' = files
    BY <1>10 DEF AppendFails
  <2>2. AllFaithful'
    BY <1>0, <2>1 DEF FilesInv, AllFaithful, Faithful
  <2> QED BY <2>1, <2>2 DEF FilesInv, StreamLasts
<1>11. CASE Terminated \/ UNCHANGED vars
  <2>1. UNCHANGED vars
    BY <1>11 DEF Terminated
  <2>2. \A x \in Clients : Passed(x)' = Passed(x)
    BY <2>1 DEF vars, Passed, Taken, InParent
  <2>3. Offset' = Offset
    BY <2>1 DEF vars, Offset
  <2> QED BY <1>0, <2>1, <2>2, <2>3, FilesIdle DEF vars, StreamLasts
<1> QED BY <1>1, <1>2, <1>3, <1>4, <1>5, <1>6, <1>7, <1>8, <1>9, <1>10, <1>11
        DEF Next, Parent, handle_client_data, Child

\* Nothing is in the stream at first.
LEMMA InitFiles == Init => FilesInv
<1> SUFFICES ASSUME Init PROVE FilesInv
  OBVIOUS
<1>1. /\ StreamLen = 0 /\ Offset = 0 /\ child = "unborn"
      /\ \A c \in Clients : Kept(c) = 0 /\ Passed(c) = 0
  BY DEF Init, StreamLen, InHand, ValuesRead, Offset, Kept, Passed, Taken, InParent, Busy,
     WriteLabels
<1>2. \A q \in Nat : ~Complete(q)
  BY <1>1 DEF Complete
<1>3. CellsInv
  BY <1>1 DEF CellsInv
<1>4. RowsInv /\ PassedInv
  BY <1>1, <1>2 DEF RowsInv, PassedInv
<1>5. WriterInv
  <2>1. StreamLen = 4*0 + Offset
    BY <1>1
  <2> QED BY <1>1, <2>1 DEF WriterInv
<1>6. AllFaithful
  BY DEF Init, AllFaithful
<1> QED BY <1>1, <1>3, <1>4, <1>5, <1>6 DEF FilesInv, StreamInv

\* The conjunction of types, wires, phases and stream holds for ever, for every
\* set of clients and every capacity of table and pipe.
THEOREM InductiveInvariant == Spec => []IInv
<1>1. Init => IInv
  BY InitBase, InitFiles DEF IInv
<1>2. IInv /\ [Next]_vars => IInv'
  BY BaseStep, FilesStep DEF IInv
<1> QED BY <1>1, <1>2, PTL DEF Spec

\* Every variable keeps its type: no step indexes a table or a log out of range.
THEOREM TypeCorrectness == Spec => []TypeOK
<1>1. IInv => TypeOK
  BY DEF IInv, BaseInv
<1> QED BY <1>1, InductiveInvariant, PTL

\* Division by the four values of a record.
LEMMA ByFour ==
  ASSUME NEW n \in Nat
  PROVE  \E r \in 0..3 : /\ n % 4 = r /\ (n + 4) % 4 = r
                         /\ \E q \in Nat : n = 4*q + r
<1>1. n \div 4 \in Nat /\ 4*(n \div 4) <= n /\ n < 4*(n \div 4) + 4
  BY Z3
<1>2. PICK q \in Nat : 4*q <= n /\ n < 4*q + 4
  BY <1>1
<1>3. \A i \in Nat, r \in 0..3 : (4*i + r) % 4 = r
  BY SMT
<1>4. PICK r \in 0..3 : n = 4*q + r
  BY <1>2
<1>5. n % 4 = r
  BY <1>3, <1>4
<1>6. (4*(q + 1) + r) % 4 = r /\ n + 4 = 4*(q + 1) + r
  BY <1>3, <1>4
<1>7. (n + 4) % 4 = r
  BY ONLY <1>6
<1> QED BY <1>4, <1>5, <1>7, Zenon

\* The next value in the pipe is the one the child's next read expects, wherever
\* the parent has stopped (216-219, 282-287).
THEOREM FramingTheorem == Spec => []PipeFraming
<1>1. IInv => PipeFraming
  <2> SUFFICES ASSUME IInv, ~ChildEnded, NEW i \in 1..Len(pipe)
               PROVE  pipe[i][1] = Kinds[((ValuesRead + i - 1) % 4) + 1]
    BY DEF PipeFraming
  <2>1. TypeOK /\ StreamInv
    BY DEF IInv, BaseInv, FilesInv, CutShort, ChildEnded
  <2>2. InHand \in 0..4 /\ Len(pipe) \in Nat
    BY <2>1 DEF InHand, ValuesRead, TypeOK
  <2>3. PICK n \in Nat : n = InHand + i - 1
    BY <2>2
  <2>4. PICK m \in 0..3 : m = n % 4 /\ \E q \in Nat : n = 4*q + m
    BY ByFour
  <2>5. PICK q \in Nat, r \in 1..4 : n = 4*q + m /\ r = m + 1
    <3>1. m + 1 \in 1..4
      OBVIOUS
    <3> QED BY <2>4, <3>1
  <2>6. 4*q + r = InHand + i /\ 4*q + r <= StreamLen
    BY ONLY <2>2, <2>3, <2>5, i \in 1..Len(pipe) DEF StreamLen
  <2>7. Cell(q, r) = pipe[i]
    <3>1. ~(4*q + r <= InHand) /\ 4*q + r - InHand = i
      BY <2>2, <2>6
    <3> QED BY <3>1 DEF Cell
  <2>8. Cell(q, r)[1] = Kinds[r]
    <3>1. /\ 4*q + 1 <= StreamLen => Cell(q, 1)[1] = "ID"
          /\ 4*q + 2 <= StreamLen => Cell(q, 2)[1] = "TEMP"
          /\ 4*q + 3 <= StreamLen => Cell(q, 3)[1] = "TIME"
          /\ 4*q + 4 <= StreamLen => Cell(q, 4)[1] = "filename"
      BY <2>1 DEF StreamInv, CellsInv
    <3> QED BY <2>6, <3>1, KindOrder
  <2>9. (ValuesRead + i - 1) % 4 = n % 4
    <3>1. CASE child = "append"
      <4>1. ValuesRead = 0 /\ InHand = 4
        BY <3>1 DEF ValuesRead, InHand
      <4>2. PICK before \in Nat : before = i - 1
        OBVIOUS
      <4>3. n = before + 4 /\ ValuesRead + i - 1 = before
        BY <2>3, <4>1, <4>2
      <4> QED BY <4>3, ByFour
    <3>2. CASE child # "append"
      BY <2>3, <3>2 DEF InHand
    <3> QED BY <3>1, <3>2
  <2>10. r = (n % 4) + 1
    BY <2>4, <2>5, Zenon
  <2> QED BY <2>7, <2>8, <2>9, <2>10, Zenon
<1> QED BY <1>1, InductiveInvariant, PTL

\* A file is a prefix of what its client sent; killing the parent spoils at most
\* one line over all files (181-197, 216-219, 282-287).
THEOREM PrefixTheorem == Spec => []FilesArePrefixes
<1>1. AllFaithful => Unfaithful = {}
  BY DEF AllFaithful, Unfaithful, Lines
<1>2. OneSpoiled => \E line : Unfaithful \subseteq {line}
  <2> SUFFICES ASSUME OneSpoiled PROVE \E line : Unfaithful \subseteq {line}
    OBVIOUS
  <2>1. PICK line \in Nat \X Nat :
          \A c \in Clients : \A k \in 1..Len(files[c]) : Faithful(c, k) \/ line = <<c, k>>
    BY DEF OneSpoiled
  <2>2. \A l \in Lines : l = <<l[1], l[2]>> /\ l[1] \in Clients /\ l[2] \in 1..Len(files[l[1]])
    BY DEF Lines
  <2>3. Unfaithful \subseteq {line}
    BY <2>1, <2>2 DEF Unfaithful
  <2> QED BY <2>3
<1>3. ASSUME NEW line, Unfaithful \subseteq {line} PROVE Cardinality(Unfaithful) <= 1
  <2>1. IsFiniteSet({line}) /\ Cardinality({line}) = 1
    BY FS_Singleton
  <2> QED BY <1>3, <2>1, FS_Subset
<1>4. IInv => FilesArePrefixes
  <2> SUFFICES ASSUME IInv PROVE FilesArePrefixes
    OBVIOUS
  <2>1. CASE AllFaithful
    <3>1. Unfaithful = {} /\ Cardinality(Unfaithful) = 0
      BY <1>1, <2>1, FS_EmptySet
    <3> QED BY <3>1 DEF FilesArePrefixes
  <2>2. CASE OneSpoiled /\ CutShort
    BY <1>2, <1>3, <2>2 DEF FilesArePrefixes, CutShort
  <2> QED BY <2>1, <2>2 DEF IInv, FilesInv
<1> QED BY <1>4, InductiveInvariant, PTL

\* When the parent returns the pipe has been drained: every reading it took off a
\* socket is in a file, unless the child failed (341-342).
LEMMA Drained == IInv => ReturnsAfterDrain
<1> SUFFICES ASSUME IInv, parent = "done", child # "failed", NEW c \in Clients
             PROVE  Kept(c) = Taken(c)
  BY DEF ReturnsAfterDrain, Kept, Taken
<1>1. child = "exited" /\ pipe = <<>>
  BY DEF IInv, BaseInv, PhaseInv, ChildEnded
<1>2. StreamInv
  BY DEF IInv, FilesInv, CutShort
<1>3. StreamLen = 0
  BY <1>1 DEF StreamLen, InHand, ValuesRead
<1>4. \A q \in Nat : ~Complete(q)
  BY <1>3 DEF Complete
<1>5. ~(Kept(c) < Passed(c)) /\ Kept(c) <= Passed(c)
  BY <1>2, <1>4 DEF StreamInv, PassedInv
<1>6. Kept(c) \in Int /\ Taken(c) \in Int /\ InParent(c) = 0
  BY DEF IInv, BaseInv, TypeOK, FilesType, Kept, Taken, InParent, Busy, WriteLabels
<1> QED BY <1>5, <1>6 DEF Passed

\* The close before the wait lets the child finish (341-342).
THEOREM DrainTheorem == Spec => []ReturnsAfterDrain
BY Drained, InductiveInvariant, PTL
-----------------------------------------------------------------------------
(* The two logs.                                                           *)

\* What is logged stays logged, and what has been taken off a socket stays taken.
LEMMA LoggedStill ==
  ASSUME BaseInv, TypeOK', LoggedInv, \A x \in Clients : Taken(x)' >= Taken(x),
         UNCHANGED unusual
  PROVE  \A m \in unusual' : m[2] <= Taken(m[1])'
<1> SUFFICES ASSUME NEW m \in unusual PROVE m[2] <= Taken(m[1])'
  OBVIOUS
<1>1. m[1] \in Clients /\ m[2] \in Nat /\ m[2] <= Taken(m[1])
  BY SizesAssumption, FaultsAssumption DEF BaseInv, TypeOK, LoggedInv, Message
<1>2. PICK x \in Clients : x = m[1]
  BY <1>1
<1>3. Taken(x) \in Int /\ Taken(x)' >= Taken(x) /\ Taken(x)' \in Int
  <2>1. sent[x] \in Nat /\ Len(wire[x]) \in Nat /\ sent'[x] \in Nat /\ Len(wire'[x]) \in Nat
    BY DEF BaseInv, TypeOK
  <2> QED BY <2>1 DEF Taken
<1> QED BY <1>1, <1>2, <1>3

\* An unusual reading is logged before its first value is written to the pipe.
LEMMA LoggedParse ==
  ASSUME BaseInv, LoggedInv, parsePhrase
  PROVE  LoggedInv'
<1> USE DEF parsePhrase, clientVars, netVars, pipeVars, childVars
<1>0. TypeOK /\ WireInv /\ parent = "parse" /\ UNCHANGED <<sent, wire, buffer>>
  BY DEF BaseInv
<1>1. buffer[1] \in Message /\ buffer[1][2] <= Taken(buffer[1][1])
  <2>1. Len(buffer) \in Nat /\ Len(buffer) > 0
    BY <1>0 DEF TypeOK, WireInv, Busy
  <2>2. buffer[1] \in Message
    BY <1>0, <2>1, ElementOfSeq DEF TypeOK
  <2>3. buffer[1] = <<buffer[1][1], Taken(buffer[1][1]) - Len(buffer) + 1>>
    BY <1>0, <2>1 DEF WireInv, Busy
  <2>4. PICK x \in Clients : x = buffer[1][1]
    BY <2>2 DEF Message
  <2>5. Taken(x) \in Int
    BY <1>0 DEF TypeOK, Taken
  <2>6. buffer[1][2] = Taken(x) - Len(buffer) + 1
    BY <2>3, <2>4
  <2> QED BY <2>1, <2>2, <2>4, <2>5, <2>6
<1>2. \A m \in unusual' : m[2] <= Taken(m[1])'
  BY <1>0, <1>1 DEF LoggedInv, Taken
<1>3. \A x : Logged(x) => Logged(x)'
  BY DEF Logged
<1>4. Logged(buffer[1])'
  BY <1>0 DEF Logged
<1> QED BY <1>0, <1>2, <1>3, <1>4 DEF LoggedInv

\* A value written to the pipe is the buffer's.
LEMMA LoggedWrite ==
  ASSUME BaseInv, LoggedInv, WriteRecord
  PROVE  LoggedInv'
<1> USE DEF WriteRecord, WriteValue, clientVars, netVars, childVars, logVars
<1>0. TypeOK /\ UNCHANGED <<sent, wire, buffer, unusual, record, files>> /\ parent \in WriteLabels
  BY DEF BaseInv, WriteLabels
<1>1. \A m \in unusual' : m[2] <= Taken(m[1])'
  BY <1>0 DEF LoggedInv, Taken
<1>2. ASSUME NEW i \in 1..Len(pipe'), pipe'[i][1] = "TEMP" PROVE Logged(pipe'[i][2])
  <2>1. CASE pipe' = pipe
    BY <1>2, <2>1 DEF LoggedInv
  <2>2. CASE \E k \in {"ID", "TIME", "filename"} : \E v : pipe' = Append(pipe, <<k, v>>)
    <3>0. PICK k \in {"ID", "TIME", "filename"} : \E v : pipe' = Append(pipe, <<k, v>>)
      BY <2>2
    <3>1. PICK v : pipe' = Append(pipe, <<k, v>>)
      BY <3>0
    <3>2. i # Len(pipe) + 1 /\ i \in 1..Len(pipe) /\ pipe'[i] = pipe[i]
      BY <1>0, <1>2, <3>1 DEF TypeOK
    <3> QED BY <1>2, <3>2 DEF LoggedInv
  <2>3. CASE pipe' = Append(pipe, <<"TEMP", buffer[1]>>)
    <3>1. i = Len(pipe) + 1 \/ (i \in 1..Len(pipe) /\ pipe'[i] = pipe[i])
      BY <1>0, <1>2, <2>3 DEF TypeOK
    <3>2. CASE i = Len(pipe) + 1
      BY <1>0, <2>3, <3>2 DEF TypeOK, LoggedInv
    <3>3. CASE i \in 1..Len(pipe) /\ pipe'[i] = pipe[i]
      BY <1>2, <3>3 DEF LoggedInv
    <3> QED BY <3>1, <3>2, <3>3
  <2> QED BY <2>1, <2>2, <2>3
<1>3. \A x : Logged(x)' <=> Logged(x)
  BY <1>0 DEF Logged
<1> QED BY <1>0, <1>1, <1>2, <1>3 DEF LoggedInv

\* The child takes logged values out of the pipe.
LEMMA LoggedRead ==
  ASSUME BaseInv, FilesInv, LoggedInv, ReadRecord
  PROVE  LoggedInv'
<1> USE DEF ReadRecord, ReadValue, clientVars, netVars, parentVars, logVars
<1>0. TypeOK /\ UNCHANGED <<sent, wire, buffer, parent, unusual, files>>
  BY DEF BaseInv
<1>1. \A m \in unusual' : m[2] <= Taken(m[1])'
  BY <1>0 DEF LoggedInv, Taken
<1>2. CASE UNCHANGED <<pipe, record>>
  BY <1>0, <1>1, <1>2 DEF LoggedInv, Logged
<1>3. CASE pipe # <<>> /\ pipe' = Tail(pipe)
  <2>1. Len(pipe) \in Nat /\ Len(pipe) > 0 /\ Head(pipe) = pipe[1]
    BY <1>0, <1>3 DEF TypeOK
  <2>2. Head(pipe)[1] = "TEMP" => Logged(Head(pipe)[2])
    BY <2>1 DEF LoggedInv
  <2>3. \A i \in 1..Len(pipe') : i + 1 \in 1..Len(pipe) /\ pipe'[i] = pipe[i + 1]
    BY <1>0, <1>3, <2>1 DEF TypeOK
  <2>4. Logged(record'.TEMP)
    <3>1. CASE child = "read_TEMP" /\ record' = [record EXCEPT !["TEMP"] = Head(pipe)[2]]
      <4>1. InHand = 2 - 1 /\ Head(pipe)[1] = "TEMP"
        BY <1>3, <3>1, HeadKind, KindOrder DEF InHand, ValuesRead
      <4> QED BY <1>0, <2>2, <3>1, <4>1 DEF TypeOK
    <3>2. CASE record'.TEMP = record.TEMP
      BY <3>2 DEF LoggedInv
    <3>3. \/ child = "read_TEMP" /\ record' = [record EXCEPT !["TEMP"] = Head(pipe)[2]]
          \/ \E k \in {"ID", "TIME", "filename"} : record' = [record EXCEPT ![k] = Head(pipe)[2]]
      BY <1>3
    <3> QED BY <1>0, <3>1, <3>2, <3>3 DEF TypeOK
  <2>5. \A i \in 1..Len(pipe') : pipe'[i][1] = "TEMP" => Logged(pipe'[i][2])
    BY <2>3 DEF LoggedInv
  <2>6. \A x : Logged(x)' <=> Logged(x)
    BY <1>0 DEF Logged
  <2> QED BY <1>0, <1>1, <2>4, <2>5, <2>6 DEF LoggedInv
<1> QED BY <1>2, <1>3

\* Every step keeps logged what has been passed on.
LEMMA LoggedStep == IInv /\ LoggedInv /\ [Next]_vars => LoggedInv'
<1> SUFFICES ASSUME IInv, LoggedInv, [Next]_vars PROVE LoggedInv'
  OBVIOUS
<1> USE DEF clientVars, netVars, parentVars, pipeVars, childVars, logVars
<1>0. BaseInv /\ FilesInv /\ TypeOK /\ FilesType /\ TypeOK'
  BY BaseStep DEF IInv, BaseInv
<1>1. ASSUME UNCHANGED <<unusual, pipe, record, files>>,
             \A x \in Clients : Taken(x)' >= Taken(x),
             parent' \in WriteLabels => parent \in WriteLabels /\ buffer' = buffer
      PROVE  LoggedInv'
  <2>1. \A m \in unusual' : m[2] <= Taken(m[1])'
    BY <1>0, <1>1, LoggedStill
  <2>2. \A x : Logged(x)' <=> Logged(x)
    BY <1>1 DEF Logged
  <2> QED BY <1>1, <2>1, <2>2 DEF LoggedInv
<1>2. ASSUME UNCHANGED <<sent, wire>> PROVE \A x \in Clients : Taken(x)' >= Taken(x)
  <2>1. \A x \in Clients : Taken(x) \in Int /\ Taken(x)' = Taken(x)
    BY <1>0, <1>2 DEF Taken, TypeOK
  <2> QED BY <2>1
<1>3. CASE \E c \in Clients : Client(c)
  <2>1. PICK c \in Clients : Client(c)
    BY <1>3
  <2>2. UNCHANGED <<unusual, pipe, record, files, parent, buffer>>
    BY <2>1 DEF Client, Connect, Send, Close
  <2>3. \A x \in Clients : Taken(x) \in Int
    <3>1. TypeOK
      BY <1>0
    <3> QED BY <3>1 DEF TypeOK, Taken
  <2>4. \A x \in Clients : Taken(x)' >= Taken(x)
    <3>1. CASE Send(c)
      <4>1. \A x \in Clients : Taken(x)' = Taken(x)
        BY <1>0, <3>1, WireSend
      <4> QED BY <2>3, <4>1
    <3>2. CASE Connect(c) \/ Close(c)
      BY <1>2, <3>2 DEF Connect, Close
    <3> QED BY <2>1, <3>1, <3>2 DEF Client
  <2> QED BY <1>1, <2>2, <2>4
<1>4. CASE ReadData
  <2>1. UNCHANGED <<unusual, pipe, record, files>> /\ parent' \notin WriteLabels
    BY <1>4 DEF ReadData, Goto, WriteLabels
  <2> QED BY <1>0, <1>1, <1>4, <2>1, WireRead
<1>5. CASE \/ Startup \/ Select \/ SelectTimesOut \/ NoConnection \/ handle_new_connection
           \/ ReadEnd \/ SlotsDone \/ ClosePipe \/ WaitChild \/ StartupFails \/ LogFails
           \/ KillParent
  <2>1. UNCHANGED <<sent, wire, unusual, pipe, record, files>> /\ parent' \notin WriteLabels
    BY <1>5 DEF Startup, Select, SelectTimesOut, NoConnection, handle_new_connection,
       ReadEnd, SlotsDone, ClosePipe, WaitChild, StartupFails, LogFails, KillParent, ParentEnds,
       Goto, WriteLabels
  <2> QED BY <1>1, <1>2, <2>1
<1>6. CASE parsePhrase \/ WriteRecord \/ ReadRecord
  BY <1>0, <1>6, LoggedParse, LoggedWrite, LoggedRead
<1>7. CASE AppendRecord
  <2>1. UNCHANGED <<sent, wire, buffer, parent, unusual, pipe, record>>
    BY <1>7 DEF AppendRecord
  <2>2. \A m \in unusual' : m[2] <= Taken(m[1])'
    BY <2>1 DEF LoggedInv, Taken
  <2>3. ASSUME NEW c \in Clients, NEW k \in 1..Len(files'[c]) PROVE Logged(files'[c][k].TEMP)
    <3>1. files[c] \in Seq(Record) /\ record \in Record /\ <<record>> \o head = <<record>>
      <4>1. record \in Record /\ files[c] \in Seq(Record) /\ head = <<>>
        BY <1>0 DEF FilesType, TypeOK, Record
      <4> QED BY <4>1, ConcatEmptySeq
    <3>2. files'[c] = files[c] \/ files'[c] = files[c] \o <<record>>
      BY <1>0, <1>7, <3>1 DEF AppendRecord, FilesType
    <3>3. (k \in 1..Len(files[c]) /\ files'[c][k] = files[c][k]) \/ files'[c][k] = record
      BY <2>3, <3>1, <3>2
    <3> QED BY <3>3 DEF LoggedInv
  <2>4. \A x : Logged(x)' <=> Logged(x)
    BY <2>1 DEF Logged
  <2> QED BY <2>1, <2>2, <2>3, <2>4 DEF LoggedInv
<1>8. CASE ChildClosesWriteEnd \/ AppendFails \/ Terminated \/ UNCHANGED vars
  <2>1. UNCHANGED <<sent, wire, unusual, pipe, record, files, parent, buffer>>
    BY <1>8 DEF ChildClosesWriteEnd, AppendFails, Terminated, vars
  <2> QED BY <1>1, <1>2, <2>1
<1> QED BY <1>3, <1>4, <1>5, <1>6, <1>7, <1>8 DEF Next, Parent, Child, handle_client_data

\* Lines of Supervisor.txt.
LEMMA SupervisorLines ==
  /\ Append(<<>>, "Connect") = <<"Connect">>
  /\ Append(<<"Connect">>, "Disconnect") = <<"Connect", "Disconnect">>
  /\ <<>> # <<"Connect">> /\ <<"Connect">> # <<"Connect", "Disconnect">>
<1>1. <<>> # <<"Connect">> /\ <<"Connect">> # <<"Connect", "Disconnect">>
  OBVIOUS
<1>2. Append(<<>>, "Connect") = <<"Connect">>
  OBVIOUS
<1>3. Append(<<"Connect">>, "Disconnect") = <<"Connect", "Disconnect">>
  <2> DEFINE Words == {"Connect", "Disconnect"}
             s == Append(<<"Connect">>, "Disconnect")
             t == <<"Connect", "Disconnect">>
  <2>1. <<"Connect">> \in Seq(Words) /\ t \in Seq(Words) /\ Len(<<"Connect">>) = 1
    OBVIOUS
  <2>2. s \in Seq(Words) /\ Len(s) = 2 /\ s[1] = "Connect" /\ s[2] = "Disconnect"
    BY <2>1, AppendProperties
  <2>3. Len(t) = 2 /\ t[1] = "Connect" /\ t[2] = "Disconnect"
    OBVIOUS
  <2> HIDE DEF s, t
  <2>4. s = t
    BY <2>1, <2>2, <2>3, SeqEqual
  <2> QED BY <2>4 DEF s, t
<1> QED BY <1>1, <1>2, <1>3

\* Every step keeps table, backlog and Supervisor.txt in agreement.
LEMMA TableStep == IInv /\ TableInv /\ [Next]_vars => TableInv'
<1> SUFFICES ASSUME IInv, TableInv, [Next]_vars PROVE TableInv'
  OBVIOUS
<1> USE DEF clientVars, netVars, parentVars, pipeVars, childVars, logVars
<1>0. TypeOK /\ PhaseInv /\ Free \notin Clients
  BY ClientsAssumption DEF IInv, BaseInv, Free
<1>1. CASE \E c \in Clients : Client(c)
  <2>1. PICK c \in Clients : Client(c)
    BY <1>1
  <2>2. UNCHANGED <<client_socket, supervisor>>
    BY <2>1 DEF Client, Connect, Send, Close
  <2>3. TableMatchesSupervisor'
    BY <2>2 DEF TableInv, TableMatchesSupervisor
  <2>4. \A x \in Clients : conn'[x] = "idle" => conn[x] = "idle"
    BY <1>0, <2>1 DEF Client, Connect, Send, Close, TypeOK
  <2>5. \A x \in Clients : conn[x] # "idle" => conn'[x] # "idle"
    BY <2>4
  <2>6. CASE backlog' = backlog
    <3>1. \A i \in 1..Len(backlog) : backlog[i] \in Clients
      BY <1>0 DEF TypeOK
    <3> QED BY <2>2, <2>3, <2>4, <2>6, <3>1 DEF TableInv, BacklogInv
  <2>7. CASE /\ conn[c] = "idle" /\ backlog' = Append(backlog, c)
             /\ conn' = [conn EXCEPT ![c] = "open"]
    <3>1. /\ Len(backlog) \in Nat /\ Len(backlog') = Len(backlog) + 1 /\ backlog'[Len(backlog) + 1] = c
          /\ \A i \in 1..Len(backlog) : backlog'[i] = backlog[i] /\ backlog[i] \in Clients
      BY <1>0, <2>7 DEF TypeOK
    <3>2. conn'[c] # "idle" /\ supervisor[c] = <<>>
      BY <1>0, <2>7 DEF TypeOK, TableInv, BacklogInv
    <3>3. \A i \in 1..Len(backlog) : backlog[i] # c
      BY <2>7 DEF TableInv, BacklogInv
    <3>4. \A i \in 1..Len(backlog') : i = Len(backlog) + 1 \/ i \in 1..Len(backlog)
      BY <3>1
    <3>5. \A i, j \in 1..Len(backlog') : backlog'[i] = backlog'[j] => i = j
      BY <3>1, <3>3, <3>4 DEF TableInv, BacklogInv
    <3>6. \A i \in 1..Len(backlog') : conn'[backlog'[i]] # "idle" /\ supervisor'[backlog'[i]] = <<>>
      BY <2>2, <2>5, <3>1, <3>2, <3>4 DEF TableInv, BacklogInv
    <3> QED BY <2>2, <2>3, <2>4, <3>5, <3>6 DEF TableInv, BacklogInv
  <2> QED BY <2>1, <2>6, <2>7 DEF Client, Connect, Send, Close
<1>2. CASE handle_new_connection
  <2>1. PICK c \in Clients : /\ c = Head(backlog) /\ backlog # <<>>
                             /\ supervisor' = [supervisor EXCEPT ![c] = Append(@, "Connect")]
                             /\ backlog' = Tail(backlog)
                             /\ conn' = conn
    <3>1. backlog # <<>> /\ Head(backlog) \in Clients
      BY <1>0, <1>2, HeadTailProperties DEF handle_new_connection, PhaseInv, Goto, TypeOK
    <3> QED BY <1>2, <3>1 DEF handle_new_connection
  <2>2. /\ Len(backlog) \in Nat /\ Len(backlog) > 0 /\ c = backlog[1]
        /\ Len(backlog') = Len(backlog) - 1
        /\ \A i \in 1..Len(backlog') : i + 1 \in 1..Len(backlog) /\ backlog'[i] = backlog[i + 1]
    BY <1>0, <2>1 DEF TypeOK
  <2>3. supervisor[c] = <<>> /\ conn[c] # "idle"
    BY <2>2 DEF TableInv, BacklogInv
  <2>4. /\ supervisor'[c] = <<"Connect">>
        /\ \A x \in Clients \ {c} : supervisor'[x] = supervisor[x]
    BY <1>0, <2>1, <2>3, SupervisorLines DEF TypeOK
  <2>5. \A i \in Table : client_socket[i] # c
    BY <1>0, <2>3, SupervisorLines DEF TableInv, TableMatchesSupervisor
  <2>6. \/ client_socket' = client_socket
        \/ \E f \in FreeSlots : client_socket' = [client_socket EXCEPT ![f] = c]
    <3>1. FreeSlots # {} => Least(FreeSlots) \in FreeSlots
      <4>1. FreeSlots \in SUBSET Nat
        BY SizesAssumption DEF FreeSlots, Table
      <4> QED BY <4>1, LeastFound
    <3> QED BY <1>2, <2>1, <3>1 DEF handle_new_connection
  <2>7. TableMatchesSupervisor'
    <3>1. \A i \in Table : client_socket'[i] = client_socket[i] \/ client_socket'[i] = c
      BY <1>0, <2>6 DEF TypeOK
    <3>2. \A i, j \in Table : client_socket'[i] = c /\ client_socket'[j] = c => i = j
      BY <1>0, <2>5, <2>6 DEF TypeOK
    <3>3. \A i \in Table : client_socket'[i] # Free => supervisor'[client_socket'[i]] = <<"Connect">>
      BY <1>0, <2>4, <3>1 DEF TypeOK, TableInv, TableMatchesSupervisor
    <3>4. \A i, j \in Table : client_socket'[i] # Free /\ client_socket'[j] = client_socket'[i] => i = j
      BY <2>5, <3>1, <3>2 DEF TableInv, TableMatchesSupervisor
    <3>5. \A x \in Clients :
            supervisor'[x] \in {<<>>, <<"Connect">>, <<"Connect", "Disconnect">>}
      BY <2>4 DEF TableInv, TableMatchesSupervisor
    <3> QED BY <3>3, <3>4, <3>5 DEF TableMatchesSupervisor
  <2>8. BacklogInv'
    <3>1. \A i, j \in 1..Len(backlog') : backlog'[i] = backlog'[j] => i = j
      <4> SUFFICES ASSUME NEW i \in 1..Len(backlog'), NEW j \in 1..Len(backlog'),
                          backlog'[i] = backlog'[j]
                   PROVE  i = j
        OBVIOUS
      <4>1. i + 1 = j + 1
        BY <2>2 DEF TableInv, BacklogInv
      <4> QED BY <2>2, <4>1
    <3>2. \A i \in 1..Len(backlog') : backlog'[i] \in Clients /\ backlog'[i] # c
      <4> SUFFICES ASSUME NEW i \in 1..Len(backlog') PROVE backlog'[i] \in Clients /\ backlog'[i] # c
        OBVIOUS
      <4>1. i + 1 \in 1..Len(backlog) /\ i + 1 # 1 /\ 1 \in 1..Len(backlog) /\ backlog'[i] = backlog[i + 1]
        BY <2>2
      <4>2. backlog[i + 1] \in Clients
        BY <1>0, <4>1 DEF TypeOK
      <4> QED BY <2>2, <4>1, <4>2 DEF TableInv, BacklogInv
    <3>3. \A i \in 1..Len(backlog') : conn'[backlog'[i]] # "idle" /\ supervisor'[backlog'[i]] = <<>>
      BY <2>1, <2>2, <2>4, <3>2 DEF TableInv, BacklogInv
    <3> QED BY <2>1, <2>3, <2>4, <3>1, <3>3 DEF TableInv, BacklogInv
  <2> QED BY <2>7, <2>8 DEF TableInv
<1>3. CASE ReadEnd
  <2>1. PICK i \in Table, c \in Clients :
          /\ c = client_socket[i]
          /\ supervisor' = [supervisor EXCEPT ![c] = Append(@, "Disconnect")]
          /\ client_socket' = [client_socket EXCEPT ![i] = Free]
          /\ UNCHANGED <<conn, backlog>>
    BY <1>0, <1>3, PendingClient DEF ReadEnd
  <2>2. supervisor[c] = <<"Connect">>
    BY <1>0, <2>1 DEF TableInv, TableMatchesSupervisor
  <2>3. /\ supervisor'[c] = <<"Connect", "Disconnect">>
        /\ \A x \in Clients \ {c} : supervisor'[x] = supervisor[x]
    BY <1>0, <2>1, <2>2, SupervisorLines DEF TypeOK
  <2>4. \A j \in Table : client_socket'[j] # Free =>
          j # i /\ client_socket'[j] = client_socket[j] /\ client_socket[j] \in Clients \ {c}
    <3>1. client_socket'[i] = Free /\ \A j \in Table \ {i} : client_socket'[j] = client_socket[j]
      BY <1>0, <2>1 DEF TypeOK
    <3>2. \A j \in Table \ {i} : client_socket[j] # c
      BY <1>0, <2>1 DEF TableInv, TableMatchesSupervisor
    <3> QED BY <1>0, <3>1, <3>2 DEF TypeOK
  <2>5. TableMatchesSupervisor'
    <3>1. \A j, k \in Table : client_socket'[j] # Free =>
            /\ supervisor'[client_socket'[j]] = <<"Connect">>
            /\ client_socket'[k] = client_socket'[j] => j = k
      BY <2>3, <2>4 DEF TableInv, TableMatchesSupervisor
    <3>2. \A x \in Clients :
            supervisor'[x] \in {<<>>, <<"Connect">>, <<"Connect", "Disconnect">>}
      BY <2>3 DEF TableInv, TableMatchesSupervisor
    <3> QED BY <3>1, <3>2 DEF TableMatchesSupervisor
  <2>6. BacklogInv'
    <3>1. conn[c] # "idle"
      BY <2>2, SupervisorLines DEF TableInv, BacklogInv
    <3>2. \A j \in 1..Len(backlog) : backlog[j] \in Clients
      BY <1>0 DEF TypeOK
    <3>3. \A j \in 1..Len(backlog) : backlog[j] # c
      BY <2>2, SupervisorLines DEF TableInv, BacklogInv
    <3> QED BY <2>1, <2>3, <3>1, <3>2, <3>3 DEF TableInv, BacklogInv
  <2> QED BY <2>5, <2>6 DEF TableInv
<1>4. CASE UNCHANGED <<conn, backlog, client_socket, supervisor>>
  BY <1>4 DEF TableInv, TableMatchesSupervisor, BacklogInv
<1>5. CASE \/ Startup \/ Select \/ SelectTimesOut \/ NoConnection \/ ReadData \/ SlotsDone
           \/ parsePhrase \/ WriteRecord \/ ClosePipe \/ WaitChild \/ StartupFails \/ LogFails
           \/ KillParent
  <2>1. UNCHANGED <<conn, backlog, client_socket, supervisor>>
    BY <1>5 DEF Startup, Select, SelectTimesOut, NoConnection, ReadData, SlotsDone, parsePhrase,
       WriteRecord, WriteValue, ClosePipe, WaitChild, StartupFails, LogFails, KillParent
  <2> QED BY <1>4, <2>1
<1>6. CASE Child \/ Terminated \/ UNCHANGED vars
  <2>1. UNCHANGED <<conn, backlog, client_socket, supervisor>>
    BY <1>6 DEF Child, ChildClosesWriteEnd, ReadRecord, ReadValue, AppendRecord, AppendFails,
       Terminated, vars
  <2> QED BY <1>4, <2>1
<1> QED BY <1>1, <1>2, <1>3, <1>5, <1>6 DEF Next, Parent, handle_client_data

\* After a normal return every logged reading is a line of its client's file.
LEMMA LoggedIsRecorded ==
  ASSUME IInv, LoggedInv, parent = "done", child # "failed", NEW m \in unusual
  PROVE  \E k \in 1..Len(files[m[1]]) : files[m[1]][k].TEMP = m
<1>1. /\ m[1] \in Clients /\ m[2] \in Nat \ {0} /\ m = <<m[1], m[2]>>
      /\ m[2] <= Taken(m[1])
  BY SizesAssumption, FaultsAssumption DEF IInv, BaseInv, TypeOK, LoggedInv, Message
<1>2. Len(files[m[1]]) = Taken(m[1])
  BY <1>1, Drained DEF ReturnsAfterDrain, Taken
<1>3. AllFaithful
  BY DEF IInv, FilesInv, CutShort
<1>4. m[2] \in 1..Len(files[m[1]])
  <2>1. Len(files[m[1]]) \in Nat
    BY <1>1 DEF IInv, BaseInv, FilesType
  <2> QED BY <1>1, <1>2, <2>1
<1>5. files[m[1]][m[2]].TEMP = m
  BY <1>1, <1>3, <1>4 DEF AllFaithful, Faithful
<1> QED BY <1>4, <1>5

\* Unusual.txt agrees with the clients' files, and Supervisor.txt with the
\* server's table, wherever the processes stop (129-134, 176-203).
THEOREM LogsTheorem == Spec => []LogsAgree
<1> DEFINE Inv == IInv /\ LoggedInv /\ TableInv
<1>1. Init => LoggedInv /\ TableInv
  <2> SUFFICES ASSUME Init PROVE LoggedInv /\ TableInv
    OBVIOUS
  <2>1. LoggedInv
    <3>1. Junk \notin UnusualReadings
      BY FaultsAssumption DEF Junk, Message
    <3> QED BY <3>1 DEF Init, LoggedInv, Logged, WriteLabels
  <2>2. TableInv
    BY DEF Init, TableInv, TableMatchesSupervisor, BacklogInv
  <2> QED BY <2>1, <2>2
<1>2. Init => Inv
  BY <1>1, InitBase, InitFiles DEF IInv
<1>3. Inv /\ [Next]_vars => Inv'
  BY BaseStep, FilesStep, LoggedStep, TableStep DEF IInv
<1>4. Inv => LogsAgree
  BY LoggedIsRecorded DEF LogsAgree, UnusualAgreesWithFiles, LoggedInv, Logged, TableInv
<1> QED BY <1>2, <1>3, <1>4, PTL DEF Spec
-----------------------------------------------------------------------------
(* The time-out of select.                                                 *)

\* client_socket[] has room for every client.
Roomy == IsFiniteSet(Clients) /\ Cardinality(Clients) <= MaxClients

\* With room for every client a new one finds a free slot: the others' slots
\* are each of another client.
LEMMA RoomForAll ==
  ASSUME Roomy, TypeOK, TableInv,
         NEW c \in Clients, \A i \in Table : client_socket[i] # c
  PROVE  FreeSlots # {}
<1> SUFFICES ASSUME FreeSlots = {} PROVE FALSE
  OBVIOUS
<1>1. client_socket \in [Table -> Clients \ {c}] /\ \A i \in Table : client_socket[i] # Free
  BY DEF TypeOK, FreeSlots
<1>2. /\ IsFiniteSet(Clients \ {c}) /\ Cardinality(Clients) \in Nat
      /\ Cardinality(Clients \ {c}) = Cardinality(Clients) - 1
  BY FS_RemoveElement, FS_CardinalityType DEF Roomy
<1>3. IsFiniteSet(Table) /\ Cardinality(Table) = MaxClients
  <2>1. MaxClients - 1 \in Int /\ ~(0 > MaxClients - 1) /\ (MaxClients - 1) - 0 + 1 = MaxClients
    BY SizesAssumption
  <2> QED BY <2>1, FS_Interval DEF Table
<1>4. Cardinality(Clients \ {c}) < Cardinality(Table)
  BY <1>2, <1>3, SizesAssumption DEF Roomy
<1>5. PICK i \in Table, j \in Table : i # j /\ client_socket[i] = client_socket[j]
  BY <1>1, <1>2, <1>3, <1>4, FS_PigeonHole
<1> QED BY <1>1, <1>5 DEF TableInv, TableMatchesSupervisor

\* A client connects, sends or closes.
LEMMA ServedClient ==
  ASSUME IInv, TableInv, ReadyInv, NEW c \in Clients, Client(c)
  PROVE  ReadyInv' /\ (ServedInv => ServedInv')
<1> USE DEF netVars, parentVars, logVars
<1>0. TypeOK /\ Free \notin Clients /\ Listener \notin Clients
  BY ClientsAssumption DEF IInv, BaseInv, Free, Listener
<1>1. UNCHANGED <<client_socket, readfds, parent, slot, supervisor>>
  BY DEF Client, Connect, Send, Close
<1>2. /\ \A x \in Clients : wire[x] # <<>> => wire'[x] # <<>>
      /\ \A x \in Clients : conn[x] = "closed" => conn'[x] = "closed"
      /\ \A x \in Clients : x # c => wire'[x] = wire[x] /\ conn'[x] = conn[x]
  <2>1. CASE Connect(c)
    BY <1>0, <2>1 DEF Connect, TypeOK
  <2>2. CASE Close(c)
    BY <1>0, <2>2 DEF Close, TypeOK
  <2>3. CASE Send(c)
    <3>1. Append(wire[c], <<c, sent[c] + 1>>) # <<>>
      <4>1. wire[c] \in Seq(Message)
        BY <1>0 DEF TypeOK
      <4>2. Len(Append(wire[c], <<c, sent[c] + 1>>)) = Len(wire[c]) + 1 /\ Len(wire[c]) \in Nat
        BY <4>1
      <4>3. Len(Append(wire[c], <<c, sent[c] + 1>>)) # Len(<<>>)
        BY <4>2
      <4> QED BY <4>3
    <3> QED BY <1>0, <2>3, <3>1 DEF Send, TypeOK
  <2> QED BY <2>1, <2>2, <2>3 DEF Client
<1>3. ReadyInv'
  <2>1. \A x \in Clients : Ready(x) => Ready(x)'
    BY <1>2 DEF Ready
  <2>2. \A i \in Table : client_socket[i] \in readfds => client_socket[i] \in Clients
    BY <1>0 DEF TypeOK, Free, Listener
  <2>3. NextSlot' = NextSlot
    BY <1>1 DEF NextSlot
  <2>4. parent' = "accept" =>
          \A x \in Clients : x \in readfds' => supervisor'[x] = <<"Connect">> /\ Ready(x)'
    BY <1>1, <2>1 DEF ReadyInv
  <2>5. parent' \in {"slots"} \cup Busy =>
          \A i \in Table : client_socket'[i] \in readfds' /\ i >= NextSlot' =>
            wire'[client_socket'[i]] # <<>> \/ conn'[client_socket'[i]] = "closed"
    <3> SUFFICES ASSUME parent' \in {"slots"} \cup Busy, NEW i \in Table,
                        client_socket'[i] \in readfds', i >= NextSlot'
                 PROVE  wire'[client_socket'[i]] # <<>> \/ conn'[client_socket'[i]] = "closed"
      OBVIOUS
    <3>1. PICK x \in Clients : x = client_socket[i] /\ Ready(x)
      BY <1>1, <2>2, <2>3 DEF ReadyInv
    <3>2. wire'[x] # <<>> \/ conn'[x] = "closed"
      BY <2>1, <3>1 DEF Ready
    <3> QED BY <1>1, <3>1, <3>2
  <2> QED BY <2>4, <2>5 DEF ReadyInv, Ready
<1>4. \A i \in 1..Len(backlog) : i \in 1..Len(backlog') /\ backlog'[i] = backlog[i]
  <2>1. backlog' = backlog \/ backlog' = Append(backlog, c)
    BY DEF Client, Connect, Send, Close
  <2>2. CASE backlog' = Append(backlog, c)
    <3>1. backlog \in Seq(Clients)
      BY <1>0 DEF TypeOK
    <3> QED BY <2>2, <3>1
  <2> QED BY <2>1, <2>2
<1>5. \A x \in Clients : (\E i \in 1..Len(backlog) : backlog[i] = x) =>
        \E i \in 1..Len(backlog') : backlog'[i] = x
  BY <1>4
<1>6. ASSUME ServedInv, NEW x \in Clients, x # c
      PROVE  /\ supervisor'[x] = <<>> /\ conn'[x] \in {"open", "closed", "lost"} =>
                  \E i \in 1..Len(backlog') : backlog'[i] = x
             /\ supervisor'[x] = <<"Connect">> => \E i \in Table : client_socket'[i] = x
             /\ supervisor'[x] = <<"Connect", "Disconnect">> => wire'[x] = <<>> /\ conn'[x] = "closed"
             /\ conn'[x] \in {"idle", "refused"} => wire'[x] = <<>>
  BY <1>1, <1>2, <1>5, <1>6 DEF ServedInv
<1>7. ASSUME ServedInv
      PROVE
      /\ supervisor'[c] = <<>> /\ conn'[c] \in {"open", "closed", "lost"} =>
           \E i \in 1..Len(backlog') : backlog'[i] = c
      /\ supervisor'[c] = <<"Connect">> => \E i \in Table : client_socket'[i] = c
      /\ supervisor'[c] = <<"Connect", "Disconnect">> => wire'[c] = <<>> /\ conn'[c] = "closed"
      /\ conn'[c] \in {"idle", "refused"} => wire'[c] = <<>>
  <2>1. CASE Connect(c)
    <3>1. conn[c] = "idle" /\ supervisor[c] = <<>> /\ wire[c] = <<>> /\ wire' = wire
      BY <1>7, <2>1 DEF Connect, TableInv, BacklogInv, ServedInv
    <3>2. conn'[c] = "refused" \/ (conn'[c] = "open" /\ backlog' = Append(backlog, c))
      BY <1>0, <2>1 DEF Connect, TypeOK
    <3>3. conn'[c] = "open" => \E i \in 1..Len(backlog') : backlog'[i] = c
      <4> SUFFICES ASSUME backlog' = Append(backlog, c) PROVE \E i \in 1..Len(backlog') : backlog'[i] = c
        BY <3>2
      <4>1. Len(backlog) + 1 \in 1..Len(backlog') /\ backlog'[Len(backlog) + 1] = c
        BY <1>0 DEF TypeOK
      <4> QED BY <4>1
    <3> QED BY <1>1, <3>1, <3>2, <3>3, SupervisorLines
  <2>2. CASE Send(c)
    <3>1. conn[c] = "open" /\ conn'[c] \in {"open", "lost"}
      BY <1>0, <2>2 DEF Send, TypeOK
    <3> QED BY <1>1, <1>5, <1>7, <3>1 DEF ServedInv
  <2>3. CASE Close(c)
    <3>1. conn[c] = "open" /\ conn'[c] = "closed" /\ wire' = wire
      BY <1>0, <2>3 DEF Close, TypeOK
    <3> QED BY <1>1, <1>5, <1>7, <3>1 DEF ServedInv
  <2> QED BY <2>1, <2>2, <2>3 DEF Client
<1>8. ServedInv => ServedInv'
  BY <1>6, <1>7 DEF ServedInv
<1> QED BY <1>3, <1>8

\* accept: with room for every client the one accepted goes into the table.
LEMMA ServedAccept ==
  ASSUME IInv, TableInv, ReadyInv, handle_new_connection
  PROVE  /\ ReadyInv'
         /\ Roomy /\ ServedInv => ServedInv'
<1> USE DEF clientVars
<1>0. TypeOK /\ PhaseInv /\ Free \notin Clients /\ Listener \notin Clients
  BY ClientsAssumption DEF IInv, BaseInv, Free, Listener
<1>1. /\ backlog # <<>> /\ Head(backlog) \in Clients
      /\ parent = "accept" /\ parent' = "slots"
  BY <1>0, HeadTailProperties DEF handle_new_connection, PhaseInv, Goto, TypeOK
<1>2. PICK c \in Clients : c = Head(backlog)
  BY <1>1
<1>3. /\ Len(backlog) \in Nat /\ Len(backlog) > 0 /\ c = backlog[1]
      /\ Len(Tail(backlog)) = Len(backlog) - 1
      /\ \A i \in 1..Len(Tail(backlog)) : Tail(backlog)[i] = backlog[i + 1]
  BY <1>0, <1>1, <1>2 DEF TypeOK
<1>4. supervisor[c] = <<>> /\ \A i \in Table : client_socket[i] # c
  <2>1. supervisor[c] = <<>>
    BY <1>3 DEF TableInv, BacklogInv
  <2> QED BY <1>0, <2>1, SupervisorLines DEF TableInv, TableMatchesSupervisor
<1>5. \/ client_socket' = client_socket /\ FreeSlots = {}
      \/ \E f \in FreeSlots : client_socket' = [client_socket EXCEPT ![f] = c]
  <2>1. FreeSlots \in SUBSET Nat
    BY SizesAssumption DEF FreeSlots, Table
  <2>2. FreeSlots # {} => Least(FreeSlots) \in FreeSlots
    BY <2>1, LeastFound
  <2> QED BY <1>2, <2>2 DEF handle_new_connection
<1>6. /\ supervisor' = [supervisor EXCEPT ![c] = Append(@, "Connect")] /\ backlog' = Tail(backlog)
      /\ UNCHANGED <<conn, wire, readfds, slot>>
  BY <1>2 DEF handle_new_connection
<1>7. /\ supervisor'[c] = <<"Connect">> /\ \A x \in Clients : x # c => supervisor'[x] = supervisor[x]
      /\ \A i \in Table : client_socket'[i] = client_socket[i]
                            \/ (client_socket[i] = Free /\ client_socket'[i] = c)
  BY <1>0, <1>4, <1>5, <1>6, SupervisorLines DEF TypeOK, FreeSlots
<1>8. Roomy => \E i \in Table : client_socket'[i] = c
  <2> SUFFICES ASSUME Roomy PROVE \E i \in Table : client_socket'[i] = c
    OBVIOUS
  <2>1. FreeSlots # {}
    BY <1>0, <1>4, RoomForAll
  <2> QED BY <1>0, <1>5, <2>1 DEF TypeOK, FreeSlots
<1>9. ASSUME NEW x \in Clients, x # c, \E i \in 1..Len(backlog) : backlog[i] = x
      PROVE  \E i \in 1..Len(backlog') : backlog'[i] = x
  <2>1. PICK i \in 1..Len(backlog) : backlog[i] = x
    BY <1>9
  <2>2. i # 1
    BY <1>3, <1>9, <2>1
  <2>3. i - 1 \in 1..Len(Tail(backlog)) /\ (i - 1) + 1 = i
    BY <1>3, <2>2
  <2> QED BY <1>3, <1>6, <2>1, <2>3
<1>10. ASSUME Roomy, ServedInv PROVE ServedInv'
  <2>1. ASSUME NEW x \in Clients, x # c
        PROVE  /\ supervisor'[x] = <<>> /\ conn'[x] \in {"open", "closed", "lost"} =>
                    \E i \in 1..Len(backlog') : backlog'[i] = x
               /\ supervisor'[x] = <<"Connect">> => \E i \in Table : client_socket'[i] = x
               /\ supervisor'[x] = <<"Connect", "Disconnect">> => wire'[x] = <<>> /\ conn'[x] = "closed"
               /\ conn'[x] \in {"idle", "refused"} => wire'[x] = <<>>
    <3>1. supervisor'[x] = <<"Connect">> => \E i \in Table : client_socket'[i] = x
      BY <1>0, <1>7, <1>10, <2>1 DEF ServedInv
    <3>2. supervisor'[x] = <<>> /\ conn'[x] \in {"open", "closed", "lost"} =>
            \E i \in 1..Len(backlog') : backlog'[i] = x
      BY <1>6, <1>7, <1>9, <1>10, <2>1 DEF ServedInv
    <3> QED BY <1>6, <1>7, <1>10, <2>1, <3>1, <3>2 DEF ServedInv
  <2>2. /\ supervisor'[c] = <<"Connect">> /\ \E i \in Table : client_socket'[i] = c
        /\ conn'[c] \in {"idle", "refused"} => wire'[c] = <<>>
    BY <1>6, <1>7, <1>8, <1>10 DEF ServedInv
  <2> QED BY <2>1, <2>2, SupervisorLines DEF ServedInv
<1>11. ReadyInv'
  <2>1. ASSUME NEW i \in Table, client_socket'[i] \in readfds'
        PROVE  wire'[client_socket'[i]] # <<>> \/ conn'[client_socket'[i]] = "closed"
    <3>1. c \notin readfds
      BY <1>1, <1>4, SupervisorLines DEF ReadyInv
    <3>2. client_socket'[i] = client_socket[i] /\ client_socket[i] \in readfds
      BY <1>6, <1>7, <2>1, <3>1
    <3>3. PICK x \in Clients : x = client_socket[i]
      BY <1>0, <3>2 DEF TypeOK, Free, Listener
    <3>4. wire[x] # <<>> \/ conn[x] = "closed"
      BY <1>1, <3>2, <3>3 DEF ReadyInv, Ready
    <3> QED BY <1>6, <3>2, <3>3, <3>4
  <2> QED BY <1>1, <2>1 DEF ReadyInv, Ready
<1> QED BY <1>10, <1>11
\* read at the end of a connection: all its readings were taken before.
LEMMA ServedReadEnd ==
  ASSUME IInv, TableInv, ReadyInv, ReadEnd
  PROVE  ReadyInv' /\ (ServedInv => ServedInv')
<1> USE DEF clientVars, netVars
<1>0. TypeOK /\ Free \notin Clients /\ Listener \notin Clients
  BY ClientsAssumption DEF IInv, BaseInv, Free, Listener
<1>1. PICK i \in Table, c \in Clients :
        /\ c = client_socket[i] /\ c \in readfds /\ i >= slot /\ wire[c] = <<>>
        /\ supervisor' = [supervisor EXCEPT ![c] = Append(@, "Disconnect")]
        /\ client_socket' = [client_socket EXCEPT ![i] = Free]
        /\ slot' = i + 1
        /\ UNCHANGED <<conn, wire, backlog, readfds, parent>> /\ parent = "slots"
  <2>1. Least(Pending) \in Pending
    <3>1. Pending \in SUBSET Nat
      BY SizesAssumption DEF Pending, Table
    <3> QED BY <3>1, LeastFound DEF ReadEnd
  <2> QED BY <1>0, <2>1, PendingClient DEF ReadEnd, Pending
<1>2. NextSlot = slot /\ NextSlot' = i + 1 /\ slot \in Nat
  BY <1>0, <1>1 DEF NextSlot, Busy, WriteLabels, TypeOK
<1>3. conn[c] = "closed"
  <2>1. Ready(client_socket[i])
    BY <1>1, <1>2 DEF ReadyInv
  <2> QED BY <1>1, <2>1 DEF Ready
<1>4. supervisor[c] = <<"Connect">> /\ \A j \in Table : client_socket[j] = c => j = i
  BY <1>0, <1>1 DEF TableInv, TableMatchesSupervisor
<1>5. /\ supervisor'[c] = <<"Connect", "Disconnect">>
      /\ \A x \in Clients : x # c => supervisor'[x] = supervisor[x]
      /\ client_socket'[i] = Free /\ \A j \in Table : j # i => client_socket'[j] = client_socket[j]
  BY <1>0, <1>1, <1>4, SupervisorLines DEF TypeOK
<1>6. ASSUME ServedInv PROVE ServedInv'
  <2>1. ASSUME NEW x \in Clients, x # c
        PROVE  /\ supervisor'[x] = <<>> /\ conn'[x] \in {"open", "closed", "lost"} =>
                    \E j \in 1..Len(backlog') : backlog'[j] = x
               /\ supervisor'[x] = <<"Connect">> => \E j \in Table : client_socket'[j] = x
               /\ supervisor'[x] = <<"Connect", "Disconnect">> => wire'[x] = <<>> /\ conn'[x] = "closed"
               /\ conn'[x] \in {"idle", "refused"} => wire'[x] = <<>>
    <3>1. supervisor'[x] = <<"Connect">> => \E j \in Table : client_socket'[j] = x
      BY <1>1, <1>5, <1>6, <2>1 DEF ServedInv
    <3> QED BY <1>1, <1>5, <1>6, <2>1, <3>1 DEF ServedInv
  <2>2. /\ supervisor'[c] = <<"Connect", "Disconnect">>
        /\ wire'[c] = <<>> /\ conn'[c] = "closed"
    BY <1>1, <1>3, <1>5
  <2>3. <<>> # <<"Connect", "Disconnect">> /\ <<"Connect">> # <<"Connect", "Disconnect">>
    OBVIOUS
  <2> QED BY <2>1, <2>2, <2>3 DEF ServedInv
<1>7. ReadyInv'
  <2>1. ASSUME NEW j \in Table, client_socket'[j] \in readfds', j >= i + 1
        PROVE  wire'[client_socket'[j]] # <<>> \/ conn'[client_socket'[j]] = "closed"
    <3>1. j # i /\ j >= slot
      BY <1>1, <1>2, <2>1 DEF Table
    <3>2. client_socket'[j] = client_socket[j]
      BY <1>5, <3>1
    <3>3. Ready(client_socket[j])
      BY <1>1, <1>2, <2>1, <3>1, <3>2 DEF ReadyInv
    <3> QED BY <1>1, <3>2, <3>3 DEF Ready
  <2> QED BY <1>1, <1>2, <2>1 DEF ReadyInv, Ready
<1> QED BY <1>6, <1>7

\* read of data: only the slot the round has come to loses readings.
LEMMA ServedReadData ==
  ASSUME IInv, TableInv, ReadyInv, ReadData
  PROVE  ReadyInv' /\ (ServedInv => ServedInv')
<1> USE DEF clientVars, logVars
<1>0. TypeOK /\ Free \notin Clients /\ Listener \notin Clients
  BY ClientsAssumption DEF IInv, BaseInv, Free, Listener
<1>1. PICK i \in Table, c \in Clients :
        /\ c = client_socket[i] /\ i >= slot /\ slot' = i /\ wire[c] # <<>>
        /\ \A x \in Clients : x # c => wire'[x] = wire[x]
        /\ UNCHANGED <<conn, backlog, client_socket, readfds, supervisor>>
        /\ parent = "slots" /\ parent' = "parse"
  <2>1. Least(Pending) \in Pending
    <3>1. Pending \in SUBSET Nat
      BY SizesAssumption DEF Pending, Table
    <3> QED BY <3>1, LeastFound DEF ReadData
  <2>2. PICK c \in Clients : c = client_socket[Least(Pending)]
    BY <1>0, PendingClient DEF ReadData
  <2>3. PICK k \in 1..Len(wire[c]) : wire' = [wire EXCEPT ![c] = SubSeq(@, k + 1, Len(@))]
    BY <2>2 DEF ReadData
  <2>4. wire[c] # <<>> /\ \A x \in Clients : x # c => wire'[x] = wire[x]
    BY <1>0, <2>3 DEF TypeOK
  <2> QED BY <2>1, <2>2, <2>4 DEF ReadData, Goto, Pending
<1>2. NextSlot = slot /\ NextSlot' = i + 1 /\ slot \in Nat
  BY <1>0, <1>1 DEF NextSlot, Busy, WriteLabels, TypeOK
<1>3. supervisor[c] = <<"Connect">> /\ \A j \in Table : client_socket[j] = c => j = i
  BY <1>0, <1>1 DEF TableInv, TableMatchesSupervisor
<1>4. ASSUME ServedInv PROVE ServedInv'
  <2>1. conn'[c] \notin {"idle", "refused"} /\ supervisor'[c] # <<"Connect", "Disconnect">>
    BY <1>1, <1>3, <1>4, SupervisorLines DEF ServedInv
  <2> QED BY <1>1, <1>4, <2>1 DEF ServedInv
<1>5. ReadyInv'
  <2>1. ASSUME NEW j \in Table, client_socket'[j] \in readfds', j >= i + 1
        PROVE  wire'[client_socket'[j]] # <<>> \/ conn'[client_socket'[j]] = "closed"
    <3>1. j # i /\ j >= slot
      BY <1>1, <1>2, <2>1 DEF Table
    <3>2. Ready(client_socket[j]) /\ client_socket[j] \in Clients /\ client_socket[j] # c
      <4>1. client_socket[j] \in Clients
        BY <1>0, <1>1, <2>1 DEF TypeOK, Free, Listener
      <4> QED BY <1>1, <1>2, <1>3, <2>1, <3>1, <4>1 DEF ReadyInv
    <3> QED BY <1>1, <3>2 DEF Ready
  <2> QED BY <1>1, <1>2, <2>1 DEF ReadyInv, Ready
<1> QED BY <1>4, <1>5

\* The other steps leave connections, sockets and table alone.
LEMMA ServedStill ==
  ASSUME IInv, TableInv, ReadyInv, UNCHANGED <<conn, wire, backlog, client_socket, supervisor>>,
         \/ UNCHANGED <<parent, slot, readfds>>
         \/ parent' \notin {"accept", "slots"} \cup Busy
         \/ Select \/ NoConnection \/ parsePhrase \/ WriteRecord
  PROVE  ReadyInv' /\ (ServedInv => ServedInv')
<1>0. TypeOK /\ Listener \notin Clients /\ slot \in Nat
  BY ClientsAssumption DEF IInv, BaseInv, Listener, TypeOK
<1>1. ServedInv => ServedInv'
  BY DEF ServedInv
<1> SUFFICES
      /\ parent' = "accept" =>
           \A c \in Clients : c \in readfds' => supervisor[c] = <<"Connect">> /\ Ready(c)
      /\ parent' \in {"slots"} \cup Busy =>
           \A i \in Table : client_socket[i] \in readfds' /\ i >= NextSlot' => Ready(client_socket[i])
  <2>1. Busy' = Busy
    BY DEF Busy, WriteLabels
  <2> QED BY <1>1, <2>1 DEF ReadyInv, Ready
<1>2. CASE UNCHANGED <<parent, slot, readfds>>
  BY <1>2 DEF ReadyInv, NextSlot, Busy, WriteLabels
<1>3. CASE parent' \notin {"accept", "slots"} \cup Busy
  BY <1>3
<1>4. CASE Select
  <2>1. ASSUME NEW x \in Clients, x \in readfds'
        PROVE  supervisor[x] = <<"Connect">> /\ Ready(x)
    <3>1. x \in Readable
      BY <1>4, <2>1 DEF Select
    <3>2. (\E i \in Table : client_socket[i] = x) /\ Ready(x)
      BY <1>0, <3>1 DEF Readable, Ready
    <3>3. x # Free
      BY ClientsAssumption DEF Free
    <3> QED BY <3>2, <3>3 DEF TableInv, TableMatchesSupervisor
  <2>2. parent' = "accept"
    BY <1>4 DEF Select, Goto
  <2> QED BY <2>1, <2>2 DEF Busy, WriteLabels
<1>5. CASE NoConnection
  <2>1. parent = "accept" /\ parent' = "slots" /\ readfds' = readfds
    BY <1>5 DEF NoConnection, Goto
  <2>2. ASSUME NEW i \in Table, client_socket[i] \in readfds
        PROVE  Ready(client_socket[i])
    <3>1. client_socket[i] \in Clients
      BY <1>0, <2>2, ClientsAssumption DEF TypeOK, Free, Listener
    <3> QED BY <2>1, <2>2, <3>1 DEF ReadyInv
  <2> QED BY <2>1, <2>2 DEF Busy, WriteLabels
<1>6. CASE parsePhrase
  <2>1. parent = "parse" /\ parent' \in {"write_ID", "killed"} /\ UNCHANGED <<slot, readfds>>
    BY <1>6 DEF parsePhrase, ParentEnds
  <2> QED BY <2>1 DEF ReadyInv, NextSlot, Busy, WriteLabels
<1>7. CASE WriteRecord
  <2>1. /\ parent \in Busy /\ readfds' = readfds
        /\ \/ parent' = "killed"
           \/ parent' \in Busy /\ slot' = slot
           \/ parent' = "slots" /\ slot' = slot + 1
    BY <1>7 DEF WriteRecord, WriteValue, ParentEnds, Busy, WriteLabels
  <2>2. parent' = "killed" \/ NextSlot' = NextSlot
    BY <2>1 DEF NextSlot, Busy, WriteLabels
  <2> QED BY <2>1, <2>2 DEF ReadyInv, Busy, WriteLabels
<1> QED BY <1>1, <1>2, <1>3, <1>4, <1>5, <1>6, <1>7

\* What select reported stays true until the round comes to it; and with room
\* for every client no step forgets one.
LEMMA ServedStep ==
  IInv /\ TableInv /\ ReadyInv /\ [Next]_vars =>
    ReadyInv' /\ (Roomy /\ ServedInv => ServedInv')
<1> SUFFICES ASSUME IInv, TableInv, ReadyInv, [Next]_vars
             PROVE  ReadyInv' /\ (Roomy /\ ServedInv => ServedInv')
  OBVIOUS
<1> USE DEF clientVars, netVars, parentVars, pipeVars, childVars, logVars
<1>1. CASE \E c \in Clients : Client(c)
  BY <1>1, ServedClient
<1>2. CASE handle_new_connection \/ ReadEnd \/ ReadData
  BY <1>2, ServedAccept, ServedReadEnd, ServedReadData
<1>3. CASE Select \/ NoConnection \/ parsePhrase \/ WriteRecord
  <2>1. UNCHANGED <<conn, wire, backlog, client_socket, supervisor>>
    BY <1>3 DEF Select, NoConnection, parsePhrase, WriteRecord, WriteValue
  <2> QED BY <1>3, <2>1, ServedStill
<1>4. CASE \/ Startup \/ SelectTimesOut \/ SlotsDone \/ ClosePipe \/ WaitChild \/ StartupFails
           \/ LogFails \/ KillParent
  <2>1. UNCHANGED <<conn, wire, backlog, client_socket, supervisor>>
    BY <1>4 DEF Startup, SelectTimesOut, SlotsDone, ClosePipe, WaitChild, StartupFails, LogFails,
       KillParent
  <2>2. parent' \in {"select", "close_pipe", "wait", "done", "failed", "killed"}
    BY <1>4 DEF Startup, SelectTimesOut, SlotsDone, ClosePipe, WaitChild, StartupFails, LogFails,
       KillParent, Goto, ParentEnds
  <2>3. parent' \notin {"accept", "slots"} \cup Busy
    BY <2>2 DEF Busy, WriteLabels
  <2> QED BY <2>1, <2>3, ServedStill
<1>5. CASE Child \/ Terminated \/ UNCHANGED vars
  <2>1. UNCHANGED <<conn, wire, backlog, client_socket, supervisor, parent, slot, readfds>>
    BY <1>5 DEF Child, ChildClosesWriteEnd, ReadRecord, ReadValue, AppendRecord, AppendFails,
       Terminated, vars
  <2> QED BY <2>1, ServedStill
<1> QED BY <1>1, <1>2, <1>3, <1>4, <1>5 DEF Next, Parent, handle_client_data

\* Three seconds without activity (328): when select times out, no reading that
\* a client has sent lies unread, as long as client_socket[] has room for every
\* client.
THEOREM TimeoutTheorem ==
  ASSUME IsFiniteSet(Clients), Cardinality(Clients) <= MaxClients
  PROVE  Spec => TimeoutMeansIdle
<1> DEFINE Inv == IInv /\ TableInv /\ ServedInv /\ ReadyInv
<1>1. Init => Inv
  <2> SUFFICES ASSUME Init PROVE Inv
    OBVIOUS
  <2>1. TableInv
    BY DEF Init, TableInv, TableMatchesSupervisor, BacklogInv
  <2>2. ServedInv
    <3>1. <<>> # <<"Connect", "Disconnect">>
      OBVIOUS
    <3> QED BY <3>1, SupervisorLines DEF Init, ServedInv
  <2>3. ReadyInv
    BY DEF Init, ReadyInv, Busy, WriteLabels
  <2> QED BY <2>1, <2>2, <2>3, InitBase, InitFiles DEF IInv
<1>2. Inv /\ [Next]_vars => Inv'
  BY BaseStep, FilesStep, TableStep, ServedStep DEF IInv, Roomy
<1>3. Inv => [SelectTimesOut => \A c \in Clients : wire[c] = <<>>]_vars
  <2> SUFFICES ASSUME Inv, SelectTimesOut, NEW c \in Clients PROVE wire[c] = <<>>
    OBVIOUS
  <2>0. TypeOK
    BY DEF IInv, BaseInv
  <2>1. backlog = <<>> /\ \A i \in Table : client_socket[i] = c => wire[c] = <<>>
    BY DEF SelectTimesOut, Readable
  <2>2. CASE supervisor[c] = <<>>
    <3>1. ~\E i \in 1..Len(backlog) : backlog[i] = c
      BY <2>1
    <3>2. conn[c] \in {"idle", "open", "closed", "refused", "lost"}
      BY <2>0 DEF TypeOK
    <3>3. conn[c] \in {"idle", "refused"}
      BY <2>2, <3>1, <3>2 DEF ServedInv
    <3> QED BY <3>3 DEF ServedInv
  <2>3. CASE supervisor[c] = <<"Connect">>
    BY <2>1, <2>3 DEF ServedInv
  <2>4. CASE supervisor[c] = <<"Connect", "Disconnect">>
    BY <2>4 DEF ServedInv
  <2> QED BY <2>2, <2>3, <2>4 DEF TableInv, TableMatchesSupervisor
<1> QED BY <1>1, <1>2, <1>3, PTL DEF Spec, TimeoutMeansIdle
-----------------------------------------------------------------------------
(* A logged Disconnect.                                                    *)

\* A client that has closed had sent everything; one whose Disconnect is logged
\* has closed, with nothing left in its socket or in the parent's buffer.
GoneInv ==
  /\ \A c \in Clients : conn[c] = "closed" => sent[c] = Readings
  /\ \A c \in Clients : supervisor[c] = <<"Connect", "Disconnect">> =>
       conn[c] = "closed" /\ wire[c] = <<>> /\ InParent(c) = 0

\* Unless the child has failed, its last reading is in its file, or whole in an
\* unbroken stream.
RecordedInv ==
  \A c \in Clients : supervisor[c] = <<"Connect", "Disconnect">> /\ child # "failed" =>
    \/ Kept(c) >= Readings
    \/ StreamInv /\ \E q \in Nat : Complete(q) /\ Row(q) = <<c, Readings>>

\* Everything sent by a client that is gone was passed on.
LEMMA GonePassed ==
  ASSUME TypeOK, GoneInv, NEW c \in Clients, supervisor[c] = <<"Connect", "Disconnect">>
  PROVE  Passed(c) = Readings
<1>1. Len(wire[c]) = 0 /\ sent[c] = Readings /\ InParent(c) = 0
  BY DEF GoneInv
<1> QED BY <1>1, SizesAssumption DEF Passed, Taken

\* Steps that move no reading between clients and parent, and log nothing.
LEMMA GoneStill ==
  ASSUME GoneInv, UNCHANGED <<conn, sent, wire, supervisor>>,
         parent' \in Busy => parent \in Busy /\ buffer' = buffer
  PROVE  GoneInv'
<1>1. \A c \in Clients : InParent(c)' \in {InParent(c), 0}
  BY DEF InParent, Busy, WriteLabels
<1> QED BY <1>1 DEF GoneInv

\* The parent logs a Disconnect only at the end of a connection, when it has
\* dealt with every reading it took before.
LEMMA GoneStep == IInv /\ TableInv /\ ReadyInv /\ GoneInv /\ [Next]_vars => GoneInv'
<1> SUFFICES ASSUME IInv, TableInv, ReadyInv, GoneInv, [Next]_vars PROVE GoneInv'
  OBVIOUS
<1> USE DEF clientVars, netVars, parentVars, pipeVars, childVars, logVars
<1>0. BaseInv /\ TypeOK /\ PhaseInv /\ Free \notin Clients /\ Listener \notin Clients
  BY ClientsAssumption DEF IInv, BaseInv, Free, Listener
<1>1. CASE \E c \in Clients : Client(c)
  <2>1. PICK c \in Clients : Client(c)
    BY <1>1
  <2>2. UNCHANGED <<parent, buffer, supervisor>> /\ \A x \in Clients : InParent(x)' = InParent(x)
    BY <2>1 DEF Client, Connect, Send, Close, InParent
  <2>3. CASE Connect(c)
    <3>1. conn[c] = "idle" /\ conn'[c] # "closed" /\ sent' = sent /\ wire' = wire
      BY <1>0, <2>3 DEF Connect, TypeOK
    <3>2. \A x \in Clients : x # c => conn'[x] = conn[x]
      BY <1>0, <2>3 DEF Connect, TypeOK
    <3> QED BY <2>2, <3>1, <3>2 DEF GoneInv
  <2>4. CASE Send(c)
    <3>1. conn[c] = "open" /\ conn'[c] # "closed"
      BY <1>0, <2>4 DEF Send, TypeOK
    <3>2. \A x \in Clients : x # c => conn'[x] = conn[x] /\ sent'[x] = sent[x] /\ wire'[x] = wire[x]
      BY <1>0, <2>4 DEF Send, TypeOK
    <3> QED BY <2>2, <3>1, <3>2 DEF GoneInv
  <2>5. CASE Close(c)
    <3>1. conn[c] = "open" /\ sent' = sent /\ wire' = wire /\ sent[c] = Readings
      BY <2>5 DEF Close
    <3>2. \A x \in Clients : x # c => conn'[x] = conn[x]
      BY <1>0, <2>5 DEF Close, TypeOK
    <3> QED BY <2>2, <3>1, <3>2 DEF GoneInv
  <2> QED BY <2>1, <2>3, <2>4, <2>5 DEF Client
<1>2. CASE handle_new_connection
  <2>1. backlog # <<>> /\ parent' \notin Busy
    BY <1>0, <1>2 DEF handle_new_connection, PhaseInv, Goto, Busy, WriteLabels
  <2>2. PICK c \in Clients : c = Head(backlog) /\ c = backlog[1] /\ 1 \in 1..Len(backlog)
    <3>1. Len(backlog) \in Nat /\ Len(backlog) > 0
      BY <1>0, <2>1 DEF TypeOK
    <3> QED BY <1>0, <2>1, <3>1, HeadTailProperties DEF TypeOK
  <2>3. supervisor[c] = <<>>
    BY <2>2 DEF TableInv, BacklogInv
  <2>4. supervisor'[c] = <<"Connect">> /\ \A x \in Clients : x # c => supervisor'[x] = supervisor[x]
    BY <1>0, <1>2, <2>2, <2>3, SupervisorLines DEF handle_new_connection, TypeOK
  <2>5. UNCHANGED <<conn, sent, wire>> /\ \A x \in Clients : InParent(x)' = 0
    BY <1>2, <2>1 DEF handle_new_connection, InParent, Busy, WriteLabels
  <2> QED BY <2>4, <2>5, SupervisorLines DEF GoneInv
<1>3. CASE ReadEnd
  <2>1. PICK c \in Clients, i \in Table :
          /\ c = client_socket[i] /\ c \in readfds /\ i >= slot /\ wire[c] = <<>>
          /\ \A x \in Clients : x # c => supervisor'[x] = supervisor[x]
          /\ UNCHANGED <<conn, sent, wire, parent>> /\ parent = "slots"
    <3>1. Least(Pending) \in Pending
      <4>1. Pending \in SUBSET Nat
        BY SizesAssumption DEF Pending, Table
      <4> QED BY <1>3, <4>1, LeastFound DEF ReadEnd
    <3> QED BY <1>0, <1>3, <3>1, PendingClient DEF ReadEnd, Pending, TypeOK
  <2>2. conn[c] = "closed"
    <3>1. NextSlot = slot
      BY <2>1 DEF NextSlot, Busy, WriteLabels
    <3>2. Ready(client_socket[i])
      BY <2>1, <3>1 DEF ReadyInv
    <3> QED BY <2>1, <3>2 DEF Ready
  <2>3. \A x \in Clients : InParent(x)' = 0
    BY <2>1 DEF InParent, Busy, WriteLabels
  <2> QED BY <2>1, <2>2, <2>3 DEF GoneInv
<1>4. CASE ReadData
  <2>1. PICK c \in Clients : c = client_socket[Least(Pending)]
    BY <1>0, <1>4, PendingClient DEF ReadData
  <2>2. PICK k \in 1..Len(wire[c]) : /\ buffer' = SubSeq(wire[c], 1, k)
                                     /\ wire' = [wire EXCEPT ![c] = SubSeq(@, k + 1, Len(@))]
    BY <1>4, <2>1 DEF ReadData
  <2>3. wire[c] # <<>> /\ \A x \in Clients : x # c => wire'[x] = wire[x]
    BY <1>0, <2>2 DEF TypeOK
  <2>4. UNCHANGED <<conn, sent, supervisor>>
    BY <1>4 DEF ReadData
  <2>5. buffer'[1][1] = c
    <3>1. wire[c] \in Seq(Message) /\ 1 \in 1..k
      BY <1>0, <2>2 DEF TypeOK
    <3>2. buffer'[1] = wire[c][1]
      BY <2>2, <3>1, SubSeqProperties, ElementOfSeq
    <3>3. wire[c][1] = <<c, Taken(c) + 1>>
      BY <1>0, <2>2 DEF BaseInv, WireInv
    <3> QED BY <3>2, <3>3
  <2>6. \A x \in Clients : x # c => InParent(x)' = 0
    BY <2>5 DEF InParent
  <2>7. supervisor[c] # <<"Connect", "Disconnect">>
    BY <2>3 DEF GoneInv
  <2> QED BY <2>3, <2>4, <2>6, <2>7 DEF GoneInv
<1>5. CASE parsePhrase \/ WriteRecord
  <2>1. UNCHANGED <<conn, sent, wire, supervisor, buffer>> /\ parent \in Busy
    BY <1>5 DEF parsePhrase, WriteRecord, WriteValue, Busy, WriteLabels
  <2> QED BY <2>1, GoneStill
<1>6. CASE \/ Startup \/ Select \/ SelectTimesOut \/ NoConnection \/ SlotsDone \/ ClosePipe
           \/ WaitChild \/ StartupFails \/ LogFails \/ KillParent
  <2>1. UNCHANGED <<conn, sent, wire, supervisor>>
    BY <1>6 DEF Startup, Select, SelectTimesOut, NoConnection, SlotsDone, ClosePipe, WaitChild,
       StartupFails, LogFails, KillParent
  <2>2. parent' \in {"select", "accept", "slots", "close_pipe", "wait", "done", "failed", "killed"}
    BY <1>6 DEF Startup, Select, SelectTimesOut, NoConnection, SlotsDone, ClosePipe, WaitChild,
       StartupFails, LogFails, KillParent, Goto, ParentEnds
  <2> QED BY <2>1, <2>2, GoneStill DEF Busy, WriteLabels
<1>7. CASE Child \/ Terminated \/ UNCHANGED vars
  <2>1. UNCHANGED <<conn, sent, wire, supervisor, parent, buffer>>
    BY <1>7 DEF Child, ChildClosesWriteEnd, ReadRecord, ReadValue, AppendRecord, AppendFails,
       Terminated, vars
  <2> QED BY <2>1, GoneStill
<1> QED BY <1>1, <1>2, <1>3, <1>4, <1>5, <1>6, <1>7 DEF Next, Parent, handle_client_data

\* A complete record stays in the stream, as record q or as record q - 1, until
\* the child has put it in its file.
LEMMA RowStays ==
  ASSUME IInv, [Next]_vars, StreamInv, child' # "failed", NEW q \in Nat, Complete(q)
  PROVE  \/ Complete(q)' /\ Row(q)' = Row(q)
         \/ /\ AppendRecord
            /\ q # 0 => /\ q - 1 \in Nat
                        /\ Complete(q - 1)' /\ Row(q - 1)' = Row(q)
<1> USE DEF clientVars, netVars, parentVars, pipeVars, childVars, logVars
<1>0. TypeOK /\ StreamLen \in Nat /\ 4*q + 4 <= StreamLen
  BY DEF IInv, BaseInv, TypeOK, StreamLen, InHand, ValuesRead, Complete
<1>1. ASSUME StreamLen' >= StreamLen, StreamLen' \in Nat,
             \A p \in Nat, s \in 1..4 : 4*p + s <= StreamLen => Cell(p, s)' = Cell(p, s)
      PROVE  Complete(q)' /\ Row(q)' = Row(q)
  BY <1>0, <1>1 DEF Complete, Row
<1>2. CASE UNCHANGED <<pipe, record>> /\ InHand' = InHand
  <2>1. StreamLen' = StreamLen /\ \A p \in Nat, s \in 1..4 : Cell(p, s)' = Cell(p, s)
    BY <1>2 DEF StreamLen, Cell
  <2> QED BY <1>0, <1>1, <2>1
<1>3. CASE WriteRecord /\ ~ChildEnded
  <2>1. PICK x : pipe' = Append(pipe, x) /\ UNCHANGED childVars
    BY <1>3 DEF WriteRecord, WriteValue
  <2>2. InHand' = InHand /\ record' = record
    BY <2>1 DEF InHand, ValuesRead
  <2>3. /\ StreamLen' = StreamLen + 1
        /\ \A p \in Nat, s \in 1..4 : 4*p + s <= StreamLen => Cell(p, s)' = Cell(p, s)
    BY <1>0, <2>1, <2>2, StreamWrite
  <2> QED BY <1>0, <1>1, <2>3
<1>4. CASE ReadRecord
  <2>1. pipe # <<>>
    <3> SUFFICES ASSUME pipe = <<>> PROVE FALSE
      OBVIOUS
    <3>1. StreamLen <= 3
      BY <1>4 DEF ReadRecord, ReadValue, StreamLen, InHand, ValuesRead
    <3> QED BY <1>0, <3>1
  <2>2. PICK r \in 1..4 : /\ InHand = r - 1 /\ InHand' = r
                          /\ record' = [record EXCEPT ![Kinds[r]] = Head(pipe)[2]]
    BY <1>4, <2>1, KindOrder DEF ReadRecord, ReadValue, InHand, ValuesRead
  <2>3. pipe' = Tail(pipe) /\ child \in {"read_ID", "read_TEMP", "read_TIME", "read_name"}
    BY <1>4, <2>1 DEF ReadRecord, ReadValue
  <2>4. Head(pipe)[1] = Kinds[r]
    BY <2>1, <2>2, <2>3, HeadKind DEF IInv
  <2>5. /\ StreamLen' = StreamLen
        /\ \A p \in Nat, s \in 1..4 : 4*p + s <= StreamLen => Cell(p, s)' = Cell(p, s)
    BY <1>0, <2>1, <2>2, <2>3, <2>4, StreamRead
  <2> QED BY <1>0, <1>1, <2>5
<1>5. CASE AppendRecord
  <2>1. InHand = 4 /\ InHand' = 0 /\ pipe' = pipe
    BY <1>5 DEF AppendRecord, InHand, ValuesRead
  <2>2. /\ StreamLen' = StreamLen - 4
        /\ \A p \in Nat, s \in 1..4 : Cell(p, s)' = Cell(p + 1, s)
    BY <1>0, <2>1, StreamAppend
  <2>3. ASSUME q # 0 PROVE q - 1 \in Nat /\ Complete(q - 1)' /\ Row(q - 1)' = Row(q)
    <3>1. q - 1 \in Nat /\ (q - 1) + 1 = q /\ 4*(q - 1) + 4 <= StreamLen - 4
      BY <1>0, <2>3
    <3>2. Complete(q - 1)'
      BY <2>2, <3>1 DEF Complete
    <3>3. Row(q - 1)' = Row(q)
      BY <2>2, <3>1 DEF Row
    <3> QED BY <3>1, <3>2, <3>3
  <2> QED BY <1>5, <2>3
<1>6. CASE \/ \E c \in Clients : Client(c)
           \/ Startup \/ Select \/ SelectTimesOut \/ NoConnection \/ handle_new_connection
           \/ ReadEnd \/ ReadData \/ SlotsDone \/ parsePhrase \/ (WriteRecord /\ ChildEnded)
           \/ ClosePipe \/ WaitChild \/ StartupFails \/ LogFails \/ KillParent
  <2>1. UNCHANGED <<pipe, record>> /\ (child' = child \/ (parent = "start" /\ child' = "close"))
    BY <1>6 DEF Client, Connect, Send, Close, Startup, Select, SelectTimesOut, NoConnection,
       handle_new_connection, ReadEnd, ReadData, SlotsDone, parsePhrase, WriteRecord, WriteValue,
       ClosePipe, WaitChild, StartupFails, LogFails, KillParent, Goto
  <2>2. parent = "start" => child = "unborn"
    BY DEF IInv, BaseInv, PhaseInv
  <2> QED BY <1>2, <2>1, <2>2 DEF InHand, ValuesRead
<1>7. CASE ChildClosesWriteEnd \/ Terminated \/ UNCHANGED vars
  <2>1. UNCHANGED <<pipe, record>> /\ (child' = child \/ (child = "close" /\ child' = "read_ID"))
    BY <1>7 DEF ChildClosesWriteEnd, Terminated, vars
  <2> QED BY <1>2, <2>1 DEF InHand, ValuesRead
<1>8. ~AppendFails
  BY DEF AppendFails
<1> QED BY <1>3, <1>4, <1>5, <1>6, <1>7, <1>8 DEF Next, Parent, handle_client_data, Child

\* Lines are only added to a file.
LEMMA KeptGrows ==
  ASSUME IInv, [Next]_vars, NEW c \in Clients
  PROVE  Kept(c)' >= Kept(c) /\ Kept(c) \in Nat /\ Kept(c)' \in Nat
<1> USE DEF clientVars, netVars, parentVars, pipeVars, childVars, logVars
<1>0. TypeOK /\ FilesType /\ FilesType' /\ Kept(c) \in Nat
  <2>1. BaseInv /\ BaseInv'
    BY BaseStep DEF IInv
  <2> QED BY <2>1 DEF BaseInv, FilesType, Kept
<1>1. Kept(c)' \in Nat
  BY <1>0 DEF FilesType, Kept
<1>2. CASE AppendRecord
  <2>0. record \in Record
    BY <1>0 DEF TypeOK, Record
  <2>1. <<record>> \in Seq(Record) /\ head = <<>> /\ files[c] \in Seq(Record)
    BY <1>0, <2>0 DEF FilesType
  <2>2. files'[c] = files[c] \/ files'[c] = files[c] \o (<<record>> \o head)
    BY <1>0, <1>2 DEF AppendRecord, FilesType
  <2>3. <<record>> \o head = <<record>>
    BY <2>1
  <2>4. Len(files[c] \o <<record>>) = Len(files[c]) + 1
    BY <2>1, ConcatProperties
  <2>5. Len(files'[c]) >= Len(files[c])
    <3>1. Len(files[c]) \in Nat
      BY <1>0 DEF Kept
    <3>2. CASE files'[c] = files[c]
      BY <3>1, <3>2
    <3>3. CASE files'[c] = files[c] \o (<<record>> \o head)
      <4>1. Len(files'[c]) = Len(files[c]) + 1
        BY <2>3, <2>4, <3>3, Zenon
      <4> QED BY <3>1, <4>1
    <3> QED BY <2>2, <3>2, <3>3
  <2> QED BY <1>0, <1>1, <2>5 DEF Kept
<1>3. CASE ~AppendRecord
  <2>1. files' = files
    BY <1>3 DEF Next, Client, Connect, Send, Close, Parent, Startup, Select, SelectTimesOut,
       NoConnection, handle_new_connection, handle_client_data, ReadEnd, ReadData, SlotsDone,
       parsePhrase, WriteRecord, WriteValue, ClosePipe, WaitChild, StartupFails, LogFails,
       KillParent, Child, ChildClosesWriteEnd, ReadRecord, ReadValue, AppendFails, Terminated, vars
  <2> QED BY <1>0, <2>1 DEF Kept
<1> QED BY <1>1, <1>2, <1>3, <1>0

\* What the child appends is the first record of the stream, and it is the next
\* line of its client's file.
LEMMA AppendKeeps ==
  ASSUME IInv, StreamInv, AppendRecord, NEW c \in Clients, NEW k \in 1..Readings,
         Row(0) = <<c, k>>
  PROVE  Kept(c)' >= k
<1> USE DEF clientVars, netVars, parentVars, pipeVars, logVars
<1>0. TypeOK /\ FilesType
  BY DEF IInv, BaseInv
<1>1. InHand = 4 /\ Complete(0) /\ 4*0 + 4 <= StreamLen
  BY <1>0 DEF AppendRecord, InHand, ValuesRead, Complete, StreamLen, TypeOK
<1>2. record.filename = <<c, k>>
  <2>1. Cell(0, 4) = <<"filename", record.filename>>
    BY <1>1, KindOrder DEF Cell
  <2>2. Cell(0, 4) = <<"filename", Row(0)>>
    BY <1>1 DEF StreamInv, CellsInv
  <2> QED BY <2>1, <2>2
<1>3. Kept(c) \in Nat /\ Kept(c) + 1 >= k
  <2>1. Kept(c) \in Nat
    BY <1>0 DEF Kept, FilesType
  <2>2. ASSUME Kept(c) + 1 < k PROVE FALSE
    <3>1. Kept(c) + 1 \in 1..Readings
      BY <2>1, <2>2, SizesAssumption
    <3>2. \E p \in Nat : p < 0 /\ Row(p) = <<Row(0)[1], Kept(c) + 1>>
      BY <1>1, <2>1, <2>2, <3>1 DEF StreamInv, RowsInv
    <3> QED BY <3>2
  <2> QED BY <2>1, <2>2
<1>4. Kept(c)' = Kept(c) + 1
  <2>0. record \in Record
    BY <1>0 DEF TypeOK, Record
  <2>1. <<record>> \in Seq(Record) /\ head = <<>> /\ files[c] \in Seq(Record)
    BY <1>0, <2>0 DEF FilesType
  <2>2. <<record>> \o head = <<record>> /\ record.filename # Junk /\ record.filename[1] = c
    BY <1>2, <2>1 DEF Junk
  <2>3. files'[c] = files[c] \o <<record>>
    BY <1>0, <2>2 DEF AppendRecord, FilesType
  <2>4. Len(files[c] \o <<record>>) = Len(files[c]) + 1
    BY <2>1, ConcatProperties
  <2> QED BY <2>3, <2>4 DEF Kept
<1> QED BY <1>3, <1>4

\* A Disconnect is logged with the client's last reading in the stream or in its
\* file, and what is there stays until it is in the file.
LEMMA RecordedStep ==
  IInv /\ TableInv /\ ReadyInv /\ GoneInv /\ RecordedInv /\ [Next]_vars => RecordedInv'
<1> SUFFICES ASSUME IInv, TableInv, ReadyInv, GoneInv, RecordedInv, [Next]_vars,
                    NEW c \in Clients, supervisor'[c] = <<"Connect", "Disconnect">>,
                    child' # "failed"
             PROVE  \/ Kept(c)' >= Readings
                    \/ StreamInv' /\ \E q \in Nat : Complete(q)' /\ Row(q)' = <<c, Readings>>
  BY DEF RecordedInv
<1> USE DEF clientVars, netVars, parentVars, pipeVars, childVars, logVars
<1>0. /\ TypeOK /\ FilesInv /\ GoneInv'
      /\ Kept(c)' >= Kept(c) /\ Kept(c) \in Nat /\ Kept(c)' \in Nat /\ Readings \in Nat
  BY GoneStep, KeptGrows, SizesAssumption DEF IInv, BaseInv
<1>1. child # "failed"
  BY DEF Next, Client, Connect, Send, Close, Parent, Startup, Select, SelectTimesOut,
     NoConnection, handle_new_connection, handle_client_data, ReadEnd, ReadData, SlotsDone,
     parsePhrase, WriteRecord, WriteValue, ClosePipe, WaitChild, StartupFails, LogFails,
     KillParent, Child, ChildClosesWriteEnd, ReadRecord, ReadValue, AppendRecord, AppendFails,
     Terminated, vars, IInv, BaseInv, PhaseInv, Goto
<1>2. CASE supervisor[c] = <<"Connect", "Disconnect">>
  <2>1. CASE Kept(c) >= Readings
    BY <1>0, <2>1
  <2>2. ASSUME StreamInv, NEW q \in Nat, Complete(q), Row(q) = <<c, Readings>>
        PROVE  \/ Kept(c)' >= Readings
               \/ StreamInv' /\ \E p \in Nat : Complete(p)' /\ Row(p)' = <<c, Readings>>
    <3>1. StreamLen >= 4
      BY <1>0, <2>2 DEF Complete, StreamLen, InHand, ValuesRead, TypeOK
    <3>2. StreamInv'
      BY <2>2, <3>1, FilesStep DEF StreamLasts
    <3>3. CASE Complete(q)' /\ Row(q)' = Row(q)
      BY <2>2, <3>2, <3>3
    <3>4. CASE AppendRecord /\ q = 0
      <4>1. Readings \in 1..Readings
        BY SizesAssumption
      <4> QED BY <2>2, <3>4, <4>1, AppendKeeps
    <3>5. CASE q - 1 \in Nat /\ Complete(q - 1)' /\ Row(q - 1)' = Row(q)
      BY <2>2, <3>2, <3>5
    <3> QED BY <2>2, <3>3, <3>4, <3>5, RowStays
  <2> QED BY <1>1, <1>2, <2>1, <2>2 DEF RecordedInv
<1>3. CASE supervisor[c] # <<"Connect", "Disconnect">>
  <2>1. supervisor' # supervisor
    BY <1>3
  <2>2. ReadEnd \/ handle_new_connection
    BY <2>1 DEF Next, Client, Connect, Send, Close, Parent, Startup, Select, SelectTimesOut,
       NoConnection, handle_client_data, ReadData, SlotsDone,
       parsePhrase, WriteRecord, WriteValue, ClosePipe, WaitChild, StartupFails, LogFails,
       KillParent, Child, ChildClosesWriteEnd, ReadRecord, ReadValue, AppendRecord, AppendFails,
       Terminated, vars
  <2>3. /\ UNCHANGED <<conn, sent, wire, pipe, record, child, files, buffer>>
        /\ parent \in {"accept", "slots"} /\ parent' = "slots"
    BY <2>2 DEF ReadEnd, handle_new_connection, Goto
  <2>4. Passed(c)' = Readings
    <3>1. sent'[c] = Readings /\ wire'[c] = <<>> /\ InParent(c)' = 0
      BY <1>0 DEF GoneInv
    <3> QED BY <3>1, SizesAssumption DEF Passed, Taken
  <2>5. Passed(c) = Readings
    BY <2>3, <2>4 DEF Passed, Taken, InParent, Busy, WriteLabels
  <2>6. StreamInv
    BY <1>0, <1>1, <2>3 DEF FilesInv, CutShort
  <2>7. CASE Kept(c) < Readings
    <3>1. PICK q \in Nat : Complete(q) /\ Row(q) = <<c, Readings>>
      BY <2>3, <2>5, <2>6, <2>7 DEF StreamInv, PassedInv
    <3>2. StreamLen >= 4
      BY <1>0, <3>1 DEF Complete, StreamLen, InHand, ValuesRead, TypeOK
    <3>3. StreamInv'
      BY <2>6, <3>2, FilesStep DEF StreamLasts
    <3>4. ~AppendRecord
      BY <2>1 DEF AppendRecord
    <3>5. Complete(q)' /\ Row(q)' = Row(q)
      BY <2>6, <3>1, <3>4, RowStays
    <3> QED BY <3>1, <3>3, <3>5
  <2> QED BY <1>0, <2>7
<1> QED BY <1>2, <1>3

\* A client whose Disconnect is in Supervisor.txt has all its readings in its file
\* when the child reaches the end of the pipe, whatever became of the parent after
\* it wrote that line (193, 282-287): what DisconnectedIsRecorded says of the end.
Recorded ==
  \A c \in Clients : supervisor[c] = <<"Connect", "Disconnect">> /\ child = "exited" =>
    Len(files[c]) >= Readings

\* The safe half of DisconnectedIsRecorded: the child does not exit before.
THEOREM RecordedTheorem == Spec => []Recorded
<1> DEFINE Inv == IInv /\ TableInv /\ ReadyInv /\ GoneInv /\ RecordedInv
<1>1. Init => Inv
  <2> SUFFICES ASSUME Init PROVE Inv
    OBVIOUS
  <2>1. TableInv
    BY DEF Init, TableInv, TableMatchesSupervisor, BacklogInv
  <2>2. ReadyInv
    BY DEF Init, ReadyInv, Busy, WriteLabels
  <2>3. <<>> # <<"Connect", "Disconnect">>
    OBVIOUS
  <2>4. GoneInv /\ RecordedInv
    BY <2>3 DEF Init, GoneInv, RecordedInv
  <2> QED BY <2>1, <2>2, <2>4, InitBase, InitFiles DEF IInv
<1>2. Inv /\ [Next]_vars => Inv'
  BY BaseStep, FilesStep, TableStep, ServedStep, GoneStep, RecordedStep DEF IInv
<1>3. Inv => Recorded
  <2> SUFFICES ASSUME Inv, NEW c \in Clients, supervisor[c] = <<"Connect", "Disconnect">>,
                      child = "exited"
               PROVE  Kept(c) >= Readings
    BY DEF Recorded, Kept
  <2>1. StreamLen = 0
    BY DEF IInv, BaseInv, PhaseInv, StreamLen, InHand, ValuesRead
  <2>2. \A q \in Nat : ~Complete(q)
    BY <2>1 DEF Complete
  <2> QED BY <2>2 DEF RecordedInv
<1> QED BY <1>1, <1>2, <1>3, PTL DEF Spec
-----------------------------------------------------------------------------
(* No standstill.                                                          *)

\* The parent cannot go on: it has ended, it waits for the child, or the pipe is
\* full.  Select always goes on, if only because it times out.
ParentBlocked ==
  \/ Ended
  \/ parent = "wait" /\ ~ChildEnded
  \/ parent \in WriteLabels /\ ~ChildEnded /\ Len(pipe) = PipeCapacity

\* The child cannot go on: it is not there, or the pipe is empty and somebody may
\* still write.
ChildBlocked ==
  \/ child = "unborn" \/ ChildEnded
  \/ /\ child \in {"read_ID", "read_TEMP", "read_TIME", "read_name"}
     /\ pipe = <<>> /\ writers # {}

\* Parent and child are never both blocked unless both have ended: a full pipe
\* finds the child reading, and once the parent waits or is gone nobody holds the
\* write end that would keep the child waiting for more (216-219, 274, 341-342).
NoStandstill == ParentBlocked /\ ChildBlocked => Ended /\ (child = "unborn" \/ ChildEnded)

\* The parent has closed its write end when it waits.
WriteEndInv == parent \in {"wait", "done", "failed", "killed"} => "parent" \notin writers

\* Nobody opens the write end again.
LEMMA WriteEndStep == IInv /\ WriteEndInv /\ [Next]_vars => WriteEndInv'
<1> SUFFICES ASSUME IInv, WriteEndInv, [Next]_vars PROVE WriteEndInv'
  OBVIOUS
<1> USE DEF clientVars, netVars, parentVars, pipeVars, childVars, logVars
<1>1. CASE StartupFails \/ LogFails \/ KillParent \/ ClosePipe
  BY <1>1 DEF StartupFails, LogFails, KillParent, ParentEnds, ClosePipe, WriteEndInv
<1>2. CASE parsePhrase \/ WriteRecord
  BY <1>2 DEF parsePhrase, WriteRecord, WriteValue, ParentEnds, WriteEndInv
<1>3. CASE \/ Startup \/ Select \/ SelectTimesOut \/ NoConnection \/ handle_new_connection
           \/ ReadEnd \/ ReadData \/ SlotsDone \/ WaitChild
  BY <1>3 DEF Startup, Select, SelectTimesOut, NoConnection, handle_new_connection,
     ReadEnd, ReadData, SlotsDone, WaitChild, Goto, WriteEndInv
<1>4. CASE (\E c \in Clients : Client(c)) \/ Child \/ Terminated \/ UNCHANGED vars
  <2>1. parent' = parent /\ writers' \subseteq writers
    BY <1>4 DEF Client, Connect, Send, Close, Child, ChildClosesWriteEnd, ReadRecord, ReadValue,
       AppendRecord, AppendFails, Terminated, vars
  <2> QED BY <2>1 DEF WriteEndInv
<1> QED BY <1>1, <1>2, <1>3, <1>4 DEF Next, Parent, handle_client_data

\* Whoever waits, the other one can go on: what EverybodyEnds needs of every state.
THEOREM StandstillTheorem == Spec => []NoStandstill
<1> DEFINE Inv == IInv /\ WriteEndInv
<1>1. Init => Inv
  <2>1. Init => WriteEndInv
    BY DEF Init, WriteEndInv
  <2> QED BY <2>1, InitBase, InitFiles DEF IInv
<1>2. Inv /\ [Next]_vars => Inv'
  BY BaseStep, FilesStep, WriteEndStep DEF IInv
<1>3. Inv => NoStandstill
  <2> SUFFICES ASSUME Inv, ParentBlocked, ChildBlocked
               PROVE  Ended /\ (child = "unborn" \/ ChildEnded)
    BY DEF NoStandstill
  <2>0. TypeOK /\ PhaseInv
    BY DEF IInv, BaseInv
  <2>1. child = "unborn" => Ended
    BY <2>0 DEF PhaseInv, ParentBlocked, WriteLabels, Ended
  <2>2. ASSUME child \in {"read_ID", "read_TEMP", "read_TIME", "read_name"}
        PROVE  ~(pipe = <<>> /\ writers # {})
    <3> SUFFICES ASSUME pipe = <<>>, writers # {} PROVE FALSE
      OBVIOUS
    <3>1. Len(pipe) = 0 /\ PipeCapacity # 0
      BY SizesAssumption
    <3>2. "parent" \notin writers
      BY <3>1 DEF ParentBlocked, WriteEndInv, Ended
    <3>3. "child" \notin writers
      BY <2>0, <2>2 DEF PhaseInv
    <3> QED BY <2>0, <3>2, <3>3 DEF TypeOK
  <2>3. ChildEnded => Ended
    BY DEF ParentBlocked
  <2> QED BY <2>1, <2>2, <2>3 DEF ChildBlocked
<1> QED BY <1>1, <1>2, <1>3, PTL DEF Spec
=============================================================================
