----------------------------- MODULE SensorServer -----------------------------
(***************************************************************************)
(* The temperature server of Server_client/src: clients that connect, send *)
(* a fixed number of readings and close; the parent of server.c, a select  *)
(* loop over a table of sockets; a pipe; and the child that copies what    *)
(* comes out of the pipe into one file per client.                         *)
(*                                                                         *)
(* A step is one system call that can block, be seen by another process or *)
(* fail.  A reading is <<client, number>>: its text is                     *)
(* "ID<client>/<temperature>/<time>", with nothing between two of them on  *)
(* the stream.  A client's readings together are far shorter than one TCP  *)
(* segment and than the read buffer, so a read returns whole readings; how *)
(* many, TCP decides.                                                      *)
(***************************************************************************)
EXTENDS Integers, Sequences, FiniteSets

CONSTANTS
  Clients,        \* the client programs that are started
  Readings,       \* readings a client sends (10 in client_test_1.c)
  MaxClients,     \* MAX_CLIENTS, the size of client_socket[]
  PipeCapacity,   \* values the pipe holds (a bound; 65536 bytes in Linux)
  UnusualReadings,\* readings outside 23..26 degrees
  DiskMayFail,    \* TRUE if an fopen may fail
  ParentMayDie    \* TRUE if the parent may be killed from outside

Message == Clients \X (1..Readings)
Table == 0..(MaxClients - 1)
Free == 0            \* client_socket[i] == 0
Listener == -1       \* server_fd
Junk == <<>>         \* an uninitialised variable

ASSUME SizesAssumption ==
  /\ Readings \in Nat \ {0}
  /\ MaxClients \in Nat \ {0}
  /\ PipeCapacity \in Nat \ {0}
ASSUME ClientsAssumption == Clients \subseteq Nat \ {0}   \* by the id they send
ASSUME FaultsAssumption ==
  /\ UnusualReadings \subseteq Message
  /\ DiskMayFail \in BOOLEAN
  /\ ParentMayDie \in BOOLEAN

VARIABLES
  conn,           \* what each client is doing
  sent,           \* readings each client has sent
  wire,           \* readings in the server's receive buffer of each connection
  backlog,        \* connections made and not yet accepted
  client_socket,  \* the table: whose connection is in each slot
  readfds,        \* what select reported readable
  parent,         \* the parent's next step
  slot,           \* the loop index i of handle_client_data
  buffer,         \* what the last read returned
  pipe,           \* values in the pipe, oldest first
  writers,        \* processes that hold the pipe's write end
  child,          \* the child's next step
  record,         \* its local variables ID, TEMP, TIME and filename
  head,           \* its linked list
  files,          \* client_<id>.txt, header left out
  supervisor,     \* each client's lines in Supervisor.txt
  unusual         \* Unusual.txt

clientVars == <<conn, sent>>
netVars == <<wire, backlog>>
parentVars == <<client_socket, readfds, parent, slot, buffer>>
pipeVars == <<pipe, writers>>
childVars == <<child, record, head, files>>
logVars == <<supervisor, unusual>>
vars == <<clientVars, netVars, parentVars, pipeVars, childVars, logVars>>

Up == parent \notin {"start", "done", "failed", "killed"}
Ended == parent \in {"done", "failed", "killed"}
ChildEnded == child \in {"exited", "failed"}

Init ==
  /\ conn = [c \in Clients |-> "idle"]
  /\ sent = [c \in Clients |-> 0]
  /\ wire = [c \in Clients |-> <<>>]
  /\ backlog = <<>>
  /\ client_socket = [i \in Table |-> Free]
  /\ readfds = {}
  /\ parent = "start"
  /\ slot = 0
  /\ buffer = <<>>
  /\ pipe = <<>>
  /\ writers = {"parent"}
  /\ child = "unborn"
  /\ record = [ID |-> -1, TEMP |-> Junk, TIME |-> Junk, filename |-> Junk]
  /\ head = <<>>
  /\ files = [c \in Clients |-> <<>>]
  /\ supervisor = [c \in Clients |-> <<>>]
  /\ unusual = {}

-----------------------------------------------------------------------------
(* Clients.                                                                *)

\* connect: the kernel completes the connection; accept comes later.
Connect(c) ==
  /\ conn[c] = "idle"
  /\ IF Up
       THEN /\ conn' = [conn EXCEPT ![c] = "open"]
            /\ backlog' = Append(backlog, c)
       ELSE /\ conn' = [conn EXCEPT ![c] = "refused"]
            /\ UNCHANGED backlog
  /\ UNCHANGED <<sent, wire, parentVars, pipeVars, childVars, logVars>>

\* send, then sleep(2).  Once the server has gone a send draws a reset and a
\* later one SIGPIPE.
Send(c) ==
  /\ conn[c] = "open"
  /\ sent[c] < Readings
  /\ IF Ended
       THEN conn' = [conn EXCEPT ![c] = "lost"] /\ UNCHANGED <<sent, wire>>
       ELSE /\ sent' = [sent EXCEPT ![c] = @ + 1]
            /\ wire' = [wire EXCEPT ![c] = Append(@, <<c, sent[c] + 1>>)]
            /\ UNCHANGED conn
  /\ UNCHANGED <<backlog, parentVars, pipeVars, childVars, logVars>>

Close(c) ==
  /\ conn[c] = "open"
  /\ sent[c] = Readings
  /\ conn' = [conn EXCEPT ![c] = "closed"]
  /\ UNCHANGED <<sent, netVars, parentVars, pipeVars, childVars, logVars>>

Client(c) == Connect(c) \/ Send(c) \/ Close(c)

-----------------------------------------------------------------------------
(* The parent.                                                             *)

Goto(from, to) == parent = from /\ parent' = to

\* The parent is gone: the kernel closes its write end and its sockets.
ParentEnds(how) ==
  /\ parent' = how
  /\ writers' = writers \ {"parent"}

\* pipe, socket, bind, listen, fork, close(pipe_fds[0]).  The child inherits
\* both ends of the pipe.
Startup ==
  /\ Goto("start", "select")
  /\ child' = "close"
  /\ writers' = {"parent", "child"}
  /\ UNCHANGED <<clientVars, netVars, client_socket, readfds, slot, buffer, pipe, record,
                 head, files, logVars>>

StartupFails ==
  /\ parent = "start"
  /\ ParentEnds("failed")
  /\ UNCHANGED <<clientVars, netVars, client_socket, readfds, slot, buffer, pipe,
                 childVars, logVars>>

\* Mutant: the loop that builds the descriptor set stops one slot early.
ReadableButLast ==
  {x \in Clients : /\ \E i \in Table \ {MaxClients - 1} : client_socket[i] = x
                   /\ wire[x] # <<>> \/ conn[x] = "closed"}
    \cup (IF backlog # <<>> THEN {Listener} ELSE {})

\* Readable: the listener with a connection waiting, a socket in the table
\* with data or at its end.
Readable ==
  {x \in Clients : /\ \E i \in Table : client_socket[i] = x
                   /\ wire[x] # <<>> \/ conn[x] = "closed"}
    \cup (IF backlog # <<>> THEN {Listener} ELSE {})

\* The descriptor set is rebuilt from the table before every call.
Select ==
  /\ Goto("select", "accept")
  /\ Readable # {}
  /\ readfds' = Readable
  /\ UNCHANGED <<clientVars, netVars, client_socket, slot, buffer, pipeVars, childVars,
                 logVars>>

\* Three seconds without activity.
SelectTimesOut ==
  /\ Goto("select", "close_pipe")
  /\ Readable = {}
  /\ UNCHANGED <<clientVars, netVars, client_socket, readfds, slot, buffer, pipeVars,
                 childVars, logVars>>

Least(S) == CHOOSE i \in S : \A j \in S : i <= j
FreeSlots == {i \in Table : client_socket[i] = Free}

NoConnection ==
  /\ Goto("accept", "slots")
  /\ Listener \notin readfds
  /\ UNCHANGED <<clientVars, netVars, client_socket, readfds, slot, buffer, pipeVars,
                 childVars, logVars>>

\* accept, log Connect, take the first free slot.  With no slot free the
\* descriptor is forgotten: nobody will read or close it.
handle_new_connection ==
  /\ Goto("accept", "slots")
  /\ Listener \in readfds
  /\ LET c == Head(backlog) IN
     /\ supervisor' = [supervisor EXCEPT ![c] = Append(@, "Connect")]
     /\ client_socket' =
          IF FreeSlots = {} THEN client_socket
                            ELSE [client_socket EXCEPT ![Least(FreeSlots)] = c]
  /\ backlog' = Tail(backlog)
  /\ UNCHANGED <<clientVars, wire, readfds, slot, buffer, pipeVars, childVars, unusual>>

\* The remaining slots, in order, whose socket select reported.
Pending == {i \in Table : i >= slot /\ client_socket[i] \in readfds}

\* read returned 0: log Disconnect, close the socket, free the slot.
ReadEnd ==
  /\ parent = "slots"
  /\ Pending # {}
  /\ LET i == Least(Pending)
         c == client_socket[i]
     IN /\ wire[c] = <<>>
        /\ supervisor' = [supervisor EXCEPT ![c] = Append(@, "Disconnect")]
        /\ client_socket' = [client_socket EXCEPT ![i] = Free]
        /\ slot' = i + 1
  /\ UNCHANGED <<clientVars, netVars, readfds, parent, buffer, pipeVars, childVars, unusual>>

\* read returned data: one reading or, if more have arrived, several.
ReadData ==
  /\ Goto("slots", "parse")
  /\ Pending # {}
  /\ LET i == Least(Pending)
         c == client_socket[i]
     IN /\ \E k \in 1..Len(wire[c]) :
             /\ buffer' = SubSeq(wire[c], 1, k)
             /\ wire' = [wire EXCEPT ![c] = SubSeq(@, k + 1, Len(@))]
        /\ slot' = i
  /\ UNCHANGED <<clientVars, backlog, client_socket, readfds, pipeVars, childVars, logVars>>

SlotsDone ==
  /\ Goto("slots", "select")
  /\ Pending = {}
  /\ slot' = 0
  /\ UNCHANGED <<clientVars, netVars, client_socket, readfds, buffer, pipeVars, childVars,
                 logVars>>

\* Mutant: unusual readings are printed but not logged.
ParseWithoutLog ==
  /\ Goto("parse", "write_ID")
  /\ Len(buffer) = 1
  /\ UNCHANGED <<clientVars, netVars, client_socket, readfds, slot, buffer, pipeVars,
                 childVars, logVars>>

\* One reading parses; an unusual one is logged with the values of the first.
\* Two readings run together do not fit time[15]: the stack protector aborts
\* the process when the function returns, after the logging.
parsePhrase ==
  /\ parent = "parse"
  /\ unusual' = unusual \cup ({buffer[1]} \cap UnusualReadings)
  /\ IF Len(buffer) = 1
       THEN parent' = "write_ID" /\ UNCHANGED writers
       ELSE ParentEnds("killed")
  /\ UNCHANGED <<clientVars, netVars, client_socket, readfds, slot, buffer, pipe, childVars,
                 supervisor>>

\* fopen failed for Supervisor.txt or Unusual.txt: handle_error.
LogFails ==
  /\ DiskMayFail
  /\ \/ parent = "accept" /\ Listener \in readfds
     \/ parent = "slots" /\ Pending # {} /\ wire[client_socket[Least(Pending)]] = <<>>
     \/ parent = "parse" /\ buffer[1] \in UnusualReadings
  /\ ParentEnds("failed")
  /\ UNCHANGED <<clientVars, netVars, client_socket, readfds, slot, buffer, pipe, childVars,
                 logVars>>

\* write(pipe_fds[1], ...) is atomic for values this small and blocks while
\* the pipe is full.  After the child has ended it raises SIGPIPE.
WriteValue(from, to, kind, value) ==
  /\ parent = from
  /\ IF ChildEnded
       THEN ParentEnds("killed") /\ UNCHANGED <<pipe, slot>>
       ELSE /\ Len(pipe) < PipeCapacity
            /\ pipe' = Append(pipe, <<kind, value>>)
            /\ parent' = to
            /\ slot' = IF to = "slots" THEN slot + 1 ELSE slot
            /\ UNCHANGED writers
  /\ UNCHANGED <<clientVars, netVars, client_socket, readfds, buffer, childVars, logVars>>

\* Mutant: two of the writes in the other order.
WriteRecordSwapped ==
  \/ WriteValue("write_ID", "write_TIME", "ID", slot)
  \/ WriteValue("write_TIME", "write_TEMP", "TIME", buffer[1])
  \/ WriteValue("write_TEMP", "write_name", "TEMP", buffer[1])
  \/ WriteValue("write_name", "slots", "filename", buffer[1])

\* The four writes of one reading.  ID is the slot index, not the client's id.
WriteRecord ==
  \/ WriteValue("write_ID", "write_TEMP", "ID", slot)
  \/ WriteValue("write_TEMP", "write_TIME", "TEMP", buffer[1])
  \/ WriteValue("write_TIME", "write_name", "TIME", buffer[1])
  \/ WriteValue("write_name", "slots", "filename", buffer[1])

handle_client_data == ReadEnd \/ ReadData \/ SlotsDone \/ parsePhrase \/ WriteRecord

\* close(pipe_fds[1]) after the loop.
ClosePipe ==
  /\ Goto("close_pipe", "wait")
  /\ writers' = writers \ {"parent"}
  /\ UNCHANGED <<clientVars, netVars, client_socket, readfds, slot, buffer, pipe, childVars,
                 logVars>>

\* Mutant: main returns without waiting.
ReturnAtOnce ==
  /\ Goto("wait", "done")
  /\ UNCHANGED <<clientVars, netVars, client_socket, readfds, slot, buffer, pipeVars,
                 childVars, logVars>>

\* wait(NULL), close(server_fd), return.
WaitChild ==
  /\ Goto("wait", "done")
  /\ ChildEnded
  /\ UNCHANGED <<clientVars, netVars, client_socket, readfds, slot, buffer, pipeVars,
                 childVars, logVars>>

Parent ==
  \/ Startup
  \/ Select \/ SelectTimesOut
  \/ NoConnection \/ handle_new_connection
  \/ handle_client_data
  \/ ClosePipe \/ WaitChild

-----------------------------------------------------------------------------
(* The child.                                                              *)

\* Mutant: the child keeps its copy of the write end.
ChildKeepsWriteEnd ==
  /\ child = "close"
  /\ child' = "read_ID"
  /\ UNCHANGED <<clientVars, netVars, parentVars, pipeVars, record, head, files, logVars>>

\* close(pipe_fds[1])
ChildClosesWriteEnd ==
  /\ child = "close"
  /\ child' = "read_ID"
  /\ writers' = writers \ {"child"}
  /\ UNCHANGED <<clientVars, netVars, parentVars, pipe, record, head, files, logVars>>

\* read(pipe_fds[0], ...): a value, or the end once no writer is left.  Only
\* the read of ID looks at the result; the others then keep what the variable
\* held before.
ReadValue(from, to, kind, atEnd) ==
  /\ child = from
  /\ \/ /\ pipe # <<>>
        /\ record' = [record EXCEPT ![kind] = Head(pipe)[2]]
        /\ pipe' = Tail(pipe)
        /\ child' = to
     \/ /\ pipe = <<>>
        /\ writers = {}
        /\ child' = atEnd
        /\ UNCHANGED <<record, pipe>>
  /\ UNCHANGED <<clientVars, netVars, parentVars, writers, head, files, logVars>>

\* The four reads of one record.
ReadRecord ==
  \/ ReadValue("read_ID", "read_TEMP", "ID", "exited")
  \/ ReadValue("read_TEMP", "read_TIME", "TEMP", "read_TIME")
  \/ ReadValue("read_TIME", "read_name", "TIME", "read_name")
  \/ ReadValue("read_name", "append", "filename", "append")

\* Mutant: nothing is freed and the list grows.
KeepLinkedList(list) == list

\* What the list is after the nodes are freed.
clear_linked_list(list) == <<>>

\* Mutant: the file is opened with "w".
AppendTruncates ==
  /\ child = "append"
  /\ LET list == <<record>> \o head
         name == record.filename
     IN /\ head' = clear_linked_list(list)
        /\ files' = IF name = Junk THEN files ELSE [files EXCEPT ![name[1]] = list]
  /\ child' = "read_ID"
  /\ UNCHANGED <<clientVars, netVars, parentVars, pipeVars, record, logVars>>

\* add_to_linked_list puts the record first; write_linked_list_to_file appends
\* the list to the file named in the record, if that is a client's.
AppendRecord ==
  /\ child = "append"
  /\ LET list == <<record>> \o head
         name == record.filename
     IN /\ head' = clear_linked_list(list)
        /\ files' = IF name = Junk THEN files
                                   ELSE [files EXCEPT ![name[1]] = @ \o list]
  /\ child' = "read_ID"
  /\ UNCHANGED <<clientVars, netVars, parentVars, pipeVars, record, logVars>>

\* fopen failed: handle_error ends the child.
AppendFails ==
  /\ child = "append"
  /\ DiskMayFail \/ record.filename = Junk
  /\ child' = "failed"
  /\ UNCHANGED <<clientVars, netVars, parentVars, pipeVars, record, head, files, logVars>>

Child == ChildClosesWriteEnd \/ ReadRecord \/ AppendRecord \/ AppendFails

-----------------------------------------------------------------------------

\* Somebody kills the parent; the child is left to read what is in the pipe.
KillParent ==
  /\ ParentMayDie
  /\ Up
  /\ ParentEnds("killed")
  /\ UNCHANGED <<clientVars, netVars, client_socket, readfds, slot, buffer, pipe, childVars,
                 logVars>>

\* Every process of the program has ended.
Terminated ==
  /\ Ended
  /\ child = "unborn" \/ ChildEnded
  /\ \A c \in Clients : conn[c] \in {"closed", "lost", "refused"}
  /\ UNCHANGED vars

Next ==
  \/ \E c \in Clients : Client(c)
  \/ Parent \/ StartupFails \/ LogFails \/ KillParent
  \/ Child
  \/ Terminated

Spec == Init /\ [][Next]_vars

\* Parent and child run when they can.  A client may stop for ever at any
\* point, nobody has to kill anyone, and fopen does not have to fail.
Fairness ==
  /\ WF_vars(Parent)
  /\ WF_vars(ChildClosesWriteEnd \/ ReadRecord \/ AppendRecord)

FairSpec == Spec /\ Fairness

-----------------------------------------------------------------------------
(* Properties.                                                             *)

WriteLabels == {"write_ID", "write_TEMP", "write_TIME", "write_name"}
Kinds == <<"ID", "TEMP", "TIME", "filename">>
Reading == Message \cup {Junk}

\* Every variable has its type.
TypeOK ==
  /\ conn \in [Clients -> {"idle", "open", "closed", "refused", "lost"}]
  /\ sent \in [Clients -> 0..Readings]
  /\ wire \in [Clients -> Seq(Message)]
  /\ backlog \in Seq(Clients)
  /\ client_socket \in [Table -> Clients \cup {Free}]
  /\ readfds \subseteq Clients \cup {Listener}
  /\ parent \in WriteLabels \cup {"start", "select", "accept", "slots", "parse",
                   "close_pipe", "wait", "done", "failed", "killed"}
  /\ slot \in 0..MaxClients
  /\ buffer \in Seq(Message)
  /\ pipe \in Seq(({"ID"} \X Table) \cup ({"TEMP", "TIME", "filename"} \X Message))
  /\ Len(pipe) <= PipeCapacity
  /\ writers \subseteq {"parent", "child"}
  /\ child \in {"unborn", "close", "read_ID", "read_TEMP", "read_TIME", "read_name",
                "append", "exited", "failed"}
  /\ record \in [ID : Table \cup {-1}, TEMP : Reading, TIME : Reading, filename : Reading]
  /\ supervisor \in [Clients -> Seq({"Connect", "Disconnect"})]
  /\ unusual \subseteq UnusualReadings

\* How many values of the current record the child has read.
ValuesRead ==
  CASE child = "read_TEMP" -> 1 [] child = "read_TIME" -> 2 [] child = "read_name" -> 3
    [] OTHER -> 0

\* The pipe carries no lengths or markers, yet whatever the parent still has
\* to write and wherever it stops, the next value in the pipe is the one the
\* child's next read expects, unless the child has ended (216-219, 282-287).
PipeFraming ==
  ~ChildEnded =>
    \A i \in 1..Len(pipe) : pipe[i][1] = Kinds[((ValuesRead + i - 1) % 4) + 1]

\* Line k of client c's file is reading k of c.
Faithful(c, k) ==
  /\ files[c][k].TEMP = <<c, k>>
  /\ files[c][k].TIME = <<c, k>>
  /\ files[c][k].filename = <<c, k>>

Lines == UNION {{c} \X (1..Len(files[c])) : c \in Clients}
Unfaithful == {line \in Lines : ~Faithful(line[1], line[2])}

\* A client's file is a prefix of what the client sent: nothing lost in the
\* middle, repeated, reordered or put in the other client's file, although
\* slots are reused, one pipe carries the readings of all clients and writing
\* may fail.  Killing the parent, also between two of its four writes, spoils at
\* most one line over all the files: the child completes the torn record with
\* old values, then sees the end of the pipe (282-287).
FilesArePrefixes ==
  /\ parent # "killed" => Unfaithful = {}
  /\ Cardinality(Unfaithful) <= 1

\* When main returns, every reading it took off a socket is in a file, unless
\* the child failed: the close before the wait lets it drain the pipe (341-342).
ReturnsAfterDrain ==
  parent = "done" /\ child # "failed" =>
    \A c \in Clients : Len(files[c]) = sent[c] - Len(wire[c])

\* An unusual reading is logged before it is recorded, and after a normal return
\* each logged reading is recorded.
UnusualAgreesWithFiles ==
  /\ \A c \in Clients : \A k \in 1..Len(files[c]) :
       files[c][k].TEMP \in UnusualReadings => files[c][k].TEMP \in unusual
  /\ parent = "done" /\ child # "failed" =>
       \A m \in unusual : \E k \in 1..Len(files[m[1]]) : files[m[1]][k].TEMP = m

\* A client is in at most one slot, and only between its Connect line and its
\* Disconnect line; no client has more than one of each.
TableMatchesSupervisor ==
  /\ \A i, j \in Table : client_socket[i] # Free =>
       /\ supervisor[client_socket[i]] = <<"Connect">>
       /\ client_socket[j] = client_socket[i] => i = j
  /\ \A c \in Clients :
       supervisor[c] \in {<<>>, <<"Connect">>, <<"Connect", "Disconnect">>}

\* The two logs of the parent agree with its table and with the child's files,
\* wherever either process is ended or fails (129-134, 176-203).
LogsAgree == UnusualAgreesWithFiles /\ TableMatchesSupervisor

\* A client whose Disconnect is logged gets all its readings into its file,
\* even if the parent ends abnormally right after, unless the child fails.
DisconnectedIsRecorded ==
  \A c \in Clients :
    supervisor[c] = <<"Connect", "Disconnect">> ~>
      (Len(files[c]) >= Readings \/ child = "failed")

\* "No activity within 3 seconds" (line 328): when the parent gives up, no
\* reading a client has sent lies unread.  It holds as long as the table has
\* room for every client.
TimeoutMeansIdle ==
  [][SelectTimesOut => \A c \in Clients : wire[c] = <<>>]_vars

\* Parent and child both end: the parent is never left waiting on a full pipe
\* or on a child that waits for the pipe's end.
EverybodyEnds == <>(Ended /\ (child = "unborn" \/ ChildEnded))

=============================================================================
