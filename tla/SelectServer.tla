----------------------------- MODULE SelectServer -----------------------------
(***************************************************************************)
(* The select server of 07_Socket/6_bvn.  Each round of its loop copies    *)
(* the set readfds into tempfds, selects, accepts a connection and reads   *)
(* from the clients that are in tempfds.  A new client is added to the     *)
(* copy, so the same round reads from it without asking select, and no     *)
(* later round does.                                                       *)
(*                                                                         *)
(* A message is a unit on the stream; a read takes any number of those     *)
(* that have arrived.  They are shorter than the server's buffer.          *)
(***************************************************************************)
EXTENDS Naturals, Sequences, FiniteSetsExt

CONSTANTS
  Clients,      \* client programs
  MaxClients,   \* MAX_CLIENTS, the size of client_sockets
  MaxMessages   \* messages a client sends at most (a bound)

Listener == "server_fd"
Free == "free"         \* an unused entry of client_sockets

ASSUME SelectAssumption ==
  /\ MaxClients \in Nat \ {0} /\ MaxMessages \in Nat
  /\ Listener \notin Clients /\ Free \notin Clients

Table == 0..(MaxClients - 1)

VARIABLES
  conn,            \* each client's connection, as the client sees it
  inbox,           \* messages in the server's receive buffer of each client
  sent,            \* messages each client has sent
  backlog,         \* connections not yet accepted
  client_sockets,  \* the server's table
  readfds,         \* the set every round starts from
  tempfds,         \* its copy, what select left of it and what was added
  pc,              \* the server's next step
  slot,            \* the loop index of handle_client_data
  reads,           \* how often each client's socket was read
  heard            \* messages printed, for each client

clientVars == <<conn, sent>>
serverVars == <<client_sockets, readfds, tempfds, pc, slot, reads, heard>>
vars == <<clientVars, inbox, backlog, serverVars>>

Init ==
  /\ conn = [c \in Clients |-> "idle"]
  /\ inbox = [c \in Clients |-> 0]
  /\ sent = [c \in Clients |-> 0]
  /\ backlog = <<>>
  /\ client_sockets = [i \in Table |-> Free]
  /\ readfds = {} /\ tempfds = {}
  /\ pc = "start"
  /\ slot = 0
  /\ reads = [c \in Clients |-> 0]
  /\ heard = [c \in Clients |-> 0]

-----------------------------------------------------------------------------
(* Clients: any TCP clients.                                               *)

Connect(c) ==
  /\ conn[c] = "idle"
  /\ pc \notin {"start", "failed"}
  /\ conn' = [conn EXCEPT ![c] = "open"]
  /\ backlog' = Append(backlog, c)
  /\ UNCHANGED <<inbox, sent, serverVars>>

Send(c) ==
  /\ conn[c] = "open"
  /\ sent[c] < MaxMessages
  /\ sent' = [sent EXCEPT ![c] = @ + 1]
  /\ inbox' = [inbox EXCEPT ![c] = @ + 1]
  /\ UNCHANGED <<conn, backlog, serverVars>>

Close(c) ==
  /\ conn[c] = "open"
  /\ conn' = [conn EXCEPT ![c] = "closed"]
  /\ UNCHANGED <<inbox, sent, backlog, serverVars>>

Client(c) == Connect(c) \/ Send(c) \/ Close(c)

-----------------------------------------------------------------------------
(* The server.                                                             *)

\* socket, bind, listen; the listening socket goes into readfds.
Start ==
  /\ pc = "start"
  /\ pc' = "select"
  /\ readfds' = {Listener}
  /\ UNCHANGED <<clientVars, inbox, backlog, client_sockets, tempfds, slot, reads, heard>>

StartFails ==
  /\ pc = "start"
  /\ pc' = "failed"
  /\ UNCHANGED <<clientVars, inbox, backlog, client_sockets, readfds, tempfds, slot, reads, heard>>

Readable == {s \in readfds :
  IF s = Listener THEN backlog # <<>> ELSE inbox[s] > 0 \/ conn[s] = "closed"}

\* select without a time limit, on a fresh copy of readfds.
Select ==
  /\ pc = "select"
  /\ Readable # {}
  /\ tempfds' = Readable
  /\ pc' = IF Listener \in Readable THEN "accept" ELSE "clients"
  /\ slot' = 0
  /\ UNCHANGED <<clientVars, inbox, backlog, client_sockets, readfds, reads, heard>>

FreeSlots == {i \in Table : client_sockets[i] = Free}

\* Mutant: an "else" before handle_client_data; the round ends with accept.
AcceptOrRead ==
  /\ pc = "accept"
  /\ LET c == Head(backlog) IN
     /\ client_sockets' = IF FreeSlots = {} THEN client_sockets
                          ELSE [client_sockets EXCEPT ![Min(FreeSlots)] = c]
     /\ tempfds' = tempfds \cup {c}
  /\ backlog' = Tail(backlog)
  /\ pc' = "select"
  /\ UNCHANGED <<clientVars, inbox, readfds, slot, reads, heard>>

\* accept; the socket goes into the first free entry, if there is one, and
\* into tempfds in any case.
handle_new_connection ==
  /\ pc = "accept"
  /\ LET c == Head(backlog) IN
     /\ client_sockets' = IF FreeSlots = {} THEN client_sockets
                          ELSE [client_sockets EXCEPT ![Min(FreeSlots)] = c]
     /\ tempfds' = tempfds \cup {c}
  /\ backlog' = Tail(backlog)
  /\ pc' = "clients"
  /\ UNCHANGED <<clientVars, inbox, readfds, slot, reads, heard>>

\* accept returns -1 for a connection that was aborted in the meantime.
AcceptFails ==
  /\ pc = "accept"
  /\ conn' = [conn EXCEPT ![Head(backlog)] = "aborted"]
  /\ backlog' = Tail(backlog)
  /\ pc' = "clients"
  /\ UNCHANGED <<sent, inbox, client_sockets, readfds, tempfds, slot, reads, heard>>

\* Mutant: the loop starts at the second entry.
PendingSkipsFirst == {i \in Table : i > slot /\ client_sockets[i] \in tempfds}

\* The entries that handle_client_data has yet to read in this round.
Pending == {i \in Table : i >= slot /\ client_sockets[i] \in tempfds}

\* read returned data, which is printed.
ReadData ==
  /\ pc = "clients" /\ Pending # {}
  /\ LET i == Min(Pending)
         c == client_sockets[i] IN
     /\ \E n \in 1..inbox[c] :
          /\ inbox' = [inbox EXCEPT ![c] = @ - n]
          /\ heard' = [heard EXCEPT ![c] = @ + n]
     /\ reads' = [reads EXCEPT ![c] = @ + 1]
     /\ slot' = i + 1
  /\ UNCHANGED <<clientVars, backlog, client_sockets, readfds, tempfds, pc>>

\* read returned 0: close the socket and free its entry.
ReadEnd ==
  /\ pc = "clients" /\ Pending # {}
  /\ LET i == Min(Pending)
         c == client_sockets[i] IN
     /\ inbox[c] = 0 /\ conn[c] = "closed"
     /\ reads' = [reads EXCEPT ![c] = @ + 1]
     /\ client_sockets' = [client_sockets EXCEPT ![i] = Free]
     /\ slot' = i + 1
  /\ UNCHANGED <<clientVars, inbox, backlog, readfds, tempfds, pc, heard>>

RoundEnds ==
  /\ pc = "clients" /\ Pending = {}
  /\ pc' = "select"
  /\ UNCHANGED <<clientVars, inbox, backlog, client_sockets, readfds, tempfds, slot, reads, heard>>

handle_client_data == ReadData \/ ReadEnd \/ RoundEnds

main == Start \/ Select \/ handle_new_connection \/ handle_client_data

-----------------------------------------------------------------------------

Next ==
  \/ \E c \in Clients : Client(c)
  \/ main
  \/ StartFails \/ AcceptFails

Spec == Init /\ [][Next]_vars

\* The server runs when it can.  Clients may fall silent.
FairSpec == Spec /\ WF_vars(main)

-----------------------------------------------------------------------------
(* Properties.                                                             *)

\* Every variable has its type, and no client is in the table twice.
TypeOK ==
  /\ conn \in [Clients -> {"idle", "open", "closed", "aborted"}]
  /\ inbox \in [Clients -> 0..MaxMessages] /\ sent \in [Clients -> 0..MaxMessages]
  /\ backlog \in Seq(Clients)
  /\ client_sockets \in [Table -> Clients \cup {Free}]
  /\ \A i, j \in Table : client_sockets[i] = client_sockets[j] => i = j \/ client_sockets[i] = Free
  /\ readfds \subseteq Clients \cup {Listener} /\ tempfds \subseteq Clients \cup {Listener}
  /\ pc \in {"start", "failed", "select", "accept", "clients"}
  /\ slot \in 0..MaxClients
  /\ reads \in [Clients -> Nat] /\ heard \in [Clients -> 0..MaxMessages]

\* The clients whose connection the server has accepted.
Accepted == {c \in Clients :
  conn[c] \in {"open", "closed"} /\ \A i \in 1..Len(backlog) : backlog[i] # c}

\* Between rounds every client whose connection was accepted has been read, or
\* the table is full (lines 13-62): with room in the table nobody is passed
\* over, although the only set a client is ever in is a copy that lives for
\* one round.
ReadOrFull == pc # "clients" => FreeSlots = {} \/ \A c \in Accepted : reads[c] # 0

\* The server sleeps in the read of a client that sends and closes nothing.
Blocked ==
  /\ pc = "clients" /\ Pending # {}
  /\ LET c == client_sockets[Min(Pending)] IN inbox[c] = 0 /\ conn[c] = "open"

\* A client in the backlog gets its read, unless the table fills up, its
\* connection is aborted, or the server sleeps in the read of some other
\* client that stays silent.
ReadUnlessBlocked ==
  \A c \in Clients :
    (\E i \in DOMAIN backlog : backlog[i] = c)
      ~> (reads[c] = 1 \/ conn[c] = "aborted" \/ FreeSlots = {} \/ Blocked)

\* A client that disconnects is removed from the list (lines 48 and 54), unless
\* the server sleeps in the read of a client that stays silent.
DisconnectedIsRemoved ==
  \A c \in Clients :
    (conn[c] = "closed" /\ \E i \in Table : client_sockets[i] = c)
      ~> ((\A i \in Table : client_sockets[i] # c) \/ Blocked)
=============================================================================
