----------------------------- MODULE SocketLessons -----------------------------
(***************************************************************************)
(* Three TCP servers of 07_Socket and their clients: the chat of           *)
(* 4_ipv4_stream, in which the two sides take turns at the keyboard; the   *)
(* server of 1_TPC_Basic, which answers one client and returns; and the    *)
(* server of 2_Mult_TPC_Server, with a thread for every client.            *)
(*                                                                         *)
(* TCP keeps the bytes but not the messages: a message travels as two      *)
(* parts, and a read may return one of them.  A side that closes with      *)
(* unread parts, or is written to after it has closed, resets the other.   *)
(***************************************************************************)
EXTENDS Naturals, Sequences

CONSTANTS
  Clients,   \* client processes, one connection each
  Lessons,   \* the programs that are run, of "chat", "basic", "threads"
  MaxParts   \* bound: a read returns a single part only while fewer are under way

ASSUME LessonsAssumption == Lessons \subseteq {"chat", "basic", "threads"}
ASSUME MaxPartsAssumption == MaxParts \in Nat

VARIABLES
  lesson,
  server,   \* where main and chat_func of the server are
  conn,     \* new_socket_fd: the connection main accepted last
  line,     \* what the user of the server, of each client has typed
  client,   \* where each client is
  thread,   \* where the thread made for each connection is
  sock,     \* the connection that thread works on
  queue,    \* connections not yet accepted
  inbox,    \* parts that wait to be read at each side of a connection
  open,     \* the sides that have a connection open
  reset,    \* the sides to which it has been reset
  disturbed \* history: connections cut short by the client's user, or with a
            \* read that returned one part of a message

socketVars == <<queue, inbox, open, reset, disturbed>>
serverVars == <<server, conn, thread, sock>>
vars == <<lesson, line, client, socketVars, serverVars>>

Sides == {"client", "server"}
Peer(s) == IF s = "client" THEN "server" ELSE "client"
Users == Clients \cup {"server"}

\* The part with the beginning of "exit", and any other.
Parts(message) == <<IF message = "exit" THEN "exit" ELSE "other", "other">>

Init ==
  /\ lesson \in Lessons
  /\ server = "accept" /\ conn = "none" /\ line = [u \in Users |-> "text"]
  /\ client = [c \in Clients |-> "connect"]
  /\ thread = [c \in Clients |-> "none"] /\ sock = [c \in Clients |-> "none"]
  /\ queue = <<>> /\ inbox = [c \in Clients |-> [s \in Sides |-> <<>>]]
  /\ open = [c \in Clients |-> {}] /\ reset = [c \in Clients |-> {}] /\ disturbed = {}

-----------------------------------------------------------------------------
(* Sockets.                                                                *)

\* A read returns parts, at most a message's worth, or 0, or an error; n is the
\* number of parts.
ReadParts(c, s, n) ==
  /\ n \in 1..2 /\ n <= Len(inbox[c][s])
  /\ n = 1 => Len(inbox[c]["client"]) + Len(inbox[c]["server"]) < MaxParts
  /\ inbox' = [inbox EXCEPT ![c][s] = SubSeq(@, n + 1, Len(@))]
  /\ disturbed' = IF n = 1 THEN disturbed \cup {c} ELSE disturbed
  /\ UNCHANGED <<queue, open, reset>>

ReadEnd(c, s) ==
  /\ inbox[c][s] = <<>> /\ Peer(s) \notin open[c]
  /\ UNCHANGED socketVars

ReadError(c, s) == s \in reset[c] /\ UNCHANGED socketVars

\* The first write to a side that has closed succeeds and is answered by a reset.
Write(c, s, message) ==
  /\ IF Peer(s) \in open[c]
     THEN inbox' = [inbox EXCEPT ![c][Peer(s)] = @ \o Parts(message)] /\ UNCHANGED reset
     ELSE reset' = [reset EXCEPT ![c] = @ \cup {s}] /\ UNCHANGED inbox
  /\ UNCHANGED <<queue, open, disturbed>>

\* A write after the reset: EPIPE and SIGPIPE.
WriteError(c, s) == s \in reset[c] /\ Peer(s) \notin open[c] /\ UNCHANGED socketVars

\* Side s of the connections cs closes; the server's side resets those it has
\* not accepted.  Nothing is left of a connection that both sides have closed.
Waiting == {queue[i] : i \in DOMAIN queue}
Unread(c, s) == inbox[c][s] # <<>> \/ (s = "server" /\ c \in Waiting)
Quiet == [s \in Sides |-> <<>>]

Close(cs, s) ==
  /\ open' = [c \in Clients |-> IF c \in cs THEN open[c] \ {s} ELSE open[c]]
  /\ reset' = [c \in Clients |->
       IF c \notin cs THEN reset[c]
       ELSE IF Peer(s) \notin open[c] THEN {}
       ELSE IF Unread(c, s) THEN {Peer(s)} ELSE reset[c]]
  /\ inbox' = [c \in Clients |->
       IF c \notin cs THEN inbox[c]
       ELSE IF Peer(s) \notin open[c] THEN Quiet ELSE [inbox[c] EXCEPT ![s] = <<>>]]

\* Mutant: the other buffer is compared, which memset has filled with zeros.
HeardNever(parts) == {FALSE}

\* strncmp("exit", recvbuff, 4): a part that was cut after the word is enough.
\* The second part of a message is taken not to begin with the word.
Heard(parts) ==
  IF parts[1] # "exit" THEN {FALSE} ELSE IF Len(parts) > 1 THEN {TRUE} ELSE BOOLEAN

-----------------------------------------------------------------------------
(* The servers.                                                            *)

ServerGoes(l) == server' = l /\ UNCHANGED <<lesson, conn, thread, sock, client>>

Accept ==
  /\ server = "accept" /\ queue # <<>>
  /\ conn' = Head(queue) /\ queue' = Tail(queue)
  /\ server' = IF lesson = "threads" THEN "create" ELSE "read"
  /\ UNCHANGED <<lesson, line, inbox, open, reset, disturbed, thread, sock, client>>

\* Mutant: a read that returns less than a message is followed by another.
ChatReadAgain ==
  /\ lesson = "chat" /\ server = "read" /\ UNCHANGED line
  /\ \/ ReadParts(conn, "server", 1) /\ ServerGoes("read")
     \/ /\ ReadParts(conn, "server", 2)
        /\ \E exit \in Heard(SubSeq(inbox[conn]["server"], 1, 2)) :
             ServerGoes(IF exit THEN "close" ELSE "key")
     \/ ReadEnd(conn, "server") /\ ServerGoes("key")
     \/ ReadError(conn, "server") /\ ServerGoes("fail")

\* chat_func: a read that returns 0 leaves the zeros of memset, which are a
\* message like any other.
ChatRead ==
  /\ lesson = "chat" /\ server = "read" /\ UNCHANGED line
  /\ \/ \E n \in 1..2 :
          /\ ReadParts(conn, "server", n)
          /\ \E exit \in Heard(SubSeq(inbox[conn]["server"], 1, n)) :
               ServerGoes(IF exit THEN "close" ELSE "key")
     \/ ReadEnd(conn, "server") /\ ServerGoes("key")
     \/ ReadError(conn, "server") /\ ServerGoes("fail")

\* The user of the server answers.
Answer ==
  /\ server = "key" /\ ServerGoes("write")
  /\ \E l \in {"text", "exit"} : line' = [line EXCEPT !["server"] = l]
  /\ UNCHANGED socketVars

ChatWrite ==
  /\ lesson = "chat" /\ server = "write" /\ line' = [line EXCEPT !["server"] = "text"]
  /\ \/ /\ Write(conn, "server", line["server"])
        /\ ServerGoes(IF line["server"] = "exit" THEN "close" ELSE "read")
     \/ WriteError(conn, "server") /\ ServerGoes("fail")

ChatClose ==
  /\ lesson = "chat" /\ server = "close"
  /\ Close({conn}, "server") /\ ServerGoes("accept") /\ UNCHANGED <<line, queue, disturbed>>

\* What read returns, if anything, is not looked at.
AnyRead(c, s) == (\E n \in 1..2 : ReadParts(c, s, n)) \/ ReadEnd(c, s) \/ ReadError(c, s)

BasicRead ==
  /\ lesson = "basic" /\ server = "read"
  /\ AnyRead(conn, "server") /\ ServerGoes("write") /\ UNCHANGED line

BasicWrite ==
  /\ lesson = "basic" /\ server = "write"
  /\ Write(conn, "server", "text") /\ ServerGoes("fail") /\ UNCHANGED line

\* The process ends, by handle_error, by SIGPIPE, or at the end of 1_TPC_Basic.
ServerEnds ==
  /\ server = "fail" /\ ServerGoes("ended")
  /\ Close({c \in Clients : "server" \in open[c]}, "server")
  /\ queue' = <<>> /\ UNCHANGED <<line, disturbed>>

\* pthread_create returns a positive number if it fails: main goes on without
\* the thread.
CreateThread ==
  /\ server = "create" /\ server' = "accept"
  /\ \E l \in {"fetch", "refused"} : thread' = [thread EXCEPT ![conn] = l]
  /\ UNCHANGED <<lesson, line, socketVars, conn, sock, client>>

Main ==
  \/ Accept \/ ChatRead \/ ChatWrite \/ ChatClose \/ BasicRead \/ BasicWrite
  \/ ServerEnds \/ CreateThread

ThreadGoes(t, l) ==
  thread' = [thread EXCEPT ![t] = l] /\ UNCHANGED <<lesson, line, server, conn, client>>

\* Mutant: the thread is given the address of main's new_socket.
FetchShared(t) ==
  /\ thread[t] = "fetch" /\ ThreadGoes(t, "read")
  /\ sock' = [sock EXCEPT ![t] = conn]
  /\ UNCHANGED socketVars

\* handle_client: the number main stored in memory allocated for this thread.
Fetch(t) ==
  /\ thread[t] = "fetch" /\ ThreadGoes(t, "read")
  /\ sock' = [sock EXCEPT ![t] = t]
  /\ UNCHANGED socketVars

ThreadRead(t) ==
  /\ thread[t] = "read" /\ ThreadGoes(t, "write")
  /\ AnyRead(sock[t], "server") /\ UNCHANGED sock

ThreadWrite(t) ==
  /\ thread[t] = "write" /\ ThreadGoes(t, "close")
  /\ Write(sock[t], "server", "text") /\ UNCHANGED sock

ThreadClose(t) ==
  /\ thread[t] = "close" /\ ThreadGoes(t, "ended")
  /\ Close({sock[t]}, "server") /\ UNCHANGED <<queue, disturbed, sock>>

handle_client(t) == Fetch(t) \/ ThreadRead(t) \/ ThreadWrite(t) \/ ThreadClose(t)

-----------------------------------------------------------------------------
(* The clients.                                                            *)

ClientGoes(c, l) == client' = [client EXCEPT ![c] = l] /\ UNCHANGED <<lesson, serverVars>>

Connect(c) ==
  /\ client[c] = "connect" /\ UNCHANGED line
  /\ \/ /\ server # "ended"
        /\ queue' = Append(queue, c) /\ open' = [open EXCEPT ![c] = Sides]
        /\ ClientGoes(c, IF lesson = "chat" THEN "key" ELSE "write")
        /\ UNCHANGED <<inbox, reset, disturbed>>
     \/ server = "ended" /\ ClientGoes(c, "ended") /\ UNCHANGED socketVars

\* The user of the client says something.
Say(c) ==
  /\ client[c] = "key" /\ ClientGoes(c, "write")
  /\ \E l \in {"text", "exit"} : line' = [line EXCEPT ![c] = l]
  /\ UNCHANGED socketVars

ClientWrite(c) ==
  /\ client[c] = "write" /\ line' = [line EXCEPT ![c] = "text"]
  /\ \/ Write(c, "client", line[c]) /\ ClientGoes(c, IF line[c] = "exit" THEN "close" ELSE "read")
     \/ WriteError(c, "client") /\ ClientGoes(c, "close")

ClientChatRead(c) ==
  /\ lesson = "chat" /\ client[c] = "read" /\ UNCHANGED line
  /\ \/ \E n \in 1..2 :
          /\ ReadParts(c, "client", n)
          /\ \E exit \in Heard(SubSeq(inbox[c]["client"], 1, n)) :
               ClientGoes(c, IF exit THEN "close" ELSE "key")
     \/ ReadEnd(c, "client") /\ ClientGoes(c, "key")
     \/ ReadError(c, "client") /\ ClientGoes(c, "close")

ClientRead(c) ==
  /\ lesson # "chat" /\ client[c] = "read" /\ ClientGoes(c, "close")
  /\ AnyRead(c, "client") /\ UNCHANGED line

ClientClose(c) ==
  /\ client[c] = "close" /\ ClientGoes(c, "ended")
  /\ Close({c}, "client") /\ UNCHANGED <<line, queue, disturbed>>

Kill(c) ==
  /\ client[c] \in {"key", "write", "read"} /\ client' = [client EXCEPT ![c] = "ended"]
  /\ Close({c}, "client") /\ disturbed' = disturbed \cup {c}
  /\ UNCHANGED <<lesson, line, queue, serverVars>>

Client(c) == ClientWrite(c) \/ ClientChatRead(c) \/ ClientRead(c) \/ ClientClose(c)

Next ==
  \/ Main \/ Answer
  \/ \E c \in Clients : handle_client(c) \/ Connect(c) \/ Say(c) \/ Client(c) \/ Kill(c)

\* The server's main and threads run when they can, and a client that reads
\* does.  Nobody has to connect, to type, or to write.
Fairness ==
  /\ WF_vars(Main)
  /\ \A c \in Clients :
       /\ WF_vars(handle_client(c))
       /\ WF_vars(ClientRead(c)) /\ WF_vars(ClientClose(c))

Spec == Init /\ [][Next]_vars /\ Fairness
-----------------------------------------------------------------------------
PartSeq == Seq({"exit", "other"})

TypeOK ==
  /\ lesson \in {"chat", "basic", "threads"}
  /\ server \in {"accept", "read", "key", "write", "close", "create", "fail", "ended"}
  /\ conn \in Clients \cup {"none"} /\ line \in [Users -> {"text", "exit"}]
  /\ client \in [Clients -> {"connect", "key", "write", "read", "close", "ended"}]
  /\ disturbed \subseteq Clients
  /\ thread \in [Clients -> {"none", "refused", "fetch", "read", "write", "close", "ended"}]
  /\ sock \in [Clients -> Clients \cup {"none"}] /\ queue \in Seq(Clients)
  /\ inbox \in [Clients -> [Sides -> PartSeq]]
  /\ open \in [Clients -> SUBSET Sides] /\ reset \in [Clients -> SUBSET Sides]

\* The two sides of a chat never wait for each other in read (stream_server.c
\* line 33, stream_client.c line 42), also when reads return less than was
\* written and answers get out of step with what they answer.
TurnsNeverDeadlock ==
  \A c \in Clients :
    lesson = "chat" /\ conn = c /\ server = "read" /\ client[c] = "read" =>
      inbox[c]["server"] # <<>> \/ inbox[c]["client"] # <<>>

\* The chat server, which serves everybody else too, ends only after a client
\* was interrupted or a message was cut: "exit" always reaches chat_func
\* otherwise, and the reads and writes that follow find an open connection.
ServerEndsByBrokenChat ==
  lesson = "chat" /\ server = "fail" => conn \in disturbed

\* A client of 2_Mult_TPC_Server that has sent its message is done with its read
\* some time, whatever the other clients do, or its thread was never created.
ClientAnswered ==
  \A c \in Clients :
    (lesson = "threads" /\ client[c] = "read") ~> (client[c] = "ended" \/ thread[c] = "refused")
=============================================================================
