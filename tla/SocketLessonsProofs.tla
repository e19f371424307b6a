--------------------------- MODULE SocketLessonsProofs ---------------------------
(***************************************************************************)
(* Safety of the chat of SocketLessons for every set of clients, every     *)
(* choice of lessons and every bound on the parts under way.               *)
(*                                                                         *)
(* The argument counts turns: a side at its keyboard owns one, and so do   *)
(* the two parts of a message on their way.  A short read makes turns but  *)
(* never destroys one, so the two sides are never both without.  On a      *)
(* connection nobody has disturbed there is exactly one.                   *)
(***************************************************************************)
EXTENDS SocketLessons, Integers, SequenceTheorems, TLAPS

-----------------------------------------------------------------------------
(* The inductive invariant.                                                *)

\* chat_func or main works on the connection conn.
Busy == {"read", "key", "write", "close", "create", "fail"}

\* Where the server is with connection c.
Phase(c) ==
  IF c \in Waiting THEN "queued" ELSE IF server \in Busy /\ conn = c THEN server ELSE "none"

\* The server has not yet decided to leave c.
Served(c) == Phase(c) \in {"queued", "read", "key", "write"}

\* Values that are indexed by a connection are so for one that exists.
ConnInv ==
  /\ server \in Busy => conn \in Clients
  /\ \A t \in Clients : thread[t] \in {"read", "write", "close"} => sock[t] \in Clients

\* A client that has not connected has left no trace.
Fresh(c) ==
  client[c] = "connect" =>
    Phase(c) = "none" /\ inbox[c] = Quiet /\ open[c] = {} /\ reset[c] = {}

\* A connection is in the queue once, and is not in it while it is served.
QueueInv ==
  /\ \A i, j \in 1..Len(queue) : queue[i] = queue[j] => i = j
  /\ server \in Busy => conn \notin Waiting
  /\ \A c \in Clients : Fresh(c)

\* The turns of a side: two parts' worth at its keyboard.
Turn(label) == IF label \in {"key", "write"} THEN 2 ELSE 0
Talking(c) == client[c] \in {"key", "write", "read"}

\* While both sides talk, somebody has a turn or parts are under way.
Talk(c) ==
  Talking(c) /\ Served(c) =>
    /\ open[c] = Sides /\ reset[c] = {}
    /\ Len(inbox[c]["server"]) + Len(inbox[c]["client"]) + Turn(client[c]) + Turn(Phase(c)) >= 2

\* The stages of an undisturbed chat.
ClientsTurn(c) ==
  /\ client[c] \in {"key", "write"} /\ Phase(c) \in {"queued", "read"} /\ open[c] = Sides
  /\ inbox[c]["server"] = <<>> /\ inbox[c]["client"] = <<>>
Asked(c) ==
  /\ client[c] = "read" /\ Phase(c) \in {"queued", "read"} /\ open[c] = Sides
  /\ inbox[c]["server"] = <<"other", "other">> /\ inbox[c]["client"] = <<>>
SaidExit(c) ==
  /\ \/ client[c] = "close" /\ open[c] = Sides
     \/ client[c] = "ended" /\ open[c] = {"server"}
  /\ Phase(c) \in {"queued", "read"}
  /\ inbox[c]["server"] = <<"exit", "other">> /\ inbox[c]["client"] = <<>>
ServersTurn(c) ==
  /\ client[c] = "read" /\ Phase(c) \in {"key", "write"} /\ open[c] = Sides
  /\ inbox[c]["server"] = <<>> /\ inbox[c]["client"] = <<>>
Answered(c) ==
  /\ client[c] = "read" /\ Phase(c) = "read" /\ open[c] = Sides
  /\ inbox[c]["server"] = <<>> /\ inbox[c]["client"] = <<"other", "other">>

Exact(c) ==
  c \notin disturbed /\ Served(c) =>
    /\ reset[c] = {}
    /\ ClientsTurn(c) \/ Asked(c) \/ SaidExit(c) \/ ServersTurn(c) \/ Answered(c)

ChatInv ==
  /\ server # "create" /\ \A t \in Clients : thread[t] = "none"
  /\ QueueInv
  /\ \A c \in Clients : Talk(c) /\ Exact(c)
  /\ server = "fail" => conn \in disturbed

IInv == TypeOK /\ ConnInv /\ (lesson = "chat" => ChatInv)

-----------------------------------------------------------------------------
(* What the socket calls do.                                               *)

\* The two sides.
LEMMA TwoSides ==
  /\ Sides = {"client", "server"} /\ Peer("client") = "server" /\ Peer("server") = "client"
  /\ \A s \in Sides : Peer(s) \in Sides /\ Peer(s) # s
BY DEF Sides, Peer

\* A read takes n parts from its side and from nothing else.
LEMMA ReadEffect ==
  ASSUME TypeOK, NEW c \in Clients, NEW s \in Sides, NEW n, ReadParts(c, s, n)
  PROVE  /\ inbox' \in [Clients -> [Sides -> PartSeq]] /\ disturbed' \subseteq Clients
         /\ UNCHANGED <<queue, open, reset>>
         /\ n \in 1..2 /\ n <= Len(inbox[c][s])
         /\ Len(inbox'[c][s]) = Len(inbox[c][s]) - n
         /\ Len(inbox[c][s]) = n => inbox'[c][s] = <<>>
         /\ \A r \in Sides : r # s => inbox'[c][r] = inbox[c][r]
         /\ \A d \in Clients : d # c => inbox'[d] = inbox[d]
         /\ disturbed \subseteq disturbed' /\ (n = 2 \/ c \in disturbed')
<1> DEFINE q == inbox[c][s]
           rest == SubSeq(q, n + 1, Len(q))
<1>1. /\ n \in 1..2 /\ n <= Len(q) /\ inbox' = [inbox EXCEPT ![c][s] = rest]
      /\ disturbed' = IF n = 1 THEN disturbed \cup {c} ELSE disturbed
      /\ UNCHANGED <<queue, open, reset>>
  BY DEF ReadParts
<1>2. q \in PartSeq /\ Len(q) \in Nat
  BY DEF TypeOK, PartSeq
<1>3. \A i \in n + 1 .. Len(q) : q[i] \in {"exit", "other"}
  BY <1>1, <1>2, ElementOfSeq DEF PartSeq
<1>4. rest \in PartSeq /\ Len(rest) = Len(q) - n
  <2>1. n + 1 \in 1..(Len(q) + 1)
    BY <1>1, <1>2
  <2> HIDE DEF q
  <2> QED BY <1>1, <1>2, <1>3, <2>1, SubSeqProperties DEF PartSeq
<1>5. Len(q) = n => rest = <<>>
  BY <1>2, <1>4, EmptySeq DEF PartSeq
<1>6. /\ inbox'[c][s] = rest
      /\ \A r \in Sides : r # s => inbox'[c][r] = inbox[c][r]
      /\ \A d \in Clients : d # c => inbox'[d] = inbox[d]
      /\ inbox' \in [Clients -> [Sides -> PartSeq]]
  <2> HIDE DEF rest
  <2> QED BY <1>1, <1>4 DEF TypeOK
<1>7. disturbed \subseteq disturbed' /\ (n = 2 \/ c \in disturbed') /\ disturbed' \subseteq Clients
  BY <1>1 DEF TypeOK
<1> QED BY <1>1, <1>4, <1>5, <1>6, <1>7

\* A write puts two parts at the other side, or is answered by a reset.
LEMMA WriteEffect ==
  ASSUME TypeOK, NEW c \in Clients, NEW s \in Sides, NEW m, Write(c, s, m)
  PROVE  /\ inbox' \in [Clients -> [Sides -> PartSeq]] /\ reset' \in [Clients -> SUBSET Sides]
         /\ UNCHANGED <<queue, open, disturbed>>
         /\ \A d \in Clients : d # c => inbox'[d] = inbox[d] /\ reset'[d] = reset[d]
         /\ Peer(s) \in open[c] =>
              /\ reset' = reset
              /\ inbox'[c][s] = inbox[c][s]
              /\ inbox'[c][Peer(s)] = inbox[c][Peer(s)] \o Parts(m)
              /\ Len(inbox'[c][Peer(s)]) = Len(inbox[c][Peer(s)]) + 2
<1> USE TwoSides
<1>1. Parts(m) \in PartSeq /\ Len(Parts(m)) = 2
  BY DEF Parts, PartSeq
<1>2. inbox[c][Peer(s)] \in PartSeq
  BY DEF TypeOK
<1>3. PICK w \in PartSeq : /\ w = inbox[c][Peer(s)] \o Parts(m)
                           /\ Len(w) = Len(inbox[c][Peer(s)]) + 2
  <2>1. \A p, q \in PartSeq : p \o q \in PartSeq /\ Len(p \o q) = Len(p) + Len(q)
    BY ConcatProperties DEF PartSeq
  <2> QED BY <1>1, <1>2, <2>1
<1>4. CASE Peer(s) \in open[c]
  <2>1. /\ inbox' = [inbox EXCEPT ![c][Peer(s)] = w] /\ reset' = reset
        /\ UNCHANGED <<queue, open, disturbed>>
    BY <1>3, <1>4 DEF Write
  <2>2. PICK r \in Sides : r = Peer(s) /\ r # s
    OBVIOUS
  <2>3. /\ inbox' \in [Clients -> [Sides -> PartSeq]]
        /\ \A d \in Clients : d # c => inbox'[d] = inbox[d]
        /\ inbox'[c][s] = inbox[c][s] /\ inbox'[c][r] = w
    BY <2>1, <2>2 DEF TypeOK
  <2> QED BY <1>3, <2>1, <2>2, <2>3 DEF TypeOK
<1>5. CASE Peer(s) \notin open[c]
  BY <1>5 DEF Write, TypeOK
<1> QED BY <1>4, <1>5

\* A close touches the connections it closes and no other.
LEMMA CloseEffect ==
  ASSUME TypeOK, NEW cs \in SUBSET Clients, NEW s \in Sides, Close(cs, s)
  PROVE  /\ inbox' \in [Clients -> [Sides -> PartSeq]]
         /\ open' \in [Clients -> SUBSET Sides] /\ reset' \in [Clients -> SUBSET Sides]
         /\ \A d \in Clients \ cs :
              inbox'[d] = inbox[d] /\ open'[d] = open[d] /\ reset'[d] = reset[d]
         /\ \A d \in cs : open'[d] = open[d] \ {s}
<1> USE TwoSides
<1>1. <<>> \in PartSeq
  BY DEF PartSeq
<1>2. Quiet \in [Sides -> PartSeq]
  BY <1>1 DEF Quiet
<1>3. \A d \in Clients : [inbox[d] EXCEPT ![s] = <<>>] \in [Sides -> PartSeq]
  BY <1>1 DEF TypeOK
<1>4. inbox' \in [Clients -> [Sides -> PartSeq]]
  BY <1>2, <1>3 DEF Close, TypeOK
<1>5. reset' \in [Clients -> SUBSET Sides]
  BY DEF Close, TypeOK
<1>6. open' \in [Clients -> SUBSET Sides]
  BY DEF Close, TypeOK
<1>7. \A d \in Clients \ cs :
        inbox'[d] = inbox[d] /\ open'[d] = open[d] /\ reset'[d] = reset[d]
  BY DEF Close
<1>8. \A d \in cs : open'[d] = open[d] \ {s}
  BY DEF Close
<1> QED BY <1>4, <1>5, <1>6, <1>7, <1>8

-----------------------------------------------------------------------------
(* Types.                                                                  *)

\* The steps of the servers' main keep the types.
LEMMA MainTypes == TypeOK /\ ConnInv /\ (Main \/ Answer) => TypeOK' /\ ConnInv'
<1> SUFFICES ASSUME TypeOK, ConnInv, Main \/ Answer PROVE TypeOK' /\ ConnInv'
  OBVIOUS
<1> USE TwoSides DEF ServerGoes, socketVars, Busy
<1>0. "server" \in Users /\ "server" \in Sides
  BY DEF Users
<1>1. CASE Accept
  <2>1. Head(queue) \in Clients /\ Tail(queue) \in Seq(Clients)
    BY <1>1, HeadTailProperties DEF Accept, TypeOK
  <2> QED BY <1>1, <2>1 DEF Accept, TypeOK, ConnInv
<1>2. CASE ChatRead \/ BasicRead
  <2>1. conn \in Clients
    BY <1>2 DEF ChatRead, BasicRead, ConnInv
  <2>2. (\E n : ReadParts(conn, "server", n)) \/ UNCHANGED socketVars
    BY <1>2 DEF ChatRead, BasicRead, AnyRead, ReadEnd, ReadError
  <2>3. /\ inbox' \in [Clients -> [Sides -> PartSeq]] /\ disturbed' \subseteq Clients
        /\ UNCHANGED <<queue, open, reset>>
    BY <2>1, <2>2, ReadEffect DEF TypeOK
  <2>4. server' \in {"key", "close", "fail", "write"} /\ UNCHANGED <<lesson, conn, thread, sock, client, line>>
    BY <1>2 DEF ChatRead, BasicRead
  <2> QED BY <2>1, <2>3, <2>4 DEF TypeOK, ConnInv
<1>3. CASE ChatWrite \/ BasicWrite
  <2>1. conn \in Clients
    BY <1>3 DEF ChatWrite, BasicWrite, ConnInv
  <2>2. (\E m : Write(conn, "server", m)) \/ UNCHANGED socketVars
    BY <1>3 DEF ChatWrite, BasicWrite, WriteError
  <2>3. /\ inbox' \in [Clients -> [Sides -> PartSeq]] /\ reset' \in [Clients -> SUBSET Sides]
        /\ UNCHANGED <<queue, open, disturbed>>
    BY <2>1, <2>2, WriteEffect DEF TypeOK
  <2>4. /\ server' \in {"close", "read", "fail"} /\ UNCHANGED <<lesson, conn, thread, sock, client>>
        /\ line' \in [Users -> {"text", "exit"}]
    BY <1>3 DEF ChatWrite, BasicWrite, TypeOK
  <2> QED BY <2>1, <2>3, <2>4 DEF TypeOK, ConnInv
<1>4. CASE Answer
  BY <1>0, <1>4 DEF Answer, TypeOK, ConnInv
<1>5. CASE ChatClose
  <2>1. {conn} \in SUBSET Clients
    BY <1>5 DEF ChatClose, ConnInv
  <2>2. /\ inbox' \in [Clients -> [Sides -> PartSeq]]
        /\ open' \in [Clients -> SUBSET Sides] /\ reset' \in [Clients -> SUBSET Sides]
    BY <1>5, <2>1, CloseEffect DEF ChatClose
  <2> QED BY <1>5, <2>2 DEF ChatClose, TypeOK, ConnInv
<1>6. CASE ServerEnds
  <2> DEFINE cs == {c \in Clients : "server" \in open[c]}
  <2>1. cs \in SUBSET Clients
    OBVIOUS
  <2>2. /\ inbox' \in [Clients -> [Sides -> PartSeq]]
        /\ open' \in [Clients -> SUBSET Sides] /\ reset' \in [Clients -> SUBSET Sides]
    <3>1. Close(cs, "server")
      BY <1>6 DEF ServerEnds
    <3> HIDE DEF cs
    <3> QED BY <2>1, <3>1, CloseEffect
  <2>3. queue' \in Seq(Clients)
    BY <1>6 DEF ServerEnds
  <2> QED BY <1>6, <2>2, <2>3 DEF ServerEnds, TypeOK, ConnInv
<1>7. CASE CreateThread
  BY <1>7 DEF CreateThread, TypeOK, ConnInv
<1> QED BY <1>1, <1>2, <1>3, <1>4, <1>5, <1>6, <1>7 DEF Main

\* The steps of the threads keep the types.
LEMMA ThreadTypes ==
  ASSUME TypeOK, ConnInv, NEW t \in Clients, handle_client(t)
  PROVE  TypeOK' /\ ConnInv'
<1> USE TwoSides DEF ThreadGoes, socketVars
<1>0. "server" \in Sides
  OBVIOUS
<1>1. CASE Fetch(t)
  BY <1>1 DEF Fetch, TypeOK, ConnInv
<1>2. CASE ThreadRead(t)
  <2>1. sock[t] \in Clients
    BY <1>2 DEF ThreadRead, ConnInv
  <2>2. (\E n : ReadParts(sock[t], "server", n)) \/ UNCHANGED socketVars
    BY <1>2 DEF ThreadRead, AnyRead, ReadEnd, ReadError
  <2>3. /\ inbox' \in [Clients -> [Sides -> PartSeq]] /\ disturbed' \subseteq Clients
        /\ UNCHANGED <<queue, open, reset>>
    BY <1>0, <2>1, <2>2, ReadEffect DEF TypeOK
  <2> QED BY <1>2, <2>1, <2>3 DEF ThreadRead, TypeOK, ConnInv
<1>3. CASE ThreadWrite(t)
  <2>1. sock[t] \in Clients /\ Write(sock[t], "server", "text")
    BY <1>3 DEF ThreadWrite, ConnInv
  <2>2. /\ inbox' \in [Clients -> [Sides -> PartSeq]] /\ reset' \in [Clients -> SUBSET Sides]
        /\ UNCHANGED <<queue, open, disturbed>>
    BY <1>0, <2>1, WriteEffect
  <2> QED BY <1>3, <2>1, <2>2 DEF ThreadWrite, TypeOK, ConnInv
<1>4. CASE ThreadClose(t)
  <2>1. {sock[t]} \in SUBSET Clients
    BY <1>4 DEF ThreadClose, ConnInv
  <2>2. /\ inbox' \in [Clients -> [Sides -> PartSeq]]
        /\ open' \in [Clients -> SUBSET Sides] /\ reset' \in [Clients -> SUBSET Sides]
    BY <1>0, <1>4, <2>1, CloseEffect DEF ThreadClose
  <2> QED BY <1>4, <2>2 DEF ThreadClose, TypeOK, ConnInv
<1> QED BY <1>1, <1>2, <1>3, <1>4 DEF handle_client

\* The steps of the clients keep the types.
LEMMA ClientTypes ==
  ASSUME TypeOK, ConnInv, NEW c \in Clients,
         Connect(c) \/ Say(c) \/ Client(c) \/ Kill(c)
  PROVE  TypeOK' /\ ConnInv'
<1> USE TwoSides DEF ClientGoes, socketVars, serverVars
<1>0. "client" \in Sides /\ c \in Users
  BY DEF Users
<1>1. CASE Connect(c)
  <2>1. Append(queue, c) \in Seq(Clients)
    BY DEF TypeOK
  <2>2. \/ queue' = Append(queue, c) /\ open' = [open EXCEPT ![c] = Sides]
        \/ UNCHANGED <<queue, open>>
    BY <1>1 DEF Connect
  <2>3. queue' \in Seq(Clients) /\ open' \in [Clients -> SUBSET Sides]
    <3>1. queue \in Seq(Clients) /\ open \in [Clients -> SUBSET Sides]
      BY DEF TypeOK
    <3>2. queue' \in Seq(Clients)
      BY <2>1, <2>2, <3>1
    <3>3. open' \in [Clients -> SUBSET Sides]
      BY <2>2, <3>1
    <3> QED BY <3>2, <3>3
  <2>4. UNCHANGED <<inbox, reset, disturbed, line, lesson, server, conn, thread, sock>>
    BY <1>1 DEF Connect
  <2>5. \E l \in {"key", "write", "ended"} : client' = [client EXCEPT ![c] = l]
    BY <1>1 DEF Connect
  <2>6. client' \in [Clients -> {"connect", "key", "write", "read", "close", "ended"}]
    BY <2>5 DEF TypeOK
  <2> QED BY <2>3, <2>4, <2>6 DEF TypeOK, ConnInv
<1>2. CASE Say(c)
  BY <1>0, <1>2 DEF Say, TypeOK, ConnInv
<1>3. CASE ClientWrite(c)
  <2>1. (\E m : Write(c, "client", m)) \/ UNCHANGED socketVars
    BY <1>3 DEF ClientWrite, WriteError
  <2>2. /\ inbox' \in [Clients -> [Sides -> PartSeq]] /\ reset' \in [Clients -> SUBSET Sides]
        /\ UNCHANGED <<queue, open, disturbed>>
    BY <1>0, <2>1, WriteEffect DEF TypeOK
  <2>3. /\ client' \in [Clients -> {"connect", "key", "write", "read", "close", "ended"}]
        /\ line' \in [Users -> {"text", "exit"}]
        /\ UNCHANGED <<lesson, server, conn, thread, sock>>
    BY <1>3 DEF ClientWrite, TypeOK
  <2> QED BY <2>2, <2>3 DEF TypeOK, ConnInv
<1>4. CASE ClientChatRead(c) \/ ClientRead(c)
  <2>1. (\E n : ReadParts(c, "client", n)) \/ UNCHANGED socketVars
    BY <1>4 DEF ClientChatRead, ClientRead, AnyRead, ReadEnd, ReadError
  <2>2. /\ inbox' \in [Clients -> [Sides -> PartSeq]] /\ disturbed' \subseteq Clients
        /\ UNCHANGED <<queue, open, reset>>
    BY <1>0, <2>1, ReadEffect DEF TypeOK
  <2>3. /\ client' \in [Clients -> {"connect", "key", "write", "read", "close", "ended"}]
        /\ UNCHANGED <<lesson, server, conn, thread, sock, line>>
    BY <1>4 DEF ClientChatRead, ClientRead, TypeOK
  <2> QED BY <2>2, <2>3 DEF TypeOK, ConnInv
<1>5. CASE ClientClose(c) \/ Kill(c)
  <2>1. {c} \in SUBSET Clients /\ Close({c}, "client")
    BY <1>5 DEF ClientClose, Kill
  <2>2. /\ inbox' \in [Clients -> [Sides -> PartSeq]]
        /\ open' \in [Clients -> SUBSET Sides] /\ reset' \in [Clients -> SUBSET Sides]
    BY <1>0, <2>1, CloseEffect
  <2>3. /\ client' \in [Clients -> {"connect", "key", "write", "read", "close", "ended"}]
        /\ disturbed' \subseteq Clients
        /\ UNCHANGED <<lesson, server, conn, thread, sock, line, queue>>
    BY <1>5 DEF ClientClose, Kill, TypeOK
  <2> QED BY <2>2, <2>3 DEF TypeOK, ConnInv
<1> QED BY <1>1, <1>2, <1>3, <1>4, <1>5 DEF Client

\* Every step keeps the types.
LEMMA TypeStep == TypeOK /\ ConnInv /\ [Next]_vars => TypeOK' /\ ConnInv'
<1> SUFFICES ASSUME TypeOK, ConnInv, [Next]_vars PROVE TypeOK' /\ ConnInv'
  OBVIOUS
<1>1. CASE UNCHANGED vars
  BY <1>1 DEF vars, socketVars, serverVars, TypeOK, ConnInv
<1> QED BY <1>1, MainTypes, ThreadTypes, ClientTypes DEF Next

-----------------------------------------------------------------------------
(* The chat: phases.                                                       *)

\* A connection that is accepted leaves the queue, one that is made enters it.
LEMMA QueueSteps ==
  ASSUME TypeOK, \A i, j \in 1..Len(queue) : queue[i] = queue[j] => i = j
  PROVE  /\ queue' = queue => Waiting' = Waiting
         /\ queue' = <<>> => Waiting' = {} /\ Len(queue') = 0
         /\ \A c \in Clients \ Waiting : queue' = Append(queue, c) =>
              /\ Waiting' = Waiting \cup {c}
              /\ \A i, j \in 1..Len(queue') : queue'[i] = queue'[j] => i = j
         /\ queue # <<>> /\ queue' = Tail(queue) =>
              /\ Head(queue) \in Waiting /\ Head(queue) \in Clients
              /\ Waiting' = Waiting \ {Head(queue)}
              /\ \A i, j \in 1..Len(queue') : queue'[i] = queue'[j] => i = j
<1>1. queue \in Seq(Clients) /\ Len(queue) \in Nat /\ DOMAIN queue = 1..Len(queue)
  BY DEF TypeOK
<1>2. queue' = queue => Waiting' = Waiting
  BY DEF Waiting
<1>3. queue' = <<>> => Waiting' = {} /\ Len(queue') = 0
  BY DEF Waiting
<1>4. ASSUME NEW c \in Clients \ Waiting, queue' = Append(queue, c)
      PROVE  /\ Waiting' = Waiting \cup {c}
             /\ \A i, j \in 1..Len(queue') : queue'[i] = queue'[j] => i = j
  <2>1. /\ Len(queue') = Len(queue) + 1 /\ DOMAIN queue' = 1..Len(queue')
        /\ queue'[Len(queue) + 1] = c
        /\ \A i \in 1..Len(queue) : queue'[i] = queue[i]
    BY <1>1, <1>4
  <2>2. \A i : i \in 1..Len(queue') <=> (i \in 1..Len(queue) \/ i = Len(queue) + 1)
    BY <1>1, <2>1
  <2>3. \A i \in 1..Len(queue) : queue[i] # c
    BY <1>1, <1>4 DEF Waiting
  <2>4. Waiting' = Waiting \cup {c}
    BY <1>1, <2>1, <2>2 DEF Waiting
  <2>5. \A i, j \in 1..Len(queue') : queue'[i] = queue'[j] => i = j
    BY <2>1, <2>2, <2>3
  <2> QED BY <2>4, <2>5
<1>5. ASSUME queue # <<>>, queue' = Tail(queue)
      PROVE  /\ Head(queue) \in Waiting /\ Head(queue) \in Clients
             /\ Waiting' = Waiting \ {Head(queue)}
             /\ \A i, j \in 1..Len(queue') : queue'[i] = queue'[j] => i = j
  <2>1. Len(queue) > 0 /\ Head(queue) = queue[1] /\ queue[1] \in Clients
    BY <1>1, <1>5
  <2>2. /\ Len(queue') = Len(queue) - 1 /\ DOMAIN queue' = 1..Len(queue')
        /\ \A i \in 1..Len(queue') : i + 1 \in 1..Len(queue) /\ queue'[i] = queue[i + 1]
    BY <1>1, <1>5
  <2>3. \A i \in 1..Len(queue) : i # 1 => i - 1 \in 1..Len(queue') /\ queue'[i - 1] = queue[i]
    BY <1>1, <2>2
  <2>4. \A i \in 1..Len(queue) : queue[i] = queue[1] => i = 1
    BY <2>1
  <2>5. Waiting' \subseteq Waiting \ {queue[1]}
    <3> SUFFICES ASSUME NEW i \in 1..Len(queue')
                 PROVE  queue'[i] \in Waiting /\ queue'[i] # queue[1]
      BY <2>2 DEF Waiting
    <3>1. i + 1 # 1 /\ queue'[i] = queue[i + 1] /\ i + 1 \in 1..Len(queue)
      BY <2>2
    <3> QED BY <1>1, <2>4, <3>1 DEF Waiting
  <2>6. Waiting \ {queue[1]} \subseteq Waiting'
    <3> SUFFICES ASSUME NEW i \in 1..Len(queue), queue[i] # queue[1]
                 PROVE  queue[i] \in Waiting'
      BY <1>1 DEF Waiting
    <3>1. i - 1 \in DOMAIN queue' /\ queue'[i - 1] = queue[i]
      BY <2>2, <2>3
    <3> QED BY <3>1 DEF Waiting
  <2>7. \A i, j \in 1..Len(queue') : queue'[i] = queue'[j] => i = j
    <3> SUFFICES ASSUME NEW i \in 1..Len(queue'), NEW j \in 1..Len(queue'), queue'[i] = queue'[j]
                 PROVE  i = j
      OBVIOUS
    <3>1. i + 1 = j + 1
      BY <2>2
    <3> QED BY <2>2, <3>1
  <2>8. queue[1] \in Waiting
    BY <1>1, <2>1 DEF Waiting
  <2> QED BY <2>1, <2>5, <2>6, <2>7, <2>8
<1> QED BY <1>2, <1>3, <1>4, <1>5

\* A step of the server on the connection it works on changes the phase of that
\* connection only.
LEMMA ServerMoves ==
  ASSUME NEW c \in Clients, c = conn, UNCHANGED <<conn, queue>>, server \in Busy, c \notin Waiting
  PROVE  /\ Phase(c) = server
         /\ Phase(c)' = IF server' \in Busy THEN server' ELSE "none"
         /\ \A d \in Clients : d # c => Phase(d)' = Phase(d)
BY DEF Phase, Waiting

\* What says something of a connection stays true while nothing happens to it.
LEMMA Untouched ==
  ASSUME NEW d \in Clients, Phase(d)' = Phase(d), disturbed \subseteq disturbed',
         client'[d] = client[d], inbox'[d] = inbox[d], open'[d] = open[d], reset'[d] = reset[d]
  PROVE  /\ Fresh(d) => Fresh(d)'
         /\ Talk(d) => Talk(d)'
         /\ Exact(d) => Exact(d)'
<1>1. Fresh(d) => Fresh(d)'
  BY DEF Fresh
<1>2. Talk(d) => Talk(d)'
  BY DEF Talk, Talking, Served
<1>3. Exact(d) => Exact(d)'
  BY DEF Exact, Served, ClientsTurn, Asked, SaidExit, ServersTurn, Answered
<1> QED BY <1>1, <1>2, <1>3

\* A step that touches one connection has to be looked at for that connection.
LEMMA OneConnection ==
  ASSUME ChatInv, NEW c \in Clients, disturbed \subseteq disturbed',
         \A d \in Clients : d # c =>
           /\ Phase(d)' = Phase(d) /\ client'[d] = client[d]
           /\ inbox'[d] = inbox[d] /\ open'[d] = open[d] /\ reset'[d] = reset[d],
         Fresh(c)', Talk(c)', Exact(c)', thread' = thread, server' # "create",
         \A i, j \in 1..Len(queue') : queue'[i] = queue'[j] => i = j,
         server' \in Busy => conn' \notin Waiting',
         server' = "fail" => conn' \in disturbed'
  PROVE  ChatInv'
<1>1. \A d \in Clients : d # c => Fresh(d)' /\ Talk(d)' /\ Exact(d)'
  BY Untouched DEF ChatInv, QueueInv
<1> QED BY <1>1 DEF ChatInv, QueueInv

\* One turn is enough.
LEMMA EnoughTurns ==
  \A m, n, t \in Nat : /\ m + n + t + 2 >= 2 /\ m + n + 2 + t >= 2
                       /\ m + (n + 2) + t + 0 >= 2 /\ (m + 2) + n + 0 + t >= 2
OBVIOUS

\* A connection the server has left has nothing to show.
LEMMA Left ==
  ASSUME NEW c \in Clients, Phase(c)' \notin {"queued", "read", "key", "write"}
  PROVE  Talk(c)' /\ Exact(c)'
BY DEF Talk, Exact, Served

-----------------------------------------------------------------------------
(* The chat: the server.                                                   *)

\* accept takes a connection out of the queue.
LEMMA AcceptStep ==
  ASSUME TypeOK, ChatInv, lesson = "chat", Accept
  PROVE  ChatInv'
<1>1. PICK c \in Clients : /\ c = Head(queue) /\ c \in Waiting /\ conn' = c /\ server' = "read"
                           /\ Waiting' = Waiting \ {c} /\ server = "accept"
                           /\ \A i, j \in 1..Len(queue') : queue'[i] = queue'[j] => i = j
  BY QueueSteps DEF Accept, ChatInv, QueueInv
<1>2. UNCHANGED <<inbox, open, reset, disturbed, thread, client>>
  BY DEF Accept
<1>3. /\ Phase(c) = "queued" /\ Phase(c)' = "read"
      /\ \A d \in Clients : d # c => Phase(d)' = Phase(d)
  BY <1>1 DEF Phase, Busy
<1>4. Fresh(c)' /\ Talk(c)' /\ Exact(c)'
  <2>0. Fresh(c) /\ Talk(c) /\ Exact(c)
    BY DEF ChatInv, QueueInv
  <2>1. Fresh(c)'
    BY <1>2, <1>3, <2>0 DEF Fresh
  <2>2. Talk(c)'
    BY <1>2, <1>3, <2>0 DEF Talk, Talking, Served, Turn
  <2>3. Exact(c)'
    BY <1>2, <1>3, <2>0 DEF Exact, Served, ClientsTurn, Asked, SaidExit, ServersTurn, Answered
  <2> QED BY <2>1, <2>2, <2>3
<1> QED BY <1>1, <1>2, <1>3, <1>4, OneConnection

\* What the beginning of a whole message says.
LEMMA WholeMessage ==
  ASSUME NEW q, q = <<"exit", "other">> \/ q = <<"other", "other">>, NEW h \in Heard(SubSeq(q, 1, 2))
  PROVE  h <=> q = <<"exit", "other">>
<1>1. SubSeq(q, 1, 2)[1] = q[1] /\ Len(SubSeq(q, 1, 2)) = 2
  OBVIOUS
<1>2. q = <<"exit", "other">> => Heard(SubSeq(q, 1, 2)) = {TRUE}
  BY <1>1 DEF Heard
<1>3. q = <<"other", "other">> => Heard(SubSeq(q, 1, 2)) = {FALSE}
  BY <1>1 DEF Heard
<1>4. <<"exit", "other">> # <<"other", "other">>
  OBVIOUS
<1>5. CASE q = <<"exit", "other">>
  BY <1>2, <1>5
<1>6. CASE q = <<"other", "other">>
  <2>1. h = FALSE
    BY <1>3, <1>6
  <2> QED BY <1>4, <1>6, <2>1
<1> QED BY <1>5, <1>6

\* chat_func reads.
LEMMA ChatReadStep ==
  ASSUME TypeOK, ConnInv, ChatInv, ChatRead
  PROVE  ChatInv'
<1> USE TwoSides
<1>1. PICK c \in Clients : c = conn
  BY DEF ChatRead, ConnInv, Busy
<1>2. /\ server = "read" /\ server \in Busy /\ c \notin Waiting
      /\ UNCHANGED <<conn, thread, client>> /\ server' \in {"close", "key", "fail"}
  BY <1>1 DEF ChatRead, ServerGoes, ChatInv, QueueInv, Busy
<1>3. Fresh(c) /\ Talk(c) /\ Exact(c)
  BY DEF ChatInv, QueueInv
<1>4. CASE \E n \in 1..2 :
             /\ ReadParts(c, "server", n)
             /\ \E exit \in Heard(SubSeq(inbox[c]["server"], 1, n)) :
                  server' = IF exit THEN "close" ELSE "key"
  <2>1. PICK n \in 1..2 :
             /\ ReadParts(c, "server", n)
             /\ \E exit \in Heard(SubSeq(inbox[c]["server"], 1, n)) :
                  server' = IF exit THEN "close" ELSE "key"
    BY <1>4
  <2>2. /\ UNCHANGED <<queue, open, reset>> /\ n <= Len(inbox[c]["server"])
        /\ Len(inbox'[c]["server"]) = Len(inbox[c]["server"]) - n
        /\ Len(inbox[c]["server"]) = n => inbox'[c]["server"] = <<>>
        /\ inbox'[c]["client"] = inbox[c]["client"]
        /\ \A d \in Clients : d # c => inbox'[d] = inbox[d]
        /\ disturbed \subseteq disturbed' /\ (n = 2 \/ c \in disturbed')
    BY <2>1, ReadEffect
  <2>3. /\ Phase(c) = "read" /\ Phase(c)' = server'
        /\ \A d \in Clients : d # c => Phase(d)' = Phase(d)
    BY <1>1, <1>2, <2>2, ServerMoves DEF Busy
  <2>4. Fresh(c)'
    BY <1>2, <1>3, <2>3 DEF Fresh
  <2>5. Talk(c)'
    <3>1. Len(inbox[c]["server"]) \in Nat /\ Len(inbox[c]["client"]) \in Nat
      BY DEF TypeOK, PartSeq
    <3>2. CASE server' = "key"
      <4>1. CASE Talking(c)
        <5>1. open[c] = Sides /\ reset[c] = {}
          BY <1>3, <2>3, <4>1 DEF Talk, Served
        <5>2. Turn(client[c]) \in Nat /\ Turn(Phase(c))' = 2
          BY <2>3, <3>2 DEF Turn
        <5>3. Len(inbox'[c]["server"]) \in Nat /\ Len(inbox'[c]["client"]) \in Nat
          BY <2>1, <2>2, <3>1
        <5>4. Len(inbox'[c]["server"]) + Len(inbox'[c]["client"]) + Turn(client[c]) + 2 >= 2
          BY <5>2, <5>3, EnoughTurns
        <5> QED BY <1>2, <2>2, <5>1, <5>2, <5>4 DEF Talk
      <4>2. CASE ~Talking(c)
        BY <1>2, <4>2 DEF Talk, Talking
      <4> QED BY <4>1, <4>2
    <3>3. CASE server' # "key"
      BY <1>2, <2>3, <3>3, Left
    <3> QED BY <3>2, <3>3
  <2>6. Exact(c)'
    <3>1. CASE server' # "key"
      BY <1>2, <2>3, <3>1, Left
    <3>2. CASE c \in disturbed'
      BY <3>2 DEF Exact
    <3>3. CASE server' = "key" /\ c \notin disturbed'
      <4>1. n = 2 /\ Served(c) /\ c \notin disturbed
        BY <2>2, <2>3, <3>3 DEF Served
      <4>2. /\ reset[c] = {}
            /\ ClientsTurn(c) \/ Asked(c) \/ SaidExit(c) \/ ServersTurn(c) \/ Answered(c)
        BY <1>3, <4>1 DEF Exact
      <4>3. inbox[c]["server"] # <<>>
        BY <2>2, <4>1
      <4>4. Asked(c) \/ SaidExit(c)
        BY <4>2, <4>3 DEF ClientsTurn, ServersTurn, Answered
      <4>5. inbox[c]["server"] # <<"exit", "other">>
        BY <2>1, <3>3, <4>1, WholeMessage
      <4>6. Asked(c)
        BY <4>4, <4>5 DEF SaidExit
      <4>7. Len(inbox[c]["server"]) = 2
        BY <4>6 DEF Asked
      <4>8. ServersTurn(c)'
        BY <1>2, <2>2, <2>3, <3>3, <4>1, <4>6, <4>7 DEF Asked, ServersTurn
      <4> QED BY <2>2, <4>2, <4>8 DEF Exact
    <3> QED BY <3>1, <3>2, <3>3
  <2>7. server' # "fail" /\ server' # "create"
    BY <2>1
  <2>8. Waiting' = Waiting
    BY <2>2 DEF Waiting
  <2> QED BY <1>1, <1>2, <2>2, <2>3, <2>4, <2>5, <2>6, <2>7, <2>8, OneConnection
          DEF ChatInv, QueueInv
<1>5. CASE (ReadEnd(c, "server") /\ server' = "key") \/ (ReadError(c, "server") /\ server' = "fail")
  <2>1. UNCHANGED <<queue, inbox, open, reset, disturbed>>
    BY <1>5 DEF ReadEnd, ReadError, socketVars
  <2>2. /\ Phase(c) = "read" /\ Phase(c)' = server'
        /\ \A d \in Clients : d # c => Phase(d)' = Phase(d)
    BY <1>1, <1>2, <2>1, ServerMoves DEF Busy
  <2>3. \/ inbox[c]["server"] = <<>> /\ "client" \notin open[c] /\ server' = "key"
        \/ "server" \in reset[c] /\ server' = "fail"
    BY <1>5 DEF ReadEnd, ReadError
  <2>4. c \in disturbed
    <3>1. "server" \in reset[c] => c \in disturbed
      BY <1>3, <2>2 DEF Exact, Served
    <3>2. inbox[c]["server"] = <<>> /\ "client" \notin open[c] => c \in disturbed
      BY <1>3, <2>2 DEF Exact, Served, ClientsTurn, Asked, SaidExit, ServersTurn, Answered
    <3> QED BY <2>3, <3>1, <3>2
  <2>5. ~Talking(c)
    BY <1>3, <2>2, <2>3 DEF Talk, Served
  <2>6. Fresh(c)' /\ Talk(c)' /\ Exact(c)'
    BY <1>2, <1>3, <2>1, <2>2, <2>4, <2>5 DEF Fresh, Talk, Exact, Talking
  <2>7. Waiting' = Waiting /\ server' # "create"
    BY <2>1, <2>3 DEF Waiting
  <2> QED BY <1>1, <1>2, <2>1, <2>2, <2>4, <2>6, <2>7, OneConnection DEF ChatInv, QueueInv
<1> QED BY <1>1, <1>4, <1>5 DEF ChatRead, ServerGoes

\* The user of the server answers.
LEMMA AnswerStep ==
  ASSUME TypeOK, ConnInv, ChatInv, Answer
  PROVE  ChatInv'
<1>1. PICK c \in Clients : c = conn
  BY DEF Answer, ConnInv, Busy
<1>2. /\ server = "key" /\ server \in Busy /\ c \notin Waiting /\ server' = "write"
      /\ UNCHANGED <<conn, thread, client, queue, inbox, open, reset, disturbed>>
  BY <1>1 DEF Answer, ServerGoes, ChatInv, QueueInv, Busy, socketVars
<1>3. /\ Phase(c) = "key" /\ Phase(c)' = "write"
      /\ \A d \in Clients : d # c => Phase(d)' = Phase(d)
  BY <1>1, <1>2, ServerMoves DEF Busy
<1>4. Fresh(c) /\ Talk(c) /\ Exact(c)
  BY DEF ChatInv, QueueInv
<1>5. Fresh(c)' /\ Talk(c)'
  BY <1>2, <1>3, <1>4 DEF Fresh, Talk, Talking, Served, Turn
<1>6. Exact(c)'
  BY <1>2, <1>3, <1>4 DEF Exact, Served, ClientsTurn, Asked, SaidExit, ServersTurn, Answered
<1>7. Waiting' = Waiting
  BY <1>2 DEF Waiting
<1> QED BY <1>1, <1>2, <1>3, <1>5, <1>6, <1>7, OneConnection DEF ChatInv, QueueInv

\* chat_func writes.
LEMMA ChatWriteStep ==
  ASSUME TypeOK, ConnInv, ChatInv, ChatWrite
  PROVE  ChatInv'
<1> USE TwoSides
<1>1. PICK c \in Clients : c = conn
  BY DEF ChatWrite, ConnInv, Busy
<1>2. /\ server = "write" /\ server \in Busy /\ c \notin Waiting
      /\ UNCHANGED <<conn, thread, client>> /\ server' \in {"close", "read", "fail"}
  BY <1>1 DEF ChatWrite, ServerGoes, ChatInv, QueueInv, Busy
<1>3. Fresh(c) /\ Talk(c) /\ Exact(c)
  BY DEF ChatInv, QueueInv
<1>4. /\ UNCHANGED <<queue, open, disturbed>>
      /\ \A d \in Clients : d # c => inbox'[d] = inbox[d] /\ reset'[d] = reset[d]
  <2>1. CASE Write(c, "server", line["server"])
    BY <2>1, WriteEffect
  <2>2. CASE WriteError(c, "server")
    BY <2>2 DEF WriteError, socketVars
  <2> QED BY <1>1, <2>1, <2>2 DEF ChatWrite
<1>5. /\ Phase(c) = "write" /\ Phase(c)' = server'
      /\ \A d \in Clients : d # c => Phase(d)' = Phase(d)
  BY <1>1, <1>2, <1>4, ServerMoves DEF Busy
<1>6. Fresh(c)'
  BY <1>2, <1>3, <1>5 DEF Fresh
<1>7. c \notin disturbed => ServersTurn(c) /\ reset[c] = {}
  BY <1>3, <1>5 DEF Exact, Served, ClientsTurn, Asked, SaidExit, ServersTurn, Answered
<1>8. Talk(c)' /\ Exact(c)'
  <2>1. CASE server' # "read"
    BY <1>2, <1>5, <2>1, Left
  <2>2. CASE server' = "read"
    <3>1. Write(c, "server", line["server"]) /\ line["server"] # "exit"
      BY <1>1, <2>2 DEF ChatWrite, ServerGoes
    <3>2. "client" \in open[c] =>
            /\ reset' = reset
            /\ inbox'[c]["server"] = inbox[c]["server"]
            /\ inbox'[c]["client"] = inbox[c]["client"] \o Parts(line["server"])
            /\ Len(inbox'[c]["client"]) = Len(inbox[c]["client"]) + 2
      <4> DEFINE m == line["server"]
      <4>1. "server" \in Sides /\ Write(c, "server", m)
        BY <3>1
      <4> HIDE DEF m
      <4>2. Peer("server") \in open[c] =>
              /\ reset' = reset
              /\ inbox'[c]["server"] = inbox[c]["server"]
              /\ inbox'[c][Peer("server")] = inbox[c][Peer("server")] \o Parts(m)
              /\ Len(inbox'[c][Peer("server")]) = Len(inbox[c][Peer("server")]) + 2
        BY <4>1, WriteEffect
      <4> QED BY <4>2 DEF m
    <3>3. Talk(c)'
      <4>1. CASE Talking(c)
        <5>1. open[c] = Sides /\ reset[c] = {}
          BY <1>3, <1>5, <4>1 DEF Talk, Served
        <5>2. Len(inbox[c]["server"]) \in Nat /\ Len(inbox[c]["client"]) \in Nat
          BY DEF TypeOK, PartSeq
        <5>3. Turn(client[c]) \in Nat /\ Turn(Phase(c))' = 0
          BY <1>5, <2>2 DEF Turn
        <5>4. /\ Len(inbox'[c]["server"]) = Len(inbox[c]["server"])
              /\ Len(inbox'[c]["client"]) = Len(inbox[c]["client"]) + 2 /\ reset' = reset
          BY <3>2, <5>1
        <5>5. Len(inbox'[c]["server"]) + Len(inbox'[c]["client"]) + Turn(client[c]) + 0 >= 2
          BY <5>2, <5>3, <5>4, EnoughTurns
        <5> QED BY <1>2, <1>4, <5>1, <5>3, <5>4, <5>5 DEF Talk
      <4>2. CASE ~Talking(c)
        BY <1>2, <4>2 DEF Talk, Talking
      <4> QED BY <4>1, <4>2
    <3>4. Exact(c)'
      <4>1. CASE c \in disturbed
        BY <1>4, <4>1 DEF Exact
      <4>2. CASE c \notin disturbed
        <5>1. ServersTurn(c) /\ reset[c] = {}
          BY <1>7, <4>2
        <5>2. <<>> \o Parts(line["server"]) = <<"other", "other">>
          BY <3>1 DEF Parts
        <5>3. Answered(c)'
          BY <1>2, <1>4, <1>5, <2>2, <3>2, <5>1, <5>2 DEF ServersTurn, Answered
        <5> QED BY <3>2, <5>1, <5>3 DEF Exact, ServersTurn
      <4> QED BY <4>1, <4>2
    <3> QED BY <3>3, <3>4
  <2> QED BY <2>1, <2>2
<1>9. server' = "fail" => c \in disturbed
  <2> SUFFICES ASSUME server' = "fail" PROVE "server" \in reset[c]
    BY <1>7
  <2> QED BY <1>1 DEF ChatWrite, ServerGoes, WriteError
<1>10. Waiting' = Waiting /\ server' # "create"
  BY <1>2, <1>4 DEF Waiting
<1> QED BY <1>1, <1>2, <1>4, <1>5, <1>6, <1>8, <1>9, <1>10, OneConnection DEF ChatInv, QueueInv

\* chat_func closes its connection.
LEMMA ChatCloseStep ==
  ASSUME TypeOK, ConnInv, ChatInv, ChatClose
  PROVE  ChatInv'
<1>1. PICK c \in Clients : c = conn
  BY DEF ChatClose, ConnInv, Busy
<1>2. /\ server = "close" /\ server \in Busy /\ c \notin Waiting /\ server' = "accept"
      /\ UNCHANGED <<conn, thread, client, queue, disturbed>> /\ Close({c}, "server")
  BY <1>1 DEF ChatClose, ServerGoes, ChatInv, QueueInv, Busy
<1>3. \A d \in Clients : d # c => inbox'[d] = inbox[d] /\ open'[d] = open[d] /\ reset'[d] = reset[d]
  BY <1>2, TwoSides, CloseEffect
<1>4. /\ Phase(c) = "close" /\ Phase(c)' = "none"
      /\ \A d \in Clients : d # c => Phase(d)' = Phase(d)
  BY <1>1, <1>2, ServerMoves DEF Busy
<1>5. Fresh(c)'
  <2>1. client[c] # "connect"
    BY <1>4 DEF ChatInv, QueueInv, Fresh
  <2> QED BY <1>2, <2>1 DEF Fresh
<1>6. Talk(c)' /\ Exact(c)'
  BY <1>4, Left
<1> QED BY <1>2, <1>3, <1>4, <1>5, <1>6, OneConnection DEF ChatInv, QueueInv, Busy

\* The process ends, with every connection.
LEMMA ServerEndsStep ==
  ASSUME TypeOK, ChatInv, ServerEnds
  PROVE  ChatInv'
<1>1. /\ server' = "ended" /\ UNCHANGED <<thread, client>> /\ queue' = <<>>
      /\ Close({c \in Clients : "server" \in open[c]}, "server")
  BY DEF ServerEnds, ServerGoes
<1>2. \A d \in Clients : Phase(d)' = "none"
  BY <1>1 DEF Phase, Waiting, Busy
<1>3. \A d \in Clients : Fresh(d)'
  <2> SUFFICES ASSUME NEW d \in Clients, client[d] = "connect" PROVE Fresh(d)'
    BY <1>1 DEF Fresh
  <2>1. inbox[d] = Quiet /\ open[d] = {} /\ reset[d] = {}
    BY DEF ChatInv, QueueInv, Fresh
  <2> DEFINE cs == {c \in Clients : "server" \in open[c]}
  <2>2. cs \in SUBSET Clients /\ d \notin cs /\ Close(cs, "server")
    BY <1>1, <2>1
  <2>3. inbox'[d] = inbox[d] /\ open'[d] = open[d] /\ reset'[d] = reset[d]
    <3> HIDE DEF cs
    <3> QED BY <2>2, TwoSides, CloseEffect
  <2> QED BY <1>2, <2>1, <2>3 DEF Fresh, Quiet
<1>4. \A d \in Clients : Talk(d)' /\ Exact(d)'
  BY <1>2, Left
<1>5. Len(queue') = 0
  BY <1>1
<1> QED BY <1>1, <1>3, <1>4, <1>5 DEF ChatInv, QueueInv, Busy

-----------------------------------------------------------------------------
(* The chat: the clients.                                                  *)

\* A client's step leaves the server where it is.
LEMMA ClientMoves ==
  ASSUME UNCHANGED <<queue, server, conn>>
  PROVE  \A d \in Clients : Phase(d)' = Phase(d)
BY DEF Phase, Waiting

\* What a client's step has to show for its own connection.
LEMMA ClientConnection ==
  ASSUME ChatInv, NEW c \in Clients, UNCHANGED <<queue, server, conn, thread>>,
         disturbed \subseteq disturbed',
         \A d \in Clients : d # c =>
           /\ client'[d] = client[d]
           /\ inbox'[d] = inbox[d] /\ open'[d] = open[d] /\ reset'[d] = reset[d],
         client'[c] # "connect", Talk(c)', Exact(c)'
  PROVE  ChatInv'
<1>1. \A d \in Clients : Phase(d)' = Phase(d)
  BY ClientMoves
<1>2. Waiting' = Waiting /\ Fresh(c)'
  BY DEF Waiting, Fresh
<1>3. server # "create" /\ (server = "fail" => conn \in disturbed)
  BY DEF ChatInv
<1> QED BY <1>1, <1>2, <1>3, OneConnection DEF ChatInv, QueueInv

\* connect: the connection waits in the queue, unless the server has ended.
LEMMA ConnectStep ==
  ASSUME TypeOK, ChatInv, lesson = "chat", NEW c \in Clients, Connect(c)
  PROVE  ChatInv'
<1>1. /\ client[c] = "connect" /\ UNCHANGED <<server, conn, thread, inbox, reset, disturbed>>
      /\ Fresh(c)
  BY DEF Connect, ClientGoes, serverVars, socketVars, ChatInv, QueueInv
<1>2. /\ Phase(c) = "none" /\ c \notin Waiting /\ ~(server \in Busy /\ conn = c)
      /\ inbox[c] = Quiet /\ open[c] = {} /\ reset[c] = {}
  BY <1>1 DEF Fresh, Phase, Busy
<1>3. CASE /\ queue' = Append(queue, c) /\ open' = [open EXCEPT ![c] = Sides]
           /\ client' = [client EXCEPT ![c] = "key"]
  <2>1. /\ Waiting' = Waiting \cup {c}
        /\ \A i, j \in 1..Len(queue') : queue'[i] = queue'[j] => i = j
    BY <1>2, <1>3, QueueSteps DEF ChatInv, QueueInv
  <2>2. Phase(c)' = "queued" /\ \A d \in Clients : d # c => Phase(d)' = Phase(d)
    BY <1>1, <2>1 DEF Phase
  <2>3. /\ client'[c] = "key" /\ open'[c] = Sides
        /\ \A d \in Clients : d # c => client'[d] = client[d] /\ open'[d] = open[d]
    BY <1>3 DEF TypeOK
  <2>4. inbox[c]["server"] = <<>> /\ inbox[c]["client"] = <<>>
    BY <1>2, TwoSides DEF Quiet
  <2>5. Fresh(c)'
    BY <2>3 DEF Fresh
  <2>6. Talk(c)'
    <3>1. Turn("key") = 2 /\ Turn("queued") = 0 /\ Len(<<>>) = 0
      BY DEF Turn
    <3> QED BY <1>1, <1>2, <2>2, <2>3, <2>4, <3>1 DEF Talk
  <2>7. Exact(c)'
    BY <1>1, <1>2, <2>2, <2>3, <2>4 DEF Exact, ClientsTurn
  <2>8. server' \in Busy => conn' \notin Waiting'
    BY <1>1, <1>2, <2>1 DEF ChatInv, QueueInv
  <2> QED BY <1>1, <2>1, <2>2, <2>3, <2>5, <2>6, <2>7, <2>8, OneConnection DEF ChatInv
<1>4. CASE UNCHANGED <<queue, open>> /\ client' = [client EXCEPT ![c] = "ended"]
  <2>1. client'[c] = "ended" /\ \A d \in Clients : d # c => client'[d] = client[d]
    BY <1>4 DEF TypeOK
  <2>2. Phase(c)' = "none"
    BY <1>1, <1>2, <1>4, ClientMoves
  <2>3. Talk(c)' /\ Exact(c)'
    BY <2>2, Left
  <2> QED BY <1>1, <1>4, <2>1, <2>3, ClientConnection
<1> QED BY <1>3, <1>4 DEF Connect, ClientGoes, socketVars

\* The user of a client types.
LEMMA SayStep ==
  ASSUME TypeOK, ChatInv, NEW c \in Clients, Say(c)
  PROVE  ChatInv'
<1>1. /\ client[c] = "key" /\ client' = [client EXCEPT ![c] = "write"]
      /\ UNCHANGED <<server, conn, thread, queue, inbox, open, reset, disturbed>>
  BY DEF Say, ClientGoes, serverVars, socketVars
<1>2. client'[c] = "write" /\ \A d \in Clients : d # c => client'[d] = client[d]
  BY <1>1 DEF TypeOK
<1>3. Phase(c)' = Phase(c) /\ Talk(c) /\ Exact(c)
  BY <1>1, ClientMoves DEF ChatInv
<1>4. Talk(c)'
  BY <1>1, <1>2, <1>3 DEF Talk, Talking, Served, Turn
<1>5. Exact(c)'
  BY <1>1, <1>2, <1>3 DEF Exact, Served, ClientsTurn, Asked, SaidExit, ServersTurn, Answered
<1> QED BY <1>1, <1>2, <1>4, <1>5, ClientConnection

\* A client writes what its user has typed.
LEMMA ClientWriteStep ==
  ASSUME TypeOK, ChatInv, NEW c \in Clients, ClientWrite(c)
  PROVE  ChatInv'
<1> USE TwoSides
<1>1. client[c] = "write" /\ UNCHANGED <<server, conn, thread>>
  BY DEF ClientWrite, ClientGoes, serverVars
<1> DEFINE m == line[c]
<1>2. \/ Write(c, "client", m) /\ client' = [client EXCEPT ![c] = IF m = "exit" THEN "close" ELSE "read"]
      \/ WriteError(c, "client") /\ client' = [client EXCEPT ![c] = "close"]
  BY DEF ClientWrite, ClientGoes
<1> HIDE DEF m
<1>3. /\ UNCHANGED <<queue, open, disturbed>>
      /\ \A d \in Clients : d # c => inbox'[d] = inbox[d] /\ reset'[d] = reset[d]
  <2>1. CASE Write(c, "client", m)
    BY <2>1, WriteEffect
  <2>2. CASE WriteError(c, "client")
    BY <2>2 DEF WriteError, socketVars
  <2> QED BY <1>2, <2>1, <2>2
<1>4. /\ client'[c] \in {"close", "read"} /\ (client'[c] = "read" => m # "exit")
      /\ \A d \in Clients : d # c => client'[d] = client[d]
  BY <1>2 DEF TypeOK
<1>5. Phase(c)' = Phase(c) /\ Talk(c) /\ Exact(c)
  BY <1>1, <1>3, ClientMoves DEF ChatInv
<1>6. CASE ~Served(c)
  <2>1. Talk(c)' /\ Exact(c)'
    BY <1>5, <1>6, Left DEF Served
  <2> QED BY <1>1, <1>3, <1>4, <2>1, ClientConnection
<1>7. CASE Served(c)
  <2>1. open[c] = Sides /\ reset[c] = {}
    BY <1>1, <1>5, <1>7 DEF Talk, Talking
  <2>2. Write(c, "client", m) /\ client'[c] = IF m = "exit" THEN "close" ELSE "read"
    BY <1>2, <2>1 DEF WriteError, TypeOK
  <2>3. /\ reset' = reset
        /\ inbox'[c]["client"] = inbox[c]["client"]
        /\ inbox'[c]["server"] = inbox[c]["server"] \o Parts(m)
        /\ Len(inbox'[c]["server"]) = Len(inbox[c]["server"]) + 2
    <3>1. Peer("client") \in open[c] =>
            /\ reset' = reset
            /\ inbox'[c]["client"] = inbox[c]["client"]
            /\ inbox'[c][Peer("client")] = inbox[c][Peer("client")] \o Parts(m)
            /\ Len(inbox'[c][Peer("client")]) = Len(inbox[c][Peer("client")]) + 2
      BY <2>2, WriteEffect
    <3> QED BY <2>1, <3>1
  <2>4. Talk(c)'
    <3>1. CASE client'[c] = "close"
      BY <3>1 DEF Talk, Talking
    <3>2. CASE client'[c] = "read"
      <4>1. Len(inbox[c]["server"]) \in Nat /\ Len(inbox[c]["client"]) \in Nat
        BY DEF TypeOK, PartSeq
      <4>2. Turn("read") = 0 /\ Turn(Phase(c))' = Turn(Phase(c)) /\ Turn(Phase(c)) \in Nat
        BY <1>5 DEF Turn
      <4>3. Len(inbox'[c]["server"]) + Len(inbox'[c]["client"]) + 0 + Turn(Phase(c)) >= 2
        BY <2>3, <4>1, <4>2, EnoughTurns
      <4> QED BY <1>3, <2>1, <2>3, <3>2, <4>2, <4>3 DEF Talk
    <3> QED BY <1>4, <3>1, <3>2
  <2>5. Exact(c)'
    <3>1. CASE c \in disturbed
      BY <1>3, <3>1 DEF Exact
    <3>2. CASE c \notin disturbed
      <4>1. ClientsTurn(c)
        BY <1>1, <1>5, <1>7, <3>2 DEF Exact, ClientsTurn, Asked, SaidExit, ServersTurn, Answered
      <4>2. /\ inbox'[c]["client"] = <<>>
            /\ inbox'[c]["server"] = IF m = "exit" THEN <<"exit", "other">> ELSE <<"other", "other">>
        <5>1. <<>> \o Parts(m) = IF m = "exit" THEN <<"exit", "other">> ELSE <<"other", "other">>
          BY DEF Parts
        <5> QED BY <2>3, <4>1, <5>1 DEF ClientsTurn
      <4>3. CASE m = "exit"
        <5>1. SaidExit(c)'
          BY <1>3, <1>5, <2>2, <4>1, <4>2, <4>3 DEF ClientsTurn, SaidExit
        <5> QED BY <2>1, <2>3, <5>1 DEF Exact
      <4>4. CASE m # "exit"
        <5>1. Asked(c)'
          BY <1>3, <1>5, <2>2, <4>1, <4>2, <4>4 DEF ClientsTurn, Asked
        <5> QED BY <2>1, <2>3, <5>1 DEF Exact
      <4> QED BY <4>3, <4>4
    <3> QED BY <3>1, <3>2
  <2> QED BY <1>1, <1>3, <1>4, <2>4, <2>5, ClientConnection
<1> QED BY <1>6, <1>7

\* A client reads the answer.
LEMMA ClientReadStep ==
  ASSUME TypeOK, ChatInv, NEW c \in Clients, ClientChatRead(c)
  PROVE  ChatInv'
<1> USE TwoSides
<1>1. client[c] = "read" /\ UNCHANGED <<server, conn, thread>>
  BY DEF ClientChatRead, ClientGoes, serverVars
<1>2. PICK l \in {"close", "key"} : client' = [client EXCEPT ![c] = l]
  BY DEF ClientChatRead, ClientGoes
<1>3. client'[c] = l /\ \A d \in Clients : d # c => client'[d] = client[d]
  BY <1>2 DEF TypeOK
<1>4. CASE \E n \in 1..2 :
             /\ ReadParts(c, "client", n)
             /\ \E exit \in Heard(SubSeq(inbox[c]["client"], 1, n)) :
                  client' = [client EXCEPT ![c] = IF exit THEN "close" ELSE "key"]
  <2>1. PICK n \in 1..2 :
             /\ ReadParts(c, "client", n)
             /\ \E exit \in Heard(SubSeq(inbox[c]["client"], 1, n)) :
                  client' = [client EXCEPT ![c] = IF exit THEN "close" ELSE "key"]
    BY <1>4
  <2>2. /\ UNCHANGED <<queue, open, reset>> /\ n <= Len(inbox[c]["client"])
        /\ Len(inbox'[c]["client"]) = Len(inbox[c]["client"]) - n
        /\ Len(inbox[c]["client"]) = n => inbox'[c]["client"] = <<>>
        /\ inbox'[c]["server"] = inbox[c]["server"]
        /\ \A d \in Clients : d # c => inbox'[d] = inbox[d]
        /\ disturbed \subseteq disturbed' /\ (n = 2 \/ c \in disturbed')
    BY <2>1, ReadEffect
  <2>3. Phase(c)' = Phase(c) /\ Talk(c) /\ Exact(c)
    BY <1>1, <2>2, ClientMoves DEF ChatInv
  <2>4. CASE ~Served(c)
    <3>1. Talk(c)' /\ Exact(c)'
      BY <2>3, <2>4, Left DEF Served
    <3> QED BY <1>1, <1>3, <2>2, <3>1, ClientConnection
  <2>5. CASE Served(c)
    <3>1. open[c] = Sides /\ reset[c] = {}
      BY <1>1, <2>3, <2>5 DEF Talk, Talking
    <3>2. Talk(c)'
      <4>1. CASE l = "close"
        BY <1>3, <4>1 DEF Talk, Talking
      <4>2. CASE l = "key"
        <5>1. Len(inbox[c]["server"]) \in Nat /\ Len(inbox[c]["client"]) \in Nat
          BY DEF TypeOK, PartSeq
        <5>2. Len(inbox'[c]["server"]) \in Nat /\ Len(inbox'[c]["client"]) \in Nat
          BY <2>1, <2>2, <5>1
        <5>3. Turn("key") = 2 /\ Turn(Phase(c))' = Turn(Phase(c)) /\ Turn(Phase(c)) \in Nat
          BY <2>3 DEF Turn
        <5>4. Len(inbox'[c]["server"]) + Len(inbox'[c]["client"]) + 2 + Turn(Phase(c)) >= 2
          BY <5>2, <5>3, EnoughTurns
        <5> QED BY <1>3, <2>2, <3>1, <4>2, <5>3, <5>4 DEF Talk
      <4> QED BY <4>1, <4>2
    <3>3. Exact(c)'
      <4>1. CASE c \in disturbed'
        BY <4>1 DEF Exact
      <4>2. CASE c \notin disturbed'
        <5>1. n = 2 /\ c \notin disturbed /\ inbox[c]["client"] # <<>>
          BY <2>2, <4>2
        <5>2. Answered(c)
          BY <1>1, <2>3, <2>5, <5>1 DEF Exact, ClientsTurn, Asked, SaidExit, ServersTurn, Answered
        <5>3. inbox[c]["client"] = <<"other", "other">> /\ <<"other", "other">> # <<"exit", "other">>
          BY <5>2 DEF Answered
        <5>4. PICK h \in Heard(SubSeq(inbox[c]["client"], 1, 2)) :
                client' = [client EXCEPT ![c] = IF h THEN "close" ELSE "key"]
          BY <2>1, <5>1
        <5>5. ~h
          BY <5>3, WholeMessage
        <5>6. client'[c] = "key"
          BY <5>4, <5>5 DEF TypeOK
        <5>7. ClientsTurn(c)'
          BY <2>2, <2>3, <5>1, <5>2, <5>3, <5>6 DEF Answered, ClientsTurn
        <5> QED BY <2>2, <3>1, <5>7 DEF Exact
      <4> QED BY <4>1, <4>2
    <3> QED BY <1>1, <1>3, <2>2, <3>2, <3>3, ClientConnection
  <2> QED BY <2>4, <2>5
<1>5. CASE (ReadEnd(c, "client") /\ l = "key") \/ (ReadError(c, "client") /\ l = "close")
  <2>1. UNCHANGED <<queue, inbox, open, reset, disturbed>>
    BY <1>5 DEF ReadEnd, ReadError, socketVars
  <2>2. "server" \notin open[c] \/ "client" \in reset[c]
    BY <1>5 DEF ReadEnd, ReadError
  <2>3. Phase(c)' = Phase(c) /\ Talk(c) /\ Exact(c)
    BY <1>1, <2>1, ClientMoves DEF ChatInv
  <2>4. ~Served(c)
    BY <1>1, <2>2, <2>3 DEF Talk, Talking
  <2>5. Talk(c)' /\ Exact(c)'
    BY <2>3, <2>4, Left DEF Served
  <2> QED BY <1>1, <1>3, <2>1, <2>5, ClientConnection
<1>6. CASE ReadEnd(c, "client") /\ client' = [client EXCEPT ![c] = "key"]
  <2>1. l = "key"
    BY <1>3, <1>6 DEF TypeOK
  <2> QED BY <1>5, <1>6, <2>1
<1>7. CASE ReadError(c, "client") /\ client' = [client EXCEPT ![c] = "close"]
  <2>1. l = "close"
    BY <1>3, <1>7 DEF TypeOK
  <2> QED BY <1>5, <1>7, <2>1
<1> QED BY <1>4, <1>6, <1>7 DEF ClientChatRead, ClientGoes

\* A client closes its connection, or is interrupted.
LEMMA ClientLeavesStep ==
  ASSUME TypeOK, ChatInv, NEW c \in Clients, ClientClose(c) \/ Kill(c)
  PROVE  ChatInv'
<1> USE TwoSides
<1>1. /\ client' = [client EXCEPT ![c] = "ended"] /\ Close({c}, "client")
      /\ UNCHANGED <<server, conn, thread, queue>> /\ disturbed \subseteq disturbed'
      /\ disturbed' = disturbed => client[c] = "close" \/ c \in disturbed
  BY DEF ClientClose, Kill, ClientGoes, serverVars
<1>2. client'[c] = "ended" /\ \A d \in Clients : d # c => client'[d] = client[d]
  BY <1>1 DEF TypeOK
<1>3. \A d \in Clients : d # c => inbox'[d] = inbox[d] /\ open'[d] = open[d] /\ reset'[d] = reset[d]
  BY <1>1, CloseEffect
<1>4. Phase(c)' = Phase(c) /\ Talk(c) /\ Exact(c)
  BY <1>1, ClientMoves DEF ChatInv
<1>5. Talk(c)'
  BY <1>2 DEF Talk, Talking
<1>6. Exact(c)'
  <2>1. CASE c \in disturbed'
    BY <2>1 DEF Exact
  <2>2. CASE c \notin disturbed' /\ ~Served(c)
    BY <1>4, <2>2, Left DEF Served
  <2>3. CASE c \notin disturbed' /\ Served(c)
    <3>1. client[c] = "close" /\ c \notin disturbed
      BY <1>1, <2>3 DEF ClientClose, Kill
    <3>2. SaidExit(c) /\ open[c] = Sides /\ reset[c] = {}
      BY <1>4, <2>3, <3>1 DEF Exact, ClientsTurn, Asked, SaidExit, ServersTurn, Answered
    <3>3. /\ open'[c] = {"server"} /\ reset'[c] = {}
          /\ inbox'[c] = [inbox[c] EXCEPT !["client"] = <<>>]
      BY <1>1, <3>2 DEF Close, Unread, SaidExit
    <3>4. inbox'[c]["server"] = inbox[c]["server"] /\ inbox'[c]["client"] = <<>>
      BY <3>3 DEF TypeOK
    <3>5. SaidExit(c)'
      BY <1>2, <1>4, <3>2, <3>3, <3>4 DEF SaidExit
    <3> QED BY <3>3, <3>5 DEF Exact
  <2> QED BY <2>1, <2>2, <2>3
<1> QED BY <1>1, <1>2, <1>3, <1>5, <1>6, ClientConnection

-----------------------------------------------------------------------------
(* Theorems.                                                               *)

\* Every step of a chat keeps its turns.
LEMMA ChatStep == IInv /\ lesson = "chat" /\ [Next]_vars => ChatInv'
<1> SUFFICES ASSUME IInv, lesson = "chat", [Next]_vars PROVE ChatInv'
  OBVIOUS
<1>0. TypeOK /\ ConnInv /\ ChatInv
  BY DEF IInv
<1>1. CASE Main \/ Answer
  <2>1. ~BasicRead /\ ~BasicWrite /\ ~CreateThread
    BY <1>0 DEF BasicRead, BasicWrite, CreateThread, ChatInv
  <2> QED BY <1>0, <1>1, <2>1, AcceptStep, ChatReadStep, AnswerStep, ChatWriteStep, ChatCloseStep,
          ServerEndsStep DEF Main
<1>2. ASSUME NEW c \in Clients PROVE ~handle_client(c) /\ ~ClientRead(c)
  BY <1>0 DEF handle_client, Fetch, ThreadRead, ThreadWrite, ThreadClose, ClientRead, ChatInv
<1>3. ASSUME NEW c \in Clients, Connect(c) \/ Say(c) \/ Client(c) \/ Kill(c) PROVE ChatInv'
  BY <1>0, <1>2, <1>3, ConnectStep, SayStep, ClientWriteStep, ClientReadStep, ClientLeavesStep
     DEF Client
<1>4. CASE UNCHANGED vars
  <2>1. UNCHANGED <<queue, server, conn, thread, client, inbox, open, reset, disturbed>>
    BY <1>4 DEF vars, socketVars, serverVars
  <2>2. \A d \in Clients : Phase(d)' = Phase(d)
    BY <2>1, ClientMoves
  <2>3. \A d \in Clients : Fresh(d)' /\ Talk(d)' /\ Exact(d)'
    BY <1>0, <2>1, <2>2, Untouched DEF ChatInv, QueueInv
  <2> QED BY <1>0, <2>1, <2>3 DEF ChatInv, QueueInv, Waiting
<1> QED BY <1>1, <1>2, <1>3, <1>4 DEF Next

\* Which program is run does not change.
LEMMA LessonStep == [Next]_vars => lesson' = lesson
<1> SUFFICES ASSUME [Next]_vars PROVE lesson' = lesson
  OBVIOUS
<1> USE DEF ServerGoes, ThreadGoes, ClientGoes
<1>1. CASE Main \/ Answer
  BY <1>1 DEF Main, Answer, Accept, ChatRead, ChatWrite, ChatClose, BasicRead, BasicWrite, ServerEnds,
     CreateThread
<1>2. CASE \E c \in Clients : handle_client(c)
  BY <1>2 DEF handle_client, Fetch, ThreadRead, ThreadWrite, ThreadClose
<1>3. CASE \E c \in Clients : Connect(c) \/ Say(c) \/ Client(c) \/ Kill(c)
  BY <1>3 DEF Connect, Say, Client, ClientWrite, ClientChatRead, ClientRead, ClientClose, Kill
<1> QED BY <1>1, <1>2, <1>3 DEF Next, vars

\* Nobody is connected before the program starts.
LEMMA InitInv == Init => IInv
<1> SUFFICES ASSUME Init PROVE IInv
  OBVIOUS
<1>1. Quiet \in [Sides -> PartSeq] /\ inbox = [c \in Clients |-> Quiet]
  BY DEF Init, Quiet, PartSeq
<1>2. TypeOK
  BY <1>1, LessonsAssumption DEF Init, TypeOK
<1>3. ConnInv
  BY DEF Init, ConnInv, Busy
<1>4. ChatInv
  <2>1. Waiting = {} /\ Len(queue) = 0
    BY DEF Init, Waiting
  <2>2. \A c \in Clients : Phase(c) = "none"
    BY <2>1 DEF Phase, Init, Busy
  <2>3. \A c \in Clients : Fresh(c) /\ Talk(c) /\ Exact(c)
    BY <1>1, <2>2 DEF Init, Fresh, Talk, Exact, Served
  <2> QED BY <2>1, <2>3 DEF Init, ChatInv, QueueInv, Busy
<1> QED BY <1>2, <1>3, <1>4 DEF IInv

\* Types, and for the chat the queue, the turns and the stages, hold for ever.
THEOREM InductiveInvariant == Spec => []IInv
<1>1. IInv /\ [Next]_vars => IInv'
  BY TypeStep, LessonStep, ChatStep DEF IInv
<1> QED BY <1>1, InitInv, PTL DEF Spec

\* Every variable keeps its type: no step reads an empty inbox or works on a
\* connection that is not there.
THEOREM TypeCorrectness == Spec => []TypeOK
<1>1. IInv => TypeOK
  BY DEF IInv
<1> QED BY <1>1, InductiveInvariant, PTL

\* The two sides of a chat are never both waiting for the other's message (line
\* 33 of stream_server.c, line 42 of stream_client.c).
THEOREM TurnsTheorem == Spec => []TurnsNeverDeadlock
<1>1. IInv => TurnsNeverDeadlock
  <2> SUFFICES ASSUME IInv, NEW c \in Clients, lesson = "chat", conn = c, server = "read",
                      client[c] = "read", inbox[c]["server"] = <<>>, inbox[c]["client"] = <<>>
               PROVE  FALSE
    BY DEF TurnsNeverDeadlock
  <2>1. Phase(c) = "read" /\ Talk(c)
    BY DEF IInv, ChatInv, QueueInv, Phase, Busy
  <2>2. Turn("read") = 0 /\ Len(<<>>) = 0
    BY DEF Turn
  <2> QED BY <2>1, <2>2 DEF Talk, Talking, Served
<1> QED BY <1>1, InductiveInvariant, PTL

\* The chat server ends only on a connection that was cut short or on which a
\* message was cut (28-55 of stream_server.c).
THEOREM BrokenChatTheorem == Spec => []ServerEndsByBrokenChat
<1>1. IInv => ServerEndsByBrokenChat
  BY DEF IInv, ChatInv, ServerEndsByBrokenChat
<1> QED BY <1>1, InductiveInvariant, PTL

=============================================================================
