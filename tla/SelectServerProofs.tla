-------------------------- MODULE SelectServerProofs --------------------------
(* Theorems about SelectServer, for every set of clients, every size of    *)
(* the table and every number of messages.                                 *)
EXTENDS SelectServer, NaturalsInduction, WellFoundedInduction, TLAPS

\* What is printed or waits to be read has been sent.
InboxInv == \A c \in Clients : inbox[c] + heard[c] = sent[c]

\* The master set holds the listening socket only, and a round begins with
\* what select left of it.
SetsInv ==
  /\ readfds \subseteq {Listener}
  /\ tempfds \subseteq Clients \cup {Listener}
  /\ pc = "accept" => tempfds \subseteq {Listener} /\ slot = 0 /\ backlog # <<>>

\* A client that nobody accepted yet is in the backlog at most once, is not in
\* the table and was never read.
WaitingInv ==
  /\ \A i, j \in 1..Len(backlog) : backlog[i] = backlog[j] => i = j
  /\ \A i \in 1..Len(backlog) : conn[backlog[i]] # "idle"
  /\ \A c \in Clients :
       conn[c] = "idle" \/ (\E i \in 1..Len(backlog) : backlog[i] = c) =>
         reads[c] = 0 /\ \A i \in Table : client_sockets[i] # c

\* What this round has yet to read has not been read before.
PendingInv ==
  pc = "clients" => \A i \in Pending : reads[client_sockets[i]] = 0

\* A client is read once at most; one that was heard was read, and is in the
\* table.
ReadInv ==
  \A c \in Clients :
    /\ reads[c] <= 1
    /\ heard[c] > 0 => reads[c] = 1 /\ \E i \in Table : client_sockets[i] = c

IInv == TypeOK /\ InboxInv /\ SetsInv /\ WaitingInv /\ PendingInv /\ ReadInv

-----------------------------------------------------------------------------
(* Least elements.                                                         *)

\* Min finds an element of a nonempty set of natural numbers, and none is
\* smaller.
LEMMA MinIsLeast ==
  ASSUME NEW S \in SUBSET Nat, S # {}
  PROVE  Min(S) \in S /\ \A j \in S : Min(S) <= j
<1>1. \E i \in S : \A j \in S : <<j, i>> \notin OpToRel(<, Nat)
  BY WFMin, NatLessThanWellFounded
<1>2. \A i, j \in Nat : <<j, i>> \notin OpToRel(<, Nat) => i <= j
  BY DEF OpToRel
<1>3. \E i \in S : \A j \in S : i <= j
  BY <1>1, <1>2
<1> QED BY <1>3 DEF Min

\* The loop of handle_client_data goes on with an entry of the table that
\* holds a client.
LEMMA PendingEntry ==
  ASSUME TypeOK, SetsInv, Pending # {}
  PROVE  /\ Min(Pending) \in Pending /\ Min(Pending) \in Table
         /\ \A j \in Pending : Min(Pending) <= j
         /\ client_sockets[Min(Pending)] \in Clients
<1>1. Pending \in SUBSET Nat /\ Pending \subseteq Table
  BY SelectAssumption DEF Pending, Table
<1>2. Min(Pending) \in Pending /\ \A j \in Pending : Min(Pending) <= j
  BY <1>1, MinIsLeast
<1>3. \A i \in Pending : client_sockets[i] \in Clients
  BY SelectAssumption DEF Pending, TypeOK, SetsInv, Listener, Free
<1> QED BY <1>1, <1>2, <1>3

-----------------------------------------------------------------------------
(* Clients.                                                                *)

\* A client joins the backlog once.
LEMMA ConnectStep ==
  ASSUME IInv, NEW c \in Clients, Connect(c)
  PROVE  IInv'
<1> USE DEF IInv, serverVars, Pending
<1>1. /\ UNCHANGED <<inbox, sent, serverVars>> /\ conn[c] = "idle"
      /\ conn' = [conn EXCEPT ![c] = "open"] /\ backlog' = Append(backlog, c)
  BY DEF Connect
<1>2. /\ backlog' \in Seq(Clients) /\ Len(backlog') = Len(backlog) + 1 /\ Len(backlog) \in Nat
      /\ backlog'[Len(backlog) + 1] = c
      /\ \A i \in 1..Len(backlog) : backlog'[i] = backlog[i]
  BY <1>1 DEF TypeOK
<1>3. TypeOK'
  BY <1>1, <1>2 DEF TypeOK
<1>4. InboxInv' /\ PendingInv' /\ ReadInv'
  BY <1>1 DEF InboxInv, PendingInv, ReadInv
<1>5. SetsInv'
  BY <1>1, <1>2 DEF SetsInv
<1>6. WaitingInv'
  <2>1. \A i \in 1..Len(backlog) : backlog[i] # c
    BY <1>1 DEF WaitingInv
  <2>2. \A i \in 1..Len(backlog') : i \in 1..Len(backlog) \/ (i = Len(backlog) + 1)
    BY <1>2
  <2>3. \A i, j \in 1..Len(backlog') : backlog'[i] = backlog'[j] => i = j
    BY <1>2, <2>1, <2>2 DEF WaitingInv
  <2>4. \A i \in 1..Len(backlog') : conn'[backlog'[i]] # "idle"
    BY <1>1, <1>2, <2>1, <2>2 DEF WaitingInv, TypeOK
  <2>5. ASSUME NEW d \in Clients, conn'[d] = "idle" \/ \E i \in 1..Len(backlog') : backlog'[i] = d
        PROVE  conn[d] = "idle" \/ \E i \in 1..Len(backlog) : backlog[i] = d
    BY <1>1, <1>2, <2>2, <2>5 DEF TypeOK
  <2>6. \A d \in Clients :
          conn'[d] = "idle" \/ (\E i \in 1..Len(backlog') : backlog'[i] = d) =>
            reads'[d] = 0 /\ \A i \in Table : client_sockets'[i] # d
    BY <1>1, <2>5 DEF WaitingInv
  <2> QED BY <2>3, <2>4, <2>6 DEF WaitingInv
<1> QED BY <1>3, <1>4, <1>5, <1>6

\* Sending and closing leave the server alone.
LEMMA SendCloseStep ==
  ASSUME IInv, NEW c \in Clients, Send(c) \/ Close(c)
  PROVE  IInv'
<1> USE DEF IInv, serverVars, Pending
<1>1. UNCHANGED <<backlog, serverVars>>
  BY DEF Send, Close
<1>2. (\A d \in Clients : conn'[d] = "idle" <=> conn[d] = "idle")
      /\ conn' \in [Clients -> {"idle", "open", "closed", "aborted"}]
  BY DEF TypeOK, Send, Close
<1>3. /\ inbox' \in [Clients -> 0..MaxMessages] /\ sent' \in [Clients -> 0..MaxMessages]
      /\ InboxInv'
  <2>1. CASE Close(c)
    BY <2>1, <1>1 DEF Close, TypeOK, InboxInv
  <2>2. CASE Send(c)
    <3>1. /\ sent[c] \in Nat /\ inbox[c] \in Nat /\ heard[c] \in Nat
          /\ inbox[c] + heard[c] = sent[c] /\ sent[c] < MaxMessages
      BY <2>2 DEF Send, TypeOK, InboxInv
    <3>2. sent[c] + 1 \in 0..MaxMessages /\ inbox[c] + 1 \in 0..MaxMessages
      BY <3>1, SelectAssumption
    <3>3. /\ inbox' \in [Clients -> 0..MaxMessages] /\ sent' \in [Clients -> 0..MaxMessages]
      BY <2>2, <3>2 DEF Send, TypeOK
    <3>4. ASSUME NEW d \in Clients PROVE inbox'[d] + heard'[d] = sent'[d]
      <4>1. CASE d = c
        BY <4>1, <3>1, <2>2, <1>1 DEF Send, TypeOK
      <4>2. CASE d # c
        BY <4>2, <2>2, <1>1 DEF Send, TypeOK, InboxInv
      <4> QED BY <4>1, <4>2
    <3> QED BY <3>3, <3>4 DEF InboxInv
  <2> QED BY <2>1, <2>2
<1>4. TypeOK'
  BY <1>1, <1>2, <1>3 DEF TypeOK
<1>5. SetsInv' /\ PendingInv' /\ ReadInv'
  BY <1>1 DEF SetsInv, PendingInv, ReadInv
<1>6. WaitingInv'
  <2>1. backlog \in Seq(Clients)
    BY DEF TypeOK
  <2>2. \A i \in 1..Len(backlog) : backlog[i] \in Clients
    BY <2>1
  <2> QED BY <1>1, <1>2, <2>2 DEF WaitingInv
<1> QED BY <1>3, <1>4, <1>5, <1>6

-----------------------------------------------------------------------------
(* The server.                                                             *)

\* The statements between accept and the reads choose what is looked at next
\* (71-112), and the end of a round leaves everything as it is.
LEMMA LoopStep ==
  ASSUME IInv, Start \/ StartFails \/ Select \/ RoundEnds
  PROVE  IInv'
<1> USE DEF IInv
<1>1. /\ UNCHANGED <<conn, sent, inbox, backlog, client_sockets, reads, heard>>
      /\ pc' \in {"select", "failed", "accept", "clients"}
  BY DEF Start, StartFails, Select, RoundEnds, clientVars
<1>2. readfds' \subseteq {Listener} /\ tempfds' \subseteq Clients \cup {Listener}
      /\ slot' \in 0..MaxClients
  BY SelectAssumption DEF Start, StartFails, Select, RoundEnds, SetsInv, TypeOK, Readable
<1>3. pc' # "clients" /\ (pc' = "accept" => tempfds' \subseteq {Listener} /\ slot' = 0 /\ backlog' # <<>>)
  BY DEF Start, StartFails, Select, RoundEnds, SetsInv, Readable, clientVars
<1>4. TypeOK'
  BY <1>1, <1>2 DEF TypeOK
<1>5. SetsInv'
  BY <1>2, <1>3 DEF SetsInv
<1>6. PendingInv'
  BY <1>3 DEF PendingInv
<1>7. InboxInv' /\ ReadInv'
  BY <1>1 DEF InboxInv, ReadInv
<1>8. WaitingInv'
  BY <1>1 DEF WaitingInv
<1> QED BY <1>4, <1>5, <1>6, <1>7, <1>8

\* What accept leaves of the backlog.
LEMMA AcceptBacklog ==
  ASSUME IInv, pc = "accept"
  PROVE  /\ Head(backlog) \in Clients /\ reads[Head(backlog)] = 0
         /\ conn[Head(backlog)] # "idle"
         /\ \A i \in Table : client_sockets[i] # Head(backlog)
         /\ Tail(backlog) \in Seq(Clients)
         /\ \A i \in 1..Len(Tail(backlog)) :
              /\ i + 1 \in 1..Len(backlog) /\ Tail(backlog)[i] = backlog[i + 1]
              /\ Tail(backlog)[i] # Head(backlog)
         /\ \A i, j \in 1..Len(Tail(backlog)) : Tail(backlog)[i] = Tail(backlog)[j] => i = j
<1> USE DEF IInv
<1>1. backlog \in Seq(Clients) /\ backlog # <<>>
  BY DEF TypeOK, SetsInv
<1>2. /\ 1 \in 1..Len(backlog) /\ Head(backlog) = backlog[1] /\ Len(backlog) \in Nat
      /\ Head(backlog) \in Clients
  BY <1>1
<1>3. /\ Tail(backlog) \in Seq(Clients) /\ Len(Tail(backlog)) = Len(backlog) - 1
      /\ \A i \in 1..Len(Tail(backlog)) : i + 1 \in 1..Len(backlog) /\ Tail(backlog)[i] = backlog[i + 1]
  BY <1>1
<1>4. reads[Head(backlog)] = 0 /\ conn[Head(backlog)] # "idle"
      /\ \A i \in Table : client_sockets[i] # Head(backlog)
  BY <1>2 DEF WaitingInv
<1>5. \A i, j \in 1..Len(backlog) : backlog[i] = backlog[j] => i = j
  BY DEF WaitingInv
<1>6. \A i \in 1..Len(Tail(backlog)) : Tail(backlog)[i] # Head(backlog)
  <2> TAKE i \in 1..Len(Tail(backlog))
  <2>1. i + 1 \in 1..Len(backlog) /\ i + 1 # 1 /\ Tail(backlog)[i] = backlog[i + 1]
    BY <1>3
  <2> QED BY <2>1, <1>2, <1>5
<1>7. ASSUME NEW i \in 1..Len(Tail(backlog)), NEW j \in 1..Len(Tail(backlog)),
             Tail(backlog)[i] = Tail(backlog)[j]
      PROVE  i = j
  <2>1. i + 1 = j + 1
    BY <1>3, <1>5, <1>7
  <2> QED BY <2>1
<1> QED BY <1>2, <1>3, <1>4, <1>6, <1>7

\* A new client is the only one the rest of the round reads, and it was not
\* read before (13-37).
LEMMA AcceptStep ==
  ASSUME IInv, handle_new_connection \/ AcceptFails
  PROVE  IInv'
<1> DEFINE c == Head(backlog)
           new == IF FreeSlots = {} THEN client_sockets
                  ELSE [client_sockets EXCEPT ![Min(FreeSlots)] = c]
<1>1. pc = "accept" /\ pc' = "clients" /\ backlog' = Tail(backlog)
      /\ UNCHANGED <<inbox, sent, readfds, slot, reads, heard>>
  BY DEF handle_new_connection, AcceptFails, clientVars
<1>2. /\ c \in Clients /\ reads[c] = 0 /\ conn[c] # "idle"
      /\ \A i \in Table : client_sockets[i] # c
      /\ backlog' \in Seq(Clients)
      /\ \A i \in 1..Len(backlog') : \E j \in 1..Len(backlog) : backlog'[i] = backlog[j]
      /\ \A i \in 1..Len(backlog') : backlog'[i] # c
      /\ \A i, j \in 1..Len(backlog') : backlog'[i] = backlog'[j] => i = j
  BY <1>1, AcceptBacklog
<1>3. /\ conn' \in [Clients -> {"idle", "open", "closed", "aborted"}]
      /\ \A d \in Clients : conn'[d] = "idle" <=> conn[d] = "idle"
  BY <1>2 DEF IInv, TypeOK, handle_new_connection, AcceptFails, clientVars
<1>4. /\ tempfds' \subseteq {Listener, c}
      /\ client_sockets' = client_sockets \/ client_sockets' = new
  BY <1>1 DEF IInv, SetsInv, handle_new_connection, AcceptFails
<1>5. FreeSlots # {} => Min(FreeSlots) \in FreeSlots /\ Min(FreeSlots) \in Table
  <2>1. FreeSlots \in SUBSET Nat /\ FreeSlots \subseteq Table
    BY SelectAssumption DEF FreeSlots, Table
  <2> QED BY <2>1, MinIsLeast
<1>6. /\ client_sockets' \in [Table -> Clients \cup {Free}]
      /\ \A i \in Table : client_sockets'[i] = client_sockets[i]
                            \/ (client_sockets'[i] = c /\ i = Min(FreeSlots) /\ client_sockets[i] = Free)
  BY <1>2, <1>4, <1>5 DEF IInv, TypeOK, FreeSlots
<1> HIDE DEF c, new
<1>7. \A i, j \in Table : client_sockets'[i] = client_sockets'[j] => i = j \/ client_sockets'[i] = Free
  <2>1. \A i, j \in Table : client_sockets[i] = client_sockets[j] => i = j \/ client_sockets[i] = Free
    BY DEF IInv, TypeOK
  <2> QED BY <2>1, <1>2, <1>6
<1>8. TypeOK'
  BY <1>1, <1>2, <1>3, <1>4, <1>6, <1>7 DEF IInv, TypeOK
<1>9. SetsInv' /\ InboxInv'
  BY <1>1, <1>2, <1>4 DEF IInv, SetsInv, InboxInv
<1>10. WaitingInv'
  <2>1. \A i \in 1..Len(backlog') : conn'[backlog'[i]] # "idle"
    <3> TAKE i \in 1..Len(backlog')
    <3>1. PICK j \in 1..Len(backlog) : backlog'[i] = backlog[j]
      BY <1>2
    <3>2. backlog'[i] \in Clients
      BY <1>2
    <3> QED BY <3>1, <3>2, <1>3 DEF IInv, WaitingInv
  <2>2. ASSUME NEW d \in Clients, conn'[d] = "idle" \/ \E i \in 1..Len(backlog') : backlog'[i] = d
        PROVE  reads'[d] = 0 /\ \A i \in Table : client_sockets'[i] # d
    <3>1. d # c
      BY <2>2, <1>2, <1>3
    <3>2. conn[d] = "idle" \/ \E i \in 1..Len(backlog) : backlog[i] = d
      BY <2>2, <1>2, <1>3
    <3>3. reads[d] = 0 /\ \A i \in Table : client_sockets[i] # d
      BY <3>2 DEF IInv, WaitingInv
    <3> QED BY <3>1, <3>3, <1>1, <1>6
  <2> QED BY <2>1, <2>2, <1>2 DEF WaitingInv
<1>11. PendingInv'
  <2> SUFFICES ASSUME NEW i \in Table, client_sockets'[i] \in tempfds'
               PROVE  reads'[client_sockets'[i]] = 0
    BY DEF PendingInv, Pending
  <2>1. client_sockets'[i] = c
    BY <1>4, <1>6, SelectAssumption DEF Listener, Free
  <2> QED BY <2>1, <1>1, <1>2
<1>12. ReadInv'
  BY <1>1, <1>2, <1>6, SelectAssumption DEF IInv, ReadInv
<1> QED BY <1>8, <1>9, <1>10, <1>11, <1>12 DEF IInv

\* A read returns data or the end; either way the socket was not read before,
\* and the loop goes on behind it (43-62).
LEMMA ReadStep ==
  ASSUME IInv, ReadData \/ ReadEnd
  PROVE  IInv'
<1> DEFINE e == Min(Pending)
           c == client_sockets[Min(Pending)]
<1>1. pc = "clients" /\ Pending # {} /\ slot' = e + 1
      /\ UNCHANGED <<conn, sent, backlog, readfds, tempfds, pc>>
      /\ reads' = [reads EXCEPT ![c] = @ + 1]
  BY DEF ReadData, ReadEnd, clientVars
<1>2. /\ e \in Pending /\ e \in Table /\ \A j \in Pending : e <= j
      /\ c \in Clients
  BY <1>1, PendingEntry DEF IInv
<1>3. reads[c] = 0 /\ heard[c] = 0
  <2>1. reads[c] = 0
    <3>1. \A i \in Pending : reads[client_sockets[i]] = 0
      BY <1>1 DEF IInv, PendingInv
    <3>2. e \in Pending
      BY <1>2
    <3> QED BY <3>1, <3>2
  <2>2. heard[c] \in Nat /\ (heard[c] > 0 => reads[c] = 1)
    BY <1>2, SelectAssumption DEF IInv, ReadInv, TypeOK
  <2> QED BY <2>1, <2>2
<1>4. e \in Nat /\ e + 1 \in 0..MaxClients
  BY <1>2, SelectAssumption DEF Table
<1>5. /\ inbox' \in [Clients -> 0..MaxMessages] /\ heard' \in [Clients -> 0..MaxMessages]
      /\ InboxInv'
      /\ \A d \in Clients \ {c} : heard'[d] = heard[d]
  <2>1. CASE ReadData
    <3>1. PICK n \in 1..inbox[c] : /\ inbox' = [inbox EXCEPT ![c] = @ - n]
                                   /\ heard' = [heard EXCEPT ![c] = @ + n]
      BY <2>1 DEF ReadData
    <3>2. /\ inbox[c] \in 0..MaxMessages /\ inbox[c] - n \in 0..MaxMessages
          /\ heard[c] + n \in 0..MaxMessages
      BY <1>2, <1>3, SelectAssumption DEF IInv, TypeOK
    <3>3. /\ inbox' \in [Clients -> 0..MaxMessages] /\ heard' \in [Clients -> 0..MaxMessages]
          /\ \A d \in Clients \ {c} : heard'[d] = heard[d] /\ inbox'[d] = inbox[d]
          /\ heard'[c] = heard[c] + n /\ inbox'[c] = inbox[c] - n
      BY <1>2, <3>1, <3>2 DEF IInv, TypeOK
    <3>4. InboxInv'
      <4> SUFFICES ASSUME NEW d \in Clients PROVE inbox'[d] + heard'[d] = sent[d]
        BY <1>1 DEF InboxInv
      <4>1. inbox[d] + heard[d] = sent[d]
        BY DEF IInv, InboxInv
      <4>2. CASE d = c
        BY <4>1, <4>2, <3>2, <3>3, <1>3
      <4>3. CASE d # c
        BY <4>1, <4>3, <3>3
      <4> QED BY <4>2, <4>3
    <3> QED BY <3>3, <3>4
  <2>2. CASE ReadEnd
    BY <2>2 DEF ReadEnd, IInv, TypeOK, InboxInv, clientVars
  <2> QED BY <2>1, <2>2
<1>6. /\ client_sockets' \in [Table -> Clients \cup {Free}]
      /\ \A i \in Table : client_sockets'[i] = client_sockets[i]
                            \/ (i = e /\ client_sockets'[i] = Free)
      /\ heard'[c] > 0 => client_sockets' = client_sockets
  <2>1. CASE ReadData
    BY <2>1 DEF ReadData, IInv, TypeOK
  <2>2. CASE ReadEnd
    BY <2>2, <1>2, <1>3 DEF ReadEnd, IInv, TypeOK
  <2> QED BY <2>1, <2>2
<1>7. \A i, j \in Table : client_sockets[i] = client_sockets[j] => i = j \/ client_sockets[i] = Free
  BY DEF IInv, TypeOK
<1>8. /\ reads' \in [Clients -> Nat] /\ reads'[c] = 1
      /\ \A d \in Clients \ {c} : reads'[d] = reads[d]
  BY <1>1, <1>2, <1>3 DEF IInv, TypeOK
<1>9. c # Free /\ Free \notin Clients /\ Free \notin tempfds
  BY <1>2, SelectAssumption DEF IInv, SetsInv, Free, Listener
<1>10. client_sockets[e] = c
  OBVIOUS
<1> HIDE DEF e, c
<1>11. TypeOK'
  <2>1. \A i, j \in Table : client_sockets'[i] = client_sockets'[j] => i = j \/ client_sockets'[i] = Free
    BY <1>6, <1>7
  <2> QED BY <2>1, <1>1, <1>4, <1>5, <1>6, <1>8 DEF IInv, TypeOK
<1>12. SetsInv'
  BY <1>1 DEF IInv, SetsInv
<1>13. WaitingInv'
  <2>1. ASSUME NEW d \in Clients, conn[d] = "idle" \/ \E i \in 1..Len(backlog) : backlog[i] = d
        PROVE  reads'[d] = 0 /\ \A i \in Table : client_sockets'[i] # d
    <3>1. reads[d] = 0 /\ \A i \in Table : client_sockets[i] # d
      BY <2>1 DEF IInv, WaitingInv
    <3>2. d # c
      BY <3>1, <1>2, <1>10
    <3> QED BY <3>1, <3>2, <1>6, <1>8, <1>9
  <2> QED BY <2>1, <1>1 DEF IInv, WaitingInv
<1>14. PendingInv'
  <2> SUFFICES ASSUME NEW i \in Table, i >= e + 1, client_sockets'[i] \in tempfds
               PROVE  reads'[client_sockets'[i]] = 0
    BY <1>1 DEF PendingInv, Pending
  <2>1. i \in Nat /\ i # e /\ client_sockets'[i] = client_sockets[i]
    BY <1>4, <1>6 DEF Table
  <2>2. i >= slot
    BY <2>1, <1>2, <1>4 DEF Pending, IInv, TypeOK
  <2>3. i \in Pending
    BY <2>1, <2>2 DEF Pending
  <2>4. reads[client_sockets[i]] = 0
    BY <2>3, <1>1 DEF IInv, PendingInv
  <2>5. client_sockets[i] # c /\ client_sockets[i] \in Clients
    BY <2>1, <1>2, <1>6, <1>7, <1>9, <1>10 DEF IInv, TypeOK
  <2> QED BY <2>1, <2>4, <2>5, <1>8
<1>15. ReadInv'
  <2> SUFFICES ASSUME NEW d \in Clients
               PROVE  /\ reads'[d] <= 1
                      /\ heard'[d] > 0 => reads'[d] = 1 /\ \E i \in Table : client_sockets'[i] = d
    BY DEF ReadInv
  <2>1. CASE d = c
    BY <2>1, <1>2, <1>6, <1>8, <1>10
  <2>2. CASE d # c
    <3>1. reads'[d] = reads[d] /\ heard'[d] = heard[d] /\ reads[d] <= 1
      BY <2>2, <1>5, <1>8 DEF IInv, ReadInv
    <3>2. ASSUME heard[d] > 0 PROVE reads[d] = 1 /\ \E i \in Table : client_sockets'[i] = d
      <4>1. reads[d] = 1 /\ \E i \in Table : client_sockets[i] = d
        BY <3>2 DEF IInv, ReadInv
      <4>2. PICK i \in Table : client_sockets[i] = d
        BY <4>1
      <4>3. client_sockets'[i] = d
        BY <4>2, <2>2, <1>6, <1>10
      <4> QED BY <4>1, <4>3
    <3> QED BY <3>1, <3>2
  <2> QED BY <2>1, <2>2
<1> QED BY <1>5, <1>11, <1>12, <1>13, <1>14, <1>15 DEF IInv

-----------------------------------------------------------------------------
(* The theorems.                                                           *)

\* Before main's first call nothing is connected (66-69).
LEMMA InitInv == Init => IInv
<1> SUFFICES ASSUME Init PROVE IInv
  OBVIOUS
<1>1. backlog \in Seq(Clients) /\ Len(backlog) = 0 /\ slot \in 0..MaxClients
  BY SelectAssumption DEF Init
<1>2. TypeOK
  BY <1>1, SelectAssumption DEF Init, TypeOK
<1>3. InboxInv /\ SetsInv /\ PendingInv /\ ReadInv
  BY DEF Init, InboxInv, SetsInv, PendingInv, ReadInv
<1>4. WaitingInv
  BY <1>1, SelectAssumption DEF Init, WaitingInv
<1> QED BY <1>2, <1>3, <1>4 DEF IInv

\* Every step keeps the invariant.
LEMMA NextStep == IInv /\ [Next]_vars => IInv'
<1> SUFFICES ASSUME IInv, [Next]_vars PROVE IInv'
  OBVIOUS
<1>1. ASSUME NEW c \in Clients, Client(c) PROVE IInv'
  BY <1>1, ConnectStep, SendCloseStep DEF Client
<1>2. CASE main \/ StartFails \/ AcceptFails
  BY <1>2, LoopStep, AcceptStep, ReadStep DEF main, handle_client_data
<1>3. CASE UNCHANGED vars
  <2> USE <1>3 DEF vars, clientVars, serverVars, IInv
  <2>1. TypeOK' /\ InboxInv' /\ SetsInv'
    BY DEF TypeOK, InboxInv, SetsInv
  <2>2. WaitingInv' /\ ReadInv'
    BY DEF WaitingInv, ReadInv
  <2>3. PendingInv'
    BY DEF PendingInv, Pending
  <2> QED BY <2>1, <2>2, <2>3
<1> QED BY <1>1, <1>2, <1>3 DEF Next

\* The invariant is inductive.
THEOREM InductiveInvariant == Spec => []IInv
  BY InitInv, NextStep, PTL DEF Spec

\* Every variable keeps its type, and no client is in the table twice.
THEOREM TypeCorrectness == Spec => []TypeOK
<1>1. IInv => TypeOK
  BY DEF IInv
<1> QED BY <1>1, InductiveInvariant, PTL

\* What adding the socket to the copy (lines 36 and 111) comes to: a client is
\* read once, in the round that accepted it.  One that sent something keeps
\* its entry for ever, because the read that would return 0 never happens.
\* This is why DisconnectedIsRemoved fails.
ServedOnce ==
  \A c \in Clients :
    /\ reads[c] <= 1
    /\ heard[c] > 0 => \E i \in Table : client_sockets[i] = c

\* A client is read once, in the round that accepted it, and keeps its entry
\* if it was heard.
THEOREM ServedOnceTheorem == Spec => []ServedOnce
<1>1. IInv => ServedOnce
  BY DEF IInv, ReadInv, ServedOnce
<1> QED BY <1>1, InductiveInvariant, PTL

-----------------------------------------------------------------------------
(* The turn of a client.                                                   *)

\* The accepted clients that were not read.
Unread == {c \in Accepted : reads[c] = 0}

\* What the round that is going on has yet to read.
ThisRound == IF pc = "clients" THEN Pending ELSE {}

\* The table is full, and no entry is about to be freed.
Full == FreeSlots = {} /\ ThisRound = {}

\* As long as there is room, only a client of this round is still unread.
TurnInv == Full \/ \A c \in Unread : \E i \in ThisRound : client_sockets[i] = c

\* Clients come and go; none is accepted or read by it.
LEMMA TurnClient ==
  ASSUME IInv, NEW c \in Clients, Client(c)
  PROVE  (Full => Full') /\ (TurnInv => TurnInv')
<1> USE DEF IInv
<1>1. UNCHANGED <<client_sockets, tempfds, pc, slot, reads>>
  BY DEF Client, Connect, Send, Close, clientVars, serverVars
<1>2. ThisRound' = ThisRound /\ FreeSlots' = FreeSlots
  BY <1>1 DEF ThisRound, Pending, FreeSlots
<1>3. Unread' \subseteq Unread
  <2>1. CASE Connect(c)
    <3>1. /\ conn' = [conn EXCEPT ![c] = "open"] /\ backlog' = Append(backlog, c)
          /\ backlog \in Seq(Clients)
      BY <2>1 DEF Connect, TypeOK
    <3>2. \E i \in 1..Len(backlog') : backlog'[i] = c
      <4>1. Len(backlog') = Len(backlog) + 1 /\ backlog'[Len(backlog) + 1] = c
            /\ Len(backlog) \in Nat
        BY <3>1
      <4> QED BY <4>1
    <3>3. \A i \in 1..Len(backlog) : i \in 1..Len(backlog') /\ backlog'[i] = backlog[i]
      BY <3>1
    <3>4. \A d \in Clients : d # c => conn'[d] = conn[d]
      BY <3>1 DEF TypeOK
    <3> QED BY <1>1, <3>2, <3>3, <3>4 DEF Unread, Accepted
  <2>2. CASE Send(c) \/ Close(c)
    <3>1. /\ backlog' = backlog
          /\ \A d \in Clients : conn'[d] \in {"open", "closed"} => conn[d] \in {"open", "closed"}
      BY <2>2 DEF Send, Close, TypeOK
    <3> QED BY <1>1, <3>1 DEF Unread, Accepted
  <2> QED BY <2>1, <2>2 DEF Client
<1> QED BY <1>1, <1>2, <1>3 DEF Full, TurnInv

\* The statements around accept and the reads (71-112) take nobody's turn: a
\* round ends when nothing is left of it.
LEMMA TurnLoop ==
  ASSUME IInv, Start \/ StartFails \/ Select \/ RoundEnds
  PROVE  (Full => Full') /\ (TurnInv => TurnInv')
<1>1. UNCHANGED <<conn, backlog, client_sockets, reads>> /\ pc' # "clients"
  BY DEF Start, StartFails, Select, RoundEnds, clientVars, IInv, SetsInv, Readable
<1>2. ThisRound' = {} /\ ThisRound = {}
  BY <1>1 DEF Start, StartFails, Select, RoundEnds, ThisRound
<1>3. FreeSlots' = FreeSlots /\ Unread' = Unread
  BY <1>1 DEF FreeSlots, Unread, Accepted
<1> QED BY <1>2, <1>3 DEF Full, TurnInv

\* A client that is accepted gets an entry and its turn, unless the table is
\* full (13-37).
LEMMA TurnAccept ==
  ASSUME IInv, handle_new_connection \/ AcceptFails
  PROVE  (Full => Full') /\ (TurnInv => TurnInv')
<1> DEFINE c == Head(backlog)
<1>1. /\ pc = "accept" /\ pc' = "clients" /\ backlog' = Tail(backlog)
      /\ UNCHANGED <<slot, reads>> /\ slot = 0
      /\ tempfds' \subseteq {Listener, c}
  BY DEF handle_new_connection, AcceptFails, IInv, SetsInv
<1>2. /\ c \in Clients /\ \A i \in Table : client_sockets[i] # c
      /\ \A i \in 1..Len(backlog') : backlog'[i] # c
  BY <1>1, AcceptBacklog
<1>3. ThisRound = {} /\ ThisRound' = Pending'
  BY <1>1 DEF ThisRound
<1>4. Unread' \subseteq Unread \cup {c}
  <2>1. \A d \in Clients : conn'[d] \in {"open", "closed"} => conn[d] = conn'[d]
    BY <1>2 DEF handle_new_connection, AcceptFails, clientVars, IInv, TypeOK
  <2>2. ASSUME NEW d \in Clients, d # c, \A i \in 1..Len(backlog') : backlog'[i] # d
        PROVE  \A i \in 1..Len(backlog) : backlog[i] # d
    <3> TAKE i \in 1..Len(backlog)
    <3>1. backlog \in Seq(Clients) /\ backlog # <<>> /\ backlog' = Tail(backlog)
      BY <1>1 DEF IInv, TypeOK, SetsInv
    <3>2. CASE i = 1
      BY <2>2, <3>1, <3>2
    <3>3. CASE i # 1
      <4>1. i - 1 \in 1..Len(backlog') /\ backlog'[i - 1] = backlog[i]
        BY <3>1, <3>3
      <4> QED BY <2>2, <4>1
    <3> QED BY <3>2, <3>3
  <2> QED BY <1>1, <2>1, <2>2 DEF Unread, Accepted
<1> HIDE DEF c
<1>5. CASE FreeSlots = {} \/ AcceptFails
  <2>1. client_sockets' = client_sockets
    BY <1>5 DEF handle_new_connection, AcceptFails
  <2>2. Pending' = {}
    <3> SUFFICES ASSUME NEW i \in Table, client_sockets'[i] \in tempfds' PROVE FALSE
      BY DEF Pending
    <3>1. client_sockets[i] \in Clients \cup {Free}
      BY DEF IInv, TypeOK
    <3> QED BY <1>1, <1>2, <2>1, <3>1, SelectAssumption DEF Listener, Free
  <2>3. FreeSlots' = FreeSlots
    BY <2>1 DEF FreeSlots
  <2>4. Full => Full'
    BY <1>3, <2>2, <2>3 DEF Full
  <2>5. CASE FreeSlots = {}
    BY <1>3, <2>2, <2>3, <2>4, <2>5 DEF Full, TurnInv
  <2>6. CASE AcceptFails
    <3>1. c \notin Unread'
      <4>1. conn'[c] = "aborted"
        BY <1>2, <2>6 DEF AcceptFails, c, IInv, TypeOK
      <4> QED BY <4>1 DEF Unread, Accepted
    <3>2. TurnInv => Full \/ Unread = {}
      BY <1>3 DEF TurnInv
    <3> QED BY <1>4, <2>4, <3>1, <3>2 DEF TurnInv
  <2> QED BY <1>5, <2>5, <2>6
<1>6. CASE FreeSlots # {} /\ handle_new_connection
  <2>1. Min(FreeSlots) \in Table
    <3>1. FreeSlots \in SUBSET Nat /\ FreeSlots \subseteq Table
      BY SelectAssumption DEF FreeSlots, Table
    <3> QED BY <1>6, <3>1, MinIsLeast
  <2>2. /\ client_sockets' = [client_sockets EXCEPT ![Min(FreeSlots)] = c]
        /\ tempfds' = tempfds \cup {c}
    BY <1>6 DEF handle_new_connection, c
  <2>3. client_sockets'[Min(FreeSlots)] = c
    BY <2>1, <2>2 DEF IInv, TypeOK
  <2>4. Min(FreeSlots) \in Pending'
    <3>1. Min(FreeSlots) >= slot'
      BY <1>1, <2>1, SelectAssumption DEF Table
    <3> QED BY <2>1, <2>2, <2>3, <3>1 DEF Pending
  <2>5. TurnInv => Unread = {}
    BY <1>3, <1>6 DEF TurnInv, Full
  <2> QED BY <1>3, <1>4, <1>6, <2>3, <2>4, <2>5 DEF TurnInv, Full
<1> QED BY <1>5, <1>6

\* A read takes the turn of one client (43-62).
LEMMA TurnRead ==
  ASSUME IInv, ReadData \/ ReadEnd
  PROVE  (Full => Full') /\ (TurnInv => TurnInv')
<1> DEFINE e == Min(Pending)
           c == client_sockets[Min(Pending)]
<1>1. pc = "clients" /\ Pending # {} /\ slot' = e + 1
      /\ UNCHANGED <<conn, backlog, tempfds, pc>>
      /\ reads' = [reads EXCEPT ![c] = @ + 1]
  BY DEF ReadData, ReadEnd, clientVars
<1>2. /\ e \in Pending /\ e \in Table /\ \A j \in Pending : e <= j
      /\ c \in Clients
  BY <1>1, PendingEntry DEF IInv
<1>3. ThisRound = Pending /\ ThisRound' = Pending'
  BY <1>1 DEF ThisRound
<1>4. \A j \in Table : j # e => client_sockets'[j] = client_sockets[j]
  BY <1>2 DEF ReadData, ReadEnd, IInv, TypeOK
<1>5. Unread' \subseteq Unread \ {c}
  <2>1. reads'[c] = reads[c] + 1 /\ reads[c] \in Nat /\ \A d \in Clients : d # c => reads'[d] = reads[d]
    BY <1>1, <1>2 DEF IInv, TypeOK
  <2> QED BY <1>1, <2>1 DEF Unread, Accepted
<1> HIDE DEF e
<1>6. ASSUME NEW j \in Pending, j # e
      PROVE  j \in Pending' /\ client_sockets'[j] = client_sockets[j]
  <2>1. e <= j /\ j \in Table /\ client_sockets[j] \in tempfds
    BY <1>2, <1>6 DEF Pending
  <2>2. e \in Nat /\ j \in Nat
    BY <1>2, <2>1, SelectAssumption DEF Table
  <2>3. j >= slot'
    BY <1>1, <1>6, <2>1, <2>2
  <2> QED BY <1>1, <1>4, <1>6, <2>1, <2>3 DEF Pending
<1>7. ~Full
  BY <1>1, <1>3 DEF Full
<1>8. TurnInv => TurnInv'
  <2> SUFFICES ASSUME TurnInv, NEW d \in Unread'
               PROVE  \E i \in ThisRound' : client_sockets'[i] = d
    BY DEF TurnInv
  <2>1. PICK i \in Pending : client_sockets[i] = d
    BY <1>3, <1>5, <1>7 DEF TurnInv
  <2>2. i # e
    BY <1>5, <2>1 DEF e
  <2> QED BY <1>3, <1>6, <2>1, <2>2
<1> QED BY <1>7, <1>8

\* Every step keeps a full table full and the turns in order.
LEMMA TurnStep ==
  ASSUME IInv, [Next]_vars
  PROVE  (Full => Full') /\ (TurnInv => TurnInv')
<1>1. ASSUME NEW c \in Clients, Client(c)
      PROVE  (Full => Full') /\ (TurnInv => TurnInv')
  BY <1>1, TurnClient
<1>2. CASE main \/ StartFails \/ AcceptFails
  BY <1>2, TurnLoop, TurnAccept, TurnRead DEF main, handle_client_data
<1>3. CASE UNCHANGED vars
  <2>1. FreeSlots' = FreeSlots /\ ThisRound' = ThisRound /\ Unread' = Unread
    BY <1>3 DEF vars, clientVars, serverVars, FreeSlots, ThisRound, Pending, Unread, Accepted
  <2> QED BY <1>3, <2>1 DEF Full, TurnInv, vars, serverVars
<1> QED BY <1>1, <1>2, <1>3 DEF Next

\* Between rounds every client whose connection the server has accepted has
\* been read, unless the table has filled up (13-62): nobody else loses his
\* turn.  This is the safe half of ReadUnlessBlocked.
THEOREM ReadOrFullTheorem == Spec => []ReadOrFull
<1>1. Init => TurnInv
  <2> SUFFICES ASSUME Init PROVE Unread = {}
    BY DEF TurnInv
  <2> QED BY DEF Init, Unread, Accepted
<1>2. IInv /\ TurnInv /\ [Next]_vars => TurnInv'
  BY TurnStep
<1>3. IInv /\ TurnInv => ReadOrFull
  <2> SUFFICES ASSUME IInv, TurnInv, pc # "clients", FreeSlots # {}, NEW c \in Accepted
               PROVE  reads[c] = 1
    BY DEF ReadOrFull
  <2>1. c \notin Unread
    BY DEF TurnInv, Full, ThisRound
  <2>2. c \in Clients /\ reads[c] # 0
    BY <2>1 DEF Unread, Accepted
  <2> QED BY <2>2 DEF IInv, TypeOK, ReadInv
<1> QED BY <1>1, <1>2, <1>3, InductiveInvariant, PTL DEF Spec

\* A table that is full when its round is over stays so, whatever the clients
\* do: the read that would free an entry (56-58) never comes, because its
\* socket is in no later round.  Whoever connects from then on is accepted
\* without an entry to be read at.
THEOREM FullIsForEver == Spec => [][Full => Full']_vars
<1>1. IInv /\ [Next]_vars => [Full => Full']_vars
  BY TurnStep
<1> QED BY <1>1, InductiveInvariant, PTL DEF Spec
=============================================================================
