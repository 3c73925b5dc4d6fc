----------------------------- MODULE ChatServer -----------------------------
(***************************************************************************)
(* The chat server of MFC_Server/Server.cpp: the accepter thread, the pool *)
(* of worker threads around one I/O completion port and one critical       *)
(* section, and the maps they share.                                       *)
(*                                                                         *)
(* A client is known by its number, the value of clientCount when it was   *)
(* accepted.  One action is one step between two accesses to shared state; *)
(* the handlers run without the lock, as in the code, so their steps       *)
(* interleave with those of the other workers.                             *)
(*                                                                         *)
(* Packets arrive whole and one per receive (ServerFraming models the      *)
(* framing).  Image packets and the shutdown are outside this module.      *)
(***************************************************************************)
EXTENDS Integers, Sequences, FiniteSets

CONSTANTS
  Workers,      \* worker threads, twice the processors (CreateWorkerThreads)
  MaxClients,   \* bound: connections ever accepted
  MaxSends,     \* bound: packets each client ever sends
  MaxRequests,  \* bound: sign-ups and logins among them
  Ids,          \* account ids
  LoginIds,     \* LoginIds[n]: the accounts the user of connection n has
  Kinds,        \* the packet types the clients use
  Leavers,      \* the connections that may end
  Resets,       \* TRUE: connections may be reset, not only closed
  NoOne,        \* no worker, no client
  NoEntry,      \* no entry in idMap
  Empty         \* the empty id, wstring()

Clients == 0 .. MaxClients - 1
Requests == {"SIGNUP_INFO", "LOGIN_INFO"}
PacketTypes == Requests \cup {"TEXT"}
Names == Ids \cup {Empty}

ASSUME BoundsAssumption ==
  MaxClients \in Nat /\ MaxSends \in [Clients -> Nat] /\ MaxRequests \in Nat
ASSUME KindsAssumption == Kinds \subseteq PacketTypes
ASSUME LeaversAssumption == Leavers \subseteq Clients
ASSUME LoginIdsAssumption == LoginIds \in [Clients -> SUBSET Ids]
ASSUME FlagsAssumption == Resets \in BOOLEAN
ASSUME NullsAssumption == /\ NoOne \notin Workers \cup Clients
                          /\ Empty \notin Ids
                          /\ NoEntry \notin Names

VARIABLES
  clientCount,      \* next number
  clientsSocketMap, \* numbers that have a SocketInfo in the map
  idMap,            \* number -> id, NoEntry when absent
  freed,            \* numbers whose SocketInfo was deleted
  accepterPc,       \* where the accepter thread is
  accepterSock,     \* the client it is about to post the first receive for
  posted,           \* clients with a WSARecv outstanding, or completed and
                    \* queued in the completion port
  critsec,          \* holder of critsecWork
  pc,               \* where each worker is
  cur,              \* its recvSocketInfo
  pkt,              \* the packet it handles
  msg,              \* sendBuf of its broadcast
  todo,             \* the map entries its broadcast loop has still ahead
  tgt,              \* the entry the loop is at
  quantity,         \* number of ids its roster packet has room for, and names
  up,               \* FALSE once undefined behaviour ended the process
  dlg,              \* what was sent to the server dialog, in order
  peer,             \* the other end of each connection
  net,              \* the packet under way from each client
  sent,             \* packets each client has sent
  out               \* messages each client has been sent

accepterVars == <<clientCount, accepterPc, accepterSock>>
mapVars      == <<clientsSocketMap, idMap, freed>>
loopVars     == <<msg, todo, tgt>>
clientVars   == <<peer, net, sent>>
vars == <<accepterVars, mapVars, posted, critsec, pc, cur, pkt, loopVars,
          quantity, up, dlg, clientVars, out>>

-----------------------------------------------------------------------------
(* Packets from the clients and messages to them.                          *)

Packet   == [type : PacketTypes, id : Names, no : Nat]
NoPacket == [type |-> "NONE", id |-> Empty, no |-> 0]
\* A completion with result = FALSE or recvBytes = 0.
Closed   == [type |-> "CLOSED", id |-> Empty, no |-> 0]

\* A list of ids, each with the number it was read from.  "blanks" counts the
\* empty ids the receiver reads after them, "cut" those it is not given (a
\* history field).
IdList == UNION {[S -> Names] : S \in SUBSET Clients}

Reply(type, ok)     == [type |-> type, ok |-> ok]
IdMsg(n, ids, blanks, cut) ==
  [type |-> "ID", src |-> n, ids |-> ids, blanks |-> blanks, cut |-> cut]
TextMsg(n, id, no)  == [type |-> "TEXT", src |-> n, id |-> id, no |-> no]
ByeMsg(n, id)       == [type |-> "DISCONNECTED_ID", src |-> n, id |-> id]
NoMsg               == [type |-> "NONE"]

Message == [type : Requests, ok : BOOLEAN]
             \cup [type : {"ID"}, src : Clients, ids : IdList, blanks : Nat, cut : Nat]
             \cup [type : {"TEXT"}, src : Clients, id : Names, no : Nat]
             \cup [type : {"DISCONNECTED_ID"}, src : Clients, id : Names]

DialogPost == [type : {"MSG_CLIENT_LOGIN", "MSG_REMOVE_ID"}, id : Names]

\* The size of a roster packet in ids, and the count in its first byte.
Quantity   == [room : Nat, count : Nat]
NoQuantity == [room |-> 0, count |-> 0]

\* Server::Send of a packet of at most PACKET_SIZE bytes: a peer that has
\* gone takes nothing, and the loop ends whatever send returns.
Send(n, m) ==
  out' = IF peer[n] = "open" THEN [out EXCEPT ![n] = Append(@, m)] ELSE out

-----------------------------------------------------------------------------
Init ==
  /\ clientCount = 0 /\ clientsSocketMap = {} /\ freed = {}
  /\ idMap = [n \in Clients |-> NoEntry]
  /\ accepterPc = "accept" /\ accepterSock = NoOne
  /\ posted = {} /\ critsec = NoOne /\ up = TRUE /\ dlg = <<>>
  /\ pc = [w \in Workers |-> "enter"]
  /\ cur = [w \in Workers |-> NoOne]
  /\ pkt = [w \in Workers |-> NoPacket]
  /\ msg = [w \in Workers |-> NoMsg]
  /\ todo = [w \in Workers |-> {}]
  /\ tgt = [w \in Workers |-> NoOne]
  /\ quantity = [w \in Workers |-> NoQuantity]
  /\ peer = [n \in Clients |-> "none"]
  /\ net = [n \in Clients |-> NoPacket]
  /\ sent = [n \in Clients |-> <<>>]
  /\ out = [n \in Clients |-> <<>>]

-----------------------------------------------------------------------------
(* The clients and the network.                                            *)

IsReply(m) == m.type \in Requests
Replies(n) == {i \in DOMAIN out[n] : IsReply(out[n][i])}
LoggedIn(n) == \E i \in DOMAIN out[n] : out[n][i] = Reply("LOGIN_INFO", TRUE)
RequestsSent(n) == {i \in DOMAIN sent[n] : sent[n][i].type \in Requests}
Answered(n) == Cardinality(Replies(n)) = Cardinality(RequestsSent(n))

\* The dialogs let a user ask for an account until the login succeeds, as often
\* as he clicks and without waiting for an answer, and write text once it has.
MaySend(n, type) == (type = "TEXT") = LoggedIn(n)

ClientSend(n) ==
  /\ peer[n] = "open" /\ net[n] = NoPacket /\ Len(sent[n]) < MaxSends[n]
  /\ \E type \in Kinds, id \in LoginIds[n] :
       /\ MaySend(n, type)
       /\ type \in Requests => Cardinality(RequestsSent(n)) < MaxRequests
       /\ LET p == [type |-> type, no |-> Len(sent[n]) + 1,
                    id |-> IF type = "LOGIN_INFO" THEN id ELSE Empty]
          IN  /\ net' = [net EXCEPT ![n] = p]
              /\ sent' = [sent EXCEPT ![n] = Append(@, p)]
  /\ UNCHANGED <<accepterVars, mapVars, posted, critsec, pc, cur, pkt,
                 loopVars, quantity, up, dlg, peer, out>>

ClientClose(n) ==
  /\ n \in Leavers /\ peer[n] = "open"
  /\ peer' = [peer EXCEPT ![n] = "closed"]
  /\ UNCHANGED <<accepterVars, mapVars, posted, critsec, pc, cur, pkt,
                 loopVars, quantity, up, dlg, net, sent, out>>

\* A reset may discard the packet under way.
ClientReset(n) ==
  /\ Resets /\ n \in Leavers /\ peer[n] \in {"open", "closed"}
  /\ peer' = [peer EXCEPT ![n] = "reset"]
  /\ net' \in {net, [net EXCEPT ![n] = NoPacket]}
  /\ UNCHANGED <<accepterVars, mapVars, posted, critsec, pc, cur, pkt,
                 loopVars, quantity, up, dlg, sent, out>>

-----------------------------------------------------------------------------
(* The accepter thread.                                                    *)

\* The insertion is not synchronised with the loops over the map: the new
\* node may be linked ahead of a running loop or behind it.
Accept ==
  /\ accepterPc = "accept" /\ clientCount < MaxClients
  /\ clientCount' = clientCount + 1
  /\ clientsSocketMap' = clientsSocketMap \cup {clientCount}
  /\ accepterSock' = clientCount
  /\ accepterPc' = "post"
  /\ peer' = [peer EXCEPT ![clientCount] = "open"]
  /\ \E ahead \in SUBSET {w \in Workers : pc[w] \in {"next", "send"}} :
       todo' = [w \in Workers |-> IF w \in ahead
                                  THEN todo[w] \cup {clientCount}
                                  ELSE todo[w]]
  /\ UNCHANGED <<idMap, freed, posted, critsec, pc, cur, pkt, msg, tgt,
                 quantity, up, dlg, net, sent, out>>

\* WSAAccept fails, for instance because the caller has gone: the thread ends.
AcceptFails ==
  /\ Resets /\ accepterPc = "accept"
  /\ accepterPc' = "stopped"
  /\ UNCHANGED <<clientCount, accepterSock, mapVars, posted, critsec, pc, cur,
                 pkt, loopVars, quantity, up, dlg, clientVars, out>>

\* Mutant of PostFirstRecv: the first receive is not posted.
PostNothing ==
  /\ accepterPc = "post" /\ peer[accepterSock] # "reset"
  /\ accepterPc' = "accept" /\ accepterSock' = NoOne
  /\ UNCHANGED <<clientCount, mapVars, posted, critsec, pc, cur, pkt, loopVars,
                 quantity, up, dlg, clientVars, out>>

PostFirstRecv ==
  /\ accepterPc = "post"
  /\ posted' = posted \cup {accepterSock}
  /\ accepterPc' = "accept" /\ accepterSock' = NoOne
  /\ UNCHANGED <<clientCount, mapVars, critsec, pc, cur, pkt, loopVars,
                 quantity, up, dlg, clientVars, out>>

\* The first WSARecv may fail at once: the thread ends, the entry stays.
FirstRecvFails ==
  /\ accepterPc = "post" /\ peer[accepterSock] = "reset"
  /\ accepterPc' = "stopped" /\ accepterSock' = NoOne
  /\ UNCHANGED <<clientCount, mapVars, posted, critsec, pc, cur, pkt,
                 loopVars, quantity, up, dlg, clientVars, out>>

-----------------------------------------------------------------------------
(* A worker takes a completion.                                            *)

Least(i, j) == IF i < j THEN i ELSE j

Goto(w, from, to) == pc[w] = from /\ pc' = [pc EXCEPT ![w] = to]

Enter(w) ==
  /\ critsec = NoOne
  /\ Goto(w, "enter", "gqcs")
  /\ critsec' = w
  /\ UNCHANGED <<accepterVars, mapVars, posted, cur, pkt, loopVars, quantity,
                 up, dlg, clientVars, out>>

\* Mutant of TakeCompletion: the next receive is posted before the packet is
\* processed, not after.
TakeAndRepost(w, n, p) ==
  /\ posted' = IF p = Closed THEN posted \ {n} ELSE posted
  /\ critsec' = NoOne
  /\ cur' = [cur EXCEPT ![w] = n]
  /\ pkt' = [pkt EXCEPT ![w] = p]
  /\ UNCHANGED <<accepterVars, mapVars, loopVars, quantity, up, dlg, peer,
                 sent, out>>

\* What GetQueuedCompletionStatus gives back, and LeaveCriticalSection.
TakeCompletion(w, n, p) ==
  /\ posted' = posted \ {n}
  /\ critsec' = NoOne
  /\ cur' = [cur EXCEPT ![w] = n]
  /\ pkt' = [pkt EXCEPT ![w] = p]
  /\ UNCHANGED <<accepterVars, mapVars, loopVars, quantity, up, dlg, peer,
                 sent, out>>

\* The port is first in first out; which client's data is next is up to the
\* network, so any client whose receive is posted and that has data may be.
DequeuePacket(w, n) ==
  /\ n \in posted /\ net[n] # NoPacket
  /\ Goto(w, "gqcs", "dispatch")
  /\ TakeCompletion(w, n, net[n])
  /\ net' = [net EXCEPT ![n] = NoPacket]

DequeueClosed(w, n) ==
  /\ n \in posted /\ net[n] = NoPacket /\ peer[n] # "open"
  /\ Goto(w, "gqcs", "remove")
  /\ TakeCompletion(w, n, Closed)
  /\ UNCHANGED net

-----------------------------------------------------------------------------
(* Broadcast: a loop over clientsSocketMap that takes no lock.             *)

StartBroadcast(w, m) ==
  /\ msg' = [msg EXCEPT ![w] = m]
  /\ todo' = [todo EXCEPT ![w] = clientsSocketMap \ {cur[w]}]

PickTarget(w) ==
  /\ Goto(w, "next", "send")
  /\ \E n \in todo[w] : /\ tgt' = [tgt EXCEPT ![w] = n]
                        /\ todo' = [todo EXCEPT ![w] = @ \ {n}]
  /\ UNCHANGED <<accepterVars, mapVars, posted, critsec, cur, pkt, msg,
                 quantity, up, dlg, clientVars, out>>

\* Reading pair.second->socket and stepping the iterator on an entry that was
\* erased and deleted is undefined: the memory still holds the old values, or
\* the process ends.
SendToTarget(w) ==
  /\ Goto(w, "send", "next")
  /\ Send(tgt[w], msg[w])
  /\ up' \in IF tgt[w] \in freed THEN BOOLEAN ELSE {TRUE}
  /\ tgt' = [tgt EXCEPT ![w] = NoOne]
  /\ UNCHANGED <<accepterVars, mapVars, posted, critsec, cur, pkt, msg, todo,
                 quantity, dlg, clientVars>>

\* Where the handler that called Broadcast goes on.
AfterBroadcast(type) == CASE type = "LOGIN_INFO" -> "check"
                          [] type = "TEXT"       -> "recv"
                          [] type = "CLOSED"     -> "bye"

\* Mutant of BroadcastDone: the loop may end early.
BroadcastBreaks(w) ==
  /\ Goto(w, "next", AfterBroadcast(pkt[w].type))
  /\ msg' = [msg EXCEPT ![w] = NoMsg]
  /\ todo' = [todo EXCEPT ![w] = {}]
  /\ UNCHANGED <<accepterVars, mapVars, posted, critsec, cur, pkt, tgt,
                 quantity, up, dlg, clientVars, out>>

BroadcastDone(w) ==
  /\ todo[w] = {}
  /\ Goto(w, "next", AfterBroadcast(pkt[w].type))
  /\ msg' = [msg EXCEPT ![w] = NoMsg]
  /\ UNCHANGED <<accepterVars, mapVars, posted, critsec, cur, pkt, todo, tgt,
                 quantity, up, dlg, clientVars, out>>

-----------------------------------------------------------------------------
(* The handlers of ProcessPacket.  The database's answer is any (AccountDb *)
(* models it).                                                             *)

SignUpToDB(w) ==
  /\ pkt[w].type = "SIGNUP_INFO"
  /\ Goto(w, "dispatch", "recv")
  /\ \E ok \in BOOLEAN : Send(cur[w], Reply("SIGNUP_INFO", ok))
  /\ UNCHANGED <<accepterVars, mapVars, posted, critsec, cur, pkt, loopVars,
                 quantity, up, dlg, clientVars>>

Login(w) ==
  /\ pkt[w].type = "LOGIN_INFO"
  /\ \E ok \in BOOLEAN : /\ Send(cur[w], Reply("LOGIN_INFO", ok))
                         /\ Goto(w, "dispatch", IF ok THEN "addId" ELSE "recv")
  /\ UNCHANGED <<accepterVars, mapVars, posted, critsec, cur, pkt, loopVars,
                 quantity, up, dlg, clientVars>>

LoginToDialog(w) ==
  /\ Goto(w, "addId", "setId")
  /\ dlg' = Append(dlg, [type |-> "MSG_CLIENT_LOGIN", id |-> pkt[w].id])
  /\ UNCHANGED <<accepterVars, mapVars, posted, critsec, cur, pkt, loopVars,
                 quantity, up, clientVars, out>>

\* idMap[number] = id, then SendIdToOtherClients.
SetId(w) ==
  /\ Goto(w, "setId", "next")
  /\ idMap' = [idMap EXCEPT ![cur[w]] = pkt[w].id]
  /\ StartBroadcast(w, IdMsg(cur[w], [n \in {cur[w]} |-> pkt[w].id], 0, 0))
  /\ UNCHANGED <<accepterVars, clientsSocketMap, freed, posted, critsec, cur,
                 pkt, tgt, quantity, up, dlg, clientVars, out>>

\* SendAllClientsId reads idMap four times: whether it has anybody else, for
\* the size of the packet, for the number of ids in it, and for the ids.
Others(n) == {m \in Clients \ {n} : idMap[m] # NoEntry}

\* One of the first three readings.
ReadIdMap(w, from, to, q) ==
  /\ Goto(w, from, to)
  /\ quantity' = [quantity EXCEPT ![w] = q]
  /\ UNCHANGED <<accepterVars, mapVars, posted, critsec, cur, pkt, loopVars,
                 up, dlg, clientVars, out>>

\* Mutant of CheckAlone: the roster is taken for unnecessary.
CheckReturns(w) == ReadIdMap(w, "check", "recv", NoQuantity)

CheckAlone(w) ==
  ReadIdMap(w, "check", IF Others(cur[w]) = {} THEN "recv" ELSE "size", NoQuantity)

SizePacket(w) ==
  ReadIdMap(w, "size", "count",
            [room |-> Cardinality(Others(cur[w])), count |-> 0])

\* Mutant of CountIds: one id too few, idMap.size() - 2.
CountIdsOffByOne(w) ==
  ReadIdMap(w, "count", "fill",
            [room |-> quantity[w].room, count |-> Cardinality(Others(cur[w])) - 1])

CountIds(w) ==
  ReadIdMap(w, "count", "fill",
            [room |-> quantity[w].room, count |-> Cardinality(Others(cur[w]))])

\* The receiver reads as many ids as the packet names.  An entry added since the
\* sizing is copied past the end of the buffer (undefined: the packet is cut at
\* its size, or the process ends); for one erased since, the buffer keeps its
\* zeros, which read as an empty id; one named for which the packet has no room
\* is read past its end (undefined: empty ids, or whatever ends the reading).
FillIds(w) ==
  /\ Goto(w, "fill", "recv")
  /\ \E S \in SUBSET Others(cur[w]) :
       LET some == Cardinality(S)
           all  == Cardinality(Others(cur[w]))
           room == quantity[w].room
           read == Least(room, quantity[w].count)
       IN  /\ some = Least(all, read)
           /\ \E more \in 0 .. quantity[w].count - read :
                Send(cur[w], IdMsg(cur[w], [n \in S |-> idMap[n]],
                                   read - some + more, all - some))
           /\ up' \in IF all > room THEN BOOLEAN ELSE {TRUE}
  /\ quantity' = [quantity EXCEPT ![w] = NoQuantity]
  /\ UNCHANGED <<accepterVars, mapVars, posted, critsec, cur, pkt, loopVars,
                 dlg, clientVars>>

\* idMap[number] makes an empty entry when there is none.
BroadcastText(w) ==
  /\ pkt[w].type = "TEXT"
  /\ Goto(w, "dispatch", "next")
  /\ LET id == IF idMap[cur[w]] = NoEntry THEN Empty ELSE idMap[cur[w]]
     IN  /\ idMap' = [idMap EXCEPT ![cur[w]] = id]
         /\ StartBroadcast(w, TextMsg(cur[w], id, pkt[w].no))
  /\ UNCHANGED <<accepterVars, clientsSocketMap, freed, posted, critsec, cur,
                 pkt, tgt, quantity, up, dlg, clientVars, out>>

\* The worker forgets the client and starts its loop again.
BackToLoop(w, from) ==
  /\ Goto(w, from, "enter")
  /\ cur' = [cur EXCEPT ![w] = NoOne]
  /\ pkt' = [pkt EXCEPT ![w] = NoPacket]

\* Mutant of Recv: nothing is posted after a request.
RecvAfterText(w) ==
  /\ posted' = IF pkt[w].type \in Requests THEN posted ELSE posted \cup {cur[w]}
  /\ BackToLoop(w, "recv")
  /\ UNCHANGED <<accepterVars, mapVars, critsec, loopVars, quantity, up, dlg,
                 clientVars, out>>

\* InitializePacketInfo and Recv.  A WSARecv that fails at once, as it may on a
\* connection that was reset, is only logged.
Recv(w) ==
  /\ BackToLoop(w, "recv")
  /\ \/ posted' = posted \cup {cur[w]}
     \/ peer[cur[w]] = "reset" /\ UNCHANGED posted
  /\ UNCHANGED <<accepterVars, mapVars, critsec, loopVars, quantity, up, dlg,
                 clientVars, out>>

-----------------------------------------------------------------------------
(* RemoveDisconnectedClient, under critsecWork from end to end.            *)

StartRemoval(w) ==
  /\ pc[w] = "remove"
  /\ critsec = NoOne /\ critsec' = w
  /\ IF idMap[cur[w]] = NoEntry
     THEN Goto(w, "remove", "close") /\ UNCHANGED loopVars
     ELSE /\ Goto(w, "remove", "next")
          /\ StartBroadcast(w, ByeMsg(cur[w], idMap[cur[w]]))
          /\ UNCHANGED tgt
  /\ UNCHANGED <<accepterVars, mapVars, posted, cur, pkt, quantity, up, dlg,
                 clientVars, out>>

RemoveFromDialog(w) ==
  /\ Goto(w, "bye", "forget")
  /\ dlg' = Append(dlg, [type |-> "MSG_REMOVE_ID", id |-> idMap[cur[w]]])
  /\ UNCHANGED <<accepterVars, mapVars, posted, critsec, cur, pkt, loopVars,
                 quantity, up, clientVars, out>>

\* Mutant of Forget: the id stays in idMap.
ForgetNothing(w) ==
  /\ Goto(w, "forget", "close")
  /\ UNCHANGED <<accepterVars, mapVars, posted, critsec, cur, pkt, loopVars,
                 quantity, up, dlg, clientVars, out>>

Forget(w) ==
  /\ Goto(w, "forget", "close")
  /\ idMap' = [idMap EXCEPT ![cur[w]] = NoEntry]
  /\ UNCHANGED <<accepterVars, clientsSocketMap, freed, posted, critsec, cur,
                 pkt, loopVars, quantity, up, dlg, clientVars, out>>

\* Mutant of CloseSocket: WorkerThread goes on to Recv after the removal.
CloseSocketAndRecv(w) ==
  /\ BackToLoop(w, "close")
  /\ clientsSocketMap' = clientsSocketMap \ {cur[w]}
  /\ freed' = freed \cup {cur[w]}
  /\ todo' = [v \in Workers |-> todo[v] \ {cur[w]}]
  /\ critsec' = NoOne
  /\ posted' = posted \cup {cur[w]}
  /\ UNCHANGED <<accepterVars, idMap, msg, tgt, quantity, up, dlg, clientVars,
                 out>>

CloseSocket(w) ==
  /\ BackToLoop(w, "close")
  /\ clientsSocketMap' = clientsSocketMap \ {cur[w]}
  /\ freed' = freed \cup {cur[w]}
  /\ todo' = [v \in Workers |-> todo[v] \ {cur[w]}]
  /\ critsec' = NoOne
  /\ UNCHANGED <<accepterVars, idMap, posted, msg, tgt, quantity, up, dlg,
                 clientVars, out>>

-----------------------------------------------------------------------------
Client(n) == ClientSend(n) \/ ClientClose(n) \/ ClientReset(n)

Accepter == Accept \/ AcceptFails \/ PostFirstRecv \/ FirstRecvFails

Dequeue(w, n) == DequeuePacket(w, n) \/ DequeueClosed(w, n)

Broadcast(w) == PickTarget(w) \/ SendToTarget(w) \/ BroadcastDone(w)

\* The beginning of SendAllClientsId.
PrepareRoster(w) == CheckAlone(w) \/ SizePacket(w) \/ CountIds(w)

Handle(w) == \/ SignUpToDB(w) \/ Login(w) \/ LoginToDialog(w) \/ SetId(w)
             \/ PrepareRoster(w) \/ FillIds(w) \/ BroadcastText(w) \/ Recv(w)

RemoveDisconnectedClient(w) == \/ StartRemoval(w) \/ RemoveFromDialog(w)
                               \/ Forget(w) \/ CloseSocket(w)

Worker(w) == \/ Enter(w) \/ Broadcast(w) \/ Handle(w)
             \/ RemoveDisconnectedClient(w)
             \/ \E n \in Clients : Dequeue(w, n)

Next == /\ up
        /\ \/ \E n \in Clients : Client(n)
           \/ Accepter
           \/ \E w \in Workers : Worker(w)

Spec == Init /\ [][Next]_vars

\* The threads run, the completion port is first in first out.  Nothing is
\* assumed of who gets a critical section that several threads want.
Fairness ==
  /\ WF_vars(up /\ (PostFirstRecv \/ FirstRecvFails))
  /\ \A w \in Workers : WF_vars(up /\ Worker(w))
  /\ \A n \in Clients : SF_vars(up /\ \E w \in Workers : Dequeue(w, n))

FairSpec == Spec /\ Fairness

\* As if the critical section were fair as well.
StrongSpec ==
  /\ FairSpec
  /\ \A w \in Workers : SF_vars(up /\ Enter(w)) /\ SF_vars(up /\ StartRemoval(w))

-----------------------------------------------------------------------------
(* What must hold.                                                         *)

TypeOK ==
  /\ clientCount \in 0 .. MaxClients
  /\ clientsSocketMap \subseteq Clients /\ freed \subseteq Clients
  /\ idMap \in [Clients -> Names \cup {NoEntry}]
  /\ accepterPc \in {"accept", "post", "stopped"}
  /\ accepterSock \in Clients \cup {NoOne}
  /\ posted \subseteq Clients
  /\ critsec \in Workers \cup {NoOne}
  /\ pc \in [Workers -> {"enter", "gqcs", "dispatch", "addId", "setId", "next",
                         "send", "check", "size", "count", "fill", "recv",
                         "remove", "bye", "forget", "close"}]
  /\ cur \in [Workers -> Clients \cup {NoOne}]
  /\ pkt \in [Workers -> Packet \cup {NoPacket, Closed}]
  /\ msg \in [Workers -> Message \cup {NoMsg}]
  /\ todo \in [Workers -> SUBSET Clients]
  /\ tgt \in [Workers -> Clients \cup {NoOne}]
  /\ quantity \in [Workers -> Quantity]
  /\ up \in BOOLEAN
  /\ dlg \in Seq(DialogPost)
  /\ peer \in [Clients -> {"none", "open", "closed", "reset"}]
  /\ net \in [Clients -> Packet \cup {NoPacket}]
  /\ sent \in [Clients -> Seq(Packet)]
  /\ out \in [Clients -> Seq(Message)]

\* A connection's SocketInfo is in one place: about to be posted by the
\* accepter, at the completion port, or held by one worker.  Everything in
\* Server.cpp that touches a SocketInfo without the lock relies on it.
SingleOwner ==
  /\ accepterSock \notin posted
  /\ \A w \in Workers : cur[w] # NoOne =>
       /\ cur[w] \notin posted \cup {accepterSock}
       /\ \A v \in Workers : cur[v] = cur[w] => v = w

\* A worker never handles a connection whose SocketInfo was deleted, and no
\* receive is left posted on one.
OwnAlive == \A n \in freed : /\ n \notin clientsSocketMap \cup posted
                             /\ \A w \in Workers : cur[w] # n

\* Only connections that are in clientsSocketMap have an id: removal drops
\* the id before the SocketInfo.
IdMapWithinClients ==
  \A n \in Clients : idMap[n] # NoEntry => n \in clientsSocketMap

\* No connection is forgotten: it has a receive posted, or a thread that will
\* post one or remove it.  Only one that was reset may be without, for a receive
\* that fails at once is logged and no more.
Attended(n) == n \in posted \cup {accepterSock} \/ \E w \in Workers : cur[w] = n
NoOrphan == \A n \in clientsSocketMap : Attended(n) \/ peer[n] = "reset"

\* A text is broadcast under an account its sender logged in with, although
\* the login is answered before idMap is set.
TextsAreSigned ==
  \A r \in Clients : \A i \in DOMAIN out[r] :
    LET m == out[r][i] IN m.type = "TEXT" => m.id \in LoginIds[m.src]

\* What a client is sent of another's texts is a block of them: in the order
\* written, none twice, none left out in between.
TextsContiguous ==
  \A r, n \in Clients : \A i, j \in DOMAIN out[r] :
    LET Text(k) == out[r][k].type = "TEXT" /\ out[r][k].src = n
    IN  i < j /\ Text(i) /\ Text(j) /\ (\A k \in i + 1 .. j - 1 : ~Text(k))
        => LET Between == {k \in DOMAIN sent[n] : /\ sent[n][k].type = "TEXT"
                                                  /\ out[r][i].no < k
                                                  /\ k < out[r][j].no}
           IN  out[r][i].no < out[r][j].no /\ Between = {}

\* Once the others are told that a client has gone, nothing comes from it.
NothingAfterGoodbye ==
  \A r \in Clients : \A i, j \in DOMAIN out[r] :
    i < j /\ out[r][i].type = "DISCONNECTED_ID" /\ out[r][j].type \in {"ID", "TEXT"}
    => out[r][i].src # out[r][j].src

\* Whoever was told that a client logged in is told that it left, by the time
\* its SocketInfo is deleted.
GoodbyeReachesAll ==
  \A n \in freed, r \in Clients : \A i \in DOMAIN out[r] :
    /\ peer[r] = "open"
    /\ out[r][i].type = "ID" /\ out[r][i].src = n
    => \E j \in DOMAIN out[r] : /\ i < j
                                /\ out[r][j] = ByeMsg(n, out[r][i].ids[n])

-----------------------------------------------------------------------------
(* The inductive invariant behind the ownership of the SocketInfos.        *)

\* Who holds critsecWork: a worker waiting at the completion port, or one
\* that removes a client.
Critical(w) == \/ pc[w] \in {"gqcs", "bye", "forget", "close"}
               \/ pc[w] \in {"next", "send"} /\ pkt[w] = Closed

LockHeld == \A w \in Workers : Critical(w) <=> critsec = w

\* Whatever is about to be posted, posted or handled is in the map; numbers
\* are never used again.
OwnedInMap ==
  /\ posted \subseteq clientsSocketMap
  /\ IF accepterPc = "post" THEN accepterSock \in clientsSocketMap
                            ELSE accepterSock = NoOne
  /\ \A w \in Workers : IF pc[w] \in {"enter", "gqcs"}
                        THEN cur[w] = NoOne
                        ELSE cur[w] \in clientsSocketMap

NumbersFresh ==
  /\ \A n \in clientsSocketMap \cup freed : n < clientCount
  /\ clientsSocketMap \cap freed = {}

\* The packet a worker handles at each step, the target of its loop, and the
\* entry of idMap a removal relies on.
HandlerState ==
  \A w \in Workers :
    /\ pc[w] = "dispatch" => pkt[w] \in Packet
    /\ pc[w] \in {"addId", "setId", "check", "size", "count", "fill"}
         => pkt[w] \in Packet /\ pkt[w].type = "LOGIN_INFO"
    /\ pc[w] \in {"remove", "bye", "forget", "close"} => pkt[w] = Closed
    /\ pc[w] \in {"next", "send"}
         => /\ msg[w] \in Message
            /\ pkt[w] = Closed \/ pkt[w] \in Packet
            /\ pkt[w].type \in {"LOGIN_INFO", "TEXT", "CLOSED"}
    /\ pc[w] = "send" => tgt[w] \in Clients
    /\ pkt[w] = Closed /\ pc[w] \in {"next", "send", "bye"}
         => idMap[cur[w]] # NoEntry
    /\ pc[w] = "close" => idMap[cur[w]] = NoEntry

IInv == /\ TypeOK /\ SingleOwner /\ OwnedInMap /\ NumbersFresh
        /\ LockHeld /\ HandlerState /\ IdMapWithinClients

-----------------------------------------------------------------------------
(* What must happen.                                                       *)

Handling(n, k) == \E w \in Workers : /\ pc[w] = "dispatch" /\ cur[w] = n
                                     /\ pkt[w].type = "TEXT" /\ pkt[w].no = k
Got(r, n, k) == \E i \in DOMAIN out[r] : /\ out[r][i].type = "TEXT"
                                         /\ out[r][i].src = n
                                         /\ out[r][i].no = k

\* Every request of a connected client is answered, whatever the others do
\* and however many workers wait to remove a client.
RequestsAnswered ==
  \A n \in Clients : []<>(Answered(n) \/ peer[n] # "open" \/ ~up)

\* A text the server has taken reaches every client connected then, unless
\* that client goes or a deleted entry ends the process.
TextsDelivered ==
  \A r, n \in Clients : r # n => \A k \in 1 .. MaxSends[n] :
    Handling(n, k) /\ r \in clientsSocketMap
      ~> Got(r, n, k) \/ peer[r] # "open" \/ ~up

\* A client whose connection ended is removed.
RemovalHappens ==
  \A n \in Clients : n \in clientsSocketMap /\ peer[n] # "open"
                       ~> n \notin clientsSocketMap \/ ~up

=============================================================================
