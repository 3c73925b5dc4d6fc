-------------------------- MODULE ChatServerProofs --------------------------
(***************************************************************************)
(* Proofs about ChatServer for every number of workers and connections:    *)
(* which thread owns what, that every text is broadcast under an account   *)
(* its sender logged in with, that nothing of a client follows its         *)
(* goodbye, that goodbyes reach whom they concern, and that texts come as  *)
(* a block.                                                                *)
(***************************************************************************)
EXTENDS ChatServer, FiniteSetTheorems, TLAPS

USE DEF accepterVars, mapVars, loopVars, clientVars

\* The conjuncts of IInv that say which thread owns which SocketInfo.
Ownership == SingleOwner /\ OwnedInMap /\ NumbersFresh /\ IdMapWithinClients

\* What the handlers build to send is a message: the replies, the lists of ids,
\* the texts and the goodbyes of Server.cpp.
LEMMA MessageTypes ==
  ASSUME NEW n \in Clients, NEW id \in Names,
         NEW no \in Nat, NEW cut \in Nat
  PROVE  /\ \A type \in Requests, ok \in BOOLEAN : Reply(type, ok) \in Message
         /\ \A ids \in IdList : IdMsg(n, ids, no, cut) \in Message
         /\ TextMsg(n, id, no) \in Message
         /\ ByeMsg(n, id) \in Message
BY DEF Reply, IdMsg, TextMsg, ByeMsg, Message

\* Server::Send keeps the type of what the clients have been sent.
LEMMA SendType ==
  ASSUME TypeOK, NEW n \in Clients, NEW m \in Message, Send(n, m)
  PROVE  out' \in [Clients -> Seq(Message)]
BY DEF TypeOK, Send

\* Any part of the entries of idMap other than n's is finite and no larger than
\* all of them: the sizes SendAllClientsId computes are numbers.
LEMMA OthersCounted ==
  ASSUME NEW n \in Clients, NEW S \in SUBSET Others(n)
  PROVE  IsFiniteSet(S) /\ Cardinality(S) \in Nat
         /\ Cardinality(S) <= Cardinality(Others(n))
         /\ Cardinality(Others(n)) \in Nat
<1>1. IsFiniteSet(Clients)
  BY BoundsAssumption, FS_Interval DEF Clients
<1>2. Others(n) \subseteq Clients
  BY DEF Others
<1>3. QED
  BY <1>1, <1>2, FS_Subset, FS_CardinalityType

\* The fields of a packet; no packet is taken for the end of the connection,
\* which is what sends a worker to RemoveDisconnectedClient.
LEMMA PacketFields ==
  /\ \A p \in Packet : /\ p.id \in Names /\ p.no \in Nat
                       /\ p.type \in PacketTypes
                       /\ p # Closed /\ p # NoPacket /\ p.type # "CLOSED"
  /\ Closed.type = "CLOSED" /\ Closed # NoPacket
BY DEF Packet, Closed, NoPacket, PacketTypes, Requests

\* Before the threads run no worker holds a client or the lock.
LEMMA InitIInv == Init => IInv
<1> SUFFICES ASSUME Init PROVE IInv
  OBVIOUS
<1>1. TypeOK
  BY BoundsAssumption DEF Init, TypeOK, Quantity, NoQuantity
<1>2. QED
  BY <1>1, NullsAssumption
  DEF Init, IInv, SingleOwner, OwnedInMap, NumbersFresh, LockHeld, Critical,
      HandlerState, IdMapWithinClients

\* Entering critsecWork: it was free, and the worker that takes it holds no
\* client yet.
LEMMA EnterIInv ==
  ASSUME IInv, NEW w \in Workers, Enter(w)
  PROVE  IInv'
<1>1. TypeOK'
  BY DEF IInv, TypeOK, Enter, Goto
<1>2. Ownership'
  BY DEF IInv, Ownership, SingleOwner, OwnedInMap, NumbersFresh,
         IdMapWithinClients, Enter, Goto
<1>3. LockHeld'
  BY NullsAssumption DEF IInv, TypeOK, LockHeld, Critical, Enter, Goto
<1>4. HandlerState'
  BY DEF IInv, HandlerState, Enter, Goto
<1>5. QED
  BY <1>1, <1>2, <1>3, <1>4 DEF IInv, Ownership

\* Taking a packet from the completion port: the client was posted, so that no
\* worker and not the accepter held it; it moves from the port to the worker.
LEMMA DequeuePacketIInv ==
  ASSUME IInv, NEW w \in Workers, NEW n \in Clients, DequeuePacket(w, n)
  PROVE  IInv'
<1>1. TypeOK'
  BY DEF IInv, TypeOK, DequeuePacket, TakeCompletion, Goto
<1>2. Ownership'
  BY DEF IInv, TypeOK, Ownership, SingleOwner, OwnedInMap, NumbersFresh,
         IdMapWithinClients, DequeuePacket, TakeCompletion, Goto
<1>3. LockHeld'
  BY NullsAssumption
  DEF IInv, TypeOK, LockHeld, Critical, DequeuePacket, TakeCompletion, Goto
<1>4. HandlerState'
  BY DEF IInv, TypeOK, HandlerState, DequeuePacket, TakeCompletion, Goto
<1>5. QED
  BY <1>1, <1>2, <1>3, <1>4 DEF IInv, Ownership

\* Taking the end of a connection moves the client from the port to the worker
\* in the same way, and frees the lock before RemoveDisconnectedClient.
LEMMA DequeueClosedIInv ==
  ASSUME IInv, NEW w \in Workers, NEW n \in Clients, DequeueClosed(w, n)
  PROVE  IInv'
<1>1. TypeOK'
  BY DEF IInv, TypeOK, DequeueClosed, TakeCompletion, Goto
<1>2. Ownership'
  BY DEF IInv, TypeOK, Ownership, SingleOwner, OwnedInMap, NumbersFresh,
         IdMapWithinClients, DequeueClosed, TakeCompletion, Goto
<1>3. LockHeld'
  BY NullsAssumption
  DEF IInv, TypeOK, LockHeld, Critical, DequeueClosed, TakeCompletion, Goto
<1>4. HandlerState'
  BY DEF IInv, TypeOK, HandlerState, DequeueClosed, TakeCompletion, Goto
<1>5. QED
  BY <1>1, <1>2, <1>3, <1>4 DEF IInv, Ownership

\* The broadcast loop goes to one of the entries it has still ahead.
LEMMA PickTargetIInv ==
  ASSUME IInv, NEW w \in Workers, PickTarget(w)
  PROVE  IInv'
<1>1. TypeOK'
  BY DEF IInv, TypeOK, PickTarget, Goto
<1>2. Ownership'
  BY DEF IInv, Ownership, SingleOwner, OwnedInMap, NumbersFresh,
         IdMapWithinClients, PickTarget, Goto
<1>3. LockHeld'
  BY DEF IInv, LockHeld, Critical, PickTarget, Goto
<1>4. HandlerState'
  BY DEF IInv, TypeOK, HandlerState, PickTarget, Goto
<1>5. QED
  BY <1>1, <1>2, <1>3, <1>4 DEF IInv, Ownership

\* The broadcast loop sends its message to the entry it is at.
LEMMA SendToTargetIInv ==
  ASSUME IInv, NEW w \in Workers, SendToTarget(w)
  PROVE  IInv'
<1>1. TypeOK'
  <2>1. out' \in [Clients -> Seq(Message)]
    BY SendType DEF IInv, HandlerState, SendToTarget, Goto
  <2>2. QED
    BY <2>1 DEF IInv, TypeOK, SendToTarget, Goto
<1>2. Ownership'
  BY DEF IInv, Ownership, SingleOwner, OwnedInMap, NumbersFresh,
         IdMapWithinClients, SendToTarget, Goto
<1>3. LockHeld'
  BY DEF IInv, LockHeld, Critical, SendToTarget, Goto
<1>4. HandlerState'
  BY DEF IInv, TypeOK, HandlerState, SendToTarget, Goto
<1>5. QED
  BY <1>1, <1>2, <1>3, <1>4 DEF IInv, Ownership

\* At the end of the loop the handler that called Broadcast goes on; a removal
\* keeps the lock, the other two have none.
LEMMA BroadcastDoneIInv ==
  ASSUME IInv, NEW w \in Workers, BroadcastDone(w)
  PROVE  IInv'
<1>a. \/ /\ pkt[w].type = "LOGIN_INFO" /\ pkt[w] \in Packet
         /\ pc' = [pc EXCEPT ![w] = "check"]
      \/ /\ pkt[w].type = "TEXT" /\ pkt[w] \in Packet
         /\ pc' = [pc EXCEPT ![w] = "recv"]
      \/ pkt[w] = Closed /\ pc' = [pc EXCEPT ![w] = "bye"]
  BY PacketFields DEF IInv, HandlerState, BroadcastDone, AfterBroadcast, Goto
<1>1. TypeOK'
  BY DEF IInv, TypeOK, HandlerState, BroadcastDone, AfterBroadcast, Goto
<1>2. Ownership'
  BY DEF IInv, Ownership, SingleOwner, OwnedInMap, NumbersFresh,
         IdMapWithinClients, HandlerState, BroadcastDone, AfterBroadcast, Goto
<1>3. LockHeld'
  BY <1>a, PacketFields DEF IInv, LockHeld, Critical, BroadcastDone, Goto
<1>4. HandlerState'
  BY <1>a DEF IInv, TypeOK, HandlerState, BroadcastDone, Goto
<1>5. QED
  BY <1>1, <1>2, <1>3, <1>4 DEF IInv, Ownership

\* The reply to a sign-up leaves all but the reply and the place unchanged.
LEMMA SignUpToDBIInv ==
  ASSUME IInv, NEW w \in Workers, SignUpToDB(w)
  PROVE  IInv'
<1>1. TypeOK'
  <2>1. out' \in [Clients -> Seq(Message)]
    <3>1. cur[w] \in Clients
      BY DEF IInv, OwnedInMap, TypeOK, SignUpToDB, Goto
    <3>2. PICK ok \in BOOLEAN : Send(cur[w], Reply("SIGNUP_INFO", ok))
      BY DEF SignUpToDB
    <3>3. Reply("SIGNUP_INFO", ok) \in Message
      BY DEF Reply, Message, Requests
    <3>4. QED
      BY <3>1, <3>2, <3>3, SendType DEF IInv
  <2>2. QED
    BY <2>1 DEF IInv, TypeOK, SignUpToDB, Goto
<1>2. Ownership'
  BY DEF IInv, Ownership, SingleOwner, OwnedInMap, NumbersFresh,
         IdMapWithinClients, SignUpToDB, Goto
<1>3. LockHeld'
  BY DEF IInv, LockHeld, Critical, SignUpToDB, Goto
<1>4. HandlerState'
  BY DEF IInv, HandlerState, SignUpToDB, Goto
<1>5. QED
  BY <1>1, <1>2, <1>3, <1>4 DEF IInv, Ownership

\* The reply to a login leaves all but the reply and the place unchanged.
LEMMA LoginIInv ==
  ASSUME IInv, NEW w \in Workers, Login(w)
  PROVE  IInv'
<1>1. TypeOK'
  <2>1. out' \in [Clients -> Seq(Message)]
    <3>1. cur[w] \in Clients
      BY DEF IInv, OwnedInMap, TypeOK, Login, Goto
    <3>2. PICK ok \in BOOLEAN : Send(cur[w], Reply("LOGIN_INFO", ok))
      BY DEF Login
    <3>3. Reply("LOGIN_INFO", ok) \in Message
      BY DEF Reply, Message, Requests
    <3>4. QED
      BY <3>1, <3>2, <3>3, SendType DEF IInv
  <2>2. QED
    BY <2>1 DEF IInv, TypeOK, Login, Goto
<1>2. Ownership'
  BY DEF IInv, Ownership, SingleOwner, OwnedInMap, NumbersFresh,
         IdMapWithinClients, Login, Goto
<1>3. LockHeld'
  BY DEF IInv, LockHeld, Critical, Login, Goto
<1>4. HandlerState'
  BY DEF IInv, HandlerState, Login, Goto
<1>5. QED
  BY <1>1, <1>2, <1>3, <1>4 DEF IInv, Ownership

\* The id told to the dialog is that of the login packet.
LEMMA LoginToDialogIInv ==
  ASSUME IInv, NEW w \in Workers, LoginToDialog(w)
  PROVE  IInv'
<1>a. pkt[w].id \in Names
  BY PacketFields DEF IInv, HandlerState, LoginToDialog, Goto
<1>b. dlg' \in Seq(DialogPost)
  <2>1. [type |-> "MSG_CLIENT_LOGIN", id |-> pkt[w].id] \in DialogPost
    BY <1>a DEF DialogPost
  <2>2. QED
    BY <2>1 DEF IInv, TypeOK, LoginToDialog
<1>1. TypeOK'
  BY <1>b DEF IInv, TypeOK, LoginToDialog, Goto
<1>2. Ownership'
  BY DEF IInv, Ownership, SingleOwner, OwnedInMap, NumbersFresh,
         IdMapWithinClients, LoginToDialog, Goto
<1>3. LockHeld'
  BY DEF IInv, LockHeld, Critical, LoginToDialog, Goto
<1>4. HandlerState'
  BY DEF IInv, HandlerState, LoginToDialog, Goto
<1>5. QED
  BY <1>1, <1>2, <1>3, <1>4 DEF IInv, Ownership

\* SetId gives an id to a client in the map, its own; a removal of that client
\* by another worker is excluded, for the client has a single owner.
LEMMA SetIdIInv ==
  ASSUME IInv, NEW w \in Workers, SetId(w)
  PROVE  IInv'
<1>a. /\ IdMsg(cur[w], [n \in {cur[w]} |-> pkt[w].id], 0, 0) \in Message
      /\ pkt[w].id \in Names /\ cur[w] \in Clients
  <2>1. cur[w] \in Clients /\ pkt[w].id \in Names
    BY PacketFields DEF IInv, TypeOK, OwnedInMap, HandlerState, SetId, Goto
  <2>2. [n \in {cur[w]} |-> pkt[w].id] \in IdList
    <3>1. {cur[w]} \in SUBSET Clients
      BY <2>1
    <3>2. [n \in {cur[w]} |-> pkt[w].id] \in [{cur[w]} -> Names]
      BY <2>1
    <3>3. QED
      BY <3>1, <3>2 DEF IdList
  <2>3. QED
    BY <2>1, <2>2, MessageTypes
<1>1. TypeOK'
  BY <1>a DEF IInv, TypeOK, SetId, StartBroadcast, Goto
<1>2. Ownership'
  BY DEF IInv, Ownership, SingleOwner, OwnedInMap, NumbersFresh,
         IdMapWithinClients, SetId, Goto
<1>3. LockHeld'
  BY DEF IInv, LockHeld, Critical, HandlerState, SetId, Goto, Closed
<1>4. HandlerState'
  BY <1>a, NullsAssumption
  DEF IInv, TypeOK, HandlerState, SingleOwner, SetId, StartBroadcast, Goto
<1>5. QED
  BY <1>1, <1>2, <1>3, <1>4 DEF IInv, Ownership

\* The roster is sized by a number of entries of idMap.
LEMMA PrepareRosterIInv ==
  ASSUME IInv, NEW w \in Workers, PrepareRoster(w)
  PROVE  IInv'
<1>a. /\ pc[w] \in {"check", "size", "count"} /\ quantity[w] \in Quantity
      /\ Cardinality(Others(cur[w])) \in Nat
  BY OthersCounted DEF IInv, TypeOK, OwnedInMap, PrepareRoster, CheckAlone,
                       SizePacket, CountIds, ReadIdMap, Goto
<1>b. PICK q \in Quantity, to \in {"recv", "size", "count", "fill"} :
        quantity' = [quantity EXCEPT ![w] = q] /\ pc' = [pc EXCEPT ![w] = to]
  BY <1>a DEF PrepareRoster, CheckAlone, SizePacket, CountIds, ReadIdMap, Goto,
              Quantity, NoQuantity
<1>c. UNCHANGED <<accepterVars, mapVars, posted, critsec, cur, pkt, loopVars,
                  up, dlg, clientVars, out>>
  BY DEF PrepareRoster, CheckAlone, SizePacket, CountIds, ReadIdMap
<1>1. TypeOK'
  BY <1>b, <1>c DEF IInv, TypeOK, accepterVars, mapVars, loopVars, clientVars
<1>2. Ownership'
  BY <1>a, <1>b, <1>c
  DEF IInv, TypeOK, Ownership, SingleOwner, OwnedInMap, NumbersFresh,
      IdMapWithinClients, accepterVars, mapVars
<1>3. LockHeld'
  BY <1>a, <1>b, <1>c DEF IInv, TypeOK, LockHeld, Critical
<1>4. HandlerState'
  BY <1>a, <1>b, <1>c DEF IInv, TypeOK, HandlerState, mapVars, loopVars
<1>5. QED
  BY <1>1, <1>2, <1>3, <1>4 DEF IInv, Ownership

\* What FillIds sends: ids of others, no more than the packet names, after which
\* the receiver reads at most as many empty ones as make up that number; none is
\* left out that was in idMap, or the message has a mark of it.
LEMMA RosterRead ==
  ASSUME IInv, NEW w \in Workers, FillIds(w)
  PROVE  \E S \in SUBSET Others(cur[w]), blanks, cut \in Nat :
           /\ Cardinality(S) + blanks <= quantity[w].count
           /\ cut = Cardinality(Others(cur[w])) - Cardinality(S)
           /\ Send(cur[w], IdMsg(cur[w], [n \in S |-> idMap[n]], blanks, cut))
<1> DEFINE Roster(S, blanks) ==
      IdMsg(cur[w], [n \in S |-> idMap[n]], blanks,
            Cardinality(Others(cur[w])) - Cardinality(S))
           count == quantity[w].count
           read == Least(quantity[w].room, count)
<1>1. cur[w] \in Clients /\ quantity[w].room \in Nat /\ count \in Nat
  BY DEF IInv, TypeOK, OwnedInMap, FillIds, Goto, Quantity
<1>2. read \in Nat /\ read <= count
  BY <1>1 DEF Least
<1>3. PICK S \in SUBSET Others(cur[w]), more \in 0 .. count - read :
        /\ Cardinality(S) = Least(Cardinality(Others(cur[w])), read)
        /\ Send(cur[w], Roster(S, read - Cardinality(S) + more))
  BY DEF FillIds
<1>4. /\ Cardinality(S) \in Nat /\ Cardinality(S) <= read
      /\ Cardinality(Others(cur[w])) - Cardinality(S) \in Nat
  BY <1>1, <1>2, <1>3, OthersCounted DEF Least
<1> HIDE DEF read, count
<1>5. read - Cardinality(S) + more \in Nat
  BY <1>1, <1>2, <1>4
<1>6. Cardinality(S) + (read - Cardinality(S) + more) <= count
  BY <1>1, <1>2, <1>4
<1>7. QED
  BY <1>3, <1>4, <1>5, <1>6 DEF count

\* So it is a message, however idMap changed since the roster was sized.
LEMMA RosterSent ==
  ASSUME IInv, NEW w \in Workers, FillIds(w)
  PROVE  \E m \in Message : m.type = "ID" /\ m.src = cur[w] /\ Send(cur[w], m)
<1>1. PICK S \in SUBSET Others(cur[w]), blanks \in Nat, cut \in Nat :
        Send(cur[w], IdMsg(cur[w], [n \in S |-> idMap[n]], blanks, cut))
  BY RosterRead
<1>2. IdMsg(cur[w], [n \in S |-> idMap[n]], blanks, cut) \in Message
  <2>1. cur[w] \in Clients
    BY DEF IInv, TypeOK, OwnedInMap, FillIds, Goto
  <2>2. [n \in S |-> idMap[n]] \in IdList
    BY DEF IInv, TypeOK, Others, IdList
  <2>3. QED
    BY <2>1, <2>2 DEF IdMsg, Message
<1>3. QED
  BY <1>1, <1>2 DEF IdMsg

\* The roster is a message (RosterSent); the maps stay as they are.
LEMMA FillIdsIInv ==
  ASSUME IInv, NEW w \in Workers, FillIds(w)
  PROVE  IInv'
<1>1. TypeOK'
  <2>1. cur[w] \in Clients
    BY DEF IInv, TypeOK, OwnedInMap, FillIds, Goto
  <2>2. out' \in [Clients -> Seq(Message)]
    BY <2>1, RosterSent, SendType DEF IInv
  <2>3. up' \in BOOLEAN
    BY DEF FillIds
  <2>4. QED
    BY <2>2, <2>3 DEF IInv, TypeOK, FillIds, Goto, Quantity, NoQuantity
<1>2. Ownership'
  BY DEF IInv, Ownership, SingleOwner, OwnedInMap, NumbersFresh,
         IdMapWithinClients, FillIds, Goto
<1>3. LockHeld'
  BY DEF IInv, LockHeld, Critical, FillIds, Goto
<1>4. HandlerState'
  BY DEF IInv, HandlerState, FillIds, Goto
<1>5. QED
  BY <1>1, <1>2, <1>3, <1>4 DEF IInv, Ownership

\* BroadcastText reads the id of its own client, or makes an empty one, for a
\* client that is in the map.
LEMMA BroadcastTextIInv ==
  ASSUME IInv, NEW w \in Workers, BroadcastText(w)
  PROVE  IInv'
<1> DEFINE id == IF idMap[cur[w]] = NoEntry THEN Empty ELSE idMap[cur[w]]
<1>a. /\ cur[w] \in Clients /\ id \in Names
      /\ TextMsg(cur[w], id, pkt[w].no) \in Message
  <2>1. cur[w] \in Clients /\ id \in Names /\ pkt[w].no \in Nat
    BY PacketFields
    DEF IInv, TypeOK, OwnedInMap, HandlerState, BroadcastText, Goto, Names
  <2>2. QED
    BY <2>1, MessageTypes
<1>b. /\ idMap' = [idMap EXCEPT ![cur[w]] = id]
      /\ msg' = [msg EXCEPT ![w] = TextMsg(cur[w], id, pkt[w].no)]
  BY DEF BroadcastText, StartBroadcast
<1> HIDE DEF id
<1>1. TypeOK'
  BY <1>a, <1>b DEF IInv, TypeOK, BroadcastText, StartBroadcast, Goto
<1>2. Ownership'
  BY DEF IInv, Ownership, SingleOwner, OwnedInMap, NumbersFresh,
         IdMapWithinClients, BroadcastText, Goto
<1>3. LockHeld'
  BY DEF IInv, LockHeld, Critical, BroadcastText, Goto, Closed
<1>4. HandlerState'
  BY <1>a, <1>b, NullsAssumption
  DEF IInv, TypeOK, HandlerState, SingleOwner, BroadcastText, Goto
<1>5. QED
  BY <1>1, <1>2, <1>3, <1>4 DEF IInv, Ownership

\* Posting the next receive hands the client from the worker to the port.
LEMMA RecvIInv ==
  ASSUME IInv, NEW w \in Workers, Recv(w)
  PROVE  IInv'
<1>1. TypeOK'
  BY NullsAssumption
  DEF IInv, TypeOK, HandlerState, OwnedInMap, Recv, BackToLoop, Goto
<1>2. Ownership'
  BY NullsAssumption, ZenonT(40)
  DEF IInv, TypeOK, Ownership, SingleOwner, OwnedInMap, NumbersFresh,
      IdMapWithinClients, HandlerState, Recv, BackToLoop, Goto
<1>3. LockHeld'
  BY DEF IInv, LockHeld, Critical, Recv, BackToLoop, Goto
<1>4. HandlerState'
  BY DEF IInv, HandlerState, Recv, BackToLoop, Goto
<1>5. QED
  BY <1>1, <1>2, <1>3, <1>4 DEF IInv, Ownership

\* A removal takes the lock; if the client has an id, the id stays there until
\* Forget, for only the worker that holds a client changes its id.
LEMMA StartRemovalIInv ==
  ASSUME IInv, NEW w \in Workers, StartRemoval(w)
  PROVE  IInv'
<1>a. idMap[cur[w]] # NoEntry => ByeMsg(cur[w], idMap[cur[w]]) \in Message
  BY MessageTypes DEF IInv, TypeOK, OwnedInMap, StartRemoval
<1>1. TypeOK'
  <2>1. CASE idMap[cur[w]] = NoEntry
    BY <2>1 DEF IInv, TypeOK, StartRemoval, Goto
  <2>2. CASE idMap[cur[w]] # NoEntry
    <3>1. /\ msg' \in [Workers -> Message \cup {NoMsg}]
          /\ todo' \in [Workers -> SUBSET Clients]
          /\ tgt' = tgt /\ pc' = [pc EXCEPT ![w] = "next"]
      <4>1. /\ tgt' = tgt /\ pc' = [pc EXCEPT ![w] = "next"]
            /\ StartBroadcast(w, ByeMsg(cur[w], idMap[cur[w]]))
        BY <2>2 DEF StartRemoval, Goto
      <4>2. QED
        BY <4>1, <1>a, <2>2 DEF IInv, TypeOK, StartBroadcast
    <3>2. QED
      BY <3>1 DEF IInv, TypeOK, StartRemoval
  <2>3. QED
    BY <2>1, <2>2
<1>2. Ownership'
  BY NullsAssumption, ZenonT(40)
  DEF IInv, TypeOK, Ownership, SingleOwner, OwnedInMap, NumbersFresh,
      IdMapWithinClients, HandlerState, StartRemoval, StartBroadcast, Goto
<1>3. LockHeld'
  BY NullsAssumption
  DEF IInv, TypeOK, LockHeld, Critical, HandlerState, StartRemoval, Goto
<1>4. HandlerState'
  BY <1>a, PacketFields
  DEF IInv, TypeOK, HandlerState, StartRemoval, StartBroadcast, Goto
<1>5. QED
  BY <1>1, <1>2, <1>3, <1>4 DEF IInv, Ownership

\* The id told to the dialog when a client goes is the one in idMap.
LEMMA RemoveFromDialogIInv ==
  ASSUME IInv, NEW w \in Workers, RemoveFromDialog(w)
  PROVE  IInv'
<1>a. idMap[cur[w]] \in Names
  BY DEF IInv, TypeOK, OwnedInMap, HandlerState, RemoveFromDialog, Goto
<1>b. dlg' \in Seq(DialogPost)
  <2>1. [type |-> "MSG_REMOVE_ID", id |-> idMap[cur[w]]] \in DialogPost
    BY <1>a DEF DialogPost
  <2>2. QED
    BY <2>1 DEF IInv, TypeOK, RemoveFromDialog
<1>1. TypeOK'
  BY <1>b DEF IInv, TypeOK, RemoveFromDialog, Goto
<1>2. Ownership'
  BY DEF IInv, Ownership, SingleOwner, OwnedInMap, NumbersFresh,
         IdMapWithinClients, RemoveFromDialog, Goto
<1>3. LockHeld'
  BY DEF IInv, LockHeld, Critical, RemoveFromDialog, Goto
<1>4. HandlerState'
  BY DEF IInv, HandlerState, RemoveFromDialog, Goto
<1>5. QED
  BY <1>1, <1>2, <1>3, <1>4 DEF IInv, Ownership

\* Forget drops the id of the client that is being removed, before its entry in
\* clientsSocketMap.
LEMMA ForgetIInv ==
  ASSUME IInv, NEW w \in Workers, Forget(w)
  PROVE  IInv'
<1>1. TypeOK'
  BY DEF IInv, TypeOK, Forget, Goto
<1>2. Ownership'
  BY DEF IInv, Ownership, SingleOwner, OwnedInMap, NumbersFresh,
         IdMapWithinClients, Forget, Goto
<1>3. LockHeld'
  BY DEF IInv, LockHeld, Critical, Forget, Goto
<1>4. HandlerState'
  BY PacketFields, NullsAssumption, ZenonT(40)
  DEF IInv, TypeOK, HandlerState, SingleOwner, OwnedInMap, Forget, Goto
<1>5. QED
  BY <1>1, <1>2, <1>3, <1>4 DEF IInv, Ownership

\* CloseSocket deletes a client that has no id, is not posted and that no other
\* worker holds; the worker lets it go and frees the lock.
LEMMA CloseSocketIInv ==
  ASSUME IInv, NEW w \in Workers, CloseSocket(w)
  PROVE  IInv'
<1>1. TypeOK'
  BY DEF IInv, TypeOK, OwnedInMap, CloseSocket, BackToLoop, Goto
<1>a. /\ pc[w] = "close" /\ pc' = [pc EXCEPT ![w] = "enter"]
      /\ cur' = [cur EXCEPT ![w] = NoOne]
      /\ UNCHANGED <<clientCount, accepterPc, accepterSock, posted, idMap>>
  BY DEF CloseSocket, BackToLoop, Goto, accepterVars
<1>b. cur[w] \in clientsSocketMap /\ idMap[cur[w]] = NoEntry
  BY <1>a DEF IInv, OwnedInMap, HandlerState
<1>2. Ownership'
  <2>1. SingleOwner'
    BY <1>a, NullsAssumption DEF IInv, TypeOK, SingleOwner
  <2>2. OwnedInMap'
    BY <1>a, <1>b, NullsAssumption
    DEF IInv, TypeOK, SingleOwner, OwnedInMap, CloseSocket
  <2>3. NumbersFresh'
    BY <1>a, <1>b DEF IInv, NumbersFresh, CloseSocket
  <2>4. IdMapWithinClients'
    BY <1>a, <1>b DEF IInv, IdMapWithinClients, CloseSocket
  <2>5. QED
    BY <2>1, <2>2, <2>3, <2>4 DEF Ownership
<1>3. LockHeld'
  BY NullsAssumption
  DEF IInv, TypeOK, LockHeld, Critical, CloseSocket, BackToLoop, Goto
<1>4. HandlerState'
  BY DEF IInv, TypeOK, HandlerState, CloseSocket, BackToLoop, Goto
<1>5. QED
  BY <1>1, <1>2, <1>3, <1>4 DEF IInv, Ownership

\* A new connection takes a number that nothing has used.
LEMMA AcceptIInv ==
  ASSUME IInv, Accept
  PROVE  IInv'
<1>a. clientCount \in Clients /\ clientCount + 1 \in 0 .. MaxClients
  BY BoundsAssumption DEF IInv, TypeOK, Accept, Clients
<1>b. todo' \in [Workers -> SUBSET Clients]
  BY <1>a DEF IInv, TypeOK, Accept
<1>1. TypeOK'
  BY <1>a, <1>b DEF IInv, TypeOK, Accept
<1>2. Ownership'
  <2>1. SingleOwner'
    BY DEF IInv, TypeOK, SingleOwner, OwnedInMap, NumbersFresh, Accept
  <2>2. OwnedInMap'
    BY DEF IInv, OwnedInMap, Accept
  <2>3. NumbersFresh'
    BY DEF IInv, TypeOK, NumbersFresh, Accept, Clients
  <2>4. IdMapWithinClients'
    BY DEF IInv, IdMapWithinClients, Accept
  <2>5. QED
    BY <2>1, <2>2, <2>3, <2>4 DEF Ownership
<1>3. LockHeld'
  BY DEF IInv, LockHeld, Critical, Accept
<1>4. HandlerState'
  BY DEF IInv, HandlerState, Accept
<1>5. QED
  BY <1>1, <1>2, <1>3, <1>4 DEF IInv, Ownership

\* WSAAccept failing ends the accepter, which holds no client then.
LEMMA AcceptFailsIInv ==
  ASSUME IInv, AcceptFails
  PROVE  IInv'
<1>1. TypeOK'
  BY DEF IInv, TypeOK, AcceptFails
<1>2. Ownership'
  BY DEF IInv, Ownership, SingleOwner, OwnedInMap, NumbersFresh,
         IdMapWithinClients, AcceptFails
<1>3. LockHeld'
  BY DEF IInv, LockHeld, Critical, AcceptFails
<1>4. HandlerState'
  BY DEF IInv, HandlerState, AcceptFails
<1>5. QED
  BY <1>1, <1>2, <1>3, <1>4 DEF IInv, Ownership

\* The first receive hands the client from the accepter to the port.
LEMMA PostFirstRecvIInv ==
  ASSUME IInv, PostFirstRecv
  PROVE  IInv'
<1>1. TypeOK'
  BY DEF IInv, TypeOK, OwnedInMap, PostFirstRecv
<1>2. Ownership'
  BY NullsAssumption
  DEF IInv, TypeOK, Ownership, SingleOwner, OwnedInMap, NumbersFresh,
      IdMapWithinClients, PostFirstRecv
<1>3. LockHeld'
  BY DEF IInv, LockHeld, Critical, PostFirstRecv
<1>4. HandlerState'
  BY DEF IInv, HandlerState, PostFirstRecv
<1>5. QED
  BY <1>1, <1>2, <1>3, <1>4 DEF IInv, Ownership

\* A first receive that fails leaves the client in the map and with no owner.
LEMMA FirstRecvFailsIInv ==
  ASSUME IInv, FirstRecvFails
  PROVE  IInv'
<1>1. TypeOK'
  BY DEF IInv, TypeOK, FirstRecvFails
<1>2. Ownership'
  BY NullsAssumption
  DEF IInv, TypeOK, Ownership, SingleOwner, OwnedInMap, NumbersFresh,
      IdMapWithinClients, FirstRecvFails
<1>3. LockHeld'
  BY DEF IInv, LockHeld, Critical, FirstRecvFails
<1>4. HandlerState'
  BY DEF IInv, HandlerState, FirstRecvFails
<1>5. QED
  BY <1>1, <1>2, <1>3, <1>4 DEF IInv, Ownership

\* A client's packet changes nothing of the server's.
LEMMA ClientSendIInv ==
  ASSUME IInv, NEW n \in Clients, ClientSend(n)
  PROVE  IInv'
<1>a. PICK p \in Packet : /\ net' = [net EXCEPT ![n] = p]
                          /\ sent' = [sent EXCEPT ![n] = Append(@, p)]
  <2> PICK type \in Kinds, id \in LoginIds[n] :
         LET p == [type |-> type, no |-> Len(sent[n]) + 1,
                   id |-> IF type = "LOGIN_INFO" THEN id ELSE Empty]
         IN  /\ net' = [net EXCEPT ![n] = p]
             /\ sent' = [sent EXCEPT ![n] = Append(@, p)]
    BY DEF ClientSend
  <2>1. type \in PacketTypes /\ id \in Names /\ Empty \in Names
    BY KindsAssumption, LoginIdsAssumption DEF Names
  <2>2. Len(sent[n]) + 1 \in Nat
    BY DEF TypeOK
  <2>3. [type |-> type, no |-> Len(sent[n]) + 1,
         id |-> IF type = "LOGIN_INFO" THEN id ELSE Empty] \in Packet
    BY <2>1 DEF Packet
  <2>4. QED
    BY <2>3
<1>1. TypeOK'
  BY <1>a DEF IInv, TypeOK, ClientSend
<1>2. Ownership'
  BY DEF IInv, Ownership, SingleOwner, OwnedInMap, NumbersFresh,
         IdMapWithinClients, ClientSend
<1>3. LockHeld'
  BY DEF IInv, LockHeld, Critical, ClientSend
<1>4. HandlerState'
  BY DEF IInv, HandlerState, ClientSend
<1>5. QED
  BY <1>1, <1>2, <1>3, <1>4 DEF IInv, Ownership

\* A closed connection changes nothing of the server's.
LEMMA ClientCloseIInv ==
  ASSUME IInv, NEW n \in Clients, ClientClose(n)
  PROVE  IInv'
<1>1. TypeOK'
  BY DEF IInv, TypeOK, ClientClose
<1>2. Ownership'
  BY DEF IInv, Ownership, SingleOwner, OwnedInMap, NumbersFresh,
         IdMapWithinClients, ClientClose
<1>3. LockHeld'
  BY DEF IInv, LockHeld, Critical, ClientClose
<1>4. HandlerState'
  BY DEF IInv, HandlerState, ClientClose
<1>5. QED
  BY <1>1, <1>2, <1>3, <1>4 DEF IInv, Ownership

\* A reset connection changes nothing of the server's.
LEMMA ClientResetIInv ==
  ASSUME IInv, NEW n \in Clients, ClientReset(n)
  PROVE  IInv'
<1>1. TypeOK'
  BY DEF IInv, TypeOK, ClientReset
<1>2. Ownership'
  BY DEF IInv, Ownership, SingleOwner, OwnedInMap, NumbersFresh,
         IdMapWithinClients, ClientReset
<1>3. LockHeld'
  BY DEF IInv, LockHeld, Critical, ClientReset
<1>4. HandlerState'
  BY DEF IInv, HandlerState, ClientReset
<1>5. QED
  BY <1>1, <1>2, <1>3, <1>4 DEF IInv, Ownership

\* The invariant is of the variables alone.
LEMMA StutterIInv == IInv /\ UNCHANGED vars => IInv'
BY DEF IInv, TypeOK, SingleOwner, OwnedInMap, NumbersFresh, LockHeld, Critical,
       HandlerState, IdMapWithinClients, vars

\* Every step of the clients, the accepter and the workers keeps the invariant.
LEMMA NextIInv == IInv /\ [Next]_vars => IInv'
<1> SUFFICES ASSUME IInv, [Next]_vars PROVE IInv'
  OBVIOUS
<1>1. ASSUME NEW n \in Clients, Client(n) PROVE IInv'
  BY <1>1, ClientSendIInv, ClientCloseIInv, ClientResetIInv DEF Client
<1>2. CASE Accepter
  BY <1>2, AcceptIInv, AcceptFailsIInv, PostFirstRecvIInv, FirstRecvFailsIInv
  DEF Accepter
<1>3. ASSUME NEW w \in Workers, Worker(w) PROVE IInv'
  <2>1. CASE Enter(w)
    BY <2>1, EnterIInv
  <2>2. CASE Broadcast(w)
    BY <2>2, PickTargetIInv, SendToTargetIInv, BroadcastDoneIInv DEF Broadcast
  <2>3. CASE Handle(w)
    BY <2>3, SignUpToDBIInv, LoginIInv, LoginToDialogIInv, SetIdIInv,
       PrepareRosterIInv, FillIdsIInv, BroadcastTextIInv, RecvIInv
    DEF Handle
  <2>4. CASE RemoveDisconnectedClient(w)
    BY <2>4, StartRemovalIInv, RemoveFromDialogIInv, ForgetIInv,
       CloseSocketIInv
    DEF RemoveDisconnectedClient
  <2>5. ASSUME NEW n \in Clients, Dequeue(w, n) PROVE IInv'
    BY <2>5, DequeuePacketIInv, DequeueClosedIInv DEF Dequeue
  <2>6. QED
    BY <1>3, <2>1, <2>2, <2>3, <2>4, <2>5 DEF Worker
<1>4. CASE UNCHANGED vars
  BY <1>4, StutterIInv
<1>5. QED
  BY <1>1, <1>2, <1>3, <1>4 DEF Next

\* IInv holds in every reachable state, whatever the numbers of workers and
\* connections and whatever the users and the network do.
THEOREM Invariance == Spec => []IInv
<1>1. QED
  BY InitIInv, NextIInv, PTL DEF Spec

\* Every variable keeps its type.
THEOREM TypeCorrect == Spec => []TypeOK
<1>1. IInv => TypeOK
  BY DEF IInv
<1>2. QED
  BY <1>1, Invariance, PTL

\* The worker threads and the accepter never share a SocketInfo: posting the
\* next receive last is enough to keep the handlers of one connection apart.
THEOREM SingleOwnership == Spec => []SingleOwner
<1>1. IInv => SingleOwner
  BY DEF IInv
<1>2. QED
  BY <1>1, Invariance, PTL

\* The SocketInfo a worker handles, and those that are posted, are never
\* deleted ones.
THEOREM OwnSocketAlive == Spec => []OwnAlive
<1>1. IInv => OwnAlive
  BY NullsAssumption DEF IInv, TypeOK, OwnAlive, OwnedInMap, NumbersFresh
<1>2. QED
  BY <1>1, Invariance, PTL

\* idMap has no entry of a connection that is not in clientsSocketMap.
THEOREM IdsOfClients == Spec => []IdMapWithinClients
<1>1. IInv => IdMapWithinClients
  BY DEF IInv
<1>2. QED
  BY <1>1, Invariance, PTL

\* No two workers are at the completion port or in a removal.
OneInside == \A v, w \in Workers : Critical(v) /\ Critical(w) => v = w

\* A removal excludes every other removal and the wait at the completion port:
\* this is why a client is not removed while a worker waits there.
THEOREM RemovalExcludes == Spec => []OneInside
<1>1. IInv => OneInside
  BY DEF IInv, LockHeld, OneInside
<1>2. QED
  BY <1>1, Invariance, PTL

\* NoOrphan speaks of who has which connection, and of resets alone; most steps
\* change neither.
LEMMA AsideOrphan ==
  ASSUME NoOrphan,
         UNCHANGED <<clientsSocketMap, posted, accepterSock, cur, peer>>
  PROVE  NoOrphan'
BY DEF NoOrphan, Attended

\* The end of a connection forgets nothing, and a reset stays one.
LEMMA ClientOrphan ==
  ASSUME IInv, NoOrphan, NEW n \in Clients, Client(n)
  PROVE  NoOrphan'
<1>1. UNCHANGED <<clientsSocketMap, posted, accepterSock, cur>>
  BY DEF Client, ClientSend, ClientClose, ClientReset
<1>2. \A m \in Clients : peer[m] = "reset" => peer'[m] = "reset"
  BY DEF IInv, TypeOK, Client, ClientSend, ClientClose, ClientReset
<1>3. QED
  BY <1>1, <1>2 DEF IInv, TypeOK, NoOrphan, Attended

\* The accepter keeps the new connection until its first receive is posted, or
\* fails because the connection was reset.
LEMMA AccepterOrphan ==
  ASSUME IInv, NoOrphan, Accepter
  PROVE  NoOrphan'
<1>1. UNCHANGED cur
  BY DEF Accepter, Accept, AcceptFails, PostFirstRecv, FirstRecvFails
<1>2. CASE Accept
  <2>1. /\ clientsSocketMap' = clientsSocketMap \cup {clientCount}
        /\ accepterSock' = clientCount /\ posted' = posted
        /\ accepterPc = "accept"
        /\ peer' = [peer EXCEPT ![clientCount] = "open"]
    BY <1>2 DEF Accept
  <2>2. ASSUME NEW n \in clientsSocketMap
        PROVE  /\ n # clientCount /\ peer'[n] = peer[n]
               /\ n # accepterSock
    BY <2>1, NullsAssumption
    DEF IInv, TypeOK, NumbersFresh, OwnedInMap, Clients
  <2>3. QED
    BY <1>1, <2>1, <2>2 DEF NoOrphan, Attended
<1>3. CASE AcceptFails
  BY <1>3, AsideOrphan DEF AcceptFails
<1>4. CASE PostFirstRecv
  BY <1>1, <1>4 DEF PostFirstRecv, NoOrphan, Attended
<1>5. CASE FirstRecvFails
  BY <1>1, <1>5 DEF FirstRecvFails, NoOrphan, Attended
<1>6. QED
  BY <1>2, <1>3, <1>4, <1>5 DEF Accepter

\* A completion hands the connection from the port to the worker.
LEMMA DequeueOrphan ==
  ASSUME IInv, NoOrphan, NEW w \in Workers, NEW n \in Clients, Dequeue(w, n)
  PROVE  NoOrphan'
<1>1. /\ pc[w] = "gqcs" /\ posted' = posted \ {n}
      /\ cur' = [cur EXCEPT ![w] = n]
      /\ UNCHANGED <<clientsSocketMap, accepterSock, peer>>
  BY DEF Dequeue, DequeuePacket, DequeueClosed, TakeCompletion, Goto
<1>2. cur[w] = NoOne /\ cur'[w] = n
      /\ \A v \in Workers : v # w => cur'[v] = cur[v]
  BY <1>1 DEF IInv, TypeOK, OwnedInMap
<1>3. \A m \in clientsSocketMap : m # NoOne
  BY NullsAssumption DEF IInv, TypeOK
<1>4. QED
  BY <1>1, <1>2, <1>3 DEF NoOrphan, Attended

\* A worker lets a connection go only when it posts its next receive, when that
\* fails because of a reset, and when it has removed the connection.
LEMMA LetGoOrphan ==
  ASSUME IInv, NoOrphan, NEW w \in Workers, Recv(w) \/ CloseSocket(w)
  PROVE  NoOrphan'
<1>1. /\ cur' = [cur EXCEPT ![w] = NoOne]
      /\ UNCHANGED <<accepterSock, peer>>
  BY DEF Recv, CloseSocket, BackToLoop
<1>2. \A v \in Workers : v # w => cur'[v] = cur[v]
  BY <1>1 DEF IInv, TypeOK
<1>3. CASE Recv(w)
  BY <1>1, <1>2, <1>3 DEF Recv, NoOrphan, Attended
<1>4. CASE CloseSocket(w)
  BY <1>1, <1>2, <1>4 DEF CloseSocket, NoOrphan, Attended
<1>5. QED
  BY <1>3, <1>4

\* Every step keeps NoOrphan.
LEMMA NextOrphan == IInv /\ NoOrphan /\ [Next]_vars => NoOrphan'
<1> SUFFICES ASSUME IInv, NoOrphan, [Next]_vars PROVE NoOrphan'
  OBVIOUS
<1>1. ASSUME NEW w \in Workers, Worker(w) PROVE NoOrphan'
  <2>1. CASE Enter(w)
    BY <2>1, AsideOrphan DEF Enter
  <2>2. CASE Broadcast(w)
    BY <2>2, AsideOrphan DEF Broadcast, PickTarget, SendToTarget, BroadcastDone
  <2>3. CASE Handle(w) /\ ~Recv(w)
    BY <2>3, AsideOrphan
    DEF Handle, SignUpToDB, Login, LoginToDialog, SetId, PrepareRoster,
        CheckAlone, SizePacket, CountIds, ReadIdMap, FillIds,
        BroadcastText
  <2>4. CASE RemoveDisconnectedClient(w) /\ ~CloseSocket(w)
    BY <2>4, AsideOrphan
    DEF RemoveDisconnectedClient, StartRemoval, RemoveFromDialog, Forget
  <2>5. CASE \E n \in Clients : Dequeue(w, n)
    BY <2>5, DequeueOrphan
  <2>6. CASE Recv(w) \/ CloseSocket(w)
    BY <2>6, LetGoOrphan
  <2>7. QED
    BY <1>1, <2>1, <2>2, <2>3, <2>4, <2>5, <2>6 DEF Worker
<1>2. CASE Accepter
  BY <1>2, AccepterOrphan
<1>3. CASE \E n \in Clients : Client(n)
  BY <1>3, ClientOrphan
<1>4. CASE UNCHANGED vars
  BY <1>4, AsideOrphan DEF vars
<1>5. QED
  BY <1>1, <1>2, <1>3, <1>4 DEF Next

\* No connection is forgotten while threads hand it on to each other: it has a
\* receive posted or a thread that sees to it, unless it was reset.
THEOREM NoneForgotten == Spec => []NoOrphan
<1>1. Init => NoOrphan
  BY DEF Init, NoOrphan
<1>2. QED
  BY <1>1, NextOrphan, Invariance, PTL DEF Spec

-----------------------------------------------------------------------------
(* A text is signed with an account of its sender, although Server::Login  *)
(* answers first and sets idMap later, and although other workers run in   *)
(* between.                                                                *)

\* A login names an account of its user, and only who was told that the login
\* succeeded writes texts: on the way and when a worker has it.
PacketsOwn ==
  /\ \A n \in Clients :
       /\ net[n].type = "LOGIN_INFO" => net[n].id \in LoginIds[n]
       /\ net[n].type = "TEXT" => LoggedIn(n)
  /\ \A w \in Workers :
       /\ pc[w] \in {"dispatch", "addId", "setId"} /\ pkt[w].type = "LOGIN_INFO"
            => pkt[w].id \in LoginIds[cur[w]]
       /\ pc[w] = "dispatch" /\ pkt[w].type = "TEXT" => LoggedIn(cur[w])

\* What idMap has of a connection is an account of its user.
IdsOwn == \A n \in Clients : idMap[n] # NoEntry => idMap[n] \in LoginIds[n]

\* A client that was told that its login succeeded has an id, or the worker
\* that told it is on the way to giving it one, or it is being removed.
LoginHasId ==
  \A n \in clientsSocketMap :
    LoggedIn(n) => \/ idMap[n] # NoEntry
                   \/ \E w \in Workers :
                        cur[w] = n /\ pc[w] \in {"addId", "setId", "close"}

Signed(m) == m.type = "TEXT" => m.id \in LoginIds[m.src]

\* What is broadcast is no answer, and a text in it is signed.
BroadcastSigned ==
  \A w \in Workers : pc[w] \in {"next", "send"}
                       => msg[w].type \notin Requests /\ Signed(msg[w])

\* Nothing has been sent to numbers that are still to come.
FutureSilent ==
  \A n \in Clients : n >= clientCount => peer[n] = "none" /\ out[n] = <<>>

TextInv == /\ PacketsOwn /\ IdsOwn /\ LoginHasId /\ BroadcastSigned
           /\ FutureSilent /\ TextsAreSigned

\* A message that is neither a successful login's answer nor an unsigned text
\* changes nobody's login, and keeps what the clients were sent signed.
LEMMA SendKeeps ==
  ASSUME TypeOK, NEW n \in Clients, NEW m \in Message, Send(n, m),
         TextsAreSigned, Signed(m)
  PROVE  /\ TextsAreSigned'
         /\ \A k \in Clients : LoggedIn(k) => LoggedIn(k)'
         /\ \A k \in Clients : k # n => (LoggedIn(k)' <=> LoggedIn(k))
         /\ m # Reply("LOGIN_INFO", TRUE)
              => \A k \in Clients : LoggedIn(k)' <=> LoggedIn(k)
<1>1. CASE out' = out
  BY <1>1 DEF TextsAreSigned, LoggedIn
<1>2. CASE out' = [out EXCEPT ![n] = Append(@, m)]
  <2>1. \A k \in Clients : k # n => out'[k] = out[k]
    BY <1>2 DEF TypeOK
  <2>2. /\ out'[n] = Append(out[n], m) /\ out[n] \in Seq(Message)
        /\ DOMAIN out'[n] = DOMAIN out[n] \cup {Len(out[n]) + 1}
        /\ \A i \in DOMAIN out[n] : out'[n][i] = out[n][i]
        /\ out'[n][Len(out[n]) + 1] = m
    BY <1>2 DEF TypeOK
  <2>3. TextsAreSigned'
    BY <2>1, <2>2, SMTT(30) DEF TextsAreSigned, Signed
  <2>4. \A k \in Clients : LoggedIn(k) => LoggedIn(k)'
    BY <2>1, <2>2 DEF LoggedIn
  <2>5. \A k \in Clients : k # n => (LoggedIn(k)' <=> LoggedIn(k))
    BY <2>1 DEF LoggedIn
  <2>6. m # Reply("LOGIN_INFO", TRUE) => (LoggedIn(n)' <=> LoggedIn(n))
    BY <2>2 DEF LoggedIn
  <2>7. QED
    BY <2>3, <2>4, <2>5, <2>6
<1>3. QED
  BY <1>1, <1>2 DEF Send

\* A step that sends nothing.
LEMMA SilentKeeps ==
  ASSUME TextsAreSigned, out' = out
  PROVE  /\ TextsAreSigned'
         /\ \A k \in Clients : LoggedIn(k)' <=> LoggedIn(k)
BY DEF TextsAreSigned, LoggedIn

\* What worker v does is nothing to TextInv: it goes on with the same packet
\* and message, or comes to where neither matters.
Aside(v) ==
  \/ /\ cur'[v] = cur[v] /\ pkt'[v] = pkt[v] /\ msg'[v] = msg[v]
     /\ \/ pc'[v] = pc[v]
        \/ pc[v] \in {"next", "send"} /\ pc'[v] \in {"next", "send"}
        \/ pc[v] = "addId" /\ pc'[v] = "setId"
  \/ /\ pc[v] \notin {"addId", "setId", "close"}
     /\ pc'[v] \notin {"dispatch", "addId", "setId", "next", "send"}

\* Messages that say nothing of a login and, if they are texts, are signed.
Neutral(m) == Signed(m) /\ m # Reply("LOGIN_INFO", TRUE)

\* A step in which every worker stays aside, which changes no id and no packet
\* on the way and sends a neutral message or none, keeps TextInv.
LEMMA AsideKeeps ==
  ASSUME IInv, TextInv,
         UNCHANGED <<clientCount, clientsSocketMap, idMap, peer, net>>,
         \A v \in Workers : Aside(v),
         \/ out' = out
         \/ \E n \in Clients, m \in Message : Send(n, m) /\ Neutral(m)
  PROVE  TextInv'
<1>1. TextsAreSigned' /\ \A k \in Clients : LoggedIn(k)' <=> LoggedIn(k)
  <2>1. CASE out' = out
    BY <2>1, SilentKeeps DEF TextInv
  <2>2. CASE \E n \in Clients, m \in Message : Send(n, m) /\ Neutral(m)
    BY <2>2, SendKeeps DEF TextInv, IInv, Neutral
  <2>3. QED
    BY <2>1, <2>2
<1>2. PacketsOwn'
  <2>1. \A v \in Workers : pc[v] = "dispatch" => cur[v] \in Clients
    BY DEF IInv, TypeOK, OwnedInMap
  <2>2. QED
    BY <1>1, <2>1 DEF TextInv, PacketsOwn, Aside
<1>3. IdsOwn'
  BY DEF TextInv, IdsOwn
<1>4. LoginHasId'
  <2>1. \A v \in Workers : pc[v] \in {"addId", "setId", "close"}
          => cur'[v] = cur[v] /\ pc'[v] \in {"addId", "setId", "close"}
    BY DEF Aside
  <2>2. clientsSocketMap \subseteq Clients
    BY DEF IInv, TypeOK
  <2>3. QED
    BY <1>1, <2>1, <2>2 DEF TextInv, LoginHasId
<1>5. BroadcastSigned'
  BY DEF TextInv, BroadcastSigned, Aside
<1>6. FutureSilent'
  BY DEF TextInv, FutureSilent, Send, IInv, TypeOK
<1>7. QED
  BY <1>1, <1>2, <1>3, <1>4, <1>5, <1>6 DEF TextInv

\* The silent steps of that kind: the section entered, the end of a connection
\* taken, the loop going on or ending, the dialog told, the roster sized, the
\* next receive posted.
LEMMA AsideText ==
  ASSUME IInv, TextInv, NEW w \in Workers,
         \/ \E n \in Clients : DequeueClosed(w, n)
         \/ Enter(w) \/ PickTarget(w) \/ BroadcastDone(w) \/ LoginToDialog(w)
         \/ PrepareRoster(w) \/ Recv(w) \/ RemoveFromDialog(w)
  PROVE  TextInv'
<1>1. UNCHANGED <<clientCount, clientsSocketMap, idMap, peer, net, out>>
  BY DEF Enter, DequeueClosed, TakeCompletion, PickTarget, BroadcastDone,
         LoginToDialog, PrepareRoster, CheckAlone, SizePacket, CountIds,
         ReadIdMap, Recv, RemoveFromDialog
<1>2. \A v \in Workers : v # w => Aside(v)
  BY DEF IInv, TypeOK, Aside, Enter, DequeueClosed, TakeCompletion, PickTarget,
         BroadcastDone, LoginToDialog, PrepareRoster, CheckAlone, SizePacket,
         CountIds, ReadIdMap, Recv, BackToLoop,
         RemoveFromDialog, Goto
<1>3. Aside(w)
  <2>1. CASE Enter(w) \/ PickTarget(w) \/ LoginToDialog(w) \/ PrepareRoster(w)
    BY <2>1
    DEF IInv, TypeOK, Aside, Enter, PickTarget, LoginToDialog, PrepareRoster,
        CheckAlone, SizePacket, CountIds, ReadIdMap, Goto
  <2>2. CASE \/ \E n \in Clients : DequeueClosed(w, n)
             \/ Recv(w) \/ RemoveFromDialog(w)
    BY <2>2
    DEF IInv, TypeOK, Aside, DequeueClosed, Recv, BackToLoop, RemoveFromDialog,
        Goto
  <2>3. CASE BroadcastDone(w)
    BY <2>3
    DEF IInv, TypeOK, HandlerState, Aside, BroadcastDone, AfterBroadcast, Goto
  <2>4. QED
    BY <2>1, <2>2, <2>3
<1>4. QED
  BY <1>1, <1>2, <1>3, AsideKeeps

\* The accepter's steps of that kind, and a step in which nothing happens.
LEMMA AsideElsewhere ==
  ASSUME IInv, TextInv,
         AcceptFails \/ PostFirstRecv \/ FirstRecvFails \/ UNCHANGED vars
  PROVE  TextInv'
<1>1. UNCHANGED <<clientCount, clientsSocketMap, idMap, peer, net, out, pc,
                  cur, pkt, msg>>
  BY DEF AcceptFails, PostFirstRecv, FirstRecvFails, vars
<1>2. \A v \in Workers : Aside(v)
  BY <1>1 DEF Aside
<1>3. QED
  BY <1>1, <1>2, AsideKeeps

\* The broadcast loop sends a message that BroadcastSigned knows of.
LEMMA SendToTargetText ==
  ASSUME IInv, TextInv, NEW w \in Workers, SendToTarget(w)
  PROVE  TextInv'
<1>1. /\ tgt[w] \in Clients /\ msg[w] \in Message
      /\ msg[w].type \notin Requests /\ Signed(msg[w])
  BY DEF IInv, HandlerState, TextInv, BroadcastSigned, SendToTarget, Goto
<1>2. Send(tgt[w], msg[w]) /\ Neutral(msg[w])
  BY <1>1 DEF SendToTarget, Neutral, Reply, Requests
<1>3. \A v \in Workers : Aside(v)
  BY DEF Aside, SendToTarget, Goto
<1>4. UNCHANGED <<clientCount, clientsSocketMap, idMap, peer, net>>
  BY DEF SendToTarget
<1>5. QED
  BY <1>1, <1>2, <1>3, <1>4, AsideKeeps

\* The answer to a sign-up is neutral.
LEMMA SignUpToDBText ==
  ASSUME IInv, TextInv, NEW w \in Workers, SignUpToDB(w)
  PROVE  TextInv'
<1>1. cur[w] \in Clients
  BY DEF IInv, TypeOK, OwnedInMap, SignUpToDB, Goto
<1>2. PICK ok \in BOOLEAN : Send(cur[w], Reply("SIGNUP_INFO", ok))
  BY DEF SignUpToDB
<1>3. /\ Reply("SIGNUP_INFO", ok) \in Message
      /\ Neutral(Reply("SIGNUP_INFO", ok))
  BY DEF Reply, Message, Requests, Neutral, Signed
<1>4. \A v \in Workers : Aside(v)
  BY DEF Aside, SignUpToDB, Goto
<1>5. UNCHANGED <<clientCount, clientsSocketMap, idMap, peer, net>>
  BY DEF SignUpToDB
<1>6. QED
  BY <1>1, <1>2, <1>3, <1>4, <1>5, AsideKeeps

\* The roster is neutral.
LEMMA FillIdsText ==
  ASSUME IInv, TextInv, NEW w \in Workers, FillIds(w)
  PROVE  TextInv'
<1>1. cur[w] \in Clients
  BY DEF IInv, TypeOK, OwnedInMap, FillIds, Goto
<1>2. PICK m \in Message : m.type = "ID" /\ Send(cur[w], m)
  BY RosterSent
<1>3. Neutral(m)
  BY <1>2 DEF Neutral, Reply, Signed
<1>4. \A v \in Workers : Aside(v)
  BY DEF Aside, FillIds, Goto
<1>5. UNCHANGED <<clientCount, clientsSocketMap, idMap, peer, net>>
  BY DEF FillIds
<1>6. QED
  BY <1>1, <1>2, <1>3, <1>4, <1>5, AsideKeeps

\* Taking a packet from the port: what PacketsOwn says of it on the way holds
\* of it in the worker's hands.
LEMMA DequeuePacketText ==
  ASSUME IInv, TextInv, NEW w \in Workers, NEW n \in Clients,
         DequeuePacket(w, n)
  PROVE  TextInv'
<1>1. TextsAreSigned' /\ \A k \in Clients : LoggedIn(k)' <=> LoggedIn(k)
  BY SilentKeeps DEF TextInv, DequeuePacket, TakeCompletion
<1>2. PacketsOwn'
  <2>1. /\ pkt' = [pkt EXCEPT ![w] = net[n]] /\ cur' = [cur EXCEPT ![w] = n]
        /\ pc' = [pc EXCEPT ![w] = "dispatch"]
        /\ net' = [net EXCEPT ![n] = NoPacket]
    BY DEF DequeuePacket, TakeCompletion, Goto
  <2>2. \A m \in Clients :
          /\ net'[m].type = "LOGIN_INFO" => net'[m].id \in LoginIds[m]
          /\ net'[m].type = "TEXT" => LoggedIn(m)'
    BY <1>1, <2>1 DEF TextInv, PacketsOwn, NoPacket
  <2>3. \A v \in Workers : v # w => /\ pkt'[v] = pkt[v] /\ cur'[v] = cur[v]
                                    /\ pc'[v] = pc[v]
    BY <2>1 DEF IInv, TypeOK
  <2>4. pkt'[w] = net[n] /\ cur'[w] = n /\ pc'[w] = "dispatch"
    BY <2>1 DEF IInv, TypeOK
  <2>5. \A v \in Workers : pc[v] = "dispatch" => cur[v] \in Clients
    BY DEF IInv, TypeOK, OwnedInMap
  <2>6. QED
    BY <1>1, <2>2, <2>3, <2>4, <2>5 DEF TextInv, PacketsOwn
<1>3. IdsOwn'
  BY DEF TextInv, IdsOwn, DequeuePacket, TakeCompletion
<1>4. LoginHasId'
  BY <1>1, ZenonT(40)
  DEF TextInv, LoginHasId, IInv, TypeOK, DequeuePacket, TakeCompletion, Goto
<1>5. BroadcastSigned'
  BY DEF TextInv, BroadcastSigned, DequeuePacket, TakeCompletion, Goto
<1>6. FutureSilent'
  BY DEF TextInv, FutureSilent, DequeuePacket, TakeCompletion
<1>7. QED
  BY <1>1, <1>2, <1>3, <1>4, <1>5, <1>6 DEF TextInv

\* SetId gives a client that was told of its login the id of the packet, which
\* is an account of its user.
LEMMA SetIdText ==
  ASSUME IInv, TextInv, NEW w \in Workers, SetId(w)
  PROVE  TextInv'
<1>1. TextsAreSigned' /\ \A k \in Clients : LoggedIn(k)' <=> LoggedIn(k)
  BY SilentKeeps DEF TextInv, SetId
<1>a. /\ cur[w] \in Clients
      /\ pkt[w].id \in LoginIds[cur[w]] /\ pkt[w].id # NoEntry
  <2>1. cur[w] \in Clients /\ pkt[w].id \in LoginIds[cur[w]]
    BY DEF IInv, TypeOK, OwnedInMap, HandlerState, TextInv, PacketsOwn, SetId,
           Goto
  <2>2. QED
    BY <2>1, LoginIdsAssumption, NullsAssumption DEF Names
<1>2. PacketsOwn'
  BY <1>1 DEF TextInv, PacketsOwn, IInv, TypeOK, OwnedInMap, SetId, Goto
<1>3. IdsOwn'
  BY <1>a DEF TextInv, IdsOwn, SetId
<1>4. LoginHasId'
  <2>1. /\ idMap' = [idMap EXCEPT ![cur[w]] = pkt[w].id] /\ cur' = cur
        /\ clientsSocketMap' = clientsSocketMap
        /\ pc[w] = "setId" /\ pc' = [pc EXCEPT ![w] = "next"]
    BY DEF SetId, Goto
  <2>2. \A n \in Clients : n # cur[w] => idMap'[n] = idMap[n]
    BY <2>1 DEF IInv, TypeOK
  <2>3. idMap'[cur[w]] # NoEntry
    BY <1>a, <2>1 DEF IInv, TypeOK
  <2>4. \A v \in Workers : cur[v] # cur[w] => pc'[v] = pc[v]
    BY <2>1 DEF IInv, TypeOK
  <2>5. clientsSocketMap \subseteq Clients
    BY DEF IInv, TypeOK
  <2>6. QED
    BY <1>1, <2>1, <2>3, <2>5 DEF TextInv, LoginHasId
<1>5. BroadcastSigned'
  BY DEF TextInv, BroadcastSigned, Signed, Requests, IInv, TypeOK, SetId,
         StartBroadcast, IdMsg, Goto
<1>6. FutureSilent'
  BY DEF TextInv, FutureSilent, SetId
<1>7. QED
  BY <1>1, <1>2, <1>3, <1>4, <1>5, <1>6 DEF TextInv

\* BroadcastText finds an id: whoever writes text was told of a login, and no
\* other worker has this client on the way to its id.
LEMMA BroadcastTextText ==
  ASSUME IInv, TextInv, NEW w \in Workers, BroadcastText(w)
  PROVE  TextInv'
<1>1. TextsAreSigned' /\ \A k \in Clients : LoggedIn(k)' <=> LoggedIn(k)
  BY SilentKeeps DEF TextInv, BroadcastText
<1>a. /\ cur[w] \in Clients
      /\ idMap[cur[w]] # NoEntry /\ idMap[cur[w]] \in LoginIds[cur[w]]
  <2>1. cur[w] \in clientsSocketMap /\ cur[w] \in Clients /\ cur[w] # NoOne
    BY NullsAssumption DEF IInv, TypeOK, OwnedInMap, BroadcastText, Goto
  <2>2. LoggedIn(cur[w])
    BY DEF TextInv, PacketsOwn, BroadcastText, Goto
  <2>3. \A v \in Workers : cur[v] = cur[w] => v = w
    BY <2>1 DEF IInv, SingleOwner
  <2>4. idMap[cur[w]] # NoEntry
    BY <2>1, <2>2, <2>3 DEF TextInv, LoginHasId, BroadcastText, Goto
  <2>5. QED
    BY <2>1, <2>4 DEF TextInv, IdsOwn
<1>b. /\ idMap' = [idMap EXCEPT ![cur[w]] = idMap[cur[w]]]
      /\ msg' = [msg EXCEPT ![w] = TextMsg(cur[w], idMap[cur[w]], pkt[w].no)]
  BY <1>a DEF BroadcastText, StartBroadcast
<1>c. idMap' = idMap
  BY <1>b DEF IInv, TypeOK
<1>2. PacketsOwn'
  BY <1>1
  DEF TextInv, PacketsOwn, IInv, TypeOK, OwnedInMap, BroadcastText, Goto
<1>3. IdsOwn'
  BY <1>c DEF TextInv, IdsOwn
<1>4. LoginHasId'
  <2>1. /\ clientsSocketMap' = clientsSocketMap /\ cur' = cur
        /\ pc[w] = "dispatch" /\ pc' = [pc EXCEPT ![w] = "next"]
    BY DEF BroadcastText, Goto
  <2>2. QED
    BY <1>1, <1>c, <2>1 DEF TextInv, LoginHasId, IInv, TypeOK
<1>5. BroadcastSigned'
  BY <1>a, <1>b
  DEF TextInv, BroadcastSigned, Signed, Requests, IInv, TypeOK, TextMsg,
      BroadcastText, Goto
<1>6. FutureSilent'
  BY DEF TextInv, FutureSilent, BroadcastText
<1>7. QED
  BY <1>1, <1>2, <1>3, <1>4, <1>5, <1>6 DEF TextInv

\* A removal that begins sends the goodbye, or goes to the end if there is no
\* id; it changes no id.
LEMMA StartRemovalText ==
  ASSUME IInv, TextInv, NEW w \in Workers, StartRemoval(w)
  PROVE  TextInv'
<1>1. TextsAreSigned' /\ \A k \in Clients : LoggedIn(k)' <=> LoggedIn(k)
  BY SilentKeeps DEF TextInv, StartRemoval
<1>a. /\ idMap' = idMap /\ cur' = cur /\ clientsSocketMap' = clientsSocketMap
      /\ pc[w] = "remove"
      /\ \/ pc' = [pc EXCEPT ![w] = "close"] /\ msg' = msg
         \/ /\ pc' = [pc EXCEPT ![w] = "next"]
            /\ msg' = [msg EXCEPT ![w] = ByeMsg(cur[w], idMap[cur[w]])]
  BY DEF StartRemoval, StartBroadcast, Goto
<1>2. PacketsOwn'
  BY <1>1, ZenonT(40)
  DEF TextInv, PacketsOwn, IInv, TypeOK, OwnedInMap, StartRemoval,
      StartBroadcast, ByeMsg, Goto
<1>3. IdsOwn'
  BY DEF TextInv, IdsOwn, StartRemoval
<1>4. LoginHasId'
  <2>1. \A v \in Workers : v # w => pc'[v] = pc[v]
    BY <1>a DEF IInv, TypeOK
  <2>2. clientsSocketMap \subseteq Clients
    BY DEF IInv, TypeOK
  <2>3. QED
    BY <1>1, <1>a, <2>1, <2>2 DEF TextInv, LoginHasId
<1>5. BroadcastSigned'
  <2>1. \A v \in Workers : v # w => pc'[v] = pc[v] /\ msg'[v] = msg[v]
    BY <1>a DEF IInv, TypeOK
  <2>2. CASE pc' = [pc EXCEPT ![w] = "close"] /\ msg' = msg
    <3>1. pc'[w] = "close"
      BY <2>2 DEF IInv, TypeOK
    <3>2. QED
      BY <2>1, <3>1 DEF TextInv, BroadcastSigned, Signed
  <2>3. CASE msg' = [msg EXCEPT ![w] = ByeMsg(cur[w], idMap[cur[w]])]
    <3>1. msg'[w].type = "DISCONNECTED_ID"
      BY <2>3 DEF IInv, TypeOK, ByeMsg
    <3>2. QED
      BY <2>1, <3>1 DEF TextInv, BroadcastSigned, Signed, Requests
  <2>4. QED
    BY <1>a, <2>2, <2>3
<1>6. FutureSilent'
  BY DEF TextInv, FutureSilent, StartRemoval
<1>7. QED
  BY <1>1, <1>2, <1>3, <1>4, <1>5, <1>6 DEF TextInv

\* Forget drops an id in a removal, which LoginHasId allows.
LEMMA ForgetText ==
  ASSUME IInv, TextInv, NEW w \in Workers, Forget(w)
  PROVE  TextInv'
<1>1. TextsAreSigned' /\ \A k \in Clients : LoggedIn(k)' <=> LoggedIn(k)
  BY SilentKeeps DEF TextInv, Forget
<1>2. PacketsOwn'
  BY <1>1 DEF TextInv, PacketsOwn, IInv, TypeOK, OwnedInMap, Forget, Goto
<1>3. IdsOwn'
  BY DEF TextInv, IdsOwn, Forget
<1>4. LoginHasId'
  BY <1>1 DEF TextInv, LoginHasId, IInv, TypeOK, Forget, Goto
<1>5. BroadcastSigned'
  BY DEF TextInv, BroadcastSigned, Forget, Goto
<1>6. FutureSilent'
  BY DEF TextInv, FutureSilent, Forget
<1>7. QED
  BY <1>1, <1>2, <1>3, <1>4, <1>5, <1>6 DEF TextInv

\* CloseSocket takes a client out of the map.
LEMMA CloseSocketText ==
  ASSUME IInv, TextInv, NEW w \in Workers, CloseSocket(w)
  PROVE  TextInv'
<1>1. TextsAreSigned' /\ \A k \in Clients : LoggedIn(k)' <=> LoggedIn(k)
  BY SilentKeeps DEF TextInv, CloseSocket
<1>2. PacketsOwn'
  BY <1>1
  DEF TextInv, PacketsOwn, IInv, TypeOK, OwnedInMap, CloseSocket, BackToLoop,
      Goto
<1>3. IdsOwn'
  BY DEF TextInv, IdsOwn, CloseSocket
<1>4. LoginHasId'
  BY <1>1 DEF TextInv, LoginHasId, IInv, TypeOK, CloseSocket, BackToLoop, Goto
<1>5. BroadcastSigned'
  BY DEF TextInv, BroadcastSigned, CloseSocket, BackToLoop, Goto
<1>6. FutureSilent'
  BY DEF TextInv, FutureSilent, CloseSocket
<1>7. QED
  BY <1>1, <1>2, <1>3, <1>4, <1>5, <1>6 DEF TextInv

\* A new client has been told nothing.
LEMMA AcceptText ==
  ASSUME IInv, TextInv, Accept
  PROVE  TextInv'
<1>1. TextsAreSigned' /\ \A k \in Clients : LoggedIn(k)' <=> LoggedIn(k)
  BY SilentKeeps DEF TextInv, Accept
<1>a. clientCount \in Clients /\ clientCount \in Nat
  BY BoundsAssumption DEF IInv, TypeOK, Accept, Clients
<1>b. ~LoggedIn(clientCount)
  <2>1. out[clientCount] = <<>>
    BY <1>a DEF TextInv, FutureSilent
  <2>2. QED
    BY <2>1 DEF LoggedIn
<1>2. PacketsOwn'
  BY <1>1 DEF TextInv, PacketsOwn, IInv, TypeOK, OwnedInMap, Accept
<1>3. IdsOwn'
  BY DEF TextInv, IdsOwn, Accept
<1>4. LoginHasId'
  <2>1. clientsSocketMap' = clientsSocketMap \cup {clientCount}
    BY DEF Accept
  <2>2. idMap' = idMap /\ cur' = cur /\ pc' = pc
    BY DEF Accept
  <2>3. clientsSocketMap \subseteq Clients
    BY DEF IInv, TypeOK
  <2>4. QED
    BY <1>1, <1>a, <1>b, <2>1, <2>2, <2>3 DEF TextInv, LoginHasId
<1>5. BroadcastSigned'
  BY DEF TextInv, BroadcastSigned, Accept
<1>6. FutureSilent'
  BY DEF TextInv, FutureSilent, IInv, TypeOK, Accept, Clients
<1>7. QED
  BY <1>1, <1>2, <1>3, <1>4, <1>5, <1>6 DEF TextInv

\* A user asks for an account of its own, and writes text only after a login.
LEMMA ClientSendText ==
  ASSUME IInv, TextInv, NEW n \in Clients, ClientSend(n)
  PROVE  TextInv'
<1>1. TextsAreSigned' /\ \A k \in Clients : LoggedIn(k)' <=> LoggedIn(k)
  BY SilentKeeps DEF TextInv, ClientSend
<1>2. PacketsOwn'
  <2>1. PICK type \in Kinds, id \in LoginIds[n] :
          /\ MaySend(n, type)
          /\ net' = [net EXCEPT ![n] =
               [type |-> type, no |-> Len(sent[n]) + 1,
                id |-> IF type = "LOGIN_INFO" THEN id ELSE Empty]]
    BY DEF ClientSend
  <2>2. /\ net'[n].type = type
        /\ net'[n].type = "LOGIN_INFO" => net'[n].id = id
        /\ \A m \in Clients : m # n => net'[m] = net[m]
    BY <2>1 DEF IInv, TypeOK
  <2>3. type = "TEXT" => LoggedIn(n)
    BY <2>1 DEF MaySend
  <2>4. \A v \in Workers : pc[v] = "dispatch" => cur[v] \in Clients
    BY DEF IInv, TypeOK, OwnedInMap
  <2>5. pc' = pc /\ pkt' = pkt /\ cur' = cur
    BY DEF ClientSend
  <2>6. QED
    BY <1>1, <2>2, <2>3, <2>4, <2>5 DEF TextInv, PacketsOwn
<1>3. IdsOwn'
  BY DEF TextInv, IdsOwn, ClientSend
<1>4. LoginHasId'
  BY <1>1 DEF TextInv, LoginHasId, IInv, TypeOK, ClientSend
<1>5. BroadcastSigned'
  BY DEF TextInv, BroadcastSigned, ClientSend
<1>6. FutureSilent'
  BY DEF TextInv, FutureSilent, ClientSend
<1>7. QED
  BY <1>1, <1>2, <1>3, <1>4, <1>5, <1>6 DEF TextInv

\* A client that closes had connected before.
LEMMA ClientCloseText ==
  ASSUME IInv, TextInv, NEW n \in Clients, ClientClose(n)
  PROVE  TextInv'
<1>1. TextsAreSigned' /\ \A k \in Clients : LoggedIn(k)' <=> LoggedIn(k)
  BY SilentKeeps DEF TextInv, ClientClose
<1>2. PacketsOwn'
  BY <1>1 DEF TextInv, PacketsOwn, IInv, TypeOK, OwnedInMap, ClientClose
<1>3. IdsOwn'
  BY DEF TextInv, IdsOwn, ClientClose
<1>4. LoginHasId'
  BY <1>1 DEF TextInv, LoginHasId, IInv, TypeOK, ClientClose
<1>5. BroadcastSigned'
  BY DEF TextInv, BroadcastSigned, ClientClose
<1>6. FutureSilent'
  BY DEF TextInv, FutureSilent, ClientClose
<1>7. QED
  BY <1>1, <1>2, <1>3, <1>4, <1>5, <1>6 DEF TextInv

\* A reset may take the packet on the way, and adds none.
LEMMA ClientResetText ==
  ASSUME IInv, TextInv, NEW n \in Clients, ClientReset(n)
  PROVE  TextInv'
<1>1. TextsAreSigned' /\ \A k \in Clients : LoggedIn(k)' <=> LoggedIn(k)
  BY SilentKeeps DEF TextInv, ClientReset
<1>2. PacketsOwn'
  <2>1. \A m \in Clients : net'[m] = net[m] \/ net'[m] = NoPacket
    BY DEF IInv, TypeOK, ClientReset
  <2>2. NoPacket.type = "NONE"
    BY DEF NoPacket
  <2>3. pc' = pc /\ pkt' = pkt /\ cur' = cur
    BY DEF ClientReset
  <2>4. \A v \in Workers : pc[v] = "dispatch" => cur[v] \in Clients
    BY DEF IInv, TypeOK, OwnedInMap
  <2>5. QED
    BY <1>1, <2>1, <2>2, <2>3, <2>4 DEF TextInv, PacketsOwn
<1>3. IdsOwn'
  BY DEF TextInv, IdsOwn, ClientReset
<1>4. LoginHasId'
  BY <1>1 DEF TextInv, LoginHasId, IInv, TypeOK, ClientReset
<1>5. BroadcastSigned'
  BY DEF TextInv, BroadcastSigned, ClientReset
<1>6. FutureSilent'
  BY <1>1 DEF TextInv, FutureSilent, IInv, TypeOK, ClientReset
<1>7. QED
  BY <1>1, <1>2, <1>3, <1>4, <1>5, <1>6 DEF TextInv

\* The answer TRUE makes the client LoggedIn and sends its worker to addId,
\* which LoginHasId allows.
LEMMA LoginText ==
  ASSUME IInv, TextInv, NEW w \in Workers, Login(w)
  PROVE  TextInv'
<1>a. cur[w] \in Clients
  BY DEF IInv, TypeOK, OwnedInMap, Login, Goto
<1>b. PICK ok \in BOOLEAN :
        /\ Send(cur[w], Reply("LOGIN_INFO", ok))
        /\ Goto(w, "dispatch", IF ok THEN "addId" ELSE "recv")
  BY DEF Login
<1>c. /\ TextsAreSigned'
      /\ \A k \in Clients : LoggedIn(k) => LoggedIn(k)'
      /\ \A k \in Clients : k # cur[w] => (LoggedIn(k)' <=> LoggedIn(k))
      /\ ~ok => \A k \in Clients : LoggedIn(k)' <=> LoggedIn(k)
  <2>1. Reply("LOGIN_INFO", ok) \in Message /\ Signed(Reply("LOGIN_INFO", ok))
    BY DEF Reply, Message, Requests, Signed
  <2>2. ~ok => Reply("LOGIN_INFO", ok) # Reply("LOGIN_INFO", TRUE)
    BY DEF Reply
  <2>3. QED
    BY <1>a, <1>b, <2>1, <2>2, SendKeeps DEF IInv, TextInv
<1>d. /\ pc[w] = "dispatch"
      /\ pc' = [pc EXCEPT ![w] = IF ok THEN "addId" ELSE "recv"]
      /\ UNCHANGED <<clientCount, clientsSocketMap, idMap, cur, pkt, msg, net,
                     peer>>
  BY <1>b DEF Login, Goto
<1>2. PacketsOwn'
  <2>1. \A v \in Workers : pc[v] = "dispatch" => cur[v] \in Clients
    BY DEF IInv, TypeOK, OwnedInMap
  <2>2. pkt[w].type = "LOGIN_INFO"
    BY DEF Login
  <2>3. QED
    BY <1>c, <1>d, <2>1 DEF TextInv, PacketsOwn
<1>3. IdsOwn'
  BY <1>d DEF TextInv, IdsOwn
<1>4. LoginHasId'
  <2>1. \A v \in Workers : v # w => pc'[v] = pc[v]
    BY <1>d DEF IInv, TypeOK
  <2>2. pc'[w] = IF ok THEN "addId" ELSE "recv"
    BY <1>d DEF IInv, TypeOK
  <2>3. clientsSocketMap \subseteq Clients
    BY DEF IInv, TypeOK
  <2>4. CASE ok
    BY <1>c, <1>d, <2>1, <2>2, <2>3, <2>4 DEF TextInv, LoginHasId
  <2>5. CASE ~ok
    BY <1>c, <1>d, <2>1, <2>2, <2>3, <2>5 DEF TextInv, LoginHasId
  <2>6. QED
    BY <2>4, <2>5
<1>5. BroadcastSigned'
  BY <1>d DEF TextInv, BroadcastSigned
<1>6. FutureSilent'
  BY <1>b, <1>d DEF TextInv, FutureSilent, Send
<1>7. QED
  BY <1>c, <1>2, <1>3, <1>4, <1>5, <1>6 DEF TextInv

\* Before the threads run nothing was sent.
LEMMA InitText == Init => TextInv
BY DEF Init, TextInv, PacketsOwn, IdsOwn, LoginHasId, BroadcastSigned,
       FutureSilent, TextsAreSigned, NoPacket, Clients, LoggedIn

\* Every step keeps TextInv.
LEMMA NextText == IInv /\ TextInv /\ [Next]_vars => TextInv'
<1> SUFFICES ASSUME IInv, TextInv, [Next]_vars PROVE TextInv'
  OBVIOUS
<1>1. ASSUME NEW n \in Clients, Client(n) PROVE TextInv'
  BY <1>1, ClientSendText, ClientCloseText, ClientResetText DEF Client
<1>2. CASE Accepter
  BY <1>2, AcceptText, AsideElsewhere DEF Accepter
<1>3. ASSUME NEW w \in Workers, Worker(w) PROVE TextInv'
  <2>1. CASE Enter(w)
    BY <2>1, AsideText
  <2>2. CASE Broadcast(w)
    BY <2>2, AsideText, SendToTargetText DEF Broadcast
  <2>3. CASE Handle(w)
    BY <2>3, SignUpToDBText, LoginText, SetIdText, FillIdsText,
       BroadcastTextText, AsideText
    DEF Handle
  <2>4. CASE RemoveDisconnectedClient(w)
    BY <2>4, StartRemovalText, AsideText, ForgetText, CloseSocketText
    DEF RemoveDisconnectedClient
  <2>5. ASSUME NEW n \in Clients, Dequeue(w, n) PROVE TextInv'
    BY <2>5, DequeuePacketText, AsideText DEF Dequeue
  <2>6. QED
    BY <1>3, <2>1, <2>2, <2>3, <2>4, <2>5 DEF Worker
<1>4. CASE UNCHANGED vars
  BY <1>4, AsideElsewhere
<1>5. QED
  BY <1>1, <1>2, <1>3, <1>4 DEF Next

\* Every text a client is sent is under an account its sender logged in with.
THEOREM TextsSigned == Spec => []TextsAreSigned
<1>1. TextInv => TextsAreSigned
  BY DEF TextInv
<1>2. QED
  BY <1>1, InitText, NextText, Invariance, PTL DEF Spec

-----------------------------------------------------------------------------
(* Nothing of a client follows its goodbye, although the broadcasts of     *)
(* different workers take no lock and interleave: whatever is broadcast    *)
(* for a client is broadcast by the one worker that owns it.               *)

\* A client whose removal has begun or is over.
Leaving(n) == n \in freed \/ \E w \in Workers : cur[w] = n /\ pkt[w] = Closed

\* A loop sends what its own client causes: its goodbye in a removal, its id or
\* its text otherwise.
OwnMessage(w) ==
  /\ msg[w].type \in {"ID", "TEXT"} => msg[w].src = cur[w] /\ pkt[w] # Closed
  /\ msg[w].type = "DISCONNECTED_ID" => msg[w].src = cur[w] /\ pkt[w] = Closed

LoopsOwn == \A w \in Workers : pc[w] \in {"next", "send"} => OwnMessage(w)

\* A worker that posts the next receive is not in a removal.
RecvStays == \A w \in Workers : pc[w] = "recv" => pkt[w] # Closed

\* Goodbyes are of clients whose removal has begun.
ByesOfLeaving ==
  \A r \in Clients : \A i \in DOMAIN out[r] :
    out[r][i].type = "DISCONNECTED_ID" => Leaving(out[r][i].src)

ByeInv == LoopsOwn /\ RecvStays /\ ByesOfLeaving /\ NothingAfterGoodbye

\* A message that may be sent now.
Timely(m) == /\ m.type \in {"ID", "TEXT"} => ~Leaving(m.src)
             /\ m.type = "DISCONNECTED_ID" => Leaving(m.src)

\* Only goodbyes, ids and texts have a source, which is a client.
LEMMA Sources ==
  ASSUME NEW m \in Message, m.type \in {"ID", "TEXT", "DISCONNECTED_ID"}
  PROVE  m.src \in Clients
BY DEF Message, Requests

\* A client that a worker handles and does not remove is not leaving: it has no
\* other owner and is not deleted.
LEMMA HandledStays ==
  ASSUME IInv, NEW w \in Workers, pc[w] \notin {"enter", "gqcs"},
         pkt[w] # Closed
  PROVE  cur[w] \in Clients /\ ~Leaving(cur[w])
<1>1. cur[w] \in clientsSocketMap /\ cur[w] \in Clients /\ cur[w] # NoOne
  BY NullsAssumption DEF IInv, TypeOK, OwnedInMap
<1>2. cur[w] \notin freed
  BY <1>1 DEF IInv, NumbersFresh
<1>3. \A v \in Workers : cur[v] = cur[w] => v = w
  BY <1>1 DEF IInv, SingleOwner
<1>4. QED
  BY <1>1, <1>2, <1>3 DEF Leaving

\* Sending a timely message keeps the order of goodbyes and other messages.
LEMMA TimelySend ==
  ASSUME TypeOK, NEW n \in Clients, NEW m \in Message, Send(n, m), Timely(m),
         ByesOfLeaving, NothingAfterGoodbye
  PROVE  /\ NothingAfterGoodbye'
         /\ \A r \in Clients : \A i \in DOMAIN out'[r] :
              out'[r][i].type = "DISCONNECTED_ID" => Leaving(out'[r][i].src)
<1>1. CASE out' = out
  BY <1>1 DEF ByesOfLeaving, NothingAfterGoodbye
<1>2. CASE out' = [out EXCEPT ![n] = Append(@, m)]
  <2>1. \A r \in Clients : r # n => out'[r] = out[r]
    BY <1>2 DEF TypeOK
  <2>2. /\ out[n] \in Seq(Message) /\ Len(out[n]) \in Nat
        /\ DOMAIN out[n] = 1 .. Len(out[n])
        /\ DOMAIN out'[n] = 1 .. Len(out[n]) + 1
        /\ \A i \in DOMAIN out[n] : out'[n][i] = out[n][i]
        /\ out'[n][Len(out[n]) + 1] = m
    BY <1>2 DEF TypeOK
  <2>3. \A r \in Clients : \A i \in DOMAIN out'[r] :
          out'[r][i].type = "DISCONNECTED_ID" => Leaving(out'[r][i].src)
    BY <2>1, <2>2 DEF ByesOfLeaving, Timely
  <2>4. NothingAfterGoodbye'
    <3>1. ASSUME NEW i \in DOMAIN out'[n], NEW j \in DOMAIN out'[n], i < j,
                 out'[n][i].type = "DISCONNECTED_ID",
                 out'[n][j].type \in {"ID", "TEXT"}
          PROVE  out'[n][i].src # out'[n][j].src
      <4>1. i \in DOMAIN out[n] /\ out'[n][i] = out[n][i]
        BY <2>2, <3>1
      <4>2. CASE j \in DOMAIN out[n]
        BY <2>2, <3>1, <4>1, <4>2 DEF NothingAfterGoodbye
      <4>3. CASE j = Len(out[n]) + 1
        BY <2>2, <3>1, <4>1, <4>3 DEF ByesOfLeaving, Timely
      <4>4. QED
        BY <2>2, <4>2, <4>3
    <3>2. QED
      BY <2>1, <3>1 DEF NothingAfterGoodbye
  <2>5. QED
    BY <2>3, <2>4
<1>3. QED
  BY <1>1, <1>2 DEF Send

\* A step keeps ByeInv if nobody stops leaving by it, the loops that run after
\* it send what is theirs, and what it sends is timely.
LEMMA ByeKeeps ==
  ASSUME IInv, ByeInv,
         \A n \in Clients : Leaving(n) => Leaving(n)',
         LoopsOwn', RecvStays',
         \/ out' = out
         \/ \E n \in Clients, m \in Message : Send(n, m) /\ Timely(m)
  PROVE  ByeInv'
<1>1. /\ NothingAfterGoodbye'
      /\ \A r \in Clients : \A i \in DOMAIN out'[r] :
           out'[r][i].type = "DISCONNECTED_ID" => Leaving(out'[r][i].src)
  <2>1. CASE out' = out
    BY <2>1 DEF ByeInv, ByesOfLeaving, NothingAfterGoodbye
  <2>2. CASE \E n \in Clients, m \in Message : Send(n, m) /\ Timely(m)
    BY <2>2, TimelySend DEF ByeInv, IInv
  <2>3. QED
    BY <2>1, <2>2
<1>2. out' \in [Clients -> Seq(Message)]
  <2>1. CASE out' = out
    BY <2>1 DEF IInv, TypeOK
  <2>2. CASE \E n \in Clients, m \in Message : Send(n, m) /\ Timely(m)
    BY <2>2, SendType DEF IInv
  <2>3. QED
    BY <2>1, <2>2
<1>3. ByesOfLeaving'
  <2> SUFFICES ASSUME NEW r \in Clients, NEW i \in DOMAIN out'[r],
                      out'[r][i].type = "DISCONNECTED_ID"
               PROVE  Leaving(out[r][i].src)'
    BY DEF ByesOfLeaving
  <2>1. out'[r][i] \in Message
    <3>1. out'[r] \in Seq(Message)
      BY <1>2
    <3>2. QED
      BY <3>1
  <2>2. out'[r][i].src \in Clients
    BY <2>1, Sources
  <2>3. QED
    BY <1>1, <2>2 DEF Leaving
<1>4. QED
  BY <1>1, <1>3 DEF ByeInv

\* Nobody stops leaving while the workers that remove keep their client.
LEMMA LeavingStays ==
  ASSUME freed' = freed,
         \A v \in Workers : \/ cur'[v] = cur[v] /\ pkt'[v] = pkt[v]
                            \/ cur[v] \notin Clients
                            \/ pkt[v] # Closed
  PROVE  \A n \in Clients : Leaving(n) => Leaving(n)'
BY DEF Leaving

\* The steps that take no packet, send nothing and start no loop, a step of
\* somebody else included.
LEMMA QuietBye ==
  ASSUME IInv, ByeInv, UNCHANGED <<freed, cur, pkt, msg, out>>,
         \A v \in Workers : \/ pc'[v] \notin {"next", "send", "recv"}
                            \/ pc'[v] = pc[v]
                            \/ pc[v] = "next" /\ pc'[v] = "send"
                            \/ pc[v] = "check" /\ pc'[v] = "recv"
  PROVE  ByeInv'
<1>1. \A n \in Clients : Leaving(n) => Leaving(n)'
  BY LeavingStays
<1>2. LoopsOwn'
  BY DEF ByeInv, LoopsOwn, OwnMessage
<1>3. RecvStays'
  BY PacketFields DEF IInv, HandlerState, ByeInv, RecvStays
<1>4. QED
  BY <1>1, <1>2, <1>3, ByeKeeps

\* The workers' quiet steps.
LEMMA QuietWorkerBye ==
  ASSUME IInv, ByeInv, NEW w \in Workers,
         \/ Enter(w) \/ PickTarget(w) \/ LoginToDialog(w) \/ PrepareRoster(w)
         \/ RemoveFromDialog(w) \/ Forget(w)
  PROVE  ByeInv'
<1>1. UNCHANGED <<freed, cur, pkt, msg, out>>
  BY DEF Enter, PickTarget, LoginToDialog, PrepareRoster, CheckAlone,
         SizePacket, CountIds, ReadIdMap, RemoveFromDialog, Forget
<1>2. \A v \in Workers : \/ pc'[v] \notin {"next", "send", "recv"}
                         \/ pc'[v] = pc[v]
                         \/ pc[v] = "next" /\ pc'[v] = "send"
                         \/ pc[v] = "check" /\ pc'[v] = "recv"
  BY DEF IInv, TypeOK, Enter, PickTarget, LoginToDialog, PrepareRoster,
         CheckAlone, SizePacket, CountIds, ReadIdMap,
         RemoveFromDialog, Forget, Goto
<1>3. QED
  BY <1>1, <1>2, QuietBye

\* The accepter, the clients, and a step in which nothing happens: no worker
\* moves.
LEMMA QuietElsewhereBye ==
  ASSUME IInv, ByeInv,
         Accepter \/ (\E n \in Clients : Client(n)) \/ UNCHANGED vars
  PROVE  ByeInv'
<1>1. UNCHANGED <<freed, cur, pkt, msg, out, pc>>
  BY DEF Accepter, Accept, AcceptFails, PostFirstRecv, FirstRecvFails, Client,
         ClientSend, ClientClose, ClientReset, vars
<1>2. QED
  BY <1>1, QuietBye

\* Taking a completion: the worker held no client before.
LEMMA DequeueBye ==
  ASSUME IInv, ByeInv, NEW w \in Workers, NEW n \in Clients, Dequeue(w, n)
  PROVE  ByeInv'
<1>1. /\ pc[w] = "gqcs" /\ freed' = freed /\ out' = out /\ msg' = msg
      /\ \E to \in {"dispatch", "remove"} : pc' = [pc EXCEPT ![w] = to]
      /\ cur' = [cur EXCEPT ![w] = n] /\ \E p : pkt' = [pkt EXCEPT ![w] = p]
  BY DEF Dequeue, DequeuePacket, DequeueClosed, TakeCompletion, Goto
<1>2. \A v \in Workers : v # w => /\ cur'[v] = cur[v] /\ pkt'[v] = pkt[v]
                                  /\ pc'[v] = pc[v]
  BY <1>1 DEF IInv, TypeOK
<1>3. pc'[w] \in {"dispatch", "remove"}
  BY <1>1 DEF IInv, TypeOK
<1>4. cur[w] \notin Clients
  BY <1>1, NullsAssumption DEF IInv, OwnedInMap
<1>5. \A k \in Clients : Leaving(k) => Leaving(k)'
  BY <1>1, <1>2, <1>4, LeavingStays
<1>6. LoopsOwn' /\ RecvStays'
  BY <1>1, <1>2, <1>3 DEF ByeInv, LoopsOwn, OwnMessage, RecvStays
<1>7. QED
  BY <1>1, <1>5, <1>6, ByeKeeps

\* The end of a loop: only a removal's loop goes on to the removal.
LEMMA BroadcastDoneBye ==
  ASSUME IInv, ByeInv, NEW w \in Workers, BroadcastDone(w)
  PROVE  ByeInv'
<1>1. /\ UNCHANGED <<freed, cur, pkt, out>>
      /\ msg' = [msg EXCEPT ![w] = NoMsg]
      /\ pc' = [pc EXCEPT ![w] = AfterBroadcast(pkt[w].type)]
  BY DEF BroadcastDone, Goto
<1>2. /\ AfterBroadcast(pkt[w].type) \in {"check", "recv", "bye"}
      /\ AfterBroadcast(pkt[w].type) = "recv" => pkt[w] # Closed
  BY PacketFields DEF IInv, HandlerState, BroadcastDone, AfterBroadcast, Goto
<1>3. \A v \in Workers : v # w => pc'[v] = pc[v] /\ msg'[v] = msg[v]
  BY <1>1 DEF IInv, TypeOK
<1>4. pc'[w] = AfterBroadcast(pkt[w].type)
  BY <1>1 DEF IInv, TypeOK
<1>5. \A n \in Clients : Leaving(n) => Leaving(n)'
  BY <1>1, LeavingStays
<1>6. LoopsOwn' /\ RecvStays'
  BY <1>1, <1>2, <1>3, <1>4 DEF ByeInv, LoopsOwn, OwnMessage, RecvStays
<1>7. QED
  BY <1>1, <1>5, <1>6, ByeKeeps

\* Posting the next receive: the client the worker lets go was not leaving.
LEMMA RecvBye ==
  ASSUME IInv, ByeInv, NEW w \in Workers, Recv(w)
  PROVE  ByeInv'
<1>1. /\ UNCHANGED <<freed, msg, out>> /\ pc[w] = "recv"
      /\ pc' = [pc EXCEPT ![w] = "enter"]
      /\ cur' = [cur EXCEPT ![w] = NoOne]
      /\ pkt' = [pkt EXCEPT ![w] = NoPacket]
  BY DEF Recv, BackToLoop, Goto
<1>2. \A v \in Workers : v # w => /\ cur'[v] = cur[v] /\ pkt'[v] = pkt[v]
                                  /\ pc'[v] = pc[v]
  BY <1>1 DEF IInv, TypeOK
<1>3. pc'[w] = "enter"
  BY <1>1 DEF IInv, TypeOK
<1>4. pkt[w] # Closed
  BY <1>1 DEF ByeInv, RecvStays
<1>5. \A n \in Clients : Leaving(n) => Leaving(n)'
  BY <1>1, <1>2, <1>4, LeavingStays
<1>6. LoopsOwn' /\ RecvStays'
  BY <1>1, <1>2, <1>3 DEF ByeInv, LoopsOwn, OwnMessage, RecvStays
<1>7. QED
  BY <1>1, <1>5, <1>6, ByeKeeps

\* The answers of SignUpToDB and Login are timely at any time.
LEMMA AnswerBye ==
  ASSUME IInv, ByeInv, NEW w \in Workers, SignUpToDB(w) \/ Login(w)
  PROVE  ByeInv'
<1>1. UNCHANGED <<freed, cur, pkt, msg>> /\ pc[w] = "dispatch"
  BY DEF SignUpToDB, Login, Goto
<1>2. PICK to \in {"addId", "recv"} : pc' = [pc EXCEPT ![w] = to]
  BY DEF SignUpToDB, Login, Goto
<1>3. PICK type \in Requests, ok \in BOOLEAN : Send(cur[w], Reply(type, ok))
  BY DEF SignUpToDB, Login, Requests
<1>4. Reply(type, ok) \in Message /\ Timely(Reply(type, ok))
  BY DEF Reply, Message, Requests, Timely
<1>5. cur[w] \in Clients /\ pkt[w] # Closed
  BY <1>1, PacketFields DEF IInv, TypeOK, OwnedInMap, HandlerState
<1>6. \A n \in Clients : Leaving(n) => Leaving(n)'
  BY <1>1, LeavingStays
<1>7. LoopsOwn' /\ RecvStays'
  BY <1>1, <1>2, <1>5
  DEF IInv, TypeOK, ByeInv, LoopsOwn, OwnMessage, RecvStays
<1>8. QED
  BY <1>3, <1>4, <1>5, <1>6, <1>7, ByeKeeps

\* The roster is sent in the name of the client it goes to, which is handled.
LEMMA FillIdsBye ==
  ASSUME IInv, ByeInv, NEW w \in Workers, FillIds(w)
  PROVE  ByeInv'
<1>1. /\ UNCHANGED <<freed, cur, pkt, msg>> /\ pc[w] = "fill"
      /\ pc' = [pc EXCEPT ![w] = "recv"]
  BY DEF FillIds, Goto
<1>2. pkt[w] # Closed
  BY <1>1, PacketFields DEF IInv, HandlerState
<1>3. cur[w] \in Clients /\ ~Leaving(cur[w])
  BY <1>1, <1>2, HandledStays
<1>4. PICK m \in Message : m.type = "ID" /\ m.src = cur[w] /\ Send(cur[w], m)
  BY RosterSent
<1>5. Timely(m)
  BY <1>3, <1>4 DEF Timely
<1>6. \A n \in Clients : Leaving(n) => Leaving(n)'
  BY <1>1, LeavingStays
<1>7. LoopsOwn' /\ RecvStays'
  BY <1>1, <1>2 DEF IInv, TypeOK, ByeInv, LoopsOwn, OwnMessage, RecvStays
<1>8. QED
  BY <1>3, <1>4, <1>5, <1>6, <1>7, ByeKeeps

\* A loop sends its client's goodbye only while the client is leaving, and its
\* id and texts only while it is not.
LEMMA SendToTargetBye ==
  ASSUME IInv, ByeInv, NEW w \in Workers, SendToTarget(w)
  PROVE  ByeInv'
<1>1. /\ UNCHANGED <<freed, cur, pkt, msg>> /\ pc[w] = "send"
      /\ pc' = [pc EXCEPT ![w] = "next"] /\ Send(tgt[w], msg[w])
  BY DEF SendToTarget, Goto
<1>2. tgt[w] \in Clients /\ msg[w] \in Message /\ OwnMessage(w)
  BY <1>1 DEF IInv, HandlerState, ByeInv, LoopsOwn
<1>3. Timely(msg[w])
  <2>1. CASE pkt[w] = Closed
    BY <1>2, <2>1 DEF OwnMessage, Timely, Leaving
  <2>2. CASE pkt[w] # Closed
    BY <1>1, <1>2, <2>2, HandledStays DEF OwnMessage, Timely
  <2>3. QED
    BY <2>1, <2>2
<1>4. \A n \in Clients : Leaving(n) => Leaving(n)'
  BY <1>1, LeavingStays
<1>5. LoopsOwn' /\ RecvStays'
  BY <1>1 DEF IInv, TypeOK, ByeInv, LoopsOwn, OwnMessage, RecvStays
<1>6. QED
  BY <1>1, <1>2, <1>3, <1>4, <1>5, ByeKeeps

\* The loops begin with a message of their own client.
LEMMA StartBye ==
  ASSUME IInv, ByeInv, NEW w \in Workers,
         SetId(w) \/ BroadcastText(w) \/ StartRemoval(w)
  PROVE  ByeInv'
<1>1. UNCHANGED <<freed, cur, pkt, out>>
  BY DEF SetId, BroadcastText, StartRemoval
<1>2. \A v \in Workers : v # w => pc'[v] = pc[v] /\ msg'[v] = msg[v]
  BY DEF IInv, TypeOK, SetId, BroadcastText, StartRemoval, StartBroadcast, Goto
<1>3. \/ pc'[w] = "close"
      \/ pc'[w] = "next" /\ OwnMessage(w)'
  <2>1. CASE SetId(w)
    <3>1. pkt[w] # Closed
      BY <2>1, PacketFields DEF IInv, HandlerState, SetId, Goto
    <3>2. /\ pc'[w] = "next"
          /\ msg'[w] = IdMsg(cur[w], [n \in {cur[w]} |-> pkt[w].id], 0, 0)
      BY <2>1 DEF IInv, TypeOK, SetId, StartBroadcast, Goto
    <3>3. msg'[w].type = "ID" /\ msg'[w].src = cur[w]
      BY <3>2 DEF IdMsg
    <3>4. QED
      BY <1>1, <3>1, <3>2, <3>3 DEF OwnMessage
  <2>2. CASE BroadcastText(w)
    <3>1. pkt[w] # Closed
      BY <2>2, PacketFields DEF IInv, HandlerState, BroadcastText, Goto
    <3>2. /\ pc'[w] = "next"
          /\ \E id : msg'[w] = TextMsg(cur[w], id, pkt[w].no)
      BY <2>2 DEF IInv, TypeOK, BroadcastText, StartBroadcast, Goto
    <3>3. msg'[w].type = "TEXT" /\ msg'[w].src = cur[w]
      BY <3>2 DEF TextMsg
    <3>4. QED
      BY <1>1, <3>1, <3>2, <3>3 DEF OwnMessage
  <2>3. CASE StartRemoval(w) /\ idMap[cur[w]] # NoEntry
    <3>1. pkt[w] = Closed
      BY <2>3 DEF IInv, HandlerState, StartRemoval
    <3>2. pc'[w] = "next" /\ msg'[w] = ByeMsg(cur[w], idMap[cur[w]])
      BY <2>3 DEF IInv, TypeOK, StartRemoval, StartBroadcast, Goto
    <3>3. msg'[w].type = "DISCONNECTED_ID" /\ msg'[w].src = cur[w]
      BY <3>2 DEF ByeMsg
    <3>4. QED
      BY <1>1, <3>1, <3>2, <3>3 DEF OwnMessage
  <2>4. CASE StartRemoval(w) /\ idMap[cur[w]] = NoEntry
    <3>1. pc' = [pc EXCEPT ![w] = "close"]
      BY <2>4 DEF StartRemoval, Goto
    <3>2. QED
      BY <3>1 DEF IInv, TypeOK
  <2>5. QED
    BY <2>1, <2>2, <2>3, <2>4
<1>4. \A n \in Clients : Leaving(n) => Leaving(n)'
  BY <1>1, LeavingStays
<1>5. LoopsOwn'
  <2>1. ASSUME NEW v \in Workers, v # w, pc'[v] \in {"next", "send"}
        PROVE  OwnMessage(v)'
    BY <1>1, <1>2, <2>1 DEF ByeInv, LoopsOwn, OwnMessage
  <2>2. QED
    BY <1>3, <2>1 DEF LoopsOwn
<1>6. RecvStays'
  BY <1>1, <1>2, <1>3 DEF ByeInv, RecvStays
<1>7. QED
  BY <1>1, <1>4, <1>5, <1>6, ByeKeeps

\* At the end of a removal the client is deleted, and so goes on to be leaving.
LEMMA CloseSocketBye ==
  ASSUME IInv, ByeInv, NEW w \in Workers, CloseSocket(w)
  PROVE  ByeInv'
<1>1. /\ freed' = freed \cup {cur[w]} /\ out' = out /\ msg' = msg
      /\ pc[w] = "close" /\ pc' = [pc EXCEPT ![w] = "enter"]
      /\ cur' = [cur EXCEPT ![w] = NoOne]
      /\ pkt' = [pkt EXCEPT ![w] = NoPacket]
  BY DEF CloseSocket, BackToLoop, Goto
<1>2. \A v \in Workers : v # w => /\ cur'[v] = cur[v] /\ pkt'[v] = pkt[v]
                                  /\ pc'[v] = pc[v]
  BY <1>1 DEF IInv, TypeOK
<1>3. \A n \in Clients : Leaving(n) => Leaving(n)'
  BY <1>1, <1>2 DEF Leaving
<1>4. LoopsOwn' /\ RecvStays'
  BY <1>1, <1>2 DEF IInv, TypeOK, ByeInv, LoopsOwn, OwnMessage, RecvStays
<1>5. QED
  BY <1>1, <1>3, <1>4, ByeKeeps

\* Before the threads run nothing was sent.
LEMMA InitBye == Init => ByeInv
BY DEF Init, ByeInv, LoopsOwn, RecvStays, ByesOfLeaving, NothingAfterGoodbye

\* Every step keeps ByeInv.
LEMMA NextBye == IInv /\ ByeInv /\ [Next]_vars => ByeInv'
<1> SUFFICES ASSUME IInv, ByeInv, [Next]_vars PROVE ByeInv'
  OBVIOUS
<1>1. ASSUME NEW w \in Workers, Worker(w) PROVE ByeInv'
  <2>1. CASE Enter(w) \/ \E n \in Clients : Dequeue(w, n)
    BY <2>1, QuietWorkerBye, DequeueBye
  <2>2. CASE Broadcast(w)
    BY <2>2, QuietWorkerBye, SendToTargetBye, BroadcastDoneBye DEF Broadcast
  <2>3. CASE Handle(w)
    BY <2>3, AnswerBye, QuietWorkerBye, StartBye, FillIdsBye, RecvBye
    DEF Handle
  <2>4. CASE RemoveDisconnectedClient(w)
    BY <2>4, StartBye, QuietWorkerBye, CloseSocketBye
    DEF RemoveDisconnectedClient
  <2>5. QED
    BY <1>1, <2>1, <2>2, <2>3, <2>4 DEF Worker
<1>2. CASE Accepter \/ (\E n \in Clients : Client(n)) \/ UNCHANGED vars
  BY <1>2, QuietElsewhereBye
<1>3. QED
  BY <1>1, <1>2 DEF Next

\* Once a client was told that another has gone, it is sent nothing of that
\* other, no id and no text, by any worker.
THEOREM GoodbyeIsLast == Spec => []NothingAfterGoodbye
<1>1. ByeInv => NothingAfterGoodbye
  BY DEF ByeInv
<1>2. QED
  BY <1>1, InitBye, NextBye, Invariance, PTL DEF Spec

-----------------------------------------------------------------------------
(* Broadcasts reach those they are meant for, in order: who was told of a  *)
(* login is told of the end under the same id, and the texts of a client   *)
(* reach another one without a gap.  The loops take no lock; an entry they *)
(* have still ahead stays so until it is sent to or its client goes.       *)

\* Users have one account each; the goodbye names only the id of the last login.
OneAccount == \A n \in Clients : \A id, other \in LoginIds[n] : id = other

Looping(w) == pc[w] \in {"next", "send"}

\* The loop of w will still send to r.
Ahead(w, r) == Looping(w) /\ (r \in todo[w] \/ (pc[w] = "send" /\ tgt[w] = r))

\* Who is there is in the map, and not being removed.
OpenStay ==
  \A n \in Clients : peer[n] = "open" =>
    /\ n \in clientsSocketMap
    /\ \A w \in Workers : cur[w] = n => pkt[w] # Closed

UnderAccount(m) ==
  /\ m.type = "ID" => m.ids[m.src] \in LoginIds[m.src]
  /\ m.type = "DISCONNECTED_ID" => m.id \in LoginIds[m.src]

\* A loop sends under an account of its client, and a removal's the goodbye.
LoopsKnown ==
  \A w \in Workers : Looping(w) =>
    /\ UnderAccount(msg[w])
    /\ idMap[cur[w]] # NoEntry
    /\ pkt[w] = Closed => msg[w].type = "DISCONNECTED_ID"

\* r was told of a login of n; it was told of the end.
Told(r, n) == \E i \in DOMAIN out[r] : out[r][i].type = "ID" /\ out[r][i].src = n
Said(r, n) == \E i \in DOMAIN out[r] : /\ out[r][i].type = "DISCONNECTED_ID"
                                       /\ out[r][i].src = n
                                       /\ out[r][i].id \in LoginIds[n]

\* The removal of n has not begun its loop, or the loop has r still ahead.
Due(r, n) ==
  /\ n \notin freed /\ idMap[n] # NoEntry
  /\ \A w \in Workers :
       cur[w] = n /\ pkt[w] = Closed /\ pc[w] # "remove" => Ahead(w, r)

ToldKnown ==
  \A r, n \in Clients : \A i \in DOMAIN out[r] :
    r # n /\ out[r][i].type = "ID" /\ out[r][i].src = n
      => out[r][i].ids[n] \in LoginIds[n]

DueOrSaid ==
  \A r, n \in Clients :
    r # n /\ peer[r] = "open" /\ Told(r, n) => Due(r, n) \/ Said(r, n)

FareInv == OpenStay /\ LoopsKnown /\ ToldKnown /\ DueOrSaid

-----------------------------------------------------------------------------
(* Who was told of a login is told of the end.                             *)

\* What a step may send as far as FareInv goes: an id only of a client whose
\* goodbye is due afterwards.
Announces(r, m) ==
  m.type = "ID" /\ m.src # r
    => m.ids[m.src] \in LoginIds[m.src] /\ Due(r, m.src)'

\* Messages are only added.
LEMMA OutGrows ==
  ASSUME TypeOK,
         out' = out \/ \E r \in Clients, m \in Message : Send(r, m)
  PROVE  \A r \in Clients : \A i \in DOMAIN out[r] :
           i \in DOMAIN out'[r] /\ out'[r][i] = out[r][i]
<1>1. CASE out' = out
  BY <1>1
<1>2. ASSUME NEW r \in Clients, NEW m \in Message,
             out' = [out EXCEPT ![r] = Append(@, m)],
             NEW k \in Clients, NEW i \in DOMAIN out[k]
      PROVE  i \in DOMAIN out'[k] /\ out'[k][i] = out[k][i]
  <2>1. out[k] \in Seq(Message) /\ (k # r => out'[k] = out[k])
    BY <1>2 DEF TypeOK
  <2>2. k = r => out'[k] = Append(out[k], m)
    BY <1>2 DEF TypeOK
  <2>3. QED
    BY <1>2, <2>1, <2>2
<1>3. QED
  BY <1>1, <1>2 DEF Send

\* A step keeps FareInv if what it leaves is due or said, and nobody is told of
\* a login whose goodbye is not due.
LEMMA FareKeeps ==
  ASSUME IInv, FareInv, OpenStay', LoopsKnown',
         \A r \in Clients : peer'[r] = "open" => peer[r] = "open" \/ out'[r] = <<>>,
         \A r, n \in Clients :
           r # n /\ peer[r] = "open" /\ peer'[r] = "open" /\ Due(r, n)
             => Due(r, n)' \/ Said(r, n)',
         \/ out' = out
         \/ \E r \in Clients, m \in Message : Send(r, m) /\ Announces(r, m)
  PROVE  FareInv'
<1>1. \A r \in Clients : \A i \in DOMAIN out[r] :
        i \in DOMAIN out'[r] /\ out'[r][i] = out[r][i]
  BY OutGrows DEF IInv
<1>2. \A r, n \in Clients : Said(r, n) => Said(r, n)'
  BY <1>1 DEF Said
<1>3. ASSUME NEW r \in Clients, NEW n \in Clients, NEW i \in DOMAIN out'[r],
             r # n, out'[r][i].type = "ID", out'[r][i].src = n
      PROVE  \/ i \in DOMAIN out[r] /\ out'[r][i] = out[r][i]
             \/ out'[r][i].ids[n] \in LoginIds[n] /\ Due(r, n)'
  <2>1. CASE out' = out
    BY <2>1
  <2>2. ASSUME NEW k \in Clients, NEW m \in Message, Announces(k, m),
               out' = [out EXCEPT ![k] = Append(@, m)]
        PROVE  \/ i \in DOMAIN out[r] /\ out'[r][i] = out[r][i]
               \/ out'[r][i].ids[n] \in LoginIds[n] /\ Due(r, n)'
    <3>1. CASE r # k
      BY <2>2, <3>1 DEF IInv, TypeOK
    <3>2. CASE r = k /\ i \in DOMAIN out[r]
      BY <1>1, <3>2
    <3>3. CASE r = k /\ i \notin DOMAIN out[r]
      <4>1. out[r] \in Seq(Message) /\ out'[r] = Append(out[r], m)
        BY <2>2, <3>3 DEF IInv, TypeOK
      <4>2. out'[r][i] = m
        BY <3>3, <4>1
      <4>3. QED
        BY <1>3, <2>2, <3>3, <4>2 DEF Announces
    <3>4. QED
      BY <3>1, <3>2, <3>3
  <2>3. QED
    BY <2>1, <2>2 DEF Send
<1>4. ToldKnown'
  BY <1>3 DEF FareInv, ToldKnown
<1>5. DueOrSaid'
  <2> SUFFICES ASSUME NEW r \in Clients, NEW n \in Clients, r # n,
                      peer'[r] = "open", Told(r, n)'
               PROVE  Due(r, n)' \/ Said(r, n)'
    BY DEF DueOrSaid
  <2>1. peer[r] = "open"
    BY DEF Told
  <2>2. PICK i \in DOMAIN out'[r] : out'[r][i].type = "ID" /\ out'[r][i].src = n
    BY DEF Told
  <2>3. CASE i \in DOMAIN out[r] /\ out'[r][i] = out[r][i]
    <3>1. Told(r, n)
      BY <2>2, <2>3 DEF Told
    <3>2. QED
      BY <1>2, <2>1, <3>1 DEF FareInv, DueOrSaid
  <2>4. QED
    BY <1>3, <2>2, <2>3
<1>6. QED
  BY <1>4, <1>5 DEF FareInv

\* Worker v does not move, or keeps what it does in a loop, and comes to a
\* removal only for a client that has gone, or goes on with one.
Still(v) == /\ cur'[v] = cur[v] /\ pkt'[v] = pkt[v] /\ msg'[v] = msg[v]
            /\ todo'[v] = todo[v] /\ tgt'[v] = tgt[v] /\ pc'[v] = pc[v]

LoopGoesOn(v) == /\ cur'[v] = cur[v] /\ pkt'[v] = pkt[v] /\ msg'[v] = msg[v]
                 /\ Looping(v)

RemovalGoesOn(v) == /\ cur'[v] = cur[v] /\ pkt[v] = Closed
                    /\ pc[v] # "remove" /\ pc'[v] # "remove"
                    /\ \A r \in Clients : Ahead(v, r) => Ahead(v, r)'

Calm(v) == \/ Still(v)
           \/ /\ Looping(v)' => LoopGoesOn(v)
              /\ cur'[v] \in Clients /\ pkt'[v] = Closed =>
                   \/ pc'[v] = "remove" /\ peer[cur'[v]] # "open"
                   \/ RemovalGoesOn(v)

\* A step in which every worker is calm, nobody is added or deleted, and nobody
\* is sent an id of another, keeps FareInv.
LEMMA CalmKeeps ==
  ASSUME IInv, FareInv, UNCHANGED <<idMap, clientsSocketMap, freed>>,
         \A n \in Clients : peer'[n] = "open" => peer[n] = "open",
         \A v \in Workers : Calm(v),
         \/ out' = out
         \/ \E r \in Clients, m \in Message :
              Send(r, m) /\ (m.type = "ID" => m.src = r)
  PROVE  FareInv'
<1>1. OpenStay'
  BY DEF FareInv, OpenStay, Calm, Still, RemovalGoesOn
<1>2. LoopsKnown'
  BY DEF FareInv, LoopsKnown, Calm, Still, LoopGoesOn, Looping, UnderAccount
<1>3. ASSUME NEW r \in Clients, NEW n \in Clients, Due(r, n)
      PROVE  Due(r, n)'
  <2> SUFFICES ASSUME NEW v \in Workers, cur'[v] = n, pkt'[v] = Closed,
                      pc'[v] # "remove"
               PROVE  Ahead(v, r)'
    BY <1>3 DEF Due
  <2>1. CASE Still(v)
    BY <1>3, <2>1 DEF Still, Due, Ahead, Looping
  <2>2. CASE RemovalGoesOn(v)
    BY <1>3, <2>2 DEF RemovalGoesOn, Due
  <2>3. QED
    BY <2>1, <2>2 DEF Calm
<1>4. \/ out' = out
      \/ \E r \in Clients, m \in Message : Send(r, m) /\ Announces(r, m)
  BY DEF Announces
<1>5. QED
  BY <1>1, <1>2, <1>3, <1>4, FareKeeps

\* The accepter's steps but Accept, the clients', and a step in which nothing
\* happens: no worker moves.
LEMMA CalmElsewhere ==
  ASSUME IInv, FareInv,
         \/ AcceptFails \/ PostFirstRecv \/ FirstRecvFails
         \/ (\E n \in Clients : Client(n)) \/ UNCHANGED vars
  PROVE  FareInv'
<1>1. UNCHANGED <<idMap, clientsSocketMap, freed, out, pc, cur, pkt, msg, todo,
                  tgt>>
  BY DEF AcceptFails, PostFirstRecv, FirstRecvFails, Client, ClientSend,
         ClientClose, ClientReset, vars
<1>2. \A n \in Clients : peer'[n] = "open" => peer[n] = "open"
  BY DEF IInv, TypeOK, AcceptFails, PostFirstRecv, FirstRecvFails, Client,
         ClientSend, ClientClose, ClientReset, vars
<1>3. \A v \in Workers : Calm(v)
  BY <1>1 DEF Calm, Still
<1>4. QED
  BY <1>1, <1>2, <1>3, CalmKeeps

\* The workers' steps that send nothing and neither start a loop nor let go of
\* anything in a map.
LEMMA CalmWorker ==
  ASSUME IInv, ByeInv, FareInv, NEW w \in Workers,
         \/ \E n \in Clients : Dequeue(w, n)
         \/ Enter(w) \/ PickTarget(w) \/ BroadcastDone(w) \/ LoginToDialog(w)
         \/ PrepareRoster(w) \/ Recv(w) \/ RemoveFromDialog(w)
  PROVE  FareInv'
<1>1. UNCHANGED <<idMap, clientsSocketMap, freed, out, peer>>
  BY DEF Enter, Dequeue, DequeuePacket, DequeueClosed, TakeCompletion,
         PickTarget, BroadcastDone, LoginToDialog, PrepareRoster, CheckAlone,
         SizePacket, CountIds, ReadIdMap, Recv,
         RemoveFromDialog
<1>2. \A v \in Workers : v # w => Still(v)
  BY DEF IInv, TypeOK, Still, Enter, Dequeue, DequeuePacket, DequeueClosed,
         TakeCompletion, PickTarget, BroadcastDone, LoginToDialog,
         PrepareRoster, CheckAlone, SizePacket, CountIds, ReadIdMap,
         Recv, BackToLoop, RemoveFromDialog, Goto
<1>3. Calm(w)
  <2>1. CASE Enter(w)
    BY <2>1, NullsAssumption
    DEF IInv, TypeOK, OwnedInMap, Calm, Looping, Enter, Goto
  <2>2. CASE \E n \in Clients : Dequeue(w, n)
    <3>1. PICK n \in Clients : Dequeue(w, n)
      BY <2>2
    <3>2. CASE DequeuePacket(w, n)
      <4>1. pc'[w] = "dispatch" /\ pkt'[w] = net[n] /\ net[n] \in Packet
        BY <3>2 DEF IInv, TypeOK, DequeuePacket, TakeCompletion, Goto
      <4>2. pkt'[w] # Closed
        BY <4>1, PacketFields
      <4>3. QED
        BY <4>1, <4>2 DEF Calm, Looping
    <3>3. CASE DequeueClosed(w, n)
      BY <3>3
      DEF IInv, TypeOK, Calm, Looping, DequeueClosed, TakeCompletion, Goto
    <3>4. QED
      BY <3>1, <3>2, <3>3 DEF Dequeue
  <2>3. CASE PickTarget(w)
    BY <2>3
    DEF IInv, TypeOK, Calm, LoopGoesOn, RemovalGoesOn, Ahead, Looping,
        PickTarget, Goto
  <2>4. CASE BroadcastDone(w)
    <3>1. pc'[w] \in {"check", "recv", "bye"} /\ cur' = cur /\ pkt' = pkt
      BY <2>4, PacketFields
      DEF IInv, TypeOK, HandlerState, BroadcastDone, AfterBroadcast, Goto
    <3>2. \A r \in Clients : ~Ahead(w, r)
      BY <2>4 DEF BroadcastDone, Ahead, Goto
    <3>3. pc[w] = "next"
      BY <2>4 DEF BroadcastDone, Goto
    <3>4. QED
      BY <3>1, <3>2, <3>3 DEF Calm, Looping, RemovalGoesOn
  <2>5. CASE LoginToDialog(w) \/ PrepareRoster(w)
    <3>1. /\ pkt[w] # Closed /\ pkt' = pkt
          /\ pc'[w] \in {"setId", "recv", "size", "count", "fill"}
      BY <2>5, PacketFields
      DEF IInv, TypeOK, HandlerState, LoginToDialog, PrepareRoster,
          CheckAlone, SizePacket, CountIds, ReadIdMap, Goto
    <3>2. QED
      BY <3>1 DEF Calm, Looping
  <2>6. CASE Recv(w)
    BY <2>6, NullsAssumption DEF IInv, TypeOK, Calm, Looping, Recv, BackToLoop, Goto
  <2>7. CASE RemoveFromDialog(w)
    BY <2>7
    DEF IInv, TypeOK, Calm, Looping, RemovalGoesOn, Ahead, RemoveFromDialog,
        Goto
  <2>8. QED
    BY <2>1, <2>2, <2>3, <2>4, <2>5, <2>6, <2>7
<1>4. QED
  BY <1>1, <1>2, <1>3, CalmKeeps DEF Calm

\* Answers, and rosters, which go to the client they are of.
LEMMA CalmAnswer ==
  ASSUME IInv, FareInv, NEW w \in Workers,
         SignUpToDB(w) \/ Login(w) \/ FillIds(w)
  PROVE  FareInv'
<1>1. UNCHANGED <<idMap, clientsSocketMap, freed, peer, cur, pkt, msg, todo, tgt>>
  BY DEF SignUpToDB, Login, FillIds
<1>2. \A v \in Workers : v # w => Still(v)
  BY DEF IInv, TypeOK, Still, SignUpToDB, Login, FillIds, Goto
<1>3. /\ pkt[w] # Closed /\ cur[w] \in Clients
      /\ pc'[w] \in {"addId", "recv"}
  BY PacketFields
  DEF IInv, TypeOK, OwnedInMap, HandlerState, SignUpToDB, Login, FillIds, Goto
<1>4. Calm(w)
  BY <1>1, <1>3 DEF Calm, Looping
<1>5. \E m \in Message : Send(cur[w], m) /\ (m.type = "ID" => m.src = cur[w])
  <2>1. CASE SignUpToDB(w) \/ Login(w)
    <3>1. PICK type \in Requests, ok \in BOOLEAN : Send(cur[w], Reply(type, ok))
      BY <2>1 DEF SignUpToDB, Login, Requests
    <3>2. /\ Reply(type, ok) \in Message
          /\ Reply(type, ok).type # "ID"
      BY DEF Reply, Message, Requests
    <3>3. QED
      BY <3>1, <3>2
  <2>2. CASE FillIds(w)
    BY <2>2, RosterSent
  <2>3. QED
    BY <2>1, <2>2
<1>6. QED
  BY <1>1, <1>2, <1>3, <1>4, <1>5, CalmKeeps DEF Calm

\* A worker has its client to itself.
LEMMA OnlyOwner ==
  ASSUME IInv, NEW w \in Workers, pc[w] \notin {"enter", "gqcs"}
  PROVE  /\ cur[w] \in Clients /\ cur[w] \in clientsSocketMap
         /\ cur[w] \notin freed
         /\ \A v \in Workers : cur[v] = cur[w] => v = w
BY NullsAssumption DEF IInv, TypeOK, OwnedInMap, NumbersFresh, SingleOwner

\* One turn of a loop: an id is announced while its goodbye is due; a goodbye is
\* said to the one it was due to.
LEMMA SendToTargetFare ==
  ASSUME IInv, ByeInv, FareInv, NEW w \in Workers, SendToTarget(w)
  PROVE  FareInv'
<1>1. /\ UNCHANGED <<idMap, clientsSocketMap, freed, peer, cur, pkt, msg, todo>>
      /\ pc[w] = "send" /\ pc' = [pc EXCEPT ![w] = "next"]
      /\ tgt' = [tgt EXCEPT ![w] = NoOne]
      /\ Send(tgt[w], msg[w])
  BY DEF SendToTarget, Goto
<1>2. tgt[w] \in Clients /\ msg[w] \in Message /\ OwnMessage(w)
  BY <1>1 DEF IInv, HandlerState, ByeInv, LoopsOwn
<1>3. /\ UnderAccount(msg[w]) /\ idMap[cur[w]] # NoEntry
      /\ pkt[w] = Closed => msg[w].type = "DISCONNECTED_ID"
  BY <1>1 DEF FareInv, LoopsKnown, Looping
<1>4. /\ pc'[w] = "next"
      /\ \A v \in Workers : v # w => pc'[v] = pc[v] /\ tgt'[v] = tgt[v]
  BY <1>1 DEF IInv, TypeOK
<1>5. OpenStay' /\ LoopsKnown'
  BY <1>1, <1>4 DEF FareInv, OpenStay, LoopsKnown, Looping, UnderAccount
<1>6. ASSUME NEW r \in Clients, NEW n \in Clients, Due(r, n),
             ~(cur[w] = n /\ pkt[w] = Closed /\ tgt[w] = r)
      PROVE  Due(r, n)'
  BY <1>1, <1>4, <1>6 DEF Due, Ahead, Looping
<1>7. ASSUME NEW r \in Clients, NEW n \in Clients, peer[r] = "open",
             cur[w] = n, pkt[w] = Closed, tgt[w] = r
      PROVE  Said(r, n)'
  <2>1. out[r] \in Seq(Message) /\ out'[r] = Append(out[r], msg[w])
    BY <1>1, <1>7 DEF IInv, TypeOK, Send
  <2>2. /\ Len(out[r]) + 1 \in DOMAIN out'[r]
        /\ out'[r][Len(out[r]) + 1] = msg[w]
    BY <1>2, <2>1
  <2>3. QED
    BY <1>2, <1>3, <1>7, <2>2 DEF Said, OwnMessage, UnderAccount
<1>8. ASSUME NEW r \in Clients, NEW m \in Message, m = msg[w]
      PROVE  Announces(r, m)
  <2> SUFFICES ASSUME m.type = "ID"
               PROVE  m.ids[m.src] \in LoginIds[m.src] /\ Due(r, m.src)'
    BY DEF Announces
  <2>1. m.src = cur[w] /\ pkt[w] # Closed
    BY <1>2, <1>8 DEF OwnMessage
  <2>2. cur[w] \notin freed /\ \A v \in Workers : cur[v] = cur[w] => v = w
    BY <1>1, OnlyOwner
  <2>3. m.ids[m.src] \in LoginIds[m.src]
    BY <1>3, <1>8 DEF UnderAccount
  <2>4. m.src \notin freed' /\ idMap'[m.src] # NoEntry
    BY <1>1, <1>3, <2>1, <2>2
  <2>5. \A v \in Workers : cur'[v] = m.src => pkt'[v] # Closed
    BY <1>1, <2>1, <2>2
  <2>6. QED
    BY <2>3, <2>4, <2>5 DEF Due
<1>9. \E r \in Clients, m \in Message : Send(r, m) /\ Announces(r, m)
  BY <1>1, <1>2, <1>8
<1>10. QED
  BY <1>1, <1>5, <1>6, <1>7, <1>9, FareKeeps

\* A handler's loop begins: the id of its client is set, and who was due a
\* goodbye of that client still is.
LEMMA StartHandlerFare ==
  ASSUME IInv, TextInv, FareInv, NEW w \in Workers, SetId(w) \/ BroadcastText(w)
  PROVE  FareInv'
<1>1. /\ UNCHANGED <<clientsSocketMap, freed, peer, cur, pkt, tgt, out>>
      /\ pc[w] \in {"setId", "dispatch"} /\ pc' = [pc EXCEPT ![w] = "next"]
      /\ \E m : msg' = [msg EXCEPT ![w] = m]
      /\ \E S : todo' = [todo EXCEPT ![w] = S]
  BY DEF SetId, BroadcastText, StartBroadcast, Goto
<1>2. /\ cur[w] \in Clients /\ cur[w] \notin freed /\ pkt[w] # Closed
      /\ \A v \in Workers : cur[v] = cur[w] => v = w
  <2>1. pkt[w] # Closed
    BY <1>1, PacketFields DEF IInv, HandlerState
  <2>2. QED
    BY <1>1, <2>1, OnlyOwner
<1>3. TextInv'
  BY SetIdText, BroadcastTextText
<1>4. /\ idMap'[cur[w]] # NoEntry
      /\ \A n \in Clients : n # cur[w] => idMap'[n] = idMap[n]
  <2>1. CASE SetId(w)
    <3>1. pkt[w].id \in LoginIds[cur[w]]
      BY <2>1 DEF TextInv, PacketsOwn, IInv, HandlerState, SetId, Goto
    <3>2. pkt[w].id # NoEntry
      BY <1>2, <3>1, LoginIdsAssumption, NullsAssumption DEF Names
    <3>3. /\ idMap \in [Clients -> Names \cup {NoEntry}]
          /\ idMap' = [idMap EXCEPT ![cur[w]] = pkt[w].id]
      BY <2>1 DEF IInv, TypeOK, SetId
    <3>4. QED
      BY <1>2, <3>2, <3>3
  <2>2. CASE BroadcastText(w)
    BY <1>2, <2>2, NullsAssumption DEF IInv, TypeOK, BroadcastText, Names
  <2>3. QED
    BY <2>1, <2>2
<1>5. UnderAccount(msg'[w])
  <2>1. CASE SetId(w)
    <3>1. msg'[w] = IdMsg(cur[w], [n \in {cur[w]} |-> pkt[w].id], 0, 0)
      BY <2>1 DEF IInv, TypeOK, SetId, StartBroadcast
    <3>2. pkt[w].id \in LoginIds[cur[w]]
      BY <2>1 DEF TextInv, PacketsOwn, IInv, HandlerState, SetId, Goto
    <3>3. QED
      BY <3>1, <3>2 DEF IdMsg, UnderAccount
  <2>2. CASE BroadcastText(w)
    BY <2>2
    DEF IInv, TypeOK, BroadcastText, StartBroadcast, TextMsg, UnderAccount
  <2>3. QED
    BY <2>1, <2>2
<1>6. \A v \in Workers : v # w => /\ pc'[v] = pc[v] /\ msg'[v] = msg[v]
                                  /\ todo'[v] = todo[v]
  BY <1>1 DEF IInv, TypeOK
<1>7. OpenStay'
  BY <1>1 DEF FareInv, OpenStay
<1>8. LoopsKnown'
  <2> SUFFICES ASSUME NEW v \in Workers, Looping(v)'
               PROVE  /\ UnderAccount(msg'[v]) /\ idMap'[cur'[v]] # NoEntry
                      /\ pkt'[v] = Closed => msg'[v].type = "DISCONNECTED_ID"
    BY DEF LoopsKnown, UnderAccount
  <2>1. CASE v = w
    BY <1>1, <1>2, <1>4, <1>5, <2>1
  <2>2. CASE v # w
    <3>1. Looping(v) /\ cur[v] # cur[w]
      BY <1>2, <1>6, <2>2 DEF Looping
    <3>2. cur[v] \in Clients
      BY <3>1, OnlyOwner DEF Looping
    <3>3. QED
      BY <1>1, <1>4, <1>6, <2>2, <3>1, <3>2 DEF FareInv, LoopsKnown
  <2>3. QED
    BY <2>1, <2>2
<1>9. ASSUME NEW r \in Clients, NEW n \in Clients, Due(r, n)
      PROVE  Due(r, n)'
  BY <1>1, <1>2, <1>4, <1>6, <1>9 DEF Due, Ahead, Looping
<1>10. QED
  BY <1>1, <1>7, <1>8, <1>9, FareKeeps

\* A removal's loop begins with everybody who is there ahead.  A client without
\* an id was announced to nobody.
LEMMA StartRemovalFare ==
  ASSUME IInv, TextInv, FareInv, NEW w \in Workers, StartRemoval(w)
  PROVE  FareInv'
<1>1. /\ UNCHANGED <<clientsSocketMap, freed, peer, cur, pkt, tgt, idMap, out>>
      /\ pc[w] = "remove" /\ pkt[w] = Closed
  BY DEF IInv, HandlerState, StartRemoval
<1>2. /\ cur[w] \in Clients
      /\ \A v \in Workers : cur[v] = cur[w] => v = w
  BY <1>1, OnlyOwner
<1>3. OpenStay'
  BY <1>1 DEF FareInv, OpenStay
<1>4. CASE idMap[cur[w]] = NoEntry
  <2>1. pc' = [pc EXCEPT ![w] = "close"] /\ UNCHANGED <<msg, todo>>
    BY <1>4 DEF StartRemoval, Goto
  <2>2. pc'[w] = "close" /\ \A v \in Workers : v # w => pc'[v] = pc[v]
    BY <2>1 DEF IInv, TypeOK
  <2>3. LoopsKnown'
    BY <1>1, <2>1, <2>2 DEF FareInv, LoopsKnown, Looping, UnderAccount
  <2>4. ASSUME NEW r \in Clients, NEW n \in Clients, Due(r, n)
        PROVE  Due(r, n)'
    BY <1>1, <1>4, <2>1, <2>2, <2>4 DEF Due, Ahead, Looping
  <2>5. QED
    BY <1>1, <1>3, <2>3, <2>4, FareKeeps
<1>5. CASE idMap[cur[w]] # NoEntry
  <2>1. /\ pc' = [pc EXCEPT ![w] = "next"]
        /\ msg' = [msg EXCEPT ![w] = ByeMsg(cur[w], idMap[cur[w]])]
        /\ todo' = [todo EXCEPT ![w] = clientsSocketMap \ {cur[w]}]
    BY <1>5 DEF StartRemoval, StartBroadcast, Goto
  <2>2. /\ pc'[w] = "next" /\ msg'[w] = ByeMsg(cur[w], idMap[cur[w]])
        /\ todo'[w] = clientsSocketMap \ {cur[w]}
        /\ \A v \in Workers : v # w => /\ pc'[v] = pc[v] /\ msg'[v] = msg[v]
                                        /\ todo'[v] = todo[v]
    BY <2>1 DEF IInv, TypeOK
  <2>3. idMap[cur[w]] \in LoginIds[cur[w]]
    BY <1>2, <1>5 DEF TextInv, IdsOwn
  <2>4. LoopsKnown'
    BY <1>1, <1>5, <2>2, <2>3
    DEF FareInv, LoopsKnown, Looping, UnderAccount, ByeMsg
  <2>5. ASSUME NEW r \in Clients, NEW n \in Clients, r # n, peer[r] = "open",
               Due(r, n)
        PROVE  Due(r, n)'
    <3>1. r \in clientsSocketMap
      BY <2>5 DEF FareInv, OpenStay
    <3>2. QED
      BY <1>1, <1>2, <2>2, <2>5, <3>1 DEF Due, Ahead, Looping
  <2>6. QED
    BY <1>1, <1>3, <2>4, <2>5, FareKeeps
<1>6. QED
  BY <1>4, <1>5

\* A removal that has ended its loop is over for everybody.
LEMMA EndRemovalFare ==
  ASSUME IInv, FareInv, NEW w \in Workers, Forget(w) \/ CloseSocket(w)
  PROVE  FareInv'
<1>1. /\ UNCHANGED <<peer, msg, tgt, out>>
      /\ pc[w] \in {"forget", "close"} /\ pkt[w] = Closed
  BY DEF IInv, HandlerState, Forget, CloseSocket, BackToLoop, Goto
<1>2. /\ cur[w] \in Clients
      /\ \A v \in Workers : cur[v] = cur[w] => v = w
      /\ peer[cur[w]] # "open"
  BY <1>1, OnlyOwner DEF FareInv, OpenStay
<1>3. \A n \in Clients : n # cur[w] =>
        /\ idMap'[n] = idMap[n] /\ (n \in freed' <=> n \in freed)
        /\ n \in clientsSocketMap' <=> n \in clientsSocketMap
  BY <1>2 DEF IInv, TypeOK, Forget, CloseSocket
<1>4. \A v \in Workers : v # w =>
        /\ cur'[v] = cur[v] /\ pkt'[v] = pkt[v] /\ pc'[v] = pc[v]
        /\ \A r \in Clients : r # cur[w] /\ r \in todo[v] => r \in todo'[v]
  BY DEF IInv, TypeOK, Forget, CloseSocket, BackToLoop, Goto
<1>5. \/ pc'[w] = "close" /\ cur'[w] = cur[w] /\ pkt'[w] = pkt[w]
      \/ pc'[w] = "enter" /\ cur'[w] = NoOne
  BY DEF IInv, TypeOK, Forget, CloseSocket, BackToLoop, Goto
<1>6. OpenStay'
  BY <1>1, <1>2, <1>3, <1>4, <1>5, NullsAssumption DEF FareInv, OpenStay
<1>7. LoopsKnown'
  <2> SUFFICES ASSUME NEW v \in Workers, Looping(v)'
               PROVE  /\ UnderAccount(msg'[v]) /\ idMap'[cur'[v]] # NoEntry
                      /\ pkt'[v] = Closed => msg'[v].type = "DISCONNECTED_ID"
    BY DEF LoopsKnown, UnderAccount
  <2>1. v # w
    BY <1>5 DEF Looping
  <2>2. Looping(v) /\ cur[v] # cur[w]
    BY <1>2, <1>4, <2>1 DEF Looping
  <2>3. cur[v] \in Clients
    BY <2>2, OnlyOwner DEF Looping
  <2>4. QED
    BY <1>1, <1>3, <1>4, <2>1, <2>2, <2>3 DEF FareInv, LoopsKnown
<1>8. ASSUME NEW r \in Clients, NEW n \in Clients, peer[r] = "open", Due(r, n)
      PROVE  Due(r, n)'
  <2>1. r # cur[w]
    BY <1>2, <1>8
  <2>2. n # cur[w]
    BY <1>1, <1>8 DEF Due, Ahead, Looping
  <2>3. QED
    BY <1>1, <1>3, <1>4, <1>5, <1>8, <2>1, <2>2, NullsAssumption
    DEF Due, Ahead, Looping
<1>9. QED
  BY <1>1, <1>6, <1>7, <1>8, FareKeeps

\* A newcomer was told of nothing, and may be ahead of the loops that run.
LEMMA AcceptFare ==
  ASSUME IInv, TextInv, FareInv, Accept
  PROVE  FareInv'
<1>1. /\ UNCHANGED <<idMap, freed, out, pc, cur, pkt, msg, tgt>>
      /\ clientsSocketMap' = clientsSocketMap \cup {clientCount}
      /\ peer' = [peer EXCEPT ![clientCount] = "open"]
      /\ \A v \in Workers : todo[v] \subseteq todo'[v]
  BY DEF IInv, TypeOK, Accept
<1>2. clientCount \in Clients /\ clientCount \notin clientsSocketMap
  BY BoundsAssumption DEF IInv, TypeOK, NumbersFresh, Accept, Clients
<1>3. out[clientCount] = <<>>
  BY <1>2 DEF TextInv, FutureSilent, Clients
<1>4. \A v \in Workers : cur[v] # clientCount
  BY <1>2, NullsAssumption DEF IInv, OwnedInMap
<1>5. \A n \in Clients : n # clientCount => peer'[n] = peer[n]
  BY <1>1 DEF IInv, TypeOK
<1>6. OpenStay' /\ LoopsKnown'
  BY <1>1, <1>2, <1>4, <1>5
  DEF FareInv, OpenStay, LoopsKnown, Looping, UnderAccount
<1>7. ASSUME NEW r \in Clients, NEW n \in Clients, Due(r, n)
      PROVE  Due(r, n)'
  BY <1>1, <1>7 DEF Due, Ahead, Looping
<1>8. QED
  BY <1>1, <1>3, <1>5, <1>6, <1>7, FareKeeps

\* Before the threads run nobody was told of anybody.
LEMMA InitFare == Init => FareInv
BY DEF Init, FareInv, OpenStay, LoopsKnown, Looping, ToldKnown, DueOrSaid, Told

\* Every step keeps FareInv.
LEMMA NextFare ==
  IInv /\ TextInv /\ ByeInv /\ FareInv /\ [Next]_vars => FareInv'
<1> SUFFICES ASSUME IInv, TextInv, ByeInv, FareInv, [Next]_vars PROVE FareInv'
  OBVIOUS
<1>1. ASSUME NEW w \in Workers, Worker(w) PROVE FareInv'
  <2>1. CASE Enter(w) \/ \E n \in Clients : Dequeue(w, n)
    BY <2>1, CalmWorker
  <2>2. CASE Broadcast(w)
    BY <2>2, CalmWorker, SendToTargetFare DEF Broadcast
  <2>3. CASE Handle(w)
    BY <2>3, CalmAnswer, CalmWorker, StartHandlerFare DEF Handle
  <2>4. CASE RemoveDisconnectedClient(w)
    BY <2>4, StartRemovalFare, CalmWorker, EndRemovalFare
    DEF RemoveDisconnectedClient
  <2>5. QED
    BY <1>1, <2>1, <2>2, <2>3, <2>4 DEF Worker
<1>2. CASE Accepter \/ (\E n \in Clients : Client(n)) \/ UNCHANGED vars
  BY <1>2, AcceptFare, CalmElsewhere DEF Accepter
<1>3. QED
  BY <1>1, <1>2 DEF Next

\* A goodbye that was said came after what it takes back, and names the same id.
LEMMA SaidLast ==
  ASSUME OneAccount, IInv, ByeInv, FareInv
  PROVE  GoodbyeReachesAll
<1> SUFFICES ASSUME NEW n \in freed, NEW r \in Clients, NEW i \in DOMAIN out[r],
                    peer[r] = "open", out[r][i].type = "ID", out[r][i].src = n
             PROVE  \E j \in DOMAIN out[r] :
                      i < j /\ out[r][j] = ByeMsg(n, out[r][i].ids[n])
  BY DEF GoodbyeReachesAll
<1>1. n \in Clients /\ out[r] \in Seq(Message)
  BY DEF IInv, TypeOK
<1>2. r # n
  BY DEF FareInv, OpenStay, IInv, NumbersFresh
<1>3. Said(r, n)
  BY <1>1, <1>2 DEF FareInv, DueOrSaid, Told, Due
<1>4. PICK j \in DOMAIN out[r] : /\ out[r][j].type = "DISCONNECTED_ID"
                                 /\ out[r][j].src = n
                                 /\ out[r][j].id \in LoginIds[n]
  BY <1>3 DEF Said
<1>5. out[r][i].ids[n] = out[r][j].id
  BY <1>1, <1>2, <1>4 DEF FareInv, ToldKnown, OneAccount
<1>6. out[r][j] = ByeMsg(n, out[r][i].ids[n])
  <2>1. out[r][j] \in Message
    BY <1>1
  <2>2. out[r][j] \in [type : {"DISCONNECTED_ID"}, src : Clients, id : Names]
    BY <1>4, <2>1 DEF Message, Requests
  <2>3. QED
    BY <1>4, <1>5, <2>2 DEF ByeMsg
<1>7. i < j
  <2>1. i \in Nat /\ j \in Nat /\ i # j
    BY <1>1, <1>4
  <2>2. ~(j < i)
    BY <1>4 DEF ByeInv, NothingAfterGoodbye
  <2>3. QED
    BY <2>1, <2>2
<1>8. QED
  BY <1>6, <1>7

\* Whoever was told that a client logged in is told that it left, under the same
\* id, by the time its SocketInfo is deleted: for users with one account each,
\* however the loops of logins, texts and removals interleave.
THEOREM GoodbyesSaid == OneAccount => (Spec => []GoodbyeReachesAll)
<1> SUFFICES ASSUME OneAccount PROVE Spec => []GoodbyeReachesAll
  OBVIOUS
<1>1. IInv /\ ByeInv /\ FareInv => GoodbyeReachesAll
  BY SaidLast
<1>2. QED
  BY <1>1, InitText, NextText, InitBye, NextBye, InitFare, NextFare, Invariance,
     PTL DEF Spec
-----------------------------------------------------------------------------
(* The texts of a client come without a gap.                               *)

\* The packet k of n is on its way to the server; it was, and a reset took it.
InNet(n, k) == net[n] # NoPacket /\ k = Len(sent[n])
Lost(n, k) == peer[n] = "reset" /\ net[n] = NoPacket /\ k = Len(sent[n])

\* Worker w has a text that r is still to get.
Carries(w, r) ==
  pkt[w].type = "TEXT" /\ (pc[w] = "dispatch" \/ Ahead(w, r))

Coming(r, n, k) ==
  InNet(n, k) \/ \E w \in Workers : cur[w] = n /\ Carries(w, r) /\ pkt[w].no = k

\* k is the last packet of n that the server took.
LastTaken(n, k) ==
  /\ k \in DOMAIN sent[n]
  /\ net[n] # NoPacket => k # Len(sent[n])
  /\ \A j \in DOMAIN sent[n] : k < j => InNet(n, j) \/ Lost(n, j)

\* What is on its way is what was sent last, and a worker's text is the last one
\* before it.
Numbered ==
  /\ \A n \in Clients : net[n] # NoPacket =>
       /\ Len(sent[n]) \in DOMAIN sent[n]
       /\ net[n] = sent[n][Len(sent[n])] /\ net[n].no = Len(sent[n])
  /\ \A w \in Workers, n \in Clients :
       /\ cur[w] = n
       /\ pkt[w].type = "TEXT" /\ pc[w] \in {"dispatch", "next", "send"}
       => LastTaken(n, pkt[w].no) /\ sent[n][pkt[w].no] = pkt[w]

\* A loop turns to everyone once and never to its own client; on behalf of a
\* text it sends that text.
LoopsApart ==
  \A w \in Workers : Looping(w) =>
    /\ cur[w] \notin todo[w] /\ \A r \in todo[w] : r < clientCount
    /\ pc[w] = "send" => /\ tgt[w] # cur[w] /\ tgt[w] < clientCount
                         /\ tgt[w] \notin todo[w]
    /\ msg[w].type = "TEXT" <=> pkt[w].type = "TEXT"
    /\ msg[w].type = "TEXT" => msg[w].no = pkt[w].no

LoopInv == Numbered /\ LoopsApart

\* Text i of r is from n.
TextOf(r, n, i) == out[r][i].type = "TEXT" /\ out[r][i].src = n

\* Nobody gets its own texts, or one that was not sent.
OthersTexts ==
  \A r, n \in Clients : \A i \in DOMAIN out[r] :
    TextOf(r, n, i) => r # n /\ out[r][i].no \in DOMAIN sent[n]

\* The texts come in the order they were written.
Increasing ==
  \A r, n \in Clients : \A i, j \in DOMAIN out[r] :
    i < j /\ TextOf(r, n, i) /\ TextOf(r, n, j) => out[r][i].no < out[r][j].no

WroteText(n, k) == k \in DOMAIN sent[n] /\ sent[n][k].type = "TEXT"

NoneBetween ==
  \A r, n \in Clients : \A a, k, b \in DOMAIN sent[n] :
    Got(r, n, a) /\ Got(r, n, b) /\ a < k /\ k < b /\ WroteText(n, k)
      => Got(r, n, k)

\* What r got comes before all that is coming.
Before(r, n, a) ==
  /\ net[n] # NoPacket => a # Len(sent[n])
  /\ \A w \in Workers : cur[w] = n /\ Carries(w, r) => a < pkt[w].no

GotBefore ==
  \A r, n \in Clients : \A a \in DOMAIN sent[n] : Got(r, n, a) => Before(r, n, a)

\* After the first text that r got of n every one has come, is coming or is lost.
RestComing ==
  \A r, n \in Clients : \A a, k \in DOMAIN sent[n] :
    peer[r] = "open" /\ Got(r, n, a) /\ a < k /\ WroteText(n, k)
      => Got(r, n, k) \/ Coming(r, n, k) \/ Lost(n, k)

OrderInv == /\ OthersTexts /\ Increasing /\ NoneBetween /\ GotBefore
            /\ RestComing

LEMMA SentFacts ==
  ASSUME IInv, NEW n \in Clients
  PROVE  /\ sent[n] \in Seq(Packet) /\ Len(sent[n]) \in Nat
         /\ DOMAIN sent[n] = 1 .. Len(sent[n])
         /\ out[n] \in Seq(Message) /\ DOMAIN out[n] = 1 .. Len(out[n])
BY DEF IInv, TypeOK

\* A worker goes on with its text, and its loop goes on, or neither is there.
Steady(v) ==
  /\ pkt'[v].type = "TEXT" /\ pc'[v] \in {"dispatch", "next", "send"}
       => /\ pc[v] \in {"dispatch", "next", "send"}
          /\ cur'[v] = cur[v] /\ pkt'[v] = pkt[v]
  /\ Looping(v)' =>
       /\ Looping(v) /\ cur'[v] = cur[v] /\ pkt'[v] = pkt[v] /\ msg'[v] = msg[v]
       /\ todo'[v] \subseteq todo[v]
       /\ pc'[v] = "send" => \/ pc[v] = "send" /\ tgt'[v] = tgt[v]
                             \/ tgt'[v] \in todo[v] /\ tgt'[v] \notin todo'[v]

\* A step in which every worker is steady and nothing is sent or taken keeps
\* LoopInv.
LEMMA SteadyKeeps ==
  ASSUME IInv, LoopInv, UNCHANGED <<net, sent, clientCount>>,
         \A n \in Clients : peer[n] = "reset" => peer'[n] = "reset",
         \A v \in Workers : Steady(v)
  PROVE  LoopInv'
<1>1. ASSUME NEW v \in Workers, NEW n \in Clients, cur'[v] = n,
             pkt'[v].type = "TEXT", pc'[v] \in {"dispatch", "next", "send"}
      PROVE  LastTaken(n, pkt[v].no)' /\ sent'[n][pkt'[v].no] = pkt'[v]
  <2>1. /\ cur[v] = n /\ pkt'[v] = pkt[v] /\ pkt[v].type = "TEXT"
        /\ pc[v] \in {"dispatch", "next", "send"}
    BY <1>1 DEF Steady
  <2>2. LastTaken(n, pkt[v].no) /\ sent[n][pkt[v].no] = pkt[v]
    BY <2>1 DEF LoopInv, Numbered
  <2>3. QED
    BY <2>1, <2>2 DEF LastTaken, InNet, Lost
<1>2. LoopsApart'
  BY DEF LoopInv, LoopsApart, Steady
<1>3. QED
  BY <1>1, <1>2 DEF LoopInv, Numbered

\* The steps that start no loop and take nothing from the network, of the
\* accepter, of a client that closes and of the workers.
LEMMA SteadyElsewhere ==
  ASSUME IInv, LoopInv,
         \/ AcceptFails \/ PostFirstRecv \/ FirstRecvFails
         \/ (\E n \in Clients : ClientClose(n)) \/ UNCHANGED vars
  PROVE  LoopInv'
<1>1. UNCHANGED <<net, sent, clientCount, pc, cur, pkt, msg, todo, tgt>>
  BY DEF AcceptFails, PostFirstRecv, FirstRecvFails, ClientClose, vars
<1>2. \A n \in Clients : peer[n] = "reset" => peer'[n] = "reset"
  BY DEF IInv, TypeOK, AcceptFails, PostFirstRecv, FirstRecvFails, ClientClose,
         vars
<1>3. \A v \in Workers : Steady(v)
  BY <1>1 DEF Steady, Looping
<1>4. QED
  BY <1>1, <1>2, <1>3, SteadyKeeps

LEMMA SteadyWorker ==
  ASSUME IInv, LoopInv, NEW w \in Workers,
         \/ \E n \in Clients : DequeueClosed(w, n)
         \/ Enter(w) \/ Broadcast(w) \/ SignUpToDB(w) \/ Login(w)
         \/ LoginToDialog(w) \/ PrepareRoster(w) \/ FillIds(w) \/ Recv(w)
         \/ RemoveFromDialog(w) \/ Forget(w) \/ CloseSocket(w)
  PROVE  LoopInv'
<1>1. UNCHANGED <<net, sent, clientCount, peer>>
  BY DEF DequeueClosed, TakeCompletion, Enter, Broadcast, PickTarget,
         SendToTarget, BroadcastDone, SignUpToDB, Login, LoginToDialog,
         PrepareRoster, CheckAlone, SizePacket, CountIds, ReadIdMap, FillIds,
         Recv, RemoveFromDialog, Forget, CloseSocket
<1>2. ASSUME NEW v \in Workers, v # w PROVE Steady(v)
  <2>1. /\ cur'[v] = cur[v] /\ pkt'[v] = pkt[v] /\ msg'[v] = msg[v]
        /\ todo'[v] \subseteq todo[v] /\ tgt'[v] = tgt[v] /\ pc'[v] = pc[v]
    <3>1. CASE Broadcast(w)
      BY <1>2, <3>1
      DEF IInv, TypeOK, Broadcast, PickTarget, SendToTarget, BroadcastDone, Goto
    <3>2. CASE \/ SignUpToDB(w) \/ Login(w) \/ LoginToDialog(w)
               \/ PrepareRoster(w) \/ FillIds(w)
      BY <1>2, <3>2
      DEF IInv, TypeOK, SignUpToDB, Login, LoginToDialog, PrepareRoster,
          CheckAlone, SizePacket, CountIds, ReadIdMap, FillIds,
          Goto
    <3>3. CASE \/ \E n \in Clients : DequeueClosed(w, n)
               \/ Enter(w) \/ Recv(w)
      BY <1>2, <3>3
      DEF IInv, TypeOK, DequeueClosed, TakeCompletion, Enter, Recv,
          BackToLoop, Goto
    <3>4. CASE RemoveFromDialog(w) \/ Forget(w) \/ CloseSocket(w)
      BY <1>2, <3>4
      DEF IInv, TypeOK, RemoveFromDialog, Forget, CloseSocket, BackToLoop, Goto
    <3>5. QED
      BY <3>1, <3>2, <3>3, <3>4
  <2>2. QED
    BY <2>1 DEF Steady, Looping
<1>3. Steady(w)
  <2>1. CASE PickTarget(w)
    BY <2>1 DEF IInv, TypeOK, PickTarget, Goto, Steady, Looping
  <2>2. CASE SendToTarget(w)
    BY <2>2 DEF IInv, TypeOK, SendToTarget, Goto, Steady, Looping
  <2>3. CASE ~(PickTarget(w) \/ SendToTarget(w))
    <3>1. pc'[w] \notin {"dispatch", "next", "send"}
      BY <2>3, PacketFields, ZenonT(40)
      DEF IInv, TypeOK, HandlerState, DequeueClosed, TakeCompletion, Enter,
          Broadcast, BroadcastDone, AfterBroadcast, SignUpToDB, Login,
          LoginToDialog, PrepareRoster, CheckAlone, SizePacket, CountIds,
          ReadIdMap, FillIds, Recv, RemoveFromDialog, Forget,
          CloseSocket, BackToLoop, Goto
    <3>2. QED
      BY <3>1 DEF Steady, Looping
  <2>4. QED
    BY <2>1, <2>2, <2>3
<1>4. QED
  BY <1>1, <1>2, <1>3, SteadyKeeps

\* A client sends: the packet is the last and on its way.
LEMMA ClientSendLoop ==
  ASSUME IInv, LoopInv, NEW n \in Clients, ClientSend(n)
  PROVE  LoopInv'
<1>1. /\ UNCHANGED <<clientCount, pc, cur, pkt, msg, todo, tgt, peer>>
      /\ peer[n] = "open" /\ net[n] = NoPacket
  BY DEF ClientSend
<1>2. PICK p \in Packet : /\ p.no = Len(sent[n]) + 1
                          /\ net' = [net EXCEPT ![n] = p]
                          /\ sent' = [sent EXCEPT ![n] = Append(@, p)]
  <2>1. PICK type \in Kinds, id \in LoginIds[n] :
          LET p == [type |-> type, no |-> Len(sent[n]) + 1,
                    id |-> IF type = "LOGIN_INFO" THEN id ELSE Empty]
          IN  /\ net' = [net EXCEPT ![n] = p]
              /\ sent' = [sent EXCEPT ![n] = Append(@, p)]
    BY DEF ClientSend
  <2>2. id \in Names /\ Empty \in Names /\ Len(sent[n]) + 1 \in Nat
    BY LoginIdsAssumption DEF IInv, TypeOK, Names
  <2>3. [type |-> type, no |-> Len(sent[n]) + 1,
         id |-> IF type = "LOGIN_INFO" THEN id ELSE Empty] \in Packet
    BY <2>2, KindsAssumption DEF Packet
  <2>4. QED
    BY <2>1, <2>3
<1>3. /\ sent[n] \in Seq(Packet) /\ Len(sent[n]) \in Nat
      /\ sent'[n] = Append(sent[n], p) /\ Len(sent'[n]) = Len(sent[n]) + 1
      /\ DOMAIN sent[n] = 1 .. Len(sent[n])
      /\ DOMAIN sent'[n] = 1 .. Len(sent[n]) + 1
      /\ \A k \in DOMAIN sent[n] : sent'[n][k] = sent[n][k]
      /\ sent'[n][Len(sent[n]) + 1] = p /\ net'[n] = p
  BY <1>2 DEF IInv, TypeOK
<1>4. \A m \in Clients : m # n => net'[m] = net[m] /\ sent'[m] = sent[m]
  BY <1>2 DEF IInv, TypeOK
<1>5. \A m \in Clients : net'[m] # NoPacket =>
        /\ Len(sent'[m]) \in DOMAIN sent'[m]
        /\ net'[m] = sent'[m][Len(sent'[m])] /\ net'[m].no = Len(sent'[m])
  BY <1>2, <1>3, <1>4 DEF LoopInv, Numbered
<1>6. ASSUME NEW v \in Workers, NEW m \in Clients, cur[v] = m,
             pkt[v].type = "TEXT", pc[v] \in {"dispatch", "next", "send"}
      PROVE  LastTaken(m, pkt[v].no)' /\ sent'[m][pkt[v].no] = pkt[v]
  <2>1. LastTaken(m, pkt[v].no) /\ sent[m][pkt[v].no] = pkt[v]
    BY <1>6 DEF LoopInv, Numbered
  <2>2. CASE m # n
    BY <1>1, <1>4, <2>1, <2>2 DEF LastTaken, InNet, Lost
  <2>3. CASE m = n
    <3>1. \A j \in DOMAIN sent[n] : j <= pkt[v].no
      BY <1>1, <1>3, <2>1, <2>3 DEF LastTaken, InNet, Lost
    <3>2. pkt[v].no \in DOMAIN sent[n]
      BY <2>1, <2>3 DEF LastTaken
    <3>3. \A j \in DOMAIN sent'[n] : pkt[v].no < j => InNet(n, j)'
      <4> SUFFICES ASSUME NEW j \in DOMAIN sent'[n], pkt[v].no < j
                   PROVE  InNet(n, j)'
        OBVIOUS
      <4>1. j = Len(sent'[n])
        BY <1>3, <3>1, <3>2
      <4>2. net'[n] # NoPacket
        BY <1>3, PacketFields
      <4>3. QED
        BY <4>1, <4>2 DEF InNet
    <3>4. /\ pkt[v].no \in DOMAIN sent'[n] /\ pkt[v].no # Len(sent'[n])
          /\ sent'[n][pkt[v].no] = pkt[v]
      BY <1>3, <2>1, <2>3, <3>2
    <3>5. QED
      BY <1>1, <2>3, <3>3, <3>4 DEF LastTaken
  <2>4. QED
    BY <2>2, <2>3
<1>7. LoopsApart'
  BY <1>1 DEF LoopInv, LoopsApart, Looping
<1>8. QED
  BY <1>1, <1>5, <1>6, <1>7 DEF LoopInv, Numbered

\* A reset leaves the packet on its way, or loses it.
LEMMA ClientResetLoop ==
  ASSUME IInv, LoopInv, NEW n \in Clients, ClientReset(n)
  PROVE  LoopInv'
<1>1. /\ UNCHANGED <<clientCount, pc, cur, pkt, msg, todo, tgt, sent>>
      /\ net' = net \/ net' = [net EXCEPT ![n] = NoPacket]
      /\ peer' = [peer EXCEPT ![n] = "reset"]
  BY DEF ClientReset
<1>2. \A m \in Clients : /\ peer[m] = "reset" => peer'[m] = "reset"
                         /\ net'[m] = net[m] \/ (peer'[m] = "reset" /\ net'[m] = NoPacket)
  BY <1>1 DEF IInv, TypeOK
<1>3. \A m \in Clients : \A k \in DOMAIN sent[m] :
        InNet(m, k) \/ Lost(m, k) => InNet(m, k)' \/ Lost(m, k)'
  BY <1>1, <1>2 DEF InNet, Lost
<1>4. ASSUME NEW v \in Workers, NEW m \in Clients, cur[v] = m,
             pkt[v].type = "TEXT", pc[v] \in {"dispatch", "next", "send"}
      PROVE  LastTaken(m, pkt[v].no)' /\ sent'[m][pkt[v].no] = pkt[v]
  <2>1. LastTaken(m, pkt[v].no) /\ sent[m][pkt[v].no] = pkt[v]
    BY <1>4 DEF LoopInv, Numbered
  <2>2. net'[m] # NoPacket => net[m] # NoPacket
    BY <1>2
  <2>3. QED
    BY <1>1, <1>3, <2>1, <2>2 DEF LastTaken
<1>5. LoopsApart'
  BY <1>1 DEF LoopInv, LoopsApart, Looping
<1>6. \A m \in Clients : net'[m] # NoPacket =>
        /\ Len(sent'[m]) \in DOMAIN sent'[m]
        /\ net'[m] = sent'[m][Len(sent'[m])] /\ net'[m].no = Len(sent'[m])
  BY <1>1, <1>2 DEF LoopInv, Numbered
<1>7. QED
  BY <1>1, <1>4, <1>5, <1>6 DEF LoopInv, Numbered

\* A worker takes the packet that is on its way: it is the last.
LEMMA DequeueLoop ==
  ASSUME IInv, LoopInv, NEW w \in Workers, NEW n \in Clients,
         DequeuePacket(w, n)
  PROVE  LoopInv'
<1>1. /\ UNCHANGED <<clientCount, peer, sent, msg, todo, tgt>>
      /\ pc[w] = "gqcs" /\ pc' = [pc EXCEPT ![w] = "dispatch"]
      /\ cur' = [cur EXCEPT ![w] = n] /\ pkt' = [pkt EXCEPT ![w] = net[n]]
      /\ net' = [net EXCEPT ![n] = NoPacket]
      /\ n \in posted /\ net[n] # NoPacket
  BY DEF DequeuePacket, TakeCompletion, Goto
<1>2. \A v \in Workers : cur[v] # n
  BY <1>1, NullsAssumption DEF IInv, TypeOK, SingleOwner
<1>3. /\ pc'[w] = "dispatch" /\ cur'[w] = n /\ pkt'[w] = net[n]
      /\ net'[n] = NoPacket
      /\ \A v \in Workers : v # w => /\ pc'[v] = pc[v] /\ cur'[v] = cur[v]
                                     /\ pkt'[v] = pkt[v]
      /\ \A m \in Clients : m # n => net'[m] = net[m]
  BY <1>1 DEF IInv, TypeOK
<1>4. \A m \in Clients : net'[m] # NoPacket =>
        /\ Len(sent'[m]) \in DOMAIN sent'[m]
        /\ net'[m] = sent'[m][Len(sent'[m])] /\ net'[m].no = Len(sent'[m])
  BY <1>1, <1>3 DEF LoopInv, Numbered
<1>5. ASSUME NEW v \in Workers, NEW m \in Clients, cur'[v] = m,
             pkt'[v].type = "TEXT", pc'[v] \in {"dispatch", "next", "send"}
      PROVE  LastTaken(m, pkt[v].no)' /\ sent'[m][pkt'[v].no] = pkt'[v]
  <2>1. CASE v = w
    <3>1. /\ m = n /\ pkt'[v].no = Len(sent[n]) /\ Len(sent[n]) \in DOMAIN sent[n]
          /\ pkt'[v] = sent[n][Len(sent[n])]
      BY <1>1, <1>3, <1>5, <2>1 DEF LoopInv, Numbered
    <3>2. \A j \in DOMAIN sent[n] : ~(Len(sent[n]) < j)
      BY SentFacts
    <3>3. QED
      BY <1>1, <1>3, <3>1, <3>2 DEF LastTaken
  <2>2. CASE v # w
    <3>1. m # n /\ cur[v] = m /\ pkt'[v] = pkt[v] /\ pc'[v] = pc[v]
      BY <1>2, <1>3, <1>5, <2>2
    <3>2. LastTaken(m, pkt[v].no) /\ sent[m][pkt[v].no] = pkt[v]
      BY <1>5, <3>1 DEF LoopInv, Numbered
    <3>3. QED
      BY <1>1, <1>3, <3>1, <3>2 DEF LastTaken, InNet, Lost
  <2>3. QED
    BY <2>1, <2>2
<1>6. LoopsApart'
  BY <1>1, <1>3 DEF LoopInv, LoopsApart, Looping
<1>7. QED
  BY <1>4, <1>5, <1>6 DEF LoopInv, Numbered

\* A loop starts with everyone in the map but its own client.
LEMMA StartLoop ==
  ASSUME IInv, LoopInv, NEW w \in Workers,
         SetId(w) \/ BroadcastText(w) \/ StartRemoval(w)
  PROVE  LoopInv'
<1>1. UNCHANGED <<clientCount, peer, sent, net, cur, pkt, tgt>>
  BY DEF SetId, BroadcastText, StartRemoval
<1>2. \A v \in Workers : v # w => /\ pc'[v] = pc[v] /\ msg'[v] = msg[v]
                                  /\ todo'[v] = todo[v]
  BY DEF IInv, TypeOK, SetId, BroadcastText, StartRemoval, StartBroadcast, Goto
<1>3. pc'[w] \in {"next", "close"} /\ (pkt[w].type = "TEXT" => pc[w] = "dispatch")
  BY PacketFields
  DEF IInv, TypeOK, HandlerState, SetId, BroadcastText, StartRemoval, Goto
<1>4. ASSUME NEW v \in Workers, NEW m \in Clients, cur'[v] = m,
             pkt'[v].type = "TEXT", pc'[v] \in {"dispatch", "next", "send"}
      PROVE  LastTaken(m, pkt[v].no)' /\ sent'[m][pkt'[v].no] = pkt'[v]
  <2>1. pc[v] \in {"dispatch", "next", "send"}
    BY <1>1, <1>2, <1>3, <1>4
  <2>2. LastTaken(m, pkt[v].no) /\ sent[m][pkt[v].no] = pkt[v]
    BY <1>1, <1>4, <2>1 DEF LoopInv, Numbered
  <2>3. QED
    BY <1>1, <2>2 DEF LastTaken, InNet, Lost
<1>5. ASSUME pc'[w] = "next"
      PROVE  /\ cur[w] \notin todo'[w] /\ \A r \in todo'[w] : r < clientCount
             /\ msg'[w].type = "TEXT" <=> pkt[w].type = "TEXT"
             /\ msg'[w].type = "TEXT" => msg'[w].no = pkt[w].no
  <2>1. todo'[w] = clientsSocketMap \ {cur[w]}
    BY <1>5
    DEF IInv, TypeOK, SetId, BroadcastText, StartRemoval, StartBroadcast, Goto
  <2>2. \A r \in clientsSocketMap : r < clientCount
    BY DEF IInv, NumbersFresh
  <2>3. CASE SetId(w)
    <3>1. pkt[w].type = "LOGIN_INFO" /\ msg'[w].type = "ID"
      BY <2>3 DEF IInv, TypeOK, HandlerState, SetId, StartBroadcast, IdMsg, Goto
    <3>2. QED
      BY <2>1, <2>2, <3>1
  <2>4. CASE BroadcastText(w)
    <3>1. /\ pkt[w].type = "TEXT"
          /\ msg'[w].type = "TEXT" /\ msg'[w].no = pkt[w].no
      BY <2>4 DEF IInv, TypeOK, BroadcastText, StartBroadcast, TextMsg
    <3>2. QED
      BY <2>1, <2>2, <3>1
  <2>5. CASE StartRemoval(w)
    <3>1. pkt[w].type = "CLOSED" /\ msg'[w].type = "DISCONNECTED_ID"
      BY <1>5, <2>5, PacketFields
      DEF IInv, TypeOK, HandlerState, StartRemoval, StartBroadcast, ByeMsg, Goto
    <3>2. QED
      BY <2>1, <2>2, <3>1
  <2>6. QED
    BY <2>3, <2>4, <2>5
<1>6. LoopsApart'
  BY <1>1, <1>2, <1>3, <1>5 DEF LoopInv, LoopsApart, Looping
<1>7. QED
  BY <1>1, <1>4, <1>6 DEF LoopInv, Numbered

\* A newcomer has a number no loop has turned to.
LEMMA AcceptLoop ==
  ASSUME IInv, LoopInv, Accept
  PROVE  LoopInv'
<1>1. /\ UNCHANGED <<pc, cur, pkt, msg, tgt, net, sent>>
      /\ clientCount \in Nat /\ clientCount' = clientCount + 1
      /\ \A v \in Workers : todo'[v] \subseteq todo[v] \cup {clientCount}
      /\ \A m \in Clients : peer[m] = "reset" /\ m # clientCount
           => peer'[m] = "reset"
  BY BoundsAssumption DEF IInv, TypeOK, Accept
<1>2. \A v \in Workers : pc[v] \notin {"enter", "gqcs"}
                           => cur[v] \in Clients /\ cur[v] < clientCount
  BY OnlyOwner DEF IInv, NumbersFresh
<1>3. ASSUME NEW v \in Workers, NEW m \in Clients, cur[v] = m,
             pkt[v].type = "TEXT", pc[v] \in {"dispatch", "next", "send"}
      PROVE  LastTaken(m, pkt[v].no)' /\ sent'[m][pkt[v].no] = pkt[v]
  <2>1. LastTaken(m, pkt[v].no) /\ sent[m][pkt[v].no] = pkt[v]
    BY <1>3 DEF LoopInv, Numbered
  <2>2. m # clientCount
    BY <1>1, <1>2, <1>3
  <2>3. QED
    BY <1>1, <2>1, <2>2 DEF LastTaken, InNet, Lost
<1>4. LoopsApart'
  <2> SUFFICES ASSUME NEW v \in Workers, Looping(v)
               PROVE  /\ cur[v] \notin todo'[v]
                      /\ \A r \in todo'[v] : r < clientCount + 1
                      /\ pc[v] = "send" => /\ tgt[v] < clientCount + 1
                                           /\ tgt[v] \notin todo'[v]
    BY <1>1 DEF LoopInv, LoopsApart, Looping
  <2>1. /\ cur[v] \in Clients /\ cur[v] < clientCount /\ cur[v] \notin todo[v]
        /\ todo[v] \subseteq Clients /\ \A r \in todo[v] : r < clientCount
        /\ pc[v] = "send" => /\ tgt[v] \in Clients /\ tgt[v] < clientCount
                             /\ tgt[v] \notin todo[v]
    BY <1>2 DEF LoopInv, LoopsApart, Looping, IInv, TypeOK, HandlerState
  <2>2. QED
    BY <1>1, <2>1 DEF Clients
<1>5. QED
  BY <1>1, <1>3, <1>4 DEF LoopInv, Numbered

LEMMA InitLoop == Init => LoopInv
BY DEF Init, LoopInv, Numbered, LoopsApart, Looping, NoPacket

LEMMA NextLoop == IInv /\ LoopInv /\ [Next]_vars => LoopInv'
<1> SUFFICES ASSUME IInv, LoopInv, [Next]_vars PROVE LoopInv'
  OBVIOUS
<1>1. ASSUME NEW w \in Workers, Worker(w) PROVE LoopInv'
  <2>1. CASE \E n \in Clients : Dequeue(w, n)
    BY <2>1, DequeueLoop, SteadyWorker DEF Dequeue
  <2>2. CASE Enter(w) \/ Broadcast(w)
    BY <2>2, SteadyWorker
  <2>3. CASE Handle(w) \/ RemoveDisconnectedClient(w)
    BY <2>3, SteadyWorker, StartLoop DEF Handle, RemoveDisconnectedClient
  <2>4. QED
    BY <1>1, <2>1, <2>2, <2>3 DEF Worker
<1>2. CASE Accepter \/ (\E n \in Clients : Client(n)) \/ UNCHANGED vars
  BY <1>2, SteadyElsewhere, AcceptLoop, ClientSendLoop, ClientResetLoop
  DEF Accepter, Client
<1>3. QED
  BY <1>1, <1>2 DEF Next

\* A message that is no text changes nothing of the texts.
LEMMA NoText ==
  ASSUME IInv,
         \/ out' = out
         \/ \E r \in Clients, m \in Message : Send(r, m) /\ m.type # "TEXT"
  PROVE  /\ \A r \in Clients : \A i \in DOMAIN out[r] :
              i \in DOMAIN out'[r] /\ out'[r][i] = out[r][i]
         /\ \A r \in Clients : \A i \in DOMAIN out'[r] :
              out'[r][i].type = "TEXT"
                => i \in DOMAIN out[r] /\ out'[r][i] = out[r][i]
<1>1. CASE out' = out
  BY <1>1
<1>2. ASSUME NEW r \in Clients, NEW m \in Message, m.type # "TEXT",
             out' = [out EXCEPT ![r] = Append(@, m)],
             NEW q \in Clients
      PROVE  /\ \A i \in DOMAIN out[q] :
                  i \in DOMAIN out'[q] /\ out'[q][i] = out[q][i]
             /\ \A i \in DOMAIN out'[q] :
                  out'[q][i].type = "TEXT"
                    => i \in DOMAIN out[q] /\ out'[q][i] = out[q][i]
  <2>1. CASE q = r
    BY <1>2, <2>1 DEF IInv, TypeOK
  <2>2. CASE q # r
    BY <1>2, <2>2 DEF IInv, TypeOK
  <2>3. QED
    BY <2>1, <2>2
<1>3. QED
  BY <1>1, <1>2 DEF Send

\* A step that sends no text keeps OrderInv if what was coming to those that
\* stay is still coming or lost, and nothing older is carried to them.
LEMMA OrderKeeps ==
  ASSUME IInv, OrderInv,
         \/ out' = out
         \/ \E r \in Clients, m \in Message : Send(r, m) /\ m.type # "TEXT",
         \A n \in Clients : \A k \in DOMAIN sent[n] :
           k \in DOMAIN sent'[n] /\ sent'[n][k] = sent[n][k],
         \A n \in Clients : \A k \in DOMAIN sent'[n] :
           k \in DOMAIN sent[n] \/ (InNet(n, k)' /\ k = Len(sent[n]) + 1),
         \A r \in Clients :
           peer'[r] = "open" => peer[r] = "open" \/ out'[r] = <<>>,
         \A r, n \in Clients : \A k \in DOMAIN sent[n] :
           /\ r # n /\ peer[r] = "open" /\ peer'[r] = "open"
           /\ WroteText(n, k) /\ (Coming(r, n, k) \/ Lost(n, k))
           => Coming(r, n, k)' \/ Lost(n, k)',
         \A r, n \in Clients : \A a \in DOMAIN sent[n] :
           r # n /\ Got(r, n, a) /\ Before(r, n, a) => Before(r, n, a)'
  PROVE  OrderInv'
<1>1. /\ \A r \in Clients : \A i \in DOMAIN out[r] :
           i \in DOMAIN out'[r] /\ out'[r][i] = out[r][i]
      /\ \A r \in Clients : \A i \in DOMAIN out'[r] :
           out'[r][i].type = "TEXT"
             => i \in DOMAIN out[r] /\ out'[r][i] = out[r][i]
  BY NoText
<1>2. ASSUME NEW r \in Clients, NEW n \in Clients, NEW k
      PROVE  Got(r, n, k)' <=> Got(r, n, k)
  BY <1>1 DEF Got
<1>3. ASSUME NEW r \in Clients, NEW n \in Clients, NEW k, Got(r, n, k)
      PROVE  r # n /\ k \in DOMAIN sent[n]
  BY <1>3 DEF OrderInv, OthersTexts, TextOf, Got
<1>4. OthersTexts'
  BY <1>1 DEF OrderInv, OthersTexts, TextOf
<1>5. Increasing'
  BY <1>1 DEF OrderInv, Increasing, TextOf
<1>6. NoneBetween'
  <2> SUFFICES ASSUME NEW r \in Clients, NEW n \in Clients,
                      NEW a, NEW k \in DOMAIN sent'[n], NEW b,
                      Got(r, n, a), Got(r, n, b), a < k, k < b,
                      WroteText(n, k)'
               PROVE  Got(r, n, k)
    BY <1>2 DEF NoneBetween
  <2>1. a \in DOMAIN sent[n] /\ b \in DOMAIN sent[n]
    BY <1>3
  <2>2. k \in DOMAIN sent[n]
    BY <2>1, SentFacts
  <2>3. QED
    BY <2>1, <2>2 DEF OrderInv, NoneBetween, WroteText
<1>7. GotBefore'
  <2> SUFFICES ASSUME NEW r \in Clients, NEW n \in Clients,
                      NEW a \in DOMAIN sent'[n], Got(r, n, a)
               PROVE  Before(r, n, a)'
    BY <1>2 DEF GotBefore
  <2>1. QED
    BY <1>3 DEF OrderInv, GotBefore
<1>8. RestComing'
  <2> SUFFICES ASSUME NEW r \in Clients, NEW n \in Clients,
                      NEW a \in DOMAIN sent'[n], NEW k \in DOMAIN sent'[n],
                      peer'[r] = "open", Got(r, n, a), a < k, WroteText(n, k)'
               PROVE  Got(r, n, k) \/ Coming(r, n, k)' \/ Lost(n, k)'
    BY <1>2 DEF RestComing
  <2>1. r # n /\ a \in DOMAIN sent[n]
    BY <1>3
  <2>2. peer[r] = "open"
    BY <1>2 DEF Got
  <2>3. CASE k \in DOMAIN sent[n]
    <3>1. WroteText(n, k)
      BY <2>3 DEF WroteText
    <3>2. Got(r, n, k) \/ Coming(r, n, k) \/ Lost(n, k)
      BY <2>1, <2>2, <2>3, <3>1 DEF OrderInv, RestComing
    <3>3. QED
      BY <2>1, <2>2, <2>3, <3>1, <3>2
  <2>4. CASE k \notin DOMAIN sent[n]
    BY <2>4 DEF Coming
  <2>5. QED
    BY <2>3, <2>4
<1>9. QED
  BY <1>4, <1>5, <1>6, <1>7, <1>8 DEF OrderInv

\* What worker v has of texts stays with it, for those that stay and are not
\* its own client, and it takes none up.
Undisturbed(v) ==
  \A r \in Clients :
    /\ Carries(v, r)' => Carries(v, r) /\ cur'[v] = cur[v] /\ pkt'[v] = pkt[v]
    /\ Carries(v, r) /\ peer[r] = "open" /\ r # cur[v]
         => Carries(v, r)' /\ cur'[v] = cur[v] /\ pkt'[v] = pkt[v]

LEMMA UndisturbedKeeps ==
  ASSUME IInv, OrderInv, UNCHANGED <<net, sent>>,
         \/ out' = out
         \/ \E r \in Clients, m \in Message : Send(r, m) /\ m.type # "TEXT",
         \A n \in Clients : /\ peer'[n] = "open" => peer[n] = "open"
                            /\ peer[n] = "reset" => peer'[n] = "reset",
         \A v \in Workers : Undisturbed(v)
  PROVE  OrderInv'
<1>1. ASSUME NEW r \in Clients, NEW n \in Clients, NEW k \in DOMAIN sent[n],
             r # n, peer[r] = "open", Coming(r, n, k) \/ Lost(n, k)
      PROVE  Coming(r, n, k)' \/ Lost(n, k)'
  <2>1. CASE InNet(n, k) \/ Lost(n, k)
    BY <2>1 DEF Coming, InNet, Lost
  <2>2. ASSUME NEW v \in Workers, cur[v] = n, Carries(v, r), pkt[v].no = k
        PROVE  Coming(r, n, k)'
    BY <1>1, <2>2 DEF Undisturbed, Coming
  <2>3. QED
    BY <1>1, <2>1, <2>2 DEF Coming
<1>2. ASSUME NEW r \in Clients, NEW n \in Clients, NEW a \in DOMAIN sent[n],
             Before(r, n, a)
      PROVE  Before(r, n, a)'
  BY <1>2 DEF Before, Undisturbed
<1>3. QED
  BY <1>1, <1>2, OrderKeeps

LEMMA UndisturbedElsewhere ==
  ASSUME IInv, OrderInv,
         \/ AcceptFails \/ PostFirstRecv \/ FirstRecvFails
         \/ (\E n \in Clients : ClientClose(n)) \/ UNCHANGED vars
  PROVE  OrderInv'
<1>1. UNCHANGED <<net, sent, out, pc, cur, pkt, todo, tgt>>
  BY DEF AcceptFails, PostFirstRecv, FirstRecvFails, ClientClose, vars
<1>2. \A n \in Clients : /\ peer'[n] = "open" => peer[n] = "open"
                         /\ peer[n] = "reset" => peer'[n] = "reset"
  BY DEF IInv, TypeOK, AcceptFails, PostFirstRecv, FirstRecvFails, ClientClose,
         vars
<1>3. \A v \in Workers : Undisturbed(v)
  BY <1>1 DEF Undisturbed, Carries, Ahead, Looping
<1>4. QED
  BY <1>1, <1>2, <1>3, UndisturbedKeeps

\* Where a worker carries no text before a step and none after.
LEMMA Untouched ==
  ASSUME NEW v \in Workers,
         \/ /\ pkt'[v].type # "TEXT" \/ pc'[v] \notin {"dispatch", "next", "send"}
            /\ pkt[v].type # "TEXT" \/ pc[v] \notin {"dispatch", "next", "send"}
         \/ /\ cur'[v] = cur[v] /\ pkt'[v] = pkt[v] /\ pc'[v] = pc[v]
            /\ tgt'[v] = tgt[v] /\ todo'[v] \subseteq todo[v]
            /\ \A r \in todo[v] : r \in todo'[v] \/ peer[r] # "open"
  PROVE  Undisturbed(v)
BY DEF Undisturbed, Carries, Ahead, Looping

\* The steps of a worker that send no text.
LEMMA UndisturbedSilent ==
  ASSUME IInv, FareInv, OrderInv, NEW w \in Workers,
         \/ \E n \in Clients : DequeueClosed(w, n)
         \/ Enter(w) \/ PickTarget(w) \/ BroadcastDone(w) \/ LoginToDialog(w)
         \/ PrepareRoster(w) \/ Recv(w) \/ SetId(w) \/ BroadcastText(w)
         \/ StartRemoval(w) \/ RemoveFromDialog(w) \/ Forget(w)
         \/ CloseSocket(w)
  PROVE  OrderInv'
<1>1. UNCHANGED <<net, sent, out, peer>>
  BY DEF DequeueClosed, TakeCompletion, Enter, PickTarget, BroadcastDone,
         LoginToDialog, PrepareRoster, CheckAlone, SizePacket, CountIds,
         ReadIdMap, Recv, SetId, BroadcastText, StartRemoval,
         RemoveFromDialog, Forget, CloseSocket
<1>2. ASSUME NEW v \in Workers, v # w PROVE Undisturbed(v)
  <2>1. CASE CloseSocket(w)
    <3>1. /\ cur'[v] = cur[v] /\ pkt'[v] = pkt[v] /\ pc'[v] = pc[v]
          /\ tgt'[v] = tgt[v] /\ todo'[v] = todo[v] \ {cur[w]}
      BY <1>2, <2>1 DEF IInv, TypeOK, CloseSocket, BackToLoop, Goto
    <3>2. pkt[w] = Closed /\ cur[w] \in Clients
      BY <2>1, OnlyOwner DEF IInv, HandlerState, CloseSocket, BackToLoop, Goto
    <3>3. peer[cur[w]] # "open"
      BY <3>2 DEF FareInv, OpenStay
    <3>4. QED
      BY <3>1, <3>3, Untouched
  <2>2. CASE ~CloseSocket(w)
    <3>1. /\ cur'[v] = cur[v] /\ pkt'[v] = pkt[v] /\ pc'[v] = pc[v]
          /\ tgt'[v] = tgt[v] /\ todo'[v] = todo[v]
      <4>1. CASE \/ \E n \in Clients : DequeueClosed(w, n)
                 \/ Enter(w) \/ PickTarget(w) \/ BroadcastDone(w) \/ Recv(w)
        BY <1>2, <4>1
        DEF IInv, TypeOK, DequeueClosed, TakeCompletion, Enter, PickTarget,
            BroadcastDone, Recv, BackToLoop, Goto
      <4>2. CASE LoginToDialog(w) \/ PrepareRoster(w) \/ SetId(w) \/ BroadcastText(w)
        BY <1>2, <4>2
        DEF IInv, TypeOK, LoginToDialog, PrepareRoster, CheckAlone,
            SizePacket, CountIds, ReadIdMap, SetId, BroadcastText,
            StartBroadcast, Goto
      <4>3. CASE StartRemoval(w) \/ RemoveFromDialog(w) \/ Forget(w)
        BY <1>2, <4>3
        DEF IInv, TypeOK, StartRemoval, StartBroadcast, RemoveFromDialog,
            Forget, Goto
      <4>4. QED
        BY <2>2, <4>1, <4>2, <4>3
    <3>2. QED
      BY <3>1, Untouched
  <2>3. QED
    BY <2>1, <2>2
<1>3. Undisturbed(w)
  <2>1. CASE \/ \E n \in Clients : DequeueClosed(w, n)
             \/ Enter(w) \/ Recv(w)
    BY <2>1, Untouched
    DEF IInv, TypeOK, DequeueClosed, TakeCompletion, Enter, Recv, BackToLoop,
        Goto
  <2>2. CASE LoginToDialog(w) \/ PrepareRoster(w) \/ SetId(w)
    <3>1. pkt[w].type = "LOGIN_INFO" /\ pkt' = pkt
      BY <2>2
      DEF IInv, HandlerState, LoginToDialog, PrepareRoster, CheckAlone,
          SizePacket, CountIds, ReadIdMap, SetId, Goto
    <3>2. QED
      BY <3>1, Untouched
  <2>3. CASE StartRemoval(w) \/ RemoveFromDialog(w) \/ Forget(w) \/ CloseSocket(w)
    <3>1. pkt[w].type # "TEXT" /\ pkt'[w].type # "TEXT"
      BY <2>3, PacketFields
      DEF IInv, TypeOK, HandlerState, StartRemoval, RemoveFromDialog, Forget,
          CloseSocket, BackToLoop, NoPacket, Goto
    <3>2. QED
      BY <3>1, Untouched
  <2>4. CASE PickTarget(w)
    BY <2>4
    DEF IInv, TypeOK, PickTarget, Goto, Undisturbed, Carries, Ahead, Looping
  <2>5. CASE BroadcastDone(w)
    <3>1. /\ pc[w] = "next" /\ todo[w] = {}
          /\ pc'[w] \notin {"dispatch", "next", "send"}
      BY <2>5, PacketFields
      DEF IInv, TypeOK, HandlerState, BroadcastDone, AfterBroadcast, Goto
    <3>2. QED
      BY <3>1 DEF Undisturbed, Carries, Ahead, Looping
  <2>6. CASE BroadcastText(w)
    <3>1. /\ pc[w] = "dispatch" /\ pc'[w] = "next" /\ pkt[w].type = "TEXT"
          /\ cur' = cur /\ pkt' = pkt /\ todo'[w] = clientsSocketMap \ {cur[w]}
      BY <2>6 DEF IInv, TypeOK, BroadcastText, StartBroadcast, Goto
    <3>2. \A r \in Clients : peer[r] = "open" => r \in clientsSocketMap
      BY DEF FareInv, OpenStay
    <3>3. QED
      BY <3>1, <3>2 DEF Undisturbed, Carries, Ahead, Looping
  <2>7. QED
    BY <2>1, <2>2, <2>3, <2>4, <2>5, <2>6
<1>4. QED
  BY <1>1, <1>2, <1>3, UndisturbedKeeps

LEMMA UndisturbedAnswer ==
  ASSUME IInv, OrderInv, NEW w \in Workers,
         SignUpToDB(w) \/ Login(w) \/ FillIds(w)
  PROVE  OrderInv'
<1>1. UNCHANGED <<net, sent, peer, cur, pkt, todo, tgt>>
  BY DEF SignUpToDB, Login, FillIds
<1>2. \A v \in Workers : v # w => pc'[v] = pc[v]
  BY DEF IInv, TypeOK, SignUpToDB, Login, FillIds, Goto
<1>3. pkt[w].type # "TEXT" /\ cur[w] \in Clients
  BY OnlyOwner DEF IInv, HandlerState, SignUpToDB, Login, FillIds, Goto
<1>4. \A v \in Workers : Undisturbed(v)
  BY <1>1, <1>2, <1>3, Untouched
<1>5. \E m \in Message : Send(cur[w], m) /\ m.type # "TEXT"
  <2>1. CASE SignUpToDB(w) \/ Login(w)
    <3>1. PICK type \in Requests, ok \in BOOLEAN : Send(cur[w], Reply(type, ok))
      BY <2>1 DEF SignUpToDB, Login, Requests
    <3>2. /\ Reply(type, ok) \in Message
          /\ Reply(type, ok).type # "TEXT"
      BY DEF Reply, Message, Requests
    <3>3. QED
      BY <3>1, <3>2
  <2>2. CASE FillIds(w)
    BY <2>2, RosterSent
  <2>3. QED
    BY <2>1, <2>2
<1>6. QED
  BY <1>1, <1>3, <1>4, <1>5, UndisturbedKeeps

LEMMA ClientSendOrder ==
  ASSUME IInv, LoopInv, OrderInv, NEW n \in Clients, ClientSend(n)
  PROVE  OrderInv'
<1>1. /\ UNCHANGED <<pc, cur, pkt, todo, tgt, peer, out>>
      /\ peer[n] = "open" /\ net[n] = NoPacket
  BY DEF ClientSend
<1>2. PICK p : /\ p.no = Len(sent[n]) + 1
               /\ net' = [net EXCEPT ![n] = p]
               /\ sent' = [sent EXCEPT ![n] = Append(@, p)]
  BY DEF ClientSend
<1>3. \A m \in Clients : m # n => net'[m] = net[m] /\ sent'[m] = sent[m]
  BY <1>2 DEF IInv, TypeOK
<1>4. /\ DOMAIN sent[n] = 1 .. Len(sent[n]) /\ Len(sent[n]) \in Nat
      /\ DOMAIN sent'[n] = 1 .. Len(sent[n]) + 1
      /\ Len(sent'[n]) = Len(sent[n]) + 1
      /\ \A k \in DOMAIN sent[n] : sent'[n][k] = sent[n][k]
      /\ sent'[n][Len(sent[n]) + 1] = p /\ net'[n] = p
  BY <1>2 DEF IInv, TypeOK
<1>5. net'[n] # NoPacket
  BY <1>2, <1>4 DEF NoPacket
<1>6. \A m \in Clients : \A k \in DOMAIN sent[m] :
        k \in DOMAIN sent'[m] /\ sent'[m][k] = sent[m][k]
  BY <1>3, <1>4
<1>7. \A m \in Clients : \A k \in DOMAIN sent'[m] :
        k \in DOMAIN sent[m] \/ (InNet(m, k)' /\ k = Len(sent[m]) + 1)
  BY <1>3, <1>4, <1>5 DEF InNet
<1>8. ASSUME NEW r \in Clients, NEW m \in Clients, NEW k \in DOMAIN sent[m],
             Coming(r, m, k) \/ Lost(m, k)
      PROVE  Coming(r, m, k)' \/ Lost(m, k)'
  <2>1. CASE InNet(m, k) \/ Lost(m, k)
    <3>1. m # n
      BY <1>1, <2>1 DEF InNet, Lost
    <3>2. QED
      BY <1>1, <1>3, <2>1, <3>1 DEF Coming, InNet, Lost
  <2>2. CASE \E w \in Workers : cur[w] = m /\ Carries(w, r) /\ pkt[w].no = k
    BY <1>1, <2>2 DEF Coming, Carries, Ahead, Looping
  <2>3. QED
    BY <1>8, <2>1, <2>2 DEF Coming
<1>9. ASSUME NEW r \in Clients, NEW m \in Clients, NEW a \in DOMAIN sent[m],
             Before(r, m, a)
      PROVE  Before(r, m, a)'
  BY <1>1, <1>3, <1>4, <1>9 DEF Before, Carries, Ahead, Looping
<1>10. QED
  BY <1>1, <1>6, <1>7, <1>8, <1>9, OrderKeeps

LEMMA ClientResetOrder ==
  ASSUME IInv, OrderInv, NEW n \in Clients, ClientReset(n)
  PROVE  OrderInv'
<1>1. /\ UNCHANGED <<pc, cur, pkt, todo, tgt, sent, out>>
      /\ net' = net \/ net' = [net EXCEPT ![n] = NoPacket]
      /\ peer' = [peer EXCEPT ![n] = "reset"]
  BY DEF ClientReset
<1>2. \A m \in Clients :
        /\ peer[m] = "reset" => peer'[m] = "reset"
        /\ peer'[m] = "open" => peer[m] = "open"
        /\ net'[m] = net[m] \/ (peer'[m] = "reset" /\ net'[m] = NoPacket)
  BY <1>1 DEF IInv, TypeOK
<1>3. ASSUME NEW r \in Clients, NEW m \in Clients, NEW k \in DOMAIN sent[m],
             Coming(r, m, k) \/ Lost(m, k)
      PROVE  Coming(r, m, k)' \/ Lost(m, k)'
  <2>1. CASE InNet(m, k) \/ Lost(m, k)
    BY <1>1, <1>2, <2>1 DEF Coming, InNet, Lost
  <2>2. CASE \E w \in Workers : cur[w] = m /\ Carries(w, r) /\ pkt[w].no = k
    BY <1>1, <2>2 DEF Coming, Carries, Ahead, Looping
  <2>3. QED
    BY <1>3, <2>1, <2>2 DEF Coming
<1>4. ASSUME NEW r \in Clients, NEW m \in Clients, NEW a \in DOMAIN sent[m],
             Before(r, m, a)
      PROVE  Before(r, m, a)'
  BY <1>1, <1>2, <1>4 DEF Before, Carries, Ahead, Looping
<1>5. QED
  BY <1>1, <1>2, <1>3, <1>4, OrderKeeps

\* What was on its way a worker has now.
LEMMA DequeueOrder ==
  ASSUME IInv, LoopInv, OrderInv, NEW w \in Workers, NEW n \in Clients,
         DequeuePacket(w, n)
  PROVE  OrderInv'
<1>1. /\ UNCHANGED <<peer, sent, out, todo, tgt>>
      /\ pc[w] = "gqcs" /\ net[n] # NoPacket
      /\ pc'[w] = "dispatch" /\ cur'[w] = n /\ pkt'[w] = net[n]
      /\ net'[n] = NoPacket
      /\ \A v \in Workers : v # w => /\ pc'[v] = pc[v] /\ cur'[v] = cur[v]
                                     /\ pkt'[v] = pkt[v]
      /\ \A m \in Clients : m # n => net'[m] = net[m]
  BY DEF IInv, TypeOK, DequeuePacket, TakeCompletion, Goto
<1>2. /\ net[n] = sent[n][Len(sent[n])] /\ net[n].no = Len(sent[n])
      /\ Len(sent[n]) \in DOMAIN sent[n]
  BY <1>1 DEF LoopInv, Numbered
<1>3. \A r \in Clients : /\ ~Carries(w, r)
                         /\ Carries(w, r)' <=> net[n].type = "TEXT"
  BY <1>1 DEF Carries, Ahead, Looping
<1>4. \A v \in Workers, r \in Clients :
        v # w => (Carries(v, r)' <=> Carries(v, r))
  BY <1>1 DEF Carries, Ahead, Looping
<1>5. ASSUME NEW r \in Clients, NEW m \in Clients, NEW k \in DOMAIN sent[m],
             WroteText(m, k), Coming(r, m, k) \/ Lost(m, k)
      PROVE  Coming(r, m, k)' \/ Lost(m, k)'
  <2>1. CASE m = n /\ InNet(m, k)
    <3>1. Carries(w, r)' /\ pkt'[w].no = k
      BY <1>1, <1>2, <1>3, <1>5, <2>1 DEF WroteText, InNet
    <3>2. QED
      BY <1>1, <2>1, <3>1 DEF Coming
  <2>2. CASE m # n /\ InNet(m, k)
    BY <1>1, <2>2 DEF Coming, InNet
  <2>3. CASE Lost(m, k)
    BY <1>1, <2>3 DEF Lost
  <2>4. ASSUME NEW v \in Workers, cur[v] = m, Carries(v, r), pkt[v].no = k
        PROVE  Coming(r, m, k)'
    <3>1. v # w
      BY <1>3, <2>4
    <3>2. QED
      BY <1>1, <1>4, <2>4, <3>1 DEF Coming
  <2>5. QED
    BY <1>5, <2>1, <2>2, <2>3, <2>4 DEF Coming
<1>6. ASSUME NEW r \in Clients, NEW m \in Clients, NEW a \in DOMAIN sent[m],
             Before(r, m, a)
      PROVE  Before(r, m, a)'
  <2>1. ASSUME NEW v \in Workers, cur'[v] = m, Carries(v, r)'
        PROVE  a < pkt'[v].no
    <3>1. CASE v = w
      <4>1. m = n /\ a # Len(sent[n])
        BY <1>1, <1>6, <2>1, <3>1 DEF Before
      <4>2. a \in 1 .. Len(sent[n]) /\ Len(sent[n]) \in Nat
        BY <4>1, SentFacts
      <4>3. QED
        BY <1>1, <1>2, <3>1, <4>1, <4>2
    <3>2. CASE v # w
      BY <1>1, <1>4, <1>6, <2>1, <3>2 DEF Before
    <3>3. QED
      BY <3>1, <3>2
  <2>2. net'[m] # NoPacket => a # Len(sent'[m])
    BY <1>1, <1>6 DEF Before
  <2>3. QED
    BY <2>1, <2>2 DEF Before
<1>7. QED
  BY <1>1, <1>5, <1>6, OrderKeeps

\* A newcomer got nothing yet.
LEMMA AcceptOrder ==
  ASSUME IInv, TextInv, OrderInv, Accept
  PROVE  OrderInv'
<1>1. /\ UNCHANGED <<out, net, sent, pc, cur, pkt, tgt>>
      /\ \A m \in Clients : m # clientCount => peer'[m] = peer[m]
      /\ \A v \in Workers : /\ todo[v] \subseteq todo'[v]
                            /\ todo'[v] \subseteq todo[v] \cup {clientCount}
  BY DEF IInv, TypeOK, Accept
<1>2. clientCount \in Clients
  BY BoundsAssumption DEF IInv, TypeOK, Accept, Clients
<1>3. out[clientCount] = <<>> /\ peer[clientCount] = "none"
  BY <1>2 DEF TextInv, FutureSilent, Clients
<1>4. ASSUME NEW r \in Clients, NEW m \in Clients, NEW k \in DOMAIN sent[m],
             Coming(r, m, k) \/ Lost(m, k)
      PROVE  Coming(r, m, k)' \/ Lost(m, k)'
  BY <1>1, <1>3, <1>4 DEF Coming, Carries, Ahead, Looping, InNet, Lost
<1>5. ASSUME NEW r \in Clients, NEW m \in Clients, NEW a \in DOMAIN sent[m],
             Got(r, m, a), Before(r, m, a)
      PROVE  Before(r, m, a)'
  <2>1. r # clientCount
    BY <1>3, <1>5 DEF Got
  <2>2. \A v \in Workers : Carries(v, r)' => Carries(v, r)
    BY <1>1, <2>1 DEF Carries, Ahead, Looping
  <2>3. QED
    BY <1>1, <1>5, <2>2 DEF Before
<1>6. QED
  BY <1>1, <1>3, <1>4, <1>5, OrderKeeps

\* A turn of a loop: the text that is sent is newer than all its target got, and
\* none is left out between them.
LEMMA SendTextOrder ==
  ASSUME IInv, ByeInv, LoopInv, OrderInv, NEW w \in Workers, SendToTarget(w),
         NEW t \in Clients, NEW s \in Clients, NEW m \in Message,
         t = tgt[w], s = cur[w], m = msg[w],
         m.type = "TEXT", peer[t] = "open"
  PROVE  OrderInv'
<1>1. /\ UNCHANGED <<peer, sent, net, todo, cur, pkt>>
      /\ pc[w] = "send" /\ pc'[w] = "next"
      /\ \A v \in Workers : v # w => pc'[v] = pc[v] /\ tgt'[v] = tgt[v]
      /\ out' = [out EXCEPT ![t] = Append(@, m)]
  BY DEF IInv, TypeOK, SendToTarget, Send, Goto
<1>2. /\ m.src = s /\ t # s /\ t \notin todo[w]
      /\ pkt[w].type = "TEXT" /\ m.no = pkt[w].no
  BY <1>1 DEF LoopInv, LoopsApart, Looping, ByeInv, LoopsOwn, OwnMessage
<1>3. /\ \A v \in Workers : cur[v] = s => v = w
      /\ Carries(w, t) /\ LastTaken(s, m.no)
  <2>1. LastTaken(s, pkt[w].no)
    BY <1>1, <1>2 DEF LoopInv, Numbered
  <2>2. QED
    BY <1>1, <1>2, <2>1, OnlyOwner DEF Carries, Ahead, Looping
<1>4. /\ \A r \in Clients : r # t => out'[r] = out[r]
      /\ out[t] \in Seq(Message) /\ Len(out[t]) \in Nat
      /\ DOMAIN out[t] = 1 .. Len(out[t])
      /\ DOMAIN out'[t] = 1 .. Len(out[t]) + 1
      /\ \A i \in DOMAIN out[t] : out'[t][i] = out[t][i]
      /\ out'[t][Len(out[t]) + 1] = m
  BY <1>1 DEF IInv, TypeOK
<1>5. ASSUME NEW r \in Clients, NEW n \in Clients, NEW k
      PROVE  Got(r, n, k)' <=> Got(r, n, k) \/ (r = t /\ n = s /\ k = m.no)
  <2>1. CASE r # t
    BY <1>4, <2>1 DEF Got
  <2>2. ASSUME r = t, Got(r, n, k)' PROVE Got(r, n, k) \/ (n = s /\ k = m.no)
    <3>1. PICK i \in DOMAIN out'[t] : /\ out'[t][i].type = "TEXT"
                                     /\ out'[t][i].src = n
                                     /\ out'[t][i].no = k
      BY <2>2 DEF Got
    <3>2. i \in DOMAIN out[t] \/ i = Len(out[t]) + 1
      BY <1>4
    <3>3. QED
      BY <1>2, <1>4, <2>2, <3>1, <3>2 DEF Got
  <2>3. ASSUME r = t, Got(r, n, k) PROVE Got(r, n, k)'
    <3>1. PICK i \in DOMAIN out[t] : /\ out[t][i].type = "TEXT"
                                    /\ out[t][i].src = n
                                    /\ out[t][i].no = k
      BY <2>3 DEF Got
    <3>2. i \in DOMAIN out'[t] /\ out'[t][i] = out[t][i]
      BY <1>4
    <3>3. QED
      BY <2>3, <3>1, <3>2 DEF Got
  <2>4. Got(t, s, m.no)'
    <3>1. Len(out[t]) + 1 \in DOMAIN out'[t]
      BY <1>4
    <3>2. QED
      BY <1>2, <1>4, <3>1 DEF Got
  <2>5. QED
    BY <2>1, <2>2, <2>3, <2>4
<1>6. /\ \A k \in DOMAIN sent[s] : Got(t, s, k) => k < m.no
      /\ \A i \in DOMAIN out[t] : TextOf(t, s, i) => out[t][i].no < m.no
  <2>1. \A k \in DOMAIN sent[s] : Got(t, s, k) => k < m.no
    BY <1>2, <1>3 DEF OrderInv, GotBefore, Before
  <2>2. \A i \in DOMAIN out[t] :
          TextOf(t, s, i) => /\ out[t][i].no \in DOMAIN sent[s]
                             /\ Got(t, s, out[t][i].no)
    BY DEF OrderInv, OthersTexts, TextOf, Got
  <2>3. QED
    BY <2>1, <2>2
<1>7. m.no \in DOMAIN sent[s] /\ m.no \in Nat
  BY <1>3, SentFacts DEF LastTaken
<1>8. OthersTexts'
  BY <1>1, <1>2, <1>4, <1>7 DEF OrderInv, OthersTexts, TextOf
<1>9. Increasing'
  <2> SUFFICES ASSUME NEW r \in Clients, NEW n \in Clients,
                      NEW i \in DOMAIN out'[r], NEW j \in DOMAIN out'[r],
                      i < j, TextOf(r, n, i)', TextOf(r, n, j)'
               PROVE  out'[r][i].no < out'[r][j].no
    BY DEF Increasing
  <2>1. CASE i \in DOMAIN out[r] /\ j \in DOMAIN out[r]
    <3>1. out'[r][i] = out[r][i] /\ out'[r][j] = out[r][j]
      BY <1>4, <2>1
    <3>2. TextOf(r, n, i) /\ TextOf(r, n, j)
      BY <3>1 DEF TextOf
    <3>3. QED
      BY <2>1, <3>1, <3>2 DEF OrderInv, Increasing
  <2>2. CASE ~(i \in DOMAIN out[r] /\ j \in DOMAIN out[r])
    <3>1. r = t /\ i \in DOMAIN out[t] /\ j = Len(out[t]) + 1
      BY <1>4, <2>2
    <3>2. n = s /\ out'[r][i] = out[r][i] /\ out'[r][j] = m
      BY <1>2, <1>4, <3>1 DEF TextOf
    <3>3. QED
      BY <1>6, <3>1, <3>2 DEF TextOf
  <2>3. QED
    BY <2>1, <2>2
<1>10. ASSUME NEW r \in Clients, NEW n \in Clients, NEW k \in DOMAIN sent[n],
              Coming(r, n, k), ~(r = t /\ n = s /\ k = m.no)
       PROVE  Coming(r, n, k)'
  <2>1. CASE InNet(n, k)
    BY <1>1, <2>1 DEF Coming, InNet
  <2>2. ASSUME NEW v \in Workers, cur[v] = n, Carries(v, r), pkt[v].no = k
        PROVE  Coming(r, n, k)'
    <3>1. CASE v # w
      BY <1>1, <2>2, <3>1 DEF Coming, Carries, Ahead, Looping
    <3>2. CASE v = w
      <4>1. r # t
        BY <1>2, <1>10, <2>2, <3>2
      <4>2. QED
        BY <1>1, <2>2, <3>2, <4>1 DEF Coming, Carries, Ahead, Looping
    <3>3. QED
      BY <3>1, <3>2
  <2>3. QED
    BY <1>10, <2>1, <2>2 DEF Coming
<1>11. NoneBetween'
  <2> SUFFICES ASSUME NEW r \in Clients, NEW n \in Clients,
                      NEW a \in DOMAIN sent[n], NEW k \in DOMAIN sent[n],
                      NEW b \in DOMAIN sent[n],
                      Got(r, n, a)', Got(r, n, b)', a < k, k < b,
                      WroteText(n, k)
               PROVE  Got(r, n, k)'
    BY <1>1 DEF NoneBetween, WroteText
  <2>1. a \in Nat /\ k \in Nat /\ b \in Nat
    BY SentFacts
  <2>2. CASE Got(r, n, a) /\ Got(r, n, b)
    BY <1>5, <2>2 DEF OrderInv, NoneBetween
  <2>3. CASE r = t /\ n = s /\ b = m.no
    <3>1. Got(t, s, a)
      BY <1>5, <2>1, <2>3
    <3>2. Got(t, s, k) \/ Coming(t, s, k) \/ Lost(s, k)
      BY <2>3, <3>1 DEF OrderInv, RestComing
    <3>3. Len(sent[s]) \in Nat /\ b <= Len(sent[s])
      BY <2>3, SentFacts
    <3>4. ~InNet(s, k) /\ ~Lost(s, k)
      BY <2>1, <3>3 DEF InNet, Lost
    <3>5. ~Coming(t, s, k)
      BY <1>2, <1>3, <2>1, <2>3, <3>4 DEF Coming
    <3>6. QED
      BY <1>5, <2>3, <3>2, <3>4, <3>5
  <2>4. CASE r = t /\ n = s /\ a = m.no
    <3>1. b # m.no
      BY <2>1, <2>4
    <3>2. Got(t, s, b)
      BY <1>5, <2>4, <3>1
    <3>3. QED
      BY <1>6, <2>1, <2>4, <3>2
  <2>5. QED
    BY <1>5, <2>2, <2>3, <2>4
<1>12. GotBefore'
  <2> SUFFICES ASSUME NEW r \in Clients, NEW n \in Clients,
                      NEW a \in DOMAIN sent[n], Got(r, n, a)'
               PROVE  Before(r, n, a)'
    BY <1>1 DEF GotBefore
  <2>1. \A v \in Workers : Carries(v, r)' => Carries(v, r)
    BY <1>1 DEF Carries, Ahead, Looping
  <2>2. CASE Got(r, n, a)
    <3>1. Before(r, n, a)
      BY <2>2 DEF OrderInv, GotBefore
    <3>2. QED
      BY <1>1, <2>1, <3>1 DEF Before
  <2>3. CASE r = t /\ n = s /\ a = m.no
    <3>1. net[n] # NoPacket => a # Len(sent[n])
      BY <1>3, <2>3 DEF LastTaken
    <3>2. ~Carries(w, r)'
      BY <1>1, <1>2, <2>3 DEF Carries, Ahead, Looping
    <3>3. QED
      BY <1>1, <1>3, <2>3, <3>1, <3>2 DEF Before
  <2>4. QED
    BY <1>5, <2>2, <2>3
<1>13. RestComing'
  <2> SUFFICES ASSUME NEW r \in Clients, NEW n \in Clients,
                      NEW a \in DOMAIN sent[n], NEW k \in DOMAIN sent[n],
                      peer[r] = "open", Got(r, n, a)', a < k, WroteText(n, k)
               PROVE  Got(r, n, k)' \/ Coming(r, n, k)' \/ Lost(n, k)'
    BY <1>1 DEF RestComing, WroteText
  <2>1. Lost(n, k) => Lost(n, k)'
    BY <1>1 DEF Lost
  <2>2. CASE Got(r, n, a)
    <3>1. Got(r, n, k) \/ Coming(r, n, k) \/ Lost(n, k)
      BY <2>2 DEF OrderInv, RestComing
    <3>2. QED
      BY <1>5, <1>10, <2>1, <3>1
  <2>3. CASE r = t /\ n = s /\ a = m.no
    <3>1. InNet(n, k) \/ Lost(n, k)
      BY <1>3, <2>3 DEF LastTaken
    <3>2. QED
      BY <1>1, <2>1, <3>1 DEF Coming, InNet
  <2>4. QED
    BY <1>5, <2>2, <2>3
<1>14. QED
  BY <1>8, <1>9, <1>11, <1>12, <1>13 DEF OrderInv

\* Any other turn of a loop sends no text to anyone who is there.
LEMMA SendOtherOrder ==
  ASSUME IInv, LoopInv, OrderInv, NEW w \in Workers, SendToTarget(w),
         msg[w].type # "TEXT" \/ peer[tgt[w]] # "open"
  PROVE  OrderInv'
<1>1. /\ UNCHANGED <<peer, sent, net, todo, cur, pkt>>
      /\ pc[w] = "send" /\ pc'[w] = "next"
      /\ \A v \in Workers : v # w => pc'[v] = pc[v] /\ tgt'[v] = tgt[v]
      /\ Send(tgt[w], msg[w])
  BY DEF IInv, TypeOK, SendToTarget, Goto
<1>2. tgt[w] \in Clients /\ msg[w] \in Message
  BY <1>1 DEF IInv, HandlerState
<1>3. msg[w].type = "TEXT" <=> pkt[w].type = "TEXT"
  BY <1>1 DEF LoopInv, LoopsApart, Looping
<1>4. \A v \in Workers : v # w => Undisturbed(v)
  BY <1>1, Untouched
<1>5. Undisturbed(w)
  BY <1>1, <1>3 DEF Undisturbed, Carries, Ahead, Looping
<1>6. \/ out' = out
      \/ \E r \in Clients, m \in Message : Send(r, m) /\ m.type # "TEXT"
  BY <1>1, <1>2 DEF Send
<1>7. QED
  BY <1>1, <1>4, <1>5, <1>6, UndisturbedKeeps

LEMMA InitOrder == Init => OrderInv
BY DEF Init, OrderInv, OthersTexts, Increasing, NoneBetween, GotBefore,
       RestComing, Got

LEMMA NextOrder ==
  IInv /\ TextInv /\ ByeInv /\ FareInv /\ LoopInv /\ OrderInv /\ [Next]_vars
    => OrderInv'
<1> SUFFICES ASSUME IInv, TextInv, ByeInv, FareInv, LoopInv, OrderInv,
                    [Next]_vars
             PROVE  OrderInv'
  OBVIOUS
<1>1. ASSUME NEW w \in Workers, Worker(w) PROVE OrderInv'
  <2>1. CASE \E n \in Clients : Dequeue(w, n)
    BY <2>1, DequeueOrder, UndisturbedSilent DEF Dequeue
  <2>2. CASE SendToTarget(w)
    <3>1. tgt[w] \in Clients /\ cur[w] \in Clients /\ msg[w] \in Message
      BY <2>2, OnlyOwner DEF IInv, HandlerState, SendToTarget, Goto
    <3>2. QED
      BY <2>2, <3>1, SendTextOrder, SendOtherOrder
  <2>3. CASE Enter(w) \/ PickTarget(w) \/ BroadcastDone(w)
    BY <2>3, UndisturbedSilent
  <2>4. CASE Handle(w) \/ RemoveDisconnectedClient(w)
    BY <2>4, UndisturbedSilent, UndisturbedAnswer
    DEF Handle, RemoveDisconnectedClient
  <2>5. QED
    BY <1>1, <2>1, <2>2, <2>3, <2>4 DEF Worker, Broadcast
<1>2. CASE Accepter \/ (\E n \in Clients : Client(n)) \/ UNCHANGED vars
  BY <1>2, UndisturbedElsewhere, AcceptOrder, ClientSendOrder, ClientResetOrder
  DEF Accepter, Client
<1>3. QED
  BY <1>1, <1>2 DEF Next

\* Texts in order with none left out are a block.
LEMMA InOrderContiguous ==
  ASSUME IInv, OrderInv
  PROVE  TextsContiguous
<1> SUFFICES ASSUME NEW r \in Clients, NEW n \in Clients,
                    NEW i \in DOMAIN out[r], NEW j \in DOMAIN out[r],
                    i < j, TextOf(r, n, i), TextOf(r, n, j),
                    \A p \in i + 1 .. j - 1 : ~TextOf(r, n, p)
             PROVE  /\ out[r][i].no < out[r][j].no
                    /\ \A k \in DOMAIN sent[n] :
                         ~(/\ sent[n][k].type = "TEXT"
                           /\ out[r][i].no < k /\ k < out[r][j].no)
  BY DEF TextsContiguous, TextOf
<1>1. out[r][i].no < out[r][j].no
  BY DEF OrderInv, Increasing
<1>2. ASSUME NEW k \in DOMAIN sent[n], sent[n][k].type = "TEXT",
             out[r][i].no < k, k < out[r][j].no
      PROVE  FALSE
  <2>1. /\ out[r][i].no \in DOMAIN sent[n] /\ out[r][j].no \in DOMAIN sent[n]
        /\ Got(r, n, out[r][i].no) /\ Got(r, n, out[r][j].no)
    BY DEF OrderInv, OthersTexts, TextOf, Got
  <2>2. Got(r, n, k)
    BY <1>2, <2>1 DEF OrderInv, NoneBetween, WroteText
  <2>3. PICK p \in DOMAIN out[r] : TextOf(r, n, p) /\ out[r][p].no = k
    BY <2>2 DEF Got, TextOf
  <2>4. /\ i \in Nat /\ j \in Nat /\ p \in Nat
        /\ out[r][i].no \in Nat /\ out[r][j].no \in Nat /\ k \in Nat
    BY <2>1, SentFacts
  <2>5. p # i /\ p # j
    BY <1>2, <2>3, <2>4
  <2>6. ~(p < i) /\ ~(j < p)
    BY <1>2, <2>3, <2>4 DEF OrderInv, Increasing
  <2>7. p \in i + 1 .. j - 1
    BY <2>4, <2>5, <2>6
  <2>8. QED
    BY <2>3, <2>7
<1>3. QED
  BY <1>1, <1>2

\* Of another's texts a client is sent a block, in the order they were written,
\* with none left out in between: the handlers and their loops take no lock, but
\* the next receive of a connection is posted when the loop of its text is over.
THEOREM TextsUnbroken == Spec => []TextsContiguous
<1>1. IInv /\ OrderInv => TextsContiguous
  BY InOrderContiguous
<1>2. QED
  BY <1>1, InitText, NextText, InitBye, NextBye, InitFare, NextFare, InitLoop,
     NextLoop, InitOrder, NextOrder, Invariance, PTL DEF Spec
=============================================================================
