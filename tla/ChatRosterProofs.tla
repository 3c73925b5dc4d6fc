-------------------------- MODULE ChatRosterProofs --------------------------
(***************************************************************************)
(* Proofs about the lists of ids, for every number of workers and          *)
(* connections: when nothing is under way the server's list is exactly the *)
(* ids in session, and every client has every other one in its list.  The  *)
(* lists are folds of the histories of ChatServer; FoldSteps unfolds them  *)
(* one message at a time.                                                  *)
(***************************************************************************)
EXTENDS ChatServerProofs, ChatRoster

Scan   == INSTANCE FoldSteps WITH Op <- ScanItem
Server == INSTANCE FoldSteps WITH Op <- ShowInServer
Dialog == INSTANCE FoldSteps WITH Op <- Show
Adds   == INSTANCE FoldSteps WITH Op <- AddId

USE DEF accepterVars, mapVars, loopVars, clientVars

\* x stands in s at most once.
Once(s, x) == \A i, j \in DOMAIN s : s[i] = x /\ s[j] = x => i = j

\* A sequence that is not empty is a shorter one and its last element.
Split(S) ==
  \A n \in Nat : \A q \in Seq(S) : Len(q) = n + 1 =>
    \E s \in Seq(S), x \in S : Len(s) = n /\ q = Append(s, x)

\* Every sequence splits so: its front and its last element.
LEMMA LastApart ==
  ASSUME NEW S
  PROVE  Split(S)
<1> USE DEF Split
<1> TAKE n \in Nat
<1> TAKE q \in Seq(S)
<1> HAVE Len(q) = n + 1
<1> DEFINE s == [i \in 1 .. n |-> q[i]]
<1>1. s \in Seq(S) /\ Len(s) = n
  OBVIOUS
<1>2. q[n + 1] \in S
  OBVIOUS
<1>3. q = Append(s, q[n + 1])
  OBVIOUS
<1> HIDE DEF s
<1>4. QED
  BY <1>1, <1>2, <1>3, Zenon

\* What is in a list with one more item.
LEMMA InLonger ==
  ASSUME NEW S, NEW s \in Seq(S), NEW x \in S
  PROVE  /\ \A y : y \in ToSet(Append(s, x)) <=> y \in ToSet(s) \/ y = x
         /\ \A y : Once(Append(s, x), y)
                     <=> Once(s, y) /\ (y = x => x \notin ToSet(s))
<1>1. /\ DOMAIN Append(s, x) = 1 .. Len(s) + 1 /\ DOMAIN s = 1 .. Len(s)
      /\ Len(s) \in Nat
      /\ \A i \in 1 .. Len(s) : Append(s, x)[i] = s[i]
      /\ Append(s, x)[Len(s) + 1] = x
  OBVIOUS
<1>2. \A i \in 1 .. Len(s) + 1 : i \in 1 .. Len(s) \/ i = Len(s) + 1
  BY <1>1
<1>3. 1 .. Len(s) \subseteq 1 .. Len(s) + 1 /\ Len(s) + 1 \in 1 .. Len(s) + 1
      /\ Len(s) + 1 \notin 1 .. Len(s)
  BY <1>1
<1>4. \A y : y \in ToSet(Append(s, x)) <=> y \in ToSet(s) \/ y = x
  BY <1>1, <1>2, <1>3 DEF ToSet
<1>5. ASSUME NEW y, Once(Append(s, x), y)
      PROVE  Once(s, y) /\ (y = x => x \notin ToSet(s))
  BY <1>1, <1>3, <1>5 DEF ToSet, Once
<1>6. ASSUME NEW y, Once(s, y), y = x => x \notin ToSet(s)
      PROVE  Once(Append(s, x), y)
  BY <1>1, <1>2, <1>3, <1>6 DEF ToSet, Once
<1>7. QED
  BY <1>4, <1>5, <1>6

ScanStart(id) == [id |-> id, kept |-> <<>>, skip |-> FALSE]

\* RemoveId looks at the items one after the other.
LEMMA RemoveIdScans ==
  ASSUME NEW id
  PROVE  /\ \A list : RemoveId(list, id) = Scan!Fold(ScanStart(id), list).kept
         /\ Scan!Fold(ScanStart(id), <<>>) = ScanStart(id)
<1>1. \A list : RemoveId(list, id) = Scan!Fold(ScanStart(id), list).kept
  BY DEF RemoveId, ScanStart, Scan!Fold, Scan!FoldLeft, FoldLeft,
         Scan!MapThenFoldSet, MapThenFoldSet, Scan!Max, Max
<1>2. QED
  BY <1>1, Scan!FoldEmpty

\* What a scan of list s for id has kept, and when it skips the next item.
ScanRight(s, S, id, r) ==
  /\ r.id = id /\ r.kept \in Seq(S) /\ r.skip \in BOOLEAN
  /\ \A x : x # id => /\ x \in ToSet(r.kept) <=> x \in ToSet(s)
                      /\ Once(s, x) => Once(r.kept, x)
  /\ Once(s, id) => id \notin ToSet(r.kept) /\ (r.skip => id \in ToSet(s))

\* What RemoveId does with one more id at the end of the list.
LEMMA ScanStep ==
  ASSUME NEW S, NEW s \in Seq(S), NEW x \in S, NEW id, NEW r,
         ScanRight(s, S, id, r)
  PROVE  ScanRight(Append(s, x), S, id, ScanItem(r, x))
<1> DEFINE q == Append(s, x)
           t == ScanItem(r, x)
<1> SUFFICES ScanRight(q, S, id, t)
  OBVIOUS
<1>1. /\ \A y : y \in ToSet(q) <=> y \in ToSet(s) \/ y = x
      /\ \A y : Once(q, y) <=> Once(s, y) /\ (y = x => x \notin ToSet(s))
  BY InLonger
<1>2. CASE x = id /\ ~r.skip
  <2>1. t.id = id /\ t.kept = r.kept /\ t.skip = TRUE
    BY <1>2 DEF ScanItem, ScanRight
  <2> HIDE DEF q, t
  <2>2. QED
    BY <1>1, <1>2, <2>1 DEF ScanRight
<1>3. CASE ~(x = id /\ ~r.skip)
  <2>1. t.id = id /\ t.kept = Append(r.kept, x) /\ t.skip = FALSE
    BY <1>3 DEF ScanItem, ScanRight
  <2>2. r.kept \in Seq(S)
    BY DEF ScanRight
  <2>3. /\ \A y : y \in ToSet(t.kept) <=> y \in ToSet(r.kept) \/ y = x
        /\ \A y : Once(t.kept, y)
                    <=> Once(r.kept, y) /\ (y = x => x \notin ToSet(r.kept))
        /\ t.kept \in Seq(S)
    BY <2>1, <2>2, InLonger
  <2> HIDE DEF q, t
  <2>4. Once(q, id) => x # id
    BY <1>1, <1>3 DEF ScanRight
  <2>5. \A y : y # id => /\ y \in ToSet(t.kept) <=> y \in ToSet(q)
                         /\ Once(q, y) => Once(t.kept, y)
    BY <1>1, <2>3 DEF ScanRight
  <2>6. Once(q, id) => id \notin ToSet(t.kept)
    BY <1>1, <2>3, <2>4 DEF ScanRight
  <2>7. QED
    BY <2>1, <2>3, <2>5, <2>6 DEF ScanRight
<1>4. QED
  BY <1>2, <1>3

\* A scan of any list is right.
LEMMA ScanAll ==
  ASSUME NEW S, NEW id
  PROVE  \A list \in Seq(S) :
           ScanRight(list, S, id, Scan!Fold(ScanStart(id), list))
<1>a. Split(S)
  BY LastApart
<1> DEFINE Scanned(q) == ScanRight(q, S, id, Scan!Fold(ScanStart(id), q))
           P == {n \in Nat : \A q \in Seq(S) : Len(q) = n => Scanned(q)}
<1>1. 0 \in P
  <2>1. ScanRight(<<>>, S, id, ScanStart(id))
    BY DEF ScanRight, ScanStart, Once, ToSet
  <2>2. \A q \in Seq(S) : Len(q) = 0 => q = <<>>
    OBVIOUS
  <2>3. QED
    BY <2>1, <2>2, RemoveIdScans
<1>2. ASSUME NEW n \in Nat, n \in P PROVE n + 1 \in P
  <2> SUFFICES ASSUME NEW q \in Seq(S), Len(q) = n + 1 PROVE Scanned(q)
    OBVIOUS
  <2>1. PICK s \in Seq(S), x \in S : Len(s) = n /\ q = Append(s, x)
    BY <1>a DEF Split
  <2>2. Scanned(s)
    BY <1>2, <2>1
  <2>3. Scan!Fold(ScanStart(id), Append(s, x))
          = ScanItem(Scan!Fold(ScanStart(id), s), x)
    BY Scan!FoldAppend
  <2>4. ScanRight(Append(s, x), S, id, ScanItem(Scan!Fold(ScanStart(id), s), x))
    BY <2>2, ScanStep
  <2>5. QED
    BY <2>1, <2>3, <2>4
<1> HIDE DEF P
<1>3. \A n \in Nat : n \in P
  BY <1>1, <1>2, Scan!Induction
<1>4. QED
  BY <1>3 DEF P

\* RemoveId takes no other id out of a list, and takes the id out if it is there
\* only once.
LEMMA RemoveIdRight ==
  ASSUME NEW S, NEW list \in Seq(S), NEW id
  PROVE  /\ RemoveId(list, id) \in Seq(S)
         /\ \A x : x # id => /\ x \in ToSet(RemoveId(list, id)) <=> x \in ToSet(list)
                             /\ Once(list, x) => Once(RemoveId(list, id), x)
         /\ Once(list, id) => id \notin ToSet(RemoveId(list, id))
<1>1. ScanRight(list, S, id, Scan!Fold(ScanStart(id), list))
  BY ScanAll
<1>2. Scan!Fold(ScanStart(id), list).kept = RemoveId(list, id)
  BY RemoveIdScans
<1>3. QED
  BY <1>1, <1>2 DEF ScanRight

-----------------------------------------------------------------------------
(* What a step may do, for the proofs about the lists.                     *)

\* A worker stands still while another one moves, but that an entry deleted goes
\* out of its loop's way.
Stands(v, w) ==
  /\ pc'[v] = pc[v] /\ cur'[v] = cur[v] /\ pkt'[v] = pkt[v] /\ msg'[v] = msg[v]
  /\ tgt'[v] = tgt[v] /\ quantity'[v] = quantity[v]
  /\ \/ todo'[v] = todo[v]
     \/ CloseSocket(w) /\ todo'[v] = todo[v] \ {cur[w]}

\* A step of one worker leaves the other workers as they are.
LEMMA OthersStand ==
  ASSUME IInv, NEW w \in Workers, Worker(w), NEW v \in Workers, v # w
  PROVE  Stands(v, w)
<1>1. CASE Enter(w) \/ Broadcast(w)
  BY <1>1
  DEF IInv, TypeOK, Stands, Enter, Broadcast, PickTarget, SendToTarget,
      BroadcastDone, Goto
<1>2. CASE Handle(w)
  <2>1. CASE SignUpToDB(w) \/ Login(w) \/ LoginToDialog(w) \/ SetId(w)
    BY <2>1
    DEF IInv, TypeOK, Stands, SignUpToDB, Login, LoginToDialog, SetId,
        StartBroadcast, Goto
  <2>2. CASE PrepareRoster(w) \/ FillIds(w) \/ BroadcastText(w) \/ Recv(w)
    BY <2>2
    DEF IInv, TypeOK, Stands, PrepareRoster, CheckAlone, SizePacket, CountIds,
        ReadIdMap, FillIds, BroadcastText, StartBroadcast,
        Recv, BackToLoop, Goto
  <2>3. QED
    BY <1>2, <2>1, <2>2 DEF Handle
<1>3. CASE RemoveDisconnectedClient(w)
  <2>1. CASE StartRemoval(w) \/ RemoveFromDialog(w) \/ Forget(w)
    BY <2>1
    DEF IInv, TypeOK, Stands, StartRemoval, StartBroadcast, RemoveFromDialog,
        Forget, Goto
  <2>2. CASE CloseSocket(w)
    BY <2>2 DEF IInv, TypeOK, Stands, CloseSocket, BackToLoop, Goto
  <2>3. QED
    BY <1>3, <2>1, <2>2 DEF RemoveDisconnectedClient
<1>4. CASE \E n \in Clients : Dequeue(w, n)
  BY <1>4
  DEF IInv, TypeOK, Stands, Dequeue, DequeuePacket, DequeueClosed,
      TakeCompletion, Goto
<1>5. QED
  BY <1>1, <1>2, <1>3, <1>4 DEF Worker

\* A text is signed with the id that idMap has already.
LEMMA TextHasId ==
  ASSUME IInv, TextInv, NEW w \in Workers, BroadcastText(w)
  PROVE  idMap' = idMap
<1>1. /\ cur[w] \in clientsSocketMap /\ cur[w] \in Clients
      /\ \A v \in Workers : cur[v] = cur[w] => v = w
  BY OnlyOwner DEF BroadcastText, Goto
<1>2. idMap[cur[w]] # NoEntry
  BY <1>1 DEF TextInv, PacketsOwn, LoginHasId, BroadcastText, Goto
<1>3. idMap' = [idMap EXCEPT ![cur[w]] = idMap[cur[w]]]
  BY <1>2 DEF BroadcastText
<1>4. QED
  BY <1>3 DEF IInv, TypeOK

\* Which step of a worker touches what the lists depend on.
LEMMA WorkerTouches ==
  ASSUME IInv, TextInv, NEW w \in Workers, Worker(w)
  PROVE  /\ UNCHANGED <<peer, sent, clientCount>>
         /\ SetId(w) \/ Forget(w) \/ idMap' = idMap
         /\ LoginToDialog(w) \/ RemoveFromDialog(w) \/ dlg' = dlg
         /\ (\E n \in Clients : DequeuePacket(w, n)) \/ net' = net
         /\ \/ SendToTarget(w) \/ SignUpToDB(w) \/ Login(w) \/ FillIds(w)
            \/ out' = out
<1>1. UNCHANGED <<peer, sent, clientCount>>
  BY DEF Worker, Enter, Broadcast, PickTarget, SendToTarget, BroadcastDone,
         Handle, SignUpToDB, Login, LoginToDialog, SetId, PrepareRoster,
         CheckAlone, SizePacket, CountIds, ReadIdMap, FillIds,
         BroadcastText, Recv, RemoveDisconnectedClient, StartRemoval,
         RemoveFromDialog, Forget, CloseSocket, Dequeue, DequeuePacket,
         DequeueClosed, TakeCompletion
<1>2. SetId(w) \/ Forget(w) \/ idMap' = idMap
  BY TextHasId
  DEF Worker, Enter, Broadcast, PickTarget, SendToTarget, BroadcastDone,
      Handle, SignUpToDB, Login, LoginToDialog, PrepareRoster, CheckAlone,
      SizePacket, CountIds, ReadIdMap, FillIds, Recv,
      RemoveDisconnectedClient, StartRemoval, RemoveFromDialog, CloseSocket,
      Dequeue, DequeuePacket, DequeueClosed, TakeCompletion
<1>3. LoginToDialog(w) \/ RemoveFromDialog(w) \/ dlg' = dlg
  BY DEF Worker, Enter, Broadcast, PickTarget, SendToTarget, BroadcastDone,
         Handle, SignUpToDB, Login, SetId, PrepareRoster, CheckAlone,
         SizePacket, CountIds, ReadIdMap, FillIds, BroadcastText,
         Recv, RemoveDisconnectedClient, StartRemoval, Forget, CloseSocket,
         Dequeue, DequeuePacket, DequeueClosed, TakeCompletion
<1>4. (\E n \in Clients : DequeuePacket(w, n)) \/ net' = net
  BY DEF Worker, Enter, Broadcast, PickTarget, SendToTarget, BroadcastDone,
         Handle, SignUpToDB, Login, LoginToDialog, SetId, PrepareRoster,
         CheckAlone, SizePacket, CountIds, ReadIdMap, FillIds,
         BroadcastText, Recv, RemoveDisconnectedClient, StartRemoval,
         RemoveFromDialog, Forget, CloseSocket, Dequeue, DequeueClosed,
         TakeCompletion
<1>5. SendToTarget(w) \/ SignUpToDB(w) \/ Login(w) \/ FillIds(w) \/ out' = out
  BY DEF Worker, Enter, Broadcast, PickTarget, BroadcastDone, Handle,
         LoginToDialog, SetId, PrepareRoster, CheckAlone, SizePacket,
         CountIds, ReadIdMap, BroadcastText, Recv,
         RemoveDisconnectedClient, StartRemoval, RemoveFromDialog, Forget,
         CloseSocket, Dequeue, DequeuePacket, DequeueClosed, TakeCompletion
<1>6. QED
  BY <1>1, <1>2, <1>3, <1>4, <1>5

\* The steps of a worker from and to the places that matter.
LEMMA WorkerMoves ==
  ASSUME IInv, NEW w \in Workers, Worker(w)
  PROVE  /\ pc'[w] = "dispatch" => \E n \in Clients : DequeuePacket(w, n)
         /\ pc[w] = "dispatch" => SignUpToDB(w) \/ Login(w) \/ BroadcastText(w)
         /\ pc'[w] = "addId" => Login(w)
         /\ pc'[w] = "setId" \/ pc[w] = "addId" => LoginToDialog(w)
         /\ pc[w] = "setId" => SetId(w)
         /\ pc'[w] = "forget" => RemoveFromDialog(w)
         /\ pc[w] = "forget" => Forget(w)
<1>1. CASE Enter(w) \/ \E n \in Clients : Dequeue(w, n)
  BY <1>1
  DEF IInv, TypeOK, Enter, Dequeue, DequeuePacket, DequeueClosed, Goto
<1>2. CASE Broadcast(w)
  BY <1>2
  DEF IInv, TypeOK, HandlerState, Broadcast, PickTarget, SendToTarget,
      BroadcastDone, AfterBroadcast, Goto
<1>3. CASE Handle(w)
  BY <1>3
  DEF IInv, TypeOK, Handle, SignUpToDB, Login, LoginToDialog, SetId,
      PrepareRoster, CheckAlone, SizePacket, CountIds, ReadIdMap,
      FillIds, BroadcastText, Recv, BackToLoop, Goto
<1>4. CASE RemoveDisconnectedClient(w)
  BY <1>4
  DEF IInv, TypeOK, RemoveDisconnectedClient, StartRemoval, RemoveFromDialog,
      Forget, CloseSocket, BackToLoop, Goto
<1>5. QED
  BY <1>1, <1>2, <1>3, <1>4 DEF Worker

\* The steps of the accepter and of the clients, and a step in which nothing
\* happens.
LEMMA ElsewhereTouches ==
  ASSUME IInv, Accepter \/ (\E n \in Clients : Client(n)) \/ UNCHANGED vars
  PROVE  /\ UNCHANGED <<pc, cur, pkt, msg, tgt, quantity, idMap, dlg, out>>
         /\ \A v \in Workers : todo[v] \subseteq todo'[v]
<1>1. UNCHANGED <<pc, cur, pkt, msg, tgt, quantity, idMap, dlg, out>>
  BY DEF Accepter, Accept, AcceptFails, PostFirstRecv, FirstRecvFails, Client,
         ClientSend, ClientClose, ClientReset, vars
<1>2. Accept \/ todo' = todo
  BY DEF Accepter, AcceptFails, PostFirstRecv, FirstRecvFails, Client,
         ClientSend, ClientClose, ClientReset, vars
<1>3. QED
  BY <1>1, <1>2 DEF Accept

-----------------------------------------------------------------------------
(* The server's list has exactly the ids that are in use.                  *)

\* id is in the server's list for n: from before idMap has it, until before
\* idMap loses it.
Showing(n, id) ==
  \/ idMap[n] = id /\ \A w \in Workers : cur[w] = n => pc[w] # "forget"
  \/ \E w \in Workers : cur[w] = n /\ pc[w] = "setId" /\ pkt[w].id = id

LoginPost(id)  == [type |-> "MSG_CLIENT_LOGIN", id |-> id]
RemovePost(id) == [type |-> "MSG_REMOVE_ID", id |-> id]

\* A login of id was posted, and no removal of it since: one login more, and the
\* id is listed twice.
Active(id) == \E i \in DOMAIN dlg :
                /\ dlg[i] = LoginPost(id)
                /\ \A k \in DOMAIN dlg : i <= k => dlg[k] # RemovePost(id)

\* The list is right about id.
RightAbout(id) ==
  /\ Once(ServerList, id)
  /\ id \in ToSet(ServerList) <=> \E n \in Clients : Showing(n, id)
  /\ \A m, n \in Clients : Showing(m, id) /\ Showing(n, id) => m = n
  /\ id \in ToSet(ServerList) => Active(id)

ListInv ==
  /\ ServerList \in Seq(Names)
  /\ \A id \in Names : ListedTwice(id) \/ RightAbout(id)

\* The list starts empty and follows the posts to the dialog one by one.
LEMMA ServerListSteps ==
  /\ dlg = <<>> => ServerList = <<>>
  /\ \A p \in DialogPost :
       dlg \in Seq(DialogPost) /\ dlg' = Append(dlg, p)
         => ServerList' = ShowInServer(ServerList, p)
  /\ dlg' = dlg => ServerList' = ServerList
<1>1. /\ ServerList = Server!Fold(<<>>, dlg)
      /\ ServerList' = Server!Fold(<<>>, dlg')
  BY DEF ServerList, Server!Fold, Server!FoldLeft, FoldLeft,
         Server!MapThenFoldSet, MapThenFoldSet, Server!Max, Max
<1>2. ASSUME NEW p \in DialogPost, dlg \in Seq(DialogPost), dlg' = Append(dlg, p)
      PROVE  ServerList' = ShowInServer(ServerList, p)
  <2>1. Server!Fold(<<>>, Append(dlg, p)) = ShowInServer(Server!Fold(<<>>, dlg), p)
    BY <1>2, Server!FoldAppend
  <2>2. QED
    BY <1>1, <1>2, <2>1
<1>3. dlg = <<>> => ServerList = <<>>
  BY <1>1, Server!FoldEmpty
<1>4. QED
  BY <1>1, <1>2, <1>3

\* What is shown for a connection is an account of its user.
LEMMA ShowingOwn ==
  ASSUME IInv, TextInv, NEW n \in Clients, NEW id \in Names, Showing(n, id)
  PROVE  id \in LoginIds[n]
<1>1. idMap[n] = id => id \in LoginIds[n]
  BY NullsAssumption DEF TextInv, IdsOwn
<1>2. \A w \in Workers :
        pc[w] = "setId" => pkt[w].type = "LOGIN_INFO" /\ pkt[w].id \in LoginIds[cur[w]]
  BY DEF IInv, HandlerState, TextInv, PacketsOwn
<1>3. QED
  BY <1>1, <1>2 DEF Showing

\* What one post more does: an id listed twice stays so, and is listed twice once
\* an active one is posted again; only its removal ends an active one.
LEMMA PostSteps ==
  ASSUME NEW p \in DialogPost, dlg \in Seq(DialogPost), dlg' = Append(dlg, p),
         NEW id
  PROVE  /\ ListedTwice(id) => ListedTwice(id)'
         /\ Active(id) /\ p = LoginPost(id) => ListedTwice(id)'
         /\ Active(id) /\ p # RemovePost(id) => Active(id)'
         /\ p = LoginPost(id) => Active(id)'
<1> DEFINE last == Len(dlg) + 1
<1>1. /\ DOMAIN dlg = 1 .. Len(dlg) /\ DOMAIN dlg' = 1 .. last /\ Len(dlg) \in Nat
      /\ dlg'[last] = p /\ \A i \in 1 .. Len(dlg) : dlg'[i] = dlg[i]
  OBVIOUS
<1>2. \A k \in 1 .. last : k \in 1 .. Len(dlg) \/ k = last
  BY <1>1
<1>3. last \in 1 .. last /\ \A i \in 1 .. Len(dlg) : i \in 1 .. last /\ i < last
  BY <1>1
<1>4. LoginPost(id) # RemovePost(id)
  BY DEF LoginPost, RemovePost
<1>5. ListedTwice(id) => ListedTwice(id)'
  <2> SUFFICES ASSUME ListedTwice(id) PROVE ListedTwice(id)'
    OBVIOUS
  <2>1. PICK i, j \in DOMAIN dlg :
          /\ i < j /\ dlg[i] = dlg[j] /\ dlg[i] = LoginPost(id)
          /\ \A k \in i .. j : dlg[k] # RemovePost(id)
    BY DEF ListedTwice, LoginPost, RemovePost
  <2>2. i .. j \subseteq 1 .. Len(dlg)
    BY <1>1, <2>1
  <2>3. \A k \in i .. j : dlg'[k] # RemovePost(id)
    BY <1>1, <2>1, <2>2
  <2>4. /\ i \in DOMAIN dlg' /\ j \in DOMAIN dlg'
        /\ dlg'[i] = dlg'[j] /\ dlg'[i] = LoginPost(id)
    BY <1>1, <1>3, <2>1
  <2>5. QED
    BY <2>1, <2>3, <2>4 DEF ListedTwice, LoginPost, RemovePost
<1>6. ASSUME Active(id), p = LoginPost(id) PROVE ListedTwice(id)'
  <2>1. PICK i \in DOMAIN dlg :
          /\ dlg[i] = LoginPost(id)
          /\ \A k \in DOMAIN dlg : i <= k => dlg[k] # RemovePost(id)
    BY <1>6 DEF Active
  <2>2. \A k \in i .. last : dlg'[k] # RemovePost(id)
    BY <1>1, <1>2, <1>4, <1>6, <2>1
  <2>3. QED
    BY <1>1, <1>3, <1>6, <2>1, <2>2 DEF ListedTwice, LoginPost, RemovePost
<1>7. ASSUME Active(id), p # RemovePost(id) PROVE Active(id)'
  <2>1. PICK i \in DOMAIN dlg :
          /\ dlg[i] = LoginPost(id)
          /\ \A k \in DOMAIN dlg : i <= k => dlg[k] # RemovePost(id)
    BY <1>7 DEF Active
  <2>2. \A k \in DOMAIN dlg' : i <= k => dlg'[k] # RemovePost(id)
    BY <1>1, <1>2, <1>7, <2>1
  <2>3. i \in DOMAIN dlg' /\ dlg'[i] = LoginPost(id)
    BY <1>1, <1>3, <2>1
  <2>4. QED
    BY <2>2, <2>3 DEF Active, LoginPost, RemovePost
<1>8. ASSUME p = LoginPost(id) PROVE Active(id)'
  <2>1. \A k \in DOMAIN dlg' : last <= k => dlg'[k] # RemovePost(id)
    BY <1>1, <1>2, <1>3, <1>4, <1>8
  <2>2. last \in DOMAIN dlg' /\ dlg'[last] = LoginPost(id)
    BY <1>1, <1>3, <1>8
  <2>3. QED
    BY <2>1, <2>2 DEF Active, LoginPost, RemovePost
<1>9. QED
  BY <1>5, <1>6, <1>7, <1>8

\* A step that posts nothing and leaves who is shown keeps ListInv.
LEMMA ListKeeps ==
  ASSUME ListInv, dlg' = dlg,
         \A n \in Clients, id \in Names : Showing(n, id)' <=> Showing(n, id)
  PROVE  ListInv'
<1>1. ServerList' = ServerList
  BY ServerListSteps
<1>2. \A id \in Names : /\ ListedTwice(id)' <=> ListedTwice(id)
                        /\ Active(id)' <=> Active(id)
  BY DEF ListedTwice, Active, LoginPost, RemovePost
<1>3. QED
  BY <1>1, <1>2 DEF ListInv, RightAbout, Once

\* The dialog is told of a login before idMap has the id, of a removal before
\* idMap loses it.
LEMMA LoginToDialogList ==
  ASSUME OneAccount, IInv, TextInv, ListInv, NEW w \in Workers,
         LoginToDialog(w)
  PROVE  ListInv'
<1>a. cur[w] \in Clients /\ \A v \in Workers : cur[v] = cur[w] => v = w
  BY OnlyOwner DEF LoginToDialog, Goto
<1> SUFFICES ASSUME NEW n \in Clients, n = cur[w],
                    NEW new \in Names, new = pkt[w].id
             PROVE  ListInv'
  <2>1. pkt[w].id \in Names
    BY PacketFields DEF LoginToDialog, Goto, IInv, HandlerState
  <2>2. QED
    BY <1>a, <2>1
<1>1. /\ UNCHANGED <<idMap, cur, pkt>> /\ pc[w] = "addId" /\ pc'[w] = "setId"
      /\ \A v \in Workers : v # w => pc'[v] = pc[v]
      /\ dlg' = Append(dlg, LoginPost(new))
      /\ LoginPost(new) \in DialogPost /\ dlg \in Seq(DialogPost)
  BY DEF LoginToDialog, Goto, IInv, TypeOK, LoginPost, DialogPost
<1>2. new \in LoginIds[n]
  BY <1>1 DEF IInv, HandlerState, TextInv, PacketsOwn
<1>3. Showing(n, new)' /\ \A id \in Names : Showing(n, id) => id = new
  BY <1>1, <1>2, ShowingOwn DEF OneAccount, Showing
<1>4. \A k \in Clients, id \in Names :
        k # n \/ id # new => (Showing(k, id)' <=> Showing(k, id))
  BY <1>a, <1>1 DEF Showing
<1>5. ServerList' = Append(ServerList, new)
  BY <1>1, ServerListSteps DEF ShowInServer, AddId, LoginPost
<1>6. /\ ServerList' \in Seq(Names)
      /\ \A id : id \in ToSet(ServerList') <=> id \in ToSet(ServerList) \/ id = new
      /\ \A id : Once(ServerList', id)
           <=> Once(ServerList, id) /\ (id = new => new \notin ToSet(ServerList))
  BY <1>5, InLonger DEF ListInv
<1>7. \A id : /\ ListedTwice(id) => ListedTwice(id)'
              /\ Active(new) => ListedTwice(new)'
              /\ Active(id) => Active(id)'
              /\ Active(new)'
  BY <1>1, PostSteps DEF LoginPost, RemovePost
<1>8. ASSUME NEW id \in Names, id # new, RightAbout(id) PROVE RightAbout(id)'
  <2>1. /\ id \in ToSet(ServerList') <=> id \in ToSet(ServerList)
        /\ Once(ServerList', id)
        /\ \A k \in Clients : Showing(k, id)' <=> Showing(k, id)
    BY <1>4, <1>6, <1>8 DEF RightAbout
  <2>2. QED
    BY <1>7, <1>8, <2>1 DEF RightAbout, Once
<1>9. ASSUME RightAbout(new), ~Active(new) PROVE RightAbout(new)'
  <2>1. new \notin ToSet(ServerList) /\ \A k \in Clients : ~Showing(k, new)
    BY <1>9 DEF RightAbout
  <2>2. \A k \in Clients : Showing(k, new)' <=> k = n
    BY <1>3, <1>4, <2>1
  <2>3. new \in ToSet(ServerList') /\ Once(ServerList', new)
    BY <1>6, <1>9, <2>1 DEF RightAbout
  <2>4. QED
    BY <1>7, <2>2, <2>3 DEF RightAbout, Once
<1>10. QED
  BY <1>6, <1>7, <1>8, <1>9 DEF ListInv

\* A removal takes its one id out of the list and leaves the others.
LEMMA RemoveFromDialogList ==
  ASSUME OneAccount, IInv, TextInv, ListInv, NEW w \in Workers,
         RemoveFromDialog(w)
  PROVE  ListInv'
<1>a. cur[w] \in Clients /\ \A v \in Workers : cur[v] = cur[w] => v = w
  BY OnlyOwner DEF RemoveFromDialog, Goto
<1>b. idMap[cur[w]] \in Names
  BY <1>a DEF RemoveFromDialog, Goto, IInv, HandlerState, TypeOK
<1> SUFFICES ASSUME NEW n \in Clients, n = cur[w],
                    NEW old \in Names, old = idMap[n]
             PROVE  ListInv'
  BY <1>a, <1>b
<1>1. /\ UNCHANGED <<idMap, cur, pkt>> /\ pc[w] = "bye" /\ pc'[w] = "forget"
      /\ \A v \in Workers : v # w => pc'[v] = pc[v]
      /\ dlg' = Append(dlg, RemovePost(old))
      /\ RemovePost(old) \in DialogPost /\ dlg \in Seq(DialogPost)
  BY DEF RemoveFromDialog, Goto, IInv, TypeOK, RemovePost, DialogPost
<1>2. \A id \in Names : (Showing(n, id) <=> id = old) /\ ~Showing(n, id)'
  BY <1>a, <1>1 DEF Showing
<1>3. \A k \in Clients, id \in Names :
        k # n => (Showing(k, id)' <=> Showing(k, id))
  BY <1>1 DEF Showing
<1>4. ServerList' = RemoveId(ServerList, old)
  BY <1>1, ServerListSteps DEF ShowInServer, RemovePost
<1>5. /\ ServerList' \in Seq(Names)
      /\ \A id : id # old => /\ id \in ToSet(ServerList') <=> id \in ToSet(ServerList)
                             /\ Once(ServerList, id) => Once(ServerList', id)
      /\ Once(ServerList, old) => old \notin ToSet(ServerList')
  BY <1>4, RemoveIdRight DEF ListInv
<1>6. \A id : /\ ListedTwice(id) => ListedTwice(id)'
              /\ Active(id) /\ id # old => Active(id)'
  BY <1>1, PostSteps DEF RemovePost
<1>7. ASSUME NEW id \in Names, id # old, RightAbout(id) PROVE RightAbout(id)'
  <2>1. /\ id \in ToSet(ServerList') <=> id \in ToSet(ServerList)
        /\ Once(ServerList', id)
        /\ \A k \in Clients : Showing(k, id)' <=> Showing(k, id)
    BY <1>2, <1>3, <1>5, <1>7 DEF RightAbout
  <2>2. QED
    BY <1>6, <1>7, <2>1 DEF RightAbout, Once
<1>8. ASSUME RightAbout(old) PROVE RightAbout(old)'
  <2>1. \A k \in Clients : ~Showing(k, old)'
    BY <1>2, <1>3, <1>8 DEF RightAbout
  <2>2. old \notin ToSet(ServerList')
    BY <1>5, <1>8 DEF RightAbout
  <2>3. Once(ServerList', old)
    BY <2>2 DEF Once, ToSet
  <2>4. QED
    BY <2>1, <2>2, <2>3 DEF RightAbout, Once
<1>9. QED
  BY <1>5, <1>6, <1>7, <1>8 DEF ListInv

\* idMap follows the dialog.
LEMMA SetIdList ==
  ASSUME OneAccount, IInv, TextInv, ListInv, NEW w \in Workers, SetId(w)
  PROVE  ListInv'
<1>a. cur[w] \in Clients /\ \A v \in Workers : cur[v] = cur[w] => v = w
  BY OnlyOwner DEF SetId, Goto
<1> SUFFICES ASSUME NEW n \in Clients, n = cur[w] PROVE ListInv'
  BY <1>a
<1>1. /\ UNCHANGED <<cur, pkt, dlg>> /\ pc[w] = "setId" /\ pc'[w] = "next"
      /\ \A v \in Workers : v # w => pc'[v] = pc[v]
      /\ idMap'[n] = pkt[w].id
      /\ \A k \in Clients : k # n => idMap'[k] = idMap[k]
  BY DEF SetId, Goto, IInv, TypeOK
<1>2. pkt[w].id \in LoginIds[n] /\ pkt[w].id \in Names
  BY <1>1, PacketFields DEF IInv, HandlerState, TextInv, PacketsOwn
<1>3. \A id \in Names : Showing(n, id) <=> id = pkt[w].id
  BY <1>1, <1>2, ShowingOwn DEF OneAccount, Showing
<1>4. \A id \in Names : Showing(n, id)' <=> id = pkt[w].id
  BY <1>a, <1>1 DEF Showing
<1>5. \A k \in Clients, id \in Names :
        k # n => (Showing(k, id)' <=> Showing(k, id))
  BY <1>1 DEF Showing
<1>6. QED
  BY <1>1, <1>3, <1>4, <1>5, ListKeeps

\* Clearing the id of a removed slot leaves the list in step.
LEMMA ForgetList ==
  ASSUME IInv, ListInv, NEW w \in Workers, Forget(w)
  PROVE  ListInv'
<1>a. cur[w] \in Clients /\ \A v \in Workers : cur[v] = cur[w] => v = w
  BY OnlyOwner DEF Forget, Goto
<1> SUFFICES ASSUME NEW n \in Clients, n = cur[w] PROVE ListInv'
  BY <1>a
<1>1. /\ UNCHANGED <<cur, pkt, dlg>> /\ pc[w] = "forget" /\ pc'[w] = "close"
      /\ \A v \in Workers : v # w => pc'[v] = pc[v]
      /\ idMap'[n] = NoEntry
      /\ \A k \in Clients : k # n => idMap'[k] = idMap[k]
  BY DEF Forget, Goto, IInv, TypeOK
<1>2. \A id \in Names : ~Showing(n, id)' /\ ~Showing(n, id)
  BY <1>a, <1>1, NullsAssumption DEF Showing
<1>3. \A k \in Clients, id \in Names :
        k # n => (Showing(k, id)' <=> Showing(k, id))
  BY <1>1 DEF Showing
<1>4. QED
  BY <1>1, <1>2, <1>3, ListKeeps

\* ListInv holds at the start.
LEMMA InitList == Init => ListInv
<1> SUFFICES ASSUME Init PROVE ListInv
  OBVIOUS
<1>1. /\ ServerList = <<>> /\ ToSet(<<>>) = {}
      /\ \A id : Once(<<>>, id)
  BY ServerListSteps DEF Init, ToSet, Once
<1>2. \A n \in Clients, id \in Names : ~Showing(n, id)
  BY NullsAssumption DEF Init, Showing
<1>3. QED
  BY <1>1, <1>2 DEF ListInv, RightAbout

\* Every step keeps ListInv, when every user has one account.
LEMMA NextList ==
  OneAccount /\ IInv /\ TextInv /\ ListInv /\ [Next]_vars => ListInv'
<1> SUFFICES ASSUME OneAccount, IInv, TextInv, ListInv, [Next]_vars
             PROVE  ListInv'
  OBVIOUS
<1>1. ASSUME NEW w \in Workers, Worker(w) PROVE ListInv'
  <2>1. CASE \/ LoginToDialog(w) \/ RemoveFromDialog(w) \/ SetId(w) \/ Forget(w)
    BY <2>1, LoginToDialogList, RemoveFromDialogList, SetIdList, ForgetList
  <2>2. CASE ~(LoginToDialog(w) \/ RemoveFromDialog(w) \/ SetId(w) \/ Forget(w))
    <3>1. /\ dlg' = dlg /\ idMap' = idMap
          /\ pc[w] \notin {"setId", "forget"} /\ pc'[w] \notin {"setId", "forget"}
      BY <1>1, <2>2, WorkerTouches, WorkerMoves
    <3>2. \A v \in Workers : v # w => /\ pc'[v] = pc[v] /\ cur'[v] = cur[v]
                                      /\ pkt'[v] = pkt[v]
      BY <1>1, OthersStand DEF Stands
    <3>3. \A n \in Clients, id \in Names : Showing(n, id)' <=> Showing(n, id)
      BY <3>1, <3>2 DEF Showing
    <3>4. QED
      BY <3>1, <3>3, ListKeeps
  <2>3. QED
    BY <2>1, <2>2
<1>2. CASE Accepter \/ (\E n \in Clients : Client(n)) \/ UNCHANGED vars
  <2>1. UNCHANGED <<pc, cur, pkt, idMap, dlg>>
    BY <1>2, ElsewhereTouches
  <2>2. \A n \in Clients, id \in Names : Showing(n, id)' <=> Showing(n, id)
    BY <2>1 DEF Showing
  <2>3. QED
    BY <2>1, <2>2, ListKeeps
<1>3. QED
  BY <1>1, <1>2 DEF Next

\* Two sets of at most one element, of which one is empty when the other is.
LEMMA SameSize ==
  ASSUME NEW A, NEW B, A = {} <=> B = {},
         \A x, y \in A : x = y, \A x, y \in B : x = y
  PROVE  Cardinality(A) = Cardinality(B)
<1>1. CASE A = {}
  BY <1>1
<1>2. CASE A # {}
  <2>1. PICK x \in A : TRUE
    BY <1>2
  <2>2. PICK y \in B : TRUE
    BY <1>2
  <2>3. A = {x} /\ B = {y}
    BY <2>1, <2>2
  <2>4. QED
    BY <2>3, FS_Singleton
<1>3. QED
  BY <1>1, <1>2

\* When nothing is under way, ListInv says that the list is exact.
LEMMA ListExact ==
  ASSUME IInv, ListInv
  PROVE  ServerListExact
<1> SUFFICES ASSUME Quiescent, NEW id \in Ids, ~ListedTwice(id)
             PROVE  Cardinality({i \in DOMAIN ServerList : ServerList[i] = id})
                      = Cardinality({n \in InSession : idMap[n] = id})
  BY DEF ServerListExact
<1> DEFINE A == {i \in DOMAIN ServerList : ServerList[i] = id}
           B == {n \in InSession : idMap[n] = id}
<1>1. id \in Names /\ B \subseteq Clients
  BY DEF Names, InSession, IInv, TypeOK
<1>2. RightAbout(id)
  BY <1>1 DEF ListInv
<1>3. \A n \in Clients : Showing(n, id) <=> n \in B
  <2>1. \A w \in Workers : pc[w] \notin {"setId", "forget"}
    BY DEF Quiescent
  <2>2. \A n \in Clients : Showing(n, id) <=> idMap[n] = id
    BY <2>1 DEF Showing
  <2>3. \A n \in Clients : idMap[n] = id => n \in clientsSocketMap
    BY NullsAssumption DEF IInv, IdMapWithinClients, Names
  <2>4. QED
    BY <2>2, <2>3 DEF InSession
<1>4. \A i, j \in A : i = j
  BY <1>2 DEF RightAbout, Once
<1>5. A = {} <=> B = {}
  <2>1. id \in ToSet(ServerList) <=> A # {}
    BY DEF ToSet
  <2>2. id \in ToSet(ServerList) <=> \E n \in Clients : Showing(n, id)
    BY <1>2 DEF RightAbout
  <2>3. QED
    BY <1>1, <1>3, <2>1, <2>2
<1>6. \A m, n \in B : m = n
  BY <1>1, <1>2, <1>3 DEF RightAbout
<1> HIDE DEF A, B
<1>7. Cardinality(A) = Cardinality(B)
  BY <1>4, <1>5, <1>6, SameSize
<1>8. QED
  BY <1>7 DEF A, B

\* When nothing is under way the server's own list has every id in session once
\* and no other, but for one that was listed twice: although every login and
\* removal tells the dialog and idMap in two steps, those of different workers
\* interleave, users click again before they are answered and use an account
\* over several connections, one after the other or at once.  Each user has one
\* account: a second login under another one would leave the first id listed.
THEOREM ServerListRight ==
  OneAccount => (Spec => []ServerListExact)
<1> SUFFICES ASSUME OneAccount PROVE Spec => []ServerListExact
  OBVIOUS
<1>1. IInv /\ ListInv => ServerListExact
  BY ListExact
<1>2. IInv /\ TextInv /\ ListInv /\ [Next]_vars => ListInv'
  BY NextList
<1>3. QED
  BY <1>1, <1>2, InitText, NextText, InitList, Invariance, PTL DEF Spec

-----------------------------------------------------------------------------
(* What is in a client's list.                                             *)

\* Some order of a finite set has all of it.
LEMMA OrderHasAll ==
  ASSUME NEW S, IsFiniteSet(S)
  PROVE  /\ SetToSeq(S) \in Seq(S) /\ Len(SetToSeq(S)) = Cardinality(S)
         /\ \A x \in S : \E i \in 1 .. Cardinality(S) : SetToSeq(S)[i] = x
<1> DEFINE D == 1 .. Cardinality(S)
           f == SetToSeq(S)
<1>1. Cardinality(S) \in Nat /\ ExistsBijection(D, S)
  BY FS_CardinalityType
<1>2. \E g \in [D -> S] : IsInjective(g)
  BY <1>1 DEF ExistsBijection, Bijection, Injection, IsInjective
<1>3. f \in [D -> S] /\ IsInjective(f)
  BY <1>2 DEF SetToSeq
<1>4. f \in Seq(S) /\ Len(f) = Cardinality(S)
  BY <1>1, <1>3
<1> HIDE DEF f
<1>5. f \in Injection(D, S)
  BY <1>3 DEF Injection, IsInjective
<1>6. Cardinality(D) = Cardinality(S)
  BY <1>1, FS_Interval
<1> HIDE DEF D
<1>7. f \in Surjection(D, S)
  BY <1>5, <1>6, FS_Injection
<1>8. \A x \in S : \E i \in D : f[i] = x
  BY <1>7 DEF Surjection
<1>9. QED
  BY <1>4, <1>8 DEF D, f

\* A roster no longer than a signed char can say.
Short(m) == /\ IsFiniteSet(DOMAIN m.ids)
            /\ Cardinality(DOMAIN m.ids) + m.blanks <= MaxClients

CharsEnough == 2 * MaxClients < CharValues

\* A client's dialog shows every id of such a message.
LEMMA RosterShown ==
  ASSUME CharsEnough, NEW m \in Message, m.type = "ID", Short(m)
  PROVE  /\ ShownIds(m) \in Seq(Names)
         /\ \A n \in DOMAIN m.ids : m.ids[n] \in ToSet(ShownIds(m))
<1> DEFINE N == Cardinality(DOMAIN m.ids)
           order == SetToSeq(DOMAIN m.ids)
           ids == PacketIds(m)
<1>1. /\ DOMAIN m.ids \subseteq Clients /\ m.ids \in [DOMAIN m.ids -> Names]
      /\ m.blanks \in Nat /\ N \in Nat
  <2>1. m \in [type : {"ID"}, src : Clients, ids : IdList, blanks : Nat, cut : Nat]
    BY DEF Message, Requests
  <2>2. m.ids \in IdList /\ m.blanks \in Nat
    BY <2>1
  <2>3. PICK S \in SUBSET Clients : m.ids \in [S -> Names]
    BY <2>2 DEF IdList
  <2>4. DOMAIN m.ids = S
    BY <2>3
  <2>5. QED
    BY <2>2, <2>3, <2>4, FS_CardinalityType DEF Short
<1>2. /\ order \in Seq(DOMAIN m.ids) /\ Len(order) = N
      /\ \A n \in DOMAIN m.ids : \E i \in 1 .. N : order[i] = n
  BY OrderHasAll DEF Short
<1>3. ids = [i \in 1 .. N + m.blanks |->
               IF i <= N THEN m.ids[order[i]] ELSE Empty]
  BY <1>2 DEF PacketIds
<1> HIDE DEF order
<1>4. /\ \A i \in 1 .. N + m.blanks : i <= N => order[i] \in DOMAIN m.ids
      /\ 1 .. N \subseteq 1 .. N + m.blanks
  BY <1>1, <1>2
<1> HIDE DEF N, ids
<1>5. Empty \in Names
  BY DEF Names
<1>6. ids \in Seq(Names) /\ Len(ids) = N + m.blanks
  <2>1. \A i \in 1 .. N + m.blanks : ids[i] \in Names
    BY <1>1, <1>3, <1>4, <1>5
  <2>2. N + m.blanks \in Nat
    BY <1>1
  <2>3. ASSUME NEW K \in Nat, DOMAIN ids = 1 .. K, ids = [i \in 1 .. K |-> ids[i]],
               \A i \in 1 .. K : ids[i] \in Names
        PROVE  ids \in Seq(Names) /\ Len(ids) = K
    BY <2>3
  <2>4. DOMAIN ids = 1 .. N + m.blanks /\ ids = [i \in 1 .. N + m.blanks |-> ids[i]]
    BY <1>3
  <2>5. QED
    BY <2>1, <2>2, <2>3, <2>4
<1>7. \A i \in 1 .. N : ids[i] = m.ids[order[i]]
  BY <1>1, <1>3, <1>4
<1>8. ShownIds(m) = SubSeq(ids, 1, Len(ids))
  <2>1. Len(ids) \in Nat /\ Len(ids) <= MaxClients
    BY <1>1, <1>6 DEF Short, N
  <2>2. Len(ids) % CharValues = Len(ids) /\ 2 * Len(ids) < CharValues
    BY <2>1, BoundsAssumption, CharAssumption DEF CharsEnough
  <2>3. QED
    BY <2>2 DEF ShownIds, ids
<1>9. ShownIds(m) = ids
  BY <1>6, <1>8
<1>10. \A n \in DOMAIN m.ids : m.ids[n] \in ToSet(ids)
  <2> TAKE n \in DOMAIN m.ids
  <2>1. PICK i \in 1 .. N : order[i] = n
    BY <1>2
  <2>2. i \in DOMAIN ids /\ ids[i] = m.ids[n]
    BY <1>1, <1>4, <1>6, <1>7, <2>1
  <2>3. QED
    BY <2>2 DEF ToSet
<1>11. QED
  BY <1>6, <1>9, <1>10

\* Ids added to a list are in it, with what was there.
LEMMA AddAll ==
  ASSUME NEW S
  PROVE  \A list, s \in Seq(S) :
           /\ FoldLeft(AddId, list, s) \in Seq(S)
           /\ ToSet(list) \subseteq ToSet(FoldLeft(AddId, list, s))
           /\ ToSet(s) \subseteq ToSet(FoldLeft(AddId, list, s))
<1>a. Split(S)
  BY LastApart
<1> TAKE list \in Seq(S)
<1> DEFINE Added(s) == Adds!Fold(list, s)
           Right(s) == /\ Added(s) \in Seq(S)
                       /\ ToSet(list) \subseteq ToSet(Added(s))
                       /\ ToSet(s) \subseteq ToSet(Added(s))
           P == {n \in Nat : \A s \in Seq(S) : Len(s) = n => Right(s)}
<1>1. 0 \in P
  <2>1. Right(<<>>)
    BY Adds!FoldEmpty DEF ToSet
  <2>2. \A q \in Seq(S) : Len(q) = 0 => q = <<>>
    OBVIOUS
  <2>3. QED
    BY <2>1, <2>2
<1>2. ASSUME NEW n \in Nat, n \in P PROVE n + 1 \in P
  <2> SUFFICES ASSUME NEW q \in Seq(S), Len(q) = n + 1 PROVE Right(q)
    OBVIOUS
  <2>1. PICK s \in Seq(S), x \in S : Len(s) = n /\ q = Append(s, x)
    BY <1>a DEF Split
  <2>2. Right(s)
    BY <1>2, <2>1
  <2>3. Added(Append(s, x)) = Append(Added(s), x)
    BY Adds!FoldAppend DEF AddId
  <2> HIDE DEF Added
  <2>4. /\ \A y : y \in ToSet(Append(Added(s), x)) <=> y \in ToSet(Added(s)) \/ y = x
        /\ Append(Added(s), x) \in Seq(S)
    BY <2>2, InLonger
  <2>5. \A y : y \in ToSet(Append(s, x)) <=> y \in ToSet(s) \/ y = x
    BY InLonger
  <2>6. QED
    BY <2>1, <2>2, <2>3, <2>4, <2>5
<1> HIDE DEF P
<1>3. \A n \in Nat : n \in P
  BY <1>1, <1>2, Scan!Induction
<1>4. \A s : FoldLeft(AddId, list, s) = Added(s)
  BY DEF Adds!Fold, Adds!FoldLeft, FoldLeft, Adds!MapThenFoldSet, MapThenFoldSet,
         Adds!Max, Max
<1> HIDE DEF Added
<1>5. QED
  BY <1>3, <1>4 DEF P

Entries == Names \cup {Me}

\* One message more: only a goodbye takes an id out of the list, its own.
LEMMA ShowStep ==
  ASSUME CharsEnough, NEW list \in Seq(Entries), NEW m \in Message,
         m.type = "ID" => Short(m)
  PROVE  /\ Show(list, m) \in Seq(Entries)
         /\ \A x : x \in ToSet(list) /\ ~(m.type = "DISCONNECTED_ID" /\ m.id = x)
                     => x \in ToSet(Show(list, m))
         /\ m.type = "ID" =>
              \A n \in DOMAIN m.ids : m.ids[n] \in ToSet(Show(list, m))
<1>1. CASE m.type = "ID"
  <2>1. Show(list, m) = FoldLeft(AddId, list, ShownIds(m))
    BY <1>1 DEF Show
  <2>2. /\ ShownIds(m) \in Seq(Entries)
        /\ \A n \in DOMAIN m.ids : m.ids[n] \in ToSet(ShownIds(m))
    BY <1>1, RosterShown DEF Entries
  <2>3. \A k, s \in Seq(Entries) :
          /\ FoldLeft(AddId, k, s) \in Seq(Entries)
          /\ ToSet(k) \subseteq ToSet(FoldLeft(AddId, k, s))
          /\ ToSet(s) \subseteq ToSet(FoldLeft(AddId, k, s))
    BY AddAll
  <2>4. /\ Show(list, m) \in Seq(Entries)
        /\ ToSet(list) \subseteq ToSet(Show(list, m))
        /\ ToSet(ShownIds(m)) \subseteq ToSet(Show(list, m))
    BY <2>1, <2>2, <2>3, Zenon
  <2>5. QED
    BY <2>2, <2>4, Zenon
<1>2. CASE m.type = "DISCONNECTED_ID"
  <2>1. Show(list, m) = RemoveId(list, m.id)
    BY <1>2 DEF Show
  <2>2. /\ RemoveId(list, m.id) \in Seq(Entries)
        /\ \A x : x # m.id /\ x \in ToSet(list) => x \in ToSet(RemoveId(list, m.id))
    BY RemoveIdRight
  <2>3. QED
    BY <1>2, <2>1, <2>2
<1>3. CASE m.type = "LOGIN_INFO" /\ m.ok
  <2>1. Show(list, m) = Append(list, Me) /\ Me \in Entries
    BY <1>3 DEF Show, AddId, Entries
  <2>2. \A y : y \in ToSet(Append(list, Me)) <=> y \in ToSet(list) \/ y = Me
    BY <2>1, InLonger
  <2>3. QED
    BY <1>3, <2>1, <2>2
<1>4. CASE /\ m.type \notin {"ID", "DISCONNECTED_ID"}
           /\ ~(m.type = "LOGIN_INFO" /\ m.ok)
  <2>1. Show(list, m) = list
    BY <1>4 DEF Show
  <2>2. QED
    BY <1>4, <2>1
<1>5. QED
  BY <1>1, <1>2, <1>3, <1>4

Teaches(m, id) == m.type = "ID" /\ \E n \in DOMAIN m.ids : m.ids[n] = id
Withdraws(m, id) == m.type = "DISCONNECTED_ID" /\ m.id = id

\* An id that a message brought and none took back is in the list.
LEMMA TaughtShown ==
  ASSUME CharsEnough, NEW id
  PROVE  \A q \in Seq(Message) :
           /\ \A i \in DOMAIN q : q[i].type = "ID" => Short(q[i])
           /\ \A i \in DOMAIN q : ~Withdraws(q[i], id)
           /\ \E i \in DOMAIN q : Teaches(q[i], id)
           => id \in ToSet(FoldLeft(Show, <<>>, q))
<1>a. Split(Message)
  BY LastApart
<1> DEFINE Shown(q) == Dialog!Fold(<<>>, q)
           Fair(q) == \A i \in DOMAIN q : /\ q[i].type = "ID" => Short(q[i])
                                          /\ ~Withdraws(q[i], id)
           Right(q) ==
             Fair(q) => /\ Shown(q) \in Seq(Entries)
                        /\ (\E i \in DOMAIN q : Teaches(q[i], id))
                             => id \in ToSet(Shown(q))
           P == {n \in Nat : \A q \in Seq(Message) : Len(q) = n => Right(q)}
<1>1. 0 \in P
  <2>1. Right(<<>>)
    <3>1. Shown(<<>>) = <<>>
      BY Dialog!FoldEmpty
    <3> HIDE DEF Shown
    <3>2. <<>> \in Seq(Entries) /\ \A i \in DOMAIN <<>> : FALSE
      OBVIOUS
    <3>3. QED
      BY <3>1, <3>2
  <2>2. \A q \in Seq(Message) : Len(q) = 0 => q = <<>>
    OBVIOUS
  <2>3. QED
    BY <2>1, <2>2
<1>2. ASSUME NEW n \in Nat, n \in P PROVE n + 1 \in P
  <2> SUFFICES ASSUME NEW q \in Seq(Message), Len(q) = n + 1 PROVE Right(q)
    OBVIOUS
  <2>1. PICK s \in Seq(Message), x \in Message : Len(s) = n /\ q = Append(s, x)
    BY <1>a DEF Split
  <2>2. Right(s)
    BY <1>2, <2>1
  <2>3. Shown(Append(s, x)) = Show(Shown(s), x)
    BY Dialog!FoldAppend
  <2> HIDE DEF Shown, P
  <2>4. /\ DOMAIN q = 1 .. Len(s) + 1 /\ DOMAIN s = 1 .. Len(s)
        /\ Len(s) \in Nat
        /\ \A i \in 1 .. Len(s) : q[i] = s[i]
        /\ q[Len(s) + 1] = x
    BY <2>1
  <2>5. \A i \in 1 .. Len(s) + 1 : i \in 1 .. Len(s) \/ i = Len(s) + 1
    BY <2>4
  <2>6. 1 .. Len(s) \subseteq 1 .. Len(s) + 1 /\ Len(s) + 1 \in 1 .. Len(s) + 1
    BY <2>4
  <2>7. ASSUME Fair(q)
        PROVE  /\ Fair(s) /\ ~Withdraws(x, id) /\ (x.type = "ID" => Short(x))
    BY <2>4, <2>6, <2>7
  <2>8. ASSUME Fair(q)
        PROVE  /\ Show(Shown(s), x) \in Seq(Entries)
               /\ id \in ToSet(Shown(s)) => id \in ToSet(Show(Shown(s), x))
               /\ Teaches(x, id) => id \in ToSet(Show(Shown(s), x))
    BY <2>2, <2>7, <2>8, ShowStep DEF Withdraws, Teaches
  <2>9. ASSUME Fair(q), NEW i \in DOMAIN q, Teaches(q[i], id)
        PROVE  id \in ToSet(Show(Shown(s), x))
    BY <2>2, <2>4, <2>5, <2>7, <2>8, <2>9
  <2>10. QED
    BY <2>1, <2>3, <2>8, <2>9
<1> HIDE DEF P
<1>3. \A n \in Nat : n \in P
  BY <1>1, <1>2, Scan!Induction
<1>4. \A q : FoldLeft(Show, <<>>, q) = Shown(q)
  BY DEF Dialog!Fold, Dialog!FoldLeft, FoldLeft, Dialog!MapThenFoldSet,
         MapThenFoldSet, Dialog!Max, Max
<1> HIDE DEF Shown
<1>5. QED
  BY <1>3, <1>4 DEF P

-----------------------------------------------------------------------------
(* Every client that has logged in is told of every other.                 *)

\* m names n by the id n has.
IdOf(m, n) == m.type = "ID" /\ n \in DOMAIN m.ids /\ m.ids[n] = idMap[n]

\* r was sent the id of n; the loop of n's login will send it; the worker of r
\* will still send r a roster.
Knows(r, n) == \E i \in DOMAIN out[r] : IdOf(out[r][i], n)
Hearing(r, n) == \E w \in Workers : cur[w] = n /\ Ahead(w, r) /\ IdOf(msg[w], n)
Awaiting(r) ==
  \E w \in Workers : /\ cur[w] = r /\ pkt[w].type = "LOGIN_INFO"
                     /\ pc[w] \in {"next", "send", "check", "size", "count",
                                  "fill"}

Mutual(r, n) ==
  peer[r] = "open" /\ idMap[r] # NoEntry /\ idMap[n] # NoEntry
    => Knows(r, n) \/ Hearing(r, n) \/ Awaiting(r) \/ RosterCut(r)

\* Rosters are no longer than there are connections.
RostersShort ==
  /\ \A w \in Workers : quantity[w].count <= MaxClients
  /\ \A w \in Workers : Looping(w) /\ msg[w].type = "ID" => Short(msg[w])
  /\ \A r \in Clients : \A i \in DOMAIN out[r] :
       out[r][i].type = "ID" => Short(out[r][i])

MutualInv ==
  /\ \A r, n \in Clients : r # n => Mutual(r, n)
  /\ RostersShort

\* What a step sends keeps the second half.
Sound(m) == m.type = "ID" => Short(m)

\* A step that sends nothing, or one sound message, keeps rosters short.
LEMMA SoundKeeps ==
  ASSUME TypeOK, RostersShort,
         \/ out' = out
         \/ \E r \in Clients, m \in Message : Send(r, m) /\ Sound(m),
         \A w \in Workers : quantity'[w].count <= MaxClients,
         \A w \in Workers :
           Looping(w)' /\ msg'[w].type = "ID" => Short(msg'[w])
  PROVE  RostersShort'
<1>1. CASE out' = out
  BY <1>1 DEF RostersShort, Short
<1>2. ASSUME NEW r \in Clients, NEW m \in Message, Sound(m),
             out' = [out EXCEPT ![r] = Append(@, m)]
      PROVE  RostersShort'
  <2>1. /\ out'[r] = Append(out[r], m) /\ out[r] \in Seq(Message)
        /\ \A k \in Clients : k # r => out'[k] = out[k]
    BY <1>2 DEF TypeOK
  <2>2. \A i \in DOMAIN out'[r] : (i \in DOMAIN out[r] /\ out'[r][i] = out[r][i])
                                  \/ out'[r][i] = m
    BY <2>1
  <2>3. \A k \in Clients : \A i \in DOMAIN out'[k] :
          (i \in DOMAIN out[k] /\ out'[k][i] = out[k][i]) \/ out'[k][i] = m
    BY <2>1, <2>2
  <2>4. \A k \in Clients : \A i \in DOMAIN out'[k] : Sound(out'[k][i])
    BY <1>2, <2>3 DEF RostersShort, Sound
  <2>5. QED
    BY <2>4 DEF RostersShort, Sound, Short
<1>3. QED
  BY <1>1, <1>2 DEF Send

\* A roster is no longer than it says, and has every other id unless it is cut.
LEMMA RosterFilled ==
  ASSUME IInv, RostersShort, NEW w \in Workers, FillIds(w)
  PROVE  \E m \in Message : /\ Send(cur[w], m) /\ m.type = "ID" /\ Short(m)
                            /\ m.cut > 0 \/ \A n \in Others(cur[w]) : IdOf(m, n)
<1> DEFINE Roster(S, blanks, cut) ==
      IdMsg(cur[w], [n \in S |-> idMap[n]], blanks, cut)
<1>1. /\ cur[w] \in Clients /\ quantity[w].count \in Nat
      /\ quantity[w].count <= MaxClients /\ MaxClients \in Nat
  BY BoundsAssumption
  DEF IInv, TypeOK, OwnedInMap, FillIds, Goto, RostersShort, Quantity
<1>2. PICK S \in SUBSET Others(cur[w]), blanks \in Nat, cut \in Nat :
        /\ Cardinality(S) + blanks <= quantity[w].count
        /\ cut = Cardinality(Others(cur[w])) - Cardinality(S)
        /\ Send(cur[w], Roster(S, blanks, cut))
  BY RosterRead
<1>3. /\ IsFiniteSet(S) /\ Cardinality(S) \in Nat
      /\ Cardinality(Others(cur[w])) \in Nat
      /\ IsFiniteSet(Others(cur[w]))
  BY <1>1, OthersCounted
<1> DEFINE m == Roster(S, blanks, cut)
<1>4. m \in Message
  <2>1. [n \in S |-> idMap[n]] \in IdList
    BY DEF IInv, TypeOK, Others, IdList
  <2>2. QED
    BY <1>1, <2>1 DEF IdMsg, Message
<1>5. /\ m.type = "ID" /\ DOMAIN m.ids = S
      /\ \A n \in S : m.ids[n] = idMap[n]
      /\ m.blanks = blanks /\ m.cut = cut
  BY DEF IdMsg
<1>6. Send(cur[w], m)
  BY <1>2
<1> HIDE DEF m
<1>7. Short(m)
  BY <1>1, <1>2, <1>3, <1>5 DEF Short
<1>8. ~(m.cut > 0) => S = Others(cur[w])
  <2>1. ~(m.cut > 0) => Cardinality(Others(cur[w])) = Cardinality(S)
    BY <1>2, <1>3, <1>5
  <2>2. QED
    BY <1>3, <2>1, FS_Subset
<1>9. ~(m.cut > 0) => \A n \in Others(cur[w]) : IdOf(m, n)
  BY <1>5, <1>8 DEF IdOf
<1>10. QED
  BY <1>4, <1>5, <1>6, <1>7, <1>9

\* What a worker sends.
LEMMA WorkerSends ==
  ASSUME IInv, FareInv, RostersShort, NEW w \in Workers, Worker(w)
  PROVE  \/ out' = out
         \/ \E r \in Clients, m \in Message : Send(r, m) /\ Sound(m)
<1>1. CASE SendToTarget(w)
  <2>1. /\ tgt[w] \in Clients /\ msg[w] \in Message /\ Send(tgt[w], msg[w])
        /\ Looping(w)
    BY <1>1 DEF SendToTarget, Goto, IInv, HandlerState, Looping
  <2>2. Sound(msg[w])
    BY <2>1 DEF RostersShort, Sound
  <2>3. QED
    BY <2>1, <2>2
<1>2. CASE SignUpToDB(w) \/ Login(w)
  <2>1. PICK type \in Requests, ok \in BOOLEAN : Send(cur[w], Reply(type, ok))
    BY <1>2 DEF SignUpToDB, Login, Requests
  <2>2. Reply(type, ok) \in Message /\ Sound(Reply(type, ok))
    BY DEF Reply, Message, Requests, Sound
  <2>3. cur[w] \in Clients
    BY <1>2, OnlyOwner DEF SignUpToDB, Login, Goto
  <2>4. QED
    BY <2>1, <2>2, <2>3
<1>3. CASE FillIds(w)
  <2>1. PICK m \in Message : Send(cur[w], m) /\ m.type = "ID" /\ Short(m)
    BY <1>3, RosterFilled
  <2>2. cur[w] \in Clients
    BY <1>3, OnlyOwner DEF FillIds, Goto
  <2>3. QED
    BY <2>1, <2>2 DEF Sound
<1>4. QED
  BY <1>1, <1>2, <1>3
  DEF Worker, Enter, Broadcast, PickTarget, BroadcastDone, Handle,
      LoginToDialog, SetId, PrepareRoster, CheckAlone, SizePacket, CountIds,
      ReadIdMap, BroadcastText, Recv,
      RemoveDisconnectedClient, StartRemoval, RemoveFromDialog, Forget,
      CloseSocket, Dequeue, DequeuePacket, DequeueClosed, TakeCompletion

\* Every step of a worker keeps rosters short.
LEMMA SoundWorker ==
  ASSUME IInv, FareInv, RostersShort, NEW w \in Workers, Worker(w)
  PROVE  RostersShort'
<1>1. \A v \in Workers : v # w =>
        quantity'[v] = quantity[v] /\ msg'[v] = msg[v] /\ pc'[v] = pc[v]
  BY OthersStand DEF Stands
<1>2. quantity'[w].count <= MaxClients
  <2>1. CASE PrepareRoster(w)
    <3>1. IsFiniteSet(Clients) /\ Cardinality(Clients) = MaxClients
      BY BoundsAssumption, FS_Interval DEF Clients
    <3>2. Cardinality(Others(cur[w])) <= MaxClients /\ 0 <= MaxClients
      BY <3>1, FS_Subset, BoundsAssumption DEF Others
    <3>3. quantity'[w].count \in {0, Cardinality(Others(cur[w]))}
      BY <2>1 DEF PrepareRoster, CheckAlone, SizePacket, CountIds, ReadIdMap,
                  NoQuantity, IInv, TypeOK
    <3>4. QED
      BY <3>2, <3>3
  <2>2. CASE FillIds(w)
    BY <2>2, BoundsAssumption DEF FillIds, NoQuantity, IInv, TypeOK
  <2>3. CASE quantity' = quantity
    BY <2>3 DEF RostersShort
  <2>4. QED
    BY <2>1, <2>2, <2>3
    DEF Worker, Enter, Broadcast, PickTarget, SendToTarget, BroadcastDone,
        Handle, SignUpToDB, Login, LoginToDialog, SetId, BroadcastText, Recv,
        RemoveDisconnectedClient, StartRemoval, RemoveFromDialog, Forget,
        CloseSocket, Dequeue, DequeuePacket, DequeueClosed, TakeCompletion
<1>3. ASSUME Looping(w)', msg'[w].type = "ID" PROVE Short(msg'[w])
  <2>1. CASE SetId(w)
    <3>1. cur[w] \in Clients
      BY <2>1, OnlyOwner DEF SetId, Goto
    <3>2. /\ msg'[w].ids = [n \in {cur[w]} |-> pkt[w].id] /\ msg'[w].blanks = 0
      BY <2>1 DEF SetId, StartBroadcast, IdMsg, IInv, TypeOK
    <3>3. DOMAIN msg'[w].ids = {cur[w]}
      BY <3>2
    <3>4. IsFiniteSet({cur[w]}) /\ Cardinality({cur[w]}) = 1
      BY FS_Singleton
    <3>5. 1 <= MaxClients
      BY <3>1, BoundsAssumption DEF Clients
    <3>6. QED
      BY <3>2, <3>3, <3>4, <3>5 DEF Short
  <2>2. CASE StartRemoval(w) \/ BroadcastText(w)
    <3>1. msg'[w].type \in {"DISCONNECTED_ID", "TEXT"} \/ ~Looping(w)'
      BY <2>2
      DEF StartRemoval, BroadcastText, StartBroadcast, ByeMsg, TextMsg, IInv,
          TypeOK, Goto, Looping
    <3>2. QED
      BY <1>3, <3>1
  <2>4. CASE PickTarget(w) \/ SendToTarget(w)
    BY <1>3, <2>4 DEF PickTarget, SendToTarget, Goto, RostersShort, Looping
  <2>5. \/ SetId(w) \/ StartRemoval(w) \/ BroadcastText(w)
        \/ PickTarget(w) \/ SendToTarget(w)
    <3>1. CASE Enter(w) \/ \E n \in Clients : Dequeue(w, n)
      BY <1>3, <3>1
      DEF Enter, Dequeue, DequeuePacket, DequeueClosed, Goto, Looping, IInv,
          TypeOK
    <3>2. CASE BroadcastDone(w)
      BY <1>3, <3>2
      DEF BroadcastDone, AfterBroadcast, HandlerState, Goto, Looping, IInv,
          TypeOK
    <3>3. CASE Handle(w)
      BY <1>3, <3>3
      DEF Handle, SignUpToDB, Login, LoginToDialog, PrepareRoster, CheckAlone,
          SizePacket, CountIds, ReadIdMap, FillIds, Recv,
          BackToLoop, Goto, Looping, IInv, TypeOK
    <3>4. CASE RemoveDisconnectedClient(w)
      BY <1>3, <3>4
      DEF RemoveDisconnectedClient, RemoveFromDialog, Forget, CloseSocket,
          BackToLoop, Goto, Looping, IInv, TypeOK
    <3>5. QED
      BY <3>1, <3>2, <3>3, <3>4 DEF Worker, Broadcast
  <2>6. QED
    BY <2>1, <2>2, <2>4, <2>5
<1>4. \A v \in Workers : /\ quantity'[v].count <= MaxClients
                         /\ Looping(v)' /\ msg'[v].type = "ID" => Short(msg'[v])
  BY <1>1, <1>2, <1>3 DEF RostersShort, Looping
<1>5. QED
  BY <1>4, WorkerSends, SoundKeeps DEF IInv

\* The steps of a login's worker, from its loop to its roster.
LEMMA LoginMoves ==
  ASSUME NEW w \in Workers, Worker(w)
  PROVE  /\ pc[w] = "next" => PickTarget(w) \/ BroadcastDone(w)
         /\ pc[w] = "send" => SendToTarget(w)
         /\ pc[w] = "check" => CheckAlone(w)
         /\ pc[w] = "size" => SizePacket(w)
         /\ pc[w] = "count" => CountIds(w)
         /\ pc[w] = "fill" => FillIds(w)
BY DEF Worker, Enter, Broadcast, PickTarget, SendToTarget, BroadcastDone,
       Handle, SignUpToDB, Login, LoginToDialog, SetId, PrepareRoster,
       CheckAlone, SizePacket, CountIds, ReadIdMap, FillIds,
       BroadcastText, Recv, BackToLoop, RemoveDisconnectedClient, StartRemoval,
       RemoveFromDialog, Forget, CloseSocket, Dequeue, DequeuePacket,
       DequeueClosed, Goto

\* A message sent to a client that is there is the last it was sent.
LEMMA SentLast ==
  ASSUME TypeOK, NEW r \in Clients, peer[r] = "open", NEW m \in Message,
         Send(r, m)
  PROVE  \E i \in DOMAIN out'[r] : out'[r][i] = m
<1>1. out'[r] = Append(out[r], m) /\ out[r] \in Seq(Message)
  BY DEF TypeOK, Send
<1>2. Len(out[r]) + 1 \in DOMAIN out'[r] /\ out'[r][Len(out[r]) + 1] = m
  BY <1>1
<1>3. QED
  BY <1>2

\* The loop of n's login that has r ahead goes on, or has sent to r.
LEMMA HearingGoesOn ==
  ASSUME IInv, FareInv, NEW w \in Workers, Worker(w),
         NEW r \in Clients, NEW n \in Clients, peer[r] = "open",
         idMap'[n] = idMap[n], Hearing(r, n)
  PROVE  Hearing(r, n)' \/ Knows(r, n)'
<1>1. PICK v \in Workers : cur[v] = n /\ Ahead(v, r) /\ IdOf(msg[v], n)
  BY DEF Hearing
<1>2. CASE v # w
  <2>1. Stands(v, w)
    BY <1>2, OthersStand
  <2>2. CloseSocket(w) => cur[w] # r
    BY DEF CloseSocket, BackToLoop, Goto, IInv, HandlerState, FareInv, OpenStay
  <2>3. Ahead(v, r)'
    BY <1>1, <2>1, <2>2 DEF Stands, Ahead, Looping
  <2>4. cur'[v] = n /\ IdOf(msg[v], n)' /\ msg'[v] = msg[v]
    BY <1>1, <2>1 DEF Stands, IdOf
  <2>5. QED
    BY <2>3, <2>4 DEF Hearing, IdOf
<1>3. CASE v = w
  <2>1. PickTarget(w) \/ BroadcastDone(w) \/ SendToTarget(w)
    BY <1>1, <1>3, LoginMoves DEF Ahead, Looping
  <2>2. CASE PickTarget(w)
    <3>1. Ahead(w, r)' /\ cur'[w] = n /\ msg'[w] = msg[w]
      BY <1>1, <1>3, <2>2 DEF PickTarget, Goto, Ahead, Looping, IInv, TypeOK
    <3>2. QED
      BY <1>1, <1>3, <3>1 DEF Hearing, IdOf
  <2>3. CASE BroadcastDone(w)
    BY <1>1, <1>3, <2>3 DEF BroadcastDone, Goto, Ahead
  <2>4. CASE SendToTarget(w)
    <3>1. /\ pc[w] = "send" /\ tgt[w] \in Clients /\ msg[w] \in Message
          /\ Send(tgt[w], msg[w]) /\ pc'[w] = "next"
          /\ UNCHANGED <<cur, msg, todo>>
      BY <2>4 DEF SendToTarget, Goto, IInv, TypeOK, HandlerState
    <3>2. CASE tgt[w] = r
      <4>1. \E i \in DOMAIN out'[r] : out'[r][i] = msg[w]
        BY <3>1, <3>2, SentLast DEF IInv
      <4>2. QED
        BY <1>1, <1>3, <4>1 DEF Knows, IdOf
    <3>3. CASE tgt[w] # r
      <4>1. Ahead(w, r)'
        BY <1>1, <1>3, <3>1, <3>3 DEF Ahead, Looping
      <4>2. QED
        BY <1>1, <1>3, <3>1, <4>1 DEF Hearing, IdOf
    <3>4. QED
      BY <3>2, <3>3
  <2>5. QED
    BY <2>1, <2>2, <2>3, <2>4
<1>4. QED
  BY <1>2, <1>3

\* The login of r goes on to its roster, which names n or is cut.
LEMMA AwaitingGoesOn ==
  ASSUME IInv, RostersShort, NEW w \in Workers, Worker(w),
         NEW r \in Clients, NEW n \in Clients, r # n, peer[r] = "open",
         idMap[n] # NoEntry, idMap'[n] = idMap[n], Awaiting(r)
  PROVE  Awaiting(r)' \/ Knows(r, n)' \/ RosterCut(r)'
<1>1. PICK v \in Workers : /\ cur[v] = r /\ pkt[v].type = "LOGIN_INFO"
                           /\ pc[v] \in {"next", "send", "check", "size", "count",
                                        "fill"}
  BY DEF Awaiting
<1>2. CASE v # w
  <2>1. Stands(v, w)
    BY <1>2, OthersStand
  <2>2. QED
    BY <1>1, <2>1 DEF Stands, Awaiting
<1>3. CASE v = w /\ pc[w] \in {"next", "send"}
  <2>1. PickTarget(w) \/ BroadcastDone(w) \/ SendToTarget(w)
    BY <1>3, LoginMoves
  <2>2. cur' = cur /\ pkt' = pkt /\ pc'[w] \in {"next", "send", "check"}
    BY <1>1, <1>3, <2>1
    DEF PickTarget, BroadcastDone, SendToTarget, AfterBroadcast, Goto, IInv,
        TypeOK
  <2>3. QED
    BY <1>1, <1>3, <2>2 DEF Awaiting
<1>4. CASE v = w /\ pc[w] \in {"check", "size", "count"}
  <2>1. n \in Others(cur[w])
    BY <1>1, <1>4 DEF Others
  <2>2. cur' = cur /\ pkt' = pkt /\ pc'[w] \in {"size", "count", "fill"}
    BY <1>4, <2>1, LoginMoves
    DEF CheckAlone, SizePacket, CountIds, ReadIdMap, Goto, IInv, TypeOK
  <2>3. QED
    BY <1>1, <1>4, <2>2 DEF Awaiting
<1>5. CASE v = w /\ pc[w] = "fill"
  <2>1. PICK m \in Message : /\ Send(cur[w], m) /\ m.type = "ID"
                             /\ m.cut > 0 \/ \A k \in Others(cur[w]) : IdOf(m, k)
    BY <1>5, LoginMoves, RosterFilled
  <2>2. \E i \in DOMAIN out'[r] : out'[r][i] = m
    BY <1>1, <1>5, <2>1, SentLast DEF IInv
  <2>3. n \in Others(cur[w])
    BY <1>1, <1>5 DEF Others
  <2>4. QED
    BY <2>1, <2>2, <2>3 DEF Knows, IdOf, RosterCut
<1>6. QED
  BY <1>1, <1>2, <1>3, <1>4, <1>5

\* Every step of a worker keeps Mutual, for every two connections.
LEMMA MutualWorker ==
  ASSUME IInv, TextInv, FareInv, MutualInv, NEW w \in Workers, Worker(w),
         NEW r \in Clients, NEW n \in Clients, r # n
  PROVE  Mutual(r, n)'
<1>1. peer' = peer /\ (SetId(w) \/ Forget(w) \/ idMap' = idMap)
  BY WorkerTouches
<1> SUFFICES ASSUME peer[r] = "open", idMap'[r] # NoEntry, idMap'[n] # NoEntry
             PROVE  \/ Knows(r, n)' \/ Hearing(r, n)' \/ Awaiting(r)'
                    \/ RosterCut(r)'
  BY <1>1 DEF Mutual
<1>2. CASE SetId(w) /\ cur[w] \in {r, n}
  <2>1. /\ pc'[w] = "next" /\ cur' = cur /\ pkt' = pkt
        /\ msg'[w] = IdMsg(cur[w], [k \in {cur[w]} |-> pkt[w].id], 0, 0)
        /\ todo'[w] = clientsSocketMap \ {cur[w]}
        /\ pkt[w].type = "LOGIN_INFO"
        /\ cur[w] \in Clients /\ idMap'[cur[w]] = pkt[w].id
    BY <1>2, OnlyOwner DEF SetId, StartBroadcast, Goto, IInv, TypeOK, HandlerState
  <2>2. CASE cur[w] = n
    <3>1. r \in clientsSocketMap
      BY DEF FareInv, OpenStay
    <3>2. Ahead(w, r)'
      BY <2>1, <2>2, <3>1 DEF Ahead, Looping
    <3>3. IdOf(msg[w], n)'
      BY <2>1, <2>2 DEF IdOf, IdMsg
    <3>4. QED
      BY <2>1, <2>2, <3>2, <3>3 DEF Hearing
  <2>3. CASE cur[w] = r
    BY <2>1, <2>3 DEF Awaiting
  <2>4. QED
    BY <1>2, <2>2, <2>3
<1>3. CASE ~(SetId(w) /\ cur[w] \in {r, n})
  <2>1. idMap'[r] = idMap[r] /\ idMap'[n] = idMap[n]
    <3>1. CASE SetId(w)
      BY <1>3, <3>1 DEF SetId, IInv, TypeOK
    <3>2. CASE Forget(w)
      BY <3>2 DEF Forget, IInv, TypeOK
    <3>3. QED
      BY <1>1, <3>1, <3>2
  <2>2. Knows(r, n) \/ Hearing(r, n) \/ Awaiting(r) \/ RosterCut(r)
    BY <2>1 DEF MutualInv, Mutual
  <2>3. \A i \in DOMAIN out[r] : i \in DOMAIN out'[r] /\ out'[r][i] = out[r][i]
    BY WorkerSends, OutGrows DEF MutualInv, IInv
  <2>4. (Knows(r, n) => Knows(r, n)') /\ (RosterCut(r) => RosterCut(r)')
    BY <2>1, <2>3 DEF Knows, IdOf, RosterCut
  <2>5. RostersShort /\ idMap[n] # NoEntry
    BY <2>1 DEF MutualInv
  <2>6. QED
    BY <2>1, <2>2, <2>4, <2>5, HearingGoesOn, AwaitingGoesOn
<1>4. QED
  BY <1>2, <1>3

\* Every step of the accepter and of the clients keeps MutualInv.
LEMMA MutualElsewhere ==
  ASSUME IInv, MutualInv,
         Accepter \/ (\E n \in Clients : Client(n)) \/ UNCHANGED vars
  PROVE  MutualInv'
<1>1. /\ UNCHANGED <<pc, cur, pkt, msg, tgt, quantity, idMap, dlg, out>>
      /\ \A v \in Workers : todo[v] \subseteq todo'[v]
  BY ElsewhereTouches
<1>2. \A r \in Clients : peer'[r] = "open" => peer[r] = "open" \/ idMap[r] = NoEntry
  <2>1. CASE Accept
    <3>1. clientCount \in Clients => idMap[clientCount] = NoEntry
      BY DEF IInv, NumbersFresh, IdMapWithinClients, TypeOK
    <3>2. QED
      BY <2>1, <3>1 DEF Accept, IInv, TypeOK
  <2>2. QED
    BY <2>1
    DEF Accepter, AcceptFails, PostFirstRecv, FirstRecvFails, Client,
        ClientSend, ClientClose, ClientReset, IInv, TypeOK, vars
<1>3. RostersShort'
  BY <1>1 DEF MutualInv, RostersShort, Short, Looping
<1>4. ASSUME NEW r \in Clients, NEW n \in Clients, r # n PROVE Mutual(r, n)'
  <2>1. Mutual(r, n)
    BY <1>4 DEF MutualInv
  <2>2. \A v \in Workers : Ahead(v, r) => Ahead(v, r)'
    BY <1>1 DEF Ahead, Looping
  <2>3. /\ Knows(r, n) => Knows(r, n)'
        /\ Hearing(r, n) => Hearing(r, n)'
        /\ Awaiting(r) => Awaiting(r)'
        /\ RosterCut(r) => RosterCut(r)'
    BY <1>1, <2>2 DEF Knows, Hearing, Awaiting, RosterCut, IdOf
  <2>4. QED
    BY <1>1, <1>2, <2>1, <2>3 DEF Mutual
<1>5. QED
  BY <1>3, <1>4 DEF MutualInv

\* MutualInv holds at the start.
LEMMA InitMutual == Init => MutualInv
<1> SUFFICES ASSUME Init PROVE MutualInv
  OBVIOUS
<1>1. \A n \in Clients : idMap[n] = NoEntry /\ out[n] = <<>>
  BY DEF Init, NoQuantity
<1>2. \A w \in Workers : quantity[w].count = 0 /\ pc[w] = "enter"
  BY DEF Init, NoQuantity
<1>3. RostersShort
  BY <1>1, <1>2, BoundsAssumption DEF RostersShort, Looping
<1>4. QED
  BY <1>1, <1>3 DEF MutualInv, Mutual

\* Every step keeps MutualInv.
LEMMA NextMutual ==
  IInv /\ TextInv /\ FareInv /\ MutualInv /\ [Next]_vars => MutualInv'
<1> SUFFICES ASSUME IInv, TextInv, FareInv, MutualInv, [Next]_vars
             PROVE  MutualInv'
  OBVIOUS
<1>1. ASSUME NEW w \in Workers, Worker(w) PROVE MutualInv'
  BY <1>1, MutualWorker, SoundWorker DEF MutualInv
<1>2. CASE Accepter \/ (\E n \in Clients : Client(n)) \/ UNCHANGED vars
  BY <1>2, MutualElsewhere
<1>3. QED
  BY <1>1, <1>2 DEF Next

\* When nothing is under way, MutualInv says that the rosters are complete.
LEMMA QuietComplete ==
  ASSUME CharsEnough, IInv, TextInv, ByeInv, FareInv, MutualInv
  PROVE  RosterComplete
<1> SUFFICES ASSUME Quiescent, NEW r \in InSession, NEW n \in InSession,
                    r # n, ~RosterCut(r), ~TakenOut(r, n)
             PROVE  idMap[n] \in Listed(r)
  BY DEF RosterComplete
<1>1. /\ r \in Clients /\ n \in Clients /\ n \in clientsSocketMap
      /\ peer[r] = "open" /\ idMap[r] # NoEntry /\ idMap[n] # NoEntry
  BY NullsAssumption DEF InSession, Quiescent, IInv, TypeOK, Names
<1>2. \A w \in Workers : pc[w] \in {"enter", "gqcs"} /\ cur[w] = NoOne
  BY DEF Quiescent, IInv, OwnedInMap
<1>3. Knows(r, n)
  <2>1. Mutual(r, n)
    BY <1>1 DEF MutualInv
  <2>2. ~Hearing(r, n) /\ ~Awaiting(r)
    BY <1>2 DEF Hearing, Ahead, Looping, Awaiting
  <2>3. QED
    BY <1>1, <2>1, <2>2 DEF Mutual
<1>4. ~Leaving(n)
  BY <1>1, <1>2, NullsAssumption DEF Leaving, IInv, NumbersFresh
<1>5. out[r] \in Seq(Message)
  BY <1>1 DEF IInv, TypeOK
<1>6. \A i \in DOMAIN out[r] : ~Withdraws(out[r][i], idMap[n])
  <2> SUFFICES ASSUME NEW i \in DOMAIN out[r], Withdraws(out[r][i], idMap[n])
               PROVE  FALSE
    OBVIOUS
  <2>1. out[r][i] \in Message /\ out[r][i].type = "DISCONNECTED_ID"
        /\ out[r][i].id = idMap[n]
    BY <1>5 DEF Withdraws
  <2>2. out[r][i].src = n
    BY <2>1 DEF TakenOut
  <2>3. Leaving(out[r][i].src)
    BY <1>1, <2>1 DEF ByeInv, ByesOfLeaving
  <2>4. QED
    BY <1>4, <2>2, <2>3
<1>7. \E i \in DOMAIN out[r] : Teaches(out[r][i], idMap[n])
  BY <1>3 DEF Knows, IdOf, Teaches
<1>8. \A i \in DOMAIN out[r] : out[r][i].type = "ID" => Short(out[r][i])
  BY <1>1 DEF MutualInv, RostersShort
<1>9. idMap[n] \in ToSet(FoldLeft(Show, <<>>, out[r]))
  <2> DEFINE id == idMap[n]
             q == out[r]
  <2> HIDE DEF id, q
  <2>1. q \in Seq(Message)
    BY <1>5 DEF q
  <2>2. /\ \A i \in DOMAIN q : q[i].type = "ID" => Short(q[i])
        /\ \A i \in DOMAIN q : ~Withdraws(q[i], id)
        /\ \E i \in DOMAIN q : Teaches(q[i], id)
    BY <1>6, <1>7, <1>8 DEF q, id
  <2>3. id \in ToSet(FoldLeft(Show, <<>>, q))
    BY <2>1, <2>2, TaughtShown
  <2>4. QED
    BY <2>3 DEF id, q
<1>10. QED
  BY <1>9 DEF Listed, ClientList

\* When nothing is under way, every client in session has every other one in its
\* list, unless its roster was cut or the goodbye of another connection under the
\* same id took the entry out: however the loops that announce logins, the four
\* passes over idMap that make a roster, and the removals interleave, as long as
\* the number of connections is one that a signed char can say.
THEOREM RosterWhole ==
  CharsEnough => (Spec => []RosterComplete)
<1> SUFFICES ASSUME CharsEnough PROVE Spec => []RosterComplete
  OBVIOUS
<1>1. IInv /\ TextInv /\ ByeInv /\ FareInv /\ MutualInv => RosterComplete
  BY QuietComplete
<1>2. QED
  BY <1>1, InitText, NextText, InitBye, NextBye, InitFare, NextFare,
     InitMutual, NextMutual, Invariance, PTL DEF Spec
=============================================================================
