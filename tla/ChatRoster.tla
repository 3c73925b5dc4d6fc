----------------------------- MODULE ChatRoster -----------------------------
(***************************************************************************)
(* The lists of ids the users look at: the one in each client's main       *)
(* dialog (ClientDlg_Main.cpp, MFC_ClientDlg.cpp), filled from what the    *)
(* server sends, and the one in the server's dialog (MFC_ServerDlg.cpp),   *)
(* filled from what the workers post.  Both are functions of the histories *)
(* ChatServer keeps.                                                       *)
(***************************************************************************)
EXTENDS ChatServer, SequencesExt

CONSTANTS
  Me,          \* the entry "<own id> (me)" of a client's list
  CharValues   \* values of a char, half of them negative

ASSUME CharAssumption == CharValues \in Nat \ {0}

AddId(list, id) == Append(list, id)

\* Mutant of RemoveId: the loop starts at the second item.
RemoveIdFromSecond(list, id) ==
  IF list = <<>> THEN list
  ELSE <<list[1]>> \o SelectSeq(Tail(list), LAMBDA item : item # id)

\* for (i = 0; i < count; i++) if (item i is the id) delete item i
\* -- the item that moves up into i is skipped.
ScanItem(scan, item) ==
  IF item = scan.id /\ ~scan.skip
  THEN [id |-> scan.id, kept |-> scan.kept, skip |-> TRUE]
  ELSE [id |-> scan.id, kept |-> Append(scan.kept, item), skip |-> FALSE]

RemoveId(list, id) ==
  FoldLeft(ScanItem, [id |-> id, kept |-> <<>>, skip |-> FALSE], list).kept

\* The ids of a roster packet, in an order of the unordered map they are read
\* from: those copied, then zeros.
PacketIds(m) ==
  LET order == SetToSeq(DOMAIN m.ids)
  IN  [i \in 1 .. Len(order) + m.blanks |->
         IF i <= Len(order) THEN m.ids[order[i]] ELSE Empty]

\* Those OnUpdateIdList adds: it reads their number, a char, as a signed one.
ShownIds(m) ==
  LET ids  == PacketIds(m)
      char == Len(ids) % CharValues
  IN  SubSeq(ids, 1, IF 2 * char < CharValues THEN char ELSE 0)

\* What a client's dialog does with a message.
Show(list, m) ==
  CASE m.type = "LOGIN_INFO" /\ m.ok -> AddId(list, Me)
    [] m.type = "ID"                 -> FoldLeft(AddId, list, ShownIds(m))
    [] m.type = "DISCONNECTED_ID"    -> RemoveId(list, m.id)
    [] OTHER                         -> list

ClientList(r) == FoldLeft(Show, <<>>, out[r])

ShowInServer(list, p) == IF p.type = "MSG_CLIENT_LOGIN" THEN AddId(list, p.id)
                                                        ELSE RemoveId(list, p.id)

ServerList == FoldLeft(ShowInServer, <<>>, dlg)

-----------------------------------------------------------------------------
\* Nothing is under way: no packet, no closed connection still to be removed,
\* no worker handling anything.
Quiescent ==
  /\ up /\ accepterPc = "accept"
  /\ \A n \in Clients : net[n] = NoPacket
  /\ \A n \in clientsSocketMap : peer[n] = "open"
  /\ \A w \in Workers : pc[w] \in {"enter", "gqcs"}

InSession == {n \in clientsSocketMap : idMap[n] \in Ids}
Listed(r) == ToSet(ClientList(r))

\* An id was listed a second time before it was removed: its user clicked again
\* before the answer, or logged in over two connections at once.  What RemoveId
\* leaves of two items depends on where they stand.
ListedTwice(id) ==
  \E i, j \in DOMAIN dlg :
    /\ i < j /\ dlg[i] = dlg[j]
    /\ dlg[i] = [type |-> "MSG_CLIENT_LOGIN", id |-> id]
    /\ \A k \in i .. j : dlg[k] # [type |-> "MSG_REMOVE_ID", id |-> id]

\* The server's own list has every id once while it is in session, and not at
\* all otherwise, over any number of logins and ends of connections and
\* whatever becomes of other ids, until the id is listed twice.
ServerListExact ==
  Quiescent => \A id \in Ids : ListedTwice(id) \/
    Cardinality({i \in DOMAIN ServerList : ServerList[i] = id})
      = Cardinality({n \in InSession : idMap[n] = id})

\* A roster that was cut: sized before another login, filled after it.
RosterCut(r) ==
  \E i \in DOMAIN out[r] : out[r][i].type = "ID" /\ out[r][i].cut > 0

\* r was told that another connection under n's id has gone: the goodbye names
\* the id only, and takes n's entry out too.
TakenOut(r, n) ==
  \E i \in DOMAIN out[r] : /\ out[r][i].type = "DISCONNECTED_ID"
                           /\ out[r][i].id = idMap[n] /\ out[r][i].src # n

\* Every client in session has every other in its list, however the logins and
\* removals overlap, unless its roster was cut or an account was used over two
\* connections of which one has gone.
RosterComplete ==
  Quiescent => \A r, n \in InSession :
    r # n /\ ~RosterCut(r) /\ ~TakenOut(r, n) => idMap[n] \in Listed(r)

\* A client's list has only ids in session.
NoGhost ==
  Quiescent => \A r \in InSession :
    \A id \in Listed(r) \ {Me} : \E n \in InSession : idMap[n] = id
=============================================================================
