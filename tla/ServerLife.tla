----------------------------- MODULE ServerLife -----------------------------
(***************************************************************************)
(* The life of the server process: CMFCServerDlg::OnInitDialog starts the  *)
(* server, and ~Server runs ShutdownServer in the main thread when the     *)
(* dialog has been closed, while the accepter, the workers and their       *)
(* queries (AccountDb) go on.  Of the workers only what ends a connection  *)
(* is here; ChatServer has the rest.                                       *)
(*                                                                         *)
(* The main thread's steps are those of ShutdownServer.  A use of what it  *)
(* has deleted is undefined: the process goes on, or it ends ("crashed").  *)
(***************************************************************************)
EXTENDS AccountDb

CONSTANTS
  MaxClients,  \* bound: connections ever accepted
  MaxWork,     \* bound: connections accepted and queries begun, together
  MayNotStart  \* TRUE: InitializeServer or StartServer may fail

ASSUME LifeAssumption == /\ {MaxClients, MaxWork} \subseteq Nat
                         /\ MayNotStart \in BOOLEAN

VARIABLES
  main,       \* the main thread: the dialog, or where it is in ShutdownServer,
              \* or how the process ended
  accepter,   \* where the accepter thread is, "unset" when there is none
  accepted,   \* the connection it is at
  bAccept,
  winsock,    \* between WSAStartup and WSACleanup
  critsecWork,       \* it is initialised
  info,              \* each SocketInfo: "none", "live" or "deleted"
  clientsSocketMap,  \* the connections that have an entry
  ahead,             \* the entries the loop of ShutdownServer has still ahead
  posted             \* the connections with a receive outstanding

threadVars   == <<main, accepter, accepted, bAccept>>
resourceVars == <<winsock, critsecWork>>
socketVars   == <<info, clientsSocketMap, ahead, posted>>
lifeVars     == <<threadVars, resourceVars, socketVars>>
vars         == <<dbVars, lifeVars>>

Clients == 1 .. MaxClients

Over    == main \in {"ended", "crashed"}

WithinBound == Cardinality({n \in Clients : info[n] # "none"}) + calls < MaxWork

\* How far InitializeServer and StartServer got.  A failure after WSAStartup
\* closes the socket and calls WSACleanup; the dialog stays all the same, and
\* the pointer accepterThread has no value then.
Starts == {"runs"} \cup (IF MayNotStart THEN {"noServer", "noThreads"} ELSE {})

LifeInit ==
  /\ Init
  /\ \E start \in Starts :
       /\ winsock = (start = "runs")
       /\ critsecWork = (start # "noServer")
       /\ accepter = IF start = "runs" THEN "loop" ELSE "unset"
  /\ main = "dialog" /\ bAccept = winsock /\ accepted = NoOne
  /\ info = [n \in Clients |-> "none"]
  /\ clientsSocketMap = {} /\ ahead = {} /\ posted = {}

-----------------------------------------------------------------------------
(* AccepterThread.                                                         *)

AccepterGoes(from, to) == accepter = from /\ accepter' = to

CheckAcceptable ==
  /\ AccepterGoes("loop", IF bAccept THEN "accept" ELSE "ended")
  /\ UNCHANGED <<dbVars, main, accepted, bAccept, resourceVars, socketVars>>

Accept ==
  /\ winsock /\ WithinBound
  /\ AccepterGoes("accept", "add")
  /\ \E n \in Clients : /\ info[n] = "none" /\ \A m \in 1 .. n - 1 : info[m] # "none"
                        /\ info' = [info EXCEPT ![n] = "live"]
                        /\ accepted' = n
  /\ UNCHANGED <<dbVars, main, bAccept, resourceVars, clientsSocketMap, ahead,
                 posted>>

\* As when the caller has gone, and at once when Winsock is closed under it.
AcceptFails ==
  /\ AccepterGoes("accept", "ended")
  /\ UNCHANGED <<dbVars, main, accepted, bAccept, resourceVars, socketVars>>

\* Nothing keeps it from running during the loop of ShutdownServer, which may
\* then meet the new entry or not.
AddSocketInfo ==
  /\ AccepterGoes("add", "post")
  /\ clientsSocketMap' = clientsSocketMap \cup {accepted}
  /\ ahead' \in IF main = "delete" THEN {ahead, ahead \cup {accepted}} ELSE {ahead}
  /\ UNCHANGED <<dbVars, main, accepted, bAccept, resourceVars, info, posted>>

PostFirstRecv ==
  LET works == winsock /\ info[accepted] = "live"
  IN  /\ AccepterGoes("post", IF works THEN "loop" ELSE "ended")
      /\ posted' = IF works THEN posted \cup {accepted} ELSE posted
      /\ accepted' = NoOne
      /\ UNCHANGED <<dbVars, main, bAccept, resourceVars, info,
                     clientsSocketMap, ahead>>

Accepter == \/ CheckAcceptable \/ Accept \/ AcceptFails \/ AddSocketInfo
            \/ PostFirstRecv

-----------------------------------------------------------------------------
(* The main thread in ShutdownServer.                                      *)

\* Mutant of FollowedBy: the accepter is joined before Winsock is closed.
JoinFirst(step) ==
  CASE step = "dialog"  -> "join"
    [] step = "join"    -> "cleanup"
    [] step = "cleanup" -> "critsec"
    [] step = "critsec" -> "delete"
    [] step = "delete"  -> "close"
    [] step = "close"   -> "ended"

FollowedBy(step) ==
  CASE step = "dialog"  -> "cleanup"
    [] step = "cleanup" -> "critsec"
    [] step = "critsec" -> "delete"
    [] step = "delete"  -> "join"
    [] step = "join"    -> "close"
    [] step = "close"   -> "ended"

MainDoes(step) == main = step /\ main' = FollowedBy(step)

\* After something undefined.
MayCrash(step) == main = step /\ main' \in {FollowedBy(step), "crashed"}

\* The dialog has been closed: ~Server sets bRecv and bAccept to false.
BeginShutdown ==
  /\ MainDoes("dialog") /\ bAccept' = FALSE
  /\ UNCHANGED <<dbVars, accepter, accepted, resourceVars, socketVars>>

\* Every call that waits in Winsock ends with an error.
CleanupWinsock ==
  /\ MainDoes("cleanup") /\ winsock' = FALSE
  /\ UNCHANGED <<dbVars, accepter, accepted, bAccept, critsecWork, socketVars>>

\* The loop over clientsSocketMap begins; no lock protects it.
DeleteSection ==
  /\ IF critsecWork THEN MainDoes("critsec") ELSE MayCrash("critsec")
  /\ critsecWork' = FALSE /\ ahead' = clientsSocketMap
  /\ UNCHANGED <<dbVars, accepter, accepted, bAccept, winsock, info,
                 clientsSocketMap, posted>>

DeleteSocketInfo ==
  /\ main = "delete"
  /\ \E n \in ahead : /\ ahead' = ahead \ {n}
                      /\ info' = [info EXCEPT ![n] = "deleted"]
  /\ UNCHANGED <<dbVars, threadVars, resourceVars, clientsSocketMap, posted>>

\* Mutant of ClearMap: the map is cleared inside the loop.
ClearEarly ==
  /\ MainDoes("delete")
  /\ clientsSocketMap' = {}
  /\ UNCHANGED <<dbVars, accepter, accepted, bAccept, resourceVars, info,
                 ahead, posted>>

ClearMap ==
  /\ MainDoes("delete") /\ ahead = {}
  /\ clientsSocketMap' = {}
  /\ UNCHANGED <<dbVars, accepter, accepted, bAccept, resourceVars, info,
                 ahead, posted>>

Join ==
  /\ CASE accepter = "ended" -> MainDoes("join")
       [] accepter = "unset" -> MayCrash("join")
       [] OTHER              -> FALSE
  /\ UNCHANGED <<dbVars, accepter, accepted, bAccept, resourceVars, socketVars>>

CloseDatabase ==
  /\ MainDoes("close")
  /\ Close \/ (hstmt = "none" /\ UNCHANGED dbVars)
  /\ UNCHANGED <<accepter, accepted, bAccept, resourceVars, socketVars>>

ShutdownServer == \/ CleanupWinsock \/ DeleteSection \/ DeleteSocketInfo
                  \/ ClearMap \/ Join \/ CloseDatabase

-----------------------------------------------------------------------------
(* The workers.                                                            *)

\* A connection ends, by itself or because Winsock does, and a worker removes
\* it: RemoveDisconnectedClient enters critsecWork, deletes the SocketInfo and
\* erases the entry, whatever the main thread does with them.
RemoveDisconnectedClient(n) ==
  /\ n \in posted /\ posted' = posted \ {n}
  /\ info' = [info EXCEPT ![n] = "deleted"]
  /\ clientsSocketMap' = clientsSocketMap \ {n}
  /\ ahead' = ahead \ {n}
  /\ main' \in IF critsecWork /\ info[n] = "live" THEN {main}
                                                 ELSE {main, "crashed"}
  /\ UNCHANGED <<dbVars, accepter, accepted, bAccept, resourceVars>>

\* Which connection's packet a query serves makes no difference here.
Query(w) == accepter # "unset" /\ Step(w) /\ UNCHANGED lifeVars
Ask(w)   == accepter # "unset" /\ WithinBound /\ Begin(w) /\ UNCHANGED lifeVars

LifeNext ==
  /\ ~Over
  /\ \/ Accepter \/ BeginShutdown \/ ShutdownServer
     \/ \E n \in Clients : RemoveDisconnectedClient(n)
     \/ \E w \in Workers : Ask(w) \/ Query(w)

\* The threads run; nobody need ever connect, ask or close the dialog, and
\* WSAAccept need not fail while Winsock runs.
LifeSpec ==
  /\ LifeInit /\ [][LifeNext]_vars
  /\ \A w \in Workers : WF_vars(~Over /\ Query(w))
  /\ WF_vars(~Over /\ ShutdownServer)
  /\ WF_vars(~Over /\ (CheckAcceptable \/ AddSocketInfo \/ PostFirstRecv))
  /\ WF_vars(~Over /\ ~winsock /\ AcceptFails)

-----------------------------------------------------------------------------
LifeTypeOK ==
  /\ main \in {"dialog", "cleanup", "critsec", "delete", "join", "close",
               "ended", "crashed"}
  /\ accepter \in {"unset", "loop", "accept", "add", "post", "ended"}
  /\ accepted \in Clients \cup {NoOne}
  /\ {winsock, critsecWork, bAccept} \subseteq BOOLEAN
  /\ info \in [Clients -> {"none", "live", "deleted"}]
  /\ clientsSocketMap \subseteq Clients /\ posted \subseteq Clients
  /\ ahead \subseteq clientsSocketMap

\* The shutdown comes to its end although it joins a thread that waits for
\* connections, whenever it begins and whatever the start had come to.
ShutdownEnds == main # "dialog" ~> Over

\* The shutdown gives the sockets back (README.md:33), all but at most one: the
\* accepter may add one after the loop that deletes them.
SocketsReturned ==
  main = "ended" => Cardinality({n \in Clients : info[n] = "live"}) <= 1

\* Every query comes to an end, unless the process does or the database is
\* closed under it.
QueriesReturn ==
  \A w \in Workers : []<>(pc[w] = "idle" \/ hstmt = "freed" \/ Over)

=============================================================================
