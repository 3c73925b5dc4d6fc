--------------------------- MODULE ProfileImages ----------------------------
(***************************************************************************)
(* Profile pictures, from the menu of one client to the windows of the     *)
(* others: the image packets of Server.cpp and Client.cpp, the files both  *)
(* sides keep, and the clicks on the list of ids (ClientDlg_Main.cpp).     *)
(*                                                                         *)
(* A picture travels in two packets: its name (IMAGE_EXT) and, 100 ms      *)
(* later, its bytes (IMAGE).  A receiver stores the bytes under the name   *)
(* it was sent last.  The handlers of different connections run side by    *)
(* side, as in ChatServer; those of one connection one after the other     *)
(* (SingleOwner there).  Packets arrive whole.                             *)
(***************************************************************************)
EXTENDS Naturals, Sequences, FiniteSets

CONSTANTS
  Clients,     \* connections, each with a client program of its own
  Ids,         \* account ids
  IdOf,        \* IdOf[c]: the account the user of c logs in with
  Exts,        \* file extensions
  ExtsOf,      \* ExtsOf[c]: those of the pictures the user of c sets
  Viewers,     \* the clients whose users click on ids
  Leavers,     \* the clients that may leave
  MaxPictures, \* bound: pictures the user of each client sets
  MaxClicks,   \* bound: clicks of one user
  Large,       \* TRUE: pictures are larger than PACKET_SIZE
  Turns,       \* TRUE: users wait until no picture is under way
  None

ASSUME ImagesAssumption ==
  /\ IdOf \in [Clients -> Ids] /\ ExtsOf \in [Clients -> SUBSET Exts]
  /\ Viewers \cup Leavers \subseteq Clients
  /\ MaxPictures \in [Clients -> Nat] /\ MaxClicks \in Nat
  /\ {Large, Turns} \subseteq BOOLEAN
  /\ None \notin Ids \cup Exts \cup Clients

VARIABLES
  clientsSocketMap,   \* connections in the map
  idMap,              \* their ids
  profileImageExtMap, \* the extension each announced last; never erased
  saved,              \* the server's files: <<id, extension>> -> picture
  at,                 \* where the handler of each connection is
  msg,                \* what it broadcasts
  todo,               \* the entries its loop has still ahead
  pkt,                \* the packet it handles
  up, down,           \* packets under way to the server, to the client
  session,            \* "off", "on", "in" (logged in), "left"
  myId,               \* Client::myId, None before the login
  idExtMap,           \* Client::idExtMap
  lastImageName,      \* Client::lastImageName, an <<id, extension>>
  stored,             \* the client's files: <<directory, id, extension>>
  sending,            \* the picture its SendImage is at, which blocks the
                      \* user interface
  taken, clicks,      \* pictures set and clicks made so far
  popup,              \* the image window opened last
  latest,             \* history: the picture each account set last
  twice               \* history: the accounts that were in idMap twice at once

serverVars  == <<clientsSocketMap, idMap, profileImageExtMap, saved>>
handlerVars == <<at, msg, todo, pkt>>
programVars == <<session, myId, idExtMap, lastImageName, stored>>
userVars    == <<sending, taken, clicks, popup, latest, twice>>
imageVars   == <<serverVars, handlerVars, up, down, programVars, userVars>>

-----------------------------------------------------------------------------
Pictures  == UNION {[id : {IdOf[c]}, by : {c}, no : 1 .. MaxPictures[c]] :
                      c \in Clients}
FileNames == Ids \X Exts
Dirs      == Ids \cup {None}

ASSUME NoneAssumption == None \notin Pictures \cup FileNames

LoginInfo        == [type |-> "LOGIN_INFO"]
ImageExt(ext)    == [type |-> "IMAGE_EXT", ext |-> ext]
Image(pic)       == [type |-> "IMAGE", pic |-> pic]
ImageRequest(id) == [type |-> "IMAGE_REQUEST", id |-> id]
NamedExt(name)   == [type |-> "IMAGE_EXT", name |-> name]
Requested(pic)   == [type |-> "IMAGE_REQUEST", pic |-> pic]
Goodbye(id)      == [type |-> "DISCONNECTED_ID", id |-> id]
NoMsg            == [type |-> "NONE"]

Connected(c) == session[c] \in {"on", "in"}

\* Server::Send: a client that has left takes nothing.
Sent(queues, c, m) ==
  IF Connected(c) THEN [queues EXCEPT ![c] = Append(@, m)] ELSE queues

\* The loop of Server::Send for large packets subtracts what send returns, -1
\* once it fails: from then on it never ends.
MaySpin(c, m) == Large /\ ~Connected(c) /\ m.type \in {"IMAGE", "IMAGE_REQUEST"}

Init ==
  /\ clientsSocketMap = {}
  /\ idMap = [c \in Clients |-> None]
  /\ profileImageExtMap = [c \in Clients |-> None]
  /\ saved = [name \in FileNames |-> None]
  /\ at = [c \in Clients |-> "recv"] /\ msg = [c \in Clients |-> NoMsg]
  /\ todo = [c \in Clients |-> {}] /\ pkt = [c \in Clients |-> NoMsg]
  /\ up = [c \in Clients |-> <<>>] /\ down = [c \in Clients |-> <<>>]
  /\ session = [c \in Clients |-> "off"]
  /\ myId = [c \in Clients |-> None]
  /\ idExtMap = [c \in Clients |-> [id \in Ids |-> None]]
  /\ lastImageName = [c \in Clients |-> None]
  /\ stored = [c \in Clients |-> [file \in Dirs \X Ids \X Exts |-> None]]
  /\ sending = [c \in Clients |-> None]
  /\ taken = [c \in Clients |-> 0] /\ clicks = [c \in Clients |-> 0]
  /\ popup = [c \in Clients |-> None]
  /\ latest = [id \in Ids |-> None] /\ twice = {}

-----------------------------------------------------------------------------
(* The users.                                                              *)

\* Nothing of a picture is under way.
Quiet ==
  \A c \in Clients : /\ at[c] \in {"recv", "bye", "spin"} /\ sending[c] = None
                     /\ up[c] = <<>> /\ down[c] = <<>>

MayAct(c) == session[c] = "in" /\ sending[c] = None /\ (Turns => Quiet)

\* Broadcast loops over the map.
InLoop(c) == at[c] \in {"ext", "image", "bye"} /\ msg[c] # NoMsg

\* The accepter enters the connection; a loop that runs may see it or not.
Connect(c) ==
  /\ session[c] = "off"
  /\ session' = [session EXCEPT ![c] = "on"]
  /\ clientsSocketMap' = clientsSocketMap \cup {c}
  /\ \E ahead \in SUBSET {d \in Clients : InLoop(d)} :
       todo' = [d \in Clients |-> IF d \in ahead THEN todo[d] \cup {c}
                                                 ELSE todo[d]]
  /\ UNCHANGED <<idMap, profileImageExtMap, saved, at, msg, pkt, up, down,
                 myId, idExtMap, lastImageName, stored, userVars>>

\* OnBnClickedButtonLogin: SetMyId comes before the request.
ClickLogin(c) ==
  /\ session[c] = "on" /\ myId[c] = None
  /\ myId' = [myId EXCEPT ![c] = IdOf[c]]
  /\ up' = [up EXCEPT ![c] = Append(@, LoginInfo)]
  /\ UNCHANGED <<serverVars, handlerVars, down, session, idExtMap,
                 lastImageName, stored, userVars>>

\* OnMenuSetProfileImage, SendImage and the first packet of ThreadSend.
SetProfileImage(c) ==
  /\ MayAct(c) /\ taken[c] < MaxPictures[c]
  /\ taken' = [taken EXCEPT ![c] = @ + 1]
  /\ LET pic == [id |-> myId[c], by |-> c, no |-> taken[c] + 1]
     IN  /\ sending' = [sending EXCEPT ![c] = pic]
         /\ latest' = [latest EXCEPT ![myId[c]] = pic]
  /\ \E ext \in ExtsOf[c] : up' = [up EXCEPT ![c] = Append(@, ImageExt(ext))]
  /\ UNCHANGED <<serverVars, handlerVars, down, programVars, clicks, popup,
                 twice>>

\* ThreadSend 100 ms later; SendImage, which joined it, returns.
SendBytes(c) ==
  /\ sending[c] # None
  /\ up' = [up EXCEPT ![c] = Append(@, Image(sending[c]))]
  /\ sending' = [sending EXCEPT ![c] = None]
  /\ UNCHANGED <<serverVars, handlerVars, down, programVars, taken, clicks,
                 popup, latest, twice>>

\* The ids a client's list shows: those in session, and those whose goodbye
\* it has not handled yet.
Listed(c) ==
  {id \in Ids \ {myId[c]} :
     \/ \E d \in Clients : idMap[d] = id
     \/ \E i \in DOMAIN down[c] : down[c][i] = Goodbye(id)}

\* Mutant of OnClickListClients: whether a picture was announced is not asked.
ClickAlwaysShows(c) ==
  /\ c \in Viewers /\ MayAct(c) /\ clicks[c] < MaxClicks
  /\ clicks' = [clicks EXCEPT ![c] = @ + 1]
  /\ \E id \in Listed(c), ext \in Exts :
       popup' = [popup EXCEPT ![c] =
                   [id |-> id, pic |-> stored[c][<<myId[c], id, ext>>]]]
  /\ UNCHANGED <<serverVars, handlerVars, up, down, programVars, sending, taken,
                 latest, twice>>

\* A click on an id shows the file of a picture that was announced, and
\* otherwise asks the server.  A file that is not there gives an empty window.
OnClickListClients(c) ==
  /\ c \in Viewers /\ MayAct(c) /\ clicks[c] < MaxClicks
  /\ clicks' = [clicks EXCEPT ![c] = @ + 1]
  /\ \E id \in Listed(c) :
       LET ext == idExtMap[c][id] IN
       IF ext = None
       THEN /\ up' = [up EXCEPT ![c] = Append(@, ImageRequest(id))]
            /\ UNCHANGED popup
       ELSE /\ popup' = [popup EXCEPT ![c] =
                 [id |-> id, pic |-> stored[c][<<myId[c], id, ext>>]]]
            /\ UNCHANGED up
  /\ UNCHANGED <<serverVars, handlerVars, down, programVars, sending, taken,
                 latest, twice>>

\* The user closes the window; the menu's SendImage would not let him.
Leave(c) ==
  /\ c \in Leavers /\ Connected(c) /\ sending[c] = None
  /\ session' = [session EXCEPT ![c] = "left"]
  /\ down' = [down EXCEPT ![c] = <<>>]
  /\ UNCHANGED <<serverVars, handlerVars, up, myId, idExtMap, lastImageName,
                 stored, userVars>>

-----------------------------------------------------------------------------
(* The receive thread of a client.                                         *)

Receives(c, type) == /\ Connected(c) /\ down[c] # <<>>
                     /\ Head(down[c]).type = type
                     /\ down' = [down EXCEPT ![c] = Tail(@)]

\* SendMessage: the handler runs when the user interface thread is free.
TellsDialog(c) == sending[c] = None

LoginResult(c) ==
  /\ Receives(c, "LOGIN_INFO") /\ TellsDialog(c)
  /\ session' = [session EXCEPT ![c] = "in"]
  /\ UNCHANGED <<serverVars, handlerVars, up, myId, idExtMap, lastImageName,
                 stored, userVars>>

SaveImageName(c) ==
  /\ Receives(c, "IMAGE_EXT")
  /\ LET name == Head(down[c]).name
     IN  /\ idExtMap' = [idExtMap EXCEPT ![c][name[1]] = name[2]]
         /\ lastImageName' = [lastImageName EXCEPT ![c] = name]
  /\ UNCHANGED <<serverVars, handlerVars, up, session, myId, stored, userVars>>

\* The files once SaveImage has run.
StoredImage(c, pic) ==
  LET name == lastImageName[c] IN
  IF name = None THEN stored
                 ELSE [stored EXCEPT ![c][<<myId[c], name[1], name[2]>>] = pic]

SaveImage(c) ==
  /\ Receives(c, "IMAGE")
  /\ stored' = StoredImage(c, Head(down[c]).pic)
  /\ UNCHANGED <<serverVars, handlerVars, up, session, myId, idExtMap,
                 lastImageName, userVars>>

\* SendImageRequestMessage stores the picture and sends MSG_RECV_TEXT, not
\* MSG_SHOW_IMAGE: a line of no meaning in the chat, and no window.
SendImageRequestMessage(c) ==
  /\ Receives(c, "IMAGE_REQUEST") /\ TellsDialog(c)
  /\ stored' = StoredImage(c, Head(down[c]).pic)
  /\ UNCHANGED <<serverVars, handlerVars, up, session, myId, idExtMap,
                 lastImageName, userVars>>

RemoveDisconnectedId(c) ==
  /\ Receives(c, "DISCONNECTED_ID") /\ TellsDialog(c)
  /\ idExtMap' = [idExtMap EXCEPT ![c][Head(down[c]).id] = None]
  /\ UNCHANGED <<serverVars, handlerVars, up, session, myId, lastImageName,
                 stored, userVars>>

-----------------------------------------------------------------------------
(* The server's handlers, one at a time for each connection.               *)

Handles(c, type) == /\ at[c] = "recv" /\ c \in clientsSocketMap
                    /\ up[c] # <<>> /\ Head(up[c]).type = type
                    /\ up' = [up EXCEPT ![c] = Tail(@)]

StartBroadcast(c, step, m) ==
  /\ at' = [at EXCEPT ![c] = step]
  /\ msg' = [msg EXCEPT ![c] = m]
  /\ todo' = [todo EXCEPT ![c] = clientsSocketMap \ {c}]

\* Mutant of Login: idMap does not get the id.
LoginForgetsId(c) ==
  /\ Handles(c, "LOGIN_INFO")
  /\ down' = Sent(down, c, LoginInfo)
  /\ UNCHANGED <<serverVars, handlerVars, programVars, userVars>>

\* ChatServer has the steps of a login.
Login(c) ==
  /\ Handles(c, "LOGIN_INFO")
  /\ idMap' = [idMap EXCEPT ![c] = IdOf[c]]
  /\ twice' = IF \E d \in Clients \ {c} : idMap[d] = IdOf[c]
              THEN twice \cup {IdOf[c]} ELSE twice
  /\ down' = Sent(down, c, LoginInfo)
  /\ UNCHANGED <<clientsSocketMap, profileImageExtMap, saved, handlerVars,
                 programVars, sending, taken, clicks, popup, latest>>

SaveImageExt(c) ==
  /\ Handles(c, "IMAGE_EXT")
  /\ profileImageExtMap' = [profileImageExtMap EXCEPT ![c] = Head(up[c]).ext]
  /\ UNCHANGED <<clientsSocketMap, idMap, saved, handlerVars, down,
                 programVars, userVars>>

\* What BroadcastImage announces.  The file also gets the nine bytes behind
\* the packet, which no viewer of images looks at.
ImageName(c) == <<idMap[c], profileImageExtMap[c]>>

\* Mutant of RecvImage: two connections are taken for one.
RecvImageForTwo(c) ==
  /\ Handles(c, "IMAGE")
  /\ saved' = [saved EXCEPT ![ImageName(c)] = Head(up[c]).pic]
  /\ IF Cardinality(clientsSocketMap) <= 2
     THEN UNCHANGED handlerVars
     ELSE /\ StartBroadcast(c, "ext", NamedExt(ImageName(c)))
          /\ pkt' = [pkt EXCEPT ![c] = Head(up[c])]
  /\ UNCHANGED <<clientsSocketMap, idMap, profileImageExtMap, down,
                 programVars, userVars>>

\* RecvImage saves the picture, and BroadcastImage announces it unless the
\* sender is the only connection.
RecvImage(c) ==
  /\ Handles(c, "IMAGE")
  /\ saved' = [saved EXCEPT ![ImageName(c)] = Head(up[c]).pic]
  /\ IF clientsSocketMap = {c}
     THEN UNCHANGED handlerVars
     ELSE /\ StartBroadcast(c, "ext", NamedExt(ImageName(c)))
          /\ pkt' = [pkt EXCEPT ![c] = Head(up[c])]
  /\ UNCHANGED <<clientsSocketMap, idMap, profileImageExtMap, down,
                 programVars, userVars>>

\* BroadcastImage after the pause.
BroadcastBytes(c) ==
  /\ at[c] = "pause" /\ pkt[c].type = "IMAGE"
  /\ StartBroadcast(c, "image", pkt[c])
  /\ UNCHANGED <<serverVars, pkt, up, down, programVars, userVars>>

\* The extension FindImageAndSend finds for an id: that of one connection of
\* this id, None where it returns or looks for a file without an extension.
ExtsFound(id) == LET S == {d \in Clients : idMap[d] = id}
                 IN  IF S = {} THEN {None} ELSE {profileImageExtMap[d] : d \in S}

\* The name goes out if the file is found.  It was saved under pathName and is
\* looked for without it, in the working directory: it may not be there.
FindImageAndSend(c) ==
  /\ Handles(c, "IMAGE_REQUEST")
  /\ LET id == Head(up[c]).id IN
     \E ext \in ExtsFound(id) :
       \/ /\ ext # None /\ saved[<<id, ext>>] # None
          /\ down' = Sent(down, c, NamedExt(<<id, ext>>))
          /\ at' = [at EXCEPT ![c] = "pause"]
          /\ msg' = [msg EXCEPT ![c] = NamedExt(<<id, ext>>)]
          /\ pkt' = [pkt EXCEPT ![c] = Head(up[c])]
       \/ UNCHANGED <<down, at, msg, pkt>>
  /\ UNCHANGED <<serverVars, todo, programVars, userVars>>

\* The file is read after the pause (ImageToBytes) and sent.
SendFoundImage(c) ==
  /\ at[c] = "pause" /\ pkt[c].type = "IMAGE_REQUEST"
  /\ LET m == Requested(saved[msg[c].name])
     IN  /\ down' = Sent(down, c, m)
         /\ at' \in {[at EXCEPT ![c] = step] :
                       step \in {"recv"} \cup IF MaySpin(c, m) THEN {"spin"} ELSE {}}
  /\ msg' = [msg EXCEPT ![c] = NoMsg] /\ pkt' = [pkt EXCEPT ![c] = NoMsg]
  /\ UNCHANGED <<serverVars, todo, up, programVars, userVars>>

SendToTarget(c) ==
  /\ InLoop(c)
  /\ \E d \in todo[c] :
       /\ down' = Sent(down, d, msg[c])
       /\ todo' = [todo EXCEPT ![c] = @ \ {d}]
       /\ at' \in {at} \cup IF MaySpin(d, msg[c])
                            THEN {[at EXCEPT ![c] = "spin"]} ELSE {}
  /\ UNCHANGED <<serverVars, msg, pkt, up, programVars, userVars>>

BroadcastDone(c) ==
  /\ todo[c] = {} /\ at[c] \in {"ext", "image"}
  /\ at' = [at EXCEPT ![c] = IF @ = "ext" THEN "pause" ELSE "recv"]
  /\ msg' = [msg EXCEPT ![c] = NoMsg]
  /\ pkt' = IF at[c] = "ext" THEN pkt ELSE [pkt EXCEPT ![c] = NoMsg]
  /\ UNCHANGED <<serverVars, todo, up, down, programVars, userVars>>

\* RemoveDisconnectedClient, once what the client sent is handled: goodbye,
\* and the entries go.  profileImageExtMap keeps its own.
StartRemoval(c) ==
  /\ c \in clientsSocketMap /\ session[c] = "left"
  /\ at[c] = "recv" /\ up[c] = <<>>
  /\ IF idMap[c] = None
     THEN /\ at' = [at EXCEPT ![c] = "bye"]
          /\ UNCHANGED <<msg, todo>>
     ELSE StartBroadcast(c, "bye", Goodbye(idMap[c]))
  /\ UNCHANGED <<serverVars, pkt, up, down, programVars, userVars>>

Remove(c) ==
  /\ at[c] = "bye" /\ todo[c] = {}
  /\ at' = [at EXCEPT ![c] = "recv"]
  /\ msg' = [msg EXCEPT ![c] = NoMsg]
  /\ idMap' = [idMap EXCEPT ![c] = None]
  /\ clientsSocketMap' = clientsSocketMap \ {c}
  /\ todo' = [d \in Clients |-> todo[d] \ {c}]
  /\ UNCHANGED <<profileImageExtMap, saved, pkt, up, down, programVars,
                 userVars>>

-----------------------------------------------------------------------------
User(c) == \/ Connect(c) \/ ClickLogin(c) \/ SetProfileImage(c)
           \/ OnClickListClients(c) \/ Leave(c)

ReceiveThread(c) == \/ LoginResult(c) \/ SaveImageName(c) \/ SaveImage(c)
                    \/ SendImageRequestMessage(c) \/ RemoveDisconnectedId(c)

Handler(c) == \/ Login(c) \/ SaveImageExt(c) \/ RecvImage(c)
              \/ BroadcastBytes(c) \/ FindImageAndSend(c) \/ SendFoundImage(c)
              \/ SendToTarget(c) \/ BroadcastDone(c) \/ Remove(c)

Next == \E c \in Clients : \/ User(c) \/ SendBytes(c) \/ ReceiveThread(c)
                           \/ Handler(c) \/ StartRemoval(c)

\* Threads run.  What users do is up to them, and a removal may wait for good
\* (RemovalHappens of ChatServer).
Spec == /\ Init /\ [][Next]_imageVars
        /\ \A c \in Clients : /\ WF_imageVars(SendBytes(c))
                              /\ WF_imageVars(ReceiveThread(c))
                              /\ WF_imageVars(Handler(c))

-----------------------------------------------------------------------------
(* Properties.                                                             *)

Messages == [type : {"LOGIN_INFO", "NONE"}]
     \cup [type : {"IMAGE_EXT"}, ext : Exts]
     \cup [type : {"IMAGE_EXT"}, name : FileNames]
     \cup [type : {"IMAGE", "IMAGE_REQUEST"}, pic : Pictures]
     \cup [type : {"IMAGE_REQUEST", "DISCONNECTED_ID"}, id : Ids]

\* Every variable has its type: no packet carries an extension, an id or a
\* picture that is not there, such as one of a connection without a login.
TypeOK ==
  /\ clientsSocketMap \subseteq Clients
  /\ idMap \in [Clients -> Ids \cup {None}]
  /\ profileImageExtMap \in [Clients -> Exts \cup {None}]
  /\ saved \in [FileNames -> Pictures \cup {None}]
  /\ at \in [Clients -> {"recv", "ext", "pause", "image", "bye", "spin"}]
  /\ msg \in [Clients -> Messages] /\ pkt \in [Clients -> Messages]
  /\ todo \in [Clients -> SUBSET Clients]
  /\ \A c \in Clients : /\ \A i \in DOMAIN up[c] : up[c][i] \in Messages
                        /\ \A i \in DOMAIN down[c] : down[c][i] \in Messages
  /\ session \in [Clients -> {"off", "on", "in", "left"}]
  /\ myId \in [Clients -> Ids \cup {None}]
  /\ idExtMap \in [Clients -> [Ids -> Exts \cup {None}]]
  /\ lastImageName \in [Clients -> FileNames \cup {None}]
  /\ stored \in [Clients -> [Dirs \X Ids \X Exts -> Pictures \cup {None}]]
  /\ sending \in [Clients -> Pictures \cup {None}]
  /\ \A c \in Clients : taken[c] \in 0 .. MaxPictures[c]
  /\ clicks \in [Clients -> 0 .. MaxClicks]
  /\ popup \in [Clients -> [id : Ids, pic : Pictures \cup {None}] \cup {None}]
  /\ latest \in [Ids -> Pictures \cup {None}] /\ twice \subseteq Ids

\* A client stores pictures under the id of their owner only, although the
\* name and the bytes come in two packets and are put together by nothing but
\* lastImageName.
UnderOwnersName ==
  \A c \in Clients : \A file \in DOMAIN stored[c] :
    stored[c][file] # None => stored[c][file].id = file[2]

\* What came before the user logged in is in no directory of his.
CameBeforeLogin(c, id) ==
  \E ext \in Exts : stored[c][<<None, id, ext>>] = latest[id]

\* The worker that broadcasts a picture of id never ends its loop.
Spinning(id) == \E c \in Clients : IdOf[c] = id /\ at[c] = "spin"

\* When users wait until no picture is under way (Turns), a click opens the
\* picture the owner set last, through changes of the extension, goodbyes and
\* later logins; except what came before the viewer's own login, for the files
\* are in the directory of no user, what a loop that never ends keeps back, and
\* accounts that have been in idMap for two connections at once, as of a user
\* who logs in again before his removal: FindImageAndSend takes the extension
\* of either.
ShowsLast ==
  \A c \in Clients : popup'[c] # popup[c] =>
    LET id == popup'[c].id
    IN  \/ popup'[c].pic = latest[id]
        \/ CameBeforeLogin(c, id) \/ Spinning(id) \/ id \in twice

WindowShowsLast == [][ShowsLast]_imageVars

HasPicture(c, pic) ==
  \E file \in DOMAIN stored[c] : stored[c][file] = pic /\ file[2] = pic.id

Arrived(c, pic) == up[c] # <<>> /\ Head(up[c]) = Image(pic)

\* A picture the server is about to handle reaches every connection there is
\* at that time (README.md:30), unless its client leaves, or another that has
\* left holds the loop for good.
ImageReachesAll ==
  \A c \in Clients : \A n \in 1 .. MaxPictures[c], d \in Clients \ {c} :
    LET pic == [id |-> IdOf[c], by |-> c, no |-> n] IN
    (Arrived(c, pic) /\ d \in clientsSocketMap)
      ~> (HasPicture(d, pic) \/ session[d] = "left" \/ at[c] = "spin")
=============================================================================
