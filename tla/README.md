# MFC_Chatting in TLA+

MFC_Chatting is a chat program for Windows: a server built on one I/O completion
port (`MFC_Server`) and a dialog-based client (`MFC_Client`). This directory holds
TLA+ models of its protocol-bearing parts, TLC configurations that check them on
small instances, and TLAPS proofs of what the server's threading relies on.

Contents: [the system](#1-the-system), [plan](#2-plan), [modules and
code](#3-modules-and-the-code), [runs](#4-runs), [fairness](#5-fairness),
[proofs](#6-proofs), [what the models found](#7-what-the-models-found),
[what is not modelled](#8-what-is-not-modelled).

## 1. The system

### 1.1 Components

| Component | Code | State | Operations |
|---|---|---|---|
| Accepter thread | `Server.cpp` `AccepterThread`, `AddSocketInfo` | `clientCount`, the accepted socket | accept, enter the connection in `clientsSocketMap`, associate it with the port, post its first receive; returns for good at the first failure |
| Worker pool | `Server.cpp` `WorkerThread`, `ProcessPacket`, `Recv` | per worker the `SocketInfo*` it got; `critsecWork` | wait at the port inside `critsecWork`, put the packet together, dispatch, post the next receive, or remove the client |
| Handlers | `SignUpToDB`, `Login`, `SendIdToOtherClients`, `SendAllClientsId`, `BroadcastText`, `RemoveDisconnectedClient`, `Broadcast`, `Send` | `clientsSocketMap`, `idMap` (shared by all workers, no lock outside the removal) | answer, announce, roster, texts, removal |
| Framing, server | `WorkerThread` lines 174-207, `InitializePacketInfo` | `packetInfo` of each connection | collect receives until the byte count equals the size in the header |
| Account database | `Database.cpp` `Connect`, `ExcuteQuery`, `Close` | one ODBC statement handle `hstmt`; table `dbo.AccountInfo` | open, login (SELECT), sign-up (INSERT), close |
| Server dialog | `MFC_ServerDlg.cpp` | list of ids | add and remove an id when a worker says so by `SendMessage` |
| Client receive thread | `Client.cpp` `ThreadRecv`, `ProcessPacket` | `recvBuf`, `totalSize`, `pos`, `type` | put packets together, hand them to the dialog, report the end of the connection |
| Client dialog | `MFC_ClientDlg.cpp`, `ClientDlg_Main.cpp` | list of ids, chat log, `clientPtr` | handlers of the receive thread's messages (some open a modal box), destruction of the `Client` |
| Login and sign-up tabs | `ClientDlg_LoginTab.cpp`, `ClientDlg_SignUpTab.cpp` | fields | send a request; nothing disables the button meanwhile |
| Send loops | `Server::Send`, `Client::Send` | position, remaining size | send a packet whole or in pieces of `PACKET_SIZE` |
| Profile images, server | `SaveImageExt`, `RecvImage`, `BroadcastImage`, `FindImageAndSend` | `profileImageExtMap` (shared, never erased), the files in `pathName` | note the extension, save, announce and pass on a picture, answer a request |
| Profile images, client | `ThreadSend`, `SaveImageName`, `SaveImage`, `SendImageRequestMessage`; `OnMenuSetProfileImage`, `OnClickListClients` | `idExtMap`, `lastImageName`, one directory per user | set a picture (name, 100 ms, bytes), store what comes, show or request on a click |
| Start and shutdown of the server | `InitializeServer`, `StartServer`, `~Server`, `ShutdownServer`; main thread | `bAccept`, `accepterThread` (a pointer without a value until the start got that far), everything above | start; clean up Winsock, delete `critsecWork` and the `SocketInfo`s, join the accepter, close the database |

### 1.2 How they interact

A client writes packets to its TCP connection. A receive completes, one worker takes
the completion from the port, handles the packet **outside** the critical section and
only then posts the next receive of that connection. Handlers send to other
connections by walking `clientsSocketMap`, and report logins and removals to the
server's dialog with a synchronous `SendMessage`. The client's receive thread reports
everything to its dialog with a synchronous `SendMessage` as well; the dialog's thread
is the one that sends and that destroys the `Client`, which joins the receive thread.
Pictures are sent by a short-lived thread (`ThreadSend`) that the dialog's thread joins.

The server's main thread runs the dialog and, when that has been closed, the shutdown. It
joins the accepter; the workers are detached and go on until the process ends.

Shared by several threads: the two maps (accepter and all workers), `critsecWork`
(workers), `hstmt` (workers, closed by the main thread), every socket (a worker sends to it while
another one removes it), the maps and `critsecWork` once more with the main thread in its
shutdown, the picture files, `ownerDlg` and the window handle (both threads of the client).

### 1.3 What is hard here

* One receive per connection at a time is the only thing that keeps two workers off
  one `SocketInfo`.
* Handlers of different connections interleave at every access to the maps.
* A removal needs the lock a worker holds while it *waits*.
* The answer to a login, the entry in `idMap`, the announcement and the roster are four
  separate steps, and other logins and removals fall between them.
* TCP has no packet borders.
* A picture is two packets without a common name, and what falls between them of another
  picture changes the name.
* `send` may fail, and its -1 goes into sums of sizes.
* The shutdown deletes what threads still use, joins one that waits for the network, and
  leaves the others running.
* Two threads that wait for each other by message and by join.

`PROJECT.json` lists each such place with its line under `hazards`, and the properties
that watch it; a hazard without one has a note that says why.

### 1.4 What makes each component correct

* Accepter and workers: one owner per `SocketInfo`; nobody touches a deleted one except
  the loops of other broadcasts; no connection is forgotten.
* Maps and broadcasts: ids of connections only; texts in order, without gaps, signed;
  nothing of a client after its goodbye, and the goodbye to all that knew it; complete
  lists once nothing is under way; requests are answered, texts arrive, ended
  connections are removed.
* Database: each query takes effect at one moment, answers what the table holds when no
  other one overlaps it, ends.
* Framing, both ends: packets are handled once, whole, in order, and all of them.
* Send loops: every call of `Send` returns, also when the connection goes away. The code
  keeps this for packets of at most `PACKET_SIZE` bytes only, and only this is checked.
* Profile images: a picture reaches everyone, is stored under its owner's name, and a click
  shows the one set last.
* Shutdown: it ends, and the sockets are given back, whatever the threads are doing.
* Client threads: the `Client` outlives its thread; the program ends when the user or
  the server ends it.

## 2. Plan

In order of importance. All of these are done.

1. `ChatServer`: accepter, workers, maps, handlers, removal. Safety and liveness.
2. `ChatServerProofs`: types, ownership of the `SocketInfo`s, exclusion of removals, no
   connection forgotten.
3. In `ChatServerProofs`, on top of 2, the properties of the message histories:
   `TextsAreSigned`, `NothingAfterGoodbye`, `GoodbyeReachesAll` and `TextsContiguous`.
4. `ChatRoster`: the lists the users see, as functions of `ChatServer`'s histories;
   `ChatRosterProofs` proves that they are right and whole, with the lemmas on folds of
   `FoldSteps`.
5. `AccountStore` (abstract) and `AccountDb` (the ODBC calls) that implements it, which
   `ServerLifeProofs` proves.
6. `PacketStream` (abstract), `ByteStream`, `ServerFraming` and `ChatClient`, which
   implement it; the loops of `Send` with a reset under them are part of `ServerFraming`.
   `ByteStreamProofs` has the lemmas on streams of bytes, `ServerFramingProofs` and
   `ChatClientProofs` prove `Assembly` and both refinements.
7. `ProfileImages`: the image packets on both sides. A module of its own, since its
   questions need the clients' files and clicks and not `ChatServer`'s worker loop.
   `ProfileImagesProofs`: every packet names what is there, and a click shows the picture
   set last.
8. `ServerLife`, which composes start and shutdown with the accepter, the removals and
   `AccountDb`; `ServerLifeProofs`.
9. `ChatClientProofs`: the end of the client's receive thread.

Left out: back pressure, that is, a `send` that blocks, and the chunks of two workers
mixed on one socket.

## 3. Modules and the code

| Module | Role |
|---|---|
| `ChatServer` | the server's threads, maps and handlers, with clients and network around |
| `ChatRoster` | extends `ChatServer`: the contents of the list controls |
| `MCChatServer` | constants of the TLC instances |
| `ChatServerProofs` | theorems about `ChatServer`: types, ownership, exclusion, attendance, signed texts, nothing of a client after its goodbye, goodbyes reach whom they concern, texts come as a block |
| `FoldSteps` | a fold of a sequence with one more element, for any operator |
| `ChatRosterProofs` | theorems: the server's list is exact, the clients' lists are whole |
| `AccountStore` / `AccountDb` | what the handlers expect of the database / `ExcuteQuery` call by call |
| `ServerLife` | extends `AccountDb`: start and shutdown of the server process |
| `ServerLifeProofs` | theorems about `AccountDb` and `ServerLife`: types, queries implement the store, sockets given back |
| `PacketStream` | what both ends take a connection for |
| `ByteStream` / `ByteStreamProofs` | packets as bytes, for the next two / lemmas on streams of bytes |
| `ServerFraming` | a client's sends, TCP, and `WorkerThread` up to `ProcessPacket` |
| `ServerFramingProofs` | theorems: packets are assembled whole, the server's side of a connection is a packet stream |
| `ChatClient` | the client's two threads, from bytes to closed window |
| `ChatClientProofs` | theorems: the same of the client's side; the `Client` outlives its receive thread |
| `ProfileImages` / `MCProfileImages` | pictures, from the menu of one client to the windows of others / its instances |
| `ProfileImagesProofs` | theorems: no packet, file or window lacks its id, extension or picture; a click shows the picture set last |

`PROJECT.json` maps every definition to its lines.

### 3.1 ChatServer

A connection is its number, `clientCount` at `AddSocketInfo`. `pc[w]` says where a worker
is; an action is what happens between two accesses to state that others see:

    enter -> gqcs -> dispatch -> recv -> enter                 (SIGNUP_INFO)
                        |-> addId -> setId -> next/send*
                              -> check -> size -> count -> fill -> recv  (LOGIN_INFO)
                        |-> next/send* -> recv                 (TEXT)
             gqcs -> remove -> next/send* -> bye -> forget -> close -> enter

* `Enter`, `DequeuePacket`, `DequeueClosed` are lines 165-172; `Recv` is 201-207 with
  256-270. `posted` is the set of connections with an outstanding receive.
* `StartBroadcast`, `PickTarget`, `SendToTarget`, `BroadcastDone` are one walk over
  `clientsSocketMap`. The map is unordered, so the order is any. An entry the loop has
  not reached disappears from `todo` when it is erased; one it stands at may be `freed`
  when it is used. That is undefined in C++: the model lets the send use the old
  contents, or ends the process (`up = FALSE`). An insertion by the accepter may be
  linked ahead of a running loop or behind it. Otherwise a single access to a map counts
  as one step; the corruption a racing `unordered_map` access may cause beyond that is
  not modelled.
* `SendAllClientsId` reads `idMap` four times without a lock: whether there is anybody else
  (`CheckAlone`, line 395), for the size of the packet (`SizePacket`, 398-409), for the
  number in its first byte (`CountIds`, 410), and for the ids (`FillIds`). `quantity` holds
  the size and the number, which may differ, and the receiver reads as many ids as the
  number says. Ids added since the sizing overrun the buffer (cut, or the process ends); ids
  removed leave zeros, which the client reads as empty names, and past the end of the packet
  it reads anything. In the message `blanks` counts the empty names and `cut` the ids lost.
* `BroadcastText` has `idMap[number]` insert an empty entry as `operator[]` does.
* `StartRemoval` to `CloseSocket` run under `critsecWork`.
* `Send` is one step. A peer that has gone takes nothing; for packets up to
  `PACKET_SIZE` the loop ends whatever `send` returns (`SendsEnd` of `ServerFraming`).
* With `Resets` a connection may be reset at any time. A `WSARecv` posted on it then either
  fails at once, which the code logs and no more, or is posted and completes with an error
  (both in `Recv`).
* The database answers anything (`AccountDb` says what it can answer).
* A client has at most one packet under way, which arrives in one receive. This is the
  pacing under which `ServerFraming` shows that packets arrive whole.
* Users may ask for a login or a sign-up again and again until a login has succeeded, without
  waiting for an answer, since nothing disables the button
  (`ClientDlg_LoginTab.cpp:57-68`); `MaxRequests` bounds how often. So one connection may be
  logged in twice, and two connections may use one account.

History variables: `sent`, `out` (messages sent to each client), `dlg` (messages to the
dialog), `freed`.

### 3.2 ChatRoster

`RemoveId` is the loop that deletes item `i` and then looks at `i + 1`, so that of two
equal neighbours one stays (`ScanItem` is one turn of it). The ids of a roster come in the
order of an `unordered_map`, which is no order to rely on: `PacketIds` takes some order. `ClientList` and `ServerList` fold the handlers over `out`
and `dlg`. The properties speak of states in which nothing is under way (`Quiescent`).
The client reads the number of ids from a signed char: `ShownIds` shows none when the
number is `CharValues \div 2` or more (256 in the program and in the runs). `Me` is the item
the user finds himself as. `ListedTwice`, `RosterCut` and `TakenOut` name what the properties
except.

### 3.3 AccountStore and AccountDb

A step is one ODBC call, which the driver serialises; the sequence is not protected.
`param` and `col` say whose buffers are bound to the shared handle, `cursor` what it has
still to fetch. Bound buffers of a call that returned may hold anything. Workers query
whenever they like. `Ids` and `Passwords` are the strings users type.

`hstmt` is `"open"`, `"none"` (`Connect` does not look at what `SQLAllocHandle` returned,
so the server runs without a handle and every query fails) or `"freed"` (`Close`). With no
open cursor or no handle `SQLFetch` fails for ever, and the loop waits for `SQL_NO_DATA`
only: there is no step for that worker.

The refinement mapping `replyOf` puts the moment a query takes effect at its execution:
from then on the answer of a login is what its cursor found. The history `mixed` says which
calls in progress have overlapped another one before they took effect (`Waiting`). The store
promises the table's answer to the others: `Login` and `SignUp`, against `LoginMixed` and
`SignUpMixed`, which may answer anything but keep the table's key and say truly whether a row
was added. So the store says what is left when the workers take no lock, and that an overlap
does no harm to what comes after it.

`ZeroLow` names strings whose first UTF-16 unit has a zero low byte (U+AC00 is one), for
which `strlen` on the wide buffer is 0, so that the program refuses a login with them
(`Database.cpp:130`). The store leaves open whether a login with such a string
(`Unreadable`) is recognised: a program that measured the buffers rightly would implement it
as well.

### 3.4 ServerFraming and ChatClient

A byte is `<<i, j>>`, the j-th byte of the i-th packet, so a lost, doubled or moved byte
is seen. A header is the type and the size; `SizeRead` gives the size a receiver reads
when only part of the header has come and the rest of the cleared buffer is zero. A
chunk that starts in the middle of a packet where a header is expected yields any type
and any of the sizes in `Sizes`. A copy past the end of the buffer is cut, or ends the
process.

A packet of more than `PacketSize` bytes is sent in pieces. After `Reset` a `send` returns
-1 (`SendFails`). The loop for small packets adds it to an `int` that is compared with a
`size_t`, so it ends; the loop for large ones subtracts it from what is left, which is
never zero again.

`Paced` restricts the network of `ServerFraming`: a receive never returns bytes of two
packets, nor less than a header when it starts a packet. The server assumes it; TCP does not
promise it. `ChatClient` has no such constant: its receives return what they like. The
history `unpaced` becomes true with the first one that is not so, and up to then packets are
handled as they should be. Such a receive need not be bad luck: while a modal box holds the
thread the packets pile up, and the server sends the answer to a login and the list of ids
one after the other (`Server.cpp:326`, `337`).

`ChatClient` has the two threads. `SendMessage` is `mail`: the receive thread waits
until the handler returned (`Resume`) or the window is gone. RESULT packets (answers
without a size) and MSG_DISCONNECTED open a modal box; while it is open the user cannot
close the main window. `ResetClient` is `clientPtr.reset()` inside the handler of
MSG_DISCONNECTED: the dialog has the only `shared_ptr` (the tabs have weak ones), so it
runs `~Client` and joins. `ReceiveNothing` is `recv` returning 0 between packets, where
the zeroed buffer reads as SIGNUP_INFO with result false (`Client.cpp:118-139`). The thread
hands this `Phantom` to the dialog like any result, again and again, and the model records
it in `handled` like any result, up to `MaxHandled` packets. `PacketStream` therefore has
`Phantoms`, which may be handled only when the sender has closed and everything it sent has
been handled (`HandleEnd`); for the server there are none.

### 3.5 ServerLife

The main thread's place is `main`: the dialog, then `cleanup`, `critsec`, `delete`,
`join`, `close`, which are the statements of `ShutdownServer` in their order
(`FollowedBy`), then `ended`; or `crashed`.

* `Starts` are the outcomes of `InitializeServer` and `StartServer`. The dialog does not
  look at them and stays open; `accepterThread` is `"unset"` when the start failed, and
  the shutdown then uses a pointer without a value. Using it, or deleting a critical
  section that was never initialised, is undefined: `MayCrash` goes on or ends the process.
* The accepter's steps are those of `ChatServer` with Winsock added: once it is closed
  `WSAAccept` fails. `AddSocketInfo` may fall into the loop of the shutdown, which then
  meets the new entry or not. `info` says of each `SocketInfo` whether it is live.
* `RemoveDisconnectedClient` is a worker's removal as one step. Where it enters a deleted
  section or deletes a `SocketInfo` a second time the process may end.
* Queries are `AccountDb`'s (`Ask`, `Query`), and `CloseDatabase` is its `Close`. They may
  overlap; whose connection a query is for is not said. `MaxWork` bounds connections and
  queries together (`WithinBound`).

### 3.6 ProfileImages

A connection is a client program and its user; `IdOf` gives the account, so two
connections can be one user's. `at[c]` is where the server's handler of connection `c` is:

    recv -> ext* -> pause -> image* -> recv        (IMAGE)
    recv -> pause -> recv                          (IMAGE_REQUEST)
    recv -> bye* -> recv                           (removal)

`up` and `down` are the packets under way. A picture is a record of owner, sender and
number, so that one stored under another's name is seen. `saved` are the server's files,
`stored[c]` the client's, by directory (one per user; `None` for what came before the
login), id and extension. `sending` is the picture `SendImage` is at: it joins
`ThreadSend`, so the dialog answers nothing meanwhile.

Constants: `Turns` makes users wait until no picture is under way, which the program does
not; `Large` says that pictures exceed `PACKET_SIZE`, so that a `send` to a client that has
gone may never end (`spin`). `Viewers` click, `Leavers` leave.

`FindImageAndSend` finds the file or not: it looks for it in the working directory
(`Server.cpp:531`), while `RecvImage` saved it under `pathName` (480), and nothing makes the
two the same. So no request is promised an answer.

History variables: `latest`, the picture each account set last, and `twice`, the accounts
that have been in `idMap` for two connections at once; a user who logs in again before the
removal of his last connection is enough for that, and the removal may wait for ever.
`FindImageAndSend` answers with the extension announced by the first of the connections it
meets, and the file of the other extension may be the newer one; so nothing is promised
about such an account.

One handler per connection at a time is `SingleOwner`, proved for `ChatServer`; the steps
of a login are left to that module too.

## 4. Runs

Deadlock checking is off everywhere: users may fall silent, the bounds on packets and
connections end every behaviour, and undefined behaviour may end the process.

| Run | Instance | Question |
|---|---|---|
| `server_core` | 3 connections of 2 users with an account each, 2 workers, one packet each (sign-up or login), one of them closes | types, ownership, goodbyes, lists |
| `server_texts` | 2 connections, 2 workers, the first sends 4 packets, up to 2 of them logins, both may close or be reset, accepter failures, fair threads | ids of connections only, no connection forgotten, signatures, order, gaps, end, the server's list after a repeated login, requests answered, texts delivered |
| `removal_stuck` (violated) | 1 connection, 2 workers, even a fair critical section | `RemovalHappens` |
| `roster_ghost` (violated) | 2 connections | `NoGhost` |
| `server_life` | 2 connections, 2 workers, one id, 2 passwords (one of `ZeroLow`), 3 connections and queries together, overlapping or not, any outcome of the start | types, sockets given back, refinement of `AccountStore`, queries and shutdown end |
| `db_shared` (violated) | 2 workers, 2 strings, 4 overlapping queries | `LoginRight` |
| `framing_paced` | 3 packets of 0, 1, 2, 5 or 8 data bytes, receives of at most 4, a reset | assembly, refinement of `PacketStream`, all handled, sends end |
| `framing_coalesced` (violated) | the same, any receives | `PacketsHandled` |
| `client` | 2 packets of every kind, sizes 0 and 3, receives of at most 4 that return what they like; the server closes or resets, the user closes | assembly, refinement, all handed on, end by the user |
| `client_end` (violated) | 3 packets, sizes 0, 2, 5; the user does not close, the server resets | `EndNoticed` |
| `profile_images` | 3 connections of 2 users: one user on two of them sets a picture on each, with two extensions; the other clicks twice; one leaves | types, clicks show the last picture, pictures arrive |
| `image_mixup` (violated) | the same, both users set a picture whenever they like | `UnderOwnersName` |

Properties, one by one:

* `SingleOwner`: a `SocketInfo` is with the accepter, at the port or with one worker.
* `OwnAlive`: nobody handles or waits on a deleted one.
* `IdMapWithinClients`: `idMap` never has a number that left `clientsSocketMap`.
* `NoOrphan`: every connection has a receive posted or a thread that will see to it, and
  only one that was reset may have neither (a `WSARecv` that fails at once is only logged).
* `GoodbyeReachesAll`: who was told of a login is told of the end, under the same id, by
  the time the `SocketInfo` is gone.
* `RosterComplete`, `ServerListExact`: the lists once nothing is under way. Excepted from the
  first are rosters cut short by a login between the passes (`RosterCut`) and accounts used
  over two connections of which one has gone (`TakenOut`): its goodbye names the id only.
  Excepted from the second are ids that were listed twice (`ListedTwice`), by a second click
  or a second connection: of two equal items the removal may leave one. In `server_core` an
  account is used over two connections, one after the other or both at once, and in
  `server_texts` a user clicks again before the answer or after a refusal. The properties hold
  for the other ids all the time, and for one listed twice until it is.
* `TextsAreSigned`, `TextsContiguous`, `NothingAfterGoodbye`: the texts a client sees.
* `RequestsAnswered`, `TextsDelivered`: with fair threads, although removals may wait for
  ever. Both allow that a deleted entry ends the process.
* `IsAccountStore`: a query takes effect at one moment and, if it overlaps no other one,
  answers what the table holds; overlapping ones keep the table's key, and do no harm to the
  next. `LoginRight`: a login succeeds only if the table has it, which overlapping ones
  violate. `QueriesReturn`: a query ends, unless the handle is freed under it.
* `SocketsReturned`: when the shutdown has ended, at most one `SocketInfo` is left, one
  the accepter added behind the loop. `ShutdownEnds`: it ends, though it joins a thread
  that waits for connections.
* `WindowShowsLast`: a click opens the picture the owner set last, through changes of the
  extension, goodbyes and later logins (for users that take turns); excepted are pictures
  that came before the viewer's login, and accounts that were in `idMap` twice at once.
  `ImageReachesAll`: a picture the server has taken is stored by every client connected
  then. Both except what a loop that never ends keeps back.
* `UnderOwnersName`: a client stores pictures under their owner's id only.
* `Assembly`: what a receiver has is a prefix of the packet it is at, what is under way
  continues it, and its buffer has the right size.
* `IsPacketStream`, `PacketsHandled`: packets are handled once, whole and in order, and
  all of them. In `ChatClient` both hold up to the first receive that is not paced, and the
  results that nobody sent are part of the stream, after everything that was sent.
* `SendsEnd`: every call of `Send` of a packet of at most `PACKET_SIZE` bytes returns, also
  when the connection is reset under it. Of larger ones nothing is claimed: after a reset
  their loop does not end.
* `ClientOutlivesThread`, `WindowClosed`, `EndNoticed`: the end of the client.

Why the bounds are enough to be worth something. Two workers give every pair of
interleaved handlers, and one in a handler while the other removes or waits at the port;
a third adds no new kind of conflict, as each conflict in this code is between two
steps. Three connections are the least with a sender, one that leaves and one that
watches; the liveness of `server_texts` is checked with two, where each takes every one of
these parts in turn. Four packets of one sender give a login (that may fail once) and a run of
texts. Sizes 0 to 8 with a header of 3 and receives of at most 4 give packets of one
chunk, an exact fill, two and three chunks; three packets give a successor to whatever
went wrong with the second. In `client` two packets of 2, 3 or 6 bytes and receives of at
most 4 bytes give whole packets, two in one receive, a packet in pieces and a cut header;
`MaxHandled` of 4 lets a phantom result be shown twice after both. Byte values are base 3
instead of 256 and the header is 3 bytes instead of 9, which keeps a cut header possible.
Symmetry is used for the workers, in runs of invariants only. In `server_life` two
connections give one in the map and one in the accepter's hands while the shutdown runs, two
workers two queries that overlap, and three calls one more after they did; the bound of one
on what is left is proved for any number. In `profile_images`
two connections of one user are the least with two files under one id, and a viewer of
another user the least with somebody to show them to. Two clicks are the least for one that
asks and one that shows the answer: with one, no picture that was asked for is ever shown.
With 2 workers each of these runs takes TLC between a few seconds and three minutes; the
largest, `server_core`, has 5.0 million distinct states.

## 5. Fairness

* `Fairness` of `ChatServer`: weak fairness of each worker and of the accepter's posting:
  threads run. Strong fairness of taking the completion of a given connection: the port
  is first in, first out, so a queued completion is not passed over for ever. Nothing
  about who gets the critical section when several want it: `RequestsAnswered` and
  `TextsDelivered` hold without that. New connections and user actions have no fairness.
  Handlers end because the dialog answers `SendMessage` and `send` returns: a dialog
  that never answers or a peer that never reads would stop a worker (see section 8).
* `StrongSpec` adds a fair critical section. It is used only to show that not even this
  makes removals happen.
* `AccountDb`: each worker goes on with its query.
* `ServerLife` (`LifeSpec`): queries, the statements of `ShutdownServer` and the accepter's
  steps go on; `WSAAccept` fails once Winsock is closed, which is what Winsock documents,
  and need not return before. Nothing about connections, questions and closing the dialog.
* `ServerFraming`: sent bytes move on, a `send` on a reset connection returns, and bytes
  that arrived are received.
* `ProfileImages`: `ThreadSend`, the receive threads and the handlers run. Users need do
  nothing, and a removal need not begin (`RemovalHappens` above).
* `ChatClient`: both threads run and the user confirms the boxes. Windows makes no
  promise about the latter; without it nothing can follow a box.

## 6. Proofs

Proved for every set of workers, every number of connections, packets and queries, and
all values of the flags, under the hypotheses that stand in the table:

| Theorem | Module | Says |
|---|---|---|
| `TypeCorrect` | `ChatServerProofs` | `Spec => []TypeOK` |
| `SingleOwnership` | `ChatServerProofs` | `Spec => []SingleOwner` |
| `OwnSocketAlive` | `ChatServerProofs` | `Spec => []OwnAlive` |
| `IdsOfClients` | `ChatServerProofs` | `Spec => []IdMapWithinClients` |
| `RemovalExcludes` | `ChatServerProofs` | at most one worker waits at the port or removes a client |
| `NoneForgotten` | `ChatServerProofs` | `Spec => []NoOrphan` |
| `TextsSigned` | `ChatServerProofs` | `Spec => []TextsAreSigned` |
| `GoodbyeIsLast` | `ChatServerProofs` | `Spec => []NothingAfterGoodbye` |
| `GoodbyesSaid` | `ChatServerProofs` | `OneAccount => (Spec => []GoodbyeReachesAll)` |
| `TextsUnbroken` | `ChatServerProofs` | `Spec => []TextsContiguous` |
| `ServerListRight` | `ChatRosterProofs` | `OneAccount => (Spec => []ServerListExact)` |
| `RosterWhole` | `ChatRosterProofs` | `CharsEnough => (Spec => []RosterComplete)` |
| `DbTypeCorrect` | `ServerLifeProofs` | `Spec => []TypeOK`, also when queries overlap |
| `LifeTypes` | `ServerLifeProofs` | `LifeSpec => []LifeTypeOK` |
| `ShutdownReturns` | `ServerLifeProofs` | `LifeSpec => []SocketsReturned` |
| `LifeQueries` | `ServerLifeProofs` | `LifeSpec => IsAccountStore` |
| `PacketsAssembled` | `ServerFramingProofs` | `Paced => (Spec => []Assembly)` |
| `FramingIsStream` | `ServerFramingProofs` | `Paced => (Spec => IsPacketStream)` |
| `PacketsAssembled` | `ChatClientProofs` | `Spec => []Assembly` |
| `ClientIsStream` | `ChatClientProofs` | `Spec => IsPacketStream` |
| `ThreadEndsFirst` | `ChatClientProofs` | `Spec => []ClientOutlivesThread` |
| `PacketsHaveNames` | `ProfileImagesProofs` | `Spec => []TypeOK` |

The assumptions are those the modules name: bounds are naturals, the accounts are among
the ids, flags are Booleans, and the null values differ from the real ones. TLC evaluates
each of them. Of the hypotheses, `OneAccount` (each user has one account) is about users and
`CharsEnough` (fewer than 128 connections) about the load; `Paced` is about the network and is
what the code of the server assumes.

`ProfileImagesProofs` also proves `ClicksShowLast`, that is, `Turns => (Spec =>
WindowShowsLast)`. It is not among the results above, since `Turns` excludes by assumption
the pictures that are set at about the same time, and the code excludes nothing: it says how
far the trouble of `image_mixup` goes, not that the program keeps its promise.

### 6.1 ChatServer

None of the first six is inductive alone. `SingleOwner` survives `Recv` only because the
connection a worker handles is not posted, and `Accept` only because numbers are never
used again (`NumbersFresh`); `OwnAlive` needs that whatever is posted or handled is in
`clientsSocketMap` (`OwnedInMap`), which a removal keeps because its own connection has
no other owner. `IdMapWithinClients` needs `HandlerState`: a removal that reaches
`close` has dropped its id, so `CloseSocket` leaves none behind, and no other worker can
put it back since the connection has one owner. `LockHeld` (a worker holds `critsecWork`
exactly at the port and in a removal) is kept by the guards of `Enter` and
`StartRemoval`. `IInv` is their conjunction with `TypeOK` (`Invariance`). `NoOrphan`
rides on it: only `Recv` can let go of a connection without posting a receive, and it does
so on a reset only; a removal lets go of one that it takes out of the map. There is one lemma per
action, with a step for each group of conjuncts, and the lemmas `SendType`,
`MessageTypes` and `OthersCounted` for what is appended to `out`.

`TextInv` is the invariant behind `TextsAreSigned`. The client writes text once the
answer to its login has come, which `Login` sends before `SetId` puts the id in `idMap`;
if a text could be taken in between, `BroadcastText` would make an empty entry and sign
with it. `LoginHasId` closes the gap: a client that was told of its success has an id,
or the worker that told it is at `addId` or `setId`, or it is at the end of its removal.
A worker that takes a text is at `dispatch`, and `SingleOwner` says that no other worker
has that client, so the first case holds. `PacketsOwn` and `IdsOwn` say that the id is
one the user logged in with, and `BroadcastSigned` carries that through the loop. A step
at which `TextInv` does not look is dealt with once (`AsideKeeps`).

`ByeInv` is the invariant behind `NothingAfterGoodbye`. No lock keeps the loop of one
worker from the loop of another; what does is that a loop sends only what its own client
causes (`LoopsOwn`). A goodbye is sent when its client is `Leaving`, that is, in a removal
or deleted, and that is for ever (`LeavingStays`). An id or a text is sent for a client
that a worker handles and does not remove, which is not `Leaving`, because it has no other
owner and is in `clientsSocketMap` (`HandledStays`). So every message is `Timely` when
it is sent, and a timely message keeps the order (`TimelySend`).

`FareInv` is the invariant behind `GoodbyeReachesAll`. Once r was told of a login of n, a
goodbye of n is *due* to r or has been said (`DueOrSaid`). It is due as long as the removal
of n has not begun its loop, or the loop has r still ahead. The removal's loop begins with
all of `clientsSocketMap`, where r is while its connection is open (`OpenStay`), and r leaves
the loop's way only when it is sent to or its own removal, which needs a connection that
ended, takes it out. That nobody is told of n after the goodbye was due no more is again
`SingleOwner`: the one worker that has n announces it or removes it. Once n is in `freed`
nothing is due, so the goodbye was said; that it came after the announcement is
`NothingAfterGoodbye`. The goodbye names the id that `idMap` has last, so a user who logs in
twice under two accounts is taken back under the second only: hence the assumption
`OneAccount`, which the constants of the runs meet.

`LoopInv` and `OrderInv` are behind `TextsContiguous`. Everything turns on the next receive
of a connection being posted when the loop of its text is over: the text a worker holds is
the last that the server took of that client (`Numbered`, `LastTaken`), and what was written
since is one packet, on its way or lost in a reset. A loop turns to everyone once, also when
`Accept` puts newcomers ahead of it (`LoopsApart`). So what r got of n is older than all
that is still to come (`GotBefore`), and after the first text that r got every one has come,
is coming or is lost (`RestComing`). When the loop reaches r, the texts between the last one
r got and this one can be neither coming nor lost, since those are not older than what the
worker holds; so they have come (`NoneBetween`).

### 6.2 The lists

The lists are folds of the handlers over histories. `FoldLeft` of the library recurses over
sets of indices; `FoldSteps` shows, for any operator, that a fold over one element more is
one more application (`FoldAppend`), by induction over the length, stated for a set of
naturals because the library's induction theorems take an operator. So a message appended
to a history is a change of the list, and an invariant can speak of the list.

`ScanStep` and `ScanAll` follow `RemoveId` through a list. Of an id that stands there once
it takes out that item and nothing else, whatever doubles of other ids it passes
(`RemoveIdRight`): the item it skips is another one. `ListInv` says so of each id that was
never listed twice (`RightAbout`): the server's list has it once, and exactly while it is
`Showing` for some connection, which is one only: from the `SendMessage` of the login, before
`idMap` has it, until that of the removal, before `idMap` loses it. A login that finds the
id in the list, by another click or over another connection, lists it twice, because its
earlier login was posted and not yet its removal (`Active`); from then on nothing is claimed
of this id. `OneAccount` is needed for a user who logs in again under another account: `idMap`
forgets the first id and the list does not.

`MutualInv` is the invariant behind `RosterComplete`. Of two clients r and n in session, r
was sent the id of n, or the loop of n's login has r ahead, or r's own worker will still send
it a roster, or r's roster was cut (`Mutual`). What decides is the order in `Login`: the id
goes into `idMap` before its announcement and before the roster is counted. A roster
that is filled before n has its id does not name n, but then n announces itself to everyone
in `clientsSocketMap`, where r has been for long; one that was sized or counted before and is
filled after names n, or was cut. What r was sent stays in its list (`TaughtShown`): only a
goodbye under n's id takes it out. That is one of n, and `ByeInv` says that there is none
while n is in session; or one of another connection under the same id, which is `TakenOut`.
The dialog shows a roster only if its number, read
as a signed char, is not negative: hence `CharsEnough`, that is, fewer than 128
connections, and `RostersShort`, that no roster is longer than there are connections. Doubles
do no harm to what the list has.

### 6.3 Database and shutdown

`HandleInv` is the invariant behind `LifeQueries`. No lock orders the queries, but the cursor
does half of it: `SQLExecDirect` fails while one is open, so of the logins at most one reads
its result (`OneReader`), into its own buffers (`Columns`, `Buffers`), from a cursor with at
most one row (`Rows`). What the others may spoil is what a query is executed with, since
binding replaces the string another one has bound. A query that has overlapped no other is
the only one (`ByItself`), and executes with its own strings (`Params`, `OwnStatement`). So
`Exec` maps to the store's `Login` or `SignUp`, to `LoginMixed` or `SignUpMixed`, or to
`Refuse`; the fetches and the closing of the cursor leave `replyOf` as it is (`FetchMaps`:
the row moves from the cursor to the buffers and reads the same), `Begin`, `Return` and
`Close` map to `Ask`, `Return` and `GoDown`, and the rest stutters. `LifeIsDb` shows that
every step of the server's life is a step of the database or leaves it alone.

`LifeInv` is the invariant behind `ShutdownReturns`. A live `SocketInfo` that the loop of
the shutdown will not meet, because it is behind it or not in the map, is *spared*. The
accepter has one in its hands at a time, and takes another one only at `accept`, which
needs Winsock; but Winsock is closed before the loop begins (`Switches`). So nothing is
spared while Winsock runs, except what is in the accepter's hands, and at most one ever
(`SparedOne`). At the end the loop has nothing ahead, so what is live is spared, and its
cardinality is at most one.

### 6.4 Framing and the client's threads

A byte carries the packet and the place it was sent at, so a run of bytes `InStream` of
packets of given lengths is known from its first byte and its length. `ByteStreamProofs`
says so: the front and the rest of such a run are in the stream, two that join are, and the
first bytes of one that begins a packet are that packet (`AllOfPacket`). All of it
is proved by positions, without recursion.

`Assembly` says where the byte the receiver waits for lies, but a step of the receiver
changes the buffer and what is under way together, and whether the sum still fits depends
on what the buffer means. `FramingInv` says it: the packets sent are what `Send` was given
(`PacketsSent`); the buffer is empty, or it holds some but not all bytes of the packet
after those handled, with that packet's size in its header (`BufferOfNext`); what is on its
way starts with the byte waited for (`WireContinues`), and on an open connection it goes on
through what is not sent yet to the last byte (`NothingLost`). A receive takes a run of bytes
off the front, which `Paced` keeps within one packet and behind its header; so the count
meets the size exactly when the packet is complete, and it never goes past it. That is also why
no byte is written behind the buffer (`up`). A reset drops the end of what is under way and
leaves the rest in the stream. Each step of `ServerFraming` then maps to a step of `PacketStream`
or leaves it alone (`NextMaps`). The assumption `Paced` cannot go: without it
`framing_coalesced` is violated.

`StreamInv` is the same for `ThreadRecv`, where there is a second kind of packet, the lone
result of two bytes, which must come whole, and `recvBuf` is allocated for the packet at hand.
Handling a packet there is a message to the dialog, which may hold the thread up while
the connection ends; the stream's history does not notice. No hypothesis restricts the
receives: the invariant is `unpaced \/ StreamInv`, where `unpaced` stays (`StaysUnpaced`) and
a step after which it is false takes bytes of one packet only. When nothing is under way and
the connection was not reset, all that was sent has come (`AllCame`); so `ReceiveNothing`,
which can happen then only, adds its phantom result behind everything sent
(`NothingStream`) and maps to `HandleEnd` (`NothingMaps`).

`ClientOutlivesThread` alone says nothing of the thread while the dialog handles its
message. `ThreadInv` adds that the receive thread waits exactly while there is a message
for the dialog (`MailIffWaiting`): a thread that has ended has none, so nothing resumes it,
and `Join`, which lets the dialog destroy the `Client`, waits for an ended one.

### 6.5 Profile images

`PacketsHaveNames` is about types, but they say something here: the server reads both maps
with `operator[]`, which makes an empty string of what is not there, and nothing asks
whether it is. `ImagesInv` is the invariant behind it. `SessionOf`: a client that is
logged in, whose answer to a login is under way, or that has sent what takes a login has its
entry in `idMap`; a removal takes it out after the client has left and all it sent has been
handled, so that nothing is left that needs it. `AnnouncedBy`: until the first extension of a
connection has been handled, every picture of it that is under way has one ahead of it in the queue
(`ExtsAhead`), and a picture whose bytes are still in the 100 ms pause has one somewhere
in it; so `RecvImage` finds an extension. `FoundBy`: the file found before the pause of an
answer is there after it, since files are overwritten and never deleted. A step is on behalf of one
connection, and what it does to the others is dealt with once (`OnlyOf`, `StepOf`).

`ClicksShowLast` is for users that take turns (`Turns`): nobody sets a picture or asks for
one while another is under way. That orders little, since the loops of a handler, the 100 ms
pause, the queues, goodbyes and logins still interleave. The invariant has two halves.
`BaseInv` is about the programs and the server. One client at a time sets, asks or is served,
and a handler serves the last picture of its owner or answers with the last of another
(`Shapes`, `Serves`). The file under the extension an account announced last is its last
picture, unless one is on its way (`LastSaved`); two sessions of one account would break
that, hence `twice` (`OneSession`). Of the account in the name that came last a client knows that
name's extension or, since a goodbye, none (`Joined`).

`FlowInv` is about what is under way. All of it concerns one account T: who sends, asks and
is served (`TopicOf`), and every queue to a client, which holds only names, the last picture
and goodbyes of T, with bytes only where a name was known or comes first (`QueueOf`). A
handler about to send bytes sends them only to those that have the name of T or get it
first (`PrimedBy`), so that `lastImageName`, under which they are stored, is T's. And for every
client every account is `Fresh`: no click of it is promised anything (`Exempt`), or what
the client would show is the last picture and no new name is to come (`Settled`), or the
picture is T's and still `Coming`. When a user clicks it is his turn, so nothing is
`Coming`, and what he sees is the last. T changes when a turn begins, at which nothing is
under way. That no name is to come matters: a new extension hides the file that was right,
so without it `SaveImageName` would not keep the invariant. `Turns` cannot go: what happens
without it is the subject of `image_mixup`.

### 6.6 Only model-checked

Liveness under fairness, which the prover does not reach: `RequestsAnswered`,
`TextsDelivered`, `QueriesReturn`, `ShutdownEnds`, `PacketsHandled`, `SendsEnd`,
`WindowClosed` and `ImageReachesAll`. Every invariant, refinement and action property of a
passing run is proved, `WindowShowsLast` under `Turns` only. The constants of those runs meet
the hypotheses of the theorems (`Paced`, `OneAccount`, `CharsEnough`). The names of all lemmas
are in the modules, each with a sentence on what it is for.

## 7. What the models found

Each is a violation run with its line in `PROJECT.json` (`findings`).

* **A removal may wait for ever** (`Server.cpp:646`). `critsecWork` is held during the
  wait at the port. Until some other connection causes a completion, the goodbye is not
  sent; with several workers queued at the section, several completions may be needed.
* **A ghost in the list** (`Server.cpp:660`). A login between the DISCONNECTED_ID
  broadcast and `idMap.erase` is sent the id of the one that left, and keeps it.
* **Logins with another's parameters** (`Database.cpp:106`). One statement handle for all
  workers.
* **A connection goes deaf** (`Server.cpp:201`). Two packets in one receive overshoot the
  equality test for good.
* **The client hangs when the server ends** (`MFC_ClientDlg.cpp:363`). The handler of
  MSG_DISCONNECTED joins the thread that waits for that handler.

* **A picture under another's name** (`Server.cpp:507`, `Client.cpp:298`). The bytes of a
  picture come without a name and are stored under the name announced last: of two pictures
  set at about the same time one gets the name of the other.

Part of the runs, and excepted in their properties: a broadcast takes no lock
(`Server.cpp:462`) and may stand at an entry that a removal deletes, which may end the
process (`up`); a loop that sends a large packet to a client that has gone never ends
(`Server.cpp:454`, `spin`); one `SocketInfo` may be left by the shutdown
(`Server.cpp:560`); a picture that comes before the login is stored in no user's directory
(`Client.cpp:334`); a roster is cut when ids are added between its passes
(`Server.cpp:395-413`); a second login of a user is listed a second time, and of two equal
items the removal may leave one (`ClientDlg_LoginTab.cpp:57-68`, `ClientDlg_Main.cpp:87`); a
goodbye takes out the items of other connections under the same id (`Server.cpp:655`); a
user who sets a picture, leaves, logs in before the removal and sets one with another
extension may be shown with the first (`twice`; `Server.cpp:517-528`); in the client, bytes of
two packets in one receive lose one of them or more (`unpaced`; `Client.cpp:118`, `152`), and
when the server closes without a reset, the client shows a failed sign-up again and again
(`Phantom`; `Client.cpp:118-139`).

Readings of the code that no property looks at; the models leave them open or their bounds
do not reach them: a login with a string whose first UTF-16 unit has a zero low byte is
refused (`Database.cpp:130`); a client shows none of a roster of 128 ids or more, whose
number it reads from a signed char (`Server.cpp:410`); a requested picture is looked for in
another place than it was saved in, unless the two are the same directory
(`Server.cpp:480`, `531`); a requested picture opens no window, since
`SendImageRequestMessage` sends MSG_RECV_TEXT with the address of a pointer
(`Client.cpp:306`), so only the next click can show it.

## 8. What is not modelled

* Back pressure: a `send` that blocks because the client does not read. Clients read.
* A dialog that does not answer the server's `SendMessage`.
* A `CreateIoCompletionPort` that fails (`Server.cpp:244`). The accepter assigns its result
  to the server's own `iocpHandle` without a look: every worker's next
  `GetQueuedCompletionStatus` then fails without a packet, and `RemoveDisconnectedClient`
  uses the null pointer it gives (lines 170, 648). The process ends; nothing is claimed of
  what comes before that.
* The chunks of two workers mixed on one socket, and where a loop that goes on after a
  failed `send` of a large packet ends. The first leads to what `ChatClient` has for
  receives of two packets; the second reads past the packet until something stops it.
* Text encoding, and the size of a roster with non-ASCII ids, which is counted in wide
  characters and filled with UTF-8: ids are atoms.
* A picture file that cannot be read or written.
* The chat log's import and export: a string, a file dialog and a file in one thread.
  (An import drops the line ends, `MFC_ClientDlg.cpp:292`, so that a later export runs the
  lines together.)
* `OnMsgShowImage`, which nothing sends; drawing and layout. Application, resource and
  precompiled-header files: generated by the wizard.
* Data races inside the standard containers beyond those named in 3.1.
