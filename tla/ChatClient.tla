----------------------------- MODULE ChatClient -----------------------------
(***************************************************************************)
(* The client program: the receive thread of Client.cpp, which puts the    *)
(* server's packets together and hands them to the dialog with             *)
(* SendMessage, and the user interface thread of MFC_ClientDlg.cpp, which  *)
(* shows them, opens modal boxes and ends the connection.                  *)
(*                                                                         *)
(* SendMessage makes the receive thread wait until the handler returns;    *)
(* with the window gone it returns at once.  The answers to a sign-up or a *)
(* login ("RESULT") are two bytes without a size.  The other packets are   *)
(* shown by the dialog ("SHOWN": ID, TEXT, DISCONNECTED_ID) or kept by the *)
(* receive thread ("STORED": IMAGE_EXT, IMAGE).                            *)
(***************************************************************************)
EXTENDS ByteStream

CONSTANTS
  Kinds,     \* the kinds of packets the server sends
  PeerEnds,  \* how the server may end the connection: "closed", "reset"
  Closes,    \* TRUE: the user may close the window
  MaxHandled \* bound: of the results that nobody sent no more are recorded

ASSUME ClientAssumption == /\ Kinds \subseteq {"RESULT", "SHOWN", "STORED"}
                           /\ PeerEnds \subseteq {"closed", "reset"}
                           /\ Closes \in BOOLEAN /\ MaxHandled \in Nat

VARIABLES
  sent,      \* the packets sent, with their kinds
  wire,      \* bytes on their way
  peer,      \* "open", "closed" or "reset"
  threadPc,  \* the receive thread: "recv", "wait" (in SendMessage), "notify"
             \* (about to tell of the end), "ended"
  packet,    \* the packet its inner loop is at
  recvBuf,   \* recvBuf.size(), 0 when it is empty
  mail,      \* the message it waits for
  ui,        \* the user interface thread: "idle", "box" (in a modal box),
             \* "leave" (window closed), "join" (in recvThread->join), "gone"
  window,    \* IsWindow(ownerDlg->m_hWnd)
  socket,    \* mySocket is open
  handled,   \* the packets handed on by the receive thread
  up,        \* FALSE once a write past recvBuf ended the process
  unpaced    \* history, which no guard reads: a receive has returned bytes of
             \* two packets, or less than the header of one

netVars    == <<sent, wire, peer>>
threadVars == <<packet, recvBuf, handled>>
uiVars     == <<ui, window, socket>>
fateVars   == <<up, unpaced>>
clientVars == <<netVars, threadPc, threadVars, mail, uiVars, fateVars>>

NoPacket == [kind |-> "NONE", dataSize |-> 0, totalSize |-> 0, buf |-> <<>>]
NoMail   == "none"

\* StartSocket and OnInitDialog are done.
Init == /\ sent = <<>> /\ wire = <<>> /\ peer = "open"
        /\ threadPc = "recv" /\ packet = NoPacket /\ recvBuf = 0
        /\ mail = NoMail /\ handled = <<>> /\ up = TRUE /\ unpaced = FALSE
        /\ ui = "idle" /\ window = TRUE /\ socket = TRUE

-----------------------------------------------------------------------------
(* The server.                                                             *)

ServerSends ==
  /\ peer = "open" /\ Len(sent) < MaxPackets
  /\ \E kind \in Kinds, size \in Sizes :
       LET length == IF kind = "RESULT" THEN 2 ELSE Header + size
           bytes  == PacketBytes(Len(sent) + 1, length)
       IN  /\ sent' = Append(sent, [kind |-> kind, bytes |-> bytes])
           /\ wire' = wire \o bytes
  /\ UNCHANGED <<peer, threadPc, threadVars, mail, uiVars, fateVars>>

\* A reset discards what is on its way.
ServerEnds ==
  /\ peer = "open" /\ peer' \in PeerEnds
  /\ wire' = IF peer' = "reset" THEN <<>> ELSE wire
  /\ UNCHANGED <<sent, threadPc, threadVars, mail, uiVars, fateVars>>

-----------------------------------------------------------------------------
(* The receive thread.                                                     *)

Receiving == threadPc = "recv" /\ socket /\ peer # "reset"

\* SendMessage to the dialog.
Tell(message) == threadPc' = "wait" /\ mail' = message

HandOn(kind, bytes) ==
  handled' = Append(handled, [kind |-> kind, bytes |-> bytes])

\* Mutants of ProcessPacket: a case without its break hands the packet on
\* twice; the case of a packet for the dialog is missing.
ProcessPacketTwice(kind, bytes) ==
  /\ handled' = handled \o << [kind |-> kind, bytes |-> bytes],
                              [kind |-> kind, bytes |-> bytes] >>
  /\ IF kind = "SHOWN" THEN Tell("SHOWN") ELSE UNCHANGED <<threadPc, mail>>

ProcessPacketDrops(kind, bytes) ==
  /\ IF kind = "STORED" THEN HandOn(kind, bytes) ELSE UNCHANGED handled
  /\ UNCHANGED <<threadPc, mail>>

ProcessPacket(kind, bytes) ==
  /\ HandOn(kind, bytes)
  /\ IF kind = "SHOWN" THEN Tell("SHOWN") ELSE UNCHANGED <<threadPc, mail>>

\* What a receiver takes the first byte of a chunk for: the packet it begins,
\* or anything when it is in the middle of one.
KindsRead(chunk) == IF Place(chunk[1]) = 1 THEN {sent[PacketOf(chunk[1])].kind}
                                           ELSE Kinds
DataSizes(chunk) ==
  IF Place(chunk[1]) = 1
  THEN {SizeRead(Len(sent[PacketOf(chunk[1])].bytes) - Header, Len(chunk))}
  ELSE Sizes

\* ProcessSignUpResult or ProcessLoginResult; then the inner loop ends, and
\* whatever else the receive returned is lost.
Result(chunk) ==
  /\ HandOn("RESULT", Front(chunk, Least(2, Len(chunk)))) /\ Tell("RESULT")
  /\ recvBuf' = IF Len(chunk) = Header THEN 0 ELSE recvBuf
  /\ packet' = NoPacket /\ UNCHANGED up

\* Mutant of Copied: pos is not advanced.
CopiedAtStart(p, size, chunk) ==
  LET bytes == chunk \o Rest(p.buf, Len(chunk))
  IN  Front(bytes, Least(size, Len(bytes)))

\* CopyMemory(&recvBuf[pos], buf, recvSize); what goes past the end of recvBuf
\* is not part of it.
Copied(p, size, chunk) ==
  LET room == IF size > p.totalSize THEN size - p.totalSize ELSE 0
  IN  p.buf \o Front(chunk, Least(room, Len(chunk)))

\* The copy and the conditions after it.  A packet that has too many bytes is
\* dropped, and recvBuf keeps its size.  A copy past its end is undefined: it
\* is cut, or the process ends.
Fill(p, size, chunk) ==
  LET total == p.totalSize + Len(chunk)
      buf   == Copied(p, size, chunk)
      whole == Header + p.dataSize
  IN  /\ up' \in IF total > size THEN BOOLEAN ELSE {TRUE}
      /\ \/ /\ total < whole
            /\ packet' = [p EXCEPT !.totalSize = total, !.buf = buf]
            /\ recvBuf' = size
            /\ UNCHANGED <<handled, threadPc, mail>>
         \/ /\ total = whole
            /\ ProcessPacket(p.kind, buf)
            /\ packet' = NoPacket /\ recvBuf' = 0
         \/ /\ total > whole
            /\ packet' = NoPacket /\ recvBuf' = size
            /\ UNCHANGED <<handled, threadPc, mail>>

\* The first chunk of a packet with a size; recvBuf is made only if it is empty.
Begin(kind, chunk) ==
  \E dataSize \in DataSizes(chunk) :
    Fill([NoPacket EXCEPT !.kind = kind, !.dataSize = dataSize],
         IF recvBuf = 0 THEN Header + dataSize ELSE recvBuf, chunk)

OnePacket(chunk) ==
  LET i == PacketOf(chunk[1])
  IN  /\ i = PacketOf(chunk[Len(chunk)])
      /\ Place(chunk[1]) = 1
           => Len(chunk) >= IF sent[i].kind = "RESULT" THEN 2 ELSE Header

Receive ==
  /\ Receiving
  /\ \E n \in 1 .. Least(Len(wire), PacketSize) :
       LET chunk == Front(wire, n) IN
       /\ unpaced' = (unpaced \/ ~OnePacket(chunk))
       /\ wire' = Rest(wire, n)
       /\ IF packet.kind # "NONE"
          THEN Fill(packet, recvBuf, chunk)
          ELSE \E kind \in KindsRead(chunk) :
                 IF kind = "RESULT" THEN Result(chunk) ELSE Begin(kind, chunk)
  /\ UNCHANGED <<sent, peer, uiVars>>

NothingLeft == peer = "closed" /\ wire = <<>> /\ packet.kind = "NONE"

\* The result that the cleared buffer is taken for: a failed sign-up.
Phantom == [kind |-> "RESULT", bytes |-> <<>>]

\* recv returns 0 when the server has closed.  That is not tested: between two
\* packets ProcessSignUpResult tells the dialog of a result nobody sent, again
\* and again; inside of a packet the thread receives again.
ReceiveNothing ==
  /\ Receiving /\ NothingLeft
  /\ IF Len(handled) < MaxHandled THEN HandOn("RESULT", <<>>) ELSE UNCHANGED handled
  /\ Tell("RESULT")
  /\ UNCHANGED <<netVars, packet, recvBuf, uiVars, fateVars>>

\* recv fails: the connection was reset, or the socket closed here.
ReceiveFails ==
  /\ threadPc = "recv" /\ (~socket \/ peer = "reset")
  /\ threadPc' = "notify"
  /\ UNCHANGED <<netVars, threadVars, mail, uiVars, fateVars>>

\* SendDisconnectedMessage
Notify ==
  /\ threadPc = "notify"
  /\ IF window THEN Tell("DISCONNECTED")
               ELSE threadPc' = "ended" /\ UNCHANGED mail
  /\ UNCHANGED <<netVars, threadVars, uiVars, fateVars>>

\* SendMessage returns.
Resume ==
  /\ mail' = NoMail
  /\ threadPc' = IF mail = "DISCONNECTED" THEN "ended" ELSE "recv"

\* The window was destroyed while the message waited.
MailReturned ==
  /\ mail # NoMail /\ ~window
  /\ Resume
  /\ UNCHANGED <<netVars, threadVars, uiVars, fateVars>>

-----------------------------------------------------------------------------
(* The user interface thread.                                              *)

\* OnUpdateIdList, OnRecvText, OnMsgRemoveId show what they get and return;
\* the other handlers open a modal box first.
Show ==
  /\ ui = "idle" /\ window /\ mail = "SHOWN"
  /\ Resume
  /\ UNCHANGED <<netVars, threadVars, uiVars, fateVars>>

OpenBox ==
  /\ ui = "idle" /\ window /\ mail \in {"RESULT", "DISCONNECTED"}
  /\ ui' = "box"
  /\ UNCHANGED <<netVars, threadPc, threadVars, mail, window, socket, fateVars>>

\* The user confirms; OnMsgSignupResult and OnMsgLoginResult return.
CloseBox ==
  /\ ui = "box" /\ mail = "RESULT"
  /\ ui' = "idle" /\ Resume
  /\ UNCHANGED <<netVars, threadVars, window, socket, fateVars>>

\* OnMsgDisconnected goes on to clientPtr.reset(), which destroys the Client
\* and so disconnects, with the message not yet answered.
ResetClient ==
  /\ ui = "box" /\ mail = "DISCONNECTED"
  /\ ui' = "join" /\ socket' = FALSE
  /\ UNCHANGED <<netVars, threadPc, threadVars, mail, window, fateVars>>

\* The user closes the window; modal boxes do not let him.
CloseWindow ==
  /\ Closes /\ ui = "idle" /\ window
  /\ ui' = "leave" /\ window' = FALSE
  /\ UNCHANGED <<netVars, threadPc, threadVars, mail, socket, fateVars>>

\* Mutant of DisconnectToServer: the socket is not closed before the join.
DisconnectNoClose ==
  /\ ui = "leave"
  /\ ui' = "join"
  /\ UNCHANGED <<netVars, threadPc, threadVars, mail, window, socket, fateVars>>

\* The dialog is destroyed, with it the Client: DisconnectToServer.
DisconnectToServer ==
  /\ ui = "leave"
  /\ ui' = "join" /\ socket' = FALSE
  /\ UNCHANGED <<netVars, threadPc, threadVars, mail, window, fateVars>>

\* Mutant of Join: the thread is detached, not joined.
Detach ==
  /\ ui = "join"
  /\ ui' = "gone" /\ window' = FALSE
  /\ UNCHANGED <<netVars, threadPc, threadVars, mail, socket, fateVars>>

\* recvThread->join() returns; the Client is deleted and the dialog ends.
Join ==
  /\ ui = "join" /\ threadPc = "ended"
  /\ ui' = "gone" /\ window' = FALSE
  /\ UNCHANGED <<netVars, threadPc, threadVars, mail, socket, fateVars>>

-----------------------------------------------------------------------------
Thread == \/ Receive \/ ReceiveNothing \/ ReceiveFails \/ Notify
          \/ MailReturned
Dialog == \/ Show \/ OpenBox \/ CloseBox \/ ResetClient \/ DisconnectToServer
          \/ Join

Next == up /\ (ServerSends \/ ServerEnds \/ Thread \/ Dialog \/ CloseWindow)

\* Both threads run, and the user confirms the boxes; he need not close the
\* window.
Spec == /\ Init /\ [][Next]_clientVars
        /\ WF_clientVars(up /\ Thread) /\ WF_clientVars(up /\ Dialog)

-----------------------------------------------------------------------------
\* As long as every receive has returned bytes of one packet, and its header if
\* it was new: the packet being put together is a prefix of the next one to hand
\* on, what is under way continues it, recvBuf has its size, and no write has
\* gone past it.
Assembly ==
  LET next  == Len(handled) + 1
      bytes == packet.buf \o wire
  IN  ~unpaced =>
      /\ up
      /\ packet.buf = PacketBytes(next, Len(packet.buf))
      /\ packet.totalSize = Len(packet.buf)
      /\ recvBuf = IF packet.kind = "NONE" THEN 0 ELSE Len(sent[next].bytes)
      /\ bytes # <<>> => bytes[1] = <<next, 1>>
      /\ Continuous(bytes, LAMBDA i : Len(sent[i].bytes))

\* The Client is destroyed only after its receive thread has ended: the thread
\* uses it to the last (ownerDlg = nullptr).
ClientOutlivesThread == ui = "gone" => threadPc = "ended"

\* Up to the first receive that returns bytes of two packets, or less than a
\* header, the thread hands on what the server sent, whole, once and in order,
\* and the results nobody sent only when the server has closed and everything it
\* sent has been handed on.
Stream == INSTANCE PacketStream WITH
            Packets <- [kind : Kinds,
                        bytes : {PacketBytes(i, length) : i \in 1 .. MaxPackets,
                                   length \in {2} \cup {Header + s : s \in Sizes}}],
            Phantoms <- {Phantom},
            closed <- peer = "closed"
IsPacketStream ==
  Stream!Init /\ [][unpaced' \/ Stream!Next]_(Stream!streamVars)

\* A packet is handed on, also one under way when the server closes, unless a
\* reset or the user's closing the window comes first, or a receive that returns
\* bytes of two packets or less than a header.  Such a receive is what a box
\* that stays open, or a reply and the list of ids sent at once, may lead to.
Handed(i) == \E k \in DOMAIN handled : i <= Len(sent) /\ handled[k] = sent[i]
PacketsHandled ==
  \A i \in 1 .. MaxPackets :
    i <= Len(sent) ~> Handed(i) \/ peer = "reset" \/ ~window \/ unpaced

\* When the user closes the window the program ends.
WindowClosed == ui = "leave" ~> ui = "gone" \/ ~up

\* When the server ends the connection, the dialog says so and the program
\* ends.
EndNoticed == peer # "open" ~> ui = "gone" \/ ~up
=============================================================================
