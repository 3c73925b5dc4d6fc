-------------------------- MODULE ChatClientProofs --------------------------
(***************************************************************************)
(* Proofs about the client, for every kind of traffic and every end of the *)
(* connection.  The Client outlives its receive thread: Join waits for the *)
(* thread, and a thread that has ended is never resumed, since no message  *)
(* of it waits in the dialog any more.  And until a receive returns bytes  *)
(* of two packets or less than a header, what the thread hands on is a     *)
(* PacketStream.                                                           *)
(***************************************************************************)
EXTENDS ChatClient, ByteStreamProofs

USE DEF netVars, threadVars, uiVars, fateVars, NoMail

\* The thread waits exactly while a message of it is with the dialog.
MailIffWaiting == threadPc = "wait" <=> mail # NoMail

ThreadInv == ClientOutlivesThread /\ MailIffWaiting

\* Before the first packet the thread receives.
LEMMA InitThread == Init => ThreadInv
BY DEF Init, ThreadInv, ClientOutlivesThread, MailIffWaiting

\* A thread that receives or notifies has no message out, and the Client is
\* there.
LEMMA ThreadRuns ==
  ASSUME ThreadInv, threadPc \in {"recv", "notify"}
  PROVE  ui # "gone" /\ mail = NoMail
BY DEF ThreadInv, ClientOutlivesThread, MailIffWaiting

\* Handing on a packet sends the dialog a message or none.
LEMMA HandedOn ==
  ASSUME NEW kind, NEW bytes, ProcessPacket(kind, bytes)
  PROVE  \/ threadPc' = "wait" /\ mail' = "SHOWN"
         \/ UNCHANGED <<threadPc, mail>>
BY DEF ProcessPacket, Tell

\* So does a copy into recvBuf, whatever it completes.
LEMMA Filled ==
  ASSUME NEW p, NEW size, NEW chunk, Fill(p, size, chunk)
  PROVE  \/ threadPc' = "wait" /\ mail' = "SHOWN"
         \/ UNCHANGED <<threadPc, mail>>
BY HandedOn DEF Fill

\* A receive keeps the invariant.
LEMMA ReceiveThread == ASSUME ThreadInv, Receive PROVE ThreadInv'
<1>1. threadPc = "recv" /\ UNCHANGED ui
  BY DEF Receive, Receiving
<1>2. \/ threadPc' = "wait" /\ mail' \in {"SHOWN", "RESULT"}
      \/ UNCHANGED <<threadPc, mail>>
  BY Filled DEF Receive, Begin, Result, Tell
<1>3. QED
  BY <1>1, <1>2, ThreadRuns DEF ThreadInv, ClientOutlivesThread, MailIffWaiting

\* The other steps of the thread go from where it runs to where it waits or
\* ends.
LEMMA OtherThread ==
  ASSUME ThreadInv, ReceiveNothing \/ ReceiveFails \/ Notify
  PROVE  ThreadInv'
<1>1. threadPc \in {"recv", "notify"} /\ UNCHANGED ui
  BY DEF ReceiveNothing, Receiving, ReceiveFails, Notify
<1>2. \/ threadPc' = "wait" /\ mail' \in {"RESULT", "DISCONNECTED"}
      \/ threadPc' \in {"notify", "ended"} /\ UNCHANGED mail
  BY DEF ReceiveNothing, ReceiveFails, Notify, Tell
<1>3. QED
  BY <1>1, <1>2, ThreadRuns DEF ThreadInv, ClientOutlivesThread, MailIffWaiting

\* An answer of the dialog resumes a thread that waits.
LEMMA ResumeThread ==
  ASSUME ThreadInv, mail # NoMail, Resume, ui' # "gone" \/ UNCHANGED ui
  PROVE  ThreadInv'
BY DEF ThreadInv, ClientOutlivesThread, MailIffWaiting, Resume

\* The steps of the dialog, of the server and of the user keep the invariant.
LEMMA OthersThread ==
  ASSUME ThreadInv, \/ ServerSends \/ ServerEnds \/ CloseWindow \/ Dialog
                    \/ MailReturned \/ UNCHANGED clientVars
  PROVE  ThreadInv'
<1>1. CASE MailReturned \/ Show \/ CloseBox
  <2>1. mail # NoMail /\ Resume /\ (ui' # "gone" \/ UNCHANGED ui)
    BY <1>1 DEF MailReturned, Show, CloseBox
  <2>2. QED
    BY <2>1, ResumeThread
<1>2. CASE Join
  BY <1>2 DEF Join, ThreadInv, ClientOutlivesThread, MailIffWaiting
<1>3. CASE \/ ServerSends \/ ServerEnds \/ CloseWindow \/ UNCHANGED clientVars
           \/ OpenBox \/ ResetClient \/ DisconnectToServer
  <2>1. /\ UNCHANGED <<threadPc, mail>>
        /\ ui' # "gone" \/ UNCHANGED ui
    BY <1>3 DEF ServerSends, ServerEnds, CloseWindow, clientVars, OpenBox,
                ResetClient, DisconnectToServer
  <2>2. QED
    BY <2>1 DEF ThreadInv, ClientOutlivesThread, MailIffWaiting
<1>4. QED
  BY <1>1, <1>2, <1>3 DEF Dialog

\* Every step keeps the invariant.
LEMMA NextThread == ThreadInv /\ [Next]_clientVars => ThreadInv'
BY ReceiveThread, OtherThread, OthersThread DEF Next, Thread

\* The Client is destroyed only after its receive thread has ended, whoever
\* ends the connection and whatever message is then with the dialog.
THEOREM ThreadEndsFirst == Spec => []ClientOutlivesThread
<1>1. ThreadInv => ClientOutlivesThread
  BY DEF ThreadInv
<1>2. QED
  BY <1>1, InitThread, NextThread, PTL DEF Spec

-----------------------------------------------------------------------------
(* What the thread hands on is what the server sent.                        *)

Packet == [kind : Kinds \cup {"RESULT"}, bytes : Seq(Bytes)]

\* The lengths of the packets sent, the byte the thread waits for, and the last
\* one that was sent.
Lengths  == [i \in 1 .. Len(sent) |-> Len(sent[i].bytes)]
Due      == <<Len(handled) + 1, Len(packet.buf) + 1>>
LastByte == <<Len(sent), Len(sent[Len(sent)].bytes)>>

PacketsSent ==
  /\ sent \in Seq(Packet) /\ Len(sent) <= MaxPackets
  /\ \A i \in 1 .. Len(sent) : \E size \in Sizes :
       sent[i].bytes
         = PacketBytes(i, IF sent[i].kind = "RESULT" THEN 2 ELSE Header + size)

\* Some, but not all, of the next packet has come, its kind and size are known
\* and recvBuf has that size; or nothing has, and recvBuf is empty.
PacketOfNext ==
  LET next   == Len(handled) + 1
      length == Len(sent[next].bytes)
      come   == Len(packet.buf)
  IN  /\ handled \in Seq(Packet)
      /\ \/ packet = NoPacket /\ recvBuf = 0
         \/ /\ next \in 1 .. Len(sent) /\ sent[next].kind # "RESULT"
            /\ come \in 1 .. length - 1 /\ recvBuf = length
            /\ packet = [kind |-> sent[next].kind, dataSize |-> length - Header,
                         totalSize |-> come, buf |-> PacketBytes(next, come)]

\* All that was sent has come, and phantoms perhaps have followed.
AllCame == \/ Due = <<Len(sent) + 1, 1>>
           \/ peer = "closed" /\ Len(handled) > Len(sent)

\* What is on its way is in the stream, from the byte the thread waits for; but
\* for a reset it ends with the last byte sent.
WireContinues ==
  /\ InStream(wire, Lengths)
  /\ wire # <<>> => wire[1] = Due
  /\ peer # "reset" => IF wire = <<>> THEN AllCame
                                      ELSE wire[Len(wire)] = LastByte

StreamInv == PacketsSent /\ PacketOfNext /\ WireContinues /\ up

\* A receive that is not paced is not forgotten.
LEMMA StaysUnpaced == ASSUME [Next]_clientVars, unpaced PROVE unpaced'
<1>1. CASE Receive
  BY <1>1 DEF Receive
<1>2. CASE \/ ServerSends \/ ServerEnds \/ CloseWindow \/ UNCHANGED clientVars
           \/ ReceiveNothing \/ ReceiveFails \/ Notify \/ MailReturned
  BY <1>2 DEF ServerSends, ServerEnds, CloseWindow, clientVars, ReceiveNothing,
              ReceiveFails, Notify, MailReturned
<1>3. CASE Dialog
  BY <1>3 DEF Dialog, Show, OpenBox, CloseBox, ResetClient, DisconnectToServer,
              Join
<1>4. QED
  BY <1>1, <1>2, <1>3 DEF Next, Thread

\* What PacketsSent says of one packet, and of the lengths.
LEMMA SentPacket ==
  ASSUME PacketsSent
  PROVE  /\ Len(sent) \in Nat /\ Lengths \in Seq(Nat) /\ Len(Lengths) = Len(sent)
         /\ \A i \in 1 .. Len(sent) :
              /\ sent[i] \in Packet /\ sent[i].kind # "NONE"
              /\ sent[i] = [kind |-> sent[i].kind, bytes |-> sent[i].bytes]
              /\ Lengths[i] = Len(sent[i].bytes) /\ Len(sent[i].bytes) \in Nat
              /\ sent[i].bytes = PacketBytes(i, Len(sent[i].bytes))
              /\ IF sent[i].kind = "RESULT"
                 THEN Len(sent[i].bytes) = 2
                 ELSE /\ Len(sent[i].bytes) >= Header
                      /\ Len(sent[i].bytes) - Header \in Sizes
<1>1. /\ Header \in Nat /\ Header >= 2 /\ \A size \in Sizes : size \in Nat
      /\ "NONE" \notin Kinds
  BY StreamAssumption, ClientAssumption
<1>2. Len(sent) \in Nat
  BY DEF PacketsSent
<1>3. ASSUME NEW i \in 1 .. Len(sent)
      PROVE  /\ sent[i] \in Packet /\ sent[i].kind # "NONE"
             /\ sent[i] = [kind |-> sent[i].kind, bytes |-> sent[i].bytes]
             /\ Len(sent[i].bytes) \in Nat
             /\ sent[i].bytes = PacketBytes(i, Len(sent[i].bytes))
             /\ IF sent[i].kind = "RESULT"
                THEN Len(sent[i].bytes) = 2
                ELSE /\ Len(sent[i].bytes) >= Header
                     /\ Len(sent[i].bytes) - Header \in Sizes
  <2>1. PICK size \in Sizes :
          sent[i].bytes
            = PacketBytes(i, IF sent[i].kind = "RESULT" THEN 2 ELSE Header + size)
    BY DEF PacketsSent
  <2> DEFINE length == IF sent[i].kind = "RESULT" THEN 2 ELSE Header + size
  <2>2. size \in Nat /\ length \in Nat /\ i \in Nat
    BY <1>1, <1>2
  <2>3. sent[i].bytes = PacketBytes(i, length)
    BY <2>1
  <2>4. sent[i] \in Packet
    BY DEF PacketsSent
  <2>5. /\ sent[i].kind # "NONE"
        /\ sent[i] = [kind |-> sent[i].kind, bytes |-> sent[i].bytes]
    BY <1>1, <2>4 DEF Packet
  <2> HIDE DEF length
  <2>6. Len(sent[i].bytes) = length
    BY <2>2, <2>3, BytesOfPacket
  <2>7. IF sent[i].kind = "RESULT"
        THEN length = 2 ELSE length >= Header /\ length - Header \in Sizes
    BY <1>1, <2>2 DEF length
  <2>8. QED
    BY <2>2, <2>3, <2>4, <2>5, <2>6, <2>7
<1>4. QED
  BY <1>2, <1>3 DEF Lengths

\* Before the first packet nothing is under way.
LEMMA InitStream == Init => StreamInv
<1> SUFFICES ASSUME Init PROVE StreamInv
  OBVIOUS
<1>1. PacketsSent
  BY StreamAssumption DEF Init, PacketsSent
<1>2. PacketOfNext
  BY DEF Init, PacketOfNext
<1>3. InStream(<<>>, Lengths)
  BY DEF InStream
<1>4. WireContinues
  BY <1>3 DEF Init, WireContinues, AllCame, Due, NoPacket
<1>5. QED
  BY <1>1, <1>2, <1>4 DEF Init, StreamInv

\* A packet is sent: it continues what is under way.
LEMMA ServerSendsStream ==
  ASSUME StreamInv, ServerSends PROVE StreamInv'
<1>1. PICK kind \in Kinds, size \in Sizes :
        LET length == IF kind = "RESULT" THEN 2 ELSE Header + size
            bytes  == PacketBytes(Len(sent) + 1, length)
        IN  /\ sent' = Append(sent, [kind |-> kind, bytes |-> bytes])
            /\ wire' = wire \o bytes
  BY DEF ServerSends
<1> DEFINE i      == Len(sent) + 1
           length == IF kind = "RESULT" THEN 2 ELSE Header + size
           bytes  == PacketBytes(i, length)
           new    == [kind |-> kind, bytes |-> bytes]
<1>2. /\ peer = "open" /\ Len(sent) < MaxPackets
      /\ UNCHANGED <<peer, packet, recvBuf, handled, up>>
  BY DEF ServerSends
<1>3. sent' = Append(sent, new) /\ wire' = wire \o bytes
  BY <1>1
<1>4. /\ Len(sent) \in Nat /\ sent \in Seq(Packet) /\ MaxPackets \in Nat
      /\ i \in Nat /\ length \in Nat /\ length >= 2 /\ wire \in Seq(Bytes)
  BY StreamAssumption DEF StreamInv, PacketsSent, WireContinues, InStream
<1> HIDE DEF length
<1>5. /\ bytes \in Seq(Bytes) /\ Len(bytes) = length
      /\ \A k \in 1 .. length : bytes[k] = <<i, k>>
  BY <1>4, BytesOfPacket
<1>6. new \in Packet /\ new.kind = kind /\ new.bytes = bytes
  BY <1>5 DEF Packet
<1>7. bytes = PacketBytes(i, IF kind = "RESULT" THEN 2 ELSE Header + size)
  BY DEF length
<1>8. i = Len(sent) + 1
  OBVIOUS
<1> HIDE DEF bytes, new, i
<1>9. /\ sent' \in Seq(Packet) /\ Len(sent') = i /\ sent'[i] = new
      /\ \A j \in 1 .. Len(sent) : j \in 1 .. Len(sent') /\ sent'[j] = sent[j]
  BY <1>3, <1>4, <1>6, <1>8, AppendProperties
<1>10. \A j \in 1 .. i : j \in 1 .. Len(sent) \/ j = i
  BY <1>4, <1>8
<1>11. PacketsSent'
  <2>1. ASSUME NEW j \in 1 .. i
        PROVE  \E s \in Sizes :
                 sent'[j].bytes
                   = PacketBytes(j, IF sent'[j].kind = "RESULT"
                                    THEN 2 ELSE Header + s)
    <3>1. CASE j = i
      BY <1>6, <1>7, <1>9, <3>1
    <3>2. CASE j \in 1 .. Len(sent)
      BY <1>9, <3>2 DEF StreamInv, PacketsSent
    <3>3. QED
      BY <1>10, <3>1, <3>2
  <2>2. Len(sent') <= MaxPackets
    BY <1>2, <1>4, <1>8, <1>9
  <2>3. QED
    BY <1>9, <2>1, <2>2 DEF PacketsSent
<1>12. PacketOfNext'
  BY <1>2, <1>9 DEF StreamInv, PacketOfNext
<1>13. /\ Lengths' = Append(Lengths, length) /\ Lengths' \in Seq(Nat)
       /\ Len(Lengths') = i /\ Lengths'[i] = length
  <2>1. /\ Lengths \in Seq(Nat) /\ Len(Lengths) = Len(sent)
        /\ \A j \in 1 .. Len(sent) : Lengths[j] = Len(sent[j].bytes)
    BY SentPacket DEF StreamInv
  <2>2. /\ Lengths' = [j \in 1 .. i |-> Len(sent'[j].bytes)]
        /\ \A j \in 1 .. i : Lengths'[j] = Len(sent'[j].bytes)
    BY <1>9 DEF Lengths
  <2>3. \A j \in 1 .. i : Len(sent'[j].bytes) \in Nat
    <3> SUFFICES ASSUME NEW j \in 1 .. i PROVE Len(sent'[j].bytes) \in Nat
      OBVIOUS
    <3>1. sent'[j] \in Packet
      BY <1>9
    <3>2. sent'[j].bytes \in Seq(Bytes)
      BY <3>1 DEF Packet
    <3>3. QED
      BY <3>2
  <2>4. Lengths' \in Seq(Nat) /\ Len(Lengths') = i
    BY <1>4, <1>8, <2>2, <2>3
  <2>5. Append(Lengths, length) \in Seq(Nat)
        /\ Len(Append(Lengths, length)) = i
        /\ \A j \in 1 .. Len(sent) : Append(Lengths, length)[j] = Lengths[j]
        /\ Append(Lengths, length)[i] = length
    BY <1>4, <1>8, <2>1, AppendProperties
  <2>6. \A j \in 1 .. i : Lengths'[j] = Append(Lengths, length)[j]
    <3> SUFFICES ASSUME NEW j \in 1 .. i
                 PROVE  Lengths'[j] = Append(Lengths, length)[j]
      OBVIOUS
    <3>1. Lengths'[j] = Len(sent'[j].bytes)
      BY <2>2
    <3>2. CASE j = i
      BY <1>5, <1>6, <1>9, <2>5, <3>1, <3>2
    <3>3. CASE j \in 1 .. Len(sent)
      BY <1>9, <2>1, <2>5, <3>1, <3>3
    <3>4. QED
      BY <1>10, <3>2, <3>3
  <2>7. Lengths' = Append(Lengths, length)
    BY <2>4, <2>5, <2>6, SeqEqual
  <2>8. QED
    BY <2>4, <2>5, <2>7
<1>14. WireContinues'
  <2>1. InStream(wire, Lengths) /\ Lengths \in Seq(Nat)
    BY SentPacket DEF StreamInv, WireContinues
  <2>2. InStream(wire, Lengths')
    BY <1>4, <1>13, <2>1, GrownStream
  <2>3. InStream(bytes, Lengths')
    <3>1. i \in 1 .. Len(Lengths') /\ length \in 0 .. Lengths'[i]
      BY <1>4, <1>8, <1>13
    <3>2. QED
      BY <1>13, <3>1, PacketInStream DEF bytes
  <2>4. /\ bytes # <<>> /\ bytes[1] = <<i, 1>>
        /\ bytes[Len(bytes)] = <<i, length>>
    BY <1>4, <1>5
  <2>5. /\ wire # <<>> => wire[1] = Due /\ wire[Len(wire)] = LastByte
        /\ wire = <<>> => Due = <<i, 1>>
    BY <1>2, <1>8 DEF StreamInv, WireContinues, AllCame
  <2>6. ASSUME wire # <<>> PROVE bytes[1] = After(wire[Len(wire)], Lengths')
    <3>1. Len(wire) \in 1 .. Len(wire)
      BY <1>4, <2>6
    <3>2. PacketOf(LastByte) \in 1 .. Len(Lengths)
      BY <2>1, <2>5, <2>6, <3>1 DEF InStream
    <3>3. Len(sent) \in 1 .. Len(sent)
          /\ Lengths[Len(sent)] = Len(sent[Len(sent)].bytes)
          /\ Len(sent[Len(sent)].bytes) \in Nat
      BY <3>2, SentPacket DEF StreamInv, LastByte, PacketOf
    <3>4. Lengths'[Len(sent)] = Lengths[Len(sent)]
      BY <1>4, <1>13, <2>1, <3>2, <3>3, SentPacket, AppendProperties
      DEF StreamInv
    <3>5. After(LastByte, Lengths') = <<i, 1>>
      BY <1>8, <3>3, <3>4 DEF After, LastByte, PacketOf, Place
    <3>6. QED
      BY <2>4, <2>5, <2>6, <3>5
  <2>7. InStream(wire \o bytes, Lengths')
    BY <2>2, <2>3, <2>6, JoinInStream
  <2>8. /\ wire \o bytes # <<>>
        /\ (wire \o bytes)[Len(wire \o bytes)] = bytes[Len(bytes)]
        /\ wire # <<>> => (wire \o bytes)[1] = wire[1]
        /\ wire = <<>> => (wire \o bytes)[1] = bytes[1]
    BY <1>4, <1>5, <2>4, EndsOfJoin
  <2>9. LastByte' = <<i, length>> /\ Due' = Due
    BY <1>2, <1>5, <1>6, <1>9 DEF LastByte, Due
  <2>10. QED
    BY <1>2, <1>3, <2>4, <2>5, <2>7, <2>8, <2>9 DEF WireContinues
<1>15. QED
  BY <1>2, <1>11, <1>12, <1>14 DEF StreamInv

\* The end of the connection takes what is under way or leaves it; the other
\* steps do not touch it.
LEMMA OthersStream ==
  ASSUME StreamInv,
         \/ ServerEnds \/ ReceiveFails \/ Notify \/ MailReturned
         \/ Dialog \/ CloseWindow \/ UNCHANGED clientVars
  PROVE  /\ StreamInv'
         /\ UNCHANGED <<sent, handled>>
         /\ UNCHANGED peer \/ (peer = "open" /\ peer' \in {"closed", "reset"})
<1>1. /\ \/ UNCHANGED <<wire, peer>>
         \/ peer = "open" /\ peer' = "closed" /\ wire' = wire
         \/ peer = "open" /\ peer' = "reset" /\ wire' = <<>>
      /\ UNCHANGED <<sent, packet, recvBuf, handled, up>>
  <2>1. CASE ServerEnds
    BY <2>1, ClientAssumption DEF ServerEnds
  <2>2. CASE Dialog
    BY <2>2 DEF Dialog, Show, OpenBox, CloseBox, ResetClient, DisconnectToServer,
                Join
  <2>3. CASE \/ ReceiveFails \/ Notify \/ MailReturned
             \/ CloseWindow \/ UNCHANGED clientVars
    BY <2>3 DEF ReceiveFails, Notify, MailReturned, CloseWindow, clientVars
  <2>4. QED
    BY <2>1, <2>2, <2>3
<1>2. Lengths' = Lengths /\ Due' = Due /\ LastByte' = LastByte
  BY <1>1 DEF Lengths, Due, LastByte
<1>3. InStream(<<>>, Lengths)
  BY DEF InStream
<1>4. WireContinues'
  BY <1>1, <1>2, <1>3 DEF StreamInv, WireContinues, AllCame
<1>5. QED
  BY <1>1, <1>4 DEF StreamInv, PacketsSent, PacketOfNext

\* A receive of n bytes of the next packet, which adds them to what has come of
\* it and hands the packet on when that is all.
Takes(n) ==
  LET next   == Len(handled) + 1
      come   == Len(packet.buf) + n
      length == Len(sent[next].bytes)
  IN  /\ n \in 1 .. Len(wire) /\ wire[n] = <<next, come>>
      /\ next \in 1 .. Len(sent) /\ come <= length
      /\ wire' = Rest(wire, n)
      /\ UNCHANGED <<sent, peer, up>>
      /\ IF come = length
         THEN /\ handled' = Append(handled, sent[next])
              /\ packet' = NoPacket /\ recvBuf' = 0
         ELSE /\ UNCHANGED handled
              /\ sent[next].kind # "RESULT" /\ recvBuf' = length
              /\ packet' = [kind |-> sent[next].kind,
                            dataSize |-> length - Header,
                            totalSize |-> come, buf |-> PacketBytes(next, come)]

\* What has come of the next packet.
LEMMA BufferLength ==
  ASSUME StreamInv
  PROVE  /\ Len(handled) \in Nat /\ Len(packet.buf) \in Nat
         /\ packet.buf = PacketBytes(Len(handled) + 1, Len(packet.buf))
         /\ packet.totalSize = Len(packet.buf)
         /\ IF packet.kind = "NONE"
            THEN packet = NoPacket /\ recvBuf = 0
            ELSE /\ Len(handled) + 1 \in 1 .. Len(sent)
                 /\ Len(packet.buf) # 0
                 /\ sent[Len(handled) + 1].kind # "RESULT"
                 /\ recvBuf = Len(sent[Len(handled) + 1].bytes)
                 /\ packet.kind = sent[Len(handled) + 1].kind
                 /\ packet.dataSize = recvBuf - Header
<1>1. handled \in Seq(Packet) /\ Len(handled) \in Nat
  BY DEF StreamInv, PacketOfNext
<1>2. CASE packet = NoPacket /\ recvBuf = 0
  <2>1. packet.buf = <<>> /\ Len(packet.buf) = 0
    BY <1>2 DEF NoPacket
  <2>2. PacketBytes(Len(handled) + 1, 0) = <<>>
    BY <1>1, BytesOfPacket
  <2>3. QED
    BY <1>1, <1>2, <2>1, <2>2 DEF NoPacket
<1>3. CASE ~(packet = NoPacket /\ recvBuf = 0)
  <2> DEFINE next   == Len(handled) + 1
             m      == Len(packet.buf)
             length == Len(sent[next].bytes)
  <2>1. /\ next \in 1 .. Len(sent) /\ m \in 1 .. length - 1
        /\ sent[next].kind # "RESULT" /\ recvBuf = length
        /\ packet = [kind |-> sent[next].kind, dataSize |-> length - Header,
                     totalSize |-> m, buf |-> PacketBytes(next, m)]
    BY <1>3 DEF StreamInv, PacketOfNext
  <2>2. m = Len(packet.buf) /\ next = Len(handled) + 1
        /\ length = Len(sent[Len(handled) + 1].bytes)
    OBVIOUS
  <2> HIDE DEF m, next, length
  <2>3. m \in Nat /\ m # 0 /\ sent[next].kind # "NONE"
    <3>1. sent[next].kind # "NONE"
      BY <2>1, SentPacket DEF StreamInv
    <3>2. QED
      BY <2>1, <3>1
  <2>4. /\ packet.buf = PacketBytes(next, m) /\ packet.totalSize = m
        /\ packet.kind = sent[next].kind /\ packet.dataSize = length - Header
    BY <2>1
  <2>5. QED
    BY <1>1, <2>1, <2>2, <2>3, <2>4
<1>4. QED
  BY <1>2, <1>3

\* A phantom is handed on, or not recorded, when everything sent has been.
LEMMA NothingStream ==
  ASSUME StreamInv, ReceiveNothing
  PROVE  /\ StreamInv'
         /\ peer = "closed" /\ UNCHANGED <<sent, peer>>
         /\ Len(handled) >= Len(sent)
         /\ handled' = Append(handled, Phantom) \/ UNCHANGED handled
<1>1. /\ peer = "closed" /\ wire = <<>> /\ packet.kind = "NONE"
      /\ UNCHANGED <<sent, wire, peer, packet, recvBuf, up>>
      /\ handled' = Append(handled, Phantom) \/ UNCHANGED handled
  BY DEF ReceiveNothing, NothingLeft, HandOn, Phantom
<1>2. packet = NoPacket /\ recvBuf = 0 /\ Len(handled) \in Nat
  BY <1>1, BufferLength
<1>3. handled \in Seq(Packet) /\ Len(sent) \in Nat
  BY DEF StreamInv, PacketOfNext, PacketsSent
<1>4. Len(handled) >= Len(sent)
  BY <1>1, <1>2, <1>3 DEF StreamInv, WireContinues, AllCame, Due
<1>5. Phantom \in Packet
  BY DEF Phantom, Packet
<1>6. handled' \in Seq(Packet)
      /\ (handled' = handled \/ Len(handled') = Len(handled) + 1)
  BY <1>1, <1>3, <1>5, AppendProperties
<1>7. PacketsSent' /\ PacketOfNext'
  BY <1>1, <1>2, <1>6 DEF StreamInv, PacketsSent, PacketOfNext
<1>8. AllCame'
  <2>1. CASE handled' = handled
    BY <1>1, <2>1 DEF StreamInv, WireContinues, AllCame, Due
  <2>2. CASE Len(handled') = Len(handled) + 1
    BY <1>1, <1>2, <1>3, <1>4, <2>2 DEF AllCame
  <2>3. QED
    BY <1>6, <2>1, <2>2
<1>9. Lengths' = Lengths
  BY <1>1 DEF Lengths
<1>10. WireContinues'
  BY <1>1, <1>8, <1>9 DEF StreamInv, WireContinues
<1>11. QED
  BY <1>1, <1>4, <1>7, <1>10 DEF StreamInv

\* A receive that returns bytes of one packet, and its header if it is new,
\* returns the next bytes of the next packet; an answer to a sign-up or a login
\* it returns whole.
LEMMA ChunkOfNext ==
  ASSUME StreamInv, NEW n \in 1 .. Least(Len(wire), PacketSize),
         OnePacket(Front(wire, n))
  PROVE  LET next   == Len(handled) + 1
             m      == Len(packet.buf)
             chunk  == Front(wire, n)
             length == Len(sent[next].bytes)
         IN  /\ n \in 1 .. Len(wire)
             /\ chunk \in Seq(Bytes) /\ Len(chunk) = n
             /\ \A k \in 1 .. n : chunk[k] = <<next, m + k>>
             /\ wire[n] = <<next, m + n>>
             /\ next \in 1 .. Len(sent) /\ m + n <= length
             /\ m = 0 => n >= IF sent[next].kind = "RESULT" THEN 2 ELSE Header
<1> DEFINE next  == Len(handled) + 1
           m     == Len(packet.buf)
           chunk == Front(wire, n)
<1>1. wire \in Seq(Bytes) /\ Len(wire) \in Nat
  BY DEF StreamInv, WireContinues, InStream
<1>2. n \in 1 .. Len(wire) /\ n \in 0 .. Len(wire) /\ wire # <<>>
      /\ n \in 1 .. n /\ 1 \in 1 .. n
  BY <1>1, StreamAssumption DEF Least
<1>3. /\ chunk \in Seq(Bytes) /\ Len(chunk) = n
      /\ \A k \in 1 .. n : chunk[k] = wire[k]
  BY <1>1, <1>2, FrontBytes
<1>4. wire[1] = <<next, m + 1>>
  BY <1>2 DEF StreamInv, WireContinues, Due
<1>5. PacketOf(wire[1]) = next /\ Place(wire[1]) = m + 1
  BY <1>4 DEF PacketOf, Place
<1>6. m \in Nat /\ next \in Nat
  BY BufferLength
<1>7. OnePacket(chunk)
  OBVIOUS
<1> HIDE DEF chunk, next, m
<1>8. PacketOf(wire[1]) = PacketOf(wire[n])
      /\ (Place(wire[1]) = 1
            => n >= IF sent[next].kind = "RESULT" THEN 2 ELSE Header)
  BY <1>2, <1>3, <1>5, <1>7 DEF OnePacket
<1>9. \A k \in 1 .. n : wire[k] = <<next, m + k>>
  <2>1. \A k \in 1 .. n : wire[k] = <<next, (m + 1) + (k - 1)>>
    BY <1>2, <1>5, <1>8, ChunkOfOnePacket DEF StreamInv, WireContinues
  <2>2. \A k \in 1 .. n : (m + 1) + (k - 1) = m + k
    BY <1>6
  <2>3. QED
    BY <2>1, <2>2
<1>10. wire[n] = <<next, m + n>>
  BY <1>2, <1>9
<1>11. next \in 1 .. Len(sent) /\ m + n <= Len(sent[next].bytes)
  <2>1. PacketOf(wire[n]) \in 1 .. Len(Lengths)
        /\ Place(wire[n]) \in 1 .. Lengths[PacketOf(wire[n])]
    BY <1>2 DEF StreamInv, WireContinues, InStream
  <2>2. next \in 1 .. Len(Lengths) /\ m + n \in 1 .. Lengths[next]
    BY <1>10, <2>1 DEF PacketOf, Place
  <2>3. Len(Lengths) = Len(sent)
        /\ \A i \in 1 .. Len(sent) : Lengths[i] = Len(sent[i].bytes)
    BY SentPacket DEF StreamInv
  <2>4. QED
    BY <2>2, <2>3
<1>12. m = 0 => n >= IF sent[next].kind = "RESULT" THEN 2 ELSE Header
  BY <1>5, <1>6, <1>8
<1>13. QED
  BY <1>2, <1>3, <1>9, <1>10, <1>11, <1>12 DEF chunk, next, m

\* With come of its length bytes in recvBuf a packet is handed on or kept.
Grown(kind, i, come, length) ==
  /\ up' = TRUE
  /\ IF come = length
     THEN /\ handled' = Append(handled, [kind |-> kind,
                                        bytes |-> PacketBytes(i, length)])
          /\ packet' = NoPacket /\ recvBuf' = 0
     ELSE /\ UNCHANGED handled /\ recvBuf' = length
          /\ packet' = [kind |-> kind, dataSize |-> length - Header,
                        totalSize |-> come, buf |-> PacketBytes(i, come)]

\* Nothing of a packet that has been begun with its size goes past recvBuf or is
\* dropped: the copy adds the chunk to it and no more.
LEMMA FillAdds ==
  ASSUME NEW next \in Nat, NEW m \in Nat, NEW n \in Nat, NEW length \in Nat,
         m + n <= length, NEW kind,
         NEW chunk \in Seq(Bytes), Len(chunk) = n,
         \A k \in 1 .. n : chunk[k] = <<next, m + k>>,
         NEW p, p = [kind |-> kind, dataSize |-> length - Header,
                     totalSize |-> m, buf |-> PacketBytes(next, m)],
         Fill(p, length, chunk)
  PROVE  Grown(kind, next, m + n, length)
<1>1. Header \in Nat
  BY StreamAssumption
<1>2. Front(chunk, n) = chunk
  BY SubSeqFull DEF Front
<1>3. Copied(p, length, chunk) = PacketBytes(next, m + n)
  <2>1. (IF length > m THEN length - m ELSE 0) >= n
    OBVIOUS
  <2>2. \A k \in Nat : k >= n => Least(k, n) = n
    BY DEF Least
  <2>3. Least(IF length > m THEN length - m ELSE 0, n) = n
    BY <2>1, <2>2
  <2>4. p.totalSize = m /\ p.buf = PacketBytes(next, m)
    OBVIOUS
  <2>5. Copied(p, length, chunk) = PacketBytes(next, m) \o chunk
    BY <1>2, <2>3, <2>4 DEF Copied
  <2>6. QED
    BY <2>5, AddToPacket, ZenonT(40)
<1>4. /\ p.totalSize + Len(chunk) = m + n /\ ~(m + n > length)
      /\ Header + p.dataSize = length /\ p.kind = kind
  BY <1>1
<1>5. /\ up' = TRUE
      /\ \/ /\ m + n < length
            /\ packet' = [p EXCEPT !.totalSize = m + n,
                                   !.buf = PacketBytes(next, m + n)]
            /\ recvBuf' = length /\ UNCHANGED handled
         \/ /\ m + n = length
            /\ ProcessPacket(kind, PacketBytes(next, m + n))
            /\ packet' = NoPacket /\ recvBuf' = 0
  BY <1>3, <1>4 DEF Fill
<1>6. ASSUME packet' = [p EXCEPT !.totalSize = m + n,
                                 !.buf = PacketBytes(next, m + n)]
      PROVE  packet' = [kind |-> kind, dataSize |-> length - Header,
                        totalSize |-> m + n, buf |-> PacketBytes(next, m + n)]
  BY <1>6
<1>7. CASE m + n < length
  <2>1. m + n # length
    BY <1>7
  <2>2. QED
    BY <1>5, <1>6, <1>7, <2>1 DEF Grown
<1>8. CASE m + n = length
  BY <1>5, <1>8 DEF ProcessPacket, HandOn, Grown
<1>9. m + n < length \/ m + n = length
  OBVIOUS
<1>10. QED
  BY <1>7, <1>8, <1>9

\* A receive is one of the next bytes of the next packet; no write goes past
\* recvBuf and no packet is dropped.
LEMMA ReceiveTakes ==
  ASSUME StreamInv, ~unpaced', Receive PROVE \E n \in Nat : Takes(n)
<1>1. PICK n \in 1 .. Least(Len(wire), PacketSize) :
        /\ OnePacket(Front(wire, n)) /\ wire' = Rest(wire, n)
        /\ IF packet.kind # "NONE"
           THEN Fill(packet, recvBuf, Front(wire, n))
           ELSE \E kind \in KindsRead(Front(wire, n)) :
                  IF kind = "RESULT" THEN Result(Front(wire, n))
                                     ELSE Begin(kind, Front(wire, n))
  BY DEF Receive
<1>2. UNCHANGED <<sent, peer>>
  BY DEF Receive
<1> DEFINE next   == Len(handled) + 1
           m      == Len(packet.buf)
           chunk  == Front(wire, n)
           length == Len(sent[next].bytes)
<1>3. /\ n \in 1 .. Len(wire) /\ n \in Nat /\ n >= 1
      /\ chunk \in Seq(Bytes) /\ Len(chunk) = n
      /\ \A k \in 1 .. n : chunk[k] = <<next, m + k>>
      /\ wire[n] = <<next, m + n>>
      /\ next \in 1 .. Len(sent) /\ m + n <= length
      /\ m = 0 => n >= IF sent[next].kind = "RESULT" THEN 2 ELSE Header
  BY <1>1, ChunkOfNext
<1>4. /\ next \in Nat /\ m \in Nat
      /\ packet.buf = PacketBytes(next, m) /\ packet.totalSize = m
      /\ IF packet.kind = "NONE"
         THEN packet = NoPacket /\ recvBuf = 0
         ELSE /\ sent[next].kind # "RESULT" /\ recvBuf = length
              /\ packet.kind = sent[next].kind /\ packet.dataSize = length - Header
  BY BufferLength
<1>5. /\ sent[next].kind # "NONE" /\ length \in Nat
      /\ sent[next] = [kind |-> sent[next].kind, bytes |-> sent[next].bytes]
      /\ sent[next].bytes = PacketBytes(next, length)
      /\ sent[next].kind = "RESULT" => length = 2
  BY <1>3, SentPacket DEF StreamInv
<1>6. ASSUME packet.kind = "NONE"
      PROVE  m = 0 /\ PacketBytes(next, 0) = <<>> /\ recvBuf = 0
             /\ packet = NoPacket /\ KindsRead(chunk) = {sent[next].kind}
  <2>1. packet = NoPacket /\ recvBuf = 0 /\ m = 0
    BY <1>4, <1>6 DEF NoPacket
  <2>2. 1 \in 1 .. n
    BY <1>3
  <2>3. PacketOf(chunk[1]) = next /\ Place(chunk[1]) = 1
    BY <1>3, <2>1, <2>2 DEF PacketOf, Place
  <2>4. QED
    BY <1>4, <2>1, <2>3, BytesOfPacket DEF KindsRead
<1> HIDE DEF next, m, chunk, length
<1>7. /\ next \in Nat /\ m \in Nat /\ n \in Nat /\ length \in Nat
       /\ m + n <= length /\ chunk \in Seq(Bytes) /\ Len(chunk) = n
       /\ \A k \in 1 .. n : chunk[k] = <<next, m + k>>
  BY <1>3, <1>4, <1>5
<1>8. CASE packet.kind # "NONE"
  <2>1. Fill(packet, length, chunk)
    BY <1>1, <1>4, <1>8 DEF chunk
  <2>2. packet = [kind |-> sent[next].kind, dataSize |-> length - Header,
                  totalSize |-> m, buf |-> PacketBytes(next, m)]
    <3>1. packet # NoPacket
      BY <1>8 DEF NoPacket
    <3>2. packet = [kind |-> sent[next].kind, dataSize |-> length - Header,
                    totalSize |-> m,
                    buf |-> PacketBytes(next, m)]
      BY <3>1 DEF StreamInv, PacketOfNext, next, m, length
    <3>3. QED
      BY <3>2
  <2>3. Grown(sent[next].kind, next, m + n, length)
    BY <1>7, <2>1, <2>2, FillAdds
  <2>4. QED
    BY <1>1, <1>2, <1>3, <1>4, <1>5, <1>8, <2>3
    DEF Takes, Grown, StreamInv, next, m, length
<1>9. CASE packet.kind = "NONE" /\ sent[next].kind = "RESULT"
  <2>1. Result(chunk) /\ n = 2 /\ length = 2 /\ m = 0
    BY <1>1, <1>3, <1>5, <1>6, <1>9 DEF chunk
  <2>2. chunk = sent[next].bytes
    <3>1. PacketBytes(next, m) \o chunk = PacketBytes(next, m + n)
      BY <1>7, AddToPacket, ZenonT(40)
    <3>2. PacketBytes(next, m) \o chunk = chunk
      BY <1>3, <1>6, <1>9, <2>1, ConcatEmptySeq
    <3>3. QED
      BY <1>5, <2>1, <3>1, <3>2
  <2>3. Front(chunk, Least(2, Len(chunk))) = chunk
    BY <1>3, <2>1, SubSeqFull DEF Front, Least
  <2>4. handled' = Append(handled, sent[next])
    BY <1>5, <1>9, <2>1, <2>2, <2>3 DEF Result, HandOn
  <2>5. packet' = NoPacket /\ recvBuf' = 0 /\ UNCHANGED up
    BY <1>6, <1>9, <2>1 DEF Result
  <2>6. QED
    BY <1>1, <1>2, <1>3, <2>1, <2>4, <2>5
    DEF Takes, StreamInv, next, m, length
<1>10. CASE packet.kind = "NONE" /\ sent[next].kind # "RESULT"
  <2>1. Begin(sent[next].kind, chunk) /\ m = 0 /\ recvBuf = 0 /\ n >= Header
    BY <1>1, <1>3, <1>6, <1>10 DEF chunk
  <2>2. DataSizes(chunk) = {length - Header}
    <3>1. 1 \in 1 .. n
      BY <1>3
    <3>2. PacketOf(chunk[1]) = next /\ Place(chunk[1]) = 1
      BY <1>3, <2>1, <3>1 DEF PacketOf, Place
    <3>3. QED
      BY <1>3, <2>1, <3>2 DEF DataSizes, SizeRead, length
  <2>3. Header + (length - Header) = length
    BY <1>5, StreamAssumption
  <2>4. PICK p : /\ p = [NoPacket EXCEPT !.kind = sent[next].kind,
                                         !.dataSize = length - Header]
                 /\ Fill(p, length, chunk)
    BY <2>1, <2>2, <2>3 DEF Begin
  <2>5. p = [kind |-> sent[next].kind, dataSize |-> length - Header,
             totalSize |-> m, buf |-> PacketBytes(next, m)]
    BY <1>6, <1>10, <2>1, <2>4 DEF NoPacket
  <2>6. Grown(sent[next].kind, next, m + n, length)
    BY <1>7, <2>4, <2>5, FillAdds
  <2>7. QED
    BY <1>1, <1>2, <1>3, <1>4, <1>5, <1>10, <2>6
    DEF Takes, Grown, StreamInv, next, m, length
<1>11. QED
  BY <1>8, <1>9, <1>10

\* A receive leaves the rest of what is under way to be continued with.
LEMMA TakesStream ==
  ASSUME StreamInv, NEW n \in Nat, Takes(n) PROVE StreamInv'
<1> DEFINE next   == Len(handled) + 1
           come   == Len(packet.buf) + n
           length == Len(sent[next].bytes)
           rest   == Rest(wire, n)
           dueNext == IF come = length THEN <<next + 1, 1>>
                                       ELSE <<next, come + 1>>
<1>1. /\ n \in 1 .. Len(wire) /\ wire[n] = <<next, come>>
      /\ next \in 1 .. Len(sent) /\ come <= length
      /\ wire' = rest
      /\ UNCHANGED <<sent, peer, up>>
      /\ IF come = length
         THEN /\ handled' = Append(handled, sent[next])
              /\ packet' = NoPacket /\ recvBuf' = 0
         ELSE /\ UNCHANGED handled
              /\ sent[next].kind # "RESULT" /\ recvBuf' = length
              /\ packet' = [kind |-> sent[next].kind,
                            dataSize |-> length - Header,
                            totalSize |-> come, buf |-> PacketBytes(next, come)]
  BY DEF Takes
<1>2. /\ handled \in Seq(Packet) /\ Len(handled) \in Nat
      /\ sent \in Seq(Packet) /\ sent[next] \in Packet
      /\ length \in Nat
  BY <1>1, SentPacket, SMTT(30) DEF StreamInv, PacketOfNext, PacketsSent
<1>3. next = Len(handled) + 1 /\ come = Len(packet.buf) + n
  OBVIOUS
<1> HIDE DEF next, come, length
<1>4. Append(handled, sent[next]) \in Seq(Packet)
      /\ Len(Append(handled, sent[next])) = Len(handled) + 1
  BY <1>2, AppendProperties
<1>5. next \in Nat /\ come \in Nat /\ 1 <= come
  <2>1. n \in Nat /\ n >= 1
    BY <1>1
  <2>2. Len(packet.buf) \in Nat
    BY BufferLength
  <2>3. QED
    BY <1>2, <1>3, <2>1, <2>2
<1>6. wire \in Seq(Bytes) /\ Len(wire) \in Nat
      /\ n \in 0 .. Len(wire) /\ wire # <<>>
  BY <1>1 DEF StreamInv, WireContinues, InStream
<1>7. /\ rest \in Seq(Bytes) /\ Len(rest) = Len(wire) - n
      /\ \A k \in 1 .. Len(wire) - n : rest[k] = wire[n + k]
  BY <1>6, RestBytes
<1>8. Lengths' = Lengths /\ LastByte' = LastByte
      /\ Lengths[next] = length /\ next \in 1 .. Len(Lengths)
      /\ Len(Lengths) = Len(sent)
  BY <1>1, SentPacket DEF StreamInv, Lengths, LastByte, length
<1>9. Due' = dueNext
  <2>1. CASE come = length
    <3>1. Len(handled') = next /\ packet'.buf = <<>>
      BY <1>1, <1>3, <1>4, <2>1 DEF NoPacket
    <3>2. QED
      BY <2>1, <3>1 DEF Due
  <2>2. CASE come # length
    <3>1. handled' = handled /\ packet'.buf = PacketBytes(next, come)
      BY <1>1, <2>2
    <3>2. Len(PacketBytes(next, come)) = come
      BY <1>5, BytesOfPacket
    <3>3. QED
      BY <1>3, <2>2, <3>1, <3>2 DEF Due
  <2>3. QED
    BY <2>1, <2>2
<1>10. After(wire[n], Lengths) = dueNext
  <2>1. PacketOf(wire[n]) = next /\ Place(wire[n]) = come
    BY <1>1 DEF PacketOf, Place
  <2>2. come < length <=> come # length
    BY <1>1, <1>2, <1>5
  <2>3. QED
    BY <1>8, <2>1, <2>2 DEF After
<1>11. PacketOfNext'
  <2>1. CASE come = length
    <3>1. handled' \in Seq(Packet) /\ packet' = NoPacket /\ recvBuf' = 0
      BY <1>1, <1>4, <2>1
    <3>2. QED
      BY <3>1 DEF PacketOfNext
  <2>2. CASE come # length
    <3>1. /\ handled' = handled /\ sent' = sent /\ recvBuf' = length
          /\ sent[next].kind # "RESULT"
          /\ packet' = [kind |-> sent[next].kind,
                        dataSize |-> length - Header,
                        totalSize |-> come, buf |-> PacketBytes(next, come)]
      BY <1>1, <2>2
    <3>2. Len(PacketBytes(next, come)) = come
      BY <1>5, BytesOfPacket
    <3>3. come \in 1 .. length - 1
      BY <1>1, <1>2, <1>5, <2>2
    <3>4. /\ Len(handled') + 1 = next /\ Len(packet'.buf) = come
          /\ Len(sent'[next].bytes) = length
      BY <1>3, <3>1, <3>2 DEF length
    <3>5. QED
      BY <1>1, <1>2, <3>1, <3>3, <3>4 DEF PacketOfNext
  <2>3. QED
    BY <2>1, <2>2
<1> HIDE DEF rest, dueNext
<1>12. WireContinues'
  <2>1. InStream(rest, Lengths)
    BY <1>6, RestInStream DEF StreamInv, WireContinues, rest
  <2>2. ASSUME rest # <<>>
        PROVE  rest[1] = dueNext /\ rest[Len(rest)] = wire[Len(wire)]
    <3>1. Len(rest) # 0
      BY <1>7, <2>2
    <3>2. /\ 1 \in 1 .. Len(wire) - n /\ Len(wire) - n \in 1 .. Len(wire) - n
          /\ n \in 1 .. Len(wire) - 1 /\ n + (Len(wire) - n) = Len(wire)
      <4>1. n \in 1 .. Len(wire) /\ Len(wire) \in Nat /\ Len(wire) - n # 0
        BY <1>1, <1>6, <1>7, <3>1
      <4>2. QED
        BY <4>1
    <3>3. wire[n + 1] = After(wire[n], Lengths)
      BY <3>2 DEF StreamInv, WireContinues, InStream
    <3>4. QED
      BY <1>7, <1>10, <3>2, <3>3
  <2>3. peer # "reset" => wire[Len(wire)] = LastByte
    BY <1>6 DEF StreamInv, WireContinues
  <2>4. ASSUME peer # "reset", rest = <<>>
        PROVE  dueNext = <<Len(sent) + 1, 1>>
    <3>1. Len(rest) = 0
      BY <2>4
    <3>2. n = Len(wire)
      BY <1>6, <1>7, <3>1, <1>1
    <3>3. <<next, come>> = LastByte
      BY <1>1, <2>3, <2>4, <3>2
    <3>4. next = Len(sent) /\ come = length
      BY <3>3 DEF LastByte, length
    <3>5. QED
      BY <3>4 DEF dueNext
  <2>5. QED
    BY <1>1, <1>8, <1>9, <2>1, <2>2, <2>3, <2>4 DEF WireContinues, AllCame
<1>13. PacketsSent' /\ up'
  BY <1>1 DEF StreamInv, PacketsSent
<1>14. QED
  BY <1>11, <1>12, <1>13 DEF StreamInv

\* Every step keeps the invariant, up to the first receive that returns bytes of
\* two packets or less than a header.
LEMMA NextStream ==
  (unpaced \/ StreamInv) /\ [Next]_clientVars => (unpaced \/ StreamInv)'
<1> SUFFICES ASSUME unpaced \/ StreamInv, [Next]_clientVars, ~unpaced'
             PROVE  StreamInv'
  OBVIOUS
<1>1. StreamInv
  BY StaysUnpaced
<1>2. CASE Receive
  BY <1>1, <1>2, ReceiveTakes, TakesStream
<1>3. CASE ServerSends
  BY <1>1, <1>3, ServerSendsStream
<1>4. CASE ReceiveNothing
  BY <1>1, <1>4, NothingStream
<1>5. CASE ~Receive /\ ~ServerSends /\ ~ReceiveNothing
  BY <1>1, <1>5, OthersStream DEF Next, Thread
<1>6. QED
  BY <1>2, <1>3, <1>4, <1>5

\* The packet being put together and what is on its way are one piece of the
\* stream.
LEMMA AssemblyOfInv == StreamInv => Assembly
<1> SUFFICES ASSUME StreamInv PROVE Assembly
  OBVIOUS
<1> DEFINE next  == Len(handled) + 1
           buf   == packet.buf
           m     == Len(buf)
           bytes == buf \o wire
<1>1. /\ next \in Nat /\ m \in Nat /\ buf = PacketBytes(next, m)
      /\ packet.totalSize = m
      /\ recvBuf = IF packet.kind = "NONE" THEN 0 ELSE Len(sent[next].bytes)
      /\ packet.kind = "NONE" => buf = <<>>
  BY BufferLength DEF NoPacket
<1> HIDE DEF next, buf, m
<1>2. buf \in Seq(Bytes) /\ \A k \in 1 .. m : buf[k] = <<next, k>>
  BY <1>1, BytesOfPacket
<1>3. wire \in Seq(Bytes) /\ InStream(wire, Lengths)
  BY DEF StreamInv, WireContinues, InStream
<1>4. wire # <<>> => wire[1] = <<next, m + 1>>
  BY DEF StreamInv, WireContinues, Due, next, buf, m
<1>5. InStream(bytes, Lengths) /\ (bytes # <<>> => bytes[1] = <<next, 1>>)
  <2>1. CASE buf = <<>>
    <3>1. m = 0
      BY <2>1 DEF m
    <3>2. bytes = wire
      BY <1>2, <1>3, <2>1, EndsOfJoin
    <3>3. QED
      BY <1>3, <1>4, <3>1, <3>2
  <2>2. CASE buf # <<>>
    <3>1. m # 0
      BY <1>2, <2>2 DEF m
    <3>2. next \in 1 .. Len(sent) /\ m \in 1 .. Len(sent[next].bytes) - 1
      BY <2>2 DEF StreamInv, PacketOfNext, NoPacket, next, buf, m
    <3>3. /\ Lengths \in Seq(Nat) /\ next \in 1 .. Len(Lengths)
          /\ Lengths[next] = Len(sent[next].bytes)
          /\ Len(sent[next].bytes) \in Nat
      BY <3>2, SentPacket DEF StreamInv
    <3>4. m \in 0 .. Lengths[next] /\ m < Lengths[next]
          /\ 1 \in 1 .. m /\ m \in 1 .. m
      BY <1>1, <3>1, <3>2, <3>3
    <3>5. InStream(buf, Lengths)
      BY <1>1, <3>3, <3>4, PacketInStream
    <3>6. PacketOf(buf[m]) = next /\ Place(buf[m]) = m
      BY <1>2, <3>4 DEF PacketOf, Place
    <3>7. After(buf[m], Lengths) = <<next, m + 1>>
      BY <3>4, <3>6 DEF After
    <3>8. m = Len(buf)
      BY DEF m
    <3>9. wire # <<>> => wire[1] = After(buf[Len(buf)], Lengths)
      BY <1>4, <3>7, <3>8
    <3>10. InStream(bytes, Lengths)
      BY <1>3, <3>5, <3>9, JoinInStream
    <3>11. bytes[1] = buf[1]
      BY <1>2, <1>3, <2>2, EndsOfJoin
    <3>12. QED
      BY <1>2, <3>4, <3>10, <3>11
  <2>3. QED
    BY <2>1, <2>2
<1> HIDE DEF bytes
<1>6. Continuous(bytes, LAMBDA i : Len(sent[i].bytes))
  <2>1. /\ Len(Lengths) = Len(sent)
        /\ \A i \in 1 .. Len(sent) : Lengths[i] = Len(sent[i].bytes)
    BY SentPacket DEF StreamInv
  <2>2. bytes \in Seq(Bytes) /\ Len(bytes) \in Nat
    BY <1>5 DEF InStream
  <2>3. ASSUME NEW k \in 1 .. Len(bytes) - 1
        PROVE  bytes[k + 1]
                 = IF Place(bytes[k]) < Len(sent[PacketOf(bytes[k])].bytes)
                   THEN <<PacketOf(bytes[k]), Place(bytes[k]) + 1>>
                   ELSE <<PacketOf(bytes[k]) + 1, 1>>
    <3>1. k \in 1 .. Len(bytes)
      BY <2>2
    <3>2. PacketOf(bytes[k]) \in 1 .. Len(sent)
      BY <1>5, <2>1, <3>1 DEF InStream
    <3>3. bytes[k + 1] = After(bytes[k], Lengths)
      BY <1>5 DEF InStream
    <3>4. QED
      BY <2>1, <3>2, <3>3 DEF After
  <2>4. QED
    BY <2>3 DEF Continuous
<1>7. up
  BY DEF StreamInv
<1>8. QED
  BY <1>1, <1>5, <1>6, <1>7 DEF Assembly, next, buf, m, bytes

\* Up to the first receive that returns bytes of two packets or less than a
\* header, what the thread has of a packet, and what is on its way to it, is one
\* piece of what the server sent, recvBuf has its size and no write has gone past
\* it, however the connection ends: Assembly of the runs.
THEOREM PacketsAssembled == Spec => []Assembly
<1>1. unpaced \/ StreamInv => Assembly
  BY AssemblyOfInv DEF Assembly
<1>2. Init => unpaced \/ StreamInv
  BY InitStream
<1>3. QED
  BY <1>1, <1>2, NextStream, PTL DEF Spec

-----------------------------------------------------------------------------
(* The refinement of PacketStream.                                          *)

\* The next packet is sent: one that PacketStream may send.
LEMMA ServerSendsMaps ==
  ASSUME StreamInv, ServerSends PROVE Stream!Send
<1>1. PICK kind \in Kinds, size \in Sizes :
        LET length == IF kind = "RESULT" THEN 2 ELSE Header + size
        IN  sent' = Append(sent, [kind |-> kind,
                                  bytes |-> PacketBytes(Len(sent) + 1, length)])
  BY DEF ServerSends
<1> DEFINE length == IF kind = "RESULT" THEN 2 ELSE Header + size
           lengths == {2} \cup {Header + s : s \in Sizes}
<1>2. Len(sent) \in Nat /\ Len(sent) < MaxPackets /\ MaxPackets \in Nat
      /\ peer = "open" /\ UNCHANGED <<handled, peer>>
  BY StreamAssumption DEF ServerSends, StreamInv, PacketsSent
<1>3. Len(sent) + 1 \in 1 .. MaxPackets /\ length \in lengths
  BY <1>2
<1>4. sent' = Append(sent, [kind |-> kind,
                            bytes |-> PacketBytes(Len(sent) + 1, length)])
  BY <1>1
<1> HIDE DEF length, lengths
<1>5. [kind |-> kind, bytes |-> PacketBytes(Len(sent) + 1, length)]
        \in [kind : Kinds, bytes : {PacketBytes(i, n) : i \in 1 .. MaxPackets,
                                                        n \in lengths}]
  BY <1>3
<1>6. QED
  BY <1>2, <1>4, <1>5 DEF Stream!Send, lengths

\* A receive hands on the packet that is next, or nothing.
LEMMA TakesMaps ==
  ASSUME StreamInv, NEW n \in Nat, Takes(n)
  PROVE  Stream!Handle \/ UNCHANGED <<sent, handled, peer>>
<1>1. Len(handled) \in Nat /\ Len(sent) \in Nat
  BY BufferLength DEF StreamInv, PacketsSent
<1>2. Len(handled) + 1 \in 1 .. Len(sent) /\ UNCHANGED <<sent, peer>>
      /\ handled' \in {handled, Append(handled, sent[Len(handled) + 1])}
  BY DEF Takes
<1>3. Len(handled) < Len(sent)
  BY <1>1, <1>2
<1>4. QED
  BY <1>2, <1>3 DEF Stream!Handle

\* A phantom is one that PacketStream may hand on at the end.
LEMMA NothingMaps ==
  ASSUME StreamInv, ReceiveNothing
  PROVE  Stream!HandleEnd \/ UNCHANGED <<sent, handled, peer>>
BY NothingStream DEF Stream!HandleEnd

\* The end of the connection closes the stream or is no step of it, as the other
\* steps are none.
LEMMA OthersMap ==
  ASSUME StreamInv,
         \/ ServerEnds \/ ReceiveFails \/ Notify \/ MailReturned
         \/ Dialog \/ CloseWindow \/ UNCHANGED clientVars
  PROVE  Stream!Close \/ UNCHANGED <<sent, handled, peer = "closed">>
<1>1. CASE peer' = "closed"
  BY <1>1, OthersStream DEF Stream!Close
<1>2. CASE peer' # "closed"
  BY <1>2, OthersStream
<1>3. QED
  BY <1>1, <1>2

LEMMA NextMaps ==
  (unpaced \/ StreamInv) /\ [Next]_clientVars
    => [unpaced' \/ Stream!Next]_(Stream!streamVars)
<1> SUFFICES ASSUME unpaced \/ StreamInv, [Next]_clientVars, ~unpaced'
             PROVE  Stream!Next \/ UNCHANGED Stream!streamVars
  OBVIOUS
<1> USE DEF Stream!Next, Stream!streamVars
<1>1. StreamInv
  BY StaysUnpaced
<1>2. CASE ServerSends
  BY <1>1, <1>2, ServerSendsMaps
<1>3. CASE Receive
  BY <1>1, <1>3, ReceiveTakes, TakesMaps
<1>4. CASE ReceiveNothing
  BY <1>1, <1>4, NothingMaps
<1>5. CASE ~Receive /\ ~ServerSends /\ ~ReceiveNothing
  BY <1>1, <1>5, OthersMap DEF Next, Thread
<1>6. QED
  BY <1>2, <1>3, <1>4, <1>5

LEMMA InitMaps == Init => Stream!Init
BY DEF Init, Stream!Init

\* Up to the first receive that returns bytes of two packets or less than a
\* header, the dialog and the receive thread get the packets the server sent,
\* each whole, once and in that order; results nobody sent they get only when the
\* server has closed and all it sent has been handed on: IsPacketStream of the
\* runs.
THEOREM ClientIsStream == Spec => IsPacketStream
<1>1. Init => unpaced \/ StreamInv
  BY InitStream
<1>2. QED
  BY <1>1, NextStream, NextMaps, InitMaps, PTL DEF Spec, IsPacketStream
=============================================================================
