------------------------ MODULE ServerFramingProofs -------------------------
(***************************************************************************)
(* Proofs that WorkerThread gets a client's packets whole and in order,    *)
(* for every size of packets, chunks and headers, as long as no receive    *)
(* returns bytes of two packets or a part of a header; and that a reset    *)
(* under way loses packets but tears none apart.                           *)
(***************************************************************************)
EXTENDS ServerFraming, ByteStreamProofs

\* The lengths of the packets sent, the byte the server waits for, and the last
\* one that was given to Send.
Lengths  == [i \in 1 .. Len(sent) |-> Len(sent[i])]
Due      == <<Len(handled) + 1, Len(packetInfo.tempBuf) + 1>>
LastByte == <<Len(sent), Len(sent[Len(sent)])>>

PacketsSent ==
  /\ sent \in Seq(Seq(Bytes)) /\ Len(sent) <= MaxPackets
  /\ \A i \in 1 .. Len(sent) :
       \E size \in Sizes : sent[i] = PacketBytes(i, Header + size)

\* Some, but not all, of the next packet has come, and its header is known; or
\* nothing has.
BufferOfNext ==
  LET next == Len(handled) + 1
      buf  == packetInfo.tempBuf
  IN  /\ handled \in Seq(Seq(Bytes))
      /\ \/ packetInfo = NoPacket
         \/ /\ next \in 1 .. Len(sent) /\ Len(buf) \in 1 .. Len(sent[next]) - 1
            /\ packetInfo = [open |-> TRUE,
                             dataSize |-> Len(sent[next]) - Header,
                             totalSize |-> Len(buf),
                             tempBuf |-> PacketBytes(next, Len(buf))]

\* What is on its way is in the stream, from the byte the server waits for.
WireContinues ==
  InStream(wire, Lengths) /\ (wire # <<>> => wire[1] = Due)

\* On an open connection so is what is still to be sent, up to the last byte;
\* when nothing is under way the server has had every packet.
NothingLost ==
  LET line == wire \o unsent
  IN  /\ unsent \in Seq(Bytes)
      /\ ~reset => /\ InStream(line, Lengths)
                   /\ line # <<>> => line[1] = Due /\ line[Len(line)] = LastByte
                   /\ line = <<>> => Due = <<Len(sent) + 1, 1>>

FramingInv == PacketsSent /\ BufferOfNext /\ WireContinues /\ NothingLost /\ up

\* What PacketsSent says of one packet, and of the lengths.
LEMMA SentPacket ==
  ASSUME PacketsSent
  PROVE  /\ Lengths \in Seq(Nat) /\ Len(Lengths) = Len(sent)
         /\ \A i \in 1 .. Len(sent) :
              /\ Lengths[i] = Len(sent[i]) /\ Len(sent[i]) \in Nat
              /\ Len(sent[i]) >= Header /\ Len(sent[i]) - Header \in Sizes
              /\ sent[i] = PacketBytes(i, Len(sent[i]))
<1>1. Header \in Nat /\ Header >= 2 /\ \A size \in Sizes : size \in Nat
  BY StreamAssumption
<1>2. Len(sent) \in Nat
  BY DEF PacketsSent
<1>3. ASSUME NEW i \in 1 .. Len(sent)
      PROVE  /\ Len(sent[i]) \in Nat
             /\ Len(sent[i]) >= Header /\ Len(sent[i]) - Header \in Sizes
             /\ sent[i] = PacketBytes(i, Len(sent[i]))
  <2>1. PICK size \in Sizes : sent[i] = PacketBytes(i, Header + size)
    BY DEF PacketsSent
  <2>2. size \in Nat /\ Header + size \in Nat /\ i \in Nat
    BY <1>1, <1>2
  <2>3. Len(sent[i]) = Header + size
    BY <2>1, <2>2, BytesOfPacket
  <2>4. QED
    BY <1>1, <2>1, <2>2, <2>3
<1>4. QED
  BY <1>2, <1>3 DEF Lengths

\* Before the first packet nothing is under way.
LEMMA InitFraming == Init => FramingInv
<1> SUFFICES ASSUME Init PROVE FramingInv
  OBVIOUS
<1>1. PacketsSent
  BY StreamAssumption DEF Init, PacketsSent
<1>2. BufferOfNext
  BY DEF Init, BufferOfNext
<1>3. InStream(<<>>, Lengths)
  BY DEF InStream
<1>4. wire \o unsent = <<>>
  BY DEF Init
<1>5. WireContinues
  BY <1>3 DEF Init, WireContinues
<1>6. NothingLost
  BY <1>3, <1>4 DEF Init, NothingLost, Due, NoPacket
<1>7. QED
  BY <1>1, <1>2, <1>5, <1>6 DEF Init, FramingInv

\* A packet is given to Send: it follows what was sent before.
LEMMA SendPacketFraming ==
  ASSUME FramingInv, SendPacket PROVE FramingInv'
<1>1. PICK size \in Sizes :
        /\ sent' = Append(sent, PacketBytes(Len(sent) + 1, Header + size))
        /\ unsent' = PacketBytes(Len(sent) + 1, Header + size)
  BY DEF SendPacket
<1> DEFINE i      == Len(sent) + 1
           length == Header + size
           packet == PacketBytes(i, length)
<1>2. /\ unsent = <<>> /\ Len(sent) < MaxPackets
      /\ UNCHANGED <<wire, reset, packetInfo, handled, up>>
  BY DEF SendPacket
<1>3. /\ sent \in Seq(Seq(Bytes)) /\ Len(sent) \in Nat /\ MaxPackets \in Nat
      /\ size \in Nat /\ length \in Nat /\ length >= 2 /\ i \in Nat
  BY StreamAssumption DEF FramingInv, PacketsSent
<1>4. /\ packet \in Seq(Bytes) /\ Len(packet) = length
      /\ \A k \in 1 .. length : packet[k] = <<i, k>>
  BY <1>3, BytesOfPacket
<1>5. sent' = Append(sent, packet) /\ unsent' = packet
  BY <1>1
<1> HIDE DEF packet
<1>6. /\ sent' \in Seq(Seq(Bytes)) /\ Len(sent') = i /\ sent'[i] = packet
      /\ \A j \in 1 .. Len(sent) : j \in 1 .. Len(sent') /\ sent'[j] = sent[j]
  BY <1>3, <1>4, <1>5, AppendProperties
<1>7. PacketsSent'
  <2>1. \A j \in 1 .. i : j \in 1 .. Len(sent) \/ j = i
    BY <1>3
  <2>2. packet = PacketBytes(i, Header + size)
    BY DEF packet
  <2>3. ASSUME NEW j \in 1 .. i
        PROVE  \E s \in Sizes : sent'[j] = PacketBytes(j, Header + s)
    <3>1. CASE j = i
      BY <1>6, <2>2, <3>1
    <3>2. CASE j \in 1 .. Len(sent)
      BY <1>6, <3>2 DEF FramingInv, PacketsSent
    <3>3. QED
      BY <2>1, <3>1, <3>2
  <2>4. Len(sent') <= MaxPackets
    BY <1>2, <1>3, <1>6
  <2>5. QED
    BY <1>6, <2>3, <2>4 DEF PacketsSent
<1>8. BufferOfNext'
  BY <1>2, <1>6 DEF FramingInv, BufferOfNext
<1>9. /\ Lengths' = Append(Lengths, length) /\ Lengths' \in Seq(Nat)
      /\ Len(Lengths') = i /\ Lengths'[i] = length
  <2>1. /\ Lengths \in Seq(Nat) /\ Len(Lengths) = Len(sent)
        /\ \A j \in 1 .. Len(sent) : Lengths[j] = Len(sent[j])
    BY SentPacket DEF FramingInv
  <2>2. /\ Lengths' \in Seq(Nat) /\ Len(Lengths') = Len(sent')
        /\ \A j \in 1 .. Len(sent') : Lengths'[j] = Len(sent'[j])
    BY <1>3, <1>4, <1>6, <1>7, SentPacket DEF Lengths
  <2>3. Append(Lengths, length) \in Seq(Nat)
        /\ Len(Append(Lengths, length)) = i
        /\ \A j \in 1 .. Len(sent) : Append(Lengths, length)[j] = Lengths[j]
        /\ Append(Lengths, length)[i] = length
    BY <1>3, <2>1, AppendProperties
  <2>4. \A j \in 1 .. i : Lengths'[j] = Append(Lengths, length)[j]
    <3> SUFFICES ASSUME NEW j \in 1 .. i
                 PROVE  Lengths'[j] = Append(Lengths, length)[j]
      OBVIOUS
    <3>1. j \in 1 .. Len(sent) \/ j = i
      BY <1>3
    <3>2. QED
      BY <1>4, <1>6, <2>1, <2>2, <2>3, <3>1
  <2>5. /\ Len(Lengths') = Len(Append(Lengths, length))
        /\ \A j \in 1 .. Len(Lengths') : Lengths'[j] = Append(Lengths, length)[j]
    BY <1>6, <2>2, <2>3, <2>4
  <2>6. Lengths' = Append(Lengths, length)
    BY <2>2, <2>3, <2>5, SeqEqual
  <2>7. QED
    BY <1>3, <2>3, <2>6
<1>10. WireContinues'
  <2>1. InStream(wire, Lengths) /\ Lengths \in Seq(Nat)
    BY SentPacket DEF FramingInv, WireContinues
  <2>2. InStream(wire, Append(Lengths, length))
    BY <1>3, <2>1, GrownStream
  <2>3. QED
    BY <1>2, <1>9, <2>2 DEF FramingInv, WireContinues, Due
<1>11. NothingLost'
  <2> SUFFICES ASSUME ~reset
               PROVE  /\ InStream(wire \o packet, Lengths')
                      /\ wire \o packet # <<>>
                      /\ (wire \o packet)[1] = Due
                      /\ (wire \o packet)[Len(wire \o packet)] = LastByte'
    BY <1>2, <1>4, <1>5 DEF NothingLost, Due
  <2>1. wire \in Seq(Bytes) /\ packet # <<>>
    BY <1>3, <1>4 DEF FramingInv, WireContinues, InStream
  <2>2. /\ wire # <<>> => wire[1] = Due /\ wire[Len(wire)] = LastByte
        /\ wire = <<>> => Due = <<i, 1>>
    BY <1>2, <2>1, EndsOfJoin DEF FramingInv, NothingLost
  <2>3. InStream(wire, Lengths')
    BY <1>2, <1>10 DEF WireContinues
  <2>4. InStream(packet, Lengths')
    <3>1. i \in 1 .. Len(Lengths') /\ length \in 0 .. Lengths'[i]
      BY <1>3, <1>9
    <3>2. QED
      BY <1>9, <3>1, PacketInStream DEF packet
  <2>5. ASSUME wire # <<>> PROVE packet[1] = After(wire[Len(wire)], Lengths')
    <3>1. Len(wire) \in 1 .. Len(wire)
      BY <2>1, <2>5
    <3>2. PacketOf(LastByte) \in 1 .. Len(Lengths)
      BY <2>2, <2>5, <3>1 DEF FramingInv, WireContinues, InStream
    <3>3. Len(sent) \in 1 .. Len(sent) /\ Lengths'[Len(sent)] = Len(sent[Len(sent)])
          /\ Len(sent[Len(sent)]) \in Nat
      BY <1>3, <1>6, <1>7, <3>2, SentPacket
      DEF FramingInv, LastByte, PacketOf, Lengths
    <3>4. After(LastByte, Lengths') = <<i, 1>>
      BY <1>3, <3>3 DEF After, LastByte, PacketOf, Place
    <3>5. packet[1] = <<i, 1>>
      BY <1>3, <1>4
    <3>6. QED
      BY <2>2, <2>5, <3>4, <3>5
  <2>6. InStream(wire \o packet, Lengths')
    BY <2>3, <2>4, <2>5, JoinInStream
  <2>7. packet[1] = <<i, 1>> /\ packet[Len(packet)] = <<i, length>>
    BY <1>3, <1>4
  <2>8. LastByte' = <<i, length>>
    BY <1>4, <1>6 DEF LastByte
  <2>9. /\ wire \o packet # <<>>
        /\ (wire \o packet)[Len(wire \o packet)] = packet[Len(packet)]
        /\ wire # <<>> => (wire \o packet)[1] = wire[1]
        /\ wire = <<>> => (wire \o packet)[1] = packet[1]
    BY <1>4, <2>1, EndsOfJoin
  <2>10. QED
    BY <2>2, <2>6, <2>7, <2>8, <2>9
<1>12. QED
  BY <1>2, <1>7, <1>8, <1>10, <1>11 DEF FramingInv

\* A chunk is handed over: what is under way stays the same.
LEMMA SendChunkFraming ==
  ASSUME FramingInv, SendChunk PROVE FramingInv'
<1> DEFINE n == Least(Len(unsent), PacketSize)
<1>1. /\ wire' = wire \o Front(unsent, n) /\ unsent' = Rest(unsent, n)
      /\ ~reset /\ UNCHANGED <<sent, reset, packetInfo, handled, up>>
  BY DEF SendChunk
<1>2. unsent \in Seq(Bytes) /\ wire \in Seq(Bytes)
  BY DEF FramingInv, NothingLost, WireContinues, InStream
<1>3. n \in 0 .. Len(unsent)
  BY <1>2, StreamAssumption DEF Least
<1> HIDE DEF n
<1>4. /\ Front(unsent, n) \in Seq(Bytes) /\ Rest(unsent, n) \in Seq(Bytes)
      /\ Front(unsent, n) \o Rest(unsent, n) = unsent
  BY <1>2, <1>3, FrontBytes, RestBytes, FrontAndRest
<1>5. wire' \in Seq(Bytes) /\ unsent' \in Seq(Bytes)
  BY <1>1, <1>2, <1>4, ConcatProperties
<1>6. wire' \o unsent' = wire \o unsent
  <2>1. \A t, u \in Seq(Bytes) : (wire \o t) \o u = wire \o (t \o u)
    BY <1>2, ConcatAssociative
  <2>2. QED
    BY <1>1, <1>4, <2>1
<1>7. Lengths' = Lengths /\ Due' = Due /\ LastByte' = LastByte
  BY <1>1 DEF Lengths, Due, LastByte
<1>8. NothingLost'
  BY <1>1, <1>5, <1>6, <1>7 DEF FramingInv, NothingLost
<1>9. WireContinues'
  <2>1. /\ InStream(wire' \o unsent', Lengths)
        /\ wire' \o unsent' # <<>> => (wire' \o unsent')[1] = Due
    BY <1>1, <1>6 DEF FramingInv, NothingLost
  <2>2. InStream(wire', Lengths)
    BY <1>5, <2>1, FirstInStream
  <2>3. wire' # <<>> => wire'[1] = Due
    BY <1>5, <2>1, EndsOfJoin
  <2>4. QED
    BY <1>7, <2>2, <2>3 DEF WireContinues
<1>10. QED
  BY <1>1, <1>8, <1>9 DEF FramingInv, PacketsSent, BufferOfNext

\* A reset may take what is on its way, and what is to be sent is given up then;
\* neither touches the packet that the server has begun.
LEMMA LossFraming ==
  ASSUME FramingInv, SendFails \/ Reset PROVE FramingInv'
<1>1. /\ wire' \in {wire, <<>>} /\ unsent' \in {unsent, <<>>} /\ reset'
      /\ UNCHANGED <<sent, packetInfo, handled, up>>
  BY DEF SendFails, Reset
<1>2. Lengths' = Lengths /\ Due' = Due
  BY <1>1 DEF Lengths, Due
<1>3. InStream(<<>>, Lengths)
  BY DEF InStream
<1>4. WireContinues'
  BY <1>1, <1>2, <1>3 DEF FramingInv, WireContinues
<1>5. NothingLost'
  <2>1. unsent \in Seq(Bytes) /\ <<>> \in Seq(Bytes)
    BY EmptySeq DEF FramingInv, NothingLost
  <2>2. unsent' \in Seq(Bytes)
    BY <1>1, <2>1
  <2>3. QED
    BY <1>1, <2>2 DEF NothingLost
<1>6. QED
  BY <1>1, <1>4, <1>5 DEF FramingInv, PacketsSent, BufferOfNext

\* A receive of n bytes of the next packet, which adds them to what has come of
\* it and hands the packet on when that is all.
Takes(n) ==
  LET next == Len(handled) + 1
      come == Len(packetInfo.tempBuf) + n
  IN  /\ n \in 1 .. Len(wire) /\ wire[n] = <<next, come>>
      /\ next \in 1 .. Len(sent) /\ come <= Len(sent[next])
      /\ wire' = Rest(wire, n)
      /\ UNCHANGED <<sent, unsent, reset, up>>
      /\ IF come = Len(sent[next])
         THEN handled' = Append(handled, sent[next]) /\ packetInfo' = NoPacket
         ELSE /\ UNCHANGED handled
              /\ packetInfo' = [open |-> TRUE,
                                dataSize |-> Len(sent[next]) - Header,
                                totalSize |-> come,
                                tempBuf |-> PacketBytes(next, come)]

\* What has come of the next packet, and that it is not all.
LEMMA BufferLength ==
  ASSUME FramingInv
  PROVE  /\ Len(handled) \in Nat /\ Len(packetInfo.tempBuf) \in Nat
         /\ packetInfo.tempBuf
              = PacketBytes(Len(handled) + 1, Len(packetInfo.tempBuf))
         /\ packetInfo.totalSize = Len(packetInfo.tempBuf)
         /\ packetInfo.open \in BOOLEAN
         /\ packetInfo.open => /\ Len(handled) + 1 \in 1 .. Len(sent)
                               /\ packetInfo.dataSize
                                    = Len(sent[Len(handled) + 1]) - Header
         /\ ~packetInfo.open => packetInfo = NoPacket
<1>1. handled \in Seq(Seq(Bytes)) /\ Len(handled) \in Nat
  BY DEF FramingInv, BufferOfNext
<1>2. CASE packetInfo = NoPacket
  <2>1. packetInfo.tempBuf = <<>> /\ Len(packetInfo.tempBuf) = 0
    BY <1>2 DEF NoPacket
  <2>2. PacketBytes(Len(handled) + 1, 0) = <<>>
    BY <1>1, BytesOfPacket
  <2>3. QED
    BY <1>1, <1>2, <2>1, <2>2 DEF NoPacket
<1>3. CASE packetInfo # NoPacket
  <2> DEFINE next == Len(handled) + 1
             m    == Len(packetInfo.tempBuf)
  <2>1. /\ next \in 1 .. Len(sent) /\ m \in 1 .. Len(sent[next]) - 1
        /\ packetInfo = [open |-> TRUE, dataSize |-> Len(sent[next]) - Header,
                         totalSize |-> m, tempBuf |-> PacketBytes(next, m)]
    BY <1>3 DEF FramingInv, BufferOfNext
  <2>2. m \in Nat
    BY <2>1
  <2>3. m = Len(packetInfo.tempBuf) /\ next = Len(handled) + 1
    OBVIOUS
  <2> HIDE DEF m, next
  <2>4. /\ packetInfo.tempBuf = PacketBytes(next, m)
        /\ packetInfo.totalSize = m /\ packetInfo.open
        /\ packetInfo.dataSize = Len(sent[next]) - Header
    BY <2>1
  <2>5. packetInfo.open = TRUE
    BY <2>1
  <2>6. QED
    BY <1>1, <2>1, <2>2, <2>3, <2>4, <2>5
<1>4. QED
  BY <1>2, <1>3

\* A receive that returns bytes of one packet, and its header if it is new,
\* returns the next bytes of the next packet.
LEMMA ChunkOfNext ==
  ASSUME FramingInv, NEW n \in 1 .. Least(Len(wire), PacketSize),
         OnePacket(Front(wire, n))
  PROVE  LET next  == Len(handled) + 1
             come  == Len(packetInfo.tempBuf)
             chunk == Front(wire, n)
         IN  /\ n \in 1 .. Len(wire)
             /\ chunk \in Seq(Bytes) /\ Len(chunk) = n
             /\ \A k \in 1 .. n : chunk[k] = <<next, come + k>>
             /\ wire[n] = <<next, come + n>>
             /\ next \in 1 .. Len(sent) /\ come + n <= Len(sent[next])
             /\ come = 0 => n >= Header
<1> DEFINE next  == Len(handled) + 1
           come  == Len(packetInfo.tempBuf)
           chunk == Front(wire, n)
<1>1. wire \in Seq(Bytes) /\ Len(wire) \in Nat
  BY DEF FramingInv, WireContinues, InStream
<1>2. n \in 1 .. Len(wire) /\ n \in 0 .. Len(wire) /\ wire # <<>>
      /\ n \in 1 .. n /\ 1 \in 1 .. n
  BY <1>1, StreamAssumption DEF Least
<1>3. /\ chunk \in Seq(Bytes) /\ Len(chunk) = n
      /\ \A k \in 1 .. n : chunk[k] = wire[k]
  BY <1>1, <1>2, FrontBytes
<1>4. wire[1] = <<next, come + 1>>
  BY <1>2 DEF FramingInv, WireContinues, Due
<1>5. PacketOf(wire[1]) = next /\ Place(wire[1]) = come + 1
  BY <1>4 DEF PacketOf, Place
<1>6. come \in Nat /\ next \in Nat
  BY BufferLength
<1>7. OnePacket(chunk)
  OBVIOUS
<1> HIDE DEF chunk, next, come
<1>8. PacketOf(wire[1]) = PacketOf(wire[n])
      /\ (Place(wire[1]) = 1 => n >= Header)
  BY <1>2, <1>3, <1>7 DEF OnePacket
<1>9. \A k \in 1 .. n : wire[k] = <<next, come + k>>
  <2>1. \A k \in 1 .. n : wire[k] = <<next, (come + 1) + (k - 1)>>
    BY <1>2, <1>5, <1>8, ChunkOfOnePacket DEF FramingInv, WireContinues
  <2>2. \A k \in 1 .. n : (come + 1) + (k - 1) = come + k
    BY <1>6
  <2>3. QED
    BY <2>1, <2>2
<1>10. wire[n] = <<next, come + n>>
  BY <1>2, <1>9
<1>11. next \in 1 .. Len(sent) /\ come + n <= Len(sent[next])
  <2>1. PacketOf(wire[n]) \in 1 .. Len(Lengths)
        /\ Place(wire[n]) \in 1 .. Lengths[PacketOf(wire[n])]
    BY <1>2 DEF FramingInv, WireContinues, InStream
  <2>2. next \in 1 .. Len(Lengths) /\ come + n \in 1 .. Lengths[next]
    BY <1>10, <2>1 DEF PacketOf, Place
  <2>3. Len(Lengths) = Len(sent)
        /\ \A i \in 1 .. Len(sent) : Lengths[i] = Len(sent[i])
    BY SentPacket DEF FramingInv
  <2>4. QED
    BY <2>2, <2>3
<1>12. come = 0 => n >= Header
  BY <1>5, <1>6, <1>8
<1>13. QED
  BY <1>2, <1>3, <1>9, <1>10, <1>11, <1>12 DEF chunk, next, come

\* What the server takes the packet for that it is at, with its first chunk or
\* a later one: the right size and what has come of it.
LEMMA CurrentOfNext ==
  ASSUME FramingInv, NEW n \in 1 .. Least(Len(wire), PacketSize),
         OnePacket(Front(wire, n)), NEW info \in Current(Front(wire, n))
  PROVE  info = [open |-> TRUE,
                 dataSize |-> Len(sent[Len(handled) + 1]) - Header,
                 totalSize |-> Len(packetInfo.tempBuf),
                 tempBuf |-> packetInfo.tempBuf]
<1> DEFINE next  == Len(handled) + 1
           chunk == Front(wire, n)
<1>1. CASE packetInfo.open
  <2>1. info = packetInfo /\ packetInfo # NoPacket
    BY <1>1 DEF Current, NoPacket
  <2>2. packetInfo = [open |-> TRUE, dataSize |-> Len(sent[next]) - Header,
                      totalSize |-> Len(packetInfo.tempBuf),
                      tempBuf |-> PacketBytes(next, Len(packetInfo.tempBuf))]
    BY <2>1 DEF FramingInv, BufferOfNext
  <2>3. packetInfo.tempBuf = PacketBytes(next, Len(packetInfo.tempBuf))
    BY BufferLength
  <2>4. QED
    BY <2>1, <2>2, <2>3
<1>2. CASE ~packetInfo.open
  <2>1. packetInfo = NoPacket
    BY <1>2, BufferLength
  <2>2. packetInfo.tempBuf = <<>> /\ Len(packetInfo.tempBuf) = 0
    BY <2>1 DEF NoPacket
  <2>3. /\ Len(chunk) = n /\ n >= Header /\ 1 \in 1 .. n
        /\ chunk[1] = <<next, 1>> /\ next \in 1 .. Len(sent)
    <3>1. /\ Len(chunk) = n /\ n \in 1 .. Len(wire) /\ n >= Header
          /\ \A k \in 1 .. n : chunk[k] = <<next, 0 + k>>
          /\ next \in 1 .. Len(sent)
      BY <2>2, ChunkOfNext
    <3>2. 1 \in 1 .. n
      BY <3>1
    <3>3. QED
      BY <3>1, <3>2
  <2>4. PacketOf(chunk[1]) = next /\ Place(chunk[1]) = 1
    BY <2>3 DEF PacketOf, Place
  <2>5. DataSizes(chunk) = {Len(sent[next]) - Header}
    BY <2>3, <2>4 DEF DataSizes, SizeRead
  <2>6. info \in Opened(chunk)
    BY <1>2 DEF Current
  <2>7. QED
    BY <2>2, <2>5, <2>6 DEF Opened
<1>3. QED
  BY <1>1, <1>2, BufferLength

\* A receive is one of the next bytes of the next packet; no write goes past
\* tempBuf.
LEMMA ReceiveTakes ==
  ASSUME FramingInv, Paced, Receive PROVE \E n \in Nat : Takes(n)
<1>1. PICK n \in 1 .. Least(Len(wire), PacketSize) :
        /\ OnePacket(Front(wire, n)) /\ wire' = Rest(wire, n)
        /\ UNCHANGED <<sent, unsent, reset>>
        /\ \E info \in Current(Front(wire, n)) :
             LET open == info.totalSize < Expected(info)
                 over == open /\ info.totalSize + n > Expected(info)
             IN  /\ Deliver(IF open THEN Added(info, Front(wire, n)) ELSE info)
                 /\ up' \in IF over THEN BOOLEAN ELSE {TRUE}
  BY DEF Receive
<1> DEFINE next  == Len(handled) + 1
           come  == Len(packetInfo.tempBuf)
           chunk == Front(wire, n)
           size  == Len(sent[next])
           buf   == packetInfo.tempBuf
<1>2. /\ n \in 1 .. Len(wire) /\ n \in Nat
      /\ chunk \in Seq(Bytes) /\ Len(chunk) = n
      /\ \A k \in 1 .. n : chunk[k] = <<next, come + k>>
      /\ wire[n] = <<next, come + n>>
      /\ next \in 1 .. Len(sent) /\ come + n <= size
  BY <1>1, ChunkOfNext
<1>3. /\ size \in Nat /\ sent[next] = PacketBytes(next, size)
      /\ Header \in Nat /\ come \in Nat /\ next \in Nat
      /\ buf = PacketBytes(next, come)
  BY <1>2, SentPacket, BufferLength, StreamAssumption DEF FramingInv
<1>4. PICK info \in Current(chunk) :
        LET open == info.totalSize < Expected(info)
            over == open /\ info.totalSize + n > Expected(info)
        IN  /\ Deliver(IF open THEN Added(info, chunk) ELSE info)
            /\ up' \in IF over THEN BOOLEAN ELSE {TRUE}
  BY <1>1
<1>5. info = [open |-> TRUE, dataSize |-> size - Header, totalSize |-> come,
              tempBuf |-> buf]
  BY <1>1, CurrentOfNext
<1> HIDE DEF next, come, chunk, size, buf
<1>6. buf \o chunk = PacketBytes(next, come + n)
  <2>1. PacketBytes(next, come) \o chunk = PacketBytes(next, come + n)
    BY <1>2, <1>3, AddToPacket, ZenonT(40)
  <2>2. QED
    BY <1>3, <2>1
<1>7. Front(chunk, n) = chunk
  BY <1>2, SubSeqFull DEF Front
<1>8. info.totalSize = come /\ info.tempBuf = buf /\ Expected(info) = size
  BY <1>3, <1>5 DEF Expected
<1>9. come < size /\ ~(come + n > size)
  BY <1>2, <1>3
<1>10. Deliver(Added(info, chunk)) /\ up' = TRUE
  BY <1>4, <1>8, <1>9
<1>11. Added(info, chunk) = [open |-> TRUE, dataSize |-> size - Header,
                             totalSize |-> come + n,
                             tempBuf |-> PacketBytes(next, come + n)]
  <2>1. Least(size - come, n) = n
    BY <1>2, <1>3 DEF Least
  <2>2. Added(info, chunk) = [info EXCEPT !.totalSize = @ + n,
                                          !.tempBuf = @ \o Front(chunk, n)]
    BY <1>2, <1>8, <2>1 DEF Added
  <2>3. QED
    BY <1>5, <1>6, <1>7, <2>2
<1>12. Expected(Added(info, chunk)) = size
  BY <1>3, <1>11 DEF Expected
<1>13. IF come + n = size
       THEN handled' = Append(handled, sent[next]) /\ packetInfo' = NoPacket
       ELSE /\ UNCHANGED handled
            /\ packetInfo' = [open |-> TRUE, dataSize |-> size - Header,
                              totalSize |-> come + n,
                              tempBuf |-> PacketBytes(next, come + n)]
  BY <1>3, <1>10, <1>11, <1>12, SMTT(30) DEF Deliver
<1>14. Takes(n)
  BY <1>1, <1>2, <1>10, <1>13 DEF Takes, FramingInv, next, come, size
<1>15. QED
  BY <1>2, <1>14

\* A receive leaves the rest of what is under way to be continued with.
LEMMA TakesFraming ==
  ASSUME FramingInv, NEW n \in Nat, Takes(n) PROVE FramingInv'
<1> DEFINE next == Len(handled) + 1
           come == Len(packetInfo.tempBuf) + n
           size == Len(sent[next])
           rest == Rest(wire, n)
           dueNext == IF come = size THEN <<next + 1, 1>> ELSE <<next, come + 1>>
<1>1. /\ n \in 1 .. Len(wire) /\ wire[n] = <<next, come>>
      /\ next \in 1 .. Len(sent) /\ come <= size
      /\ wire' = rest
      /\ UNCHANGED <<sent, unsent, reset, up>>
      /\ IF come = size
         THEN handled' = Append(handled, sent[next]) /\ packetInfo' = NoPacket
         ELSE /\ UNCHANGED handled
              /\ packetInfo' = [open |-> TRUE, dataSize |-> size - Header,
                                totalSize |-> come,
                                tempBuf |-> PacketBytes(next, come)]
  BY DEF Takes
<1>2. /\ handled \in Seq(Seq(Bytes)) /\ Len(handled) \in Nat
      /\ sent \in Seq(Seq(Bytes)) /\ sent[next] \in Seq(Bytes)
  BY <1>1 DEF FramingInv, BufferOfNext, PacketsSent
<1> HIDE DEF next, come, size
<1>3. Append(handled, sent[next]) \in Seq(Seq(Bytes))
       /\ Len(Append(handled, sent[next])) = Len(handled) + 1
  BY <1>2, AppendProperties
<1>4. /\ next \in Nat /\ come \in Nat /\ size \in Nat /\ 1 <= come
      /\ next = Len(handled) + 1
  <2>1. n \in Nat /\ n >= 1
    BY <1>1
  <2>2. Len(packetInfo.tempBuf) \in Nat
    BY BufferLength
  <2>3. size \in Nat
    BY <1>2 DEF size
  <2>4. QED
    BY <1>2, <2>1, <2>2, <2>3 DEF next, come
<1>5. wire \in Seq(Bytes) /\ unsent \in Seq(Bytes) /\ Len(wire) \in Nat
      /\ n \in 0 .. Len(wire) /\ wire # <<>>
  BY <1>1 DEF FramingInv, WireContinues, NothingLost, InStream
<1>6. /\ rest \in Seq(Bytes) /\ Len(rest) = Len(wire) - n
      /\ \A k \in 1 .. Len(wire) - n : rest[k] = wire[n + k]
  BY <1>5, RestBytes
<1>7. Lengths' = Lengths /\ LastByte' = LastByte
      /\ Lengths[next] = size /\ next \in 1 .. Len(Lengths)
      /\ Len(Lengths) = Len(sent)
  BY <1>1, SentPacket DEF FramingInv, Lengths, LastByte, size
<1>8. Due' = dueNext
  <2>1. CASE come = size
    <3>1. Len(handled') = next /\ packetInfo'.tempBuf = <<>>
      BY <1>1, <1>4, <1>3, <2>1 DEF NoPacket
    <3>2. QED
      BY <2>1, <3>1 DEF Due
  <2>2. CASE come # size
    <3>1. /\ handled' = handled
          /\ packetInfo'.tempBuf = PacketBytes(next, come)
      BY <1>1, <2>2
    <3>2. Len(PacketBytes(next, come)) = come
      BY <1>4, BytesOfPacket
    <3>3. QED
      BY <1>4, <2>2, <3>1, <3>2 DEF Due
  <2>3. QED
    BY <2>1, <2>2
<1>9. After(wire[n], Lengths) = dueNext
  <2>1. PacketOf(wire[n]) = next /\ Place(wire[n]) = come
    BY <1>1 DEF PacketOf, Place
  <2>2. come < size <=> come # size
    BY <1>1, <1>4
  <2>3. QED
    BY <1>7, <2>1, <2>2 DEF After
<1>10. BufferOfNext'
  <2>1. CASE come = size
    <3>1. handled' \in Seq(Seq(Bytes)) /\ packetInfo' = NoPacket
      BY <1>1, <1>3, <2>1
    <3>2. QED
      BY <3>1 DEF BufferOfNext
  <2>2. CASE come # size
    <3>1. /\ handled' = handled /\ sent' = sent
          /\ packetInfo' = [open |-> TRUE, dataSize |-> size - Header,
                            totalSize |-> come,
                            tempBuf |-> PacketBytes(next, come)]
      BY <1>1, <2>2
    <3>2. Len(PacketBytes(next, come)) = come
      BY <1>4, BytesOfPacket
    <3>3. come \in 1 .. size - 1
      BY <1>1, <1>4, <2>2
    <3>4. /\ Len(handled') + 1 = next /\ Len(packetInfo'.tempBuf) = come
          /\ Len(sent'[next]) = size
      BY <1>4, <3>1, <3>2 DEF size
    <3>5. QED
      BY <1>1, <1>2, <3>1, <3>3, <3>4 DEF BufferOfNext
  <2>3. QED
    BY <2>1, <2>2
<1> HIDE DEF rest, dueNext
<1>11. WireContinues'
  <2>1. InStream(rest, Lengths)
    BY <1>5, RestInStream DEF FramingInv, WireContinues, rest
  <2>2. ASSUME rest # <<>> PROVE rest[1] = dueNext
    <3>1. Len(rest) # 0
      BY <1>6, <2>2
    <3>2. 1 \in 1 .. Len(wire) - n /\ n \in 1 .. Len(wire) - 1
      BY <1>1, <1>5, <1>6, <3>1
    <3>3. wire[n + 1] = After(wire[n], Lengths)
      BY <3>2 DEF FramingInv, WireContinues, InStream
    <3>4. QED
      BY <1>6, <1>9, <3>2, <3>3
  <2>3. QED
    BY <1>1, <1>7, <1>8, <2>1, <2>2 DEF WireContinues
<1>12. NothingLost'
  <2> SUFFICES ASSUME ~reset
               PROVE  LET line == rest \o unsent
                      IN  /\ InStream(line, Lengths)
                          /\ line # <<>> => /\ line[1] = dueNext
                                            /\ line[Len(line)] = LastByte
                          /\ line = <<>> => dueNext = <<Len(sent) + 1, 1>>
    BY <1>1, <1>5, <1>7, <1>8 DEF NothingLost
  <2> DEFINE line == wire \o unsent
             left == Rest(line, n)
  <2>1. /\ line \in Seq(Bytes) /\ Len(line) = Len(wire) + Len(unsent)
        /\ line # <<>> /\ Len(line) \in Nat /\ n \in 1 .. Len(line)
        /\ line[n] = wire[n]
    <3>1. /\ line \in Seq(Bytes) /\ Len(line) = Len(wire) + Len(unsent)
          /\ \A k \in 1 .. Len(wire) + Len(unsent) :
               line[k] = IF k <= Len(wire) THEN wire[k] ELSE unsent[k - Len(wire)]
      BY <1>5, ConcatProperties
    <3>2. Len(unsent) \in Nat
      BY <1>5
    <3>3. n \in 1 .. Len(wire) + Len(unsent) /\ n <= Len(wire)
      BY <1>1, <1>5, <3>2
    <3>4. Len(line) # 0
      BY <1>1, <1>5, <3>1, <3>2
    <3>5. QED
      BY <1>5, <3>1, <3>2, <3>3, <3>4
  <2>2. /\ InStream(line, Lengths) /\ line[Len(line)] = LastByte
    BY <2>1 DEF FramingInv, NothingLost
  <2>3. rest \o unsent = left
    BY <1>5, RestOfJoin DEF rest
  <2> HIDE DEF line
  <2>4. n \in 0 .. Len(line)
    BY <2>1
  <2>5. /\ left \in Seq(Bytes) /\ Len(left) = Len(line) - n
        /\ \A k \in 1 .. Len(line) - n : left[k] = line[n + k]
    BY <2>1, <2>4, RestBytes
  <2>6. InStream(left, Lengths)
    BY <2>2, <2>4, RestInStream
  <2> HIDE DEF left
  <2>7. ASSUME left # <<>>
        PROVE  left[1] = dueNext /\ left[Len(left)] = LastByte
    <3>1. Len(left) # 0
      BY <2>5, <2>7
    <3>2. /\ 1 \in 1 .. Len(line) - n /\ Len(line) - n \in 1 .. Len(line) - n
          /\ n \in 1 .. Len(line) - 1 /\ n + (Len(line) - n) = Len(line)
      BY <1>1, <2>1, <2>5, <3>1
    <3>3. line[n + 1] = After(line[n], Lengths)
      BY <2>2, <3>2 DEF InStream
    <3>4. QED
      BY <1>9, <2>1, <2>2, <2>5, <3>2, <3>3
  <2>8. ASSUME left = <<>> PROVE dueNext = <<Len(sent) + 1, 1>>
    <3>1. Len(left) = 0
      BY <2>8
    <3>2. n = Len(line)
      BY <2>1, <2>5, <3>1
    <3>3. <<next, come>> = LastByte
      BY <1>1, <2>1, <2>2, <3>2
    <3>4. next = Len(sent) /\ come = size
      BY <3>3 DEF LastByte, size
    <3>5. QED
      BY <3>4 DEF dueNext
  <2>9. QED
    BY <2>3, <2>6, <2>7, <2>8
<1>13. PacketsSent' /\ up'
  BY <1>1 DEF FramingInv, PacketsSent
<1>14. QED
  BY <1>10, <1>11, <1>12, <1>13 DEF FramingInv

\* Every step keeps the invariant.
LEMMA NextFraming == Paced /\ FramingInv /\ [Next]_framingVars => FramingInv'
<1> SUFFICES ASSUME Paced, FramingInv, [Next]_framingVars PROVE FramingInv'
  OBVIOUS
<1>1. CASE UNCHANGED framingVars
  BY <1>1 DEF framingVars, FramingInv, PacketsSent, BufferOfNext, WireContinues,
              NothingLost, Lengths, Due, LastByte
<1>2. CASE Receive
  BY <1>2, ReceiveTakes, TakesFraming
<1>3. QED
  BY <1>1, <1>2, SendPacketFraming, SendChunkFraming, LossFraming DEF Next

\* The packet being put together and what comes after it are one piece of the
\* stream.
LEMMA AssemblyOfInv == FramingInv => Assembly
<1> SUFFICES ASSUME FramingInv PROVE Assembly
  OBVIOUS
<1> DEFINE next  == Len(handled) + 1
           buf   == packetInfo.tempBuf
           m     == Len(buf)
           line  == wire \o unsent
           bytes == buf \o line
<1>1. /\ next \in Nat /\ m \in Nat /\ buf = PacketBytes(next, m)
      /\ packetInfo.totalSize = m
  BY BufferLength
<1> HIDE DEF next, buf, m
<1>2. buf \in Seq(Bytes) /\ \A k \in 1 .. m : buf[k] = <<next, k>>
  BY <1>1, BytesOfPacket
<1>3. /\ wire \in Seq(Bytes) /\ unsent \in Seq(Bytes)
      /\ line \in Seq(Bytes)
  BY ConcatProperties DEF FramingInv, NothingLost, WireContinues, InStream
<1>4. (buf \o wire) \o unsent = bytes
  <2>1. \A t, u \in Seq(Bytes) : (buf \o t) \o u = buf \o (t \o u)
    BY <1>2, ConcatAssociative
  <2>2. QED
    BY <1>3, <2>1
<1>5. ASSUME ~reset, bytes # <<>>
      PROVE  bytes[1] = <<next, 1>> /\ InStream(bytes, Lengths)
  <2>1. InStream(line, Lengths) /\ (line # <<>> => line[1] = Due)
    BY <1>5 DEF FramingInv, NothingLost
  <2>2. Due = <<next, m + 1>>
    BY DEF Due, next, buf, m
  <2>3. CASE buf = <<>>
    <3>1. m = 0
      BY <2>3 DEF m
    <3>2. bytes = line
      BY <1>2, <1>3, <2>3, EndsOfJoin
    <3>3. QED
      BY <1>5, <2>1, <2>2, <3>1, <3>2
  <2>4. CASE buf # <<>>
    <3>1. m # 0
      BY <1>2, <2>4 DEF m
    <3>2. next \in 1 .. Len(sent) /\ m \in 1 .. Len(sent[next]) - 1
      BY <2>4 DEF FramingInv, BufferOfNext, NoPacket, next, buf, m
    <3>3. /\ Lengths \in Seq(Nat) /\ next \in 1 .. Len(Lengths)
          /\ Lengths[next] = Len(sent[next]) /\ Len(sent[next]) \in Nat
      BY <3>2, SentPacket DEF FramingInv
    <3>4. m \in 0 .. Lengths[next] /\ m < Lengths[next]
          /\ 1 \in 1 .. m /\ m \in 1 .. m
      BY <1>1, <3>1, <3>2, <3>3
    <3> HIDE DEF line
    <3>5. InStream(buf, Lengths)
      BY <1>1, <3>3, <3>4, PacketInStream
    <3>6. PacketOf(buf[m]) = next /\ Place(buf[m]) = m
      BY <1>2, <3>4 DEF PacketOf, Place
    <3>7. After(buf[m], Lengths) = <<next, m + 1>>
      BY <3>4, <3>6 DEF After
    <3>8. m = Len(buf)
      BY DEF m
    <3>9. line # <<>> => line[1] = After(buf[Len(buf)], Lengths)
      BY <2>1, <2>2, <3>7, <3>8
    <3>10. InStream(bytes, Lengths)
      BY <2>1, <3>5, <3>9, JoinInStream
    <3>11. bytes[1] = buf[1]
      BY <1>2, <1>3, <2>4, EndsOfJoin
    <3>12. QED
      BY <1>2, <3>4, <3>10, <3>11
  <2>5. QED
    BY <2>3, <2>4
<1> HIDE DEF line, bytes
<1>6. ASSUME InStream(bytes, Lengths)
      PROVE  Continuous(bytes, LAMBDA i : Len(sent[i]))
  <2>1. /\ Len(Lengths) = Len(sent)
        /\ \A i \in 1 .. Len(sent) : Lengths[i] = Len(sent[i])
    BY SentPacket DEF FramingInv
  <2>2. bytes \in Seq(Bytes) /\ Len(bytes) \in Nat
    BY <1>6 DEF InStream
  <2>3. ASSUME NEW k \in 1 .. Len(bytes) - 1
        PROVE  bytes[k + 1] = IF Place(bytes[k]) < Len(sent[PacketOf(bytes[k])])
                              THEN <<PacketOf(bytes[k]), Place(bytes[k]) + 1>>
                              ELSE <<PacketOf(bytes[k]) + 1, 1>>
    <3>1. k \in 1 .. Len(bytes)
      BY <2>2
    <3>2. PacketOf(bytes[k]) \in 1 .. Len(sent)
      BY <1>6, <2>1, <3>1 DEF InStream
    <3>3. bytes[k + 1] = After(bytes[k], Lengths)
      BY <1>6 DEF InStream
    <3>4. QED
      BY <2>1, <3>2, <3>3 DEF After
  <2>4. QED
    BY <2>3 DEF Continuous
<1>7. QED
  BY <1>1, <1>4, <1>5, <1>6 DEF Assembly, next, buf, m

\* What the server has of a packet, and what is on its way to it, is at any time
\* one piece of what the client sent: Assembly of the runs.
THEOREM PacketsAssembled == Paced => (Spec => []Assembly)
<1> SUFFICES ASSUME Paced PROVE Spec => []Assembly
  OBVIOUS
<1>1. FramingInv /\ [Next]_framingVars => FramingInv'
  BY NextFraming
<1>2. QED
  BY <1>1, InitFraming, AssemblyOfInv, PTL DEF Spec

-----------------------------------------------------------------------------
(* ProcessPacket gets the packets of PacketStream.                          *)

\* The next packet is sent: one that PacketStream may send.
LEMMA SendPacketMaps ==
  ASSUME FramingInv, SendPacket PROVE Stream!Send
<1>1. PICK size \in Sizes :
        sent' = Append(sent, PacketBytes(Len(sent) + 1, Header + size))
  BY DEF SendPacket
<1>2. Len(sent) \in Nat /\ Len(sent) < MaxPackets /\ MaxPackets \in Nat
      /\ UNCHANGED handled
  BY StreamAssumption DEF SendPacket, FramingInv, PacketsSent
<1>3. Len(sent) + 1 \in 1 .. MaxPackets
  BY <1>2
<1>4. PacketBytes(Len(sent) + 1, Header + size)
        \in {PacketBytes(i, Header + s) : i \in 1 .. MaxPackets, s \in Sizes}
  BY <1>3
<1>5. QED
  BY <1>1, <1>2, <1>4 DEF Stream!Send

\* A receive hands on the packet that is next, or nothing.
LEMMA TakesMaps ==
  ASSUME FramingInv, NEW n \in Nat, Takes(n)
  PROVE  Stream!Handle \/ UNCHANGED <<sent, handled>>
<1>1. Len(handled) \in Nat /\ Len(sent) \in Nat
  BY BufferLength DEF FramingInv, PacketsSent
<1>2. Len(handled) + 1 \in 1 .. Len(sent) /\ UNCHANGED sent
      /\ handled' \in {handled, Append(handled, sent[Len(handled) + 1])}
  BY DEF Takes
<1>3. Len(handled) < Len(sent)
  BY <1>1, <1>2
<1>4. QED
  BY <1>2, <1>3 DEF Stream!Handle

LEMMA NextMaps ==
  Paced /\ FramingInv /\ [Next]_framingVars
    => [Stream!Next]_(Stream!streamVars)
<1> SUFFICES ASSUME Paced, FramingInv, [Next]_framingVars
             PROVE  Stream!Next \/ UNCHANGED <<sent, handled>>
  BY DEF Stream!streamVars
<1>1. CASE SendPacket
  BY <1>1, SendPacketMaps DEF Stream!Next
<1>2. CASE SendChunk \/ SendFails \/ Reset \/ UNCHANGED framingVars
  BY <1>2 DEF SendChunk, SendFails, Reset, framingVars
<1>3. CASE Receive
  BY <1>3, ReceiveTakes, TakesMaps DEF Stream!Next
<1>4. QED
  BY <1>1, <1>2, <1>3 DEF Next

LEMMA InitMaps == Init => Stream!Init
BY DEF Init, Stream!Init

\* ProcessPacket is called with the packets the client gave to Send, each whole,
\* once and in that order: IsPacketStream of the runs.
THEOREM FramingIsStream == Paced => (Spec => IsPacketStream)
<1> SUFFICES ASSUME Paced PROVE Spec => IsPacketStream
  OBVIOUS
<1>1. FramingInv /\ [Next]_framingVars => FramingInv'
  BY NextFraming
<1>2. FramingInv /\ [Next]_framingVars
        => [Stream!Next]_(Stream!streamVars)
  BY NextMaps
<1>3. QED
  BY <1>1, <1>2, InitFraming, InitMaps, PTL DEF Spec, IsPacketStream, Stream!Spec
=============================================================================
