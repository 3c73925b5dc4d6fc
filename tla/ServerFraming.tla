--------------------------- MODULE ServerFraming ----------------------------
(***************************************************************************)
(* From a client's packets to the server's ProcessPacket, byte by byte:    *)
(* Client::Send (Server::Send is the same loop), TCP, and how WorkerThread *)
(* of Server.cpp puts packets together from what its receives return.      *)
(***************************************************************************)
EXTENDS ByteStream

CONSTANT Paced  \* TRUE: no receive returns bytes of two packets, or less than
                \* the header of one
ASSUME PacedAssumption == Paced \in BOOLEAN

VARIABLES
  sent,        \* the packets sent
  unsent,      \* what the loop of Client::Send has still to send
  wire,        \* bytes on their way
  reset,       \* the connection has been reset
  packetInfo,  \* the packet being put together
  handled,     \* what ProcessPacket was called with
  up           \* FALSE once a write past tempBuf ended the process

framingVars == <<sent, unsent, wire, reset, packetInfo, handled, up>>

NoPacket == [open |-> FALSE, dataSize |-> 0, totalSize |-> 0, tempBuf |-> <<>>]

Init == /\ sent = <<>> /\ unsent = <<>> /\ wire = <<>>
        /\ reset = FALSE /\ packetInfo = NoPacket /\ handled = <<>> /\ up = TRUE

-----------------------------------------------------------------------------
(* The client: one thread sends.  A send on its blocking socket takes all  *)
(* it is given, or fails and returns -1 once the connection is reset.      *)

SendPacket ==
  /\ unsent = <<>> /\ Len(sent) < MaxPackets
  /\ \E size \in Sizes :
       LET packet == PacketBytes(Len(sent) + 1, Header + size)
       IN  sent' = Append(sent, packet) /\ unsent' = packet
  /\ UNCHANGED <<wire, reset, packetInfo, handled, up>>

\* At most PACKET_SIZE bytes at a time.
SendChunk ==
  /\ unsent # <<>> /\ ~reset
  /\ LET n == Least(Len(unsent), PacketSize)
     IN  /\ wire' = wire \o Front(unsent, n)
         /\ unsent' = Rest(unsent, n)
  /\ UNCHANGED <<sent, reset, packetInfo, handled, up>>

\* Sent in one piece, or by the loop over chunks.
Small(packet) == Len(packet) <= PacketSize

\* Mutant of SendFails: the sum of what was sent is compared as a signed number.
SendFailsSigned ==
  /\ unsent # <<>> /\ reset
  /\ UNCHANGED framingVars

\* The sum of the first loop is compared as a size_t: -1 is more than any size.
\* The second takes -1 from what is left, which is therefore never zero.
SendFails ==
  /\ unsent # <<>> /\ reset
  /\ unsent' = IF Small(sent[Len(sent)]) THEN <<>> ELSE unsent
  /\ UNCHANGED <<sent, wire, reset, packetInfo, handled, up>>

\* What is under way may be lost with the connection.
Reset ==
  /\ ~reset /\ reset' = TRUE
  /\ wire' \in {wire, <<>>}
  /\ UNCHANGED <<sent, unsent, packetInfo, handled, up>>

-----------------------------------------------------------------------------
(* The server.                                                             *)

\* The size a new packet is taken to have, from its first chunk: what its
\* header says, or anything when the chunk does not begin with a header.
DataSizes(chunk) ==
  IF Place(chunk[1]) = 1
  THEN {SizeRead(Len(sent[PacketOf(chunk[1])]) - Header, Len(chunk))}
  ELSE Sizes

Opened(chunk) ==
  {[open |-> TRUE, dataSize |-> size, totalSize |-> 0, tempBuf |-> <<>>] :
     size \in DataSizes(chunk)}

\* The first receive of a packet reads its header; the others only add to it.
Current(chunk) == IF packetInfo.open THEN {packetInfo} ELSE Opened(chunk)

Expected(info) == Header + info.dataSize

\* Mutant of Added: pos is not advanced.
AddedAtStart(info, chunk) ==
  [info EXCEPT !.totalSize = @ + Len(chunk),
               !.tempBuf = Front(chunk, Least(Expected(info), Len(chunk)))]

\* What goes past the end of tempBuf is not part of it.
Added(info, chunk) ==
  LET fits == Least(Expected(info) - info.totalSize, Len(chunk))
  IN  [info EXCEPT !.totalSize = @ + Len(chunk),
                   !.tempBuf = @ \o Front(chunk, fits)]

\* Mutants of Deliver: InitializePacketInfo is not called; the packet is taken
\* as complete without its header.
DeliverNoReset(info) ==
  IF info.totalSize = Expected(info)
  THEN handled' = Append(handled, info.tempBuf) /\ packetInfo' = info
  ELSE UNCHANGED handled /\ packetInfo' = info

DeliverDataOnly(info) ==
  IF info.totalSize = info.dataSize
  THEN handled' = Append(handled, info.tempBuf) /\ packetInfo' = NoPacket
  ELSE UNCHANGED handled /\ packetInfo' = info

\* ProcessPacket and InitializePacketInfo once the packet is complete.
Deliver(info) ==
  IF info.totalSize = Expected(info)
  THEN handled' = Append(handled, info.tempBuf) /\ packetInfo' = NoPacket
  ELSE UNCHANGED handled /\ packetInfo' = info

OnePacket(chunk) == /\ PacketOf(chunk[1]) = PacketOf(chunk[Len(chunk)])
                    /\ Place(chunk[1]) = 1 => Len(chunk) >= Header

\* A completion, its handling and the next receive.  A packet that has more
\* bytes than its size says takes no more: the receive is dropped.  A copy
\* past the end of tempBuf is undefined: it is cut, or the process ends.
Receive ==
  \E n \in 1 .. Least(Len(wire), PacketSize) :
    LET chunk == Front(wire, n) IN
    /\ Paced => OnePacket(chunk)
    /\ wire' = Rest(wire, n)
    /\ \E info \in Current(chunk) :
         LET open == info.totalSize < Expected(info)
             over == open /\ info.totalSize + n > Expected(info)
         IN  /\ Deliver(IF open THEN Added(info, chunk) ELSE info)
             /\ up' \in IF over THEN BOOLEAN ELSE {TRUE}
    /\ UNCHANGED <<sent, unsent, reset>>

Next == up /\ (SendPacket \/ SendChunk \/ SendFails \/ Reset \/ Receive)

Spec == /\ Init /\ [][Next]_framingVars
        /\ WF_framingVars(up /\ SendChunk) /\ WF_framingVars(up /\ SendFails)
        /\ WF_framingVars(up /\ Receive)

-----------------------------------------------------------------------------
\* The packet being put together is a prefix of the next one to handle, and
\* what is under way on an open connection continues it: nothing is lost between
\* two receives.
Assembly ==
  LET next  == Len(handled) + 1
      buf   == packetInfo.tempBuf
      bytes == buf \o wire \o unsent
  IN  /\ buf = PacketBytes(next, Len(buf))
      /\ packetInfo.totalSize = Len(buf)
      /\ ~reset /\ bytes # <<>> =>
           bytes[1] = <<next, 1>> /\ Continuous(bytes, LAMBDA i : Len(sent[i]))

\* ProcessPacket gets the packets the client sent, whole and in order.
Stream == INSTANCE PacketStream WITH
            Packets <- {PacketBytes(i, Header + size) :
                          i \in 1 .. MaxPackets, size \in Sizes},
            Phantoms <- {},
            closed <- FALSE
IsPacketStream == Stream!Spec

\* Every packet a client sends is handled, unless the connection is lost.
Handled(i) == \E k \in DOMAIN handled : i <= Len(sent) /\ handled[k] = sent[i]
PacketsHandled ==
  \A i \in 1 .. MaxPackets : i <= Len(sent) ~> Handled(i) \/ reset \/ ~up

\* Every call of Send returns, also one that the connection is lost under,
\* unless its packet is larger than PACKET_SIZE.
SendsEnd ==
  unsent # <<>>
    ~> unsent = <<>> \/ (reset /\ ~Small(sent[Len(sent)])) \/ ~up
=============================================================================
