----------------------------- MODULE ByteStream -----------------------------
(***************************************************************************)
(* Packets as bytes, for both ends of a connection.  A byte is <<i, j>>,   *)
(* the j-th of the i-th packet sent.  A packet is its type (1 byte), the   *)
(* size of its data (sizeof(size_t) bytes, the lowest first) and the data. *)
(***************************************************************************)
EXTENDS Integers, Sequences

CONSTANTS
  Header,      \* 1 + sizeof(size_t)
  Base,        \* values of a byte
  PacketSize,  \* PACKET_SIZE, the most a receive returns and a send takes
  Sizes,       \* sizes of the data of a packet
  MaxPackets   \* bound: packets sent

ASSUME StreamAssumption ==
  /\ Header \in Nat \ {0, 1} /\ Base \in Nat \ {0, 1}
  /\ PacketSize \in Nat /\ PacketSize >= Header
  /\ Sizes \subseteq 0 .. Base ^ (Header - 1) - 1
  /\ MaxPackets \in Nat

Least(m, n) == IF m < n THEN m ELSE n
Front(bytes, n) == SubSeq(bytes, 1, n)
Rest(bytes, n) == SubSeq(bytes, n + 1, Len(bytes))

PacketBytes(i, length) == [j \in 1 .. length |-> <<i, j>>]
PacketOf(byte) == byte[1]
Place(byte) == byte[2]

\* The size a receiver reads from the first n bytes of a packet; the bytes of
\* the header that have not come are zeros, as both clear their buffer.
SizeRead(size, n) == IF n >= Header THEN size ELSE size % (Base ^ (n - 1))

\* Each byte but the last is followed by the next of its packet, or by the
\* first of the next packet.
Continuous(bytes, Length(_)) ==
  \A k \in 1 .. Len(bytes) - 1 :
    bytes[k + 1] = IF Place(bytes[k]) < Length(PacketOf(bytes[k]))
                   THEN <<PacketOf(bytes[k]), Place(bytes[k]) + 1>>
                   ELSE <<PacketOf(bytes[k]) + 1, 1>>
=============================================================================
