-------------------------- MODULE ByteStreamProofs --------------------------
(***************************************************************************)
(* Lemmas about the bytes of packets, for the proofs of both ends of a     *)
(* connection: what cutting and joining do to a piece of a stream.         *)
(***************************************************************************)
EXTENDS ByteStream, SequenceTheorems, TLAPS

Bytes == Nat \X Nat

\* The byte after b in a stream of packets of these lengths.
After(b, lengths) == IF Place(b) < lengths[PacketOf(b)]
                     THEN <<PacketOf(b), Place(b) + 1>>
                     ELSE <<PacketOf(b) + 1, 1>>

\* A piece of the stream of packets of these lengths.  That packets come in
\* order and bytes of one packet side by side follows from the last conjunct by
\* induction; as a conjunct it needs none.
InStream(bytes, lengths) ==
  /\ bytes \in Seq(Bytes)
  /\ \A k \in 1 .. Len(bytes) :
       /\ PacketOf(bytes[k]) \in 1 .. Len(lengths)
       /\ Place(bytes[k]) \in 1 .. lengths[PacketOf(bytes[k])]
  /\ \A k, l \in 1 .. Len(bytes) : k <= l =>
       /\ PacketOf(bytes[k]) <= PacketOf(bytes[l])
       /\ PacketOf(bytes[k]) = PacketOf(bytes[l])
            => Place(bytes[l]) = Place(bytes[k]) + (l - k)
  /\ \A k \in 1 .. Len(bytes) - 1 : bytes[k + 1] = After(bytes[k], lengths)

\* What Front and Rest return.
LEMMA FrontBytes ==
  ASSUME NEW S, NEW bytes \in Seq(S), NEW n \in 0 .. Len(bytes)
  PROVE  /\ Front(bytes, n) \in Seq(S) /\ Len(Front(bytes, n)) = n
         /\ \A k \in 1 .. n : Front(bytes, n)[k] = bytes[k]
<1>1. \A k \in 1 .. n : bytes[k] \in S
  OBVIOUS
<1>2. QED
  BY <1>1, SubSeqProperties DEF Front

LEMMA RestBytes ==
  ASSUME NEW S, NEW bytes \in Seq(S), NEW n \in 0 .. Len(bytes)
  PROVE  /\ Rest(bytes, n) \in Seq(S) /\ Len(Rest(bytes, n)) = Len(bytes) - n
         /\ \A k \in 1 .. Len(bytes) - n : Rest(bytes, n)[k] = bytes[n + k]
<1>1. Len(bytes) \in Nat /\ \A k \in n + 1 .. Len(bytes) : bytes[k] \in S
  OBVIOUS
<1>2. /\ SubSeq(bytes, n + 1, Len(bytes)) \in Seq(S)
      /\ Len(SubSeq(bytes, n + 1, Len(bytes)))
           = IF n + 1 <= Len(bytes) THEN Len(bytes) - (n + 1) + 1 ELSE 0
      /\ \A k \in 1 .. Len(bytes) - (n + 1) + 1 :
           SubSeq(bytes, n + 1, Len(bytes))[k] = bytes[n + 1 + k - 1]
  BY <1>1, SubSeqProperties
<1>3. QED
  BY <1>1, <1>2 DEF Rest

\* Cutting a sequence in two loses nothing.
LEMMA FrontAndRest ==
  ASSUME NEW S, NEW bytes \in Seq(S), NEW n \in 0 .. Len(bytes)
  PROVE  Front(bytes, n) \o Rest(bytes, n) = bytes
<1>1. 1 \in 1 .. Len(bytes) + 1 /\ n \in 1 - 1 .. Len(bytes)
      /\ Len(bytes) \in n .. Len(bytes)
  OBVIOUS
<1>2. SubSeq(bytes, 1, n) \o SubSeq(bytes, n + 1, Len(bytes))
        = SubSeq(bytes, 1, Len(bytes))
  BY <1>1, ConcatAdjacentSubSeq
<1>3. QED
  BY <1>2, SubSeqFull DEF Front, Rest

\* What is taken off the first of two joined sequences is taken off the whole.
LEMMA RestOfJoin ==
  ASSUME NEW S, NEW bytes \in Seq(S), NEW more \in Seq(S),
         NEW n \in 0 .. Len(bytes)
  PROVE  Rest(bytes, n) \o more = Rest(bytes \o more, n)
<1> DEFINE rest  == Rest(bytes, n)
           whole == bytes \o more
<1>1. rest \in Seq(S) /\ Len(rest) = Len(bytes) - n
      /\ \A k \in 1 .. Len(bytes) - n : rest[k] = bytes[n + k]
  BY RestBytes
<1>2. whole \in Seq(S) /\ Len(whole) = Len(bytes) + Len(more)
      /\ \A k \in 1 .. Len(bytes) + Len(more) :
           whole[k] = IF k <= Len(bytes) THEN bytes[k] ELSE more[k - Len(bytes)]
  BY ConcatProperties
<1>3. Len(bytes) \in Nat /\ Len(more) \in Nat /\ n \in Nat /\ n <= Len(bytes)
  OBVIOUS
<1>4. Rest(bytes \o more, n) = Rest(whole, n)
  OBVIOUS
<1> HIDE DEF rest, whole
<1>5. rest \o more \in Seq(S) /\ Len(rest \o more) = Len(rest) + Len(more)
      /\ \A k \in 1 .. Len(rest) + Len(more) :
           (rest \o more)[k] = IF k <= Len(rest) THEN rest[k]
                                                 ELSE more[k - Len(rest)]
  BY <1>1, ConcatProperties
<1>6. n \in 0 .. Len(whole)
  BY <1>2, <1>3
<1>7. Rest(whole, n) \in Seq(S) /\ Len(Rest(whole, n)) = Len(whole) - n
      /\ \A k \in 1 .. Len(whole) - n : Rest(whole, n)[k] = whole[n + k]
  BY <1>2, <1>6, RestBytes, ZenonT(40)
<1>8. Len(rest \o more) = Len(Rest(whole, n))
  BY <1>1, <1>2, <1>3, <1>5, <1>7
<1>9. ASSUME NEW k \in 1 .. Len(rest \o more)
      PROVE  (rest \o more)[k] = Rest(whole, n)[k]
  <2>1. /\ k \in Nat /\ 1 <= k /\ k <= Len(bytes) - n + Len(more)
        /\ k \in 1 .. Len(rest) + Len(more) /\ k \in 1 .. Len(whole) - n
        /\ n + k \in 1 .. Len(bytes) + Len(more)
    BY <1>1, <1>2, <1>3, <1>5
  <2>2. CASE k <= Len(bytes) - n
    <3>1. n + k <= Len(bytes) /\ k \in 1 .. Len(bytes) - n
      BY <2>1, <2>2, <1>3
    <3>2. (rest \o more)[k] = bytes[n + k]
      BY <1>1, <1>5, <2>1, <2>2, <3>1
    <3>3. Rest(whole, n)[k] = bytes[n + k]
      BY <1>2, <1>7, <2>1, <3>1
    <3>4. QED
      BY <3>2, <3>3
  <2>3. CASE ~(k <= Len(bytes) - n)
    <3>1. ~(n + k <= Len(bytes)) /\ k - Len(rest) = n + k - Len(bytes)
      BY <2>1, <2>3, <1>1, <1>3
    <3>2. (rest \o more)[k] = more[k - Len(rest)]
      BY <1>1, <1>5, <2>1, <2>3
    <3>3. Rest(whole, n)[k] = more[n + k - Len(bytes)]
      BY <1>2, <1>7, <2>1, <3>1
    <3>4. QED
      BY <3>1, <3>2, <3>3
  <2>4. QED
    BY <2>2, <2>3
<1>10. rest \o more = Rest(whole, n)
  BY <1>5, <1>7, <1>8, <1>9, SeqEqual
<1>11. QED
  BY <1>4, <1>10 DEF rest

\* The bytes of a packet, or the first of them.
LEMMA BytesOfPacket ==
  ASSUME NEW i \in Nat, NEW n \in Nat
  PROVE  /\ PacketBytes(i, n) \in Seq(Bytes) /\ Len(PacketBytes(i, n)) = n
         /\ \A k \in 1 .. n : PacketBytes(i, n)[k] = <<i, k>>
         /\ n = 0 => PacketBytes(i, n) = <<>>
BY DEF PacketBytes, Bytes

\* A byte is its packet and its place.
LEMMA ByteParts ==
  ASSUME NEW b \in Bytes
  PROVE  PacketOf(b) \in Nat /\ Place(b) \in Nat /\ b = <<PacketOf(b), Place(b)>>
BY DEF Bytes, PacketOf, Place

\* What a packet begins with is in the stream.
LEMMA PacketInStream ==
  ASSUME NEW lengths \in Seq(Nat), NEW i \in 1 .. Len(lengths),
         NEW n \in 0 .. lengths[i]
  PROVE  InStream(PacketBytes(i, n), lengths)
<1> DEFINE bytes == PacketBytes(i, n)
<1>1. i \in Nat /\ n \in Nat /\ lengths[i] \in Nat /\ n <= lengths[i]
  OBVIOUS
<1>2. /\ bytes \in Seq(Bytes) /\ Len(bytes) = n
      /\ \A k \in 1 .. n : bytes[k] = <<i, k>>
  BY <1>1, BytesOfPacket
<1>3. InStream(bytes, lengths)
  <2> HIDE DEF bytes
  <2>1. \A k \in 1 .. n : PacketOf(bytes[k]) = i /\ Place(bytes[k]) = k
    BY <1>2 DEF PacketOf, Place
  <2>2. \A k \in 1 .. n - 1 : bytes[k + 1] = After(bytes[k], lengths)
    <3> SUFFICES ASSUME NEW k \in 1 .. n - 1
                 PROVE  bytes[k + 1] = After(bytes[k], lengths)
      OBVIOUS
    <3>1. k \in 1 .. n /\ k + 1 \in 1 .. n /\ k < lengths[i]
      BY <1>1
    <3>2. QED
      BY <3>1, <1>2, <2>1 DEF After
  <2>3. QED
    BY <1>1, <1>2, <2>1, <2>2 DEF InStream
<1>4. QED
  BY <1>3

\* A piece of a piece.
LEMMA FrontInStream ==
  ASSUME NEW lengths, NEW bytes, InStream(bytes, lengths),
         NEW n \in 0 .. Len(bytes)
  PROVE  InStream(Front(bytes, n), lengths)
<1> DEFINE front == Front(bytes, n)
<1>1. bytes \in Seq(Bytes) /\ Len(bytes) \in Nat
  BY DEF InStream
<1>2. /\ front \in Seq(Bytes) /\ Len(front) = n
      /\ \A k \in 1 .. n : front[k] = bytes[k]
  BY <1>1, FrontBytes
<1> HIDE DEF front
<1>3. \A k \in 1 .. n : k \in 1 .. Len(bytes)
  BY <1>1
<1>4. \A k \in 1 .. n - 1 : front[k + 1] = After(front[k], lengths)
  <2> SUFFICES ASSUME NEW k \in 1 .. n - 1
               PROVE  front[k + 1] = After(front[k], lengths)
    OBVIOUS
  <2>1. k \in 1 .. n /\ k + 1 \in 1 .. n /\ k \in 1 .. Len(bytes) - 1
    BY <1>1
  <2>2. QED
    BY <2>1, <1>2 DEF InStream
<1>5. InStream(front, lengths)
  BY <1>2, <1>3, <1>4 DEF InStream
<1>6. QED
  BY <1>5 DEF front

LEMMA RestInStream ==
  ASSUME NEW lengths, NEW bytes, InStream(bytes, lengths),
         NEW n \in 0 .. Len(bytes)
  PROVE  InStream(Rest(bytes, n), lengths)
<1> DEFINE rest == Rest(bytes, n)
<1>1. bytes \in Seq(Bytes) /\ Len(bytes) \in Nat
  BY DEF InStream
<1>2. /\ rest \in Seq(Bytes) /\ Len(rest) = Len(bytes) - n
      /\ \A k \in 1 .. Len(bytes) - n : rest[k] = bytes[n + k]
  BY <1>1, RestBytes
<1> HIDE DEF rest
<1>3. \A k \in 1 .. Len(rest) : n + k \in 1 .. Len(bytes)
  BY <1>1, <1>2
<1>4. \A k \in 1 .. Len(rest) - 1 : rest[k + 1] = After(rest[k], lengths)
  <2> SUFFICES ASSUME NEW k \in 1 .. Len(rest) - 1
               PROVE  rest[k + 1] = After(rest[k], lengths)
    OBVIOUS
  <2>1. /\ k \in 1 .. Len(bytes) - n /\ k + 1 \in 1 .. Len(bytes) - n
        /\ n + k \in 1 .. Len(bytes) - 1 /\ n + (k + 1) = (n + k) + 1
    BY <1>1, <1>2
  <2>2. bytes[(n + k) + 1] = After(bytes[n + k], lengths)
    BY <2>1 DEF InStream
  <2>3. QED
    BY <2>1, <2>2, <1>2
<1>5. \A k, l \in 1 .. Len(rest) : k <= l =>
       /\ PacketOf(rest[k]) <= PacketOf(rest[l])
       /\ PacketOf(rest[k]) = PacketOf(rest[l])
            => Place(rest[l]) = Place(rest[k]) + (l - k)
  <2> SUFFICES ASSUME NEW k \in 1 .. Len(rest), NEW l \in 1 .. Len(rest), k <= l
               PROVE  /\ PacketOf(rest[k]) <= PacketOf(rest[l])
                      /\ PacketOf(rest[k]) = PacketOf(rest[l])
                           => Place(rest[l]) = Place(rest[k]) + (l - k)
    OBVIOUS
  <2>1. /\ n + k \in 1 .. Len(bytes) /\ n + l \in 1 .. Len(bytes)
        /\ n + k <= n + l /\ (n + l) - (n + k) = l - k
    BY <1>1, <1>3
  <2>2. rest[k] = bytes[n + k] /\ rest[l] = bytes[n + l]
    BY <1>2
  <2>3. QED
    BY <2>1, <2>2 DEF InStream
<1>6. InStream(rest, lengths)
  BY <1>2, <1>3, <1>4, <1>5 DEF InStream
<1>7. QED
  BY <1>6 DEF rest

\* Two pieces of which the second continues the first are one.
LEMMA JoinInStream ==
  ASSUME NEW lengths, NEW bytes, NEW more,
         InStream(bytes, lengths), InStream(more, lengths),
         bytes # <<>> /\ more # <<>>
           => more[1] = After(bytes[Len(bytes)], lengths)
  PROVE  InStream(bytes \o more, lengths)
<1> DEFINE whole == bytes \o more
           m == Len(bytes)
<1>1. /\ bytes \in Seq(Bytes) /\ more \in Seq(Bytes)
      /\ m \in Nat /\ Len(more) \in Nat
  BY DEF InStream
<1>2. /\ whole \in Seq(Bytes) /\ Len(whole) = m + Len(more)
      /\ \A k \in 1 .. m + Len(more) :
           whole[k] = IF k <= m THEN bytes[k] ELSE more[k - m]
  BY <1>1, ConcatProperties
<1>3. m # 0 /\ Len(more) # 0 => more[1] = After(bytes[m], lengths)
  BY <1>1
<1> HIDE DEF whole, m
<1>4. \A k \in 1 .. m : k \in 1 .. m + Len(more) /\ whole[k] = bytes[k]
  BY <1>1, <1>2
<1>5. \A k \in 1 .. Len(more) :
        m + k \in 1 .. m + Len(more) /\ whole[m + k] = more[k]
  <2> SUFFICES ASSUME NEW k \in 1 .. Len(more)
               PROVE  m + k \in 1 .. m + Len(more) /\ whole[m + k] = more[k]
    OBVIOUS
  <2>1. m + k \in 1 .. m + Len(more) /\ ~(m + k <= m) /\ (m + k) - m = k
    BY <1>1
  <2>2. QED
    BY <1>2, <2>1
<1>6. \A k \in 1 .. Len(whole) :
        \/ k \in 1 .. m
        \/ \E j \in 1 .. Len(more) : k = m + j
  <2> SUFFICES ASSUME NEW k \in 1 .. Len(whole), k \notin 1 .. m
               PROVE  \E j \in 1 .. Len(more) : k = m + j
    OBVIOUS
  <2>1. k - m \in 1 .. Len(more) /\ k = m + (k - m)
    BY <1>1, <1>2
  <2>2. QED
    BY <2>1
<1>7. \A k \in 1 .. Len(whole) :
        /\ whole[k] \in Bytes
        /\ PacketOf(whole[k]) \in 1 .. Len(lengths)
        /\ Place(whole[k]) \in 1 .. lengths[PacketOf(whole[k])]
  <2> SUFFICES ASSUME NEW k \in 1 .. Len(whole)
               PROVE  /\ whole[k] \in Bytes
                      /\ PacketOf(whole[k]) \in 1 .. Len(lengths)
                      /\ Place(whole[k]) \in 1 .. lengths[PacketOf(whole[k])]
    OBVIOUS
  <2>1. CASE k \in 1 .. m
    BY <2>1, <1>1, <1>2, <1>4 DEF InStream, m
  <2>2. ASSUME NEW j \in 1 .. Len(more), k = m + j
        PROVE  /\ whole[k] \in Bytes
               /\ PacketOf(whole[k]) \in 1 .. Len(lengths)
               /\ Place(whole[k]) \in 1 .. lengths[PacketOf(whole[k])]
    <3>1. whole[k] = more[j]
      BY <2>2, <1>5
    <3>2. QED
      BY <3>1, <1>1 DEF InStream
  <2>3. QED
    BY <1>6, <2>1, <2>2
<1>8. \A k \in 1 .. Len(whole) - 1 : whole[k + 1] = After(whole[k], lengths)
  <2> SUFFICES ASSUME NEW k \in 1 .. Len(whole) - 1
               PROVE  whole[k + 1] = After(whole[k], lengths)
    OBVIOUS
  <2>1. CASE k + 1 \in 1 .. m
    <3>1. k \in 1 .. Len(bytes) - 1 /\ k \in 1 .. m
      BY <2>1, <1>1, <1>2 DEF m
    <3>2. QED
      BY <2>1, <3>1, <1>4 DEF InStream
  <2>2. CASE k = m
    <3>1. m \in 1 .. m /\ 1 \in 1 .. Len(more) /\ m # 0 /\ Len(more) # 0
      BY <2>2, <1>1, <1>2
    <3>2. QED
      BY <2>2, <3>1, <1>3, <1>4, <1>5
  <2>3. CASE k > m
    <3>1. k - m \in 1 .. Len(more) - 1 /\ k - m \in 1 .. Len(more)
          /\ k = m + (k - m) /\ k + 1 = m + ((k - m) + 1)
          /\ (k - m) + 1 \in 1 .. Len(more)
      BY <2>3, <1>1, <1>2
    <3>2. whole[k] = more[k - m] /\ whole[k + 1] = more[(k - m) + 1]
      BY <3>1, <1>5
    <3>3. more[(k - m) + 1] = After(more[k - m], lengths)
      BY <3>1 DEF InStream
    <3>4. QED
      BY <3>2, <3>3
  <2>4. k + 1 \in 1 .. m \/ k = m \/ k > m
    BY <1>1, <1>2
  <2>5. QED
    BY <2>1, <2>2, <2>3, <2>4
<1>9. ASSUME NEW k \in 1 .. m, NEW l \in 1 .. Len(more)
      PROVE  /\ PacketOf(bytes[k]) <= PacketOf(more[l])
             /\ PacketOf(bytes[k]) = PacketOf(more[l])
                  => Place(more[l]) = Place(bytes[k]) + (m + l - k)
  <2>1. /\ m \in 1 .. Len(bytes) /\ k \in 1 .. Len(bytes) /\ k <= m
        /\ 1 \in 1 .. Len(more) /\ 1 <= l /\ m # 0 /\ Len(more) # 0
    BY <1>1 DEF m
  <2>2. /\ bytes[k] \in Bytes /\ bytes[m] \in Bytes
        /\ more[1] \in Bytes /\ more[l] \in Bytes
    BY <1>1, <2>1
  <2>3. /\ PacketOf(bytes[k]) <= PacketOf(bytes[m])
        /\ PacketOf(bytes[k]) = PacketOf(bytes[m])
             => Place(bytes[m]) = Place(bytes[k]) + (m - k)
    BY <2>1 DEF InStream
  <2>4. /\ PacketOf(more[1]) <= PacketOf(more[l])
        /\ PacketOf(more[1]) = PacketOf(more[l])
             => Place(more[l]) = Place(more[1]) + (l - 1)
    BY <2>1 DEF InStream
  <2>5. more[1] = After(bytes[m], lengths)
    BY <2>1, <1>3
  <2>6. /\ PacketOf(bytes[m]) <= PacketOf(more[1])
        /\ PacketOf(bytes[m]) = PacketOf(more[1])
             => Place(more[1]) = Place(bytes[m]) + 1
    <3> DEFINE p == PacketOf(bytes[m])  q == Place(bytes[m])
    <3>1. p \in Nat /\ q \in Nat
      BY <2>2, ByteParts
    <3> HIDE DEF p, q
    <3>2. more[1] \in {<<p, q + 1>>, <<p + 1, 1>>}
      BY <2>5 DEF After, p, q
    <3>3. \/ PacketOf(more[1]) = p /\ Place(more[1]) = q + 1
          \/ PacketOf(more[1]) = p + 1
      BY <3>2 DEF PacketOf, Place
    <3>4. QED
      BY <3>1, <3>3 DEF p, q
  <2>7. /\ PacketOf(bytes[k]) \in Nat /\ Place(bytes[k]) \in Nat
        /\ PacketOf(bytes[m]) \in Nat /\ Place(bytes[m]) \in Nat
        /\ PacketOf(more[1]) \in Nat /\ Place(more[1]) \in Nat
        /\ PacketOf(more[l]) \in Nat /\ Place(more[l]) \in Nat
    BY <2>2, ByteParts
  <2>8. k \in Nat /\ l \in Nat /\ m \in Nat
    BY <1>1
  <2> DEFINE pk == PacketOf(bytes[k])  qk == Place(bytes[k])
             pm == PacketOf(bytes[m])  qm == Place(bytes[m])
             p1 == PacketOf(more[1])   q1 == Place(more[1])
             pl == PacketOf(more[l])   ql == Place(more[l])
  <2>9. /\ pk \in Nat /\ pm \in Nat /\ p1 \in Nat /\ pl \in Nat
        /\ qk \in Nat /\ qm \in Nat /\ q1 \in Nat /\ ql \in Nat
        /\ pk <= pm /\ pm <= p1 /\ p1 <= pl
        /\ pk = pm => qm = qk + (m - k)
        /\ pm = p1 => q1 = qm + 1
        /\ p1 = pl => ql = q1 + (l - 1)
    BY <2>3, <2>4, <2>6, <2>7
  <2> HIDE DEF pk, pm, p1, pl, qk, qm, q1, ql
  <2>10. pk <= pl /\ (pk = pl => ql = qk + (m + l - k))
    BY <2>8, <2>9
  <2>11. QED
    BY <2>10 DEF pk, pl, qk, ql
<1>10. \A k, l \in 1 .. Len(whole) : k <= l =>
         /\ PacketOf(whole[k]) <= PacketOf(whole[l])
         /\ PacketOf(whole[k]) = PacketOf(whole[l])
              => Place(whole[l]) = Place(whole[k]) + (l - k)
  <2> SUFFICES ASSUME NEW k \in 1 .. Len(whole), NEW l \in 1 .. Len(whole), k <= l
               PROVE  /\ PacketOf(whole[k]) <= PacketOf(whole[l])
                      /\ PacketOf(whole[k]) = PacketOf(whole[l])
                           => Place(whole[l]) = Place(whole[k]) + (l - k)
    OBVIOUS
  <2>1. CASE l \in 1 .. m
    <3>1. k \in 1 .. Len(bytes) /\ l \in 1 .. Len(bytes) /\ k \in 1 .. m
      BY <2>1, <1>1, <1>2 DEF m
    <3>2. QED
      BY <2>1, <3>1, <1>4 DEF InStream
  <2>2. ASSUME k \in 1 .. m, NEW j \in 1 .. Len(more), l = m + j
        PROVE  /\ PacketOf(whole[k]) <= PacketOf(whole[l])
               /\ PacketOf(whole[k]) = PacketOf(whole[l])
                    => Place(whole[l]) = Place(whole[k]) + (l - k)
    <3>1. whole[k] = bytes[k] /\ whole[l] = more[j] /\ l - k = m + j - k
      BY <2>2, <1>1, <1>2, <1>4, <1>5
    <3>2. /\ PacketOf(bytes[k]) <= PacketOf(more[j])
          /\ PacketOf(bytes[k]) = PacketOf(more[j])
               => Place(more[j]) = Place(bytes[k]) + (m + j - k)
      BY <2>2, <1>9
    <3>3. QED
      BY <3>1, <3>2
  <2>3. ASSUME NEW i \in 1 .. Len(more), k = m + i,
               NEW j \in 1 .. Len(more), l = m + j
        PROVE  /\ PacketOf(whole[k]) <= PacketOf(whole[l])
               /\ PacketOf(whole[k]) = PacketOf(whole[l])
                    => Place(whole[l]) = Place(whole[k]) + (l - k)
    <3>1. whole[k] = more[i] /\ whole[l] = more[j]
      BY <2>3, <1>5
    <3>2. i <= j /\ l - k = j - i
      BY <2>3, <1>1
    <3>3. QED
      BY <3>1, <3>2 DEF InStream
  <2>4. QED
    <3>1. l \in 1 .. m \/ (k \in 1 .. m /\ l \notin 1 .. m)
          \/ (k \notin 1 .. m /\ l \notin 1 .. m)
      BY <1>1, <1>2
    <3>2. QED
      BY <3>1, <1>6, <2>1, <2>2, <2>3
<1>11. InStream(whole, lengths)
  BY <1>2, <1>7, <1>8, <1>10 DEF InStream
<1>12. QED
  BY <1>11 DEF whole

\* A packet sent later changes nothing of what is in the stream.
LEMMA GrownStream ==
  ASSUME NEW lengths \in Seq(Nat), NEW bytes, InStream(bytes, lengths),
         NEW n \in Nat
  PROVE  InStream(bytes, Append(lengths, n))
<1> DEFINE grown == Append(lengths, n)
<1>1. /\ Len(lengths) \in Nat /\ Len(grown) = Len(lengths) + 1
      /\ \A i \in 1 .. Len(lengths) : i \in 1 .. Len(grown)
                                      /\ grown[i] = lengths[i]
  OBVIOUS
<1> HIDE DEF grown
<1>2. bytes \in Seq(Bytes) /\ Len(bytes) \in Nat
  BY DEF InStream
<1>3. \A k \in 1 .. Len(bytes) - 1 : bytes[k + 1] = After(bytes[k], grown)
  <2> SUFFICES ASSUME NEW k \in 1 .. Len(bytes) - 1
               PROVE  bytes[k + 1] = After(bytes[k], grown)
    OBVIOUS
  <2>1. k \in 1 .. Len(bytes)
    BY <1>2
  <2>2. grown[PacketOf(bytes[k])] = lengths[PacketOf(bytes[k])]
    BY <1>1, <2>1 DEF InStream
  <2>3. QED
    BY <2>2 DEF InStream, After
<1>4. InStream(bytes, grown)
  BY <1>1, <1>3 DEF InStream
<1>5. QED
  BY <1>4 DEF grown

\* A chunk that begins and ends in one packet is a run of its bytes.
LEMMA ChunkOfOnePacket ==
  ASSUME NEW lengths, NEW bytes, InStream(bytes, lengths),
         NEW n \in 1 .. Len(bytes),
         PacketOf(bytes[1]) = PacketOf(bytes[n])
  PROVE  \A k \in 1 .. n :
           bytes[k] = <<PacketOf(bytes[1]), Place(bytes[1]) + (k - 1)>>
<1> SUFFICES ASSUME NEW k \in 1 .. n
             PROVE  bytes[k] = <<PacketOf(bytes[1]), Place(bytes[1]) + (k - 1)>>
  OBVIOUS
<1>1. bytes \in Seq(Bytes) /\ Len(bytes) \in Nat
  BY DEF InStream
<1>2. /\ 1 \in 1 .. Len(bytes) /\ k \in 1 .. Len(bytes) /\ n \in 1 .. Len(bytes)
      /\ 1 <= k /\ k <= n
  BY <1>1
<1>3. bytes[1] \in Bytes /\ bytes[k] \in Bytes /\ bytes[n] \in Bytes
  BY <1>1, <1>2
<1>4. /\ PacketOf(bytes[1]) <= PacketOf(bytes[k])
      /\ PacketOf(bytes[k]) <= PacketOf(bytes[n])
  BY <1>2 DEF InStream
<1>5. /\ PacketOf(bytes[1]) \in Nat /\ PacketOf(bytes[k]) \in Nat
      /\ bytes[k] = <<PacketOf(bytes[k]), Place(bytes[k])>>
  BY <1>3, ByteParts
<1>6. PacketOf(bytes[k]) = PacketOf(bytes[1])
  BY <1>4, <1>5
<1>7. Place(bytes[k]) = Place(bytes[1]) + (k - 1)
  BY <1>2, <1>6 DEF InStream
<1>8. QED
  BY <1>5, <1>6, <1>7

\* The first m bytes of a packet and the n after them are its first m + n.
LEMMA AddToPacket ==
  ASSUME NEW i \in Nat, NEW m \in Nat, NEW n \in Nat,
         NEW chunk \in Seq(Bytes), Len(chunk) = n,
         \A k \in 1 .. n : chunk[k] = <<i, m + k>>
  PROVE  PacketBytes(i, m) \o chunk = PacketBytes(i, m + n)
<1> DEFINE buf   == PacketBytes(i, m)
           whole == PacketBytes(i, m + n)
<1>1. m + n \in Nat
  OBVIOUS
<1>2. /\ buf \in Seq(Bytes) /\ Len(buf) = m
      /\ \A k \in 1 .. m : buf[k] = <<i, k>>
  BY BytesOfPacket
<1>3. /\ whole \in Seq(Bytes) /\ Len(whole) = m + n
      /\ \A k \in 1 .. m + n : whole[k] = <<i, k>>
  BY <1>1, BytesOfPacket
<1> HIDE DEF buf, whole
<1>4. /\ buf \o chunk \in Seq(Bytes) /\ Len(buf \o chunk) = m + n
      /\ \A k \in 1 .. m + n :
           (buf \o chunk)[k] = IF k <= m THEN buf[k] ELSE chunk[k - m]
  BY <1>2, ConcatProperties
<1>5. ASSUME NEW k \in 1 .. m + n PROVE (buf \o chunk)[k] = whole[k]
  <2>1. CASE k <= m
    <3>1. k \in 1 .. m
      BY <2>1
    <3>2. (buf \o chunk)[k] = buf[k] /\ buf[k] = <<i, k>>
      BY <2>1, <3>1, <1>2, <1>4
    <3>3. QED
      BY <3>2, <1>3
  <2>2. CASE ~(k <= m)
    <3>1. k - m \in 1 .. n /\ m + (k - m) = k
      BY <2>2
    <3>2. QED
      BY <2>2, <3>1, <1>3, <1>4
  <2>3. QED
    BY <2>1, <2>2
<1>6. buf \o chunk = whole
  BY <1>3, <1>4, <1>5, SeqEqual
<1>7. QED
  BY <1>6 DEF buf, whole

\* The first and the last element of two joined sequences.
LEMMA EndsOfJoin ==
  ASSUME NEW S, NEW bytes \in Seq(S), NEW more \in Seq(S)
  PROVE  /\ bytes \o more \in Seq(S)
         /\ Len(bytes \o more) = Len(bytes) + Len(more)
         /\ bytes \o more = <<>> <=> bytes = <<>> /\ more = <<>>
         /\ bytes # <<>> => (bytes \o more)[1] = bytes[1]
         /\ bytes = <<>> => bytes \o more = more
         /\ more = <<>> => bytes \o more = bytes
         /\ more # <<>> => (bytes \o more)[Len(bytes \o more)] = more[Len(more)]
<1>1. /\ bytes \o more \in Seq(S) /\ Len(bytes \o more) = Len(bytes) + Len(more)
      /\ \A k \in 1 .. Len(bytes) + Len(more) :
           (bytes \o more)[k] = IF k <= Len(bytes) THEN bytes[k]
                                                   ELSE more[k - Len(bytes)]
  BY ConcatProperties
<1>2. Len(bytes) \in Nat /\ Len(more) \in Nat
  OBVIOUS
<1>3. bytes \o more = <<>> <=> bytes = <<>> /\ more = <<>>
  BY ConcatEqualIffEmpty
<1>4. ASSUME bytes # <<>> PROVE (bytes \o more)[1] = bytes[1]
  <2>1. Len(bytes) # 0
    BY <1>4
  <2>2. 1 \in 1 .. Len(bytes) + Len(more) /\ 1 <= Len(bytes)
    BY <2>1, <1>2
  <2>3. QED
    BY <1>1, <2>2
<1>5. bytes = <<>> => bytes \o more = more
  BY ConcatEmptySeq
<1>6. more = <<>> => bytes \o more = bytes
  BY ConcatEmptySeq
<1>7. ASSUME more # <<>>
      PROVE  (bytes \o more)[Len(bytes \o more)] = more[Len(more)]
  <2>1. Len(more) # 0
    BY <1>7
  <2>2. /\ Len(bytes) + Len(more) \in 1 .. Len(bytes) + Len(more)
        /\ ~(Len(bytes) + Len(more) <= Len(bytes))
        /\ (Len(bytes) + Len(more)) - Len(bytes) = Len(more)
    BY <2>1, <1>2
  <2>3. QED
    BY <1>1, <2>2
<1>8. QED
  BY <1>1, <1>3, <1>4, <1>5, <1>6, <1>7

\* The first of two joined pieces of the stream is one itself.
LEMMA FirstInStream ==
  ASSUME NEW lengths, NEW bytes \in Seq(Bytes), NEW more \in Seq(Bytes),
         InStream(bytes \o more, lengths)
  PROVE  InStream(bytes, lengths)
<1> DEFINE whole == bytes \o more
           first == Front(whole, Len(bytes))
<1>1. /\ whole \in Seq(Bytes) /\ Len(whole) = Len(bytes) + Len(more)
      /\ \A k \in 1 .. Len(bytes) + Len(more) :
           whole[k] = IF k <= Len(bytes) THEN bytes[k] ELSE more[k - Len(bytes)]
  BY ConcatProperties
<1>2. Len(bytes) \in Nat /\ Len(more) \in Nat
  OBVIOUS
<1> HIDE DEF whole
<1>3. Len(bytes) \in 0 .. Len(whole)
  BY <1>1, <1>2
<1>4. /\ first \in Seq(Bytes) /\ Len(first) = Len(bytes)
      /\ \A k \in 1 .. Len(bytes) : first[k] = whole[k]
  BY <1>1, <1>3, FrontBytes
<1>5. InStream(first, lengths)
  BY <1>3, FrontInStream DEF whole
<1> HIDE DEF first
<1>6. \A k \in 1 .. Len(first) : first[k] = bytes[k]
  BY <1>1, <1>2, <1>4
<1>7. first = bytes
  BY <1>4, <1>6, SeqEqual
<1>8. QED
  BY <1>5, <1>7
=============================================================================
