------------------------------ MODULE FoldSteps ------------------------------
(***************************************************************************)
(* What FoldLeft of the community modules computes, one element at a time: *)
(* folding a sequence with one more element is one more application of the *)
(* operator.  The library defines the fold by recursion over the sets of   *)
(* indices, so that this takes a proof by induction.                       *)
(***************************************************************************)
EXTENDS Integers, Sequences, SequencesExt, WellFoundedInduction, TLAPS

CONSTANT Op(_, _)

Fold(base, s) == FoldLeft(Op, base, s)

\* f is the recursive function of the fold, for the first n elements of s.
IsFold(f, base, s, n) ==
  f = [t \in SUBSET (1 .. n) |->
         IF t = {} THEN base ELSE Op(f[t \ {Max(t)}], s[Max(t)])]

\* Induction over the naturals for a set of them: the set has no least
\* number outside.
LEMMA Induction ==
  ASSUME NEW S, 0 \in S, \A n \in Nat : n \in S => n + 1 \in S
  PROVE  \A n \in Nat : n \in S
<1> DEFINE T == Nat \ S
<1>1. SUFFICES ASSUME T # {} PROVE FALSE
  OBVIOUS
<1>2. \E x \in T : \A y \in T : ~ (<<y, x>> \in OpToRel(<, Nat))
  <2>1. T \subseteq Nat
    OBVIOUS
  <2> HIDE DEF T
  <2>2. QED
    BY <1>1, <2>1, NatLessThanWellFounded, WFMin
<1>3. PICK x \in T : \A y \in T : ~ (<<y, x>> \in OpToRel(<, Nat))
  BY <1>2
<1>4. \A y \in T : ~ (y < x)
  BY <1>3 DEF OpToRel
<1>5. x # 0 /\ x - 1 \in Nat
  OBVIOUS
<1>6. x - 1 \in T
  <2>1. ASSUME x - 1 \in S PROVE FALSE
    <3>1. (x - 1) + 1 \in S
      BY <2>1, <1>5
    <3>2. QED
      BY <3>1
  <2>2. QED
    BY <2>1, <1>5
<1>7. QED
  BY <1>4, <1>5, <1>6

\* The fold is the value of that function at all indices.
LEMMA FoldIs ==
  ASSUME NEW base, NEW S, NEW s \in Seq(S)
  PROVE  Fold(base, s) = (CHOOSE f : IsFold(f, base, s, Len(s)))[1 .. Len(s)]
<1>1. DOMAIN s = 1 .. Len(s)
  OBVIOUS
<1>2. QED
  BY <1>1 DEF Fold, FoldLeft, MapThenFoldSet, IsFold, Max

\* The largest of some indices up to k + 1 that has k + 1.
LEMMA TopIndex ==
  ASSUME NEW k \in Nat, NEW t \in SUBSET (1 .. k + 1), k + 1 \in t
  PROVE  Max(t) = k + 1
<1>1. \A y \in t : k + 1 >= y
  OBVIOUS
<1>2. \A x \in t : (\A y \in t : x >= y) => x = k + 1
  OBVIOUS
<1>3. QED
  BY <1>1, <1>2 DEF Max

\* The function exists for every number of elements.
LEMMA FoldExists ==
  ASSUME NEW base, NEW s
  PROVE  \A n \in Nat : \E f : IsFold(f, base, s, n)
<1> DEFINE S == {n \in Nat : \E f : IsFold(f, base, s, n)}
<1>1. 0 \in S
  <2>1. IsFold([t \in SUBSET (1 .. 0) |-> base], base, s, 0)
    <3>1. \A t \in SUBSET (1 .. 0) : t = {}
      OBVIOUS
    <3>2. QED
      BY <3>1 DEF IsFold
  <2>2. QED
    BY <2>1
<1>2. ASSUME NEW n \in Nat, n \in S PROVE n + 1 \in S
  <2>1. PICK f : IsFold(f, base, s, n)
    BY <1>2
  <2> DEFINE g == [t \in SUBSET (1 .. n + 1) |->
                     IF n + 1 \in t THEN Op(f[t \ {n + 1}], s[n + 1]) ELSE f[t]]
  <2>2. ASSUME NEW t \in SUBSET (1 .. n + 1)
        PROVE  g[t] = IF t = {} THEN base ELSE Op(g[t \ {Max(t)}], s[Max(t)])
    <3>1. CASE n + 1 \in t
      <4>1. Max(t) = n + 1
        BY <3>1, TopIndex
      <4>2. /\ t \ {n + 1} \in SUBSET (1 .. n + 1)
            /\ n + 1 \notin t \ {n + 1}
        OBVIOUS
      <4>3. g[t \ {n + 1}] = f[t \ {n + 1}]
        BY <4>2
      <4>4. g[t] = Op(f[t \ {n + 1}], s[n + 1])
        BY <3>1
      <4> HIDE DEF g
      <4>5. QED
        BY <3>1, <4>1, <4>3, <4>4
    <3>2. CASE n + 1 \notin t
      <4>1. t \in SUBSET (1 .. n)
        BY <3>2
      <4>2. g[t] = f[t]
        BY <3>2
      <4>3. f[t] = IF t = {} THEN base ELSE Op(f[t \ {Max(t)}], s[Max(t)])
        BY <2>1, <4>1 DEF IsFold
      <4>4. g[t \ {Max(t)}] = f[t \ {Max(t)}]
        BY <3>2
      <4> HIDE DEF g
      <4>5. QED
        BY <4>2, <4>3, <4>4
    <3>3. QED
      BY <3>1, <3>2
  <2>3. g = [t \in SUBSET (1 .. n + 1) |-> g[t]]
    OBVIOUS
  <2> HIDE DEF g
  <2>4. IsFold(g, base, s, n + 1)
    BY <2>2, <2>3 DEF IsFold
  <2>5. QED
    BY <2>4
<1> HIDE DEF S
<1>3. \A n \in Nat : n \in S
  BY <1>1, <1>2, Induction
<1>4. QED
  BY <1>3 DEF S

\* Two such functions agree on the indices at which their sequences do.
LEMMA FoldsAgree ==
  ASSUME NEW base, NEW s, NEW q, NEW f, NEW g, NEW n \in Nat, NEW m \in Nat,
         n <= m, IsFold(f, base, s, n), IsFold(g, base, q, m),
         \A i \in 1 .. n : s[i] = q[i]
  PROVE  f[1 .. n] = g[1 .. n]
<1> DEFINE S == {k \in Nat : k <= n => \A t \in SUBSET (1 .. k) : f[t] = g[t]}
<1>1. ASSUME NEW t \in SUBSET (1 .. n)
      PROVE  /\ f[t] = IF t = {} THEN base ELSE Op(f[t \ {Max(t)}], s[Max(t)])
             /\ g[t] = IF t = {} THEN base ELSE Op(g[t \ {Max(t)}], q[Max(t)])
  <2>1. f[t] = IF t = {} THEN base ELSE Op(f[t \ {Max(t)}], s[Max(t)])
    BY DEF IsFold
  <2>2. t \in SUBSET (1 .. m)
    OBVIOUS
  <2>3. g[t] = IF t = {} THEN base ELSE Op(g[t \ {Max(t)}], q[Max(t)])
    BY <2>2 DEF IsFold
  <2>4. QED
    BY <2>1, <2>3
<1>2. 0 \in S
  <2>1. \A t \in SUBSET (1 .. 0) : t = {} /\ t \in SUBSET (1 .. n)
    OBVIOUS
  <2>2. QED
    BY <1>1, <2>1
<1>3. ASSUME NEW k \in Nat, k \in S PROVE k + 1 \in S
  <2> SUFFICES ASSUME k + 1 <= n, NEW t \in SUBSET (1 .. k + 1)
               PROVE  f[t] = g[t]
    OBVIOUS
  <2>1. \A u \in SUBSET (1 .. k) : f[u] = g[u]
    BY <1>3
  <2>2. CASE k + 1 \in t
    <3>1. Max(t) = k + 1
      BY <2>2, TopIndex
    <3>2. t \ {k + 1} \in SUBSET (1 .. k) /\ t \in SUBSET (1 .. n) /\ t # {}
      BY <2>2
    <3>3. s[k + 1] = q[k + 1]
      OBVIOUS
    <3>4. f[t] = Op(f[t \ {k + 1}], s[k + 1])
          /\ g[t] = Op(g[t \ {k + 1}], q[k + 1])
      BY <1>1, <3>1, <3>2
    <3>5. f[t \ {k + 1}] = g[t \ {k + 1}]
      BY <2>1, <3>2
    <3>6. QED
      BY <3>3, <3>4, <3>5
  <2>3. CASE k + 1 \notin t
    BY <2>1, <2>3
  <2>4. QED
    BY <2>2, <2>3
<1> HIDE DEF S
<1>4. n \in S
  BY <1>2, <1>3, Induction
<1>5. QED
  BY <1>4 DEF S

\* So the fold is the value of such a function.
LEMMA FoldValue ==
  ASSUME NEW base, NEW S, NEW s \in Seq(S), NEW n \in Nat, Len(s) = n
  PROVE  \E f : IsFold(f, base, s, n) /\ Fold(base, s) = f[1 .. n]
<1>1. PICK g : g = CHOOSE h : IsFold(h, base, s, n)
  OBVIOUS
<1>2. \E h : IsFold(h, base, s, n)
  BY FoldExists
<1>3. IsFold(g, base, s, n)
  BY <1>1, <1>2
<1>4. Fold(base, s) = g[1 .. n]
  BY <1>1, FoldIs
<1>5. QED
  BY <1>3, <1>4

\* Folding the empty sequence.
THEOREM FoldEmpty == ASSUME NEW base PROVE Fold(base, <<>>) = base
<1>1. <<>> \in Seq({}) /\ Len(<<>>) = 0
  OBVIOUS
<1>2. PICK f : IsFold(f, base, <<>>, 0) /\ Fold(base, <<>>) = f[1 .. 0]
  BY <1>1, FoldValue, ZenonT(40)
<1>3. 1 .. 0 \in SUBSET (1 .. 0) /\ 1 .. 0 = {}
  OBVIOUS
<1>4. f[1 .. 0] = base
  BY <1>2, <1>3 DEF IsFold
<1>5. QED
  BY <1>2, <1>4

\* A sequence q that has one more element than s.
LEMMA FoldLonger ==
  ASSUME NEW base, NEW S, NEW s \in Seq(S), NEW q \in Seq(S), NEW n \in Nat,
         Len(s) = n, Len(q) = n + 1, \A i \in 1 .. n : s[i] = q[i]
  PROVE  Fold(base, q) = Op(Fold(base, s), q[n + 1])
<1>1. n + 1 \in Nat /\ n <= n + 1
  OBVIOUS
<1>2. PICK f : IsFold(f, base, s, n) /\ Fold(base, s) = f[1 .. n]
  BY FoldValue
<1>3. PICK g : IsFold(g, base, q, n + 1) /\ Fold(base, q) = g[1 .. n + 1]
  BY <1>1, FoldValue
<1>4. f[1 .. n] = g[1 .. n]
  BY <1>1, <1>2, <1>3, FoldsAgree
<1>5. /\ 1 .. n + 1 \in SUBSET (1 .. n + 1) /\ 1 .. n + 1 # {}
      /\ n + 1 \in 1 .. n + 1 /\ (1 .. n + 1) \ {n + 1} = 1 .. n
  <2>1. n + 1 \in 1 .. n + 1
    OBVIOUS
  <2>2. \A i \in 1 .. n + 1 : i # n + 1 <=> i \in 1 .. n
    OBVIOUS
  <2>3. (1 .. n + 1) \ {n + 1} = 1 .. n
    <3>1. 1 .. n \subseteq 1 .. n + 1
      OBVIOUS
    <3>2. QED
      BY <2>2, <3>1, Zenon
  <2>4. QED
    BY <2>1, <2>3
<1>6. Max(1 .. n + 1) = n + 1
  BY <1>5, TopIndex
<1>7. g[1 .. n + 1] = Op(g[1 .. n], q[n + 1])
  <2> DEFINE top == 1 .. n + 1
  <2>1. g = [t \in SUBSET top |->
               IF t = {} THEN base ELSE Op(g[t \ {Max(t)}], q[Max(t)])]
    BY <1>3 DEF IsFold
  <2>2. top \in SUBSET top /\ top # {} /\ top \ {n + 1} = 1 .. n
    BY <1>5
  <2>3. Max(top) = n + 1
    BY <1>6
  <2> HIDE DEF top
  <2>4. g[top] = Op(g[top \ {Max(top)}], q[Max(top)])
    BY <2>1, <2>2, Zenon
  <2>5. g[top] = Op(g[1 .. n], q[n + 1])
    BY <2>2, <2>3, <2>4
  <2>6. QED
    BY <2>5 DEF top
<1>8. QED
  BY <1>2, <1>3, <1>4, <1>7

\* Folding a sequence with one more element.
THEOREM FoldAppend ==
  ASSUME NEW base, NEW S, NEW s \in Seq(S), NEW x \in S
  PROVE  Fold(base, Append(s, x)) = Op(Fold(base, s), x)
<1>1. /\ Append(s, x) \in Seq(S) /\ Len(s) \in Nat
      /\ Len(Append(s, x)) = Len(s) + 1
      /\ \A i \in 1 .. Len(s) : s[i] = Append(s, x)[i]
      /\ Append(s, x)[Len(s) + 1] = x
  OBVIOUS
<1>2. ASSUME NEW q \in Seq(S), NEW n \in Nat,
             Len(s) = n, Len(q) = n + 1, \A i \in 1 .. n : s[i] = q[i]
      PROVE  Fold(base, q) = Op(Fold(base, s), q[n + 1])
  BY <1>2, FoldLonger
<1>3. ASSUME NEW q \in Seq(S), q = Append(s, x)
      PROVE  Fold(base, q) = Op(Fold(base, s), x)
  <2>1. Len(q) = Len(s) + 1 /\ q[Len(s) + 1] = x
    BY <1>1, <1>3
  <2>2. \A i \in 1 .. Len(s) : s[i] = q[i]
    BY <1>1, <1>3
  <2>3. Fold(base, q) = Op(Fold(base, s), q[Len(s) + 1])
    BY <1>1, <1>2, <2>1, <2>2
  <2>4. QED
    BY <2>1, <2>3
<1>4. QED
  BY <1>1, <1>3
=============================================================================
