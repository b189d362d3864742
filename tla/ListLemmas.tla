----------------------------- MODULE ListLemmas -----------------------------
(***************************************************************************)
(* Facts about lists without repetitions, which is what the job list of    *)
(* hw2/server.c and the peer tables of hw3, hw4 and hw5 should be, about   *)
(* the slots of such tables, about loops that go through a list, and about *)
(* the quotients and remainders that put numbers into words and rings.     *)
(***************************************************************************)
EXTENDS Integers, SequencesExt, SequenceTheorems, WellFoundedInduction, Slots,
        TLAPS

Distinct(s) == \A i, k \in DOMAIN s : s[i] = s[k] => i = k

\* What is left of a list when its i-th element is taken out.
LEMMA RemoveAtElements ==
  ASSUME NEW S, NEW s \in Seq(S), NEW i \in 1 .. Len(s)
  PROVE  /\ RemoveAt(s, i) \in Seq(S)
         /\ Len(RemoveAt(s, i)) = Len(s) - 1
         /\ \A k \in 1 .. Len(s) - 1 :
               RemoveAt(s, i)[k] = IF k < i THEN s[k] ELSE s[k + 1]
<1> DEFINE a == SubSeq(s, 1, i - 1)
           b == SubSeq(s, i + 1, Len(s))
<1>1. /\ a \in Seq(S) /\ Len(a) = i - 1
      /\ \A k \in 1 .. i - 1 : a[k] = s[k]
  BY SubSeqProperties
<1>2. /\ b \in Seq(S) /\ Len(b) = Len(s) - i
      /\ \A k \in 1 .. Len(s) - i : b[k] = s[k + i]
  BY SubSeqProperties
<1> HIDE DEF a, b
<1>3. /\ a \o b \in Seq(S)
      /\ Len(a \o b) = Len(s) - 1
      /\ \A k \in 1 .. Len(s) - 1 :
            (a \o b)[k] = IF k <= i - 1 THEN a[k] ELSE b[k - (i - 1)]
  <2>1. /\ a \o b \in Seq(S)
        /\ Len(a \o b) = Len(a) + Len(b)
        /\ \A k \in 1 .. Len(a) + Len(b) :
              (a \o b)[k] = IF k <= Len(a) THEN a[k] ELSE b[k - Len(a)]
    BY <1>1, <1>2, ConcatProperties, Zenon
  <2>2. Len(a) = i - 1 /\ Len(a) + Len(b) = Len(s) - 1
    BY <1>1, <1>2
  <2> QED
    BY <2>1, <2>2, Zenon
<1>4. ASSUME NEW k \in 1 .. Len(s) - 1
      PROVE  (a \o b)[k] = IF k < i THEN s[k] ELSE s[k + 1]
  <2>1. CASE k < i
    BY <1>1, <1>3, <2>1
  <2>2. CASE ~(k < i)
    <3>1. k - (i - 1) \in 1 .. Len(s) - i
      BY <2>2
    <3>2. b[k - (i - 1)] = s[(k - (i - 1)) + i]
      BY <1>2, <3>1
    <3>3. (k - (i - 1)) + i = k + 1
      OBVIOUS
    <3>4. (a \o b)[k] = b[k - (i - 1)]
      BY <1>3, <2>2
    <3> QED
      BY <2>2, <3>2, <3>3, <3>4
  <2> QED
    BY <2>1, <2>2
<1>5. RemoveAt(s, i) = a \o b
  BY DEF RemoveAt, a, b
<1> QED
  BY <1>3, <1>4, <1>5

\* Taking one element out of a list without repetitions removes it altogether.
LEMMA RemoveAtDistinct ==
  ASSUME NEW S, NEW s \in Seq(S), NEW i \in 1 .. Len(s), Distinct(s)
  PROVE  /\ Distinct(RemoveAt(s, i))
         /\ Range(RemoveAt(s, i)) = Range(s) \ {s[i]}
<1> DEFINE r == RemoveAt(s, i)
<1>1. /\ r \in Seq(S) /\ Len(r) = Len(s) - 1
      /\ \A k \in 1 .. Len(s) - 1 : r[k] = IF k < i THEN s[k] ELSE s[k + 1]
  BY RemoveAtElements
<1> HIDE DEF r
<1>2. DOMAIN r = 1 .. Len(s) - 1 /\ DOMAIN s = 1 .. Len(s) /\ Len(s) \in Nat
  BY <1>1
<1> DEFINE from(k) == IF k < i THEN k ELSE k + 1
<1>3. \A k \in DOMAIN r : from(k) \in DOMAIN s /\ from(k) # i /\ r[k] = s[from(k)]
  BY <1>1, <1>2
<1>4. Distinct(r)
  <2> SUFFICES ASSUME NEW k \in DOMAIN r, NEW m \in DOMAIN r, r[k] = r[m]
               PROVE  k = m
    BY DEF Distinct
  <2>1. from(k) = from(m)
    <3> HIDE DEF from
    <3> QED BY <1>3 DEF Distinct
  <2> QED
    BY <1>2, <2>1
<1>5. ASSUME NEW x \in Range(r) PROVE x \in Range(s) \ {s[i]}
  <2>1. PICK k \in DOMAIN r : x = r[k]
    BY DEF Range
  <2>2. x = s[from(k)] /\ from(k) \in DOMAIN s /\ from(k) # i
    BY <1>3, <2>1
  <2> HIDE DEF from
  <2> QED
    BY <1>2, <2>2 DEF Range, Distinct
<1>6. ASSUME NEW x \in Range(s), x # s[i] PROVE x \in Range(r)
  <2>1. PICK k \in DOMAIN s : x = s[k]
    BY DEF Range
  <2>2. k # i
    BY <1>6, <2>1
  <2>3. CASE k < i
    <3>1. k \in DOMAIN r /\ r[k] = s[k]
      BY <1>1, <1>2, <2>3
    <3> QED
      BY <2>1, <3>1 DEF Range
  <2>4. CASE ~(k < i)
    <3>1. k - 1 \in DOMAIN r /\ r[k - 1] = s[k]
      BY <1>1, <1>2, <2>2, <2>4
    <3> QED
      BY <2>1, <3>1 DEF Range
  <2> QED
    BY <2>3, <2>4
<1> QED
  BY <1>4, <1>5, <1>6 DEF r

\* Putting a new element in front of a list keeps it free of repetitions.
LEMMA PushDistinct ==
  ASSUME NEW S, NEW s \in Seq(S), NEW x \in S, x \notin Range(s), Distinct(s)
  PROVE  /\ <<x>> \o s \in Seq(S)
         /\ Len(<<x>> \o s) = Len(s) + 1
         /\ Distinct(<<x>> \o s)
         /\ Range(<<x>> \o s) = Range(s) \union {x}
<1> DEFINE r == <<x>> \o s
<1>1. /\ r \in Seq(S) /\ Len(r) = Len(s) + 1
      /\ r[1] = x
      /\ \A k \in 1 .. Len(s) : r[k + 1] = s[k]
  OBVIOUS
<1> HIDE DEF r
<1>2. /\ Len(s) \in Nat /\ DOMAIN s = 1 .. Len(s) /\ DOMAIN r = 1 .. Len(s) + 1
      /\ \A k \in DOMAIN r : k = 1 \/ (k - 1 \in DOMAIN s /\ r[k] = s[k - 1])
  BY <1>1
<1>3. Distinct(r)
  BY <1>1, <1>2 DEF Distinct, Range
<1>4. Range(r) = Range(s) \union {x}
  <2>1. Range(r) \subseteq Range(s) \union {x}
    BY <1>1, <1>2 DEF Range
  <2>2. ASSUME NEW k \in DOMAIN s PROVE s[k] \in Range(r)
    <3>1. k + 1 \in DOMAIN r /\ r[k + 1] = s[k]
      BY <1>1, <1>2
    <3> QED
      BY <3>1 DEF Range
  <2>3. x \in Range(r)
    BY <1>1, <1>2 DEF Range
  <2> QED
    BY <2>1, <2>2, <2>3 DEF Range
<1> QED
  BY <1>1, <1>3, <1>4 DEF r

\* So does putting it at the end.
LEMMA AppendElements ==
  ASSUME NEW S, NEW s \in Seq(S), NEW x \in S
  PROVE  /\ Append(s, x) \in Seq(S)
         /\ Range(Append(s, x)) = Range(s) \union {x}
         /\ x \notin Range(s) /\ Distinct(s) => Distinct(Append(s, x))
<1> DEFINE r == Append(s, x)
<1>1. /\ r \in Seq(S) /\ Len(r) = Len(s) + 1 /\ r[Len(s) + 1] = x
      /\ \A k \in 1 .. Len(s) : r[k] = s[k]
  BY AppendProperties
<1> HIDE DEF r
<1>2. /\ Len(s) \in Nat /\ DOMAIN s = 1 .. Len(s) /\ DOMAIN r = 1 .. Len(s) + 1
      /\ \A k \in DOMAIN r : k = Len(s) + 1 \/ k \in DOMAIN s
  BY <1>1
<1>3. Range(r) = Range(s) \union {x}
  <2>1. Range(r) \subseteq Range(s) \union {x}
    BY <1>1, <1>2 DEF Range
  <2>2. ASSUME NEW k \in DOMAIN s PROVE s[k] \in Range(r)
    BY <1>1, <1>2 DEF Range
  <2>3. x \in Range(r)
    BY <1>1, <1>2 DEF Range
  <2> QED
    BY <2>1, <2>2, <2>3 DEF Range
<1>4. ASSUME x \notin Range(s), Distinct(s) PROVE Distinct(r)
  BY <1>1, <1>2, <1>4 DEF Distinct, Range
<1> QED
  BY <1>1, <1>3, <1>4 DEF r

\* The last element moves to the slot that is dropped; the others stay.
LEMMA DropSlotElements ==
  ASSUME NEW S, NEW s \in Seq(S), NEW i \in 1 .. Len(s)
  PROVE  /\ DropSlot(s, i) \in Seq(S)
         /\ Len(DropSlot(s, i)) = Len(s) - 1
         /\ \A k \in 1 .. Len(s) - 1 :
               DropSlot(s, i)[k] = IF k = i THEN s[Len(s)] ELSE s[k]
<1> DEFINE t == [s EXCEPT ![i] = s[Len(s)]]
<1>1. /\ t \in Seq(S) /\ Len(t) = Len(s)
      /\ \A k \in 1 .. Len(s) : t[k] = IF k = i THEN s[Len(s)] ELSE s[k]
  BY ExceptSeq
<1>2. DropSlot(s, i) = SubSeq(t, 1, Len(s) - 1)
  BY <1>1 DEF DropSlot, Front, Last
<1> HIDE DEF t
<1> DEFINE n == Len(s) - 1
<1>3. n \in Nat /\ n - 1 + 1 = n /\ \A k \in 1 .. n : t[k] \in S /\ 1 + k - 1 = k
  BY <1>1
<1> HIDE DEF n
<1>4. /\ SubSeq(t, 1, n) \in Seq(S) /\ Len(SubSeq(t, 1, n)) = n
      /\ \A k \in 1 .. n : SubSeq(t, 1, n)[k] = t[k]
  BY <1>3, SubSeqProperties
<1> QED
  BY <1>1, <1>2, <1>4 DEF n
-----------------------------------------------------------------------------
(* Induction, for a set of numbers, from the fact that < is well founded.  *)

LEMMA InductionOverNat ==
  ASSUME NEW S, 0 \in S, \A n \in Nat : n \in S => n + 1 \in S
  PROVE  Nat \subseteq S
<1> DEFINE T == Nat \ S
           R == OpToRel(<, Nat)
<1>1. IsWellFoundedOn(R, Nat)
  BY NatLessThanWellFounded
<1>2. \A x, y \in Nat : <<x, y>> \in R <=> x < y
  BY DEF OpToRel
<1>3. T \subseteq Nat
  OBVIOUS
<1> HIDE DEF R, T
<1> SUFFICES ASSUME T # {} PROVE FALSE
  BY DEF T
<1>4. PICK x \in T : \A y \in T : ~ (<<y, x>> \in R)
  BY <1>1, <1>3, WFMin
<1>5. x \in Nat /\ x # 0
  BY <1>3 DEF T
<1>6. x - 1 \in Nat /\ x - 1 < x /\ x - 1 + 1 = x
  BY <1>5
<1>7. x - 1 \notin S
  BY <1>4, <1>5, <1>6 DEF T
<1>8. x - 1 \in T
  BY <1>6, <1>7 DEF T
<1> QED
  BY <1>2, <1>4, <1>5, <1>6, <1>8

\* g has the values of a loop that starts with a and whose i-th turn applies F[i].
IsLoop(g, a, F, n) ==
    g = [i \in 0 .. n |-> IF i = 0 THEN a ELSE F[i][g[i - 1]]]

\* Such a loop has values.
LEMMA LoopExists ==
  ASSUME NEW T, NEW a \in T, NEW n \in Nat, NEW F \in [1 .. n -> [T -> T]]
  PROVE  \E g \in [0 .. n -> T] : IsLoop(g, a, F, n)
<1> DEFINE Ok(g, m) == /\ g \in [0 .. m -> T] /\ g[0] = a
                       /\ \A i \in 1 .. m : g[i] = F[i][g[i - 1]]
           S == { m \in Nat : m <= n => \E g : Ok(g, m) }
<1>1. 0 \in S
  <2>1. Ok([i \in 0 .. 0 |-> a], 0)
    OBVIOUS
  <2> QED
    BY <2>1
<1>2. ASSUME NEW m \in Nat, m \in S PROVE m + 1 \in S
  <2> SUFFICES ASSUME m + 1 <= n PROVE \E g : Ok(g, m + 1)
    OBVIOUS
  <2>1. PICK g : Ok(g, m)
    BY <1>2
  <2> DEFINE h == [i \in 0 .. m + 1 |-> IF i = m + 1 THEN F[m + 1][g[m]] ELSE g[i]]
  <2>2. m + 1 \in 1 .. n /\ g[m] \in T
    BY <2>1
  <2>3. F[m + 1][g[m]] \in T
    BY <2>2
  <2>4. h \in [0 .. m + 1 -> T] /\ h[0] = a /\ h[m + 1] = F[m + 1][g[m]]
        /\ \A i \in 0 .. m : h[i] = g[i]
    BY <2>1, <2>3
  <2> HIDE DEF h
  <2>5. \A i \in 1 .. m + 1 : h[i] = F[i][h[i - 1]]
    <3> SUFFICES ASSUME NEW i \in 1 .. m + 1 PROVE h[i] = F[i][h[i - 1]]
      OBVIOUS
    <3>1. i - 1 \in 0 .. m /\ m \in 0 .. m
      OBVIOUS
    <3>2. CASE i = m + 1
      BY <2>4, <3>1, <3>2
    <3>3. CASE i # m + 1
      <4>1. i \in 1 .. m /\ i \in 0 .. m
        BY <3>3
      <4> QED
        BY <2>1, <2>4, <3>1, <4>1
    <3> QED
      BY <3>2, <3>3
  <2> QED
    BY <2>4, <2>5
<1> HIDE DEF S
<1>3. n \in S
  BY <1>1, <1>2, InductionOverNat
<1>4. PICK g : Ok(g, n)
  BY <1>3 DEF S
<1>5. \A i \in 0 .. n : i # 0 => i \in 1 .. n
  OBVIOUS
<1>6. IsLoop(g, a, F, n)
  BY <1>4, <1>5 DEF IsLoop
<1> QED
  BY <1>4, <1>6

\* What is so before the loop, and stays so at each turn, is so after it.
LEMMA LoopInvariant ==
  ASSUME NEW n \in Nat, NEW I,
         0 \in I, \A i \in 1 .. n : i - 1 \in I => i \in I
  PROVE  n \in I
<1> DEFINE S == { m \in Nat : m <= n => m \in I }
<1>1. 0 \in S
  OBVIOUS
<1>2. ASSUME NEW m \in Nat, m \in S PROVE m + 1 \in S
  <2> SUFFICES ASSUME m + 1 <= n PROVE m + 1 \in I
    OBVIOUS
  <2>1. m + 1 \in 1 .. n /\ m + 1 - 1 \in I
    BY <1>2
  <2> QED
    BY <2>1
<1> HIDE DEF S
<1>3. n \in S
  BY <1>1, <1>2, InductionOverNat
<1> QED
  BY <1>3 DEF S
-----------------------------------------------------------------------------
(* Quotients and remainders.                                               *)

LEMMA Division ==
  ASSUME NEW B \in Nat \ {0}, NEW k \in Nat
  PROVE  /\ k \div B \in Nat /\ k % B \in 0 .. B - 1
         /\ k = (k \div B) * B + (k % B)
OBVIOUS

\* Multiples of a word's width, in order.
LEMMA Products ==
  ASSUME NEW B \in Nat \ {0}, NEW v \in Nat, NEW w \in Nat
  PROVE  /\ v * B \in Nat
         /\ (v + 1) * B = v * B + B
         /\ v < w => (v + 1) * B <= w * B
         /\ v <= w => v * B <= w * B
<1>1. v * B \in Nat /\ (v + 1) * B = v * B + B
  OBVIOUS
<1>2. \A d \in Nat : (v + d) * B = v * B + d * B /\ d * B \in Nat
  OBVIOUS
<1>3. v <= w => v * B <= w * B
  <2> SUFFICES ASSUME v <= w PROVE v * B <= w * B
    OBVIOUS
  <2>1. w - v \in Nat /\ w = v + (w - v)
    OBVIOUS
  <2> QED
    BY <1>1, <1>2, <2>1
<1>4. v < w => (v + 1) * B <= w * B
  <2> SUFFICES ASSUME v < w PROVE (v + 1) * B <= w * B
    OBVIOUS
  <2>1. w - v - 1 \in Nat /\ w = v + ((w - v - 1) + 1)
    OBVIOUS
  <2>2. (v + ((w - v - 1) + 1)) * B = v * B + ((w - v - 1) + 1) * B
    BY <1>2, <2>1
  <2>3. ((w - v - 1) + 1) * B = (w - v - 1) * B + B /\ (w - v - 1) * B \in Nat
    BY <2>1
  <2> QED
    BY <1>1, <2>1, <2>2, <2>3
<1> QED
  BY <1>1, <1>3, <1>4

\* Numbers are in the order of their quotients, and of their remainders where
\* these are equal.
LEMMA QuotientOrder ==
  ASSUME NEW B \in Nat \ {0}, NEW a \in Nat, NEW b \in Nat
  PROVE  a <= b <=> \/ a \div B < b \div B
                    \/ a \div B = b \div B /\ a % B <= b % B
<1> DEFINE v == a \div B
           w == b \div B
           p == a % B
           q == b % B
<1>1. /\ v \in Nat /\ w \in Nat /\ p \in 0 .. B - 1 /\ q \in 0 .. B - 1
      /\ a = v * B + p /\ b = w * B + q
  BY Division
<1> HIDE DEF v, w, p, q
<1>2. /\ v * B \in Nat /\ w * B \in Nat
      /\ (v + 1) * B = v * B + B /\ (w + 1) * B = w * B + B
      /\ v < w => (v + 1) * B <= w * B
      /\ w < v => (w + 1) * B <= v * B
  BY <1>1, Products
<1>3. CASE v < w
  BY <1>1, <1>2, <1>3 DEF v, w
<1>4. CASE w < v
  BY <1>1, <1>2, <1>4 DEF v, w
<1>5. CASE v = w
  <2>1. a <= b <=> p <= q
    BY <1>1, <1>2, <1>5
  <2> QED
    BY <2>1, <1>5, <1>1 DEF v, w, p, q
<1> QED
  BY <1>1, <1>3, <1>4, <1>5

\* Word and position tell the bit.
LEMMA QuotientIs ==
  ASSUME NEW B \in Nat \ {0}, NEW w \in Nat, NEW p \in 0 .. B - 1
  PROVE  w * B + p \in Nat /\ (w * B + p) \div B = w /\ (w * B + p) % B = p
<1> DEFINE k == w * B + p
           v == k \div B
           q == k % B
<1>1. w * B \in Nat /\ k \in Nat /\ k = w * B + p
  BY Products
<1> HIDE DEF k
<1>2. v \in Nat /\ q \in 0 .. B - 1 /\ k = v * B + q
  BY <1>1, Division
<1> HIDE DEF v, q
<1>3. /\ v * B \in Nat
      /\ (v + 1) * B = v * B + B /\ (w + 1) * B = w * B + B
      /\ v < w => (v + 1) * B <= w * B
      /\ w < v => (w + 1) * B <= v * B
  BY <1>2, Products
<1>4. v = w
  BY <1>1, <1>2, <1>3
<1>5. v * B = w * B
  BY <1>4
<1>6. q = p
  BY <1>1, <1>2, <1>3, <1>5
<1> QED
  BY <1>1, <1>4, <1>6 DEF v, q, k
=============================================================================
