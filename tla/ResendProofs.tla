---------------------------- MODULE ResendProofs ----------------------------
(***************************************************************************)
(* Theorems about the bit array of hw2/help.c and the loops of resend in   *)
(* hw2/client.c, for words of any width, files of any size and commands of *)
(* any number of ranges: the words implement a set of block numbers, and   *)
(* the loops ask for the holes of the file and nothing else.               *)
(***************************************************************************)
EXTENDS Resend, ListLemmas, FiniteSetTheorems

-----------------------------------------------------------------------------
(* The array.                                                              *)

\* The words have no one bit past the last in use.
ArrayOK ==
    /\ nbits \in Sizes
    /\ array \in [Words -> SUBSET Positions]
    /\ \A w \in Words : \A p \in array[w] : w * BITSPERLONG + p < nbits

\* The word of a bit is in the array.
LEMMA WordHolds ==
  ASSUME NEW n \in Nat \ {0}, NEW k \in 0 .. n - 1
  PROVE  k \div BITSPERLONG \in 0 .. BITSIZE(n) - 1
<1> DEFINE B == BITSPERLONG
<1>1. B \in Nat \ {0} /\ n \in Nat /\ k \in Nat
  BY WordAssumption
<1> HIDE DEF B
<1>2. /\ k \div B \in Nat /\ n \div B \in Nat /\ k % B \in 0 .. B - 1 /\ n % B \in 0 .. B - 1
  BY <1>1, Division
<1>3. ~(n <= k) /\ k <= n
  OBVIOUS
<1>4. \/ k \div B < n \div B
      \/ k \div B = n \div B /\ k % B < n % B
  <2>1. ~(n \div B < k \div B) /\ ~(n \div B = k \div B /\ n % B <= k % B)
    BY <1>1, <1>3, QuotientOrder
  <2> QED
    BY <1>2, <2>1
<1>5. BITSIZE(n) = n \div B + (IF n % B # 0 THEN 1 ELSE 0)
  BY DEF BITSIZE, B
<1>6. n % B # 0 \/ k \div B < n \div B
  BY <1>2, <1>4
<1>7. k \div B \in 0 .. BITSIZE(n) - 1
  BY <1>2, <1>4, <1>5, <1>6
<1> QED
  BY <1>7 DEF B

\* Bits by word and position, and by number.
LEMMA BitsOfWords ==
  ASSUME ArrayOK
  PROVE  /\ nbits \in Nat \ {0}
         /\ Members \subseteq 0 .. nbits - 1
         /\ \A w \in Words, p \in Positions :
               /\ w * BITSPERLONG + p \in Nat
               /\ p \in array[w] <=> w * BITSPERLONG + p \in Members
<1>1. nbits \in Nat \ {0}
  BY SizesAssumption DEF ArrayOK
<1>2. ASSUME NEW w \in Words, NEW p \in Positions
      PROVE  /\ w * BITSPERLONG + p \in Nat
             /\ p \in array[w] <=> w * BITSPERLONG + p \in Members
  <2> DEFINE k == w * BITSPERLONG + p
  <2>1. w \in Nat /\ p \in 0 .. BITSPERLONG - 1 /\ BITSPERLONG \in Nat \ {0}
    BY WordAssumption DEF Words, Positions
  <2>2. k \in Nat /\ k \div BITSPERLONG = w /\ k % BITSPERLONG = p
    BY <2>1, QuotientIs
  <2>3. p \in array[w] => k < nbits
    BY DEF ArrayOK
  <2> HIDE DEF k
  <2>4. k \in Members <=> k < nbits /\ p \in array[w]
    BY <1>1, <2>2 DEF Members, bits_testbit
  <2> QED
    BY <2>2, <2>3, <2>4 DEF k
<1>3. Members \subseteq 0 .. nbits - 1
  BY DEF Members
<1> QED
  BY <1>1, <1>2, <1>3

\* Nothing changes, nothing changes.
LEMMA SameArray ==
  ASSUME ArrayOK, UNCHANGED vars
  PROVE  ArrayOK' /\ Members' = Members
BY DEF ArrayOK, vars, Words, Members, bits_testbit

\* A new array with the bits of S and no others.
LEMMA NewWords ==
  ASSUME ArrayOK, nbits' = nbits, NEW S \in SUBSET (0 .. nbits - 1),
         array' \in [Words -> SUBSET Positions],
         \A w \in Words, p \in Positions : p \in array'[w] <=> w * BITSPERLONG + p \in S
  PROVE  ArrayOK' /\ Members' = S
<1>1. nbits \in Nat \ {0} /\ Words' = Words
  BY BitsOfWords DEF Words
<1>2. ArrayOK'
  <2>1. \A w \in Words : \A p \in array'[w] : p \in Positions /\ w * BITSPERLONG + p \in S
    OBVIOUS
  <2>2. \A w \in Words : \A p \in array'[w] : w * BITSPERLONG + p < nbits
    <3>1. \A x \in S : x < nbits
      BY <1>1
    <3> QED
      BY <2>1, <3>1
  <2> QED
    BY <1>1, <2>2 DEF ArrayOK, Positions
<1>3. ASSUME NEW k \in 0 .. nbits - 1
      PROVE  k \in Members' <=> k \in S
  <2> DEFINE w == k \div BITSPERLONG
             p == k % BITSPERLONG
  <2>1. w \in Words
    BY <1>1, WordHolds DEF Words
  <2>4. k \in Nat /\ BITSPERLONG \in Nat \ {0}
    BY WordAssumption
  <2>5. p \in Positions /\ k = w * BITSPERLONG + p
    BY <2>4, Division DEF Positions
  <2>2. k \in Members' <=> p \in array'[w]
    BY <1>1 DEF Members, bits_testbit
  <2> HIDE DEF w, p
  <2> QED
    BY <2>1, <2>2, <2>5
<1>4. Members' \subseteq 0 .. nbits - 1
  BY DEF Members
<1> QED
  BY <1>2, <1>3, <1>4

\* bits_empty, which looks at whole words, sees what bits_testbit sees.
LEMMA EmptyIsEmpty ==
  ArrayOK => (bits_empty <=> Members = {})
<1> SUFFICES ASSUME ArrayOK PROVE bits_empty <=> Members = {}
  OBVIOUS
<1>1. ASSUME NEW w \in Words, NEW p \in array[w] PROVE Members # {}
  BY BitsOfWords DEF ArrayOK
<1>2. ASSUME NEW k \in Members PROVE \E w \in Words : array[w] # {}
  BY BitsOfWords, WordHolds DEF Members, bits_testbit, Words
<1> QED
  BY <1>1, <1>2 DEF bits_empty

\* Word and position name one bit.
LEMMA OneBit ==
  ASSUME ArrayOK, NEW bit \in Nat, bit < nbits
  PROVE  LET w == bit \div BITSPERLONG
             p == bit % BITSPERLONG
         IN  /\ w \in Words /\ p \in Positions
             /\ \A v \in Words, q \in Positions :
                   v * BITSPERLONG + q = bit <=> v = w /\ q = p
<1> DEFINE w == bit \div BITSPERLONG
           p == bit % BITSPERLONG
<1>1. bit \in 0 .. nbits - 1 /\ nbits \in Nat \ {0} /\ BITSPERLONG \in Nat \ {0}
  BY BitsOfWords, WordAssumption
<1>2. w \in Words
  BY <1>1, WordHolds DEF Words
<1>3. p \in Positions /\ bit = w * BITSPERLONG + p
  BY <1>1, Division DEF Positions
<1>4. ASSUME NEW v \in Words, NEW q \in Positions, v * BITSPERLONG + q = bit
      PROVE  v = w /\ q = p
  BY <1>1, <1>4, QuotientIs DEF Words, Positions
<1> HIDE DEF w, p
<1>5. \A v \in Words, q \in Positions : v * BITSPERLONG + q = bit <=> v = w /\ q = p
  BY <1>3, <1>4
<1> QED
  BY <1>2, <1>3, <1>5 DEF w, p

\* bits_setbit adds its bit,
LEMMA SetBitSets ==
  ASSUME ArrayOK, NEW bit \in Nat, bits_setbit(bit), nbits' = nbits
  PROVE  ArrayOK' /\ Members' = Members \union {bit}
<1> DEFINE w == bit \div BITSPERLONG
           p == bit % BITSPERLONG
           S == Members \union {bit}
<1>1. /\ bit < nbits /\ array' = [array EXCEPT ![w] = @ \union {p}]
      /\ array \in [Words -> SUBSET Positions]
  BY DEF bits_setbit, ArrayOK
<1>2. /\ w \in Words /\ p \in Positions
      /\ \A v \in Words, q \in Positions : v * BITSPERLONG + q = bit <=> v = w /\ q = p
  BY <1>1, OneBit
<1> HIDE DEF w, p
<1>3. array' \in [Words -> SUBSET Positions]
  BY <1>1, <1>2
<1>4. \A v \in Words, q \in Positions : q \in array'[v] <=> q \in array[v] \/ (v = w /\ q = p)
  BY <1>1, <1>2
<1>5. \A v \in Words, q \in Positions : q \in array'[v] <=> v * BITSPERLONG + q \in S
  BY <1>2, <1>4, BitsOfWords
<1>6. S \in SUBSET (0 .. nbits - 1)
  BY <1>1, BitsOfWords
<1> QED
  BY <1>3, <1>5, <1>6, NewWords

\* bits_clearbit removes it,
LEMMA ClearBitClears ==
  ASSUME ArrayOK, NEW bit \in Nat, bits_clearbit(bit), nbits' = nbits
  PROVE  ArrayOK' /\ Members' = Members \ {bit}
<1> DEFINE w == bit \div BITSPERLONG
           p == bit % BITSPERLONG
           S == Members \ {bit}
<1>1. /\ bit < nbits /\ array' = [array EXCEPT ![w] = @ \ {p}]
      /\ array \in [Words -> SUBSET Positions]
  BY DEF bits_clearbit, ArrayOK
<1>2. /\ w \in Words /\ p \in Positions
      /\ \A v \in Words, q \in Positions : v * BITSPERLONG + q = bit <=> v = w /\ q = p
  BY <1>1, OneBit
<1> HIDE DEF w, p
<1>3. array' \in [Words -> SUBSET Positions]
  BY <1>1, <1>2
<1>4. \A v \in Words, q \in Positions : q \in array'[v] <=> q \in array[v] /\ ~(v = w /\ q = p)
  BY <1>1, <1>2
<1>5. \A v \in Words, q \in Positions : q \in array'[v] <=> v * BITSPERLONG + q \in S
  BY <1>2, <1>4, BitsOfWords
<1>6. S \in SUBSET (0 .. nbits - 1)
  BY <1>1, BitsOfWords
<1> QED
  BY <1>3, <1>5, <1>6, NewWords

\* and bits_clearall removes all.
LEMMA ClearAllClears ==
  ASSUME ArrayOK, bits_clearall, nbits' = nbits
  PROVE  ArrayOK' /\ Members' = {}
<1>1. /\ array' \in [Words -> SUBSET Positions]
      /\ \A v \in Words, q \in Positions : q \in array'[v] <=> v * BITSPERLONG + q \in {}
  BY DEF bits_clearall
<1> QED
  BY <1>1, NewWords

\* The masks of bits_setrange: a run of ones moved up.
LEMMA ShiftedOnes ==
  ASSUME NEW n \in Nat, NEW count \in Nat, NEW q \in Positions
  PROVE  q \in ShiftLeft(0 .. n - 1, count) <=> count <= q /\ q < count + n
<1>1. q \in Nat /\ (count <= q => q - count \in Nat /\ (q - count) + count = q)
  BY WordAssumption DEF Positions
<1>2. q \in ShiftLeft(0 .. n - 1, count) <=> \E p \in 0 .. n - 1 : q = p + count
  BY DEF ShiftLeft
<1> QED
  BY <1>1, <1>2

\* The masks of the first and the last word, the undefined shift aside.
LEMMA Masks ==
  ASSUME NEW q \in Positions, NEW fp \in Positions, NEW lp \in Positions, NEW wraps \in BOOLEAN
  PROVE  /\ q \in (IF fp = 0 THEN Positions
                   ELSE ShiftLeft(LowOnes(BITSPERLONG - fp + 1, wraps), fp))
              <=> fp <= q /\ ~(wraps /\ fp = 1)
         /\ q \in (IF lp = BITSPERLONG - 1 THEN Positions ELSE LowOnes(lp + 1, wraps))
              <=> q <= lp
         /\ fp <= lp =>
              (q \in (IF fp = 0 /\ lp = BITSPERLONG - 1 THEN Positions
                      ELSE ShiftLeft(LowOnes(lp - fp + 1, wraps), fp))
                 <=> fp <= q /\ q <= lp)
<1> DEFINE B    == BITSPERLONG
           low  == IF fp = 0 THEN Positions ELSE ShiftLeft(LowOnes(B - fp + 1, wraps), fp)
           high == IF lp = B - 1 THEN Positions ELSE LowOnes(lp + 1, wraps)
           mid  == IF fp = 0 /\ lp = B - 1 THEN Positions
                   ELSE ShiftLeft(LowOnes(lp - fp + 1, wraps), fp)
<1>1. B \in Nat \ {0} /\ q \in 0 .. B - 1 /\ fp \in 0 .. B - 1 /\ lp \in 0 .. B - 1
  BY WordAssumption DEF Positions
<1>2. q \in low <=> fp <= q /\ ~(wraps /\ fp = 1)
  <2>1. CASE fp = 0
    <3>1. low = Positions
      BY <2>1
    <3> HIDE DEF low
    <3>2. q \in low /\ fp <= q /\ fp # 1
      BY <1>1, <2>1, <3>1
    <3> QED
      BY <3>2
  <2>2. CASE fp = 1 /\ wraps
    <3>1. B % B = 0
      <4>1. 1 * B + 0 = B /\ 0 \in 0 .. B - 1
        BY <1>1
      <4> QED
        BY <1>1, <4>1, QuotientIs
    <3>2. LowOnes(B - fp + 1, wraps) = 0 .. 0 - 1
      BY <1>1, <2>2, <3>1 DEF LowOnes
    <3>5. fp # 0
      BY <2>2
    <3>3. low = ShiftLeft(0 .. 0 - 1, fp)
      BY <3>2, <3>5
    <3> HIDE DEF low
    <3>4. q \notin low
      <4>1. fp \in Nat /\ ~(q < fp + 0 /\ fp <= q)
        BY <1>1
      <4> QED
        BY <3>3, <4>1, ShiftedOnes
    <3> QED
      BY <2>2, <3>4
  <2>3. CASE fp = 1 /\ ~wraps
    <3>1. LowOnes(B - fp + 1, wraps) = 0 .. B - 1
      BY <1>1, <2>3 DEF LowOnes, Positions
    <3>2. low = ShiftLeft(0 .. B - 1, fp)
      BY <2>3, <3>1
    <3> HIDE DEF low
    <3>3. q \in low <=> fp <= q
      BY <1>1, <3>2, ShiftedOnes
    <3> QED
      BY <2>3, <3>3
  <2>4. CASE fp > 1
    <3>1. LowOnes(B - fp + 1, wraps) = 0 .. (B - fp + 1) - 1 /\ B - fp + 1 \in Nat
      BY <1>1, <2>4 DEF LowOnes
    <3>2. low = ShiftLeft(0 .. (B - fp + 1) - 1, fp)
      BY <2>4, <3>1
    <3> HIDE DEF low
    <3>3. q \in low <=> fp <= q
      <4> DEFINE n == B - fp + 1
      <4>1. n \in Nat /\ q < fp + n /\ fp \in Nat
        BY <1>1, <3>1
      <4>2. low = ShiftLeft(0 .. n - 1, fp)
        BY <3>2
      <4> HIDE DEF n
      <4> QED
        BY <4>1, <4>2, ShiftedOnes
    <3>4. fp # 1
      BY <2>4
    <3> QED
      BY <3>3, <3>4
  <2> HIDE DEF low
  <2> QED
    BY <1>1, <2>1, <2>2, <2>3, <2>4
<1>3. q \in high <=> q <= lp
  <2>1. CASE lp = B - 1
    BY <1>1, <2>1
  <2>2. CASE lp # B - 1
    <3>1. high = 0 .. (lp + 1) - 1
      BY <1>1, <2>2 DEF LowOnes
    <3> QED
      BY <1>1, <3>1
  <2> QED
    BY <2>1, <2>2
<1>4. ASSUME fp <= lp PROVE q \in mid <=> fp <= q /\ q <= lp
  <2>1. CASE fp = 0 /\ lp = B - 1
    <3>1. mid = Positions
      BY <2>1
    <3> HIDE DEF mid
    <3>2. q \in mid /\ fp <= q /\ q <= lp
      BY <1>1, <2>1, <3>1
    <3> QED
      BY <3>2
  <2>2. CASE ~(fp = 0 /\ lp = B - 1)
    <3>1. LowOnes(lp - fp + 1, wraps) = 0 .. (lp - fp + 1) - 1 /\ lp - fp + 1 \in Nat
      BY <1>1, <1>4, <2>2 DEF LowOnes
    <3>2. mid = ShiftLeft(0 .. (lp - fp + 1) - 1, fp)
      BY <2>2, <3>1
    <3> HIDE DEF mid
    <3> DEFINE n == lp - fp + 1
    <3>3. n \in Nat /\ (q < fp + n <=> q <= lp) /\ fp \in Nat
      BY <1>1, <3>1
    <3>4. mid = ShiftLeft(0 .. n - 1, fp)
      BY <3>2
    <3> HIDE DEF n
    <3> QED
      BY <3>3, <3>4, ShiftedOnes
  <2> QED
    BY <2>1, <2>2
<1> QED
  BY <1>2, <1>3, <1>4

\* bits_setrange, word by word, adds the bits of its range.
LEMMA SetRangeSets ==
  ASSUME ArrayOK, NEW first \in Nat, NEW last \in Nat, NEW wraps \in BOOLEAN,
         bits_setrange(first, last, wraps), nbits' = nbits
  PROVE  ArrayOK' /\ Members' = Members \union RangeBits(nbits, first, last, wraps)
<1> DEFINE f  == ClampFirst(nbits, first, last)
           l  == ClampLast(nbits, last)
           fw == f \div BITSPERLONG
           lw == l \div BITSPERLONG
           fp == f % BITSPERLONG
           lp == l % BITSPERLONG
           R  == RangeBits(nbits, first, last, wraps)
           S  == Members \union R
           lowmask  == IF fp = 0 THEN Positions
                       ELSE ShiftLeft(LowOnes(BITSPERLONG - fp + 1, wraps), fp)
           highmask == IF lp = BITSPERLONG - 1 THEN Positions ELSE LowOnes(lp + 1, wraps)
           midmask  == IF fp = 0 /\ lp = BITSPERLONG - 1 THEN Positions
                       ELSE ShiftLeft(LowOnes(lp - fp + 1, wraps), fp)
           mask(w)  == IF fw # lw
                       THEN IF w = fw THEN lowmask
                            ELSE IF w = lw THEN highmask
                            ELSE IF fw < w /\ w < lw THEN Positions ELSE {}
                       ELSE IF w = fw THEN midmask ELSE {}
<1>1. BITSPERLONG \in Nat \ {0} /\ nbits \in Nat \ {0} /\ array \in [Words -> SUBSET Positions]
  BY WordAssumption, BitsOfWords DEF ArrayOK
<1>2. f \in 0 .. nbits - 1 /\ l \in 0 .. nbits - 1 /\ f <= l
  BY <1>1 DEF ClampFirst, ClampLast
<1> HIDE DEF f, l
<1>3. fw \in Words /\ lw \in Words /\ fw \in Nat /\ lw \in Nat
  <2>1. fw \in Words /\ lw \in Words
    BY <1>1, <1>2, WordHolds DEF Words
  <2> QED
    BY <2>1 DEF Words
<1>4. /\ fp \in 0 .. BITSPERLONG - 1 /\ lp \in 0 .. BITSPERLONG - 1
      /\ f = fw * BITSPERLONG + fp /\ l = lw * BITSPERLONG + lp
  BY <1>1, <1>2, Division
<1>5. f - fw * BITSPERLONG = fp /\ l - lw * BITSPERLONG = lp
  <2>1. fw * BITSPERLONG \in Nat /\ lw * BITSPERLONG \in Nat
    BY <1>1, <1>3, Products
  <2> HIDE DEF fw, lw, fp, lp
  <2> QED
    BY <1>1, <1>4, <2>1
<1>6. array' = IF fw # lw
               THEN [w \in Words |->
                       IF w = fw THEN array[w] \union lowmask
                       ELSE IF w = lw THEN array[w] \union highmask
                       ELSE IF fw < w /\ w < lw THEN Positions
                       ELSE array[w]]
               ELSE [array EXCEPT ![fw] = @ \union midmask]
  BY <1>5 DEF bits_setrange, f, l
<1>7. R = IF wraps /\ fp = 1 /\ lw # fw THEN (fw + 1) * BITSPERLONG .. l ELSE f .. l
  BY DEF RangeBits, f, l
<1>8. fw < lw \/ (fw = lw /\ fp <= lp)
  <2>1. f \in Nat /\ l \in Nat
    BY <1>2
  <2>2. f <= l <=> fw < lw \/ (fw = lw /\ fp <= lp)
    BY <1>1, <2>1, QuotientOrder
  <2> QED
    BY <1>2, <2>2
<1> HIDE DEF fw, lw, fp, lp, R
<1>9. \A w \in Words, q \in Positions : q \in mask(w) <=> w * BITSPERLONG + q \in R
  <2> TAKE w \in Words, q \in Positions
  <2> DEFINE k == w * BITSPERLONG + q
  <2>1. w \in Nat /\ q \in 0 .. BITSPERLONG - 1
    BY DEF Words, Positions
  <2>2. k \in Nat /\ k \div BITSPERLONG = w /\ k % BITSPERLONG = q
    BY <1>1, <2>1, QuotientIs
  <2>3. (fw + 1) * BITSPERLONG <= k <=> fw < w
    <3>1. /\ fw * BITSPERLONG \in Nat /\ w * BITSPERLONG \in Nat
          /\ (fw + 1) * BITSPERLONG = fw * BITSPERLONG + BITSPERLONG
          /\ fw < w => (fw + 1) * BITSPERLONG <= w * BITSPERLONG
          /\ w <= fw => w * BITSPERLONG <= fw * BITSPERLONG
      BY <1>1, <1>3, <2>1, Products
    <3> QED
      BY <1>1, <1>3, <2>1, <3>1
  <2> HIDE DEF k
  <2>11. f \in Nat /\ l \in Nat
    BY <1>2
  <2>4. f <= k <=> fw < w \/ (fw = w /\ fp <= q)
    BY <1>1, <2>11, <2>2, QuotientOrder DEF fw, fp
  <2>5. k <= l <=> w < lw \/ (w = lw /\ q <= lp)
    BY <1>1, <2>11, <2>2, QuotientOrder DEF lw, lp
  <2>6. (fw + 1) * BITSPERLONG \in Nat
    BY <1>1, <1>3
  <2>7. k \in R <=> /\ k <= l
                    /\ IF wraps /\ fp = 1 /\ lw # fw THEN fw < w ELSE f <= k
    BY <1>2, <1>7, <2>2, <2>3, <2>6
  <2>8. fp \in Positions /\ lp \in Positions
    BY <1>4 DEF Positions
  <2>9. /\ q \in lowmask <=> fp <= q /\ ~(wraps /\ fp = 1)
        /\ q \in highmask <=> q <= lp
        /\ fp <= lp => (q \in midmask <=> fp <= q /\ q <= lp)
    BY <2>8, Masks
  <2> HIDE DEF lowmask, highmask, midmask
  <2>10. q \in mask(w) <=> k \in R
    <3>1. CASE fw # lw
      BY <1>3, <1>4, <1>8, <2>1, <2>4, <2>5, <2>7, <2>9, <3>1
    <3>2. CASE fw = lw
      BY <1>3, <1>4, <1>8, <2>1, <2>4, <2>5, <2>7, <2>9, <3>2
    <3> QED
      BY <3>1, <3>2
  <2> QED
    BY <2>10 DEF k
<1>10. R \in SUBSET (0 .. nbits - 1)
  <2>1. (fw + 1) * BITSPERLONG \in Nat
    BY <1>1, <1>3
  <2> QED
    BY <1>1, <1>2, <1>7, <2>1
<1>11. lowmask \subseteq Positions /\ highmask \subseteq Positions /\ midmask \subseteq Positions
  <2>1. \A s, n : ShiftLeft(s, n) \subseteq Positions
    BY DEF ShiftLeft
  <2>2. LowOnes(lp + 1, wraps) \subseteq Positions
    <3>1. lp \in 0 .. BITSPERLONG - 1 /\ BITSPERLONG \in Nat \ {0}
      BY <1>1, <1>4
    <3>2. (lp + 1) % BITSPERLONG \in 0 .. BITSPERLONG - 1
      BY <3>1, Division
    <3> QED
      BY <3>1, <3>2 DEF LowOnes, Positions
  <2> QED
    BY <2>1, <2>2
<1> HIDE DEF lowmask, highmask, midmask
<1>12. /\ array' \in [Words -> SUBSET Positions]
       /\ \A w \in Words : array'[w] = array[w] \union mask(w)
  <2>1. CASE fw # lw
    BY <1>1, <1>6, <1>11, <2>1
  <2>2. CASE fw = lw
    BY <1>1, <1>3, <1>6, <1>11, <2>2
  <2> QED
    BY <2>1, <2>2
<1> HIDE DEF mask
<1>13. \A w \in Words, q \in Positions : q \in array'[w] <=> w * BITSPERLONG + q \in S
  BY <1>9, <1>12, BitsOfWords
<1>14. S \in SUBSET (0 .. nbits - 1)
  BY <1>10, BitsOfWords
<1> HIDE DEF S
<1>15. ArrayOK' /\ Members' = S
  BY <1>12, <1>13, <1>14, NewWords
<1> QED
  BY <1>15 DEF S, R

\* Every operation on the array is the operation on the set of its bits.
LEMMA ArrayNext ==
  ASSUME ArrayOK, Next
  PROVE  ArrayOK' /\ Abstract!Next
<1>1. nbits' = nbits /\ nbits \in Nat \ {0} /\ Members \subseteq 0 .. nbits - 1
  BY BitsOfWords DEF Next
<1>2. ASSUME NEW first \in Arguments, NEW last \in Arguments, NEW wraps \in BOOLEAN,
             bits_setrange(first, last, wraps)
      PROVE  ArrayOK' /\ Abstract!SetRange(first, last, wraps)
  <2>1. first \in Nat /\ last \in Nat
    BY SizesAssumption
  <2>2. ArrayOK' /\ Members' = Members \union RangeBits(nbits, first, last, wraps)
    BY <1>1, <1>2, <2>1, SetRangeSets
  <2> QED
    BY <2>2 DEF Abstract!SetRange, Abstract!RangeBits, Abstract!ClampFirst, Abstract!ClampLast,
                RangeBits, ClampFirst, ClampLast
<1>3. ASSUME NEW bit \in Arguments, bits_setbit(bit)
      PROVE  ArrayOK' /\ Abstract!SetBit(bit)
  <2>1. bit \in Nat
    BY SizesAssumption
  <2>2. ArrayOK' /\ Members' = Members \union {bit}
    BY <1>1, <1>3, <2>1, SetBitSets
  <2>3. {bit} \intersect 0 .. nbits - 1 = {bit}
    BY <1>1, <1>3, <2>1 DEF bits_setbit
  <2> QED
    BY <2>2, <2>3 DEF Abstract!SetBit
<1>4. ASSUME NEW bit \in Arguments, bits_clearbit(bit)
      PROVE  ArrayOK' /\ Abstract!ClearBit(bit)
  <2>1. bit \in Nat
    BY SizesAssumption
  <2> QED
    BY <1>1, <1>4, <2>1, ClearBitClears DEF Abstract!ClearBit
<1>5. ASSUME bits_clearall PROVE ArrayOK' /\ Abstract!ClearAll
  BY <1>1, <1>5, ClearAllClears DEF Abstract!ClearAll
<1>6. ArrayOK'
  BY <1>2, <1>3, <1>4, <1>5 DEF Next
<1>7. bits_empty' = (Members' = {})
  <2>1. (bits_empty <=> Members = {})'
    BY <1>6, EmptyIsEmpty, PTL
  <2> QED
    BY <2>1 DEF bits_empty
<1> QED
  BY <1>1, <1>2, <1>3, <1>4, <1>5, <1>6, <1>7 DEF Next, Abstract!Next
-----------------------------------------------------------------------------
(* The loops of resend: what they have asked for.                          *)

Request == [first_block : Nat, last_block : Nat]

LoopTypeOK ==
    /\ calling \in BOOLEAN /\ inner \in BOOLEAN /\ i \in Nat
    /\ ranges \in Seq(Request) /\ sent \in Seq(Seq(Request))
    /\ ~calling => i = 0 /\ ~inner /\ ranges = <<>> /\ sent = <<>>
    /\ inner => i \in 1 .. nbits /\ Len(ranges) \in 1 .. MAXRANGES
    /\ ~inner => Len(ranges) < MAXRANGES
    /\ \A k \in DOMAIN sent : Len(sent[k]) \in 1 .. MAXRANGES

AskedBy(R) == UNION { Covered(r) : r \in R }

\* Inside the inner loop the last range is open, and all blocks passed since it
\* was opened are missing.
AskedOK ==
    /\ ~inner => Requested = { k \in Members : k < i }
    /\ inner => LET open == ranges[Len(ranges)]
                IN  /\ open.last_block = END /\ open.first_block < i
                    /\ open.first_block .. i - 1 \subseteq Members
                    /\ AskedBy(SentRanges \union { ranges[k] : k \in 1 .. Len(ranges) - 1 })
                         = { k \in Members : k < open.first_block }

\* The command is sent or not: its ranges stay.
LEMMA NextBlockKeeps ==
  ASSUME LoopTypeOK, NEW r \in Seq(Request), NextBlock(r), Len(r) <= MAXRANGES
  PROVE  /\ i' = i + 1 /\ ranges' \in Seq(Request) /\ sent' \in Seq(Seq(Request))
         /\ Len(ranges') < MAXRANGES
         /\ \A k \in DOMAIN sent' : Len(sent'[k]) \in 1 .. MAXRANGES
         /\ SentRanges' \union Range(ranges') = SentRanges \union Range(r)
<1>1. MAXRANGES \in Nat \ {0} /\ Len(r) \in Nat
  BY HolesAssumption
<1>2. i' = i + 1
  BY DEF NextBlock
<1>3. CASE Len(r) = MAXRANGES
  <2> DEFINE t == Append(sent, r)
  <2>1. sent' = t /\ ranges' = <<>>
    BY <1>3 DEF NextBlock
  <2>2. /\ t \in Seq(Seq(Request)) /\ Len(t) = Len(sent) + 1 /\ t[Len(sent) + 1] = r
        /\ \A k \in 1 .. Len(sent) : t[k] = sent[k]
        /\ DOMAIN t = 1 .. Len(sent) + 1 /\ DOMAIN sent = 1 .. Len(sent) /\ Len(sent) \in Nat
    BY AppendProperties DEF LoopTypeOK
  <2> HIDE DEF t
  <2>3. \A k \in DOMAIN t : k = Len(sent) + 1 \/ k \in DOMAIN sent
    BY <2>2
  <2>4. \A k \in DOMAIN t : Len(t[k]) \in 1 .. MAXRANGES
    <3>1. \A k \in DOMAIN sent : Len(sent[k]) \in 1 .. MAXRANGES
      BY DEF LoopTypeOK
    <3>2. Len(t[Len(sent) + 1]) \in 1 .. MAXRANGES
      BY <1>1, <1>3, <2>2
    <3>3. \A k \in DOMAIN sent : Len(t[k]) \in 1 .. MAXRANGES
      BY <2>2, <3>1
    <3> QED
      BY <2>3, <3>2, <3>3
  <2>5. UNION { Range(t[k]) : k \in DOMAIN t } = SentRanges \union Range(r)
    BY <2>2, <2>3 DEF SentRanges
  <2>6. Range(<<>>) = {} /\ <<>> \in Seq(Request) /\ Len(<<>>) = 0
    BY DEF Range
  <2>7. SentRanges' = SentRanges \union Range(r)
    BY <2>1, <2>5 DEF SentRanges
  <2>8. Len(ranges') < MAXRANGES /\ ranges' \in Seq(Request) /\ Range(ranges') = {}
    BY <1>1, <2>1, <2>6
  <2> QED
    BY <1>2, <2>1, <2>2, <2>4, <2>7, <2>8
<1>4. CASE Len(r) # MAXRANGES
  BY <1>1, <1>2, <1>4 DEF NextBlock, LoopTypeOK, SentRanges
<1> QED
  BY <1>3, <1>4

\* Closing the range that is open.
Closed(s, e) == [s EXCEPT ![Len(s)].last_block = e]

\* Closing the last range of a command changes that range alone.
LEMMA ClosedRange ==
  ASSUME NEW s \in Seq(Request), s # <<>>, NEW e \in Nat
  PROVE  /\ Closed(s, e) \in Seq(Request) /\ Len(Closed(s, e)) = Len(s)
         /\ \A k \in 1 .. Len(s) - 1 : Closed(s, e)[k] = s[k]
         /\ Closed(s, e)[Len(s)] = [first_block |-> s[Len(s)].first_block, last_block |-> e]
         /\ Range(Closed(s, e)) =
               { s[k] : k \in 1 .. Len(s) - 1 }
                  \union { [first_block |-> s[Len(s)].first_block, last_block |-> e] }
<1> DEFINE n == Len(s)
           one == [s[n] EXCEPT !.last_block = e]
           r == Closed(s, e)
<1>1. n \in Nat \ {0} /\ n \in 1 .. Len(s) /\ s[n] \in Request
  OBVIOUS
<1>2. one \in Request /\ one = [first_block |-> s[n].first_block, last_block |-> e]
  BY <1>1 DEF Request
<1>3. r = [s EXCEPT ![n] = one]
  BY DEF Closed
<1> HIDE DEF one, r
<1>4. /\ r \in Seq(Request) /\ Len(r) = n /\ r[n] = one
      /\ \A k \in 1 .. n - 1 : r[k] = s[k]
      /\ DOMAIN r = 1 .. n
  BY <1>1, <1>2, <1>3, ExceptSeq
<1>5. Range(r) = { s[k] : k \in 1 .. n - 1 } \union { one }
  <2>1. \A k \in 1 .. n : k = n \/ k \in 1 .. n - 1
    BY <1>1
  <2>2. 1 .. n - 1 \subseteq 1 .. n /\ n \in 1 .. n
    BY <1>1
  <2> HIDE DEF n
  <2> QED
    BY <1>4, <2>1, <2>2 DEF Range
<1> QED
  BY <1>2, <1>4, <1>5 DEF r

\* A turn of the loops keeps their types.
LEMMA LoopTypeNext ==
  ASSUME ArrayOK, LoopTypeOK, Loop, UNCHANGED vars
  PROVE  LoopTypeOK'
<1>1. MAXRANGES \in Nat \ {0} /\ END \in Nat /\ nbits \in Nat \ {0} /\ nbits' = nbits
  BY HolesAssumption, BitsOfWords DEF vars
<1>2. CASE Call
  BY <1>1, <1>2 DEF Call, LoopTypeOK
<1>3. CASE OpenRange
  <2> DEFINE o == [first_block |-> i, last_block |-> END]
             t == Append(ranges, o)
  <2>1. o \in Request
    BY <1>1 DEF Request, LoopTypeOK
  <2> HIDE DEF o
  <2>2. t \in Seq(Request) /\ Len(t) = Len(ranges) + 1 /\ Len(ranges) \in Nat
    BY <2>1, AppendProperties DEF LoopTypeOK
  <2>3. ranges' = t
    BY <1>3 DEF OpenRange, o
  <2> HIDE DEF t
  <2> QED
    BY <1>1, <1>3, <2>2, <2>3 DEF OpenRange, LoopTypeOK
<1>4. CASE Extend
  BY <1>1, <1>4 DEF Extend, LoopTypeOK
<1>5. CASE CloseRange
  <2> DEFINE r == Closed(ranges, i - 1)
  <2>1. /\ i - 1 \in Nat /\ ranges # <<>> /\ Len(ranges) <= MAXRANGES
        /\ ranges \in Seq(Request) /\ calling
    BY <1>1, <1>5 DEF CloseRange, LoopTypeOK
  <2>2. r \in Seq(Request) /\ Len(r) <= MAXRANGES
    BY <2>1, ClosedRange
  <2>3. NextBlock(r) /\ inner' = FALSE /\ calling' = calling
    BY <1>5 DEF CloseRange, Closed, Current
  <2> HIDE DEF r
  <2>4. /\ i' = i + 1 /\ ranges' \in Seq(Request) /\ sent' \in Seq(Seq(Request))
        /\ Len(ranges') < MAXRANGES
        /\ \A k \in DOMAIN sent' : Len(sent'[k]) \in 1 .. MAXRANGES
    BY <2>2, <2>3, NextBlockKeeps
  <2>5. i' \in Nat /\ calling' = TRUE
    BY <1>5, <2>1, <2>3, <2>4 DEF LoopTypeOK
  <2> QED
    BY <2>3, <2>4, <2>5, Zenon DEF LoopTypeOK
<1>6. CASE RunOut
  <2>1. NextBlock(ranges) /\ inner' = FALSE /\ calling' = calling
    BY <1>6 DEF RunOut
  <2>2. ranges \in Seq(Request) /\ Len(ranges) <= MAXRANGES
    BY <1>1, <1>6 DEF RunOut, LoopTypeOK
  <2>3. /\ i' = i + 1 /\ ranges' \in Seq(Request) /\ sent' \in Seq(Seq(Request))
        /\ Len(ranges') < MAXRANGES
        /\ \A k \in DOMAIN sent' : Len(sent'[k]) \in 1 .. MAXRANGES
    BY <2>1, <2>2, NextBlockKeeps
  <2>4. i' \in Nat /\ calling' = TRUE
    BY <1>6, <2>1, <2>3 DEF LoopTypeOK, RunOut
  <2> QED
    BY <2>1, <2>3, <2>4, Zenon DEF LoopTypeOK
<1>7. CASE Skip
  <2>1. NextBlock(ranges) /\ inner' = inner /\ calling' = calling
    BY <1>7 DEF Skip
  <2>2. ranges \in Seq(Request) /\ Len(ranges) <= MAXRANGES
    BY <1>1, <1>7 DEF Skip, LoopTypeOK
  <2>3. /\ i' = i + 1 /\ ranges' \in Seq(Request) /\ sent' \in Seq(Seq(Request))
        /\ Len(ranges') < MAXRANGES
        /\ \A k \in DOMAIN sent' : Len(sent'[k]) \in 1 .. MAXRANGES
    BY <2>1, <2>2, NextBlockKeeps
  <2> QED
    BY <1>7, <2>1, <2>3 DEF LoopTypeOK, Skip
<1>8. CASE SendRest
  <2>1. /\ ranges \in Seq(Request) /\ ranges # <<>> /\ Len(ranges) < MAXRANGES
        /\ sent \in Seq(Seq(Request))
    BY <1>8 DEF SendRest, LoopTypeOK
  <2>2. Len(ranges) \in 1 .. MAXRANGES
    BY <1>1, <2>1
  <2> DEFINE t == Append(sent, ranges)
  <2>3. /\ t \in Seq(Seq(Request)) /\ t[Len(sent) + 1] = ranges
        /\ \A k \in DOMAIN sent : t[k] = sent[k]
        /\ \A k \in DOMAIN t : k = Len(sent) + 1 \/ k \in DOMAIN sent
    BY <2>1, AppendProperties
  <2> HIDE DEF t
  <2>4. \A k \in DOMAIN t : Len(t[k]) \in 1 .. MAXRANGES
    <3>1. \A k \in DOMAIN sent : Len(t[k]) \in 1 .. MAXRANGES
      BY <2>3 DEF LoopTypeOK
    <3> QED
      BY <2>2, <2>3, <3>1
  <2>5. sent' = t /\ ranges' = <<>> /\ <<>> \in Seq(Request) /\ Len(<<>>) = 0
    BY <1>8 DEF SendRest, t
  <2>6. Len(ranges') < MAXRANGES /\ ranges' \in Seq(Request)
    BY <1>1, <2>5
  <2>7. i' \in Nat /\ calling' = TRUE /\ inner' = FALSE
    BY <1>8 DEF SendRest, LoopTypeOK
  <2>8. /\ sent' \in Seq(Seq(Request))
        /\ \A k \in DOMAIN sent' : Len(sent'[k]) \in 1 .. MAXRANGES
    BY <2>3, <2>4, <2>5
  <2> QED
    BY <2>6, <2>7, <2>8 DEF LoopTypeOK
<1>9. CASE Return
  <2>1. calling' = FALSE /\ inner' = FALSE /\ i' = 0 /\ sent' = <<>> /\ ranges' = <<>>
    BY <1>9 DEF Return, Finished, LoopTypeOK
  <2>2. /\ i' \in Nat /\ ranges' \in Seq(Request) /\ sent' \in Seq(Seq(Request))
        /\ Len(ranges') < MAXRANGES
        /\ \A k \in DOMAIN sent' : Len(sent'[k]) \in 1 .. MAXRANGES
    BY <1>1, <2>1
  <2> QED
    BY <2>1, <2>2, Zenon DEF LoopTypeOK
<1> QED
  BY <1>2, <1>3, <1>4, <1>5, <1>6, <1>7, <1>8, <1>9 DEF Loop

\* What two sets of ranges ask for.
LEMMA AskedUnion ==
  ASSUME NEW R, NEW Q
  PROVE  AskedBy(R \union Q) = AskedBy(R) \union AskedBy(Q)
BY DEF AskedBy

\* Before the first block.
LEMMA AskedAtStart ==
  ArrayOK /\ ~inner /\ i = 0 /\ ranges = <<>> /\ sent = <<>> => AskedOK
<1> SUFFICES ASSUME ArrayOK, ~inner, i = 0, ranges = <<>>, sent = <<>> PROVE AskedOK
  OBVIOUS
<1>1. SentRanges \union Range(ranges) = {}
  BY DEF SentRanges, Range
<1>2. \A k \in Members : ~(k < i)
  BY BitsOfWords
<1> QED
  BY <1>1, <1>2 DEF AskedOK, Requested

\* The blocks a step passes are asked for if they are missing, and no others.
LEMMA AskedNext ==
  ASSUME ArrayOK, LoopTypeOK, AskedOK, Loop, UNCHANGED vars
  PROVE  AskedOK'
<1>1. /\ MAXRANGES \in Nat \ {0} /\ END \in Nat /\ nbits \in Nat \ {0}
      /\ nbits - 1 <= END /\ Members \subseteq 0 .. nbits - 1 /\ i \in Nat
  BY HolesAssumption, ResendAssumption, BitsOfWords DEF ArrayOK, LoopTypeOK
<1>2. /\ nbits' = nbits /\ Members' = Members
      /\ \A r : Covered(r)' = Covered(r)
      /\ \A R : AskedBy(R)' = AskedBy(R)
  BY DEF vars, Members, bits_testbit, Covered, AskedBy
<1>3. Missing <=> i \in Members
  BY <1>1 DEF Missing, Members, bits_testbit
<1>4. /\ Requested = AskedBy(SentRanges \union Range(ranges))
      /\ Requested' = AskedBy(SentRanges' \union Range(ranges'))
  BY <1>2 DEF Requested, AskedBy
<1> HIDE DEF vars
<1>5. CASE Call
  <2>1. SentRanges' = SentRanges /\ inner' = inner /\ i' = i /\ ~inner /\ ranges' = ranges
    BY <1>5 DEF Call, SentRanges, LoopTypeOK
  <2> QED
    BY <1>2, <1>4, <2>1 DEF AskedOK
<1>6. CASE OpenRange
  <2> DEFINE o == [first_block |-> i, last_block |-> END]
             t == Append(ranges, o)
             n == Len(ranges)
  <2>1. /\ ranges' = t /\ ~inner /\ inner' /\ i' = i + 1 /\ SentRanges' = SentRanges
        /\ ranges \in Seq(Request) /\ i \in Members
    BY <1>3, <1>6 DEF OpenRange, LoopTypeOK, SentRanges
  <2>2. o \in Request /\ o.first_block = i /\ o.last_block = END
    BY <1>1 DEF Request
  <2> HIDE DEF o
  <2>3. /\ n \in Nat /\ Len(t) = n + 1 /\ t[n + 1] = o
        /\ \A k \in 1 .. n : t[k] = ranges[k]
        /\ DOMAIN ranges = 1 .. n
    BY <2>1, <2>2, AppendProperties
  <2> HIDE DEF t, n
  <2>4. n + 1 - 1 = n
    BY <2>3
  <2>5. { t[k] : k \in 1 .. n } = Range(ranges)
    BY <2>3 DEF Range
  <2>6. /\ t[Len(t)].last_block = END /\ t[Len(t)].first_block = i
        /\ { t[k] : k \in 1 .. Len(t) - 1 } = Range(ranges)
    BY <2>2, <2>3, <2>4, <2>5
  <2>7. i .. i' - 1 \subseteq Members' /\ i < i'
    BY <1>1, <1>2, <2>1
  <2>8. Requested = { k \in Members : k < i }
    BY <2>1 DEF AskedOK
  <2>9. AskedBy(SentRanges' \union { t[k] : k \in 1 .. Len(t) - 1 }) = { k \in Members' : k < i }
    BY <1>2, <1>4, <2>1, <2>6, <2>8
  <2> QED
    BY <1>2, <2>1, <2>6, <2>7, <2>9 DEF AskedOK
<1>7. CASE Extend
  <2>1. /\ ranges' = ranges /\ inner /\ inner' /\ i' = i + 1 /\ SentRanges' = SentRanges
        /\ i \in Members
    BY <1>3, <1>7 DEF Extend, SentRanges
  <2> DEFINE first == ranges[Len(ranges)].first_block
  <2>2. first \in Nat
    <3>1. ranges[Len(ranges)] \in Request
      BY <2>1 DEF LoopTypeOK
    <3> QED
      BY <3>1 DEF Request
  <2>3. /\ ranges[Len(ranges)].last_block = END /\ first < i
        /\ first .. i - 1 \subseteq Members
        /\ AskedBy(SentRanges \union { ranges[k] : k \in 1 .. Len(ranges) - 1 })
             = { k \in Members : k < first }
    BY <2>1 DEF AskedOK
  <2> HIDE DEF first
  <2>4. first .. i' - 1 \subseteq Members' /\ first < i'
    BY <1>1, <1>2, <2>1, <2>2, <2>3
  <2> QED
    BY <1>2, <2>1, <2>3, <2>4 DEF AskedOK, first
<1>8. CASE CloseRange \/ RunOut
  <2> DEFINE n == Len(ranges)
             first == ranges[n].first_block
             R == SentRanges \union { ranges[k] : k \in 1 .. n - 1 }
  <2>1. /\ inner /\ inner' = FALSE /\ ranges # <<>> /\ ranges \in Seq(Request)
        /\ n \in 1 .. MAXRANGES /\ i \in 1 .. nbits
    BY <1>8 DEF CloseRange, RunOut, LoopTypeOK
  <2>2. first \in Nat /\ ranges[n] = [first_block |-> first, last_block |-> END]
    <3>1. ranges[n] \in Request
      BY <2>1
    <3>2. ranges[n].last_block = END
      BY <2>1 DEF AskedOK
    <3> QED
      BY <3>1, <3>2 DEF Request
  <2>3. /\ first < i /\ first .. i - 1 \subseteq Members
        /\ AskedBy(R) = { k \in Members : k < first }
    BY <2>1 DEF AskedOK
  <2> DEFINE Rest(e) == [first_block |-> first, last_block |-> e]
  <2>4. PICK e \in Nat :
           /\ SentRanges' \union Range(ranges') = R \union { Rest(e) }
           /\ i' = i + 1 /\ i \notin Members
           /\ e = i - 1 \/ (e = END /\ i = nbits)
    <3>1. CASE CloseRange
      <4> DEFINE r == Closed(ranges, i - 1)
      <4>1. i - 1 \in Nat /\ NextBlock(r) /\ i \notin Members
        BY <1>1, <1>3, <2>1, <3>1 DEF CloseRange, Closed, Current
      <4>2. /\ r \in Seq(Request) /\ Len(r) = Len(ranges)
            /\ Range(r) = { ranges[k] : k \in 1 .. n - 1 } \union { Rest(i - 1) }
        BY <2>1, <4>1, ClosedRange
      <4> HIDE DEF r, first
      <4>3. Len(r) <= MAXRANGES
        BY <2>1, <4>2
      <4>4. /\ i' = i + 1
            /\ SentRanges' \union Range(ranges') = SentRanges \union Range(r)
        BY <4>1, <4>2, <4>3, NextBlockKeeps
      <4>5. SentRanges' \union Range(ranges') = R \union { Rest(i - 1) }
        BY <4>2, <4>4
      <4> QED
        BY <4>1, <4>4, <4>5
    <3>2. CASE RunOut
      <4>1. NextBlock(ranges) /\ i = nbits /\ Len(ranges) <= MAXRANGES /\ i \notin Members
        BY <1>1, <2>1, <3>2 DEF RunOut, LoopTypeOK
      <4>2. /\ i' = i + 1
            /\ SentRanges' \union Range(ranges') = SentRanges \union Range(ranges)
        BY <2>1, <4>1, NextBlockKeeps
      <4>3. Range(ranges) = { ranges[k] : k \in 1 .. n - 1 } \union { ranges[n] }
        <5>1. DOMAIN ranges = 1 .. n /\ n \in DOMAIN ranges
          BY <2>1
        <5>2. \A k \in DOMAIN ranges : k = n \/ k \in 1 .. n - 1
          BY <2>1
        <5>3. 1 .. n - 1 \subseteq DOMAIN ranges
          BY <2>1
        <5> HIDE DEF n
        <5> QED
          BY <5>1, <5>2, <5>3 DEF Range
      <4> HIDE DEF first
      <4>4. SentRanges' \union Range(ranges') = R \union { Rest(END) }
        BY <2>2, <4>2, <4>3
      <4> QED
        BY <1>1, <4>1, <4>2, <4>4
    <3> QED
      BY <1>8, <3>1, <3>2
  <2> HIDE DEF first, R
  <2>5. AskedBy({ Rest(e) }) = { k \in 0 .. nbits - 1 : first <= k /\ k <= e }
    BY DEF AskedBy, Covered
  <2> HIDE DEF Rest
  <2>6. { k \in Members : k < first } \union { k \in 0 .. nbits - 1 : first <= k /\ k <= e }
          = { k \in Members : k < i' }
    <3>1. \A k \in Members : k \in 0 .. nbits - 1 /\ k # i
      BY <1>1, <2>4
    <3>2. \A k \in 0 .. nbits - 1 : first <= k /\ k <= e => k \in Members /\ k < i + 1
      <4> SUFFICES ASSUME NEW k \in 0 .. nbits - 1, first <= k, k <= e
                   PROVE  k \in first .. i - 1 /\ k < i + 1
        BY <2>3
      <4> QED
        BY <1>1, <2>1, <2>2, <2>4
    <3>3. \A k \in 0 .. nbits - 1 : k # i /\ k < i + 1 /\ ~(k < first) => first <= k /\ k <= e
      BY <1>1, <2>1, <2>2, <2>4
    <3>4. \A k \in 0 .. nbits - 1 : k < first => k < i + 1
      BY <1>1, <2>1, <2>2, <2>3
    <3> QED
      BY <2>4, <3>1, <3>2, <3>3, <3>4
  <2>7. Requested' = AskedBy(R) \union AskedBy({ Rest(e) })
    BY <1>2, <1>4, <2>4, AskedUnion
  <2>8. Requested' = { k \in Members' : k < i' }
    BY <1>2, <2>3, <2>5, <2>6, <2>7
  <2> QED
    BY <2>1, <2>8 DEF AskedOK
<1>9. CASE Skip
  <2>1. /\ NextBlock(ranges) /\ ~inner /\ inner' = inner /\ i \notin Members
        /\ ranges \in Seq(Request) /\ Len(ranges) <= MAXRANGES
    BY <1>1, <1>3, <1>9 DEF Skip, LoopTypeOK
  <2>2. /\ i' = i + 1
        /\ SentRanges' \union Range(ranges') = SentRanges \union Range(ranges)
    BY <2>1, NextBlockKeeps
  <2>3. Requested' = Requested
    BY <1>2, <1>4, <2>2
  <2>4. { k \in Members : k < i } = { k \in Members : k < i + 1 }
    <3>1. \A k \in Members : k < i <=> k < i + 1
      BY <1>1, <2>1
    <3> QED
      BY <3>1
  <2>5. Requested = { k \in Members : k < i }
    BY <2>1 DEF AskedOK
  <2> QED
    BY <1>2, <2>1, <2>2, <2>3, <2>4, <2>5 DEF AskedOK
<1>10. CASE SendRest
  <2> DEFINE t == Append(sent, ranges)
  <2>1. /\ sent' = t /\ ranges' = <<>> /\ ~inner /\ inner' = inner /\ i' = i
        /\ ranges \in Seq(Request) /\ sent \in Seq(Seq(Request))
    BY <1>10 DEF SendRest, LoopTypeOK
  <2>2. /\ t[Len(sent) + 1] = ranges
        /\ \A k \in DOMAIN sent : t[k] = sent[k]
        /\ DOMAIN t = DOMAIN sent \union { Len(sent) + 1 }
    BY <2>1, AppendProperties
  <2> HIDE DEF t
  <2>3. SentRanges' = SentRanges \union Range(ranges) /\ Range(ranges') = {}
    BY <2>1, <2>2 DEF SentRanges, Range
  <2>4. Requested' = Requested
    BY <1>2, <1>4, <2>3
  <2> QED
    BY <1>2, <2>1, <2>4 DEF AskedOK
<1>11. CASE Return
  <2>1. ArrayOK' /\ ~inner' /\ i' = 0 /\ sent' = <<>> /\ ranges' = <<>>
    BY <1>2, <1>11, SameArray DEF Return, Finished
  <2>2. (ArrayOK /\ ~inner /\ i = 0 /\ ranges = <<>> /\ sent = <<>>)'
    BY <2>1
  <2> QED
    BY <2>2, AskedAtStart, PTL
<1> QED
  BY <1>5, <1>6, <1>7, <1>8, <1>9, <1>10, <1>11 DEF Loop
-----------------------------------------------------------------------------
(* Counting members.                                                       *)

Upto(S, b) == Cardinality(S \intersect 0 .. b)

\* A count of members is a number.
LEMMA UptoType ==
  ASSUME NEW S, NEW b \in Int
  PROVE  IsFiniteSet(S \intersect 0 .. b) /\ Upto(S, b) \in Nat
<1>1. IsFiniteSet(0 .. b) /\ S \intersect 0 .. b \in SUBSET (0 .. b)
  BY FS_Interval
<1>2. IsFiniteSet(S \intersect 0 .. b)
  BY <1>1, FS_Subset
<1> QED
  BY <1>2, FS_CardinalityType DEF Upto

\* The count up to b, from the count up to b - 1.
LEMMA UptoStep ==
  ASSUME NEW S, NEW b \in Nat
  PROVE  Upto(S, b) = IF b \in S THEN Upto(S, b - 1) + 1 ELSE Upto(S, b - 1)
<1> DEFINE T == S \intersect 0 .. b - 1
<1>1. IsFiniteSet(T) /\ b \notin T
  <2>1. b - 1 \in Int /\ ~(b <= b - 1)
    OBVIOUS
  <2>2. IsFiniteSet(T)
    BY <2>1, UptoType
  <2> QED
    BY <2>1, <2>2
<1>2. CASE b \in S
  <2>1. S \intersect 0 .. b = T \union {b}
    BY <1>2
  <2> QED
    BY <1>1, <1>2, <2>1, FS_AddElement DEF Upto
<1>3. CASE b \notin S
  <2>1. S \intersect 0 .. b = T
    BY <1>3
  <2> QED
    BY <1>3, <2>1 DEF Upto
<1> QED
  BY <1>2, <1>3

\* The count grows with the bound, and by each member passed.
LEMMA UptoGrows ==
  ASSUME NEW S, NEW a \in Int, NEW b \in Int, a <= b
  PROVE  /\ Upto(S, a) <= Upto(S, b)
         /\ \A s \in S : 0 <= s /\ a < s /\ s <= b /\ s \in Int => Upto(S, a) < Upto(S, b)
<1> DEFINE A == S \intersect 0 .. a
           B == S \intersect 0 .. b
<1>1. IsFiniteSet(B) /\ A \in SUBSET B /\ Cardinality(A) \in Nat /\ Cardinality(B) \in Nat
  <2>1. IsFiniteSet(B) /\ Cardinality(A) \in Nat /\ Cardinality(B) \in Nat
    BY UptoType DEF Upto
  <2>2. 0 .. a \subseteq 0 .. b
    OBVIOUS
  <2> QED
    BY <2>1, <2>2
<1>2. /\ Cardinality(A) <= Cardinality(B)
      /\ Cardinality(B) = Cardinality(A) => B = A
  BY <1>1, FS_Subset
<1>3. ASSUME NEW s \in S, 0 <= s, a < s, s <= b, s \in Int PROVE s \in B /\ s \notin A
  BY <1>3
<1>4. /\ Upto(S, a) = Cardinality(A)
      /\ Upto(S, b) = Cardinality(B)
  BY DEF Upto
<1> HIDE DEF A, B
<1>5. ASSUME NEW s \in S, 0 <= s, a < s, s <= b, s \in Int PROVE Upto(S, a) < Upto(S, b)
  <2>1. A # B
    BY <1>3, <1>5
  <2> QED
    BY <1>1, <1>2, <1>4, <2>1
<1> QED
  BY <1>2, <1>4, <1>5

\* Past the last bit the count is complete.
LEMMA UptoAll ==
  ASSUME NEW n \in Nat, NEW S \in SUBSET (0 .. n - 1), NEW b \in Int
  PROVE  /\ Upto(S, b) <= Cardinality(S)
         /\ n - 1 <= b => Upto(S, b) = Cardinality(S)
         /\ IsFiniteSet(S) /\ Cardinality(S) \in Nat
<1>1. IsFiniteSet(S)
  <2>1. IsFiniteSet(0 .. n - 1)
    BY FS_Interval
  <2> QED
    BY <2>1, FS_Subset
<1>2. S \intersect 0 .. b \in SUBSET S /\ (n - 1 <= b => S \intersect 0 .. b = S)
  <2>1. n - 1 <= b => 0 .. n - 1 \subseteq 0 .. b
    OBVIOUS
  <2> QED
    BY <2>1
<1> QED
  BY <1>1, <1>2, FS_Subset, FS_CardinalityType DEF Upto

\* Nth counts out the members in order.
LEMMA NthIs ==
  ASSUME NEW n \in Nat, NEW S \in SUBSET (0 .. n - 1), NEW s \in S
  PROVE  Nth(S, n, Upto(S, s)) = s
<1> DEFINE before == { b \in 0 .. n - 1 : Upto(S, b) < Upto(S, s) }
<1>1. s \in 0 .. n - 1
  OBVIOUS
<1>2. ASSUME NEW b \in 0 .. n - 1 PROVE Upto(S, b) < Upto(S, s) <=> b < s
  <2>0. Upto(S, b) \in Nat /\ Upto(S, s) \in Nat
    <3>1. b \in Int /\ s \in Int
      BY <1>1
    <3> QED
      BY <3>1, UptoType
  <2>1. CASE b < s
    BY <1>1, <2>1, UptoGrows
  <2>2. CASE ~(b < s)
    <3>1. Upto(S, s) <= Upto(S, b)
      BY <1>1, <2>2, UptoGrows
    <3> QED
      BY <2>0, <2>2, <3>1
  <2> QED
    BY <2>1, <2>2
<1>3. before = 0 .. s - 1
  BY <1>1, <1>2
<1>4. Nth(S, n, Upto(S, s)) = Cardinality(before)
  BY DEF Nth, Upto
<1>5. Cardinality(0 .. s - 1) = s
  BY <1>1, FS_Interval
<1> QED
  BY <1>3, <1>4, <1>5

\* The n-th member is a number.
LEMMA NthType ==
  ASSUME NEW S, NEW n \in Nat, NEW k
  PROVE  Nth(S, n, k) \in Nat
<1> DEFINE before == { b \in 0 .. n - 1 : Cardinality(S \intersect 0 .. b) < k }
<1>1. IsFiniteSet(0 .. n - 1) /\ before \in SUBSET (0 .. n - 1)
  BY FS_Interval
<1>2. IsFiniteSet(before)
  BY <1>1, FS_Subset
<1> QED
  BY <1>2, FS_CardinalityType DEF Nth
-----------------------------------------------------------------------------
(* Cutting a sequence into commands.                                       *)

LEMMA MinOfTwo ==
  ASSUME NEW a \in Nat, NEW b \in Nat
  PROVE  Min({a, b}) = IF a <= b THEN a ELSE b
<1> DEFINE m == IF a <= b THEN a ELSE b
<1>1. m \in {a, b} /\ \A y \in {a, b} : m <= y
  OBVIOUS
<1>2. \A x \in {a, b} : (\A y \in {a, b} : x <= y) => x = m
  OBVIOUS
<1> HIDE DEF m
<1> QED
  BY <1>1, <1>2 DEF Min, m

\* The pieces of H are the full commands sent and the one that is left.
LEMMA PiecesAre ==
  ASSUME NEW H \in Seq(Request), NEW s \in Seq(Seq(Request)), NEW r \in Seq(Request),
         \A k \in 1 .. Len(s) : Len(s[k]) = MAXRANGES,
         Len(s) * MAXRANGES + Len(r) = Len(H), Len(r) < MAXRANGES,
         \A k \in 1 .. Len(s), m \in 1 .. MAXRANGES : s[k][m] = H[(k - 1) * MAXRANGES + m],
         \A m \in 1 .. Len(r) : r[m] = H[Len(s) * MAXRANGES + m]
  PROVE  Pieces(H) = IF r = <<>> THEN s ELSE Append(s, r)
<1> DEFINE M == MAXRANGES
           a == Len(s)
           n == Len(H)
           all == (n + M - 1) \div M
           t == IF r = <<>> THEN s ELSE Append(s, r)
           piece(k) == SubSeq(H, (k - 1) * M + 1, Min({k * M, n}))
<1>1. M \in Nat \ {0} /\ a \in Nat /\ n \in Nat /\ Len(r) \in Nat /\ n = a * M + Len(r)
      /\ (r = <<>> <=> Len(r) = 0) /\ a * M \in Nat
  BY HolesAssumption
<1>2. Pieces(H) = [k \in 1 .. all |-> piece(k)]
  BY DEF Pieces
<1>3. all = IF Len(r) = 0 THEN a ELSE a + 1
  <2>1. CASE Len(r) = 0
    <3>1. n + M - 1 = a * M + (M - 1) /\ M - 1 \in 0 .. M - 1
      BY <1>1, <2>1
    <3> HIDE DEF M, a, n
    <3>2. (a * M + (M - 1)) \div M = a
      BY <1>1, <3>1, QuotientIs
    <3> QED
      BY <2>1, <3>1, <3>2
  <2>2. CASE Len(r) # 0
    <3>1. n + M - 1 = (a + 1) * M + (Len(r) - 1) /\ Len(r) - 1 \in 0 .. M - 1 /\ a + 1 \in Nat
      BY <1>1, <2>2
    <3> HIDE DEF M, a, n
    <3>2. ((a + 1) * M + (Len(r) - 1)) \div M = a + 1
      BY <1>1, <3>1, QuotientIs
    <3> QED
      BY <2>2, <3>1, <3>2
  <2> QED
    BY <2>1, <2>2
<1>4. /\ t \in Seq(Seq(Request)) /\ Len(t) = IF Len(r) = 0 THEN a ELSE a + 1
      /\ \A k \in 1 .. a : t[k] = s[k]
      /\ Len(r) # 0 => t[a + 1] = r
  BY <1>1, AppendProperties
<1>5. ASSUME NEW k \in 1 .. a PROVE piece(k) = s[k]
  <2>1. k \in Nat /\ k - 1 \in Nat /\ k <= a
    OBVIOUS
  <2>2. /\ (k - 1) * M \in Nat /\ k * M = (k - 1) * M + M /\ k * M <= n /\ k * M \in Nat
    <3>1. (k - 1) * M \in Nat /\ ((k - 1) + 1) * M = (k - 1) * M + M /\ k * M <= a * M /\ k * M \in Nat
      BY <1>1, <2>1, Products
    <3> QED
      BY <1>1, <2>1, <3>1
  <2>3. Min({k * M, n}) = k * M
    BY <1>1, <2>2, MinOfTwo
  <2> DEFINE b == (k - 1) * M
  <2>4. piece(k) = SubSeq(H, b + 1, b + M)
    BY <2>2, <2>3
  <2>5. s[k] \in Seq(Request) /\ Len(s[k]) = M /\ \A m \in 1 .. M : s[k][m] = H[b + m]
    <3>1. Len(s[k]) = M /\ \A m \in 1 .. M : s[k][m] = H[(k - 1) * M + m]
      OBVIOUS
    <3>2. s[k] \in Seq(Request)
      OBVIOUS
    <3> QED
      BY <3>1, <3>2
  <2>6. b \in Nat /\ b + M <= n
    BY <2>2
  <2> HIDE DEF b, piece, M, n
  <2> DEFINE p == SubSeq(H, b + 1, b + M)
  <2>7. p \in Seq(Request) /\ Len(p) = M /\ \A m \in 1 .. M : p[m] = H[b + m]
    BY <1>1, <2>6 DEF n
  <2> HIDE DEF p
  <2>8. p = s[k]
    <3>1. Len(p) = Len(s[k]) /\ \A m \in 1 .. Len(p) : p[m] = s[k][m]
      BY <2>5, <2>7
    <3> DEFINE q == s[k]
    <3>2. q \in Seq(Request) /\ Len(p) = Len(q) /\ \A m \in 1 .. Len(p) : p[m] = q[m]
      BY <2>5, <3>1
    <3> HIDE DEF q
    <3>3. p = q
      BY <2>7, <3>2, SeqEqual
    <3> QED
      BY <3>3 DEF q
  <2> QED
    BY <2>4, <2>8 DEF p
<1>6. ASSUME Len(r) # 0 PROVE piece(a + 1) = r
  <2> DEFINE b == a * M
  <2>1. (a + 1) * M = b + M /\ (a + 1) * M \in Nat /\ n <= b + M /\ (a + 1) - 1 = a
    BY <1>1, Products
  <2>2. Min({(a + 1) * M, n}) = n
    BY <1>1, <2>1, MinOfTwo
  <2>3. piece(a + 1) = SubSeq(H, b + 1, n)
    BY <2>1, <2>2
  <2>4. b \in Nat /\ n = b + Len(r) /\ Len(r) \in Nat /\ n = Len(H)
    BY <1>1
  <2> DEFINE p == SubSeq(H, b + 1, n)
  <2>5. \A m \in 1 .. Len(r) : r[m] = H[b + m]
    OBVIOUS
  <2> HIDE DEF b, piece, n
  <2>6. p \in Seq(Request) /\ Len(p) = Len(r) /\ \A m \in 1 .. Len(r) : p[m] = H[b + m]
    BY <2>4
  <2> HIDE DEF p
  <2>7. p = r
    BY <2>5, <2>6, SeqEqual
  <2> QED
    BY <2>3, <2>7 DEF p
<1> HIDE DEF piece, t, all, M, a, n
<1>7. \A k \in 1 .. all : t[k] = piece(k)
  <2>1. \A k \in 1 .. a : t[k] = piece(k)
    BY <1>4, <1>5
  <2>2. Len(r) # 0 => t[a + 1] = piece(a + 1)
    BY <1>4, <1>6
  <2>3. \A k \in 1 .. all : k \in 1 .. a \/ (Len(r) # 0 /\ k = a + 1)
    BY <1>1, <1>3
  <2> QED
    BY <2>1, <2>2, <2>3
<1>8. Len(t) = all /\ t = [k \in 1 .. all |-> t[k]]
  BY <1>3, <1>4
<1>9. t = Pieces(H)
  BY <1>2, <1>7, <1>8
<1> QED
  BY <1>9 DEF t
-----------------------------------------------------------------------------
(* The loops of resend: the holes, in order.                               *)

Starts == HoleStarts(Members)
Ends   == HoleEnds(Members)
HoleList == HoleRanges(Members, nbits)

\* Ranges opened so far.
Opened == Len(sent) * MAXRANGES + Len(ranges)

\* Full commands hold the first holes, and the command being built those after
\* them; as many holes have been opened as begin, and as many closed as end,
\* before the block looked at.
InOrder ==
    /\ \A k \in 1 .. Len(sent) : Len(sent[k]) = MAXRANGES
    /\ \A k \in 1 .. Len(sent), m \in 1 .. MAXRANGES :
          sent[k][m] = HoleList[(k - 1) * MAXRANGES + m]
    /\ Opened = Upto(Starts, i - 1)
    /\ ~inner => /\ i - 1 \notin Members
                 /\ Opened = Upto(Ends, i - 1)
                 /\ \A m \in 1 .. Len(ranges) : ranges[m] = HoleList[Len(sent) * MAXRANGES + m]
    /\ inner => /\ i - 1 \in Members
                /\ Opened = Upto(Ends, i - 2) + 1
                /\ \A m \in 1 .. Len(ranges) - 1 :
                      ranges[m] = HoleList[Len(sent) * MAXRANGES + m]
                /\ ranges[Len(ranges)] =
                      [first_block |-> Nth(Starts, nbits, Opened), last_block |-> END]

HolesOK == IF Finished THEN sent = ResendRanges(Members, nbits) ELSE InOrder

\* Holes as Holes defines them are ranges of the array, as many as have a start.
LEMMA HolesType ==
  ASSUME ArrayOK
  PROVE  /\ Starts \subseteq 0 .. nbits - 1 /\ Ends \subseteq 0 .. nbits - 1
         /\ HoleList \in Seq(Request) /\ Len(HoleList) = Cardinality(Starts)
         /\ Cardinality(Starts) \in Nat
         /\ \A k \in 1 .. Cardinality(Starts) :
               HoleList[k] = [first_block |-> Nth(Starts, nbits, k),
                           last_block |-> IF Nth(Ends, nbits, k) = nbits - 1 THEN END
                                          ELSE Nth(Ends, nbits, k)]
<1>1. nbits \in Nat \ {0} /\ Members \subseteq 0 .. nbits - 1 /\ END \in Nat
  BY BitsOfWords, HolesAssumption
<1>2. Starts \subseteq 0 .. nbits - 1 /\ Ends \subseteq 0 .. nbits - 1
  BY <1>1 DEF Starts, Ends, HoleStarts, HoleEnds
<1> DEFINE c == Cardinality(Starts)
           h(k) == [first_block |-> Nth(Starts, nbits, k),
                    last_block |-> IF Nth(Ends, nbits, k) = nbits - 1 THEN END
                                   ELSE Nth(Ends, nbits, k)]
<1>3. c \in Nat
  BY <1>1, <1>2, UptoAll
<1>4. HoleList = [k \in 1 .. c |-> h(k)]
  BY DEF HoleList, HoleRanges, Starts, Ends
<1>5. \A k \in 1 .. c : h(k) \in Request
  <2> TAKE k \in 1 .. c
  <2>1. Nth(Starts, nbits, k) \in Nat /\ Nth(Ends, nbits, k) \in Nat
    BY <1>1, NthType
  <2> QED
    BY <1>1, <2>1 DEF Request
<1> HIDE DEF c, h
<1>6. HoleList \in Seq(Request) /\ Len(HoleList) = c /\ \A k \in 1 .. c : HoleList[k] = h(k)
  BY <1>3, <1>4, <1>5
<1> QED
  BY <1>2, <1>3, <1>6 DEF c, h

\* The loops have passed the last block: the ranges are all the holes there are.
LEMMA AllHoles ==
  ArrayOK /\ LoopTypeOK /\ InOrder /\ ~inner /\ i >= nbits =>
    ResendRanges(Members, nbits) = IF ranges = <<>> THEN sent ELSE Append(sent, ranges)
<1> SUFFICES ASSUME ArrayOK, LoopTypeOK, InOrder, ~inner, i >= nbits
             PROVE  ResendRanges(Members, nbits)
                      = IF ranges = <<>> THEN sent ELSE Append(sent, ranges)
  OBVIOUS
<1>1. /\ HoleList \in Seq(Request) /\ sent \in Seq(Seq(Request)) /\ ranges \in Seq(Request)
      /\ Len(HoleList) = Cardinality(Starts) /\ Starts \in SUBSET (0 .. nbits - 1)
      /\ nbits \in Nat \ {0} /\ i \in Nat
  BY HolesType, BitsOfWords DEF LoopTypeOK
<1>2. Upto(Starts, i - 1) = Cardinality(Starts)
  BY <1>1, UptoAll
<1>3. Len(sent) * MAXRANGES + Len(ranges) = Len(HoleList) /\ Len(ranges) < MAXRANGES
  BY <1>1, <1>2 DEF InOrder, Opened, LoopTypeOK
<1>4. /\ \A k \in 1 .. Len(sent) : Len(sent[k]) = MAXRANGES
      /\ \A k \in 1 .. Len(sent), m \in 1 .. MAXRANGES :
            sent[k][m] = HoleList[(k - 1) * MAXRANGES + m]
      /\ \A m \in 1 .. Len(ranges) : ranges[m] = HoleList[Len(sent) * MAXRANGES + m]
  BY DEF InOrder
<1>5. ResendRanges(Members, nbits) = Pieces(HoleList)
  BY DEF ResendRanges, HoleList
<1> HIDE DEF HoleList, Starts
<1> QED
  BY <1>1, <1>3, <1>4, <1>5, PiecesAre

\* A command that is full is sent, and the commands stay in order.
LEMMA NextBlockInOrder ==
  ASSUME LoopTypeOK, NEW H, NEW r \in Seq(Request), NextBlock(r), Len(r) <= MAXRANGES,
         \A k \in 1 .. Len(sent) : Len(sent[k]) = MAXRANGES,
         \A k \in 1 .. Len(sent), m \in 1 .. MAXRANGES : sent[k][m] = H[(k - 1) * MAXRANGES + m],
         \A m \in 1 .. Len(r) : r[m] = H[Len(sent) * MAXRANGES + m]
  PROVE  /\ \A k \in 1 .. Len(sent') : Len(sent'[k]) = MAXRANGES
         /\ \A k \in 1 .. Len(sent'), m \in 1 .. MAXRANGES :
               sent'[k][m] = H[(k - 1) * MAXRANGES + m]
         /\ \A m \in 1 .. Len(ranges') : ranges'[m] = H[Len(sent') * MAXRANGES + m]
         /\ Opened' = Len(sent) * MAXRANGES + Len(r)
<1> DEFINE M == MAXRANGES
           a == Len(sent)
<1>1. M \in Nat \ {0} /\ a \in Nat /\ Len(r) \in Nat
  BY HolesAssumption DEF LoopTypeOK
<1>2. CASE Len(r) = M
  <2> DEFINE t == Append(sent, r)
  <2>1. /\ Len(t) = a + 1 /\ t[a + 1] = r /\ \A k \in 1 .. a : t[k] = sent[k]
    BY AppendProperties DEF LoopTypeOK
  <2>2. sent' = t /\ ranges' = <<>>
    BY <1>2 DEF NextBlock
  <2> HIDE DEF t
  <2>3. \A k \in 1 .. Len(t) : k \in 1 .. a \/ (k = a + 1 /\ k - 1 = a)
    BY <1>1, <2>1
  <2>4. \A k \in 1 .. Len(t) : Len(t[k]) = M
    BY <1>2, <2>1, <2>3
  <2>5. \A k \in 1 .. Len(t), m \in 1 .. M : t[k][m] = H[(k - 1) * M + m]
    <3>1. \A k \in 1 .. a, m \in 1 .. M : t[k][m] = H[(k - 1) * M + m]
      <4>1. \A k \in 1 .. a, m \in 1 .. M : sent[k][m] = H[(k - 1) * M + m]
        OBVIOUS
      <4> HIDE DEF a, M
      <4> QED
        BY <2>1, <4>1
    <3>2. \A m \in 1 .. M : t[a + 1][m] = H[((a + 1) - 1) * M + m]
      <4>1. (a + 1) - 1 = a
        BY <1>1
      <4> HIDE DEF a
      <4> QED
        BY <1>2, <2>1, <4>1 DEF a
    <3> QED
      BY <2>3, <3>1, <3>2
  <2>6. Opened' = a * M + Len(r)
    <3>1. Len(sent') = a + 1 /\ Len(ranges') = 0 /\ (a + 1) * M = a * M + M /\ a * M \in Nat
      BY <1>1, <2>1, <2>2, Products
    <3> HIDE DEF M, a
    <3>2. Opened' = (a + 1) * M + 0
      BY <3>1 DEF Opened, M
    <3> QED
      BY <1>1, <1>2, <3>1, <3>2
  <2>7. 1 .. Len(ranges') = {}
    BY <2>2
  <2> QED
    BY <2>2, <2>4, <2>5, <2>6, <2>7
<1>3. CASE Len(r) # M
  <2>1. sent' = sent /\ ranges' = r
    BY <1>3 DEF NextBlock
  <2> QED
    BY <2>1 DEF Opened
<1> QED
  BY <1>2, <1>3

\* Where holes begin and end.
LEMMA AtBlock ==
  ASSUME ArrayOK, NEW b \in Nat
  PROVE  /\ b \in Starts <=> b \in Members /\ b - 1 \notin Members
         /\ b \in Members /\ b + 1 \notin Members <=> b \in Ends
         /\ -1 \notin Members /\ \A k \in Nat : k >= nbits => k \notin Members
BY BitsOfWords DEF Starts, Ends, HoleStarts, HoleEnds

\* The range closed is the hole that it was opened for.
LEMMA ClosedIsHole ==
  ASSUME ArrayOK, LoopTypeOK, InOrder, inner, i \notin Members
  PROVE  /\ Opened = Upto(Ends, i - 1) /\ Opened = Upto(Starts, i - 1)
         /\ Opened = Upto(Ends, i) /\ Opened = Upto(Starts, i)
         /\ HoleList[Opened] = [first_block |-> Nth(Starts, nbits, Opened),
                                last_block |-> IF i = nbits THEN END ELSE i - 1]
<1>1. /\ i \in 1 .. nbits /\ nbits \in Nat \ {0} /\ i - 1 \in Nat /\ i \in Nat
      /\ i - 1 \in Members /\ (i - 1) + 1 = i /\ (i - 1) - 1 = i - 2
  BY BitsOfWords DEF LoopTypeOK, InOrder
<1>2. i - 1 \in Ends /\ i \notin Ends /\ i \notin Starts
  BY <1>1, AtBlock
<1>3. /\ Upto(Ends, i - 1) = Upto(Ends, (i - 1) - 1) + 1
      /\ Upto(Ends, i) = Upto(Ends, i - 1) /\ Upto(Starts, i) = Upto(Starts, i - 1)
  BY <1>1, <1>2, UptoStep
<1>4. Opened = Upto(Ends, i - 2) + 1 /\ Opened = Upto(Starts, i - 1)
  BY DEF InOrder
<1>5. Opened = Upto(Ends, i - 1)
  BY <1>1, <1>3, <1>4
<1>6. Nth(Ends, nbits, Opened) = i - 1
  <2>1. Ends \in SUBSET (0 .. nbits - 1) /\ nbits \in Nat
    BY <1>1, HolesType
  <2> QED
    BY <1>2, <1>5, <2>1, NthIs
<1>7. Opened \in 1 .. Cardinality(Starts)
  <2>1. /\ Starts \in SUBSET (0 .. nbits - 1) /\ nbits \in Nat /\ Cardinality(Starts) \in Nat
        /\ i - 1 \in Int /\ i - 2 \in Int
    BY <1>1, HolesType
  <2>2. Upto(Starts, i - 1) <= Cardinality(Starts) /\ Upto(Ends, i - 2) \in Nat
        /\ Upto(Starts, i - 1) \in Nat
    BY <2>1, UptoAll, UptoType
  <2> QED
    BY <1>4, <2>1, <2>2
<1>8. HoleList[Opened] = [first_block |-> Nth(Starts, nbits, Opened),
                          last_block |-> IF i - 1 = nbits - 1 THEN END ELSE i - 1]
  BY <1>6, <1>7, HolesType
<1>9. i - 1 = nbits - 1 <=> i = nbits
  BY <1>1
<1> QED
  BY <1>3, <1>4, <1>5, <1>8, <1>9

\* Before the first turn nothing is sent.
LEMMA HolesAtStart ==
  ArrayOK /\ ~inner /\ i = 0 /\ ranges = <<>> /\ sent = <<>> => InOrder
<1> SUFFICES ASSUME ArrayOK, ~inner, i = 0, ranges = <<>>, sent = <<>> PROVE InOrder
  OBVIOUS
<1>1. -1 \notin Members
  BY AtBlock
<1>2. \A S : Upto(S, 0 - 1) = 0
  <2>1. \A S : S \intersect 0 .. 0 - 1 = {}
    OBVIOUS
  <2> QED
    BY <2>1, FS_EmptySet DEF Upto
<1>3. Opened = 0
  BY HolesAssumption DEF Opened
<1>4. 0 - 1 = -1 /\ 1 .. Len(sent) = {} /\ 1 .. Len(ranges) = {}
  OBVIOUS
<1> QED
  BY <1>1, <1>2, <1>3, <1>4 DEF InOrder

\* A turn of the loops sends the next hole, if it sends anything.
LEMMA HolesNext ==
  ASSUME ArrayOK, LoopTypeOK, HolesOK, Loop, UNCHANGED vars
  PROVE  HolesOK'
<1>1. /\ nbits' = nbits /\ Members' = Members /\ Starts' = Starts /\ Ends' = Ends
      /\ HoleList' = HoleList
      /\ ResendRanges(Members, nbits)' = ResendRanges(Members, nbits)
  BY DEF vars, Members, bits_testbit, Starts, Ends, HoleList
<1>2. ArrayOK' /\ LoopTypeOK'
  BY LoopTypeNext, SameArray
<1>3. InOrder' => HolesOK'
  <2>1. (ArrayOK /\ LoopTypeOK /\ InOrder /\ ~inner /\ i >= nbits =>
           ResendRanges(Members, nbits) = IF ranges = <<>> THEN sent ELSE Append(sent, ranges))'
    BY AllHoles, PTL
  <2> QED
    BY <1>1, <1>2, <2>1 DEF HolesOK, Finished
<1>4. /\ MAXRANGES \in Nat \ {0} /\ nbits \in Nat \ {0} /\ i \in Nat
      /\ Missing <=> i \in Members
      /\ ranges \in Seq(Request) /\ Len(ranges) \in Nat
      /\ sent \in Seq(Seq(Request)) /\ Len(sent) * MAXRANGES \in Nat
  <2>1. MAXRANGES \in Nat \ {0} /\ nbits \in Nat \ {0}
    BY HolesAssumption, BitsOfWords
  <2>2. i \in Nat /\ ranges \in Seq(Request) /\ sent \in Seq(Seq(Request)) /\ Len(sent) \in Nat
    BY DEF LoopTypeOK
  <2>3. Len(sent) * MAXRANGES \in Nat
    BY <2>1, <2>2, Products
  <2> QED
    BY <2>1, <2>2, <2>3 DEF Missing, Members, bits_testbit
<1> HIDE DEF vars
<1>5. ASSUME ~Finished, Call PROVE InOrder'
  <2>1. InOrder /\ ~inner /\ inner' = inner /\ i' = i /\ ranges' = ranges /\ sent' = sent
    BY <1>5 DEF HolesOK, Call, LoopTypeOK
  <2> QED
    BY <1>1, <2>1 DEF InOrder, Opened
<1>6. ASSUME OpenRange PROVE InOrder'
  <2> DEFINE o == [first_block |-> i, last_block |-> END]
             t == Append(ranges, o)
             n == Len(ranges)
  <2>1. /\ InOrder /\ ranges' = t /\ ~inner /\ inner' /\ i' = i + 1 /\ sent' = sent
        /\ i \in Members
    BY <1>4, <1>6 DEF OpenRange, HolesOK, Finished
  <2>2. /\ Len(t) = n + 1 /\ t[n + 1] = o /\ \A k \in 1 .. n : t[k] = ranges[k]
    BY <1>4
  <2> HIDE DEF t, n
  <2>3. n + 1 - 1 = n /\ i + 1 - 1 = i /\ i + 1 - 2 = i - 1 /\ n \in Nat
    BY <1>4 DEF n
  <2>4. i - 1 \notin Members /\ Opened = Upto(Starts, i - 1) /\ Opened = Upto(Ends, i - 1)
    BY <2>1 DEF InOrder
  <2>5. i \in Starts
    BY <1>4, <2>1, <2>4, AtBlock
  <2>6. Opened' = Opened + 1 /\ Opened' = Upto(Starts, i)
    <3>1. Opened' = Opened + 1
      BY <1>4, <2>1, <2>2, <2>3 DEF Opened, n
    <3>2. Upto(Starts, i) = Upto(Starts, i - 1) + 1
      BY <1>4, <2>5, UptoStep
    <3> QED
      BY <2>4, <3>1, <3>2
  <2>7. Nth(Starts, nbits, Opened') = i
    <3>1. Starts \in SUBSET (0 .. nbits - 1) /\ nbits \in Nat
      BY <1>4, HolesType
    <3> QED
      BY <2>5, <2>6, <3>1, NthIs
  <2>8. \A m \in 1 .. n : t[m] = HoleList[Len(sent) * MAXRANGES + m]
    BY <2>1, <2>2 DEF InOrder, n
  <2>9. t[Len(t)] = [first_block |-> Nth(Starts, nbits, Opened'), last_block |-> END]
    BY <2>2, <2>7
  <2> HIDE DEF o
  <2>10. /\ \A m \in 1 .. Len(ranges') - 1 :
               ranges'[m] = HoleList'[Len(sent') * MAXRANGES + m]
         /\ ranges'[Len(ranges')] =
               [first_block |-> Nth(Starts', nbits', Opened'), last_block |-> END]
    BY <1>1, <2>1, <2>2, <2>3, <2>8, <2>9
  <2>11. /\ Opened' = Upto(Starts', i' - 1) /\ Opened' = Upto(Ends', i' - 2) + 1
         /\ i' - 1 \in Members'
    <3>1. i' - 1 = i /\ i' - 2 = i - 1
      BY <1>4, <2>1
    <3>2. Opened' = Upto(Starts, i) /\ Opened' = Upto(Ends, i - 1) + 1 /\ i \in Members
      BY <2>1, <2>4, <2>6
    <3>3. Starts' = Starts /\ Ends' = Ends /\ Members' = Members
      BY <1>1
    <3> QED
      BY <3>1, <3>2, <3>3
  <2>12. /\ \A k \in 1 .. Len(sent') : Len(sent'[k]) = MAXRANGES
         /\ \A k \in 1 .. Len(sent'), m \in 1 .. MAXRANGES :
               sent'[k][m] = HoleList'[(k - 1) * MAXRANGES + m]
    BY <1>1, <2>1 DEF InOrder
  <2> QED
    BY <2>1, <2>10, <2>11, <2>12 DEF InOrder
<1>7. ASSUME Extend PROVE InOrder'
  <2>1. /\ InOrder /\ ranges' = ranges /\ inner /\ inner' /\ i' = i + 1 /\ sent' = sent
        /\ i \in Members /\ i \in 1 .. nbits
    BY <1>4, <1>7 DEF Extend, HolesOK, Finished, LoopTypeOK
  <2>2. /\ i - 1 \in Members /\ Opened = Upto(Starts, i - 1)
        /\ Opened = Upto(Ends, i - 2) + 1
    BY <2>1 DEF InOrder
  <2>3. /\ i - 1 \in Nat /\ (i - 1) + 1 = i /\ (i - 1) - 1 = i - 2
        /\ i + 1 - 1 = i /\ i + 1 - 2 = i - 1
    BY <2>1
  <2>4. i \notin Starts /\ i - 1 \notin Ends
    BY <1>4, <2>1, <2>2, <2>3, AtBlock
  <2>5. Upto(Starts, i) = Upto(Starts, i - 1) /\ Upto(Ends, i - 1) = Upto(Ends, (i - 1) - 1)
    BY <1>4, <2>3, <2>4, UptoStep
  <2>6. Opened' = Opened
    BY <2>1 DEF Opened
  <2> QED
    BY <1>1, <2>1, <2>2, <2>3, <2>5, <2>6 DEF InOrder
<1>8. ASSUME NEW r \in Seq(Request), NextBlock(r), Len(r) = Len(ranges), InOrder, ~inner',
             Opened = Upto(Starts, i), Opened = Upto(Ends, i), i \notin Members,
             \A m \in 1 .. Len(r) : r[m] = HoleList[Len(sent) * MAXRANGES + m]
      PROVE  InOrder'
  <2>1. Len(r) <= MAXRANGES
    BY <1>4, <1>8 DEF LoopTypeOK
  <2>2. /\ \A k \in 1 .. Len(sent) : Len(sent[k]) = MAXRANGES
        /\ \A k \in 1 .. Len(sent), m \in 1 .. MAXRANGES :
              sent[k][m] = HoleList[(k - 1) * MAXRANGES + m]
    BY <1>8 DEF InOrder
  <2> DEFINE H == HoleList
  <2>3. H' = H
    BY <1>1
  <2> HIDE DEF H
  <2>4. /\ \A k \in 1 .. Len(sent') : Len(sent'[k]) = MAXRANGES
        /\ \A k \in 1 .. Len(sent'), m \in 1 .. MAXRANGES :
              sent'[k][m] = H[(k - 1) * MAXRANGES + m]
        /\ \A m \in 1 .. Len(ranges') : ranges'[m] = H[Len(sent') * MAXRANGES + m]
        /\ Opened' = Len(sent) * MAXRANGES + Len(r)
    BY <1>8, <2>1, <2>2, NextBlockInOrder DEF H
  <2>5. i' = i + 1 /\ i + 1 - 1 = i
    BY <1>4, <1>8 DEF NextBlock
  <2>6. Opened' = Opened
    BY <1>8, <2>4 DEF Opened
  <2>7. Opened' = Upto(Starts', i' - 1) /\ Opened' = Upto(Ends', i' - 1) /\ i' - 1 \notin Members'
    <3>1. i' - 1 = i
      BY <1>4, <2>5
    <3>2. Opened' = Upto(Starts, i) /\ Opened' = Upto(Ends, i) /\ i \notin Members
      BY <1>8, <2>6
    <3>3. Starts' = Starts /\ Ends' = Ends /\ Members' = Members
      BY <1>1
    <3> QED
      BY <3>1, <3>2, <3>3
  <2>8. /\ \A k \in 1 .. Len(sent') : Len(sent'[k]) = MAXRANGES
        /\ \A k \in 1 .. Len(sent'), m \in 1 .. MAXRANGES :
              sent'[k][m] = HoleList'[(k - 1) * MAXRANGES + m]
        /\ \A m \in 1 .. Len(ranges') : ranges'[m] = HoleList'[Len(sent') * MAXRANGES + m]
    BY <1>1, <2>4 DEF H
  <2> QED
    BY <1>8, <2>7, <2>8 DEF InOrder
<1>9. ASSUME CloseRange PROVE InOrder'
  <2> DEFINE r == Closed(ranges, i - 1)
             n == Len(ranges)
  <2>1. /\ InOrder /\ inner /\ ~inner' /\ i \notin Members /\ i < nbits
        /\ i \in 1 .. nbits /\ NextBlock(r) /\ n >= 1
    BY <1>4, <1>9 DEF CloseRange, HolesOK, Finished, LoopTypeOK, Closed, Current
  <2>2. /\ r \in Seq(Request) /\ Len(r) = n /\ \A k \in 1 .. n - 1 : r[k] = ranges[k]
        /\ r[n] = [first_block |-> ranges[n].first_block, last_block |-> i - 1]
    <3>1. ranges # <<>> /\ i - 1 \in Nat
      BY <2>1
    <3> QED
      BY <1>4, <3>1, ClosedRange
  <2>3. /\ Opened = Upto(Starts, i) /\ Opened = Upto(Ends, i)
        /\ HoleList[Opened] = [first_block |-> Nth(Starts, nbits, Opened), last_block |-> i - 1]
    BY <2>1, ClosedIsHole
  <2> HIDE DEF r
  <2>4. r[n] = HoleList[Opened]
    BY <2>1, <2>2, <2>3 DEF InOrder
  <2>5. \A m \in 1 .. n - 1 : r[m] = HoleList[Len(sent) * MAXRANGES + m]
    BY <2>1, <2>2 DEF InOrder
  <2>6. \A m \in 1 .. n : m \in 1 .. n - 1 \/ m = n
    BY <1>4
  <2>7. Opened = Len(sent) * MAXRANGES + n
    BY DEF Opened
  <2> HIDE DEF n
  <2>8. \A m \in 1 .. n : r[m] = HoleList[Len(sent) * MAXRANGES + m]
    BY <2>4, <2>5, <2>6, <2>7
  <2> QED
    BY <1>8, <2>1, <2>2, <2>3, <2>8 DEF n
<1>10. ASSUME RunOut PROVE InOrder'
  <2> DEFINE n == Len(ranges)
  <2>1. /\ InOrder /\ inner /\ ~inner' /\ i = nbits /\ NextBlock(ranges) /\ n >= 1
    BY <1>4, <1>10 DEF RunOut, HolesOK, Finished, LoopTypeOK
  <2>2. i \notin Members
    BY <1>4, <2>1, AtBlock
  <2>3. /\ Opened = Upto(Starts, i) /\ Opened = Upto(Ends, i)
        /\ HoleList[Opened] = [first_block |-> Nth(Starts, nbits, Opened), last_block |-> END]
    BY <2>1, <2>2, ClosedIsHole
  <2>4. ranges[n] = HoleList[Opened]
    BY <2>1, <2>3 DEF InOrder
  <2>5. \A m \in 1 .. n - 1 : ranges[m] = HoleList[Len(sent) * MAXRANGES + m]
    BY <2>1 DEF InOrder
  <2>6. \A m \in 1 .. n : m \in 1 .. n - 1 \/ m = n
    BY <1>4
  <2>7. Opened = Len(sent) * MAXRANGES + n
    BY DEF Opened
  <2> HIDE DEF n
  <2>8. \A m \in 1 .. n : ranges[m] = HoleList[Len(sent) * MAXRANGES + m]
    BY <2>4, <2>5, <2>6, <2>7
  <2> QED
    BY <1>4, <1>8, <2>1, <2>2, <2>3, <2>8 DEF n
<1>11. ASSUME Skip PROVE InOrder'
  <2>1. InOrder /\ ~inner /\ ~inner' /\ i \notin Members /\ NextBlock(ranges)
    BY <1>4, <1>11 DEF Skip, HolesOK, Finished
  <2>2. i \notin Starts /\ i \notin Ends
    BY <1>4, <2>1, AtBlock
  <2>3. Upto(Starts, i) = Upto(Starts, i - 1) /\ Upto(Ends, i) = Upto(Ends, i - 1)
    BY <1>4, <2>2, UptoStep
  <2>4. /\ Opened = Upto(Starts, i) /\ Opened = Upto(Ends, i)
        /\ \A m \in 1 .. Len(ranges) : ranges[m] = HoleList[Len(sent) * MAXRANGES + m]
    BY <2>1, <2>3 DEF InOrder
  <2> QED
    BY <1>4, <1>8, <2>1, <2>4
<1>12. ASSUME SendRest PROVE HolesOK'
  <2>1. InOrder /\ ~inner /\ i >= nbits /\ ranges # <<>> /\ Finished' /\ sent' = Append(sent, ranges)
    BY <1>1, <1>12 DEF SendRest, HolesOK, Finished
  <2> QED
    BY <1>1, <2>1, AllHoles DEF HolesOK
<1>13. ASSUME Return PROVE InOrder'
  <2>1. ArrayOK' /\ ~inner' /\ i' = 0 /\ sent' = <<>> /\ ranges' = <<>>
    BY <1>2, <1>13 DEF Return, Finished
  <2>2. (ArrayOK /\ ~inner /\ i = 0 /\ ranges = <<>> /\ sent = <<>>)'
    BY <2>1
  <2> QED
    BY <2>2, HolesAtStart, PTL
<1>14. ~Finished \/ Return
  <2>1. ~(i < nbits /\ i >= nbits)
    BY <1>4
  <2> QED
    BY <2>1, Zenon
    DEF Loop, Finished, Call, OpenRange, Extend, CloseRange, RunOut, Skip, SendRest
<1> QED
  BY <1>3, <1>5, <1>6, <1>7, <1>9, <1>10, <1>11, <1>12, <1>13, <1>14 DEF Loop
-----------------------------------------------------------------------------
(* The theorems.                                                           *)

ResendInv == ArrayOK /\ LoopTypeOK /\ AskedOK /\ HolesOK

\* No step changes both the array and the loop, and the array only changes
\* between two calls.
LEMMA ResendInvNext ==
  ResendInv /\ [ResendNext]_<<vars, loop>> => ResendInv'
<1> SUFFICES ASSUME ResendInv, [ResendNext]_<<vars, loop>> PROVE ResendInv'
  OBVIOUS
<1>1. CASE ~calling /\ Next /\ UNCHANGED loop
  <2>1. /\ ArrayOK' /\ ~inner' /\ i' = 0 /\ ranges' = <<>> /\ sent' = <<>> /\ ~calling'
        /\ calling' \in BOOLEAN /\ inner' \in BOOLEAN /\ inner' = inner
    BY <1>1, ArrayNext DEF ResendInv, LoopTypeOK, loop
  <2>2. AskedOK' /\ InOrder'
    <3>1. (ArrayOK /\ ~inner /\ i = 0 /\ ranges = <<>> /\ sent = <<>>)'
      BY <2>1
    <3>2. AskedOK'
      BY <3>1, AskedAtStart, PTL
    <3>3. InOrder'
      BY <3>1, HolesAtStart, PTL
    <3> QED
      BY <3>2, <3>3
  <2>3. LoopTypeOK'
    <3>1. /\ i' \in Nat /\ ranges' \in Seq(Request) /\ sent' \in Seq(Seq(Request))
          /\ Len(ranges') < MAXRANGES
          /\ \A k \in DOMAIN sent' : Len(sent'[k]) \in 1 .. MAXRANGES
      BY <2>1, HolesAssumption
    <3> QED
      BY <2>1, <3>1, Zenon DEF LoopTypeOK
  <2> QED
    BY <2>1, <2>2, <2>3 DEF ResendInv, HolesOK, Finished
<1>2. CASE Loop /\ UNCHANGED vars
  BY <1>2, SameArray, LoopTypeNext, AskedNext, HolesNext DEF ResendInv
<1>3. CASE UNCHANGED <<vars, loop>>
  <2>1. /\ Members' = Members /\ nbits' = nbits /\ ArrayOK'
    BY <1>3, SameArray DEF ResendInv, vars
  <2>2. \A r : Covered(r)' = Covered(r)
    BY <2>1 DEF Covered
  <2>3. LoopTypeOK'
    BY <1>3, <2>1 DEF ResendInv, LoopTypeOK, loop
  <2>4. AskedOK'
    BY <1>3, <2>1, <2>2 DEF ResendInv, AskedOK, Requested, AskedBy, SentRanges, loop
  <2>5. HolesOK'
    BY <1>3, <2>1
    DEF ResendInv, HolesOK, Finished, InOrder, Opened, Starts, Ends, HoleList, loop
  <2> QED
    BY <2>1, <2>3, <2>4, <2>5 DEF ResendInv
<1> QED
  BY <1>1, <1>2, <1>3 DEF ResendNext

\* The invariant holds at first,
LEMMA ResendInvInit ==
  ResendInit => ResendInv
<1> SUFFICES ASSUME ResendInit PROVE ResendInv
  OBVIOUS
<1>1. ArrayOK
  BY DEF ResendInit, Init, bits_alloc, ArrayOK, Words
<1>2. /\ calling = FALSE /\ inner = FALSE /\ i = 0 /\ ranges = <<>> /\ sent = <<>>
  BY DEF ResendInit
<1>3. AskedOK /\ InOrder
  BY <1>1, <1>2, AskedAtStart, HolesAtStart
<1>4. LoopTypeOK
  <2>1. /\ i \in Nat /\ ranges \in Seq(Request) /\ sent \in Seq(Seq(Request))
        /\ Len(ranges) < MAXRANGES
        /\ \A k \in DOMAIN sent : Len(sent[k]) \in 1 .. MAXRANGES
    BY <1>2, HolesAssumption
  <2> QED
    BY <1>2, <2>1, Zenon DEF LoopTypeOK
<1> QED
  BY <1>1, <1>2, <1>3, <1>4 DEF ResendInv, HolesOK, Finished

\* and always.
LEMMA ResendInvHolds ==
  ResendSpec => []ResendInv
BY ResendInvInit, ResendInvNext, PTL DEF ResendSpec

(***************************************************************************)
(* resend, hw2/client.c:51-111, asks for every missing block that it has   *)
(* passed and for no block that is there, and no command holds more than   *)
(* MAXRANGES ranges: for words and files of any size, and whatever calls   *)
(* of the functions of help.c filled the array.                            *)
(***************************************************************************)
THEOREM LoopsAskForMissing ==
  ResendSpec => []AsksForMissing
<1>1. ResendInv => AsksForMissing
  <2> SUFFICES ASSUME ResendInv PROVE AsksForMissing
    OBVIOUS
  <2>1. Len(ranges) <= MAXRANGES
    BY HolesAssumption DEF ResendInv, LoopTypeOK
  <2> QED
    BY <2>1 DEF ResendInv, LoopTypeOK, AskedOK, AsksForMissing
<1> QED
  BY <1>1, ResendInvHolds, PTL

(***************************************************************************)
(* What a call of resend has sent when it returns are the holes of the     *)
(* file in order, cut into as few commands as possible: what module        *)
(* FileClient takes a timeout to send.                                     *)
(***************************************************************************)
THEOREM LoopsSendTheHoles ==
  ResendSpec => []SendsTheHoles
<1>1. ResendInv => SendsTheHoles
  BY DEF ResendInv, HolesOK, SendsTheHoles
<1> QED
  BY <1>1, ResendInvHolds, PTL

(***************************************************************************)
(* The words and masks of help.c:44-145 are a set of bits, for words of    *)
(* any width and arrays of any size: every operation does to the words     *)
(* what it should do to the set, bits_setrange up to its undefined shift,  *)
(* and bits_empty answers for the set.                                     *)
(***************************************************************************)
THEOREM WordsImplementSet ==
  ResendSpec => ImplementsBitSet
<1>1. ResendInit => Abstract!Init
  <2> SUFFICES ASSUME ResendInit PROVE Abstract!Init
    OBVIOUS
  <2>1. nbits \in Sizes /\ array = [w \in Words |-> {}]
    BY DEF ResendInit, Init, bits_alloc, Words
  <2>2. Members = {}
    <3>1. ArrayOK
      BY <2>1 DEF ArrayOK
    <3>2. \A w \in Words : array[w] = {}
      BY <2>1
    <3> QED
      BY <3>1, <3>2, EmptyIsEmpty DEF bits_empty
  <2>3. bits_empty = TRUE
    BY <2>1 DEF bits_empty
  <2> QED
    BY <2>1, <2>2, <2>3 DEF Abstract!Init
<1>2. ResendInv /\ [ResendNext]_<<vars, loop>> => [Abstract!Next]_Abstract!vars
  <2> SUFFICES ASSUME ResendInv, [ResendNext]_<<vars, loop>> PROVE [Abstract!Next]_Abstract!vars
    OBVIOUS
  <2>1. CASE Next
    BY <2>1, ArrayNext DEF ResendInv
  <2>2. CASE UNCHANGED vars
    <3>1. Members' = Members /\ nbits' = nbits
      BY <2>2, SameArray DEF ResendInv, vars
    <3>2. bits_empty' = bits_empty
      BY <2>2 DEF bits_empty, Words, vars
    <3> QED
      BY <3>1, <3>2 DEF Abstract!vars
  <2> QED
    BY <2>1, <2>2 DEF ResendNext
<1> QED
  BY <1>1, <1>2, ResendInvHolds, PTL DEF ResendSpec, ImplementsBitSet, Abstract!Spec
=============================================================================
