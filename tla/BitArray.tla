------------------------------ MODULE BitArray ------------------------------
(***************************************************************************)
(* struct bits of hw2/help.c and its operations, word by word.  A word is  *)
(* the set of the positions of its one bits, so an or is a union, and a    *)
(* left shift moves positions up and drops those past the width.           *)
(***************************************************************************)
EXTENDS Bits

CONSTANT Sizes,      \* the sizes bits_alloc is called with, all positive
         Arguments   \* the bit numbers callers pass, some beyond nbits

ASSUME SizesAssumption == Sizes \subseteq Nat \ {0} /\ Arguments \subseteq Nat

VARIABLES array,     \* the words
          nbits      \* the number of bits in use

vars == <<array, nbits>>

Positions == 0 .. BITSPERLONG - 1

\* The number of words nbits bits need.
BITSIZE(n) == n \div BITSPERLONG + (IF n % BITSPERLONG # 0 THEN 1 ELSE 0)

Words == 0 .. BITSIZE(nbits) - 1

ShiftLeft(word, count) == { p + count : p \in word } \intersect Positions

LowOnes_NoMinusOne(count, wraps) == {count} \intersect Positions

(***************************************************************************)
(* (1 << count) - 1.  A count of BITSPERLONG or more is undefined in C: it *)
(* is taken modulo the width, or the shift gives 0 and the mask all ones.  *)
(***************************************************************************)
LowOnes(count, wraps) ==
    IF count < BITSPERLONG THEN 0 .. count - 1
    ELSE IF wraps THEN 0 .. (count % BITSPERLONG) - 1
    ELSE Positions

bits_testbit(bit) ==
    /\ bit < nbits
    /\ bit % BITSPERLONG \in array[bit \div BITSPERLONG]

bits_empty == \A i \in Words : array[i] = {}

bits_alloc == /\ nbits \in Sizes
              /\ array = [i \in 0 .. BITSIZE(nbits) - 1 |-> {}]

bits_setrange(first, last, wraps) ==
    LET f         == ClampFirst(nbits, first, last)
        l         == ClampLast(nbits, last)
        firstlong == f \div BITSPERLONG
        lastlong  == l \div BITSPERLONG
        firstbit  == f - firstlong * BITSPERLONG
        lastbit   == l - lastlong * BITSPERLONG
        lowmask   == IF firstbit = 0 THEN Positions
                     ELSE ShiftLeft(LowOnes(BITSPERLONG - firstbit + 1, wraps), firstbit)
        highmask  == IF lastbit = BITSPERLONG - 1 THEN Positions
                     ELSE LowOnes(lastbit + 1, wraps)
        midmask   == IF firstbit = 0 /\ lastbit = BITSPERLONG - 1 THEN Positions
                     ELSE ShiftLeft(LowOnes(lastbit - firstbit + 1, wraps), firstbit)
    IN  array' = IF firstlong # lastlong
                 THEN [i \in Words |->
                         IF i = firstlong THEN array[i] \union lowmask
                         ELSE IF i = lastlong THEN array[i] \union highmask
                         ELSE IF firstlong < i /\ i < lastlong THEN Positions
                         ELSE array[i]]
                 ELSE [array EXCEPT ![firstlong] = @ \union midmask]

bits_setbit(bit) ==
    /\ bit < nbits
    /\ array' = [array EXCEPT ![bit \div BITSPERLONG] = @ \union {bit % BITSPERLONG}]

bits_clearbit(bit) ==
    /\ bit < nbits
    /\ array' = [array EXCEPT ![bit \div BITSPERLONG] = @ \ {bit % BITSPERLONG}]

bits_clearall == array' = [i \in Words |-> {}]

Init == bits_alloc

Next == /\ \/ \E first, last \in Arguments, wraps \in BOOLEAN :
                bits_setrange(first, last, wraps)
           \/ \E bit \in Arguments : bits_setbit(bit) \/ bits_clearbit(bit)
           \/ bits_clearall
        /\ UNCHANGED nbits

Spec == Init /\ [][Next]_vars
-----------------------------------------------------------------------------
\* The bits a caller can read back one at a time.
Members == { bit \in 0 .. nbits - 1 : bits_testbit(bit) }

(***************************************************************************)
(* The words implement the set of bit numbers that the server and client   *)
(* models use for bits_setrange (hw2/help.c:65) and its companions.  No    *)
(* operation leaves a one bit at or past nbits in the last word:           *)
(* bits_empty, which looks at whole words, and bits_testbit, which stops   *)
(* at nbits, agree.  next_one (hw2/server.c:62) asks bits_empty and then   *)
(* searches with bits_testbit; a stray bit would make it loop for ever,    *)
(* and would keep a finished job of the server, or file of the client,     *)
(* from ever counting as finished.                                         *)
(***************************************************************************)
Abstract == INSTANCE BitSet WITH members <- Members, empty <- bits_empty
ImplementsBitSet == Abstract!Spec

(***************************************************************************)
(* A range is "first_block .. last_block" "to send" (hw2/help.h:43): one   *)
(* call of bits_setrange sets every bit of the clamped range.              *)
(***************************************************************************)
SetRangeIsExact ==
    [][\A first, last \in Arguments, wraps \in BOOLEAN :
         bits_setrange(first, last, wraps) =>
            Members' = Members \union
                         (ClampFirst(nbits, first, last) .. ClampLast(nbits, last))]_vars
=============================================================================
