------------------------------- MODULE BitSet -------------------------------
(***************************************************************************)
(* The abstract specification of the bit arrays of hw2/help.c: what the    *)
(* server and the client see of bits_alloc, bits_setrange, bits_setbit,    *)
(* bits_clearbit, bits_clearall and bits_empty, without words and masks.   *)
(***************************************************************************)
EXTENDS Bits

CONSTANT Sizes,      \* the sizes an array is allocated with
         Arguments   \* the bit numbers callers pass, some beyond nbits

VARIABLES members, nbits,
          empty    \* what bits_empty answers

vars == <<members, nbits, empty>>

Init == nbits \in Sizes /\ members = {} /\ empty = TRUE

SetRange(first, last, wraps) ==
    members' = members \union RangeBits(nbits, first, last, wraps)

SetBit(bit) == members' = members \union ({bit} \intersect 0 .. nbits - 1)

ClearBit(bit) == members' = members \ {bit}

ClearAll == members' = {}

Next == /\ \/ \E first, last \in Arguments, wraps \in BOOLEAN :
                SetRange(first, last, wraps)
           \/ \E bit \in Arguments : SetBit(bit) \/ ClearBit(bit)
           \/ ClearAll
        /\ empty' = (members' = {})
        /\ UNCHANGED nbits

Spec == Init /\ [][Next]_vars
=============================================================================
