-------------------------------- MODULE Bits --------------------------------
(***************************************************************************)
(* What the bit arrays of hw2/help.c mean to their users, the job thread   *)
(* of hw2/server.c and the hole tracking of hw2/client.c: a set of bit     *)
(* numbers below nbits.  Module BitArray models the words the code keeps   *)
(* and is shown to implement this view (module BitSet).                    *)
(***************************************************************************)
EXTENDS Integers

CONSTANT BITSPERLONG  \* bits in one word: 8*sizeof(uint64_t), 64 in the code

ASSUME WordAssumption == BITSPERLONG \in Nat \ {0}

(***************************************************************************)
(* The bounds bits_setrange works with: both ends are pulled back to       *)
(* nbits-1, and a first bit beyond the last one becomes the last one.      *)
(* (The tests first<0 and last<0 never hold of a uint64_t.)                *)
(***************************************************************************)
ClampLast_None(nbits, last) == last

ClampLast(nbits, last) == IF last >= nbits THEN nbits - 1 ELSE last

ClampFirst(nbits, first, last) ==
    LET f == ClampLast(nbits, first)
        l == ClampLast(nbits, last)
    IN  IF f > l THEN l ELSE f

(***************************************************************************)
(* The bits one call of bits_setrange sets.  The mask of the first of      *)
(* several words is ((1 << (BITSPERLONG-firstbit+1)) - 1) << firstbit: for *)
(* firstbit = 1 the shift count equals the width of the word, which C      *)
(* leaves undefined.  Where the processor takes the count modulo the width *)
(* (wraps) the mask is 0 and the rest of the first word is not set; where  *)
(* the shift yields 0 the mask is what was meant.                          *)
(***************************************************************************)
RangeBits(nbits, first, last, wraps) ==
    LET f    == ClampFirst(nbits, first, last)
        l    == ClampLast(nbits, last)
        word == f \div BITSPERLONG
    IN  IF wraps /\ f % BITSPERLONG = 1 /\ l \div BITSPERLONG # word
        THEN (word + 1) * BITSPERLONG .. l
        ELSE f .. l

\* The bits set by the loop over the ranges of one command.
CommandBits(nbits, ranges, wraps) ==
    UNION { RangeBits(nbits, ranges[r].first_block, ranges[r].last_block, wraps) :
              r \in DOMAIN ranges }
=============================================================================
