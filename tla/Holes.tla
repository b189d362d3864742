-------------------------------- MODULE Holes --------------------------------
(***************************************************************************)
(* What resend of hw2/client.c asks for, without its loops: the holes of a *)
(* file, in order, MAXRANGES of them to a command.  Module Resend runs the *)
(* loops and is checked against this.                                      *)
(***************************************************************************)
EXTENDS Integers, SequencesExt

CONSTANTS MAXRANGES,  \* ranges in one command, 12 in the code
          END         \* a block number past every file: INT_MAX as well as the
                      \* -1 of num_blocks, which is never set, as a uint64_t

ASSUME HolesAssumption == MAXRANGES \in Nat \ {0} /\ END \in Nat

\* The first and the last blocks of the holes of a file.
HoleStarts(missing) == { b \in missing : b - 1 \notin missing }
HoleEnds(missing)   == { b \in missing : b + 1 \notin missing }

\* The k-th smallest of a set of numbers below n: as many numbers below n have
\* fewer than k members up to and including them as there are before it.
Nth(S, n, k) == Cardinality({ b \in 0 .. n - 1 : Cardinality(S \intersect 0 .. b) < k })

\* The ranges of all holes in order.  One that reaches the end of the file is
\* left open.
HoleRanges(missing, nbits) ==
    [k \in 1 .. Cardinality(HoleStarts(missing)) |->
        LET last == Nth(HoleEnds(missing), nbits, k)
        IN  [first_block |-> Nth(HoleStarts(missing), nbits, k),
             last_block  |-> IF last = nbits - 1 THEN END ELSE last]]

Pieces_OnlyFull(ranges) ==
    [k \in 1 .. Len(ranges) \div MAXRANGES |->
        SubSeq(ranges, (k - 1) * MAXRANGES + 1, k * MAXRANGES)]

\* A sequence of ranges cut into pieces of MAXRANGES, the last one shorter.
Pieces(ranges) ==
    [k \in 1 .. (Len(ranges) + MAXRANGES - 1) \div MAXRANGES |->
        SubSeq(ranges, (k - 1) * MAXRANGES + 1, Min({k * MAXRANGES, Len(ranges)}))]

\* The ranges of each command resend sends.
ResendRanges(missing, nbits) == Pieces(HoleRanges(missing, nbits))
=============================================================================
