------------------------------- MODULE Resend -------------------------------
(***************************************************************************)
(* The loops of resend, hw2/client.c:51-111, over the bit array of a file, *)
(* in which the missing blocks have a one: a range is opened at the first  *)
(* block of a hole and closed at the block after the hole, and a command   *)
(* sent whenever MAXRANGES ranges are in it.  Between two calls of resend  *)
(* the client may do anything to the array.                                *)
(***************************************************************************)
EXTENDS BitArray, Holes

\* The end of a range that is open is past every block of a file.
ASSUME ResendAssumption == \A n \in Sizes : n - 1 <= END

VARIABLES calling,  \* in a call of resend?
          i,        \* the block looked at
          inner,    \* inside the inner loop?
          ranges,   \* the ranges in the command being built, c+1 of them
          sent      \* the ranges of the commands sent

loop == <<calling, i, inner, ranges, sent>>

Missing == bits_testbit(i)

ResendInit == /\ Init
              /\ calling = FALSE /\ i = 0 /\ inner = FALSE
              /\ ranges = <<>> /\ sent = <<>>

Call == /\ ~calling /\ calling' = TRUE
        /\ UNCHANGED <<i, inner, ranges, sent>>

Current == Len(ranges)

NextBlock_NeverSends(r) == i' = i + 1 /\ ranges' = r /\ UNCHANGED sent

NextBlock_SendsEarly(r) ==
    /\ i' = i + 1
    /\ IF Len(r) = MAXRANGES - 1
       THEN sent' = Append(sent, r) /\ ranges' = <<>>
       ELSE ranges' = r /\ UNCHANGED sent

\* i++, and the command goes off if it is full.
NextBlock(r) ==
    /\ i' = i + 1
    /\ IF Len(r) = MAXRANGES
       THEN sent' = Append(sent, r) /\ ranges' = <<>>
       ELSE ranges' = r /\ UNCHANGED sent

\* A missing block starts a range that is open until its end is found.
OpenRange ==
    /\ calling /\ ~inner /\ i < nbits /\ Missing
    /\ ranges' = Append(ranges, [first_block |-> i, last_block |-> END])
    /\ i' = i + 1
    /\ inner' = TRUE
    /\ UNCHANGED <<calling, sent>>

\* The inner loop passes a block that is missing too.
Extend ==
    /\ inner /\ i < nbits /\ Missing
    /\ i' = i + 1
    /\ UNCHANGED <<calling, inner, ranges, sent>>

\* The inner loop comes to a block that is there, which ends the range and
\* is itself passed over.
CloseRange ==
    /\ inner /\ i < nbits /\ ~Missing
    /\ inner' = FALSE
    /\ NextBlock([ranges EXCEPT ![Current].last_block = i - 1])
    /\ UNCHANGED calling

\* The inner loop comes to the end of the file: the range stays open.
RunOut ==
    /\ inner /\ i >= nbits
    /\ inner' = FALSE
    /\ NextBlock(ranges)
    /\ UNCHANGED calling

Skip ==
    /\ calling /\ ~inner /\ i < nbits /\ ~Missing
    /\ NextBlock(ranges)
    /\ UNCHANGED <<calling, inner>>

Finished == calling /\ ~inner /\ i >= nbits /\ ranges = <<>>

\* The last command, if it is not empty.
SendRest ==
    /\ calling /\ ~inner /\ i >= nbits /\ ranges # <<>>
    /\ sent' = Append(sent, ranges)
    /\ ranges' = <<>>
    /\ UNCHANGED <<calling, i, inner>>

Return == /\ Finished
          /\ calling' = FALSE /\ i' = 0 /\ sent' = <<>>
          /\ UNCHANGED <<inner, ranges>>

Loop == Call \/ OpenRange \/ Extend \/ CloseRange \/ RunOut \/ Skip \/ SendRest \/ Return

ResendNext == \/ ~calling /\ Next /\ UNCHANGED loop
              \/ Loop /\ UNCHANGED vars

ResendSpec == ResendInit /\ [][ResendNext]_<<vars, loop>>
-----------------------------------------------------------------------------
Covered(r) == { k \in 0 .. nbits - 1 : r.first_block <= k /\ k <= r.last_block }

SentRanges == UNION { Range(sent[k]) : k \in DOMAIN sent }

Requested == UNION { Covered(r) : r \in SentRanges \union Range(ranges) }

(***************************************************************************)
(* At every turn of the outer loop the ranges sent and waiting ask for the *)
(* missing blocks passed so far and for no block that is already there; no *)
(* command ever holds more than MAXRANGES ranges, the size of the array in *)
(* struct command (hw2/help.h:77).                                         *)
(***************************************************************************)
AsksForMissing ==
    /\ ~inner => Requested = { k \in Members : k < i }
    /\ Len(ranges) <= MAXRANGES
    /\ \A k \in DOMAIN sent : Len(sent[k]) \in 1 .. MAXRANGES

(***************************************************************************)
(* The loops compute what the client model sends (Holes!ResendRanges): the *)
(* holes in order, in as few commands as MAXRANGES allows                  *)
(* ("aggregates contiguous block ranges to minimize the number of resend   *)
(* requests", hw2/client.c:47-48).                                         *)
(***************************************************************************)
SendsTheHoles == Finished => sent = ResendRanges(Members, nbits)
=============================================================================
