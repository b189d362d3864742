-------------------------------- MODULE Slots --------------------------------
(***************************************************************************)
(* Arrays of records of which the first few are in use, as hw3, hw4 and    *)
(* hw5 keep their neighbours.  One that goes away leaves no hole: the last *)
(* one takes its slot.                                                     *)
(***************************************************************************)
EXTENDS Integers, SequencesExt

\* Slot j is overwritten with the last one, which is dropped.
DropSlot(slots, j) == Front([slots EXCEPT ![j] = Last(slots)])
=============================================================================
