--------------------------- MODULE MCFileTransfer ---------------------------
(* Small instances of the file transfer. *)
EXTENDS FileTransfer

MCSize == [f \in Names |-> IF f = "d" THEN 2 ELSE 1]

\* c2 and c3 ask for the same file.
SharedFile == [c \in Clients |-> IF c = "c1" THEN <<"d", "b">> ELSE <<"d">>]

\* A block that an earlier client on the port of c1 asked for.
LateBlocks == { [client |-> "c1", file |-> "e", which_block |-> 0, total_blocks |-> 1] }

\* The last block of "d" and the request for it can come twice.
LastTwice == { [client |-> "c1", file |-> "d", which_block |-> 1, total_blocks |-> 2],
               Command("c1", "d", <<[first_block |-> 1, last_block |-> END]>>) }

(* All that can happen at once is too much to check, so a run is in one of   *)
(* three settings, and the counts of faults stand at the start accordingly:  *)
(* c1 alone with all faults, c1 alone with a block that comes late from      *)
(* before it started, or c2 and c3 together, with lost datagrams.            *)
VARIABLE setting

MCInit ==
    /\ ServerInit /\ ClientInit /\ cmds = {} /\ merged = {}
    /\ setting \in {"faults", "late", "together"}
    /\ blks = IF setting = "late" THEN Leftover ELSE {}
    /\ early = IF setting = "faults" THEN 0 ELSE EARLY
    /\ lost = IF setting = "late" THEN LOSSES ELSE 0

MCNext ==
    /\ \/ Server /\ (setting = "together" /\ RecvCommand => cmds' # cmds)
       \/ \E c \in Clients :
             \/ (c = "c1" <=> setting # "together") /\ ClientStarts(c)
             \/ ClientTimesOut(c)
             \/ ClientReceives(c) /\ (setting = "together" => blks' # blks)
       \/ LoseDatagram
    /\ UNCHANGED setting

MCSpec == MCInit /\ [][MCNext]_<<vars, setting>> /\ Fairness
=============================================================================
