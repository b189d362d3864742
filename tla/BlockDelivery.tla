---------------------------- MODULE BlockDelivery ----------------------------
(***************************************************************************)
(* What the file transfer of hw2 promises its users: a client obtains      *)
(* blocks of the files it asked for, each counted once and none made up,   *)
(* says that it is complete only with all blocks of all files, and obtains *)
(* nothing after it ended.                                                 *)
(***************************************************************************)
EXTENDS Integers, Sequences

CONSTANTS Clients, Args, Size

VARIABLES got,     \* got[c][a]: the blocks c has of its file a
          outcome  \* outcome[c]: "running", "complete" or "gaveup"

vars == <<got, outcome>>

All(c, a) == 0 .. Size[Args[c][a]] - 1

Init == /\ got = [c \in Clients |-> [a \in DOMAIN Args[c] |-> {}]]
        /\ outcome = [c \in Clients |-> "running"]

Deliver(c, a, b) ==
    /\ outcome[c] = "running" /\ b \in All(c, a) \ got[c][a]
    /\ got' = [got EXCEPT ![c][a] = @ \union {b}]
    /\ UNCHANGED outcome

Complete(c) ==
    /\ outcome[c] = "running" /\ \A a \in DOMAIN Args[c] : got[c][a] = All(c, a)
    /\ outcome' = [outcome EXCEPT ![c] = "complete"]
    /\ UNCHANGED got

GiveUp(c) ==
    /\ outcome[c] = "running"
    /\ outcome' = [outcome EXCEPT ![c] = "gaveup"]
    /\ UNCHANGED got

Next == \E c \in Clients :
            \/ \E a \in DOMAIN Args[c] : \E b \in All(c, a) : Deliver(c, a, b)
            \/ Complete(c)
            \/ GiveUp(c)

Spec == Init /\ [][Next]_vars
=============================================================================
