----------------------------- MODULE MCSession -----------------------------
(***************************************************************************)
(* An instance of Session: two clients put a value for the one key at      *)
(* different nodes and one asks for it, with a single fault; or one puts a *)
(* value and one asks for it or deletes it.  Node n1 has an eth0, n2 has   *)
(* not.                                                                    *)
(***************************************************************************)
EXTENDS Session, TLC

CONSTANTS n1, n2, p1, p2, g, d, k, v1, v2

MCTarget == (p1 :> n1) @@ (p2 :> n2) @@ (g :> n1) @@ (d :> n1)
MCOp     == (p1 :> "put") @@ (p2 :> "put") @@ (g :> "get") @@ (d :> "del")
MCKey    == [c \in Clients |-> k]
MCValue  == [c \in Clients |-> IF c = p1 THEN v1 ELSE v2]

VARIABLE active  \* the clients that are run

MCInit ==
    /\ Init
    /\ active \in { {p1, p2, g}, {p1, g}, {p2, g}, {p1, d} }

MCNext ==
    /\ \/ \E c \in active : SendCommand(c)
       \/ \E c \in Clients : ReceiveAnswer(c) \/ Timeout(c)
       \/ \E p \in net : HandlePacket(p) \/ Lose(p)
       \/ \E n \in Nodes : Start(n) \/ Stop(n)
    /\ UNCHANGED active
    /\ {p1, p2} \subseteq active => faults' <= 1

MCSpec == MCInit /\ [][MCNext]_<<vars, active>>
=============================================================================
