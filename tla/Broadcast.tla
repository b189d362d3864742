------------------------------ MODULE Broadcast ------------------------------
(***************************************************************************)
(* What the flooding of hw3/messenger.c promises: a message that was typed *)
(* at one node may be shown at the others, in any order, once at each.     *)
(***************************************************************************)
EXTENDS SequencesExt

CONSTANTS Nodes, Messages,
          Author   \* Author[m]: the node m is typed at

VARIABLE shown     \* shown[n]: the messages on the terminal of n

Init == shown = [n \in Nodes |-> <<>>]

Show(n, m) == /\ m \notin Range(shown[n])
              /\ shown' = [shown EXCEPT ![n] = Append(@, m)]

Type(m) == Show(Author[m], m)

Deliver(n, m) == m \in Range(shown[Author[m]]) /\ Show(n, m)

Next == \E m \in Messages : Type(m) \/ \E n \in Nodes : Deliver(n, m)

Spec == Init /\ [][Next]_shown
=============================================================================
