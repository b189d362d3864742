---------------------------- MODULE KeyValueStore ----------------------------
(***************************************************************************)
(* What hw5/rbtree.c promises the nodes of hw5: a value for each key that  *)
(* was put.  Module Session uses it in this form, one store for each node. *)
(***************************************************************************)
CONSTANTS Keys, Values,
          None      \* what rbtree_get gives for a key that is not there

VARIABLE store

Init == store = [k \in Keys |-> None]

Put(k, v) == store' = [store EXCEPT ![k] = v]

Remove(k) == store' = [store EXCEPT ![k] = None]

Next == \E k \in Keys : Remove(k) \/ \E v \in Values : Put(k, v)

Spec == Init /\ [][Next]_store
=============================================================================
