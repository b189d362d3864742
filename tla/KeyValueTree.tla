---------------------------- MODULE KeyValueTree ----------------------------
(***************************************************************************)
(* hw5/rbtree.c: a red-black tree of keys and values, and the iterator of  *)
(* hw5/sglib.h that prints it.  The receiver thread of a node alone uses   *)
(* the tree, and prints it after each put, so nothing changes it while the *)
(* iterator is under way; the iterator has one action for a turn of its    *)
(* loop.                                                                   *)
(***************************************************************************)
EXTENDS RedBlackTree, SequencesExt

CONSTANTS None,    \* no value
          Puts     \* the keys and values that are put

ASSUME KeyValueTreeAssumption ==
    /\ None \notin Values
    /\ Puts \subseteq Keys \X Values

VARIABLES
  the_tree,
  \* the iterator it
  path,         \* the nodes from the root to where it is, pathi of them
  pass,         \* pass[i]: how many subtrees of path[i] it has gone to
  currentelem,  \* the node it has come to, or NULL
  \* the terminal
  printed       \* the keys and values printed since the last put

vars == <<the_tree, path, pass, currentelem, printed>>
iterator == <<path, pass, currentelem>>

Init ==
    /\ the_tree = NULL
    /\ path = <<>> /\ pass = <<>> /\ currentelem = NULL
    /\ printed = <<>>

Idle == path = <<>>

Order_Default == 2  \* what sglib_rbtree_it_init takes

Order == 1  \* in order: an element comes after its first subtree
-----------------------------------------------------------------------------
(* The operations.                                                         *)

\* A key that is there already gets another node.
Put_AlwaysAdds(k, v) == the_tree' = Add(the_tree, Node(k, v))

Put(k, v) == the_tree' = IF Find(the_tree, k) = NULL THEN Add(the_tree, Node(k, v))
                         ELSE Overwrite(the_tree, k, v)

\* rbtree_put, and the start of rbtree_print.
rbtree_put(k, v) ==
    /\ Idle
    /\ Put(k, v)
    /\ path' = <<the_tree'>> /\ pass' = <<0>>
    /\ printed' = <<>>
    /\ UNCHANGED currentelem

rbtree_get(k) == LET found == Find(the_tree, k)
                 IN  IF found = NULL THEN None ELSE found.value

\* sglib_rbtree_delete_if_member, which no command calls so far: a del is only
\* reported on the terminal.
delete_if_member(k) ==
    /\ Idle
    /\ Find(the_tree, k) # NULL
    /\ the_tree' = Delete(the_tree, k)
    /\ UNCHANGED <<iterator, printed>>
-----------------------------------------------------------------------------
(* The iterator.                                                           *)

\* The element where the iterator has come to, if it is its turn.
Current(newPath, newPass) ==
    IF newPath # <<>> /\ Last(newPass) = Order THEN Last(newPath) ELSE NULL

Turn(newPath, newPass) ==
    /\ path' = newPath /\ pass' = newPass
    /\ currentelem' = Current(newPath, newPass)
    /\ UNCHANGED <<the_tree, printed>>

Counted == [pass EXCEPT ![Len(pass)] = @ + 1]

NextSubtree == IF Last(pass) = 0 THEN Last(path).left ELSE Last(path).right

GoUp ==
    /\ ~Idle /\ currentelem = NULL /\ Last(pass) >= 2
    /\ Turn(Front(path), Front(pass))

GoDown ==
    /\ ~Idle /\ currentelem = NULL /\ Last(pass) < 2 /\ NextSubtree # NULL
    /\ Turn(Append(path, NextSubtree), Append(Counted, 0))

PassOver ==
    /\ ~Idle /\ currentelem = NULL /\ Last(pass) < 2 /\ NextSubtree = NULL
    /\ Turn(path, Counted)

\* rbtree_print prints the element and asks for the next one.
PrintElement ==
    /\ currentelem # NULL
    /\ printed' = Append(printed, <<currentelem.key, currentelem.value>>)
    /\ currentelem' = NULL
    /\ UNCHANGED <<the_tree, path, pass>>

rbtree_print == GoUp \/ GoDown \/ PassOver \/ PrintElement

Next == \/ \E p \in Puts : rbtree_put(p[1], p[2])
        \/ \E k \in Keys : delete_if_member(k)
        \/ rbtree_print

Spec == Init /\ [][Next]_vars
-----------------------------------------------------------------------------
(* Types, and keys on the side they belong to in the whole tree.           *)
KeyValueTypeOK ==
    /\ \A n \in Nodes(the_tree) :
         /\ n.key \in Keys /\ n.value \in Values /\ n.color \in {RED, BLACK}
         /\ \A m \in Nodes(n.left) : m.key < n.key
         /\ \A m \in Nodes(n.right) : n.key < m.key
    /\ Len(path) = Len(pass)
    /\ \A i \in DOMAIN path : path[i] \in Nodes(the_tree) /\ pass[i] \in 0 .. 2
    /\ currentelem # NULL => currentelem = Last(path)
    /\ \A i \in DOMAIN printed : printed[i] \in Keys \X Values

(***************************************************************************)
(* The tree is red-black after every operation, whatever came before: what *)
(* the library's consistency_check asserts (hw5/sglib.h:1865-1889), which  *)
(* no test calls.                                                          *)
(***************************************************************************)
TreeConsistent == ConsistencyCheck(the_tree)

PowerOfTwo[n \in Nat] == IF n = 0 THEN 1 ELSE 2 * PowerOfTwo[n - 1]

(***************************************************************************)
(* The path of the iterator, SGLIB_MAX_TREE_DEEP entries that nothing      *)
(* checks (hw5/sglib.h:1895), is long enough: a tree of n nodes is at most *)
(* 2 log (n + 1) deep.                                                     *)
(***************************************************************************)
PathFits == PowerOfTwo[(Len(path) + 1) \div 2] <= Cardinality(Nodes(the_tree)) + 1

\* The keys and values that are in the store.
Entries == { <<n.key, n.value>> : n \in Nodes(the_tree) }

\* What was printed is the beginning of the list of these, in the order of keys.
ListsInOrder(list, entries) ==
    /\ \A i, j \in DOMAIN list : i < j => list[i][1] < list[j][1]
    /\ ToSet(list) = { e \in entries : \E i \in DOMAIN list : e[1] <= list[i][1] }

(***************************************************************************)
(* rbtree_print (hw5/rbtree.c:55) prints each key once with its value, in  *)
(* order, and nothing else; when it ends it has printed them all.          *)
(***************************************************************************)
PrintsInOrder ==
    [][~Idle => /\ ListsInOrder(printed', Entries)
                /\ Idle' => ToSet(printed') = Entries]_vars

(***************************************************************************)
(* Whatever the shape of the tree, rbtree_get gives for each key the last  *)
(* value put, and a put or a removal changes no other key.                 *)
(***************************************************************************)
Store == INSTANCE KeyValueStore WITH store <- [k \in Keys |-> rbtree_get(k)]
ImplementsStore == Store!Spec
=============================================================================
