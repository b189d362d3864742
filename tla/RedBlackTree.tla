---------------------------- MODULE RedBlackTree ----------------------------
(***************************************************************************)
(* The red-black trees of hw5/sglib.h as hw5/rbtree.c instantiates them: a *)
(* tree is NULL or a node with a key, a value, a color and two subtrees.   *)
(* A function of the library that changes a tree in place is an operator   *)
(* that gives the new tree; one that also returns a result gives a record. *)
(*                                                                         *)
(* The library writes each repair once, for both sides, with the names of  *)
(* the fields as macro parameters: here the side is a parameter, and       *)
(* t[side] the field.                                                      *)
(***************************************************************************)
EXTENDS Integers, FiniteSets

CONSTANTS NULL, Keys, Values

RED   == "red"
BLACK == "black"

\* The nodes whose subtrees are in the given set.
NodesOver(subtrees) ==
    [key : Keys, value : Values, color : {RED, BLACK}, left : subtrees, right : subtrees]

(***************************************************************************)
(* The trees of at most n levels, up to the Height that the functions      *)
(* below take.  A tree whose keys all differ has no more levels than there *)
(* are keys; two levels for each level of the old tree, and one for a new  *)
(* node, are room enough for what an operation makes of it.                *)
(***************************************************************************)
Height == 2 * Cardinality(Keys) + 1

Trees[n \in 0 .. Height] ==
    IF n = 0 THEN {NULL}
    ELSE LET lower == Trees[n - 1] IN {NULL} \union NodesOver(lower)

Tree == Trees[Height]

ASSUME RedBlackTreeAssumption ==
    /\ Keys \subseteq Int /\ IsFiniteSet(Keys)
    /\ \A n \in 0 .. Height : NULL \notin NodesOver(Trees[n])

Node(key, value) ==
    [key |-> key, value |-> value, color |-> RED, left |-> NULL, right |-> NULL]

Other(side) == IF side = "left" THEN "right" ELSE "left"

\* The side of t's subtree that key is in, key not being t's own.
SideOf(t, key) == IF key < t.key THEN "left" ELSE "right"

IsRed(t) == t # NULL /\ t.color = RED

Painted(t, color) == [t EXCEPT !.color = color]

Find(t, key) ==
    LET find[s \in Tree] ==
          IF s = NULL THEN s
          ELSE IF s.key = key THEN s ELSE find[s[SideOf(s, key)]]
    IN  find[t]
-----------------------------------------------------------------------------
(* Insertion.                                                              *)

\* Colors are exchanged, but no node takes the place of another.
FixInsertion_NoRotation(t, side) ==
    IF IsRed(t[side]) /\ IsRed(t[Other(side)])
    THEN [t EXCEPT !.color = RED, !.left = Painted(t.left, BLACK),
                                  !.right = Painted(t.right, BLACK)]
    ELSE t

(***************************************************************************)
(* The subtree on the given side of the black node t has grown, and may    *)
(* have a red root with a red child.  If both subtrees of t have red roots *)
(* the colors are exchanged; else the middle one of the three nodes takes  *)
(* the place of t.                                                         *)
(***************************************************************************)
FixInsertion(t, side) ==
    LET tl     == t[side]
        far    == Other(side)
        double == IsRed(tl) /\ (IsRed(tl[side]) \/ IsRed(tl[far]))
    IN  CASE ~double -> t
          [] double /\ IsRed(t[far]) ->
               [t EXCEPT !.color = RED, ![side] = Painted(tl, BLACK),
                                        ![far] = Painted(t[far], BLACK)]
          [] double /\ ~IsRed(t[far]) /\ IsRed(tl[side]) ->
               [tl EXCEPT !.color = BLACK,
                          ![far] = [t EXCEPT !.color = RED, ![side] = tl[far]]]
          [] OTHER ->
               LET c == tl[far]
               IN  [c EXCEPT !.color = BLACK,
                             ![side] = [tl EXCEPT ![far] = c[side]],
                             ![far] = [t EXCEPT !.color = RED, ![side] = c[far]]]

AddRecursive(t, elem) ==
    LET add[s \in Tree] ==
          IF s = NULL THEN Painted(elem, RED)
          ELSE LET side  == SideOf(s, elem.key)
                   grown == [s EXCEPT ![side] = add[s[side]]]
               IN  IF s.color = BLACK THEN FixInsertion(grown, side) ELSE grown
    IN  add[t]

\* The root stays red if the last repair made it so.
Add_RootAsItComes(t, elem) == AddRecursive(t, elem)

Add(t, elem) == Painted(AddRecursive(t, elem), BLACK)

\* The value of a key that is in t is overwritten where it is.
Overwrite(t, key, value) ==
    LET write[s \in Tree] ==
          IF s = NULL THEN s
          ELSE IF s.key = key THEN [s EXCEPT !.value = value]
          ELSE [s EXCEPT ![SideOf(s, key)] = write[s[SideOf(s, key)]]]
    IN  write[t]
-----------------------------------------------------------------------------
(* Deletion.  [tree, shorter]: the new tree, and whether its paths have one *)
(* black node less than before.                                            *)

Result(tree, shorter) == [tree |-> tree, shorter |-> shorter]

(***************************************************************************)
(* FixDeletion: the paths through the subtree of a on the given side have  *)
(* become one black node shorter, and b, the root of the other subtree, is *)
(* to make up for it.                                                      *)
(***************************************************************************)

\* b is red, so a and the children of b are black: the paths are made equal.
FixRedSibling(a, b, side) ==
    LET sib == Other(side)
        c   == b[side]
        d   == c[side]
    IN  CASE c = NULL ->
               [b EXCEPT !.color = BLACK, ![side] = [a EXCEPT ![sib] = NULL]]
          [] c # NULL /\ IsRed(d) ->
               [d EXCEPT !.color = BLACK,
                         ![sib]  = [b EXCEPT ![side] = [c EXCEPT ![side] = d[sib]]],
                         ![side] = [a EXCEPT ![sib] = d[side]]]
          [] c # NULL /\ ~IsRed(d) /\ IsRed(c[sib]) ->
               [c EXCEPT ![sib]  = [b EXCEPT ![side] = Painted(c[sib], BLACK)],
                         ![side] = [a EXCEPT ![sib] = d]]
          [] c # NULL /\ ~IsRed(d) /\ ~IsRed(c[sib]) ->
               [b EXCEPT !.color = BLACK,
                         ![side] = [a EXCEPT ![sib] = Painted(c, RED)]]

\* b is black: a red child of b makes up for it, or b turns red and the paths
\* of the other subtree get shorter too, which a makes up for if it is red.
FixBlackSibling(a, b, side) ==
    LET sib   == Other(side)
        c     == b[side]
        lower == [a EXCEPT !.color = BLACK, ![sib] = c]
    IN  CASE ~IsRed(b[sib]) /\ ~IsRed(c) ->
               Result([a EXCEPT !.color = BLACK, ![sib] = Painted(b, RED)], ~IsRed(a))
          [] IsRed(b[sib]) /\ ~IsRed(c) ->
               Result([b EXCEPT !.color = a.color, ![sib] = Painted(b[sib], BLACK),
                                ![side] = lower], FALSE)
          [] IsRed(c) ->
               Result([c EXCEPT !.color = a.color, ![sib] = [b EXCEPT ![side] = c[sib]],
                                ![side] = [lower EXCEPT ![sib] = c[side]]], FALSE)

FixDeletion(a, side) ==
    LET b == a[Other(side)]
    IN  CASE b = NULL              -> Result(Painted(a, BLACK), FALSE)
          [] IsRed(b)              -> Result(FixRedSibling(a, b, side), FALSE)
          [] b # NULL /\ ~IsRed(b) -> FixBlackSibling(a, b, side)

\* r is what was deleted from the subtree of t on the given side.
Shrunk(t, side, r) ==
    LET smaller == [t EXCEPT ![side] = r.tree]
    IN  IF r.shorter THEN FixDeletion(smaller, side) ELSE Result(smaller, FALSE)

\* t without its root, which has at most the one subtree.
WithoutRoot(t, only) ==
    IF only = NULL THEN Result(NULL, ~IsRed(t))
    ELSE Result(Painted(only, BLACK), ~IsRed(t) /\ ~IsRed(only))

\* The root of the left subtree itself.
Rightmost_Root(t) == t

Rightmost(t) ==
    LET last[s \in Tree] == IF s = NULL THEN s ELSE IF s.right = NULL THEN s ELSE last[s.right]
    IN  last[t]

DeleteRightmost(t) ==
    LET delete[s \in Tree] ==
          IF s = NULL THEN Result(NULL, FALSE)
          ELSE IF s.right = NULL THEN WithoutRoot(s, s.left)
          ELSE Shrunk(s, "right", delete[s.right])
    IN  delete[t]

\* The rightmost node on the left takes the place of a node with two subtrees,
\* or with a left one only.
DeleteRecursive(t, key) ==
    LET delete[s \in Tree] ==
          IF s = NULL THEN Result(NULL, FALSE)
          ELSE IF s.key # key THEN Shrunk(s, SideOf(s, key), delete[s[SideOf(s, key)]])
          ELSE IF s.left = NULL THEN WithoutRoot(s, s.right)
          ELSE LET leaf == Rightmost(s.left)
               IN  Shrunk([s EXCEPT !.key = leaf.key, !.value = leaf.value],
                          "left", DeleteRightmost(s.left))
    IN  delete[t]

Delete(t, key) ==
    LET r == DeleteRecursive(t, key)
    IN  IF r.tree = NULL THEN NULL ELSE Painted(r.tree, BLACK)
-----------------------------------------------------------------------------
(* What the library asserts of a tree.                                     *)

Nodes(t) ==
    LET nodes[s \in Tree] ==
          IF s = NULL THEN {} ELSE {s} \union nodes[s.left] \union nodes[s.right]
    IN  nodes[t]

\* The numbers of black nodes on the paths from t down to NULL.
BlackDepths(t) ==
    LET depths[s \in Tree] ==
          IF s = NULL THEN {0}
          ELSE { d + (IF IsRed(s) THEN 0 ELSE 1) : d \in depths[s.left] \union depths[s.right] }
    IN  depths[t]

ConsistencyCheck(t) ==
    /\ ~IsRed(t)
    /\ Cardinality(BlackDepths(t)) = 1
    /\ \A n \in Nodes(t) :
         /\ n.left # NULL => n.left.key <= n.key
         /\ n.right # NULL => n.key <= n.right.key
         /\ IsRed(n) => ~IsRed(n.left) /\ ~IsRed(n.right)
=============================================================================
