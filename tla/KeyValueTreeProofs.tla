------------------------- MODULE KeyValueTreeProofs -------------------------
(***************************************************************************)
(* Theorems about the red-black tree of hw5 and its iterator, for every    *)
(* finite set of keys, every set of values and every sequence of puts and  *)
(* removals.                                                               *)
(*                                                                         *)
(* The functions of the model take trees of up to Height levels, so first: *)
(* that such functions exist (Recursion), and induction over trees.  Then  *)
(* what a tree holds, what each repair makes of a node (in the order in    *)
(* which sglib.h has them), what insertion and deletion make of a tree,    *)
(* and at last the steps of the store and of the iterator.                 *)
(***************************************************************************)
EXTENDS KeyValueTree, ListLemmas, FiniteSetTheorems

\* The number of levels is a number.
LEMMA Levels ==
  /\ Cardinality(Keys) \in Nat
  /\ Height \in Nat /\ Height = 2 * Cardinality(Keys) + 1
BY RedBlackTreeAssumption, FS_CardinalityType DEF Height

\* The trees of n levels are NULL and the nodes over those of one level less.
LEMMA TreesAre ==
  /\ Trees[0] = {NULL}
  /\ \A n \in 1 .. Height : Trees[n] = {NULL} \union NodesOver(Trees[n - 1])
<1> DEFINE body(f, n) == IF n = 0 THEN {NULL} ELSE {NULL} \union NodesOver(f[n - 1])
           is(f, m) == f = [n \in 0 .. m |-> body(f, n)]
           S == { m \in Nat : \E f : is(f, m) }
<1>1. 0 \in S
  <2>1. is([n \in 0 .. 0 |-> {NULL}], 0)
    OBVIOUS
  <2> QED
    BY <2>1
<1>2. ASSUME NEW m \in Nat, m \in S PROVE m + 1 \in S
  <2>1. PICK f : is(f, m)
    BY <1>2
  <2> DEFINE g == [n \in 0 .. m + 1 |-> body(f, n)]
  <2>2. \A n \in 0 .. m : g[n] = f[n]
    <3> HIDE DEF body
    <3>1. \A n \in 0 .. m : f[n] = body(f, n) /\ n \in 0 .. m + 1
      BY <2>1
    <3> QED
      BY <3>1
  <2> HIDE DEF g
  <2>3. ASSUME NEW n \in 0 .. m + 1 PROVE body(g, n) = body(f, n)
    <3>1. n # 0 => n - 1 \in 0 .. m
      OBVIOUS
    <3> QED
      BY <2>2, <3>1
  <2> HIDE DEF body
  <2>4. g = [n \in 0 .. m + 1 |-> body(g, n)]
    BY <2>3 DEF g
  <2>5. is(g, m + 1)
    BY <2>4
  <2> HIDE DEF is
  <2> QED
    BY <2>5
<1> HIDE DEF S
<1>3. Height \in S
  BY <1>1, <1>2, InductionOverNat, Levels
<1>4. \E f : is(f, Height)
  BY <1>3 DEF S
<1>5. is(Trees, Height)
  <2>1. Trees = CHOOSE f : is(f, Height)
    BY DEF Trees
  <2> HIDE DEF is
  <2> QED
    BY <1>4, <2>1
<1> HIDE DEF body
<1>6. \A n \in 0 .. Height : Trees[n] = body(Trees, n)
  BY <1>5
<1>7. \A n \in 1 .. Height : n \in 0 .. Height /\ n # 0
  BY Levels
<1>8. 0 \in 0 .. Height
  BY Levels
<1> QED
  BY <1>6, <1>7, <1>8 DEF body

\* A tree of some levels is one of more levels, too.
LEMMA TreesGrow ==
  ASSUME NEW n \in 0 .. Height, NEW m \in 0 .. n
  PROVE  Trees[m] \subseteq Trees[n]
<1> DEFINE S == { k \in Nat : k < Height => Trees[k] \subseteq Trees[k + 1] }
<1>1. 0 \in S
  BY TreesAre, Levels
<1>2. ASSUME NEW k \in Nat, k \in S PROVE k + 1 \in S
  <2> SUFFICES ASSUME k + 1 < Height PROVE Trees[k + 1] \subseteq Trees[(k + 1) + 1]
    OBVIOUS
  <2>1. /\ Trees[k + 1] = {NULL} \union NodesOver(Trees[k])
        /\ Trees[(k + 1) + 1] = {NULL} \union NodesOver(Trees[k + 1])
    BY TreesAre, Levels
  <2>2. Trees[k] \subseteq Trees[k + 1]
    BY <1>2, Levels
  <2>3. NodesOver(Trees[k]) \subseteq NodesOver(Trees[k + 1])
    BY <2>2 DEF NodesOver
  <2> QED
    BY <2>1, <2>3
<1> HIDE DEF S
<1>3. Nat \subseteq S
  BY <1>1, <1>2, InductionOverNat
<1>4. ASSUME NEW k \in m .. n - 1 PROVE Trees[k] \subseteq Trees[k + 1]
  <2>1. k \in Nat /\ k < Height
    BY Levels
  <2> QED
    BY <1>3, <2>1 DEF S
<1> DEFINE I == { k \in 0 .. n - m : Trees[m] \subseteq Trees[m + k] }
<1>5. 0 \in I
  OBVIOUS
<1>6. \A k \in 1 .. n - m : k - 1 \in I => k \in I
  <2> TAKE k \in 1 .. n - m
  <2>1. m + (k - 1) \in m .. n - 1 /\ (m + (k - 1)) + 1 = m + k
    OBVIOUS
  <2> QED
    BY <1>4, <2>1
<1> HIDE DEF I
<1>7. n - m \in I
  BY <1>5, <1>6, LoopInvariant
<1> QED
  BY <1>7 DEF I

\* A node is in the trees of n + 1 levels if its subtrees are in those of n.
LEMMA NodeOf ==
  ASSUME NEW n \in Nat, n < Height, NEW t
  PROVE  t \in Trees[n + 1] \ {NULL} <=> t \in NodesOver(Trees[n])
<1>1. n + 1 \in 1 .. Height /\ n \in 0 .. Height
  BY Levels
<1>2. Trees[n + 1] = {NULL} \union NodesOver(Trees[n])
  BY <1>1, TreesAre
<1>3. NULL \notin NodesOver(Trees[n])
  BY <1>1, RedBlackTreeAssumption
<1> QED
  BY <1>2, <1>3

\* The subtrees of a tree have one level less.
LEMMA SubtreesOf ==
  ASSUME NEW n \in 0 .. Height, NEW t \in Trees[n], t # NULL
  PROVE  n > 0 /\ t \in NodesOver(Trees[n - 1]) /\ t \in NodesOver(Tree)
         /\ Trees[n] \subseteq Tree
<1>1. n > 0
  BY TreesAre
<1>2. n - 1 \in Nat /\ n - 1 < Height /\ (n - 1) + 1 = n
  BY <1>1, Levels
<1>3. t \in NodesOver(Trees[n - 1])
  BY <1>2, NodeOf
<1>4. Trees[n - 1] \subseteq Tree /\ Trees[n] \subseteq Tree
  BY <1>2, TreesGrow, Levels DEF Tree
<1> QED
  BY <1>1, <1>3, <1>4 DEF NodesOver

\* The sides of a node.
Side == {"left", "right"}

\* A node of a tree: its fields, and its subtrees.
LEMMA NodeFields ==
  ASSUME NEW t \in Tree, t # NULL
  PROVE  /\ t \in NodesOver(Tree)
         /\ t.key \in Keys /\ t.key \in Int /\ t.value \in Values /\ t.color \in {RED, BLACK}
         /\ t.left \in Tree /\ t.right \in Tree
         /\ \A side \in Side : t[side] \in Tree /\ t[Other(side)] \in Tree
<1>1. t \in NodesOver(Tree)
  BY SubtreesOf, Levels DEF Tree
<1> QED
  BY <1>1, RedBlackTreeAssumption DEF NodesOver, Side, Other

\* Induction over trees.
LEMMA TreeInduction ==
  ASSUME NEW S, NULL \in S,
         \A t \in Tree \ {NULL} : t.left \in S /\ t.right \in S => t \in S
  PROVE  Tree \subseteq S
<1> DEFINE I == { n \in 0 .. Height : Trees[n] \subseteq S }
<1>1. 0 \in I
  BY TreesAre, Levels
<1>2. \A n \in 1 .. Height : n - 1 \in I => n \in I
  <2> SUFFICES ASSUME NEW n \in 1 .. Height, Trees[n - 1] \subseteq S,
                      NEW t \in Trees[n], t # NULL
               PROVE  t \in S
    OBVIOUS
  <2>1. t \in NodesOver(Trees[n - 1]) /\ t \in Tree
    BY SubtreesOf
  <2>2. t.left \in S /\ t.right \in S
    BY <2>1 DEF NodesOver
  <2> QED
    BY <2>1, <2>2
<1> HIDE DEF I
<1>3. Height \in I
  BY <1>1, <1>2, LoopInvariant, Levels
<1> QED
  BY <1>3 DEF I, Tree

-----------------------------------------------------------------------------
(* The recursive functions are what their definitions say: one exists.     *)

\* What each function makes of node s, if f is what it makes of the subtrees.
OneLevel(op, x, f, s) ==
    IF op = "find" THEN
        IF s = NULL THEN s ELSE IF s.key = x THEN s ELSE f[s[SideOf(s, x)]]
    ELSE IF op = "add" THEN
        IF s = NULL THEN Painted(x, RED)
        ELSE LET side  == SideOf(s, x.key)
                 grown == [s EXCEPT ![side] = f[s[side]]]
             IN  IF s.color = BLACK THEN FixInsertion(grown, side) ELSE grown
    ELSE IF op = "write" THEN
        IF s = NULL THEN s
        ELSE IF s.key = x[1] THEN [s EXCEPT !.value = x[2]]
        ELSE [s EXCEPT ![SideOf(s, x[1])] = f[s[SideOf(s, x[1])]]]
    ELSE IF op = "rightmost" THEN
        IF s = NULL THEN s ELSE IF s.right = NULL THEN s ELSE f[s.right]
    ELSE IF op = "delete rightmost" THEN
        IF s = NULL THEN Result(NULL, FALSE)
        ELSE IF s.right = NULL THEN WithoutRoot(s, s.left)
        ELSE Shrunk(s, "right", f[s.right])
    ELSE IF op = "delete" THEN
        IF s = NULL THEN Result(NULL, FALSE)
        ELSE IF s.key # x THEN Shrunk(s, SideOf(s, x), f[s[SideOf(s, x)]])
        ELSE IF s.left = NULL THEN WithoutRoot(s, s.right)
        ELSE LET leaf == Rightmost(s.left)
             IN  Shrunk([s EXCEPT !.key = leaf.key, !.value = leaf.value],
                        "left", DeleteRightmost(s.left))
    ELSE IF op = "nodes" THEN
        IF s = NULL THEN {} ELSE {s} \union f[s.left] \union f[s.right]
    ELSE
        IF s = NULL THEN {0}
        ELSE { d + (IF IsRed(s) THEN 0 ELSE 1) : d \in f[s.left] \union f[s.right] }

\* It depends on the subtrees only.
LEMMA OneLevelOf ==
  ASSUME NEW op, NEW x, NEW f, NEW g, NEW s,
         s # NULL => f[s.left] = g[s.left] /\ f[s.right] = g[s.right]
  PROVE  OneLevel(op, x, f, s) = OneLevel(op, x, g, s)
<1>1. \A key : s # NULL => f[s[SideOf(s, key)]] = g[s[SideOf(s, key)]]
  BY DEF SideOf
<1>2. CASE op = "find"
  BY <1>1, <1>2 DEF OneLevel
<1>3. CASE op = "add"
  BY <1>1, <1>3 DEF OneLevel
<1>4. CASE op = "write"
  BY <1>1, <1>4 DEF OneLevel
<1>5. CASE op = "rightmost"
  BY <1>5 DEF OneLevel
<1>6. CASE op = "delete rightmost"
  BY <1>6 DEF OneLevel
<1>7. CASE op = "delete"
  BY <1>1, <1>7 DEF OneLevel
<1>8. CASE op = "nodes"
  BY <1>8 DEF OneLevel
<1>9. CASE op \notin {"find", "add", "write", "rightmost", "delete rightmost", "delete", "nodes"}
  BY <1>9 DEF OneLevel
<1> QED
  BY <1>2, <1>3, <1>4, <1>5, <1>6, <1>7, <1>8, <1>9

\* So there is a function that makes it of every tree.
LEMMA Recursion ==
  ASSUME NEW op, NEW x
  PROVE  \E f : f = [s \in Tree |-> OneLevel(op, x, f, s)]
<1> DEFINE body(f, s) == OneLevel(op, x, f, s)
           is(f, D) == f = [s \in D |-> body(f, s)]
           I == { n \in 0 .. Height : \E f : is(f, Trees[n]) }
<1>1. 0 \in I
  <2> DEFINE f == [s \in {NULL} |-> body(NULL, s)]
  <2>1. body(f, NULL) = body(NULL, NULL)
    BY OneLevelOf
  <2> HIDE DEF body
  <2>2. is(f, {NULL})
    BY <2>1
  <2>3. Trees[0] = {NULL} /\ 0 \in 0 .. Height
    BY TreesAre, Levels
  <2> HIDE DEF is, f
  <2> QED
    BY <2>2, <2>3
<1>2. ASSUME NEW n \in 1 .. Height, n - 1 \in I PROVE n \in I
  <2>1. PICK f : is(f, Trees[n - 1])
    BY <1>2
  <2> DEFINE g == [s \in Trees[n] |-> body(f, s)]
  <2>2. Trees[n - 1] \subseteq Trees[n]
    BY TreesGrow, Levels
  <2>3. \A s \in Trees[n - 1] : g[s] = f[s]
    <3> HIDE DEF body
    <3> QED
      BY <2>1, <2>2
  <2> HIDE DEF g
  <2>4. ASSUME NEW s \in Trees[n] PROVE body(g, s) = body(f, s)
    <3>1. s # NULL => s.left \in Trees[n - 1] /\ s.right \in Trees[n - 1]
      BY SubtreesOf DEF NodesOver
    <3> QED
      BY <2>3, <3>1, OneLevelOf
  <2> HIDE DEF body
  <2>5. is(g, Trees[n])
    BY <2>4 DEF g
  <2> HIDE DEF is
  <2> QED
    BY <2>5
<1> HIDE DEF I
<1>3. Height \in I
  BY <1>1, <1>2, LoopInvariant, Levels
<1> QED
  BY <1>3 DEF I, Tree

\* The empty tree is one.
LEMMA NullIsTree == NULL \in Tree
BY TreesAre, TreesGrow, Levels DEF Tree

\* Find goes down to the key, or to where it would be.
LEMMA FindIs ==
  ASSUME NEW key
  PROVE  /\ Find(NULL, key) = NULL
         /\ \A t \in Tree \ {NULL} :
               Find(t, key) = IF t.key = key THEN t ELSE Find(t[SideOf(t, key)], key)
<1> DEFINE body(f, s) ==
             IF s = NULL THEN s ELSE IF s.key = key THEN s ELSE f[s[SideOf(s, key)]]
           fun == CHOOSE f : f = [s \in Tree |-> body(f, s)]
<1>1. \E f : f = [s \in Tree |-> body(f, s)]
  <2>1. PICK f : f = [s \in Tree |-> OneLevel("find", key, f, s)]
    BY Recursion
  <2>2. \A s : OneLevel("find", key, f, s) = body(f, s)
    BY DEF OneLevel
  <2> HIDE DEF body
  <2>3. f = [s \in Tree |-> body(f, s)]
    BY <2>1, <2>2
  <2> QED
    BY <2>3
<1>2. fun = [s \in Tree |-> body(fun, s)]
  <2> HIDE DEF body
  <2> QED
    BY <1>1
<1>3. \A t : Find(t, key) = fun[t]
  BY DEF Find
<1> HIDE DEF fun
<1>4. \A t \in Tree : fun[t] = body(fun, t)
  <2> HIDE DEF body
  <2> QED
    BY <1>2
<1> QED
  BY <1>3, <1>4, NullIsTree

\* A new node goes to the end of the search, and repairs follow on the way back.
LEMMA AddRecursiveIs ==
  ASSUME NEW elem
  PROVE  /\ AddRecursive(NULL, elem) = Painted(elem, RED)
         /\ \A t \in Tree \ {NULL} :
               AddRecursive(t, elem) =
                 LET side  == SideOf(t, elem.key)
                     grown == [t EXCEPT ![side] = AddRecursive(t[side], elem)]
                 IN  IF t.color = BLACK THEN FixInsertion(grown, side) ELSE grown
<1> DEFINE body(f, s) ==
             IF s = NULL THEN Painted(elem, RED)
             ELSE LET side  == SideOf(s, elem.key)
                      grown == [s EXCEPT ![side] = f[s[side]]]
                  IN  IF s.color = BLACK THEN FixInsertion(grown, side) ELSE grown
           fun == CHOOSE f : f = [s \in Tree |-> body(f, s)]
<1>1. \E f : f = [s \in Tree |-> body(f, s)]
  <2>1. PICK f : f = [s \in Tree |-> OneLevel("add", elem, f, s)]
    BY Recursion
  <2>2. \A s : OneLevel("add", elem, f, s) = body(f, s)
    BY DEF OneLevel
  <2> HIDE DEF body
  <2>3. f = [s \in Tree |-> body(f, s)]
    BY <2>1, <2>2
  <2> QED
    BY <2>3
<1>2. fun = [s \in Tree |-> body(fun, s)]
  <2> HIDE DEF body
  <2> QED
    BY <1>1
<1>3. \A t : AddRecursive(t, elem) = fun[t]
  BY DEF AddRecursive
<1> HIDE DEF fun
<1>4. \A t \in Tree : fun[t] = body(fun, t)
  <2> HIDE DEF body
  <2> QED
    BY <1>2
<1> QED
  BY <1>3, <1>4, NullIsTree

\* A value is written where the key is found.
LEMMA OverwriteIs ==
  ASSUME NEW key, NEW value
  PROVE  /\ Overwrite(NULL, key, value) = NULL
         /\ \A t \in Tree \ {NULL} :
               Overwrite(t, key, value) =
                 IF t.key = key THEN [t EXCEPT !.value = value]
                 ELSE [t EXCEPT ![SideOf(t, key)] = Overwrite(t[SideOf(t, key)], key, value)]
<1> DEFINE body(f, s) ==
             IF s = NULL THEN s
             ELSE IF s.key = key THEN [s EXCEPT !.value = value]
             ELSE [s EXCEPT ![SideOf(s, key)] = f[s[SideOf(s, key)]]]
           fun == CHOOSE f : f = [s \in Tree |-> body(f, s)]
<1>1. \E f : f = [s \in Tree |-> body(f, s)]
  <2>1. PICK f : f = [s \in Tree |-> OneLevel("write", <<key, value>>, f, s)]
    BY Recursion
  <2>2. \A s : OneLevel("write", <<key, value>>, f, s) = body(f, s)
    BY DEF OneLevel
  <2> HIDE DEF body
  <2>3. f = [s \in Tree |-> body(f, s)]
    BY <2>1, <2>2
  <2> QED
    BY <2>3
<1>2. fun = [s \in Tree |-> body(fun, s)]
  <2> HIDE DEF body
  <2> QED
    BY <1>1
<1>3. \A t : Overwrite(t, key, value) = fun[t]
  BY DEF Overwrite
<1> HIDE DEF fun
<1>4. \A t \in Tree : fun[t] = body(fun, t)
  <2> HIDE DEF body
  <2> QED
    BY <1>2
<1> QED
  <2>1. fun[NULL] = NULL
    BY <1>4, NullIsTree
  <2>2. \A t \in Tree \ {NULL} :
          fun[t] = IF t.key = key THEN [t EXCEPT !.value = value]
                   ELSE [t EXCEPT ![SideOf(t, key)] = fun[t[SideOf(t, key)]]]
    BY <1>4
  <2> QED
    BY <1>3, <2>1, <2>2, Zenon

\* The rightmost node is at the end of the right subtrees.
LEMMA RightmostIs ==
         /\ Rightmost(NULL) = NULL
         /\ \A t \in Tree \ {NULL} :
               Rightmost(t) = IF t.right = NULL THEN t ELSE Rightmost(t.right)
<1> DEFINE body(f, s) ==
             IF s = NULL THEN s ELSE IF s.right = NULL THEN s ELSE f[s.right]
           fun == CHOOSE f : f = [s \in Tree |-> body(f, s)]
<1>1. \E f : f = [s \in Tree |-> body(f, s)]
  <2>1. PICK f : f = [s \in Tree |-> OneLevel("rightmost", NULL, f, s)]
    BY Recursion
  <2>2. \A s : OneLevel("rightmost", NULL, f, s) = body(f, s)
    BY DEF OneLevel
  <2> HIDE DEF body
  <2>3. f = [s \in Tree |-> body(f, s)]
    BY <2>1, <2>2
  <2> QED
    BY <2>3
<1>2. fun = [s \in Tree |-> body(fun, s)]
  <2> HIDE DEF body
  <2> QED
    BY <1>1
<1>3. \A t : Rightmost(t) = fun[t]
  BY DEF Rightmost
<1> HIDE DEF fun
<1>4. \A t \in Tree : fun[t] = body(fun, t)
  <2> HIDE DEF body
  <2> QED
    BY <1>2
<1> QED
  BY <1>3, <1>4, NullIsTree

\* It is taken out there, and repairs follow on the way back.
LEMMA DeleteRightmostIs ==
         \A t \in Tree \ {NULL} :
            DeleteRightmost(t) =
              IF t.right = NULL THEN WithoutRoot(t, t.left)
              ELSE Shrunk(t, "right", DeleteRightmost(t.right))
<1> DEFINE body(f, s) ==
             IF s = NULL THEN Result(NULL, FALSE)
             ELSE IF s.right = NULL THEN WithoutRoot(s, s.left)
             ELSE Shrunk(s, "right", f[s.right])
           fun == CHOOSE f : f = [s \in Tree |-> body(f, s)]
<1>1. \E f : f = [s \in Tree |-> body(f, s)]
  <2>1. PICK f : f = [s \in Tree |-> OneLevel("delete rightmost", NULL, f, s)]
    BY Recursion
  <2>2. \A s : OneLevel("delete rightmost", NULL, f, s) = body(f, s)
    BY DEF OneLevel
  <2> HIDE DEF body
  <2>3. f = [s \in Tree |-> body(f, s)]
    BY <2>1, <2>2
  <2> QED
    BY <2>3
<1>2. fun = [s \in Tree |-> body(fun, s)]
  <2> HIDE DEF body
  <2> QED
    BY <1>1
<1>3. \A t : DeleteRightmost(t) = fun[t]
  BY DEF DeleteRightmost
<1> HIDE DEF fun
<1>4. \A t \in Tree : fun[t] = body(fun, t)
  <2> HIDE DEF body
  <2> QED
    BY <1>2
<1> QED
  BY <1>3, <1>4, NullIsTree

\* A key is taken out where it is found, and repairs follow on the way back.
LEMMA DeleteRecursiveIs ==
  ASSUME NEW key
  PROVE  \A t \in Tree \ {NULL} :
            DeleteRecursive(t, key) =
              IF t.key # key
              THEN Shrunk(t, SideOf(t, key), DeleteRecursive(t[SideOf(t, key)], key))
              ELSE IF t.left = NULL THEN WithoutRoot(t, t.right)
              ELSE LET leaf == Rightmost(t.left)
                   IN  Shrunk([t EXCEPT !.key = leaf.key, !.value = leaf.value],
                              "left", DeleteRightmost(t.left))
<1> DEFINE body(f, s) ==
             IF s = NULL THEN Result(NULL, FALSE)
             ELSE IF s.key # key THEN Shrunk(s, SideOf(s, key), f[s[SideOf(s, key)]])
             ELSE IF s.left = NULL THEN WithoutRoot(s, s.right)
             ELSE LET leaf == Rightmost(s.left)
                  IN  Shrunk([s EXCEPT !.key = leaf.key, !.value = leaf.value],
                             "left", DeleteRightmost(s.left))
           fun == CHOOSE f : f = [s \in Tree |-> body(f, s)]
<1>1. \E f : f = [s \in Tree |-> body(f, s)]
  <2>1. PICK f : f = [s \in Tree |-> OneLevel("delete", key, f, s)]
    BY Recursion
  <2>2. \A s : OneLevel("delete", key, f, s) = body(f, s)
    BY DEF OneLevel
  <2> HIDE DEF body
  <2>3. f = [s \in Tree |-> body(f, s)]
    BY <2>1, <2>2
  <2> QED
    BY <2>3
<1>2. fun = [s \in Tree |-> body(fun, s)]
  <2> HIDE DEF body
  <2> QED
    BY <1>1
<1>3. \A t : DeleteRecursive(t, key) = fun[t]
  BY DEF DeleteRecursive
<1> HIDE DEF fun
<1>4. \A t \in Tree : fun[t] = body(fun, t)
  <2> HIDE DEF body
  <2> QED
    BY <1>2
<1> QED
  BY <1>3, <1>4, NullIsTree

\* The nodes of a tree: its root, and those of its subtrees.
LEMMA NodesAre ==
         /\ Nodes(NULL) = {}
         /\ \A t \in Tree \ {NULL} : Nodes(t) = {t} \union Nodes(t.left) \union Nodes(t.right)
<1> DEFINE body(f, s) ==
             IF s = NULL THEN {} ELSE {s} \union f[s.left] \union f[s.right]
           fun == CHOOSE f : f = [s \in Tree |-> body(f, s)]
<1>1. \E f : f = [s \in Tree |-> body(f, s)]
  <2>1. PICK f : f = [s \in Tree |-> OneLevel("nodes", NULL, f, s)]
    BY Recursion
  <2>2. \A s : OneLevel("nodes", NULL, f, s) = body(f, s)
    BY DEF OneLevel
  <2> HIDE DEF body
  <2>3. f = [s \in Tree |-> body(f, s)]
    BY <2>1, <2>2
  <2> QED
    BY <2>3
<1>2. fun = [s \in Tree |-> body(fun, s)]
  <2> HIDE DEF body
  <2> QED
    BY <1>1
<1>3. \A t : Nodes(t) = fun[t]
  BY DEF Nodes
<1> HIDE DEF fun
<1>4. \A t \in Tree : fun[t] = body(fun, t)
  <2> HIDE DEF body
  <2> QED
    BY <1>2
<1> QED
  BY <1>3, <1>4, NullIsTree

\* The black depths of a tree: those of its subtrees, and one more below a black root.
LEMMA BlackDepthsAre ==
         /\ BlackDepths(NULL) = {0}
         /\ \A t \in Tree \ {NULL} :
               BlackDepths(t) = { d + (IF IsRed(t) THEN 0 ELSE 1) :
                                  d \in BlackDepths(t.left) \union BlackDepths(t.right) }
<1> DEFINE body(f, s) ==
             IF s = NULL THEN {0}
             ELSE { d + (IF IsRed(s) THEN 0 ELSE 1) : d \in f[s.left] \union f[s.right] }
           fun == CHOOSE f : f = [s \in Tree |-> body(f, s)]
<1>1. \E f : f = [s \in Tree |-> body(f, s)]
  <2>1. PICK f : f = [s \in Tree |-> OneLevel("depths", NULL, f, s)]
    BY Recursion
  <2>2. \A s : OneLevel("depths", NULL, f, s) = body(f, s)
    BY DEF OneLevel
  <2> HIDE DEF body
  <2>3. f = [s \in Tree |-> body(f, s)]
    BY <2>1, <2>2
  <2> QED
    BY <2>3
<1>2. fun = [s \in Tree |-> body(fun, s)]
  <2> HIDE DEF body
  <2> QED
    BY <1>1
<1>3. \A t : BlackDepths(t) = fun[t]
  BY DEF BlackDepths
<1> HIDE DEF fun
<1>4. \A t \in Tree : fun[t] = body(fun, t)
  <2> HIDE DEF body
  <2> QED
    BY <1>2
<1> QED
  BY <1>3, <1>4, NullIsTree

-----------------------------------------------------------------------------
(* What a tree holds, and what its subtrees say of it.                     *)

\* The keys of a tree, and the keys with their values.
KeysIn(t) == { n.key : n \in Nodes(t) }

EntriesOf(t) == { <<n.key, n.value>> : n \in Nodes(t) }

\* Keys are on their side of every node.
Ordered(t) == \A n \in Nodes(t) : /\ \A m \in Nodes(n.left) : m.key < n.key
                                  /\ \A m \in Nodes(n.right) : n.key < m.key

\* No red node has a red child.
NoRedRed(t) == \A n \in Nodes(t) : IsRed(n) => ~IsRed(n.left) /\ ~IsRed(n.right)

\* There are h black nodes on every path down.
HasDepth(t, h) == BlackDepths(t) = {h}

\* What the root adds to that.
Blacks(t) == IF IsRed(t) THEN 0 ELSE 1

\* The order, seen from a side.
Before(side, x, y) == IF side = "left" THEN x < y ELSE y < x

\* The other of two sides.
LEMMA Sides ==
  ASSUME NEW side \in Side
  PROVE  /\ Other(side) \in Side /\ Other(side) # side /\ Other(Other(side)) = side
         /\ {side, Other(side)} = Side
         /\ \A x, y \in Int : Before(Other(side), x, y) <=> Before(side, y, x)
         /\ \A x, y \in Int : x # y => Before(side, x, y) \/ Before(side, y, x)
         /\ \A x, y \in Int : Before(side, x, y) => x # y
         /\ \A x, y, z \in Int : Before(side, x, y) /\ Before(side, y, z) => Before(side, x, z)
BY DEF Side, Other, Before

\* The nodes of a tree are nodes, and there is an end to them.
LEMMA NodesOfTree ==
  \A t \in Tree : /\ Nodes(t) \subseteq Tree \ {NULL}
                  /\ IsFiniteSet(Nodes(t))
                  /\ t # NULL => t \in Nodes(t)
<1> DEFINE S == { t \in Tree : /\ Nodes(t) \subseteq Tree \ {NULL}
                               /\ IsFiniteSet(Nodes(t))
                               /\ t # NULL => t \in Nodes(t) }
<1>1. NULL \in S
  BY NullIsTree, NodesAre, FS_EmptySet
<1>2. ASSUME NEW t \in Tree \ {NULL}, t.left \in S, t.right \in S PROVE t \in S
  <2>1. Nodes(t) = {t} \union Nodes(t.left) \union Nodes(t.right)
    BY NodesAre
  <2>2. IsFiniteSet({t}) /\ IsFiniteSet(Nodes(t.left)) /\ IsFiniteSet(Nodes(t.right))
    BY <1>2, FS_Singleton
  <2>3. IsFiniteSet(Nodes(t))
    BY <2>1, <2>2, FS_Union
  <2> QED
    BY <1>2, <2>1, <2>3
<1> HIDE DEF S
<1>3. Tree \subseteq S
  BY <1>1, <1>2, TreeInduction
<1> QED
  BY <1>3 DEF S

\* The keys of a tree are keys.
LEMMA KeysOfTree ==
  ASSUME NEW t \in Tree
  PROVE  /\ KeysIn(t) \subseteq Keys /\ KeysIn(t) \subseteq Int
         /\ IsFiniteSet(KeysIn(t)) /\ EntriesOf(t) \subseteq Keys \X Values
         /\ KeysIn(t) = { e[1] : e \in EntriesOf(t) }
         /\ t # NULL => t.key \in KeysIn(t) /\ <<t.key, t.value>> \in EntriesOf(t)
<1>1. Nodes(t) \subseteq Tree \ {NULL} /\ (t # NULL => t \in Nodes(t))
  BY NodesOfTree
<1>2. \A n \in Nodes(t) : n.key \in Keys /\ n.value \in Values
  BY <1>1, NodeFields
<1>3. KeysIn(t) \subseteq Keys
  BY <1>2 DEF KeysIn
<1>4. IsFiniteSet(KeysIn(t))
  BY <1>3, RedBlackTreeAssumption, FS_Subset
<1>5. EntriesOf(t) \subseteq Keys \X Values
  BY <1>2 DEF EntriesOf
<1>6. KeysIn(t) = { e[1] : e \in EntriesOf(t) }
  <2>1. ASSUME NEW k \in KeysIn(t) PROVE k \in { e[1] : e \in EntriesOf(t) }
    <3>1. PICK n \in Nodes(t) : k = n.key
      BY DEF KeysIn
    <3>2. <<n.key, n.value>> \in EntriesOf(t) /\ <<n.key, n.value>>[1] = k
      BY <3>1 DEF EntriesOf
    <3> QED
      BY <3>2
  <2>2. ASSUME NEW e \in EntriesOf(t) PROVE e[1] \in KeysIn(t)
    <3>1. PICK n \in Nodes(t) : e = <<n.key, n.value>>
      BY DEF EntriesOf
    <3> QED
      BY <3>1 DEF KeysIn
  <2> QED
    BY <2>1, <2>2
<1>7. t # NULL => t.key \in KeysIn(t) /\ <<t.key, t.value>> \in EntriesOf(t)
  BY <1>1 DEF KeysIn, EntriesOf
<1> QED
  BY <1>3, <1>4, <1>5, <1>6, <1>7, RedBlackTreeAssumption

\* The empty tree holds nothing, in order, and has one path, without black nodes.
LEMMA Empty ==
  /\ NULL \in Tree /\ Nodes(NULL) = {} /\ KeysIn(NULL) = {} /\ EntriesOf(NULL) = {}
  /\ Ordered(NULL) /\ NoRedRed(NULL) /\ ~IsRed(NULL)
  /\ \A h : HasDepth(NULL, h) <=> h = 0
<1>1. Nodes(NULL) = {} /\ BlackDepths(NULL) = {0}
  BY NodesAre, BlackDepthsAre
<1> QED
  BY <1>1, NullIsTree DEF KeysIn, EntriesOf, Ordered, NoRedRed, IsRed, HasDepth

\* What a tree holds, from the subtrees on a side and on the other.
LEMMA Contents ==
  ASSUME NEW t \in Tree, t # NULL, NEW side \in Side
  PROVE  /\ Nodes(t) = {t} \union Nodes(t[side]) \union Nodes(t[Other(side)])
         /\ KeysIn(t) = {t.key} \union KeysIn(t[side]) \union KeysIn(t[Other(side)])
         /\ EntriesOf(t) = {<<t.key, t.value>>} \union EntriesOf(t[side])
                                                \union EntriesOf(t[Other(side)])
<1>1. t \in NodesOver(Tree)
  BY NodeFields
<1>2. {t[side], t[Other(side)]} = {t.left, t.right}
  BY <1>1 DEF NodesOver, Side, Other
<1>3. Nodes(t) = {t} \union Nodes(t.left) \union Nodes(t.right)
  BY NodesAre
<1>4. Nodes(t) = {t} \union Nodes(t[side]) \union Nodes(t[Other(side)])
  BY <1>2, <1>3
<1> QED
  BY <1>4 DEF KeysIn, EntriesOf

\* A tree is in order if its subtrees are, and their keys are on their sides.
LEMMA OrderedIs ==
  ASSUME NEW t \in Tree, t # NULL, NEW side \in Side
  PROVE  Ordered(t) <=> /\ Ordered(t[side]) /\ Ordered(t[Other(side)])
                        /\ \A k \in KeysIn(t[side]) : Before(side, k, t.key)
                        /\ \A k \in KeysIn(t[Other(side)]) : Before(side, t.key, k)
<1>1. Nodes(t) = {t} \union Nodes(t.left) \union Nodes(t.right)
  BY NodesAre
<1>2. Ordered(t) <=> /\ Ordered(t.left) /\ Ordered(t.right)
                     /\ \A k \in KeysIn(t.left) : k < t.key
                     /\ \A k \in KeysIn(t.right) : t.key < k
  BY <1>1 DEF Ordered, KeysIn
<1>3. CASE side = "left"
  <2>1. t[side] = t.left /\ t[Other(side)] = t.right
    BY <1>3, NodeFields DEF NodesOver, Other
  <2>2. \A x, y : Before(side, x, y) <=> x < y
    BY <1>3 DEF Before
  <2> QED
    BY <1>2, <2>1, <2>2
<1>4. CASE side = "right"
  <2>1. t[side] = t.right /\ t[Other(side)] = t.left
    BY <1>4, NodeFields DEF NodesOver, Other
  <2>2. \A x, y : Before(side, x, y) <=> y < x
    BY <1>4 DEF Before
  <2> QED
    BY <1>2, <2>1, <2>2
<1> QED
  BY <1>3, <1>4 DEF Side

\* A tree has no red node under a red one if its subtrees have not, nor its root.
LEMMA NoRedRedIs ==
  ASSUME NEW t \in Tree, t # NULL, NEW side \in Side
  PROVE  NoRedRed(t) <=> /\ NoRedRed(t[side]) /\ NoRedRed(t[Other(side)])
                         /\ IsRed(t) => ~IsRed(t[side]) /\ ~IsRed(t[Other(side)])
<1>1. Nodes(t) = {t} \union Nodes(t.left) \union Nodes(t.right)
  BY NodesAre
<1>2. t \in NodesOver(Tree)
  BY NodeFields
<1>3. CASE side = "left"
  <2>1. t[side] = t.left /\ t[Other(side)] = t.right
    BY <1>2, <1>3 DEF NodesOver, Other
  <2> QED
    BY <1>1, <2>1 DEF NoRedRed
<1>4. CASE side = "right"
  <2>1. t[side] = t.right /\ t[Other(side)] = t.left
    BY <1>2, <1>4 DEF NodesOver, Other
  <2> QED
    BY <1>1, <2>1 DEF NoRedRed
<1> QED
  BY <1>3, <1>4 DEF Side

\* There is a path, and black nodes on it are counted.
LEMMA DepthsOfTree ==
  \A t \in Tree : BlackDepths(t) # {} /\ BlackDepths(t) \subseteq Nat
<1> DEFINE S == { t \in Tree : BlackDepths(t) # {} /\ BlackDepths(t) \subseteq Nat }
<1>1. NULL \in S
  BY NullIsTree, BlackDepthsAre
<1>2. ASSUME NEW t \in Tree \ {NULL}, t.left \in S, t.right \in S PROVE t \in S
  BY <1>2, BlackDepthsAre, SMTT(30)
<1> HIDE DEF S
<1>3. Tree \subseteq S
  BY <1>1, <1>2, TreeInduction
<1> QED
  BY <1>3 DEF S

\* The paths of a tree are as deep as those of its subtrees, and one more if it is black.
LEMMA DepthIs ==
  ASSUME NEW t \in Tree, t # NULL, NEW side \in Side, NEW h \in Int
  PROVE  /\ HasDepth(t, h) <=> /\ HasDepth(t[side], h - Blacks(t))
                               /\ HasDepth(t[Other(side)], h - Blacks(t))
         /\ HasDepth(t, h) => h - Blacks(t) \in Nat
<1> DEFINE b == IF IsRed(t) THEN 0 ELSE 1
           L == BlackDepths(t.left)
           R == BlackDepths(t.right)
<1>1. BlackDepths(t) = { d + b : d \in L \union R }
  BY BlackDepthsAre
<1>2. b \in {0, 1} /\ b = Blacks(t)
  BY DEF Blacks
<1>3. L # {} /\ L \subseteq Nat /\ R # {} /\ R \subseteq Nat
  BY DepthsOfTree, NodeFields
<1> HIDE DEF b, L, R
<1>4. BlackDepths(t) = {h} => L = {h - b} /\ R = {h - b}
  <2> SUFFICES ASSUME BlackDepths(t) = {h} PROVE L = {h - b} /\ R = {h - b}
    OBVIOUS
  <2>1. \A d \in L \union R : d + b = h
    BY <1>1
  <2>2. \A d \in L \union R : d = h - b
    BY <1>2, <1>3, <2>1
  <2> QED
    BY <1>3, <2>2
<1>5. L = {h - b} /\ R = {h - b} => BlackDepths(t) = {h}
  <2> SUFFICES ASSUME L = {h - b}, R = {h - b} PROVE BlackDepths(t) = {h}
    OBVIOUS
  <2>1. L \union R = {h - b}
    OBVIOUS
  <2>2. (h - b) + b = h
    BY <1>2
  <2> QED
    BY <1>1, <2>1, <2>2
<1>6. t \in NodesOver(Tree)
  BY NodeFields
<1>7. CASE side = "left"
  <2>1. t[side] = t.left /\ t[Other(side)] = t.right
    BY <1>6, <1>7 DEF NodesOver, Other
  <2> QED
    BY <1>2, <1>3, <1>4, <1>5, <2>1 DEF HasDepth, L, R
<1>8. CASE side = "right"
  <2>1. t[side] = t.right /\ t[Other(side)] = t.left
    BY <1>6, <1>8 DEF NodesOver, Other
  <2> QED
    BY <1>2, <1>3, <1>4, <1>5, <2>1 DEF HasDepth, L, R
<1> QED
  BY <1>7, <1>8 DEF Side

-----------------------------------------------------------------------------
(* Nodes that are changed, or put together with other subtrees.            *)

\* r is node n with color c, x on the given side and y on the other.
NodeIs(r, n, c, side, x, y) ==
    /\ r \in Tree /\ r # NULL
    /\ r.key = n.key /\ r.value = n.value /\ r.color = c
    /\ r[side] = x /\ r[Other(side)] = y

\* Some levels that are enough for a node over trees of k levels.
LEMMA LevelsOf ==
  ASSUME NEW k \in Nat, k < Height
  PROVE  /\ Trees[k] \subseteq Trees[k + 1] /\ Trees[k] \subseteq Tree /\ Trees[k + 1] \subseteq Tree
         /\ \A r \in NodesOver(Trees[k]) : r \in Trees[k + 1] /\ r \in Tree /\ r # NULL
<1>1. k \in 0 .. Height /\ k + 1 \in 0 .. Height /\ k \in 0 .. k + 1 /\ Height \in 0 .. Height
  BY Levels
<1>2. Trees[k] \subseteq Trees[k + 1] /\ Trees[k] \subseteq Tree /\ Trees[k + 1] \subseteq Tree
  BY <1>1, TreesGrow, Levels DEF Tree
<1> QED
  BY <1>2, NodeOf

\* A node with another color and other subtrees.
LEMMA BothSet ==
  ASSUME NEW n \in Tree, n # NULL, NEW c \in {RED, BLACK}, NEW side \in Side, NEW o, o = Other(side),
         NEW k \in Nat, k < Height, NEW x \in Trees[k], NEW y \in Trees[k]
  PROVE  /\ [n EXCEPT !.color = c, ![side] = x, ![o] = y] \in Trees[k + 1]
         /\ NodeIs([n EXCEPT !.color = c, ![side] = x, ![o] = y], n, c, side, x, y)
<1> DEFINE r == [n EXCEPT !.color = c, ![side] = x, ![o] = y]
<1>1. n \in NodesOver(Tree)
  BY NodeFields
<1>2. /\ r \in NodesOver(Trees[k])
      /\ r.key = n.key /\ r.value = n.value /\ r.color = c /\ r[side] = x /\ r[o] = y
  BY <1>1 DEF NodesOver, Side, Other
<1> QED
  BY <1>2, LevelsOf DEF NodeIs

\* A node with another color and another subtree on one side.
LEMMA OneSet ==
  ASSUME NEW n \in Tree, n # NULL, NEW c \in {RED, BLACK}, NEW side \in Side,
         NEW k \in Nat, k < Height, NEW x \in Trees[k], n[Other(side)] \in Trees[k]
  PROVE  /\ [n EXCEPT !.color = c, ![side] = x] \in Trees[k + 1]
         /\ NodeIs([n EXCEPT !.color = c, ![side] = x], n, c, side, x, n[Other(side)])
         /\ [n EXCEPT ![side] = x] \in Trees[k + 1]
         /\ NodeIs([n EXCEPT ![side] = x], n, n.color, side, x, n[Other(side)])
<1>1. n \in NodesOver(Tree)
  BY NodeFields
<1>2. ASSUME NEW r, r = [n EXCEPT !.color = c, ![side] = x]
      PROVE  r \in Trees[k + 1] /\ NodeIs(r, n, c, side, x, n[Other(side)])
  <2>1. /\ r \in NodesOver(Trees[k])
        /\ r.key = n.key /\ r.value = n.value /\ r.color = c /\ r[side] = x
        /\ r[Other(side)] = n[Other(side)]
    BY <1>1, <1>2 DEF NodesOver, Side, Other
  <2> QED
    BY <2>1, LevelsOf DEF NodeIs
<1>3. ASSUME NEW r, r = [n EXCEPT ![side] = x]
      PROVE  r \in Trees[k + 1] /\ NodeIs(r, n, n.color, side, x, n[Other(side)])
  <2>1. /\ r \in NodesOver(Trees[k])
        /\ r.key = n.key /\ r.value = n.value /\ r.color = n.color /\ r[side] = x
        /\ r[Other(side)] = n[Other(side)]
    BY <1>1, <1>3 DEF NodesOver, Side, Other
  <2> QED
    BY <2>1, LevelsOf DEF NodeIs
<1> QED
  BY <1>2, <1>3

\* A node with another color.
LEMMA PaintedIs ==
  ASSUME NEW k \in 0 .. Height, NEW n \in Trees[k], n # NULL, NEW c \in {RED, BLACK},
         NEW side \in Side
  PROVE  /\ Painted(n, c) \in Trees[k]
         /\ NodeIs(Painted(n, c), n, c, side, n[side], n[Other(side)])
<1> DEFINE r == Painted(n, c)
<1>1. n \in NodesOver(Trees[k - 1]) /\ k > 0 /\ Trees[k] \subseteq Tree
  BY SubtreesOf
<1>2. /\ r \in NodesOver(Trees[k - 1])
      /\ r.key = n.key /\ r.value = n.value /\ r.color = c /\ r[side] = n[side]
      /\ r[Other(side)] = n[Other(side)]
  BY <1>1 DEF NodesOver, Side, Other, Painted
<1>3. k - 1 \in Nat /\ k - 1 < Height /\ (k - 1) + 1 = k
  BY <1>1, Levels
<1> QED
  BY <1>2, <1>3, LevelsOf DEF NodeIs

\* What such a node holds, and how deep it is.
LEMMA NodeHolds ==
  ASSUME NEW r, NEW n \in Tree, n # NULL, NEW c \in {RED, BLACK}, NEW side \in Side, NEW x, NEW y,
         NodeIs(r, n, c, side, x, y)
  PROVE  /\ KeysIn(r) = {n.key} \union KeysIn(x) \union KeysIn(y)
         /\ EntriesOf(r) = {<<n.key, n.value>>} \union EntriesOf(x) \union EntriesOf(y)
         /\ Ordered(r) <=> /\ Ordered(x) /\ Ordered(y)
                           /\ \A k \in KeysIn(x) : Before(side, k, n.key)
                           /\ \A k \in KeysIn(y) : Before(side, n.key, k)
BY Contents, OrderedIs DEF NodeIs

\* A black node: what is black or red below it does not matter.
LEMMA BlackNode ==
  ASSUME NEW r, NEW n, NEW side \in Side, NEW x, NEW y, NodeIs(r, n, BLACK, side, x, y)
  PROVE  /\ ~IsRed(r)
         /\ NoRedRed(r) <=> NoRedRed(x) /\ NoRedRed(y)
         /\ \A h \in Int : HasDepth(r, h + 1) <=> HasDepth(x, h) /\ HasDepth(y, h)
<1>1. r \in Tree /\ r # NULL /\ r.color = BLACK /\ r[side] = x /\ r[Other(side)] = y
  BY DEF NodeIs
<1>2. ~IsRed(r) /\ Blacks(r) = 1
  BY <1>1 DEF IsRed, RED, BLACK, Blacks
<1>3. NoRedRed(r) <=> NoRedRed(x) /\ NoRedRed(y)
  BY <1>1, <1>2, NoRedRedIs
<1>4. ASSUME NEW h \in Int PROVE HasDepth(r, h + 1) <=> HasDepth(x, h) /\ HasDepth(y, h)
  <2>1. (h + 1) - Blacks(r) = h /\ h + 1 \in Int
    BY <1>2
  <2> QED
    BY <1>1, <2>1, DepthIs
<1> QED
  BY <1>2, <1>3, <1>4

\* A red node: its subtrees are black, and as deep as it is.
LEMMA RedNode ==
  ASSUME NEW r, NEW n, NEW side \in Side, NEW x, NEW y, NodeIs(r, n, RED, side, x, y)
  PROVE  /\ IsRed(r)
         /\ NoRedRed(r) <=> NoRedRed(x) /\ NoRedRed(y) /\ ~IsRed(x) /\ ~IsRed(y)
         /\ \A h \in Int : HasDepth(r, h) <=> HasDepth(x, h) /\ HasDepth(y, h)
<1>1. r \in Tree /\ r # NULL /\ r.color = RED /\ r[side] = x /\ r[Other(side)] = y
  BY DEF NodeIs
<1>2. IsRed(r) /\ Blacks(r) = 0
  BY <1>1 DEF IsRed, Blacks
<1>3. NoRedRed(r) <=> NoRedRed(x) /\ NoRedRed(y) /\ ~IsRed(x) /\ ~IsRed(y)
  BY <1>1, <1>2, NoRedRedIs
<1>4. ASSUME NEW h \in Int PROVE HasDepth(r, h) <=> HasDepth(x, h) /\ HasDepth(y, h)
  <2>1. h - Blacks(r) = h
    BY <1>2
  <2> QED
    BY <1>1, <2>1, DepthIs
<1> QED
  BY <1>2, <1>3, <1>4

-----------------------------------------------------------------------------
(* The repair of an insertion.                                             *)

\* A node is itself.
LEMMA Itself ==
  ASSUME NEW t \in Tree, t # NULL, NEW side \in Side
  PROVE  NodeIs(t, t, t.color, side, t[side], t[Other(side)]) /\ t.color \in {RED, BLACK}
BY NodeFields DEF NodeIs

\* Subtrees, a level lower.
LEMMA Lower ==
  ASSUME NEW k \in 0 .. Height, NEW t \in Trees[k], t # NULL, NEW side \in Side
  PROVE  /\ k - 1 \in Nat /\ k - 1 < Height
         /\ t \in Tree /\ t[side] \in Trees[k - 1] /\ t[Other(side)] \in Trees[k - 1]
         /\ t[side] \in Trees[k] /\ t[Other(side)] \in Trees[k]
<1>1. k > 0 /\ t \in NodesOver(Trees[k - 1]) /\ Trees[k] \subseteq Tree
  BY SubtreesOf
<1>2. k - 1 \in Nat /\ k - 1 < Height /\ (k - 1) + 1 = k
  BY <1>1, Levels
<1>3. Trees[k - 1] \subseteq Trees[k]
  BY <1>2, LevelsOf
<1> QED
  BY <1>1, <1>2, <1>3 DEF NodesOver, Side, Other

\* Trees that hold the same, x2 in order if x is.
Same(x2, x) == EntriesOf(x2) = EntriesOf(x) /\ (Ordered(x) => Ordered(x2))

\* They hold the same keys.
LEMMA SameKeys ==
  ASSUME NEW x \in Tree, NEW x2 \in Tree, Same(x2, x)
  PROVE  KeysIn(x2) = KeysIn(x)
BY KeysOfTree DEF Same

\* A node with subtrees that hold the same holds the same.
LEMMA NodeSame ==
  ASSUME NEW t \in Tree, t # NULL, NEW side \in Side, NEW c \in {RED, BLACK},
         NEW x \in Tree, NEW y \in Tree, Same(x, t[side]), Same(y, t[Other(side)]),
         NEW r, NodeIs(r, t, c, side, x, y)
  PROVE  Same(r, t)
<1>1. t[side] \in Tree /\ t[Other(side)] \in Tree
  BY NodeFields
<1>2. KeysIn(x) = KeysIn(t[side]) /\ KeysIn(y) = KeysIn(t[Other(side)])
  BY <1>1, SameKeys
<1>3. EntriesOf(r) = EntriesOf(t)
  <2>1. EntriesOf(r) = {<<t.key, t.value>>} \union EntriesOf(x) \union EntriesOf(y)
    BY NodeHolds
  <2>2. EntriesOf(t) = {<<t.key, t.value>>} \union EntriesOf(t[side]) \union EntriesOf(t[Other(side)])
    BY Contents
  <2> QED
    BY <2>1, <2>2 DEF Same
<1>4. ASSUME Ordered(t) PROVE Ordered(r)
  <2>1. /\ Ordered(t[side]) /\ Ordered(t[Other(side)])
        /\ \A k \in KeysIn(t[side]) : Before(side, k, t.key)
        /\ \A k \in KeysIn(t[Other(side)]) : Before(side, t.key, k)
    BY <1>4, OrderedIs
  <2>2. Ordered(x) /\ Ordered(y)
    BY <2>1 DEF Same
  <2>3. Ordered(r) <=> /\ Ordered(x) /\ Ordered(y)
                       /\ \A k \in KeysIn(x) : Before(side, k, t.key)
                       /\ \A k \in KeysIn(y) : Before(side, t.key, k)
    BY NodeHolds, SMTT(30)
  <2> QED
    BY <1>2, <2>1, <2>2, <2>3
<1> QED
  BY <1>3, <1>4 DEF Same

\* When tl, the root on one side of t, rises above t, nothing else changes.
SingleTurn(t, side, far, tl, x, y, z, low, r) ==
    /\ t # NULL /\ tl # NULL /\ far = Other(side) /\ tl = t[side]
    /\ Same(x, tl[side]) /\ Same(y, tl[far]) /\ Same(z, t[far])
    /\ \E c1 \in {RED, BLACK} : NodeIs(low, t, c1, side, y, z)
    /\ \E c2 \in {RED, BLACK} : NodeIs(r, tl, c2, side, x, low)

\* The entries and their order, when tl rises.
LEMMA SingleHolds ==
  ASSUME NEW t \in Tree, NEW side \in Side, NEW far, NEW tl,
         NEW x \in Tree, NEW y \in Tree, NEW z \in Tree, NEW low, NEW r,
         SingleTurn(t, side, far, tl, x, y, z, low, r)
  PROVE  Same(r, t)
<1> SUFFICES ASSUME t # NULL, tl # NULL, far = Other(side), tl = t[side],
                    Same(x, tl[side]), Same(y, tl[far]), Same(z, t[far]),
                    NEW c1 \in {RED, BLACK}, NEW c2 \in {RED, BLACK},
                    NodeIs(low, t, c1, side, y, z), NodeIs(r, tl, c2, side, x, low)
             PROVE  Same(r, t)
  BY DEF SingleTurn
<1>1. tl \in Tree /\ tl[side] \in Tree /\ tl[far] \in Tree /\ t[far] \in Tree
  BY NodeFields
<1>2. /\ KeysIn(x) = KeysIn(tl[side]) /\ KeysIn(y) = KeysIn(tl[far]) /\ KeysIn(z) = KeysIn(t[far])
      /\ KeysIn(x) \subseteq Int /\ KeysIn(y) \subseteq Int /\ KeysIn(z) \subseteq Int
      /\ t.key \in Int /\ tl.key \in Int
  BY <1>1, SameKeys, KeysOfTree, NodeFields
<1>3. /\ EntriesOf(t) = {<<t.key, t.value>>} \union EntriesOf(tl) \union EntriesOf(t[far])
      /\ EntriesOf(tl) = {<<tl.key, tl.value>>} \union EntriesOf(tl[side]) \union EntriesOf(tl[far])
      /\ KeysIn(tl) = {tl.key} \union KeysIn(tl[side]) \union KeysIn(tl[far])
  BY <1>1, Contents
<1>4. /\ EntriesOf(low) = {<<t.key, t.value>>} \union EntriesOf(y) \union EntriesOf(z)
      /\ KeysIn(low) = {t.key} \union KeysIn(y) \union KeysIn(z)
      /\ EntriesOf(r) = {<<tl.key, tl.value>>} \union EntriesOf(x) \union EntriesOf(low)
  BY <1>1, NodeHolds
<1>5. EntriesOf(r) = EntriesOf(t)
  BY <1>3, <1>4 DEF Same
<1>6. ASSUME Ordered(t) PROVE Ordered(r)
  <2>1. /\ Ordered(tl) /\ Ordered(t[far])
        /\ \A k \in KeysIn(tl) : Before(side, k, t.key)
        /\ \A k \in KeysIn(t[far]) : Before(side, t.key, k)
    BY <1>6, OrderedIs
  <2>2. /\ Ordered(tl[side]) /\ Ordered(tl[far])
        /\ \A k \in KeysIn(tl[side]) : Before(side, k, tl.key)
        /\ \A k \in KeysIn(tl[far]) : Before(side, tl.key, k)
    BY <1>1, <2>1, OrderedIs
  <2>3. Ordered(x) /\ Ordered(y) /\ Ordered(z)
    BY <2>1, <2>2 DEF Same
  <2>4. Ordered(low)
    <3>1. Ordered(low) <=> /\ Ordered(y) /\ Ordered(z)
                           /\ \A k \in KeysIn(y) : Before(side, k, t.key)
                           /\ \A k \in KeysIn(z) : Before(side, t.key, k)
      BY NodeHolds
    <3> QED
      BY <1>2, <1>3, <2>1, <2>3, <3>1
  <2>5. Before(side, tl.key, t.key)
    BY <1>3, <2>1
  <2>6. \A k \in KeysIn(low) : Before(side, tl.key, k)
    BY <1>2, <1>4, <2>1, <2>2, <2>5, Sides
  <2>7. Ordered(r) <=> /\ Ordered(x) /\ Ordered(low)
                       /\ \A k \in KeysIn(x) : Before(side, k, tl.key)
                       /\ \A k \in KeysIn(low) : Before(side, tl.key, k)
    BY <1>1, NodeHolds
  <2> QED
    BY <1>2, <2>2, <2>3, <2>4, <2>6, <2>7
<1> QED
  BY <1>5, <1>6 DEF Same

\* So it is when c, the root on the other side of tl, rises above both.
DoubleTurn(t, side, far, tl, c, w, x, y, z, low, near, r) ==
    /\ t # NULL /\ tl # NULL /\ c # NULL /\ far = Other(side) /\ tl = t[side] /\ c = tl[far]
    /\ Same(w, tl[side]) /\ Same(x, c[side]) /\ Same(y, c[far]) /\ Same(z, t[far])
    /\ \E c1 \in {RED, BLACK} : NodeIs(low, t, c1, side, y, z)
    /\ \E c2 \in {RED, BLACK} : NodeIs(near, tl, c2, side, w, x)
    /\ \E c3 \in {RED, BLACK} : NodeIs(r, c, c3, side, near, low)

\* And when c rises.
LEMMA DoubleHolds ==
  ASSUME NEW t \in Tree, NEW side \in Side, NEW far, NEW tl, NEW c,
         NEW w \in Tree, NEW x \in Tree, NEW y \in Tree, NEW z \in Tree, NEW low, NEW near, NEW r,
         DoubleTurn(t, side, far, tl, c, w, x, y, z, low, near, r)
  PROVE  Same(r, t)
<1> SUFFICES ASSUME t # NULL, tl # NULL, c # NULL, far = Other(side), tl = t[side], c = tl[far],
                    Same(w, tl[side]), Same(x, c[side]), Same(y, c[far]), Same(z, t[far]),
                    NEW c1 \in {RED, BLACK}, NEW c2 \in {RED, BLACK}, NEW c3 \in {RED, BLACK},
                    NodeIs(low, t, c1, side, y, z), NodeIs(near, tl, c2, side, w, x),
                    NodeIs(r, c, c3, side, near, low)
             PROVE  Same(r, t)
  BY DEF DoubleTurn
<1>1. /\ tl \in Tree /\ tl[side] \in Tree /\ t[far] \in Tree
      /\ c \in Tree /\ c[side] \in Tree /\ c[far] \in Tree
  BY NodeFields
<1>2. /\ KeysIn(w) = KeysIn(tl[side]) /\ KeysIn(x) = KeysIn(c[side])
      /\ KeysIn(y) = KeysIn(c[far]) /\ KeysIn(z) = KeysIn(t[far])
      /\ KeysIn(w) \subseteq Int /\ KeysIn(x) \subseteq Int /\ KeysIn(y) \subseteq Int
      /\ KeysIn(z) \subseteq Int /\ t.key \in Int /\ tl.key \in Int /\ c.key \in Int
  BY <1>1, SameKeys, KeysOfTree, NodeFields
<1>3. /\ EntriesOf(t) = {<<t.key, t.value>>} \union EntriesOf(tl) \union EntriesOf(t[far])
      /\ EntriesOf(tl) = {<<tl.key, tl.value>>} \union EntriesOf(tl[side]) \union EntriesOf(c)
      /\ KeysIn(tl) = {tl.key} \union KeysIn(tl[side]) \union KeysIn(c)
      /\ EntriesOf(c) = {<<c.key, c.value>>} \union EntriesOf(c[side]) \union EntriesOf(c[far])
      /\ KeysIn(c) = {c.key} \union KeysIn(c[side]) \union KeysIn(c[far])
  BY <1>1, Contents
<1>4. /\ EntriesOf(low) = {<<t.key, t.value>>} \union EntriesOf(y) \union EntriesOf(z)
      /\ KeysIn(low) = {t.key} \union KeysIn(y) \union KeysIn(z)
      /\ EntriesOf(near) = {<<tl.key, tl.value>>} \union EntriesOf(w) \union EntriesOf(x)
      /\ KeysIn(near) = {tl.key} \union KeysIn(w) \union KeysIn(x)
      /\ EntriesOf(r) = {<<c.key, c.value>>} \union EntriesOf(near) \union EntriesOf(low)
  <2>1. /\ EntriesOf(low) = {<<t.key, t.value>>} \union EntriesOf(y) \union EntriesOf(z)
        /\ KeysIn(low) = {t.key} \union KeysIn(y) \union KeysIn(z)
    BY NodeHolds
  <2>2. /\ EntriesOf(near) = {<<tl.key, tl.value>>} \union EntriesOf(w) \union EntriesOf(x)
        /\ KeysIn(near) = {tl.key} \union KeysIn(w) \union KeysIn(x)
    BY Contents DEF NodeIs
  <2>3. EntriesOf(r) = {<<c.key, c.value>>} \union EntriesOf(near) \union EntriesOf(low)
    BY Contents DEF NodeIs
  <2> QED
    BY <2>1, <2>2, <2>3
<1>5. EntriesOf(r) = EntriesOf(t)
  BY <1>3, <1>4 DEF Same
<1>6. ASSUME Ordered(t) PROVE Ordered(r)
  <2>1. /\ Ordered(tl) /\ Ordered(t[far])
        /\ \A k \in KeysIn(tl) : Before(side, k, t.key)
        /\ \A k \in KeysIn(t[far]) : Before(side, t.key, k)
    BY <1>6, OrderedIs
  <2>2. /\ Ordered(tl[side]) /\ Ordered(c)
        /\ \A k \in KeysIn(tl[side]) : Before(side, k, tl.key)
        /\ \A k \in KeysIn(c) : Before(side, tl.key, k)
    BY <1>1, <2>1, OrderedIs
  <2>3. /\ Ordered(c[side]) /\ Ordered(c[far])
        /\ \A k \in KeysIn(c[side]) : Before(side, k, c.key)
        /\ \A k \in KeysIn(c[far]) : Before(side, c.key, k)
    BY <1>1, <2>2, OrderedIs
  <2>4. Ordered(w) /\ Ordered(x) /\ Ordered(y) /\ Ordered(z)
    BY <2>1, <2>2, <2>3 DEF Same
  <2>5. Ordered(low)
    <3>1. Ordered(low) <=> /\ Ordered(y) /\ Ordered(z)
                           /\ \A k \in KeysIn(y) : Before(side, k, t.key)
                           /\ \A k \in KeysIn(z) : Before(side, t.key, k)
      BY NodeHolds
    <3> QED
      BY <1>2, <1>3, <2>1, <2>4, <3>1
  <2>6. Ordered(near)
    <3>1. Ordered(near) <=> /\ Ordered(w) /\ Ordered(x)
                            /\ \A k \in KeysIn(w) : Before(side, k, tl.key)
                            /\ \A k \in KeysIn(x) : Before(side, tl.key, k)
      BY <1>1, NodeHolds
    <3> QED
      BY <1>2, <1>3, <2>2, <2>4, <3>1
  <2>7. Before(side, tl.key, c.key) /\ Before(side, c.key, t.key)
    BY <1>3, <2>1, <2>2
  <2>8. \A k \in KeysIn(low) : Before(side, c.key, k)
    BY <1>2, <1>4, <2>1, <2>3, <2>7, Sides
  <2>9. \A k \in KeysIn(near) : Before(side, k, c.key)
    BY <1>2, <1>4, <2>2, <2>3, <2>7, Sides
  <2>10. Ordered(r) <=> /\ Ordered(near) /\ Ordered(low)
                        /\ \A k \in KeysIn(near) : Before(side, k, c.key)
                        /\ \A k \in KeysIn(low) : Before(side, c.key, k)
    BY <1>1, NodeHolds
  <2> QED
    BY <2>5, <2>6, <2>8, <2>9, <2>10
<1> QED
  BY <1>5, <1>6 DEF Same

\* A tree that a node has been added to: no red node under a red one, but for
\* one child of the root.
Grown(t) == t # NULL => /\ NoRedRed(t.left) /\ NoRedRed(t.right)
                        /\ IsRed(t) => ~IsRed(t.left) \/ ~IsRed(t.right)

\* So it is seen from a side.
LEMMA GrownIs ==
  ASSUME NEW t \in Tree, t # NULL, NEW side \in Side
  PROVE  /\ Grown(t) <=> /\ NoRedRed(t[side]) /\ NoRedRed(t[Other(side)])
                         /\ IsRed(t) => ~IsRed(t[side]) \/ ~IsRed(t[Other(side)])
         /\ NoRedRed(t) => Grown(t)
<1>1. t \in NodesOver(Tree)
  BY NodeFields
<1>2. CASE side = "left"
  <2>1. t[side] = t.left /\ t[Other(side)] = t.right
    BY <1>1, <1>2 DEF NodesOver, Other
  <2> QED
    BY <2>1, NoRedRedIs DEF Grown
<1>3. CASE side = "right"
  <2>1. t[side] = t.right /\ t[Other(side)] = t.left
    BY <1>1, <1>3 DEF NodesOver, Other
  <2> QED
    BY <2>1, NoRedRedIs DEF Grown
<1> QED
  BY <1>2, <1>3 DEF Side

\* A painted tree holds the same, and is in order if it was.
LEMMA PaintedSame ==
  ASSUME NEW t \in Tree, t # NULL, NEW c \in {RED, BLACK}
  PROVE  Painted(t, c) \in Tree /\ Same(Painted(t, c), t)
<1>1. "left" \in Side /\ Height \in 0 .. Height
  BY Levels DEF Side
<1>2. Painted(t, c) \in Tree /\ NodeIs(Painted(t, c), t, c, "left", t["left"], t[Other("left")])
  BY <1>1, PaintedIs DEF Tree
<1>3. t["left"] \in Tree /\ t[Other("left")] \in Tree
  BY <1>1, NodeFields
<1>4. \A x : Same(x, x)
  BY DEF Same
<1>5. Same(Painted(t, c), t)
  BY <1>1, <1>2, <1>3, <1>4, NodeSame
<1> QED
  BY <1>2, <1>5

(***************************************************************************)
(* FixInsertion (sglib.h:1445-1482) of a black node t whose subtree on a   *)
(* side has grown.                                                         *)
(***************************************************************************)
LEMMA FixInsertionHolds ==
  ASSUME NEW t \in Tree, t # NULL, NEW side \in Side,
         NEW k \in Nat, k + 1 < Height, t[side] \in Trees[k], t[Other(side)] \in Trees[k]
  PROVE  /\ FixInsertion(t, side) \in Trees[k + 2] /\ FixInsertion(t, side) # NULL
         /\ Same(FixInsertion(t, side), t)
         /\ \A h \in Int :
               /\ ~IsRed(t) /\ Grown(t[side]) /\ NoRedRed(t[Other(side)]) /\ HasDepth(t, h + 1)
               => NoRedRed(FixInsertion(t, side)) /\ HasDepth(FixInsertion(t, side), h + 1)
<1> DEFINE far == Other(side)
           tl == t[side]
           z == t[far]
           double == IsRed(tl) /\ (IsRed(tl[side]) \/ IsRed(tl[far]))
           r == FixInsertion(t, side)
           Good == /\ r \in Trees[k + 2] /\ r # NULL /\ Same(r, t)
                   /\ \A h \in Int : /\ ~IsRed(t) /\ Grown(tl) /\ NoRedRed(z) /\ HasDepth(t, h + 1)
                                     => NoRedRed(r) /\ HasDepth(r, h + 1)
<1> SUFFICES Good
  OBVIOUS
<1> HIDE DEF r, Good
<1>1. /\ far \in Side /\ Other(far) = side
      /\ k \in 0 .. Height /\ k < Height /\ k + 1 \in Nat /\ k + 1 \in 0 .. Height
      /\ (k + 1) + 1 = k + 2 /\ RED \in {RED, BLACK} /\ BLACK \in {RED, BLACK} /\ RED # BLACK
  BY Sides, Levels DEF RED, BLACK
<1>2. \A x : Same(x, x) /\ (IsRed(x) => x # NULL)
  BY DEF Same, IsRed
<1>3. tl \in Tree /\ z \in Tree /\ tl \in Trees[k] /\ z \in Trees[k]
  BY NodeFields
<1>4. Trees[k] \subseteq Trees[k + 1] /\ Trees[k + 1] \subseteq Trees[k + 2]
  BY <1>1, LevelsOf
<1>5. NodeIs(t, t, t.color, side, tl, z) /\ t.color \in {RED, BLACK}
  BY Itself
<1>6. ASSUME NEW h \in Int, ~IsRed(t), HasDepth(t, h + 1) PROVE HasDepth(tl, h) /\ HasDepth(z, h)
  <2>1. Blacks(t) = 1 /\ h + 1 \in Int /\ (h + 1) - 1 = h
    BY <1>6 DEF Blacks
  <2> QED
    BY <2>1, <1>6, DepthIs
<1>7. CASE ~double
  <2>1. r = t
    BY <1>7 DEF r, FixInsertion
  <2>2. t \in Trees[k + 1]
    <3>1. t \in NodesOver(Trees[k])
      <4>1. t \in NodesOver(Tree) /\ {t.left, t.right} = {tl, z}
        BY NodeFields DEF NodesOver, Side, Other
      <4> QED
        BY <1>3, <4>1 DEF NodesOver
    <3> QED
      BY <1>1, <3>1, LevelsOf
  <2>3. ASSUME ~IsRed(t), Grown(tl), NoRedRed(z) PROVE NoRedRed(t)
    <3>1. tl = NULL => NoRedRed(tl)
      BY Empty
    <3>2. tl # NULL => NoRedRed(tl)
      BY <1>3, <1>7, <2>3, GrownIs, NoRedRedIs
    <3> QED
      BY <2>3, <3>1, <3>2, NoRedRedIs
  <2> QED
    BY <1>2, <1>4, <1>6, <2>1, <2>2, <2>3 DEF Good
<1>8. CASE double /\ IsRed(z)
  <2> DEFINE x == Painted(tl, BLACK)
             y == Painted(z, BLACK)
  <2>1. tl # NULL /\ z # NULL
    BY <1>2, <1>8
  <2>2. x \in Trees[k] /\ NodeIs(x, tl, BLACK, side, tl[side], tl[far]) /\ Same(x, tl)
    BY <1>1, <1>3, <2>1, PaintedIs, PaintedSame
  <2>3. y \in Trees[k] /\ NodeIs(y, z, BLACK, side, z[side], z[far]) /\ Same(y, z)
    BY <1>1, <1>3, <2>1, PaintedIs, PaintedSame
  <2> HIDE DEF x, y
  <2>4. r = [t EXCEPT !.color = RED, ![side] = x, ![far] = y]
    BY <1>8 DEF r, FixInsertion, x, y
  <2>5. r \in Trees[k + 1] /\ NodeIs(r, t, RED, side, x, y)
    BY <1>1, <2>2, <2>3, <2>4, BothSet
  <2>6. x \in Tree /\ y \in Tree /\ r # NULL
    BY <2>2, <2>3, <2>5 DEF NodeIs
  <2>7. Same(r, t)
    BY <1>1, <2>2, <2>3, <2>5, <2>6, NodeSame
  <2>8. ASSUME NEW h \in Int, ~IsRed(t), Grown(tl), NoRedRed(z), HasDepth(t, h + 1)
        PROVE  NoRedRed(r) /\ HasDepth(r, h + 1)
    <3>1. /\ NoRedRed(tl[side]) /\ NoRedRed(tl[far]) /\ HasDepth(tl[side], h) /\ HasDepth(tl[far], h)
      <4>1. HasDepth(tl, h) /\ h - Blacks(tl) = h
        BY <1>6, <1>8, <2>8 DEF Blacks
      <4> QED
        BY <1>3, <2>1, <2>8, <4>1, GrownIs, DepthIs
    <3>2. /\ NoRedRed(z[side]) /\ NoRedRed(z[far]) /\ HasDepth(z[side], h) /\ HasDepth(z[far], h)
      <4>1. HasDepth(z, h) /\ h - Blacks(z) = h
        BY <1>6, <1>8, <2>8 DEF Blacks
      <4> QED
        BY <1>3, <2>1, <2>8, <4>1, NoRedRedIs, DepthIs
    <3>3. NoRedRed(x) /\ ~IsRed(x) /\ HasDepth(x, h + 1)
      BY <2>2, <3>1, BlackNode
    <3>4. NoRedRed(y) /\ ~IsRed(y) /\ HasDepth(y, h + 1)
      BY <2>3, <3>2, BlackNode
    <3>5. h + 1 \in Int
      OBVIOUS
    <3> QED
      BY <2>5, <3>3, <3>4, <3>5, RedNode
  <2> QED
    BY <1>4, <2>5, <2>6, <2>7, <2>8 DEF Good
<1>9. CASE double /\ ~IsRed(z) /\ IsRed(tl[side])
  <2> DEFINE low == [t EXCEPT !.color = RED, ![side] = tl[far]]
  <2>1. tl # NULL
    BY <1>2, <1>9
  <2>2. tl[side] \in Trees[k] /\ tl[far] \in Trees[k] /\ tl[side] \in Tree /\ tl[far] \in Tree
    BY <1>1, <1>3, <2>1, Lower, NodeFields
  <2>3. low \in Trees[k + 1] /\ NodeIs(low, t, RED, side, tl[far], z)
    BY <1>1, <1>3, <2>2, OneSet
  <2> HIDE DEF low
  <2>4. r = [tl EXCEPT !.color = BLACK, ![far] = low]
    BY <1>9 DEF r, FixInsertion, low
  <2>5. r \in Trees[k + 2] /\ NodeIs(r, tl, BLACK, far, low, tl[side])
    BY <1>1, <1>3, <1>4, <2>1, <2>2, <2>3, <2>4, OneSet
  <2>6. NodeIs(r, tl, BLACK, side, tl[side], low)
    BY <1>1, <2>5 DEF NodeIs
  <2>7. Same(r, t)
    <3>1. SingleTurn(t, side, far, tl, tl[side], tl[far], z, low, r)
      BY <1>1, <1>2, <2>1, <2>3, <2>6 DEF SingleTurn
    <3> QED
      BY <1>1, <1>3, <2>2, <3>1, SingleHolds
  <2>8. ASSUME NEW h \in Int, ~IsRed(t), Grown(tl), NoRedRed(z), HasDepth(t, h + 1)
        PROVE  NoRedRed(r) /\ HasDepth(r, h + 1)
    <3>1. /\ NoRedRed(tl[side]) /\ NoRedRed(tl[far]) /\ HasDepth(tl[side], h) /\ HasDepth(tl[far], h)
          /\ ~IsRed(tl[far]) /\ HasDepth(z, h)
      <4>1. HasDepth(tl, h) /\ h - Blacks(tl) = h /\ HasDepth(z, h)
        BY <1>6, <1>9, <2>8 DEF Blacks
      <4> QED
        BY <1>3, <1>9, <2>1, <2>8, <4>1, GrownIs, DepthIs
    <3>2. NoRedRed(low) /\ HasDepth(low, h)
      BY <1>9, <2>3, <2>8, <3>1, RedNode
    <3> QED
      BY <2>6, <3>1, <3>2, BlackNode
  <2> QED
    BY <2>5, <2>7, <2>8 DEF NodeIs, Good
<1>10. CASE double /\ ~IsRed(z) /\ ~IsRed(tl[side])
  <2> DEFINE c == tl[far]
             low == [t EXCEPT !.color = RED, ![side] = c[far]]
             near == [tl EXCEPT ![far] = c[side]]
  <2>1. tl # NULL /\ c # NULL /\ IsRed(c) /\ IsRed(tl)
    BY <1>2, <1>10
  <2>2. c = tl[far]
    OBVIOUS
  <2> HIDE DEF c
  <2>3. tl[side] \in Trees[k] /\ c \in Trees[k] /\ tl[side] \in Tree /\ c \in Tree
    BY <1>1, <1>3, <2>1, <2>2, Lower, NodeFields
  <2>4. c[side] \in Trees[k] /\ c[far] \in Trees[k] /\ c[side] \in Tree /\ c[far] \in Tree
    BY <1>1, <2>1, <2>3, Lower, NodeFields
  <2>5. low \in Trees[k + 1] /\ NodeIs(low, t, RED, side, c[far], z)
    BY <1>1, <1>3, <2>4, OneSet
  <2>6. near \in Trees[k + 1] /\ NodeIs(near, tl, tl.color, far, c[side], tl[side])
    BY <1>1, <1>3, <2>1, <2>3, <2>4, OneSet
  <2>7. NodeIs(near, tl, RED, side, tl[side], c[side])
    BY <1>1, <2>1, <2>6 DEF NodeIs, IsRed
  <2> HIDE DEF low, near
  <2>8. r = [c EXCEPT !.color = BLACK, ![side] = near, ![far] = low]
    BY <1>10 DEF r, FixInsertion, c, low, near
  <2>9. r \in Trees[k + 2] /\ NodeIs(r, c, BLACK, side, near, low)
    BY <1>1, <2>1, <2>3, <2>5, <2>6, <2>8, BothSet
  <2>10. Same(r, t)
    <3>1. /\ NodeIs(low, t, RED, side, c[far], z) /\ NodeIs(near, tl, RED, side, tl[side], c[side])
          /\ NodeIs(r, c, BLACK, side, near, low)
      BY <2>5, <2>7, <2>9
    <3>2. /\ Same(tl[side], tl[side]) /\ Same(c[side], c[side]) /\ Same(c[far], c[far])
          /\ Same(z, t[far])
      BY <1>2
    <3>3. DoubleTurn(t, side, far, tl, c, tl[side], c[side], c[far], z, low, near, r)
      BY <1>1, <2>1, <2>2, <3>1, <3>2 DEF DoubleTurn
    <3> QED
      BY <1>3, <2>3, <2>4, <3>3, DoubleHolds
  <2>11. ASSUME NEW h \in Int, ~IsRed(t), Grown(tl), NoRedRed(z), HasDepth(t, h + 1)
         PROVE  NoRedRed(r) /\ HasDepth(r, h + 1)
    <3>1. /\ NoRedRed(tl[side]) /\ NoRedRed(c) /\ HasDepth(tl[side], h) /\ HasDepth(c, h)
          /\ HasDepth(z, h)
      <4>1. HasDepth(tl, h) /\ h - Blacks(tl) = h /\ HasDepth(z, h)
        BY <1>6, <1>10, <2>11 DEF Blacks
      <4> QED
        BY <1>3, <2>1, <2>2, <2>11, <4>1, GrownIs, DepthIs
    <3>2. /\ NoRedRed(c[side]) /\ NoRedRed(c[far]) /\ ~IsRed(c[side]) /\ ~IsRed(c[far])
          /\ HasDepth(c[side], h) /\ HasDepth(c[far], h)
      <4>1. h - Blacks(c) = h
        BY <2>1 DEF Blacks
      <4> QED
        BY <2>1, <2>3, <3>1, <4>1, NoRedRedIs, DepthIs
    <3>3. NoRedRed(low) /\ HasDepth(low, h)
      BY <1>10, <2>5, <2>11, <3>1, <3>2, RedNode
    <3>4. NoRedRed(near) /\ HasDepth(near, h)
      BY <1>10, <2>7, <3>1, <3>2, RedNode
    <3> QED
      BY <2>9, <3>3, <3>4, BlackNode
  <2> QED
    BY <2>9, <2>10, <2>11 DEF NodeIs, Good
<1> QED
  BY <1>7, <1>8, <1>9, <1>10

-----------------------------------------------------------------------------
(* Search, insertion, and another value for a key.                         *)

\* A key other than the root's is on its side.
LEMMA SideOfKey ==
  ASSUME NEW t \in Tree, t # NULL, NEW key \in Keys
  PROVE  /\ SideOf(t, key) \in Side
         /\ key # t.key => Before(SideOf(t, key), key, t.key)
<1>1. key \in Int /\ t.key \in Int
  BY NodeFields, RedBlackTreeAssumption
<1> QED
  BY <1>1 DEF SideOf, Side, Before

\* A key of an ordered tree that is not the root's is in the subtree on its side.
LEMMA KeyOnItsSide ==
  ASSUME NEW t \in Tree, t # NULL, Ordered(t), NEW key \in Keys, key # t.key
  PROVE  /\ key \in KeysIn(t) <=> key \in KeysIn(t[SideOf(t, key)])
         /\ key \notin KeysIn(t[Other(SideOf(t, key))])
         /\ Ordered(t[SideOf(t, key)])
<1> DEFINE side == SideOf(t, key)
<1>1. side \in Side /\ Before(side, key, t.key)
  BY SideOfKey
<1> HIDE DEF side
<1>2. KeysIn(t) = {t.key} \union KeysIn(t[side]) \union KeysIn(t[Other(side)])
  BY <1>1, Contents
<1>3. /\ Ordered(t[side])
      /\ \A k \in KeysIn(t[Other(side)]) : Before(side, t.key, k)
  BY <1>1, OrderedIs
<1>4. key \in Int /\ t.key \in Int
  BY NodeFields, RedBlackTreeAssumption
<1>5. ~Before(side, t.key, key)
  BY <1>1, <1>4 DEF Before
<1>6. key \notin KeysIn(t[Other(side)])
  BY <1>3, <1>5
<1>7. key \in KeysIn(t) <=> key \in KeysIn(t[side])
  BY <1>2, <1>6
<1> QED
  BY <1>3, <1>6, <1>7 DEF side

\* In a tree that is in order, Find gives the node of a key that is there, and else NULL.
LEMMA FindFinds ==
  ASSUME NEW key \in Keys
  PROVE  \A t \in Tree : Ordered(t) =>
            /\ Find(t, key) = NULL <=> key \notin KeysIn(t)
            /\ Find(t, key) # NULL => /\ Find(t, key) \in Nodes(t) /\ Find(t, key).key = key
                                      /\ <<key, Find(t, key).value>> \in EntriesOf(t)
<1> DEFINE Found(t) == /\ Find(t, key) = NULL <=> key \notin KeysIn(t)
                       /\ Find(t, key) # NULL => Find(t, key) \in Nodes(t) /\ Find(t, key).key = key
           S == { t \in Tree : Ordered(t) => Found(t) }
<1>1. NULL \in S
  BY Empty, FindIs
<1>2. ASSUME NEW t \in Tree \ {NULL}, t.left \in S, t.right \in S PROVE t \in S
  <2> SUFFICES ASSUME Ordered(t) PROVE Found(t)
    OBVIOUS
  <2>1. Find(t, key) = IF t.key = key THEN t ELSE Find(t[SideOf(t, key)], key)
    BY FindIs
  <2>2. CASE t.key = key
    BY <2>1, <2>2, NodesOfTree, KeysOfTree
  <2>3. CASE t.key # key
    <3> DEFINE s == t[SideOf(t, key)]
    <3>1. SideOf(t, key) \in Side
      BY SideOfKey
    <3>2. s \in S
      <4>1. t \in NodesOver(Tree)
        BY NodeFields
      <4>2. s \in {t.left, t.right}
        BY <3>1, <4>1 DEF Side, NodesOver
      <4> QED
        BY <1>2, <4>2
    <3>3. Ordered(s) /\ (key \in KeysIn(t) <=> key \in KeysIn(s))
      BY <2>3, KeyOnItsSide
    <3>4. Nodes(s) \subseteq Nodes(t)
      BY <3>1, Contents
    <3> QED
      BY <2>1, <2>3, <3>2, <3>3, <3>4
  <2> QED
    BY <2>2, <2>3
<1>3. Tree \subseteq S
  <2> HIDE DEF S
  <2> QED
    BY <1>1, <1>2, TreeInduction
<1>4. \A t \in Tree : Ordered(t) /\ Find(t, key) # NULL => <<key, Find(t, key).value>> \in EntriesOf(t)
  BY <1>3 DEF EntriesOf
<1> QED
  BY <1>3, <1>4

\* A key has one value in a tree that is in order.
LEMMA OneValue ==
  \A t \in Tree : Ordered(t) =>
     \A d, e \in EntriesOf(t) : d[1] = e[1] => d = e
<1> DEFINE S == { t \in Tree : Ordered(t) => \A d, e \in EntriesOf(t) : d[1] = e[1] => d = e }
<1>1. NULL \in S
  BY Empty
<1>2. ASSUME NEW t \in Tree \ {NULL}, t.left \in S, t.right \in S PROVE t \in S
  <2> SUFFICES ASSUME Ordered(t), NEW d \in EntriesOf(t), NEW e \in EntriesOf(t), d[1] = e[1]
               PROVE  d = e
    OBVIOUS
  <2>1. "left" \in Side /\ Other("left") = "right" /\ t["left"] = t.left /\ t["right"] = t.right
        /\ t.left \in Tree /\ t.right \in Tree
    BY NodeFields DEF Side, Other, NodesOver
  <2>2. EntriesOf(t) = {<<t.key, t.value>>} \union EntriesOf(t.left) \union EntriesOf(t.right)
    BY <2>1, Contents
  <2>3. /\ Ordered(t.left) /\ Ordered(t.right)
        /\ \A k \in KeysIn(t.left) : Before("left", k, t.key)
        /\ \A k \in KeysIn(t.right) : Before("left", t.key, k)
    BY <2>1, OrderedIs
  <2>4. \A f \in EntriesOf(t.left) : f[1] \in Int /\ f[1] < t.key
    BY <2>1, <2>3, KeysOfTree DEF Before
  <2>5. \A f \in EntriesOf(t.right) : f[1] \in Int /\ t.key < f[1]
    BY <2>1, <2>3, KeysOfTree DEF Before
  <2>6. t.key \in Int /\ <<t.key, t.value>>[1] = t.key
    BY NodeFields
  <2>7. \A f \in EntriesOf(t) : /\ f[1] \in Int
                                /\ f[1] < t.key => f \in EntriesOf(t.left)
                                /\ t.key < f[1] => f \in EntriesOf(t.right)
                                /\ f[1] = t.key => f = <<t.key, t.value>>
    BY <2>2, <2>4, <2>5, <2>6
  <2>8. d[1] \in Int
    BY <2>7
  <2>9. CASE d[1] < t.key
    BY <1>2, <2>3, <2>7, <2>9
  <2>10. CASE t.key < d[1]
    BY <1>2, <2>3, <2>7, <2>10
  <2>11. CASE d[1] = t.key
    BY <2>7, <2>11
  <2> QED
    BY <2>6, <2>8, <2>9, <2>10, <2>11
<1> HIDE DEF S
<1>3. Tree \subseteq S
  BY <1>1, <1>2, TreeInduction
<1> QED
  BY <1>3 DEF S

\* A subtree on the side of a key is one of the two.
LEMMA OnSide ==
  ASSUME NEW t \in Tree, t # NULL, NEW key
  PROVE  t[SideOf(t, key)] \in {t.left, t.right} /\ SideOf(t, key) \in Side
BY NodeFields DEF SideOf, Side, NodesOver

\* What a new node is made of.
LEMMA NewNode ==
  ASSUME NEW key \in Keys, NEW value \in Values, NEW side \in Side
  PROVE  LET r == Painted(Node(key, value), RED)
         IN  /\ r \in Trees[1] /\ r \in Tree /\ r # NULL /\ IsRed(r)
             /\ r.key = key /\ r.value = value /\ r[side] = NULL /\ r[Other(side)] = NULL
<1> DEFINE r == Painted(Node(key, value), RED)
<1>1. r = [key |-> key, value |-> value, color |-> RED, left |-> NULL, right |-> NULL]
  BY DEF Painted, Node
<1>2. Trees[0] = {NULL} /\ 0 < Height /\ 0 + 1 = 1
  BY TreesAre, Levels
<1>3. r \in NodesOver(Trees[0])
  BY <1>1, <1>2 DEF NodesOver
<1>4. r \in Trees[1] /\ r \in Tree /\ r # NULL
  BY <1>2, <1>3, LevelsOf
<1> QED
  BY <1>1, <1>4 DEF Side, Other, IsRed

(***************************************************************************)
(* AddRecursive (sglib___rbtree_add_recursive, sglib.h:1626-1643) adds one *)
(* entry, keeps the order, and makes no path deeper.                       *)
(***************************************************************************)
AddsTo(t, r, key, value) ==
    /\ r # NULL
    /\ EntriesOf(r) = EntriesOf(t) \union {<<key, value>>}
    /\ Ordered(t) /\ key \notin KeysIn(t) => Ordered(r)
    /\ \A h \in Int : NoRedRed(t) /\ HasDepth(t, h) =>
          Grown(r) /\ HasDepth(r, h) /\ (~IsRed(t) => NoRedRed(r))

\* The keys of entries, when there is one more.
LEMMA OneKeyMore ==
  ASSUME NEW A, NEW k, NEW v
  PROVE  {e[1] : e \in A \union {<<k, v>>}} = {e[1] : e \in A} \union {k}
<1>1. <<k, v>>[1] = k
  OBVIOUS
<1> QED
  BY <1>1

\* A tree to a subtree of which the entry has been added.
LEMMA GrownHolds ==
  ASSUME NEW key \in Keys, NEW value \in Values, NEW t \in Tree, t # NULL,
         NEW side, side = SideOf(t, key), NEW s, s = t[side], NEW z, z = t[Other(side)],
         NEW a \in Tree, AddsTo(s, a, key, value),
         NEW c \in {RED, BLACK}, NEW r, NodeIs(r, t, c, side, a, z)
  PROVE  /\ EntriesOf(r) = EntriesOf(t) \union {<<key, value>>}
         /\ Ordered(t) /\ key \notin KeysIn(t) => Ordered(r)
<1>1. side \in Side /\ s \in Tree /\ z \in Tree
  BY SideOfKey, NodeFields
<1>2. EntriesOf(r) = EntriesOf(t) \union {<<key, value>>}
  <2>1. EntriesOf(r) = {<<t.key, t.value>>} \union EntriesOf(a) \union EntriesOf(z)
    BY <1>1, Contents DEF NodeIs
  <2>2. EntriesOf(t) = {<<t.key, t.value>>} \union EntriesOf(s) \union EntriesOf(z)
    BY <1>1, Contents
  <2> QED
    BY <2>1, <2>2 DEF AddsTo
<1>3. ASSUME Ordered(t), key \notin KeysIn(t) PROVE Ordered(r)
  <2>1. key # t.key /\ Before(side, key, t.key)
    BY <1>3, KeysOfTree, SideOfKey
  <2>2. /\ Ordered(s) /\ Ordered(z)
        /\ \A m \in KeysIn(s) : Before(side, m, t.key)
        /\ \A m \in KeysIn(z) : Before(side, t.key, m)
    BY <1>1, <1>3, OrderedIs
  <2>3. key \notin KeysIn(s)
    BY <1>1, <1>3, Contents
  <2>4. KeysIn(a) = KeysIn(s) \union {key}
    <3>1. KeysIn(a) = {e[1] : e \in EntriesOf(a)} /\ KeysIn(s) = {e[1] : e \in EntriesOf(s)}
      BY <1>1, KeysOfTree
    <3>2. EntriesOf(a) = EntriesOf(s) \union {<<key, value>>}
      BY DEF AddsTo
    <3>3. {e[1] : e \in EntriesOf(a)} = {e[1] : e \in EntriesOf(s)} \union {key}
      <4>1. {e[1] : e \in EntriesOf(s) \union {<<key, value>>}} = {e[1] : e \in EntriesOf(s)} \union {key}
        BY OneKeyMore, Zenon
      <4> QED
        BY <3>2, <4>1, Zenon
    <3> QED
      BY <3>1, <3>3
  <2>5. Ordered(a)
    BY <2>2, <2>3 DEF AddsTo
  <2>6. Ordered(r) <=> /\ Ordered(a) /\ Ordered(z)
                       /\ \A m \in KeysIn(a) : Before(side, m, t.key)
                       /\ \A m \in KeysIn(z) : Before(side, t.key, m)
    BY <1>1, NodeHolds
  <2> QED
    BY <2>1, <2>2, <2>4, <2>5, <2>6
<1> QED
  BY <1>2, <1>3

\* One level of AddRecursive: on the way back, a black node is repaired.
LEMMA AddStep ==
  ASSUME NEW key \in Keys, NEW value \in Values, NEW t \in Tree, t # NULL,
         NEW side, side = SideOf(t, key), NEW s, s = t[side], NEW z, z = t[Other(side)],
         NEW k \in Nat, k + 1 < Height, z \in Trees[k], NEW a \in Trees[k],
         AddsTo(s, a, key, value), NEW grown, grown = [t EXCEPT ![side] = a],
         NEW r, r = IF t.color = BLACK THEN FixInsertion(grown, side) ELSE grown
  PROVE  r \in Trees[k + 2] /\ AddsTo(t, r, key, value)
<1>1. side \in Side /\ s \in Tree /\ z \in Tree
  BY SideOfKey, NodeFields
<1>2. k < Height /\ k + 1 \in Nat /\ (k + 1) + 1 = k + 2
  BY Levels
<1>3. /\ grown \in Trees[k + 1] /\ grown \in Tree /\ grown # NULL /\ grown[side] = a
      /\ grown[Other(side)] = z
      /\ NodeIs(grown, t, t.color, side, a, z) /\ t.color \in {RED, BLACK}
  <2>1. /\ [t EXCEPT ![side] = a] \in Trees[k + 1]
        /\ NodeIs([t EXCEPT ![side] = a], t, t.color, side, a, t[Other(side)])
    <3>1. t[Other(side)] \in Trees[k] /\ RED \in {RED, BLACK}
      OBVIOUS
    <3> QED
      BY <1>1, <1>2, <3>1, OneSet
  <2>2. grown \in Trees[k + 1] /\ NodeIs(grown, t, t.color, side, a, z)
    BY <2>1
  <2> QED
    BY <2>2, NodeFields, SMTT(30) DEF NodeIs
<1>4. a \in Tree /\ Trees[k + 1] \subseteq Trees[k + 2] /\ Trees[k + 2] \subseteq Tree
  BY <1>2, LevelsOf
<1>5. /\ EntriesOf(grown) = EntriesOf(t) \union {<<key, value>>}
      /\ Ordered(t) /\ key \notin KeysIn(t) => Ordered(grown)
  BY <1>3, <1>4, GrownHolds
<1>6. NodeIs(t, t, t.color, side, s, z)
  BY <1>1, Itself
<1>7. CASE t.color = BLACK
  <2>1. /\ r \in Trees[k + 2] /\ r # NULL /\ Same(r, grown)
        /\ \A h \in Int :
             /\ ~IsRed(grown) /\ Grown(a) /\ NoRedRed(z) /\ HasDepth(grown, h + 1)
             => NoRedRed(r) /\ HasDepth(r, h + 1)
    <3>1. r = FixInsertion(grown, side)
      BY <1>7
    <3>2. grown[side] \in Trees[k] /\ grown[Other(side)] \in Trees[k]
      BY <1>3
    <3>3. /\ FixInsertion(grown, side) \in Trees[k + 2] /\ FixInsertion(grown, side) # NULL
          /\ Same(FixInsertion(grown, side), grown)
          /\ \A h \in Int :
               /\ ~IsRed(grown) /\ Grown(grown[side]) /\ NoRedRed(grown[Other(side)])
               /\ HasDepth(grown, h + 1)
               => NoRedRed(FixInsertion(grown, side)) /\ HasDepth(FixInsertion(grown, side), h + 1)
      BY <1>1, <1>3, <3>2, FixInsertionHolds
    <3> QED
      BY <1>3, <3>1, <3>3
  <2>2. NodeIs(t, t, BLACK, side, s, z) /\ NodeIs(grown, t, BLACK, side, a, z)
    BY <1>3, <1>6, <1>7
  <2>3. ASSUME NEW h \in Int, NoRedRed(t), HasDepth(t, h)
        PROVE  Grown(r) /\ HasDepth(r, h) /\ NoRedRed(r)
    <3>1. PICK i \in Int : h = i + 1
      <4>1. h - 1 \in Int /\ h = (h - 1) + 1
        OBVIOUS
      <4> QED
        BY <4>1
    <3>2. HasDepth(t, i + 1)
      BY <2>3, <3>1
    <3>3. NoRedRed(s) /\ NoRedRed(z) /\ HasDepth(s, i) /\ HasDepth(z, i)
      BY <1>1, <2>2, <2>3, <3>2, BlackNode
    <3>4. Grown(a) /\ HasDepth(a, i)
      BY <3>3 DEF AddsTo
    <3>5. ~IsRed(grown) /\ HasDepth(grown, i + 1)
      BY <1>1, <2>2, <3>3, <3>4, BlackNode
    <3>6. NoRedRed(r) /\ HasDepth(r, h)
      BY <2>1, <3>1, <3>3, <3>4, <3>5
    <3> QED
      BY <1>1, <1>4, <2>1, <3>6, GrownIs
  <2> QED
    BY <1>5, <2>1, <2>3 DEF AddsTo, Same
<1>8. CASE t.color # BLACK
  <2>1. r = grown /\ t.color = RED
    BY <1>3, <1>8
  <2>2. NodeIs(t, t, RED, side, s, z) /\ NodeIs(grown, t, RED, side, a, z)
    BY <1>3, <1>6, <2>1
  <2>3. ASSUME NEW h \in Int, NoRedRed(t), HasDepth(t, h)
        PROVE  Grown(grown) /\ HasDepth(grown, h) /\ IsRed(t)
    <3>1. IsRed(t) /\ NoRedRed(s) /\ NoRedRed(z) /\ ~IsRed(s) /\ ~IsRed(z)
          /\ HasDepth(s, h) /\ HasDepth(z, h)
      BY <1>1, <2>2, <2>3, RedNode
    <3>2. NoRedRed(a) /\ HasDepth(a, h)
      BY <3>1 DEF AddsTo
    <3>3. HasDepth(grown, h)
      BY <1>1, <2>2, <3>1, <3>2, RedNode
    <3>4. Grown(grown) <=> /\ NoRedRed(grown[side]) /\ NoRedRed(grown[Other(side)])
                           /\ IsRed(grown) => ~IsRed(grown[side]) \/ ~IsRed(grown[Other(side)])
      BY <1>1, <1>3, GrownIs
    <3> QED
      BY <1>3, <3>1, <3>2, <3>3, <3>4
  <2>4. AddsTo(t, grown, key, value)
    BY <1>3, <1>5, <2>3 DEF AddsTo
  <2> QED
    BY <1>3, <1>4, <2>1, <2>4
<1> QED
  BY <1>7, <1>8

\* So it does at every level, all the way up.
LEMMA AddRecursiveAdds ==
  ASSUME NEW key \in Keys, NEW value \in Values
  PROVE  \A t \in Tree : \A n \in Nat : 2 * n + 1 <= Height /\ t \in Trees[n] =>
            /\ AddRecursive(t, Node(key, value)) \in Trees[2 * n + 1]
            /\ AddsTo(t, AddRecursive(t, Node(key, value)), key, value)
<1> DEFINE elem == Node(key, value)
           add(t) == AddRecursive(t, elem)
           Ok(t, n) == add(t) \in Trees[2 * n + 1] /\ AddsTo(t, add(t), key, value)
           S == { t \in Tree : \A n \in Nat : 2 * n + 1 <= Height /\ t \in Trees[n] => Ok(t, n) }
<1>0. elem.key = key
  BY DEF Node
<1>1. NULL \in S
  <2> DEFINE r == Painted(elem, RED)
  <2>1. add(NULL) = r
    BY AddRecursiveIs
  <2>2. "left" \in Side
    BY DEF Side
  <2>3. /\ r \in Trees[1] /\ r \in Tree /\ r # NULL /\ IsRed(r)
        /\ r.key = key /\ r.value = value /\ r["left"] = NULL /\ r[Other("left")] = NULL
    BY <2>2, NewNode
  <2> HIDE DEF r, elem
  <2>4. EntriesOf(r) = EntriesOf(NULL) \union {<<key, value>>}
    BY <2>2, <2>3, Contents, Empty
  <2>5. Ordered(r)
    <3>1. KeysIn(r["left"]) = {} /\ KeysIn(r[Other("left")]) = {}
          /\ Ordered(r["left"]) /\ Ordered(r[Other("left")])
      BY <2>3, Empty
    <3> QED
      BY <2>2, <2>3, <3>1, OrderedIs
  <2>6. NoRedRed(r) /\ Grown(r)
    BY <2>2, <2>3, NoRedRedIs, GrownIs, Empty
  <2>7. ASSUME NEW h \in Int, HasDepth(NULL, h) PROVE HasDepth(r, h)
    <3>1. h - Blacks(r) = h
      BY <2>3 DEF Blacks
    <3> QED
      BY <2>2, <2>3, <2>7, <3>1, DepthIs
  <2>8. AddsTo(NULL, r, key, value)
    BY <2>3, <2>4, <2>5, <2>6, <2>7 DEF AddsTo
  <2>9. ASSUME NEW n \in Nat, 2 * n + 1 <= Height PROVE r \in Trees[2 * n + 1]
    <3>1. 2 * n + 1 \in 0 .. Height /\ 1 \in 0 .. 2 * n + 1
      BY <2>9, Levels
    <3> QED
      BY <2>3, <3>1, TreesGrow
  <2> HIDE DEF add
  <2> QED
    BY <2>1, <2>8, <2>9, NullIsTree
<1>2. ASSUME NEW t \in Tree \ {NULL}, t.left \in S, t.right \in S PROVE t \in S
  <2> SUFFICES ASSUME NEW n \in Nat, 2 * n + 1 <= Height, t \in Trees[n] PROVE Ok(t, n)
    OBVIOUS
  <2> DEFINE side == SideOf(t, key)
             s == t[side]
             z == t[Other(side)]
             a == add(s)
             grown == [t EXCEPT ![side] = a]
             k == 2 * n - 1
  <2>1. side \in Side /\ s \in S
    BY <1>2, OnSide
  <2>2. n \in 0 .. Height /\ n > 0
    BY Levels, SubtreesOf
  <2>3. n - 1 \in Nat /\ s \in Trees[n - 1] /\ z \in Trees[n - 1]
    BY <2>1, <2>2, Lower
  <2>4. /\ 2 * (n - 1) + 1 = k /\ k \in Nat /\ k + 1 < Height /\ k <= Height /\ k + 2 = 2 * n + 1
        /\ n - 1 \in 0 .. k /\ k \in 0 .. Height
    BY <2>2, Levels
  <2>5. add(t) = IF t.color = BLACK THEN FixInsertion(grown, side) ELSE grown
    BY <1>0, AddRecursiveIs
  <2>6. Ok(s, n - 1)
    <3> HIDE DEF Ok, k, side
    <3> QED
      BY <2>1, <2>3, <2>4
  <2> HIDE DEF add
  <2>7. a \in Trees[k] /\ AddsTo(s, a, key, value)
    BY <2>4, <2>6
  <2>8. z \in Trees[k]
    BY <2>3, <2>4, TreesGrow
  <2> HIDE DEF a, k, elem
  <2>9. add(t) \in Trees[k + 2] /\ AddsTo(t, add(t), key, value)
    BY <2>4, <2>5, <2>7, <2>8, AddStep
  <2> QED
    BY <2>4, <2>9
<1> HIDE DEF S
<1>3. Tree \subseteq S
  BY <1>1, <1>2, TreeInduction
<1> QED
  BY <1>3 DEF S

\* A red-black tree: a black root, no red node under a red one, and as many
\* black nodes on every path.
RedBlack(t) == NoRedRed(t) /\ ~IsRed(t) /\ \E h \in Int : HasDepth(t, h)

\* A tree is one if its root is painted black.
LEMMA PaintedBlack ==
  ASSUME NEW t \in Tree, t # NULL, Grown(t), NEW h \in Int, HasDepth(t, h)
  PROVE  RedBlack(Painted(t, BLACK))
<1> DEFINE r == Painted(t, BLACK)
           x == t["left"]
           y == t[Other("left")]
<1>1. "left" \in Side /\ Height \in 0 .. Height /\ BLACK \in {RED, BLACK}
  BY Levels DEF Side
<1>2. NodeIs(r, t, BLACK, "left", x, y)
  BY <1>1, PaintedIs DEF Tree
<1> HIDE DEF r
<1>3. NoRedRed(x) /\ NoRedRed(y)
  BY <1>1, GrownIs
<1> DEFINE i == h - Blacks(t)
<1>4. i \in Int /\ HasDepth(x, i) /\ HasDepth(y, i)
  <2>1. Blacks(t) \in {0, 1}
    BY DEF Blacks
  <2> QED
    BY <1>1, <2>1, DepthIs
<1> HIDE DEF x, y, i
<1>5. ~IsRed(r) /\ NoRedRed(r) /\ HasDepth(r, i + 1)
  BY <1>1, <1>2, <1>3, <1>4, BlackNode
<1> QED
  BY <1>4, <1>5 DEF RedBlack, r

\* Add (sglib_rbtree_add, sglib.h:1713-1717) of a key that is not there.
LEMMA AddHolds ==
  ASSUME NEW key \in Keys, NEW value \in Values, NEW n \in Nat, 2 * n + 1 <= Height,
         NEW t \in Trees[n], Ordered(t), key \notin KeysIn(t), RedBlack(t)
  PROVE  LET r == Add(t, Node(key, value))
         IN  /\ r \in Trees[2 * n + 1] /\ EntriesOf(r) = EntriesOf(t) \union {<<key, value>>}
             /\ Ordered(r) /\ RedBlack(r)
<1> DEFINE a == AddRecursive(t, Node(key, value))
           r == Painted(a, BLACK)
           m == 2 * n + 1
<1>1. t \in Tree /\ n \in 0 .. Height /\ m \in 0 .. Height
  BY LevelsOf, Levels
<1>2. a \in Trees[m] /\ AddsTo(t, a, key, value)
  BY <1>1, AddRecursiveAdds
<1> HIDE DEF a, m
<1>3. a # NULL /\ a \in Tree
  BY <1>1, <1>2, SubtreesOf DEF AddsTo
<1>4. "left" \in Side /\ BLACK \in {RED, BLACK}
  BY DEF Side
<1>5. r \in Trees[m] /\ Same(r, a)
  BY <1>1, <1>2, <1>3, <1>4, PaintedIs, PaintedSame
<1>6. RedBlack(r)
  <2>1. PICK h \in Int : HasDepth(t, h)
    BY DEF RedBlack
  <2>2. Grown(a) /\ HasDepth(a, h)
    BY <1>2, <2>1 DEF AddsTo, RedBlack
  <2> QED
    BY <1>3, <2>2, PaintedBlack
<1>7. EntriesOf(r) = EntriesOf(t) \union {<<key, value>>} /\ Ordered(r)
  BY <1>2, <1>5 DEF AddsTo, Same
<1> QED
  BY <1>5, <1>6, <1>7 DEF Add, a, m

\* Overwrite changes the value of the key, and nothing else.
OverwritesIn(t, r, key, value) ==
    /\ (r = NULL <=> t = NULL) /\ (IsRed(r) <=> IsRed(t))
    /\ KeysIn(r) = KeysIn(t)
    /\ Ordered(t) => /\ Ordered(r)
                     /\ key \in KeysIn(t) =>
                          EntriesOf(r) = { e \in EntriesOf(t) : e[1] # key } \union {<<key, value>>}
    /\ NoRedRed(t) => NoRedRed(r)
    /\ \A h \in Int : HasDepth(t, h) => HasDepth(r, h)

\* The entries of an ordered tree that has the key, but for the key's own.
LEMMA OtherEntries ==
  ASSUME NEW t \in Tree, t # NULL, Ordered(t), NEW key \in Keys, NEW side, side = SideOf(t, key)
  PROVE  /\ key = t.key => { e \in EntriesOf(t) : e[1] # key }
                              = EntriesOf(t[side]) \union EntriesOf(t[Other(side)])
         /\ key # t.key => { e \in EntriesOf(t) : e[1] # key }
                              = {<<t.key, t.value>>} \union { e \in EntriesOf(t[side]) : e[1] # key }
                                                     \union EntriesOf(t[Other(side)])
<1> DEFINE s == t[side]
           z == t[Other(side)]
<1>1. side \in Side
  BY SideOfKey
<1>2. s \in Tree /\ z \in Tree /\ t.key \in Int
  BY <1>1, NodeFields
<1>3. EntriesOf(t) = {<<t.key, t.value>>} \union EntriesOf(s) \union EntriesOf(z)
  BY <1>1, Contents
<1>4. <<t.key, t.value>>[1] = t.key
  OBVIOUS
<1>5. CASE key = t.key
  <2>1. /\ \A m \in KeysIn(s) : Before(side, m, t.key)
        /\ \A m \in KeysIn(z) : Before(side, t.key, m)
    BY <1>1, OrderedIs
  <2> HIDE DEF s, z
  <2>2. t.key \notin KeysIn(s) /\ t.key \notin KeysIn(z)
    BY <1>1, <1>2, <2>1, Sides
  <2>3. \A e \in EntriesOf(s) \union EntriesOf(z) : e[1] # key
    BY <1>2, <1>5, <2>2, KeysOfTree
  <2>4. { e \in EntriesOf(t) : e[1] # key } = EntriesOf(s) \union EntriesOf(z)
    BY <1>3, <1>4, <1>5, <2>3
  <2> QED
    BY <1>5, <2>4 DEF s, z
<1>6. CASE key # t.key
  <2>1. key \notin KeysIn(z)
    BY <1>6, KeyOnItsSide
  <2> HIDE DEF s, z
  <2>2. \A e \in EntriesOf(z) : e[1] # key
    BY <1>2, <2>1, KeysOfTree
  <2>3. { e \in EntriesOf(t) : e[1] # key }
          = {<<t.key, t.value>>} \union { e \in EntriesOf(s) : e[1] # key } \union EntriesOf(z)
    BY <1>3, <1>4, <1>6, <2>2
  <2> QED
    BY <1>6, <2>3 DEF s, z
<1> QED
  BY <1>5, <1>6

\* A node has as many black nodes on its paths as another of its color, if their
\* subtrees have.
LEMMA SameColor ==
  ASSUME NEW t \in Tree, t # NULL, NEW r \in Tree, r # NULL, r.color = t.color, NEW side \in Side,
         NoRedRed(t[side]) => NoRedRed(r[side]), IsRed(r[side]) <=> IsRed(t[side]),
         NoRedRed(t[Other(side)]) => NoRedRed(r[Other(side)]),
         IsRed(r[Other(side)]) <=> IsRed(t[Other(side)]),
         \A h \in Int : HasDepth(t[side], h) => HasDepth(r[side], h),
         \A h \in Int : HasDepth(t[Other(side)], h) => HasDepth(r[Other(side)], h)
  PROVE  /\ IsRed(r) <=> IsRed(t)
         /\ NoRedRed(t) => NoRedRed(r)
         /\ \A h \in Int : HasDepth(t, h) => HasDepth(r, h)
<1>1. (IsRed(r) <=> IsRed(t)) /\ Blacks(r) = Blacks(t) /\ Blacks(t) \in {0, 1}
  BY DEF IsRed, Blacks
<1>2. NoRedRed(t) => NoRedRed(r)
  BY <1>1, NoRedRedIs
<1>3. ASSUME NEW h \in Int, HasDepth(t, h) PROVE HasDepth(r, h)
  <2>1. h - Blacks(t) \in Int
    BY <1>1
  <2>2. HasDepth(t[side], h - Blacks(t)) /\ HasDepth(t[Other(side)], h - Blacks(t))
    BY <1>3, DepthIs
  <2>3. HasDepth(r[side], h - Blacks(r)) /\ HasDepth(r[Other(side)], h - Blacks(r))
    BY <1>1, <2>1, <2>2
  <2> QED
    BY <2>3, DepthIs
<1> QED
  BY <1>1, <1>2, <1>3

\* One level of Overwrite.
LEMMA OverwriteStep ==
  ASSUME NEW key \in Keys, NEW value \in Values, NEW k \in Nat, k < Height,
         NEW t \in NodesOver(Trees[k]), NEW side, side = SideOf(t, key),
         NEW s, s = t[side], NEW z, z = t[Other(side)],
         NEW a \in Trees[k], OverwritesIn(s, a, key, value),
         NEW r, r = IF t.key = key THEN [t EXCEPT !.value = value] ELSE [t EXCEPT ![side] = a]
  PROVE  r \in Trees[k + 1] /\ OverwritesIn(t, r, key, value)
<1>1. t \in Tree /\ t # NULL /\ Trees[k] \subseteq Tree
  BY LevelsOf
<1>2. side \in Side /\ s \in Trees[k] /\ z \in Trees[k] /\ s \in Tree /\ z \in Tree /\ a \in Tree
  BY <1>1, SideOfKey DEF NodesOver, Side, Other
<1>3. CASE t.key = key
  <2>1. /\ r \in NodesOver(Trees[k]) /\ r.key = key /\ r.value = value /\ r.color = t.color
        /\ r[side] = s /\ r[Other(side)] = z
    <3>1. r = [t EXCEPT !.value = value]
      BY <1>3
    <3> QED
      BY <1>2, <1>3, <3>1 DEF NodesOver, Side, Other
  <2>2. r \in Trees[k + 1] /\ r \in Tree /\ r # NULL
    BY <2>1, LevelsOf
  <2>3. /\ IsRed(r) <=> IsRed(t)
        /\ NoRedRed(t) => NoRedRed(r)
        /\ \A h \in Int : HasDepth(t, h) => HasDepth(r, h)
    <3>1. r[side] = t[side] /\ r[Other(side)] = t[Other(side)]
      BY <2>1
    <3> QED
      BY <1>1, <1>2, <2>1, <2>2, <3>1, SameColor, ZenonT(60)
  <2>4. KeysIn(r) = KeysIn(t)
    <3>1. KeysIn(t) = {t.key} \union KeysIn(s) \union KeysIn(z)
      BY <1>1, <1>2, Contents
    <3>2. KeysIn(r) = {r.key} \union KeysIn(s) \union KeysIn(z)
      <4>1. \A p \in Tree : p # NULL =>
              KeysIn(p) = {p.key} \union KeysIn(p[side]) \union KeysIn(p[Other(side)])
        BY <1>2, Contents
      <4>2. KeysIn(r) = {r.key} \union KeysIn(r[side]) \union KeysIn(r[Other(side)])
        BY <2>2, <4>1, Zenon
      <4> QED
        BY <2>1, <4>2
    <3> QED
      BY <1>3, <2>1, <3>1, <3>2
  <2>5. ASSUME Ordered(t) PROVE Ordered(r)
    <3>1. /\ Ordered(s) /\ Ordered(z)
          /\ \A m \in KeysIn(s) : Before(side, m, t.key)
          /\ \A m \in KeysIn(z) : Before(side, t.key, m)
      BY <1>1, <1>2, <2>5, OrderedIs
    <3>2. Ordered(r) <=> /\ Ordered(r[side]) /\ Ordered(r[Other(side)])
                         /\ \A m \in KeysIn(r[side]) : Before(side, m, r.key)
                         /\ \A m \in KeysIn(r[Other(side)]) : Before(side, r.key, m)
      BY <1>2, <2>2, OrderedIs
    <3> QED
      BY <1>3, <2>1, <3>1, <3>2
  <2>6. ASSUME Ordered(t)
        PROVE  EntriesOf(r) = { e \in EntriesOf(t) : e[1] # key } \union {<<key, value>>}
    <3>1. { e \in EntriesOf(t) : e[1] # key } = EntriesOf(s) \union EntriesOf(z)
      BY <1>1, <1>3, <2>6, OtherEntries
    <3>2. EntriesOf(r) = {<<r.key, r.value>>} \union EntriesOf(s) \union EntriesOf(z)
      <4>1. \A p \in Tree : p # NULL =>
              EntriesOf(p) = {<<p.key, p.value>>} \union EntriesOf(p[side])
                                                  \union EntriesOf(p[Other(side)])
        BY <1>2, Contents
      <4>2. EntriesOf(r) = {<<r.key, r.value>>} \union EntriesOf(r[side]) \union EntriesOf(r[Other(side)])
        BY <2>2, <4>1, Zenon
      <4> QED
        BY <2>1, <4>2
    <3> QED
      BY <2>1, <3>1, <3>2
  <2> QED
    BY <1>1, <2>2, <2>3, <2>4, <2>5, <2>6 DEF OverwritesIn
<1>4. CASE t.key # key
  <2>1. /\ r \in NodesOver(Trees[k]) /\ r.key = t.key /\ r.value = t.value /\ r.color = t.color
        /\ r[side] = a /\ r[Other(side)] = z
    <3>1. r = [t EXCEPT ![side] = a]
      BY <1>4
    <3> QED
      BY <1>2, <3>1 DEF NodesOver, Side, Other
  <2>2. r \in Trees[k + 1] /\ r \in Tree /\ r # NULL
    BY <2>1, LevelsOf
  <2>3. /\ IsRed(r) <=> IsRed(t)
        /\ NoRedRed(t) => NoRedRed(r)
        /\ \A h \in Int : HasDepth(t, h) => HasDepth(r, h)
    <3>1. /\ NoRedRed(t[side]) => NoRedRed(r[side])
          /\ IsRed(r[side]) <=> IsRed(t[side])
          /\ \A h \in Int : HasDepth(t[side], h) => HasDepth(r[side], h)
          /\ r[Other(side)] = t[Other(side)]
          /\ r.color = t.color
      BY <2>1 DEF OverwritesIn
    <3>2. /\ NoRedRed(t[Other(side)]) => NoRedRed(r[Other(side)])
          /\ IsRed(r[Other(side)]) <=> IsRed(t[Other(side)])
          /\ \A h \in Int : HasDepth(t[Other(side)], h) => HasDepth(r[Other(side)], h)
      BY <3>1
    <3>3. ASSUME NEW p \in Tree, p = r PROVE /\ IsRed(p) <=> IsRed(t)
                                             /\ NoRedRed(t) => NoRedRed(p)
                                             /\ \A h \in Int : HasDepth(t, h) => HasDepth(p, h)
      <4>1. /\ p # NULL /\ p.color = t.color
            /\ NoRedRed(t[side]) => NoRedRed(p[side])
            /\ IsRed(p[side]) <=> IsRed(t[side])
            /\ \A h \in Int : HasDepth(t[side], h) => HasDepth(p[side], h)
            /\ NoRedRed(t[Other(side)]) => NoRedRed(p[Other(side)])
            /\ IsRed(p[Other(side)]) <=> IsRed(t[Other(side)])
            /\ \A h \in Int : HasDepth(t[Other(side)], h) => HasDepth(p[Other(side)], h)
        BY <2>2, <3>1, <3>2, <3>3
      <4>2. side \in Side
        BY <1>2
      <4> QED
        BY <1>1, <4>1, <4>2, SameColor
    <3> QED
      BY <2>2, <3>3
  <2>4. KeysIn(r) = KeysIn(t)
    <3>1. KeysIn(t) = {t.key} \union KeysIn(s) \union KeysIn(z)
      BY <1>1, <1>2, Contents
    <3>2. KeysIn(r) = {r.key} \union KeysIn(a) \union KeysIn(z)
      <4>1. \A p \in Tree : p # NULL =>
              KeysIn(p) = {p.key} \union KeysIn(p[side]) \union KeysIn(p[Other(side)])
        BY <1>2, Contents
      <4>2. KeysIn(r) = {r.key} \union KeysIn(r[side]) \union KeysIn(r[Other(side)])
        BY <2>2, <4>1, Zenon
      <4> QED
        BY <2>1, <4>2
    <3> QED
      BY <2>1, <3>1, <3>2 DEF OverwritesIn
  <2>5. ASSUME Ordered(t) PROVE Ordered(r)
    <3>1. /\ Ordered(s) /\ Ordered(z)
          /\ \A m \in KeysIn(s) : Before(side, m, t.key)
          /\ \A m \in KeysIn(z) : Before(side, t.key, m)
      BY <1>1, <1>2, <2>5, OrderedIs
    <3>2. Ordered(r) <=> /\ Ordered(r[side]) /\ Ordered(r[Other(side)])
                         /\ \A m \in KeysIn(r[side]) : Before(side, m, r.key)
                         /\ \A m \in KeysIn(r[Other(side)]) : Before(side, r.key, m)
      BY <1>2, <2>2, OrderedIs
    <3>3. Ordered(a) /\ KeysIn(a) = KeysIn(s)
      BY <3>1 DEF OverwritesIn
    <3> QED
      BY <2>1, <3>1, <3>2, <3>3
  <2>6. ASSUME Ordered(t), key \in KeysIn(t)
        PROVE  EntriesOf(r) = { e \in EntriesOf(t) : e[1] # key } \union {<<key, value>>}
    <3>1. { e \in EntriesOf(t) : e[1] # key }
            = {<<t.key, t.value>>} \union { e \in EntriesOf(s) : e[1] # key } \union EntriesOf(z)
      BY <1>1, <1>4, <2>6, OtherEntries
    <3>2. EntriesOf(r) = {<<r.key, r.value>>} \union EntriesOf(a) \union EntriesOf(z)
      <4>1. \A p \in Tree : p # NULL =>
              EntriesOf(p) = {<<p.key, p.value>>} \union EntriesOf(p[side])
                                                  \union EntriesOf(p[Other(side)])
        BY <1>2, Contents
      <4>2. EntriesOf(r) = {<<r.key, r.value>>} \union EntriesOf(r[side]) \union EntriesOf(r[Other(side)])
        BY <2>2, <4>1, Zenon
      <4> QED
        BY <2>1, <4>2
    <3>3. Ordered(s) /\ key \in KeysIn(s)
      BY <1>1, <1>4, <2>6, KeyOnItsSide
    <3>4. EntriesOf(a) = { e \in EntriesOf(s) : e[1] # key } \union {<<key, value>>}
      BY <3>3 DEF OverwritesIn
    <3> QED
      BY <2>1, <3>1, <3>2, <3>4
  <2> QED
    BY <1>1, <2>2, <2>3, <2>4, <2>5, <2>6 DEF OverwritesIn
<1> QED
  BY <1>3, <1>4

\* Overwrite (rbtree.c:37-39) at every level.
LEMMA OverwriteHolds ==
  ASSUME NEW key \in Keys, NEW value \in Values
  PROVE  \A t \in Tree : \A n \in 0 .. Height : t \in Trees[n] =>
            /\ Overwrite(t, key, value) \in Trees[n]
            /\ OverwritesIn(t, Overwrite(t, key, value), key, value)
<1> DEFINE r(t) == Overwrite(t, key, value)
           Ok(t, n) == r(t) \in Trees[n] /\ OverwritesIn(t, r(t), key, value)
           S == { t \in Tree : \A n \in 0 .. Height : t \in Trees[n] => Ok(t, n) }
<1>1. NULL \in S
  <2>1. r(NULL) = NULL
    BY OverwriteIs
  <2>2. OverwritesIn(NULL, NULL, key, value)
    BY Empty DEF OverwritesIn
  <2> HIDE DEF r
  <2> QED
    BY <2>1, <2>2, Empty
<1>2. ASSUME NEW t \in Tree \ {NULL}, t.left \in S, t.right \in S PROVE t \in S
  <2> SUFFICES ASSUME NEW n \in 0 .. Height, t \in Trees[n] PROVE Ok(t, n)
    OBVIOUS
  <2> DEFINE side == SideOf(t, key)
             s == t[side]
             a == r(s)
  <2>1. side \in Side /\ s \in S
    BY <1>2, OnSide
  <2>2. t \in NodesOver(Trees[n - 1]) /\ n > 0
    BY SubtreesOf
  <2>3. n - 1 \in Nat /\ n - 1 < Height /\ (n - 1) + 1 = n /\ s \in Trees[n - 1] /\ n - 1 \in 0 .. Height
    BY <2>1, <2>2, Lower, Levels
  <2>4. r(t) = IF t.key = key THEN [t EXCEPT !.value = value] ELSE [t EXCEPT ![side] = a]
    BY OverwriteIs
  <2>5. Ok(s, n - 1)
    <3> HIDE DEF Ok, side
    <3> QED
      BY <2>1, <2>3
  <2> HIDE DEF r
  <2>6. a \in Trees[n - 1] /\ OverwritesIn(s, a, key, value)
    BY <2>5
  <2> HIDE DEF a
  <2>7. r(t) \in Trees[(n - 1) + 1] /\ OverwritesIn(t, r(t), key, value)
    BY <2>2, <2>3, <2>4, <2>6, OverwriteStep
  <2> QED
    BY <2>3, <2>7
<1> HIDE DEF S
<1>3. Tree \subseteq S
  BY <1>1, <1>2, TreeInduction
<1> QED
  BY <1>3 DEF S

-----------------------------------------------------------------------------
(* The repair of a deletion.                                               *)

\* A node with other subtrees, in its own color.
LEMMA SubtreesSet ==
  ASSUME NEW n \in Tree, n # NULL, NEW side \in Side, NEW o, o = Other(side),
         NEW k \in Nat, k < Height, NEW x \in Trees[k], NEW y \in Trees[k]
  PROVE  /\ [n EXCEPT ![side] = x, ![o] = y] \in Trees[k + 1]
         /\ NodeIs([n EXCEPT ![side] = x, ![o] = y], n, n.color, side, x, y)
<1>1. n \in NodesOver(Tree)
  BY NodeFields
<1>2. ASSUME NEW r, r = [n EXCEPT ![side] = x, ![o] = y]
      PROVE  r \in Trees[k + 1] /\ NodeIs(r, n, n.color, side, x, y)
  <2>1. /\ r \in NodesOver(Trees[k])
        /\ r.key = n.key /\ r.value = n.value /\ r.color = n.color /\ r[side] = x /\ r[o] = y
    BY <1>1, <1>2 DEF NodesOver, Side, Other
  <2> QED
    BY <2>1, LevelsOf DEF NodeIs
<1> QED
  BY <1>2

\* Trees that hold the same as others that hold the same.
LEMMA SameAgain ==
  ASSUME NEW x, NEW y, NEW z, Same(x, y), Same(y, z)
  PROVE  Same(x, z)
BY DEF Same

\* The subtrees of a black node.
LEMMA UnderBlack ==
  ASSUME NEW t \in Tree, t # NULL, ~IsRed(t), NoRedRed(t), NEW h \in Int, HasDepth(t, h + 1),
         NEW side \in Side
  PROVE  /\ NoRedRed(t[side]) /\ NoRedRed(t[Other(side)])
         /\ HasDepth(t[side], h) /\ HasDepth(t[Other(side)], h)
<1>1. NodeIs(t, t, BLACK, side, t[side], t[Other(side)])
  BY Itself DEF IsRed
<1> QED
  BY <1>1, BlackNode

\* The subtrees of a red node.
LEMMA UnderRed ==
  ASSUME NEW t \in Tree, IsRed(t), NoRedRed(t), NEW h \in Int, HasDepth(t, h), NEW side \in Side
  PROVE  /\ t # NULL /\ NoRedRed(t[side]) /\ NoRedRed(t[Other(side)])
         /\ ~IsRed(t[side]) /\ ~IsRed(t[Other(side)])
         /\ HasDepth(t[side], h) /\ HasDepth(t[Other(side)], h)
<1>1. NodeIs(t, t, RED, side, t[side], t[Other(side)]) /\ t # NULL
  BY Itself DEF IsRed
<1> QED
  BY <1>1, RedNode

\* A tree is at least as deep as the empty one.
LEMMA Deep ==
  ASSUME NEW t \in Tree, NEW h, HasDepth(t, h)
  PROVE  h \in Nat /\ (h # 0 => t # NULL)
BY DepthsOfTree, Empty DEF HasDepth

\* The paths through the subtree of a on a side have h black nodes, those
\* through the other have one more.
Short(a, side, h) ==
    /\ NoRedRed(a[side]) /\ ~IsRed(a[side]) /\ HasDepth(a[side], h)
    /\ NoRedRed(a[Other(side)]) /\ HasDepth(a[Other(side)], h + 1)
    /\ IsRed(a) => ~IsRed(a[Other(side)])

\* A tree that holds what a held, its paths all as deep as the deeper ones were.
Repaired(r, a, side) ==
    /\ r # NULL /\ Same(r, a)
    /\ \A h \in Int : Short(a, side, h) =>
          NoRedRed(r) /\ (IsRed(r) => IsRed(a)) /\ HasDepth(r, (h + 1) + Blacks(a))

\* The red sibling has no subtree on the side of a.
LEMMA RepairedNull ==
  ASSUME NEW m \in Nat, m + 1 < Height, NEW a \in Tree, a # NULL, NEW side \in Side,
         NEW sib, sib = Other(side), NEW x, x = a[side], x \in Trees[m], NEW b, b = a[sib], b \in Trees[m],
         b # NULL, IsRed(b), b[side] = NULL,
         NEW r, r = [b EXCEPT !.color = BLACK, ![side] = [a EXCEPT ![sib] = NULL]]
  PROVE  r \in Trees[m + 2] /\ Repaired(r, a, side)
<1>1. /\ sib \in Side /\ Other(sib) = side /\ m < Height /\ m \in 0 .. Height
      /\ m + 1 \in Nat /\ (m + 1) + 1 = m + 2 /\ BLACK \in {RED, BLACK} /\ RED \in {RED, BLACK}
  BY Sides, Levels
<1>2. /\ x \in Tree /\ b \in Tree /\ b[side] \in Tree /\ b[sib] \in Tree /\ b[sib] \in Trees[m]
      /\ NULL \in Trees[m]
  BY <1>1, NodeFields, Lower
<1> DEFINE low == [a EXCEPT ![sib] = NULL]
<1>3. low \in Trees[m + 1] /\ NodeIs(low, a, a.color, sib, NULL, x)
  BY <1>1, <1>2, OneSet
<1> HIDE DEF low
<1>4. r = [b EXCEPT !.color = BLACK, ![side] = low]
  BY DEF low
<1>5. Trees[m] \subseteq Trees[m + 1]
  BY <1>1, LevelsOf
<1>6. r \in Trees[m + 2] /\ NodeIs(r, b, BLACK, side, low, b[sib])
  <2>1. b[Other(side)] \in Trees[m + 1] /\ m + 1 < Height
    BY <1>2, <1>5
  <2>2. /\ [b EXCEPT !.color = BLACK, ![side] = low] \in Trees[(m + 1) + 1]
        /\ NodeIs([b EXCEPT !.color = BLACK, ![side] = low], b, BLACK, side, low, b[Other(side)])
    BY <1>1, <1>2, <1>3, <2>1, OneSet
  <2> QED
    BY <1>1, <1>4, <2>2
<1>7. NodeIs(r, b, BLACK, sib, b[sib], low) /\ r # NULL
  BY <1>1, <1>6 DEF NodeIs
<1>8. \A y : Same(y, y)
  BY DEF Same
<1>9. a.color \in {RED, BLACK}
  BY NodeFields
<1>10. Same(r, a)
  <2>1. SingleTurn(a, sib, side, b, b[sib], NULL, x, low, r)
    BY <1>1, <1>3, <1>7, <1>8, <1>9 DEF SingleTurn
  <2> QED
    BY <1>1, <1>2, Empty, <2>1, SingleHolds
<1>11. ASSUME NEW h \in Int, Short(a, side, h) PROVE FALSE
  <2>1. HasDepth(x, h) /\ HasDepth(b, h + 1) /\ NoRedRed(b)
    BY <1>11 DEF Short
  <2>2. HasDepth(NULL, h + 1) /\ h \in Nat
    BY <1>2, <2>1, UnderRed, Deep
  <2> QED
    BY <2>2, Empty
<1> QED
  BY <1>6, <1>7, <1>10, <1>11 DEF Repaired

\* Sides and levels in what follows.
LEMMA Room ==
  ASSUME NEW m \in Nat, m + 1 < Height, NEW side \in Side, NEW sib, sib = Other(side)
  PROVE  /\ sib \in Side /\ Other(sib) = side /\ m < Height /\ m \in 0 .. Height
         /\ m + 1 \in Nat /\ (m + 1) + 1 = m + 2 /\ BLACK \in {RED, BLACK} /\ RED \in {RED, BLACK}
         /\ Trees[m] \subseteq Trees[m + 1] /\ Trees[m + 1] \subseteq Trees[m + 2]
         /\ Trees[m + 2] \subseteq Tree
<1>1. /\ sib \in Side /\ Other(sib) = side /\ m < Height /\ m \in 0 .. Height
      /\ m + 1 \in Nat /\ (m + 1) + 1 = m + 2 /\ BLACK \in {RED, BLACK} /\ RED \in {RED, BLACK}
  BY Sides, Levels
<1> QED
  BY <1>1, LevelsOf

\* A red sibling, whose subtree c on the side of a has no red child.
LEMMA RepairedPainted ==
  ASSUME NEW m \in Nat, m + 1 < Height, NEW a \in Tree, a # NULL, NEW side \in Side,
         NEW sib, sib = Other(side), NEW x, x = a[side], x \in Trees[m], NEW b, b = a[sib], b \in Trees[m],
         b # NULL, IsRed(b), NEW c, c = b[side], c # NULL, ~IsRed(c[side]), ~IsRed(c[sib]),
         NEW r, r = [b EXCEPT !.color = BLACK, ![side] = [a EXCEPT ![sib] = Painted(c, RED)]]
  PROVE  r \in Trees[m + 2] /\ Repaired(r, a, side)
<1>1. /\ sib \in Side /\ Other(sib) = side /\ m < Height /\ m \in 0 .. Height
      /\ m + 1 \in Nat /\ (m + 1) + 1 = m + 2 /\ BLACK \in {RED, BLACK} /\ RED \in {RED, BLACK}
      /\ Trees[m] \subseteq Trees[m + 1]
  BY Room
<1>2. /\ x \in Tree /\ b \in Tree /\ c \in Tree /\ b[sib] \in Tree /\ b[sib] \in Trees[m]
      /\ c \in Trees[m]
  BY <1>1, NodeFields, Lower
<1> DEFINE c2 == Painted(c, RED)
<1>3. /\ c2 \in Trees[m] /\ c2 \in Tree /\ Same(c2, c)
      /\ NodeIs(c2, c, RED, side, c[side], c[Other(side)])
  BY <1>1, <1>2, PaintedIs, PaintedSame, SMTT(30)
<1> DEFINE low == [a EXCEPT ![sib] = c2]
<1>4. low \in Trees[m + 1] /\ NodeIs(low, a, a.color, sib, c2, x)
  <2> HIDE DEF c2
  <2> QED
    BY <1>1, <1>2, <1>3, OneSet
<1>5. r = [b EXCEPT !.color = BLACK, ![side] = low]
  OBVIOUS
<1> HIDE DEF low, c2
<1>6. r \in Trees[m + 2] /\ NodeIs(r, b, BLACK, side, low, b[sib])
  <2>1. b[Other(side)] \in Trees[m + 1] /\ m + 1 < Height
    BY <1>1, <1>2, SMTT(30)
  <2>2. /\ [b EXCEPT !.color = BLACK, ![side] = low] \in Trees[(m + 1) + 1]
        /\ NodeIs([b EXCEPT !.color = BLACK, ![side] = low], b, BLACK, side, low, b[Other(side)])
    BY <1>1, <1>2, <1>4, <2>1, OneSet
  <2> QED
    BY <1>1, <1>5, <2>2
<1>7. NodeIs(r, b, BLACK, sib, b[sib], low) /\ r # NULL
  BY <1>1, <1>6 DEF NodeIs
<1>8. \A y : Same(y, y)
  BY DEF Same
<1>9. a.color \in {RED, BLACK}
  BY NodeFields
<1>10. Same(r, a)
  <2>1. SingleTurn(a, sib, side, b, b[sib], c2, x, low, r)
    BY <1>1, <1>3, <1>4, <1>7, <1>8, <1>9 DEF SingleTurn
  <2> QED
    BY <1>1, <1>2, <1>3, <2>1, SingleHolds
<1>11. ASSUME NEW h \in Int, Short(a, side, h)
       PROVE  ~IsRed(r) /\ NoRedRed(r) /\ HasDepth(r, (h + 1) + Blacks(a))
  <2>1. /\ NoRedRed(x) /\ ~IsRed(x) /\ HasDepth(x, h) /\ HasDepth(b, h + 1) /\ NoRedRed(b)
        /\ ~IsRed(a) /\ h + 1 \in Int
    BY <1>11 DEF Short
  <2>2. /\ NoRedRed(c) /\ ~IsRed(c) /\ HasDepth(c, h + 1)
        /\ NoRedRed(b[sib]) /\ HasDepth(b[sib], h + 1)
    BY <1>2, <2>1, UnderRed
  <2>3. /\ NoRedRed(c[side]) /\ NoRedRed(c[Other(side)])
        /\ HasDepth(c[side], h) /\ HasDepth(c[Other(side)], h)
    BY <1>2, <1>11, <2>2, UnderBlack
  <2>4. NoRedRed(c2) /\ HasDepth(c2, h)
    BY <1>3, <1>11, <2>3, RedNode
  <2>5. NodeIs(low, a, BLACK, sib, c2, x)
    BY <1>4, <1>9, <2>1 DEF IsRed
  <2>6. NoRedRed(low) /\ HasDepth(low, h + 1)
    BY <1>1, <2>1, <2>4, <2>5, BlackNode
  <2>7. ~IsRed(r) /\ NoRedRed(r) /\ HasDepth(r, (h + 1) + 1)
    BY <1>1, <1>7, <2>1, <2>2, <2>6, BlackNode
  <2> QED
    BY <2>1, <2>7 DEF Blacks
<1> QED
  BY <1>6, <1>7, <1>10, <1>11 DEF Repaired

\* A red sibling, whose subtree c on the side of a has a red child on the other.
LEMMA RepairedDouble ==
  ASSUME NEW m \in Nat, m + 1 < Height, NEW a \in Tree, a # NULL, NEW side \in Side,
         NEW sib, sib = Other(side), NEW x, x = a[side], x \in Trees[m], NEW b, b = a[sib], b \in Trees[m],
         b # NULL, IsRed(b), NEW c, c = b[side], c # NULL, NEW d, d = c[side], ~IsRed(d), IsRed(c[sib]),
         NEW r, r = [c EXCEPT ![sib]  = [b EXCEPT ![side] = Painted(c[sib], BLACK)],
                              ![side] = [a EXCEPT ![sib] = d]]
  PROVE  r \in Trees[m + 2] /\ Repaired(r, a, side)
<1>1. /\ sib \in Side /\ Other(sib) = side /\ m < Height /\ m \in 0 .. Height
      /\ m + 1 \in Nat /\ (m + 1) + 1 = m + 2 /\ BLACK \in {RED, BLACK} /\ RED \in {RED, BLACK}
      /\ Trees[m] \subseteq Trees[m + 1]
  BY Room
<1>2. /\ x \in Tree /\ b \in Tree /\ c \in Tree /\ b[sib] \in Tree /\ b[sib] \in Trees[m]
      /\ c \in Trees[m] 
  BY <1>1, NodeFields, Lower
<1> DEFINE e == c[sib]
<1>3. d \in Trees[m] /\ e \in Trees[m] /\ d \in Tree /\ e \in Tree /\ e # NULL
  BY <1>1, <1>2, NodeFields, Lower DEF IsRed
<1>4. e = c[Other(side)] /\ IsRed(e)
  OBVIOUS
<1> DEFINE e2 == Painted(e, BLACK)
<1>5. e2 \in Trees[m] /\ e2 \in Tree /\ Same(e2, e) /\ NodeIs(e2, e, BLACK, side, e[side], e[Other(side)])
  <2> HIDE DEF e
  <2> QED
    BY <1>1, <1>3, PaintedIs, PaintedSame, SMTT(30)
<1> DEFINE low == [a EXCEPT ![sib] = d]
<1>6. low \in Trees[m + 1] /\ NodeIs(low, a, a.color, sib, d, x)
  <2> HIDE DEF e2
  <2> QED
    BY <1>1, <1>2, <1>3, OneSet
<1> DEFINE near == [b EXCEPT ![side] = e2]
<1>7. near \in Trees[m + 1] /\ NodeIs(near, b, b.color, side, e2, b[sib])
  <2> HIDE DEF e2
  <2> QED
    BY <1>1, <1>2, <1>5, OneSet
<1>8. r = [c EXCEPT ![sib] = near, ![side] = low]
  OBVIOUS
<1> HIDE DEF e, e2, low, near
<1>9. r \in Trees[m + 2] /\ NodeIs(r, c, c.color, sib, near, low)
  <2>1. /\ [c EXCEPT ![sib] = near, ![side] = low] \in Trees[(m + 1) + 1]
        /\ NodeIs([c EXCEPT ![sib] = near, ![side] = low], c, c.color, sib, near, low)
    BY <1>1, <1>2, <1>6, <1>7, SubtreesSet
  <2> QED
    BY <1>1, <1>8, <2>1
<1> HIDE <1>8
<1>10. NodeIs(near, b, b.color, sib, b[sib], e2) /\ r # NULL
  BY <1>1, <1>7, <1>9 DEF NodeIs
<1>11. \A y : Same(y, y)
  BY DEF Same
<1>12. a.color \in {RED, BLACK} /\ b.color \in {RED, BLACK} /\ c.color \in {RED, BLACK}
  BY <1>2, NodeFields
<1>13. Same(e2, c[sib])
  BY <1>1, <1>4, <1>5
<1>14. Same(r, a)
  <2>1. sib \in Side /\ side = Other(sib) /\ b = a[sib] /\ c = b[side] /\ b # NULL /\ c # NULL
    BY <1>1
  <2>2. b[sib] \in Tree /\ e2 \in Tree /\ d \in Tree /\ x \in Tree
    BY <1>2, <1>3, <1>5
  <2>3. Same(b[sib], b[sib]) /\ Same(e2, c[sib]) /\ Same(d, c[side]) /\ Same(x, a[side])
    BY <1>11, <1>13
  <2>4. /\ NodeIs(low, a, a.color, sib, d, x) /\ NodeIs(near, b, b.color, sib, b[sib], e2)
        /\ NodeIs(r, c, c.color, sib, near, low)
    BY <1>6, <1>9, <1>10, SMTT(30)
  <2>5. DoubleTurn(a, sib, side, b, c, b[sib], e2, d, x, low, near, r)
    BY <1>12, <2>1, <2>3, <2>4 DEF DoubleTurn
  <2> QED
    BY <2>1, <2>2, <2>5, DoubleHolds
<1>15. ASSUME NEW h \in Int, Short(a, side, h)
       PROVE  ~IsRed(r) /\ NoRedRed(r) /\ HasDepth(r, (h + 1) + Blacks(a))
  <2>1. /\ NoRedRed(x) /\ ~IsRed(x) /\ HasDepth(x, h) /\ HasDepth(b, h + 1) /\ NoRedRed(b)
        /\ ~IsRed(a) /\ h + 1 \in Int
    BY <1>15 DEF Short
  <2>2. /\ NoRedRed(c) /\ ~IsRed(c) /\ HasDepth(c, h + 1)
        /\ NoRedRed(b[sib]) /\ HasDepth(b[sib], h + 1) /\ ~IsRed(b[sib])
    BY <1>2, <2>1, UnderRed
  <2>3. NoRedRed(d) /\ NoRedRed(e) /\ HasDepth(d, h) /\ HasDepth(e, h)
    BY <1>2, <1>4, <1>15, <2>2, UnderBlack
  <2>4. /\ NoRedRed(e[side]) /\ NoRedRed(e[Other(side)])
        /\ HasDepth(e[side], h) /\ HasDepth(e[Other(side)], h)
    BY <1>3, <1>4, <1>15, <2>3, UnderRed
  <2>5. NoRedRed(e2) /\ ~IsRed(e2) /\ HasDepth(e2, h + 1)
    BY <1>5, <1>15, <2>4, BlackNode
  <2>6. NodeIs(low, a, BLACK, sib, d, x) /\ NodeIs(near, b, RED, sib, b[sib], e2)
        /\ NodeIs(r, c, BLACK, sib, near, low)
    BY <1>6, <1>9, <1>10, <1>12, <2>1, <2>2 DEF IsRed
  <2>7. NoRedRed(low) /\ HasDepth(low, h + 1)
    BY <1>1, <1>15, <2>1, <2>3, <2>6, BlackNode
  <2>8. NoRedRed(near) /\ HasDepth(near, h + 1)
    BY <1>1, <2>1, <2>2, <2>5, <2>6, RedNode
  <2>9. ~IsRed(r) /\ NoRedRed(r) /\ HasDepth(r, (h + 1) + 1)
    BY <1>1, <2>1, <2>6, <2>7, <2>8, BlackNode, SMTT(30)
  <2> QED
    BY <2>1, <2>9 DEF Blacks
<1> QED
  BY <1>9, <1>10, <1>14, <1>15 DEF Repaired

\* A red sibling, whose subtree c on the side of a has a red child d on that side.
LEMMA RepairedTriple ==
  ASSUME NEW m \in Nat, m + 1 < Height, NEW a \in Tree, a # NULL, NEW side \in Side,
         NEW sib, sib = Other(side), NEW x, x = a[side], x \in Trees[m], NEW b, b = a[sib], b \in Trees[m],
         b # NULL, IsRed(b), NEW c, c = b[side], c # NULL, NEW d, d = c[side], IsRed(d),
         NEW r, r = [d EXCEPT !.color = BLACK,
                              ![sib]  = [b EXCEPT ![side] = [c EXCEPT ![side] = d[sib]]],
                              ![side] = [a EXCEPT ![sib] = d[side]]]
  PROVE  r \in Trees[m + 2] /\ Repaired(r, a, side)
<1>1. /\ sib \in Side /\ Other(sib) = side /\ m < Height /\ m \in 0 .. Height
      /\ m + 1 \in Nat /\ (m + 1) + 1 = m + 2 /\ BLACK \in {RED, BLACK} /\ RED \in {RED, BLACK}
      /\ Trees[m] \subseteq Trees[m + 1] /\ Trees[m + 2] \subseteq Tree
  BY Room
<1>2. /\ x \in Tree /\ b \in Tree /\ c \in Tree /\ b[sib] \in Tree /\ b[sib] \in Trees[m] /\ d # NULL
      /\ c[sib] \in Tree /\ d \in Tree /\ d[side] \in Tree /\ d[sib] \in Tree
  BY <1>1, NodeFields, Lower DEF IsRed
\* Levels, as far down as the subtrees of d.
<1> DEFINE q == m - 2
<1>3. /\ q \in Nat /\ q < Height /\ q + 1 \in Nat /\ q + 1 < Height /\ (q + 1) + 1 = m
      /\ d \in Trees[q] /\ c[sib] \in Trees[q] /\ d[side] \in Trees[q] /\ d[sib] \in Trees[q]
      /\ Trees[q] \subseteq Trees[q + 1]
  <2>1. m - 1 \in Nat /\ m - 1 < Height /\ c \in Trees[m - 1]
    BY <1>1, <1>2, Lower
  <2>2. m - 1 \in 0 .. Height
    BY <2>1, Levels
  <2>3. /\ (m - 1) - 1 \in Nat /\ (m - 1) - 1 < Height
        /\ d \in Trees[(m - 1) - 1] /\ c[sib] \in Trees[(m - 1) - 1]
    BY <1>1, <1>2, <2>1, <2>2, Lower
  <2>4. (m - 1) - 1 = q /\ q + 1 = m - 1 /\ (q + 1) + 1 = m
    OBVIOUS
  <2> HIDE DEF q
  <2>5. q \in Nat /\ q < Height /\ q \in 0 .. Height /\ d \in Trees[q] /\ c[sib] \in Trees[q]
    BY <2>3, <2>4, Levels
  <2>6. d[side] \in Trees[q] /\ d[sib] \in Trees[q]
    BY <1>1, <1>2, <2>5, Lower
  <2>7. Trees[q] \subseteq Trees[q + 1]
    BY <2>5, LevelsOf
  <2> QED
    BY <2>1, <2>4, <2>5, <2>6, <2>7
<1> HIDE DEF q
<1>4. Trees[q + 1] \subseteq Trees[m]
  BY <1>3, LevelsOf, SMTT(30)
\* The nodes of the new tree.
<1> DEFINE c3 == [c EXCEPT ![side] = d[sib]]
<1>5. c3 \in Trees[q + 1] /\ NodeIs(c3, c, c.color, side, d[sib], c[sib])
  BY <1>1, <1>2, <1>3, OneSet
<1> HIDE DEF c3
<1> DEFINE b3 == [b EXCEPT ![side] = c3]
<1>6. b3 \in Trees[m + 1] /\ NodeIs(b3, b, b.color, side, c3, b[sib])
  BY <1>1, <1>2, <1>4, <1>5, OneSet, ZenonT(60)
<1> HIDE DEF b3
<1> DEFINE low == [a EXCEPT ![sib] = d[side]]
<1>7. low \in Trees[m + 1] /\ NodeIs(low, a, a.color, sib, d[side], x)
  BY <1>1, <1>2, <1>3, <1>4, OneSet
<1> HIDE DEF low
<1>8. r \in Trees[m + 2] /\ NodeIs(r, d, BLACK, sib, b3, low)
  <2>1. r = [d EXCEPT !.color = BLACK, ![sib] = b3, ![side] = low]
    BY DEF low, b3, c3
  <2>2. /\ [d EXCEPT !.color = BLACK, ![sib] = b3, ![side] = low] \in Trees[(m + 1) + 1]
        /\ NodeIs([d EXCEPT !.color = BLACK, ![sib] = b3, ![side] = low], d, BLACK, sib, b3, low)
    BY <1>1, <1>2, <1>6, <1>7, BothSet
  <2> QED
    BY <1>1, <2>1, <2>2
<1>9. /\ a.color \in {RED, BLACK} /\ b.color \in {RED, BLACK} /\ c.color \in {RED, BLACK}
      /\ d.color \in {RED, BLACK}
  BY <1>2, NodeFields
<1>10. \A y : Same(y, y)
  BY DEF Same
\* They hold the same as a would with d in the place of c.
<1> DEFINE d2 == [d EXCEPT ![sib] = c3]
<1>11. d2 \in Trees[m] /\ NodeIs(d2, d, d.color, sib, c3, d[side])
  <2>1. d[side] \in Trees[q + 1]
    BY <1>3, SMTT(30)
  <2>2. /\ [d EXCEPT ![sib] = c3] \in Trees[(q + 1) + 1]
        /\ NodeIs([d EXCEPT ![sib] = c3], d, d.color, sib, c3, d[Other(sib)])
    BY <1>1, <1>2, <1>3, <1>5, <2>1, OneSet
  <2> QED
    BY <1>1, <1>3, <2>2
<1> HIDE DEF d2
<1>12. NodeIs(d2, d, d.color, side, d[side], c3)
  BY <1>1, <1>11 DEF NodeIs
<1>13. d2 \in Tree /\ Same(d2, c)
  <2>1. d2 \in Tree /\ d # NULL /\ c # NULL /\ c \in Tree
    BY <1>2, <1>12 DEF NodeIs
  <2>2. Same(d[side], d[side]) /\ Same(d[sib], d[sib]) /\ Same(c[sib], c[sib])
    BY <1>10, SMTT(30)
  <2>3. SingleTurn(c, side, sib, d, d[side], d[sib], c[sib], c3, d2)
    BY <1>2, <1>5, <1>9, <1>12, <2>2, SMTT(30) DEF SingleTurn
  <2> QED
    BY <1>1, <1>2, <2>1, <2>3, SingleHolds
<1> DEFINE b2 == [b EXCEPT ![side] = d2]
<1>14. b2 \in Trees[m + 1] /\ NodeIs(b2, b, b.color, side, d2, b[sib])
  BY <1>1, <1>2, <1>11, OneSet
<1> HIDE DEF b2
<1>15. b2 \in Tree /\ Same(b2, b)
  <2>1. b2 \in Tree /\ b[side] = c /\ b[Other(side)] = b[sib]
    BY <1>14 DEF NodeIs
  <2> QED
    BY <1>2, <1>9, <1>10, <1>13, <1>14, <2>1, NodeSame
<1> DEFINE a2 == [a EXCEPT ![sib] = b2]
<1>16. a2 \in Trees[m + 2] /\ NodeIs(a2, a, a.color, sib, b2, x)
  <2>1. a[Other(sib)] = x /\ x \in Trees[m + 1]
    BY <1>1, SMTT(30)
  <2>2. /\ [a EXCEPT ![sib] = b2] \in Trees[(m + 1) + 1]
        /\ NodeIs([a EXCEPT ![sib] = b2], a, a.color, sib, b2, a[Other(sib)])
    BY <1>1, <1>14, <2>1, OneSet
  <2> QED
    BY <1>1, <2>1, <2>2
<1> HIDE DEF a2
<1>17. a2 \in Tree /\ a2 # NULL /\ Same(a2, a)
  <2>1. a2 \in Tree /\ a2 # NULL /\ a[sib] = b /\ a[Other(sib)] = x
    BY <1>1, <1>16 DEF NodeIs
  <2>2. Same(b2, a[sib]) /\ Same(x, a[Other(sib)])
    BY <1>10, <1>15, <2>1
  <2>3. Same(a2, a)
    BY <1>1, <1>2, <1>9, <1>15, <1>16, <2>2, NodeSame
  <2> QED
    BY <2>1, <2>3
<1>18. Same(r, a2)
  <2>1. /\ a2 # NULL /\ b2 # NULL /\ d2 # NULL /\ side = Other(sib) /\ b2 = a2[sib] /\ d2 = b2[side]
        /\ b2[sib] = b[sib] /\ d2[side] = d[side] /\ d2[sib] = c3 /\ a2[side] = x
    BY <1>1, <1>11, <1>14, <1>16, SMTT(30) DEF NodeIs
  <2>2. /\ NodeIs(low, a2, a.color, sib, d[side], x) /\ NodeIs(b3, b2, b.color, sib, b[sib], c3)
        /\ NodeIs(r, d2, BLACK, sib, b3, low)
    BY <1>1, <1>6, <1>7, <1>8, <1>11, <1>14, <1>16 DEF NodeIs
  <2>3. /\ Same(b[sib], b2[sib]) /\ Same(c3, d2[sib]) /\ Same(d[side], d2[side])
        /\ Same(x, a2[side])
    BY <1>10, <2>1
  <2>4. DoubleTurn(a2, sib, side, b2, d2, b[sib], c3, d[side], x, low, b3, r)
    BY <1>1, <1>9, <2>1, <2>2, <2>3 DEF DoubleTurn
  <2>5. c3 \in Tree
    BY <1>5 DEF NodeIs
  <2> QED
    BY <1>1, <1>2, <1>17, <2>4, <2>5, DoubleHolds
<1>19. Same(r, a)
  BY <1>17, <1>18, SameAgain
\* And the paths are as deep as they were.
<1>20. ASSUME NEW h \in Int, Short(a, side, h)
       PROVE  ~IsRed(r) /\ NoRedRed(r) /\ HasDepth(r, (h + 1) + Blacks(a))
  <2>1. /\ NoRedRed(x) /\ ~IsRed(x) /\ HasDepth(x, h) /\ HasDepth(b, h + 1) /\ NoRedRed(b)
        /\ ~IsRed(a) /\ h + 1 \in Int
    BY <1>20 DEF Short
  <2>2. /\ NoRedRed(c) /\ ~IsRed(c) /\ HasDepth(c, h + 1)
        /\ NoRedRed(b[sib]) /\ HasDepth(b[sib], h + 1) /\ ~IsRed(b[sib])
    BY <1>2, <2>1, UnderRed
  <2>3. NoRedRed(d) /\ NoRedRed(c[sib]) /\ HasDepth(d, h) /\ HasDepth(c[sib], h)
    BY <1>2, <1>20, <2>2, UnderBlack
  <2>4. /\ NoRedRed(d[side]) /\ NoRedRed(d[sib]) /\ HasDepth(d[side], h) /\ HasDepth(d[sib], h)
    BY <1>2, <1>20, <2>3, UnderRed
  <2>5. /\ NodeIs(c3, c, BLACK, side, d[sib], c[sib]) /\ NodeIs(b3, b, RED, side, c3, b[sib])
        /\ NodeIs(low, a, BLACK, sib, d[side], x)
    BY <1>2, <1>5, <1>6, <1>7, <1>9, <2>1, <2>2 DEF IsRed
  <2>6. NoRedRed(c3) /\ ~IsRed(c3) /\ HasDepth(c3, h + 1)
    BY <1>20, <2>3, <2>4, <2>5, BlackNode
  <2>7. NoRedRed(b3) /\ HasDepth(b3, h + 1)
    BY <2>1, <2>2, <2>5, <2>6, RedNode
  <2>8. NoRedRed(low) /\ HasDepth(low, h + 1)
    BY <1>1, <1>20, <2>1, <2>4, <2>5, BlackNode
  <2>9. ~IsRed(r) /\ NoRedRed(r) /\ HasDepth(r, (h + 1) + 1)
    BY <1>1, <1>8, <2>1, <2>7, <2>8, BlackNode
  <2> QED
    BY <2>1, <2>9 DEF Blacks
<1>21. r # NULL
  BY <1>8 DEF NodeIs
<1> QED
  BY <1>8, <1>19, <1>20, <1>21 DEF Repaired

\* A node of either color over subtrees with black roots.
LEMMA EitherNode ==
  ASSUME NEW c \in {RED, BLACK}, NEW r, NEW n, NEW side \in Side, NEW x, NEW y,
         NodeIs(r, n, c, side, x, y), ~IsRed(x), ~IsRed(y), NoRedRed(x), NoRedRed(y),
         NEW h \in Int, HasDepth(x, h), HasDepth(y, h)
  PROVE  /\ NoRedRed(r) /\ (IsRed(r) <=> c = RED)
         /\ HasDepth(r, IF c = RED THEN h ELSE h + 1)
<1>1. CASE c = RED
  <2>1. NodeIs(r, n, RED, side, x, y)
    BY <1>1
  <2> QED
    BY <1>1, <2>1, RedNode
<1>2. CASE c = BLACK
  <2>1. NodeIs(r, n, BLACK, side, x, y) /\ RED # BLACK
    BY <1>2 DEF RED, BLACK
  <2> QED
    BY <1>2, <2>1, BlackNode
<1> QED
  BY <1>1, <1>2

\* A black sibling without a red child: it turns red, and a black.
LEMMA RepairedRed ==
  ASSUME NEW m \in Nat, m + 1 < Height, NEW a \in Tree, a # NULL, NEW side \in Side,
         NEW sib, sib = Other(side), NEW x, x = a[side], x \in Trees[m], NEW b, b = a[sib], b \in Trees[m],
         b # NULL, ~IsRed(b), ~IsRed(b[sib]), ~IsRed(b[side]),
         NEW r, r = [a EXCEPT !.color = BLACK, ![sib] = Painted(b, RED)]
  PROVE  /\ r \in Trees[m + 2] /\ r # NULL /\ Same(r, a)
         /\ \A h \in Int : Short(a, side, h) => NoRedRed(r) /\ ~IsRed(r) /\ HasDepth(r, h + 1)
<1>1. /\ sib \in Side /\ Other(sib) = side /\ m < Height /\ m \in 0 .. Height
      /\ m + 1 \in Nat /\ (m + 1) + 1 = m + 2 /\ BLACK \in {RED, BLACK} /\ RED \in {RED, BLACK}
      /\ Trees[m] \subseteq Trees[m + 1] /\ Trees[m + 1] \subseteq Trees[m + 2]
  BY Room
<1>2. x \in Tree /\ b \in Tree
  BY <1>1, NodeFields
<1> DEFINE b2 == Painted(b, RED)
<1>3. /\ b2 \in Trees[m] /\ b2 \in Tree /\ Same(b2, b)
      /\ NodeIs(b2, b, RED, side, b[side], b[Other(side)])
  BY <1>1, <1>2, PaintedIs, PaintedSame
<1>4. r = [a EXCEPT !.color = BLACK, ![sib] = b2]
  OBVIOUS
<1> HIDE DEF b2
<1>5. r \in Trees[m + 1] /\ NodeIs(r, a, BLACK, sib, b2, x)
  <2>1. a[Other(sib)] = x
    BY <1>1
  <2>2. /\ [a EXCEPT !.color = BLACK, ![sib] = b2] \in Trees[m + 1]
        /\ NodeIs([a EXCEPT !.color = BLACK, ![sib] = b2], a, BLACK, sib, b2, a[Other(sib)])
    BY <1>1, <1>3, <2>1, OneSet
  <2> QED
    BY <1>4, <2>1, <2>2
<1>6. Same(r, a)
  <2>1. Same(b2, a[sib]) /\ Same(x, a[Other(sib)])
    BY <1>1, <1>3 DEF Same
  <2> QED
    BY <1>1, <1>2, <1>3, <1>5, <2>1, NodeSame
<1>7. ASSUME NEW h \in Int, Short(a, side, h) PROVE NoRedRed(r) /\ ~IsRed(r) /\ HasDepth(r, h + 1)
  <2>1. NoRedRed(x) /\ HasDepth(x, h) /\ HasDepth(b, h + 1) /\ NoRedRed(b)
    BY <1>7 DEF Short
  <2>2. /\ NoRedRed(b[side]) /\ NoRedRed(b[Other(side)])
        /\ HasDepth(b[side], h) /\ HasDepth(b[Other(side)], h)
    BY <1>2, <1>7, <2>1, UnderBlack
  <2>3. NoRedRed(b2) /\ HasDepth(b2, h)
    BY <1>3, <1>7, <2>2, RedNode
  <2> QED
    BY <1>1, <1>5, <1>7, <2>1, <2>3, BlackNode
<1>8. r # NULL
  BY <1>5 DEF NodeIs
<1> QED
  BY <1>1, <1>5, <1>6, <1>7, <1>8

\* A black sibling with a red child on the far side only.
LEMMA RepairedFar ==
  ASSUME NEW m \in Nat, m + 1 < Height, NEW a \in Tree, a # NULL, NEW side \in Side,
         NEW sib, sib = Other(side), NEW x, x = a[side], x \in Trees[m], NEW b, b = a[sib], b \in Trees[m],
         b # NULL, ~IsRed(b), NEW e, e = b[sib], IsRed(e), NEW c, c = b[side], ~IsRed(c),
         NEW r, r = [b EXCEPT !.color = a.color, ![sib] = Painted(e, BLACK),
                              ![side] = [a EXCEPT !.color = BLACK, ![sib] = c]]
  PROVE  r \in Trees[m + 2] /\ Repaired(r, a, side)
<1>1. /\ sib \in Side /\ Other(sib) = side /\ m < Height /\ m \in 0 .. Height
      /\ m + 1 \in Nat /\ (m + 1) + 1 = m + 2 /\ BLACK \in {RED, BLACK} /\ RED \in {RED, BLACK}
      /\ Trees[m] \subseteq Trees[m + 1]
  BY Room
<1>2. /\ x \in Tree /\ b \in Tree /\ c \in Tree /\ e \in Tree /\ c \in Trees[m] /\ e \in Trees[m]
      /\ e # NULL
  BY <1>1, NodeFields, Lower DEF IsRed
<1> DEFINE e2 == Painted(e, BLACK)
<1>3. /\ e2 \in Trees[m] /\ e2 \in Tree /\ Same(e2, e)
      /\ NodeIs(e2, e, BLACK, side, e[side], e[Other(side)])
  BY <1>1, <1>2, PaintedIs, PaintedSame, SMTT(30)
<1> DEFINE low == [a EXCEPT !.color = BLACK, ![sib] = c]
<1>4. low \in Trees[m + 1] /\ NodeIs(low, a, BLACK, sib, c, x)
  <2> HIDE DEF e2
  <2> QED
    BY <1>1, <1>2, OneSet
<1>5. r = [b EXCEPT !.color = a.color, ![sib] = e2, ![side] = low]
  OBVIOUS
<1> HIDE DEF e2, low
<1>6. a.color \in {RED, BLACK}
  BY NodeFields
<1>7. r \in Trees[m + 2] /\ NodeIs(r, b, a.color, sib, e2, low)
  <2>1. e2 \in Trees[m + 1]
    BY <1>1, <1>3
  <2>2. /\ [b EXCEPT !.color = a.color, ![sib] = e2, ![side] = low] \in Trees[(m + 1) + 1]
        /\ NodeIs([b EXCEPT !.color = a.color, ![sib] = e2, ![side] = low], b, a.color, sib, e2, low)
    BY <1>1, <1>2, <1>4, <1>6, <2>1, BothSet
  <2> QED
    BY <1>1, <1>5, <2>2
<1>8. Same(r, a)
  <2>1. Same(c, c) /\ Same(x, x)
    BY DEF Same
  <2>2. SingleTurn(a, sib, side, b, e2, c, x, low, r)
    BY <1>1, <1>3, <1>4, <1>6, <1>7, <2>1 DEF SingleTurn
  <2> QED
    BY <1>1, <1>2, <1>3, <2>2, SingleHolds
<1>9. ASSUME NEW h \in Int, Short(a, side, h)
      PROVE  NoRedRed(r) /\ (IsRed(r) => IsRed(a)) /\ HasDepth(r, (h + 1) + Blacks(a))
  <2>1. NoRedRed(x) /\ HasDepth(x, h) /\ HasDepth(b, h + 1) /\ NoRedRed(b) /\ h + 1 \in Int
    BY <1>9 DEF Short
  <2>2. NoRedRed(c) /\ NoRedRed(e) /\ HasDepth(c, h) /\ HasDepth(e, h)
    BY <1>1, <1>2, <1>9, <2>1, UnderBlack
  <2>3. /\ NoRedRed(e[side]) /\ NoRedRed(e[Other(side)])
        /\ HasDepth(e[side], h) /\ HasDepth(e[Other(side)], h)
    BY <1>2, <1>9, <2>2, UnderRed
  <2>4. ~IsRed(e2) /\ NoRedRed(e2) /\ HasDepth(e2, h + 1)
    BY <1>3, <1>9, <2>3, BlackNode
  <2>5. ~IsRed(low) /\ NoRedRed(low) /\ HasDepth(low, h + 1)
    BY <1>1, <1>4, <1>9, <2>1, <2>2, BlackNode
  <2> DEFINE i == h + 1
  <2>6. i \in Int /\ HasDepth(e2, i) /\ HasDepth(low, i)
    BY <2>1, <2>4, <2>5
  <2>7. NodeIs(r, b, a.color, sib, e2, low) /\ sib \in Side
    BY <1>1, <1>7
  <2>8. /\ NoRedRed(r) /\ (IsRed(r) <=> a.color = RED)
        /\ HasDepth(r, IF a.color = RED THEN i ELSE i + 1)
    <3> HIDE DEF i
    <3> QED
      BY <1>6, <2>4, <2>5, <2>6, <2>7, EitherNode
  <2>9. /\ IsRed(a) <=> a.color = RED
        /\ (IF a.color = RED THEN i ELSE i + 1) = i + Blacks(a)
    BY <2>6 DEF IsRed, Blacks
  <2> QED
    BY <2>8, <2>9
<1>10. r # NULL
  BY <1>7 DEF NodeIs
<1> QED
  BY <1>7, <1>8, <1>9, <1>10 DEF Repaired

\* A black sibling with a red child c on the side of a.
LEMMA RepairedNear ==
  ASSUME NEW m \in Nat, m + 1 < Height, NEW a \in Tree, a # NULL, NEW side \in Side,
         NEW sib, sib = Other(side), NEW x, x = a[side], x \in Trees[m], NEW b, b = a[sib], b \in Trees[m],
         b # NULL, ~IsRed(b), NEW c, c = b[side], IsRed(c),
         NEW r, r = [c EXCEPT !.color = a.color, ![sib] = [b EXCEPT ![side] = c[sib]],
                              ![side] = [[a EXCEPT !.color = BLACK, ![sib] = c] EXCEPT ![sib] = c[side]]]
  PROVE  r \in Trees[m + 2] /\ Repaired(r, a, side)
<1>1. /\ sib \in Side /\ Other(sib) = side /\ m < Height /\ m \in 0 .. Height
      /\ m + 1 \in Nat /\ (m + 1) + 1 = m + 2 /\ BLACK \in {RED, BLACK} /\ RED \in {RED, BLACK}
      /\ Trees[m] \subseteq Trees[m + 1]
  BY Room
<1>2. /\ x \in Tree /\ b \in Tree /\ c \in Tree /\ b[sib] \in Tree /\ c \in Trees[m] /\ b[sib] \in Trees[m]
      /\ c # NULL
  BY <1>1, NodeFields, Lower DEF IsRed
<1>3. c[side] \in Trees[m] /\ c[sib] \in Trees[m] /\ c[side] \in Tree /\ c[sib] \in Tree
  BY <1>1, <1>2, NodeFields, Lower, SMTT(30)
<1> DEFINE near == [b EXCEPT ![side] = c[sib]]
<1>4. near \in Trees[m + 1] /\ NodeIs(near, b, b.color, side, c[sib], b[sib])
  BY <1>1, <1>2, <1>3, OneSet
<1> HIDE DEF near
<1>5. NodeIs(near, b, BLACK, sib, b[sib], c[sib])
  <2>1. b.color = BLACK
    BY <1>2, NodeFields, SMTT(30) DEF IsRed
  <2> QED
    BY <1>1, <1>4, <2>1 DEF NodeIs
<1> DEFINE lower == [a EXCEPT !.color = BLACK, ![sib] = c]
<1>6. NodeIs(lower, a, BLACK, sib, c, x)
  BY <1>1, <1>2, OneSet
<1> HIDE DEF lower
<1>7. lower \in Tree /\ lower # NULL /\ lower[Other(sib)] = x /\ lower.color = BLACK
  BY <1>1, <1>6 DEF NodeIs
<1> DEFINE low == [lower EXCEPT ![sib] = c[side]]
<1>8. low \in Trees[m + 1] /\ NodeIs(low, lower, lower.color, sib, c[side], x)
  <2>1. lower[Other(sib)] \in Trees[m]
    BY <1>7, SMTT(30)
  <2>2. /\ [lower EXCEPT ![sib] = c[side]] \in Trees[m + 1]
        /\ NodeIs([lower EXCEPT ![sib] = c[side]], lower, lower.color, sib, c[side], lower[Other(sib)])
    BY <1>1, <1>3, <1>7, <2>1, OneSet
  <2> QED
    BY <1>7, <2>2
<1> HIDE DEF low
<1>9. NodeIs(low, a, BLACK, sib, c[side], x)
  BY <1>6, <1>7, <1>8 DEF NodeIs
<1>10. a.color \in {RED, BLACK}
  BY NodeFields
<1>11. r \in Trees[m + 2] /\ NodeIs(r, c, a.color, sib, near, low)
  <2>1. r = [c EXCEPT !.color = a.color, ![sib] = near, ![side] = low]
    BY DEF near, low, lower
  <2>2. /\ [c EXCEPT !.color = a.color, ![sib] = near, ![side] = low] \in Trees[(m + 1) + 1]
        /\ NodeIs([c EXCEPT !.color = a.color, ![sib] = near, ![side] = low], c, a.color, sib, near, low)
    BY <1>1, <1>2, <1>4, <1>8, <1>10, BothSet
  <2> QED
    BY <1>1, <2>1, <2>2
<1>12. Same(r, a)
  <2>1. Same(b[sib], b[sib]) /\ Same(c[sib], c[sib]) /\ Same(c[side], c[side]) /\ Same(x, x)
    BY DEF Same
  <2>2. DoubleTurn(a, sib, side, b, c, b[sib], c[sib], c[side], x, low, near, r)
    BY <1>1, <1>2, <1>5, <1>9, <1>10, <1>11, <2>1 DEF DoubleTurn
  <2> QED
    BY <1>1, <1>2, <1>3, <2>2, DoubleHolds
<1>13. ASSUME NEW h \in Int, Short(a, side, h)
       PROVE  NoRedRed(r) /\ (IsRed(r) => IsRed(a)) /\ HasDepth(r, (h + 1) + Blacks(a))
  <2>1. NoRedRed(x) /\ HasDepth(x, h) /\ HasDepth(b, h + 1) /\ NoRedRed(b) /\ h + 1 \in Int
    BY <1>13 DEF Short
  <2>2. NoRedRed(c) /\ NoRedRed(b[sib]) /\ HasDepth(c, h) /\ HasDepth(b[sib], h)
    BY <1>2, <1>13, <2>1, UnderBlack
  <2>3. NoRedRed(c[side]) /\ NoRedRed(c[sib]) /\ HasDepth(c[side], h) /\ HasDepth(c[sib], h)
    BY <1>2, <1>13, <2>2, UnderRed
  <2>4. ~IsRed(near) /\ NoRedRed(near) /\ HasDepth(near, h + 1)
    BY <1>1, <1>5, <1>13, <2>2, <2>3, BlackNode
  <2>5. ~IsRed(low) /\ NoRedRed(low) /\ HasDepth(low, h + 1)
    BY <1>1, <1>9, <1>13, <2>1, <2>3, BlackNode
  <2> DEFINE i == h + 1
  <2>6. i \in Int /\ HasDepth(near, i) /\ HasDepth(low, i)
    BY <2>1, <2>4, <2>5
  <2>7. NodeIs(r, c, a.color, sib, near, low) /\ sib \in Side
    BY <1>1, <1>11
  <2>8. /\ NoRedRed(r) /\ (IsRed(r) <=> a.color = RED)
        /\ HasDepth(r, IF a.color = RED THEN i ELSE i + 1)
    <3> HIDE DEF i
    <3> QED
      BY <1>10, <2>4, <2>5, <2>6, <2>7, EitherNode
  <2>9. /\ IsRed(a) <=> a.color = RED
        /\ (IF a.color = RED THEN i ELSE i + 1) = i + Blacks(a)
    BY <2>6 DEF IsRed, Blacks
  <2> QED
    BY <2>8, <2>9
<1>14. r # NULL
  BY <1>11 DEF NodeIs
<1> QED
  BY <1>11, <1>12, <1>13, <1>14 DEF Repaired

\* What the repair of a deletion gives.
FixedUp(a, side, r) ==
    /\ r.tree # NULL /\ Same(r.tree, a) /\ r.shorter \in BOOLEAN
    /\ \A h \in Int : Short(a, side, h) =>
          /\ NoRedRed(r.tree) /\ (IsRed(r.tree) => IsRed(a)) /\ (r.shorter => ~IsRed(r.tree))
          /\ HasDepth(r.tree, IF r.shorter THEN h + Blacks(a) ELSE (h + 1) + Blacks(a))

\* A repair after which the paths are as deep as before the deletion.
LEMMA RepairedFixes ==
  ASSUME NEW a, NEW side, NEW t, Repaired(t, a, side)
  PROVE  FixedUp(a, side, Result(t, FALSE))
<1>1. Result(t, FALSE).tree = t /\ Result(t, FALSE).shorter = FALSE
  BY DEF Result
<1> QED
  BY <1>1 DEF FixedUp, Repaired

\* FixDeletion under a red sibling (sglib.h:1497-1554).
LEMMA FixRedSiblingHolds ==
  ASSUME NEW m \in Nat, m + 1 < Height, NEW a \in Tree, a # NULL, NEW side \in Side,
         a[side] \in Trees[m], NEW b, b = a[Other(side)], b \in Trees[m], b # NULL, IsRed(b)
  PROVE  /\ FixRedSibling(a, b, side) \in Trees[m + 2]
         /\ Repaired(FixRedSibling(a, b, side), a, side)
<1> DEFINE sib == Other(side)
           c == b[side]
           d == c[side]
           r == FixRedSibling(a, b, side)
<1>1. CASE c = NULL
  <2>1. r = [b EXCEPT !.color = BLACK, ![side] = [a EXCEPT ![sib] = NULL]]
    BY <1>1 DEF FixRedSibling
  <2>2. sib = Other(side) /\ c = b[side] /\ d = c[side]
    OBVIOUS
  <2> HIDE DEF r, d, c, sib
  <2>3. r \in Trees[m + 2] /\ Repaired(r, a, side)
    BY <1>1, <2>1, <2>2, RepairedNull
  <2> QED
    BY <2>3 DEF r
<1>2. CASE c # NULL /\ IsRed(d)
  <2>1. r = [d EXCEPT !.color = BLACK,
                      ![sib]  = [b EXCEPT ![side] = [c EXCEPT ![side] = d[sib]]],
                      ![side] = [a EXCEPT ![sib] = d[side]]]
    BY <1>2 DEF FixRedSibling
  <2>2. sib = Other(side) /\ c = b[side] /\ d = c[side]
    OBVIOUS
  <2> HIDE DEF r, d, c, sib
  <2>3. r \in Trees[m + 2] /\ Repaired(r, a, side)
    BY <1>2, <2>1, <2>2, RepairedTriple, ZenonT(60)
  <2> QED
    BY <2>3 DEF r
<1>3. CASE c # NULL /\ ~IsRed(d) /\ IsRed(c[sib])
  <2>1. r = [c EXCEPT ![sib]  = [b EXCEPT ![side] = Painted(c[sib], BLACK)],
                      ![side] = [a EXCEPT ![sib] = d]]
    BY <1>3 DEF FixRedSibling
  <2>2. sib = Other(side) /\ c = b[side] /\ d = c[side]
    OBVIOUS
  <2> HIDE DEF r, d, c, sib
  <2>3. r \in Trees[m + 2] /\ Repaired(r, a, side)
    BY <1>3, <2>1, <2>2, RepairedDouble
  <2> QED
    BY <2>3 DEF r
<1>4. CASE c # NULL /\ ~IsRed(d) /\ ~IsRed(c[sib])
  <2>1. r = [b EXCEPT !.color = BLACK, ![side] = [a EXCEPT ![sib] = Painted(c, RED)]]
    BY <1>4 DEF FixRedSibling
  <2>2. sib = Other(side) /\ c = b[side] /\ d = c[side]
    OBVIOUS
  <2> HIDE DEF r, d, c, sib
  <2>3. r \in Trees[m + 2] /\ Repaired(r, a, side)
    BY <1>4, <2>1, <2>2, RepairedPainted
  <2> QED
    BY <2>3 DEF r
<1> QED
  BY <1>1, <1>2, <1>3, <1>4

\* FixDeletion under a black sibling (sglib.h:1555-1600).
LEMMA FixBlackSiblingHolds ==
  ASSUME NEW m \in Nat, m + 1 < Height, NEW a \in Tree, a # NULL, NEW side \in Side,
         a[side] \in Trees[m], NEW b, b = a[Other(side)], b \in Trees[m], b # NULL, ~IsRed(b)
  PROVE  /\ FixBlackSibling(a, b, side).tree \in Trees[m + 2]
         /\ FixedUp(a, side, FixBlackSibling(a, b, side))
<1> DEFINE sib == Other(side)
           c == b[side]
           r == FixBlackSibling(a, b, side)
<1>1. CASE ~IsRed(b[sib]) /\ ~IsRed(c)
  <2> DEFINE t == [a EXCEPT !.color = BLACK, ![sib] = Painted(b, RED)]
  <2>1. r = Result(t, ~IsRed(a))
    BY <1>1 DEF FixBlackSibling
  <2>2. /\ t \in Trees[m + 2] /\ t # NULL /\ Same(t, a)
        /\ \A h \in Int : Short(a, side, h) => NoRedRed(t) /\ ~IsRed(t) /\ HasDepth(t, h + 1)
    BY <1>1, RepairedRed
  <2> HIDE DEF r, t
  <2>3. r.tree = t /\ r.shorter = ~IsRed(a) /\ r.shorter \in BOOLEAN
    BY <2>1 DEF Result
  <2>4. \A h \in Int : (IF r.shorter THEN h + Blacks(a) ELSE (h + 1) + Blacks(a)) = h + 1
    <3>1. ASSUME IsRed(a), NEW h \in Int
          PROVE  (IF r.shorter THEN h + Blacks(a) ELSE (h + 1) + Blacks(a)) = h + 1
      <4>1. Blacks(a) = 0
        BY <3>1 DEF Blacks
      <4>2. r.shorter = FALSE
        BY <2>3, <3>1, Zenon
      <4> QED
        BY <4>1, <4>2
    <3>2. ASSUME ~IsRed(a), NEW h \in Int
          PROVE  (IF r.shorter THEN h + Blacks(a) ELSE (h + 1) + Blacks(a)) = h + 1
      <4>1. Blacks(a) = 1 /\ r.shorter
        BY <2>3, <3>2 DEF Blacks, IsRed
      <4> QED
        BY <4>1
    <3> QED
      BY <3>1, <3>2
  <2>5. FixedUp(a, side, r)
    BY <2>2, <2>3, <2>4 DEF FixedUp
  <2> QED
    BY <2>2, <2>3, <2>5 DEF r
<1>2. CASE IsRed(b[sib]) /\ ~IsRed(c)
  <2> DEFINE t == [b EXCEPT !.color = a.color, ![sib] = Painted(b[sib], BLACK),
                            ![side] = [a EXCEPT !.color = BLACK, ![sib] = c]]
  <2>1. r = Result(t, FALSE)
    BY <1>2 DEF FixBlackSibling
  <2>2. t \in Trees[m + 2] /\ Repaired(t, a, side)
    <3>1. sib = Other(side) /\ c = b[side] /\ t = t
      OBVIOUS
    <3>2. PICK e : e = b[sib]
      OBVIOUS
    <3>3. t = [b EXCEPT !.color = a.color, ![sib] = Painted(e, BLACK),
                        ![side] = [a EXCEPT !.color = BLACK, ![sib] = c]]
      BY <3>2
    <3> HIDE DEF c, sib, t
    <3> QED
      BY <1>2, <3>1, <3>2, <3>3, RepairedFar
  <2> HIDE DEF r, t
  <2>3. r.tree = t
    BY <2>1 DEF Result
  <2>4. FixedUp(a, side, r)
    BY <2>1, <2>2, RepairedFixes
  <2> QED
    BY <2>2, <2>3, <2>4 DEF r
<1>3. CASE IsRed(c)
  <2> DEFINE t == [c EXCEPT !.color = a.color, ![sib] = [b EXCEPT ![side] = c[sib]],
                     ![side] = [[a EXCEPT !.color = BLACK, ![sib] = c] EXCEPT ![sib] = c[side]]]
  <2>1. r = Result(t, FALSE)
    BY <1>3 DEF FixBlackSibling
  <2>2. t \in Trees[m + 2] /\ Repaired(t, a, side)
    <3>1. sib = Other(side) /\ c = b[side]
      OBVIOUS
    <3>2. PICK x : x = a[side]
      OBVIOUS
    <3>3. t = [c EXCEPT !.color = a.color, ![sib] = [b EXCEPT ![side] = c[sib]],
                        ![side] = [[a EXCEPT !.color = BLACK, ![sib] = c] EXCEPT ![sib] = c[side]]]
      OBVIOUS
    <3> HIDE DEF c, sib, t
    <3> QED
      BY <1>3, <3>1, <3>2, <3>3, RepairedNear, ZenonT(60)
  <2> HIDE DEF r, t
  <2>3. r.tree = t
    BY <2>1 DEF Result
  <2>4. FixedUp(a, side, r)
    BY <2>1, <2>2, RepairedFixes
  <2> QED
    BY <2>2, <2>3, <2>4 DEF r
<1> QED
  BY <1>1, <1>2, <1>3

\* FixDeletion (SGLIB___RBTREE_FIX_DELETION_DISCREPANCY, sglib.h:1484-1602).
LEMMA FixDeletionHolds ==
  ASSUME NEW m \in Nat, m + 1 < Height, NEW a \in Tree, a # NULL, NEW side \in Side,
         a[side] \in Trees[m], a[Other(side)] \in Trees[m]
  PROVE  /\ FixDeletion(a, side).tree \in Trees[m + 2]
         /\ FixedUp(a, side, FixDeletion(a, side))
<1> DEFINE b == a[Other(side)]
           r == FixDeletion(a, side)
<1>1. /\ Other(side) \in Side /\ m < Height /\ m \in 0 .. Height /\ BLACK \in {RED, BLACK}
      /\ Trees[m] \subseteq Trees[m + 1] /\ Trees[m + 1] \subseteq Trees[m + 2]
      /\ Trees[m + 2] \subseteq Tree
  BY Room
<1>2. CASE b = NULL
  <2> DEFINE t == Painted(a, BLACK)
  <2>1. r = Result(t, FALSE)
    BY <1>2 DEF FixDeletion, IsRed
  <2>2. a \in Trees[m + 1]
    <3>1. a \in NodesOver(Trees[m])
      <4>1. a \in NodesOver(Tree) /\ {a.left, a.right} = {a[side], a[Other(side)]}
        BY NodeFields DEF NodesOver, Side, Other
      <4> QED
        BY <4>1 DEF NodesOver
    <3> QED
      BY <1>1, <3>1, LevelsOf
  <2>3. t \in Trees[m + 1] /\ t # NULL
    <3>1. m + 1 \in 0 .. Height
      BY Levels
    <3> QED
      BY <1>1, <2>2, <3>1, PaintedIs DEF NodeIs
  <2>4. Same(t, a)
    BY <1>1, PaintedSame
  <2>5. ASSUME NEW h \in Int, Short(a, side, h) PROVE FALSE
    <3>1. HasDepth(a[side], h) /\ HasDepth(NULL, h + 1)
      BY <1>2, <2>5 DEF Short
    <3>2. h \in Nat /\ h + 1 = 0
      BY <3>1, NodeFields, Deep, Empty
    <3> QED
      BY <3>2
  <2> HIDE DEF r, t
  <2>6. Repaired(t, a, side)
    BY <2>3, <2>4, <2>5 DEF Repaired
  <2>7. FixedUp(a, side, r) /\ r.tree = t
    BY <2>1, <2>6, RepairedFixes DEF Result
  <2> QED
    BY <1>1, <2>3, <2>7 DEF r
<1>3. CASE b # NULL /\ IsRed(b)
  <2> DEFINE t == FixRedSibling(a, b, side)
  <2>1. r = Result(t, FALSE)
    BY <1>3 DEF FixDeletion
  <2>2. t \in Trees[m + 2] /\ Repaired(t, a, side)
    BY <1>3, FixRedSiblingHolds
  <2> HIDE DEF r, t
  <2>3. FixedUp(a, side, r) /\ r.tree = t
    BY <2>1, <2>2, RepairedFixes DEF Result
  <2> QED
    BY <2>2, <2>3 DEF r
<1>4. CASE b # NULL /\ ~IsRed(b)
  <2>1. r = FixBlackSibling(a, b, side)
    BY <1>4 DEF FixDeletion
  <2>2. /\ FixBlackSibling(a, b, side).tree \in Trees[m + 2]
        /\ FixedUp(a, side, FixBlackSibling(a, b, side))
    BY <1>4, FixBlackSiblingHolds
  <2> QED
    BY <2>1, <2>2
<1> QED
  BY <1>2, <1>3, <1>4

-----------------------------------------------------------------------------
(* Deletion.                                                               *)

\* A deletion from a tree keeps it balanced, or makes its paths shorter by one
\* black node, and says so.
Shrinks(t, r) ==
    /\ r.shorter \in BOOLEAN
    /\ \A h \in Int : NoRedRed(t) /\ HasDepth(t, h) =>
          /\ NoRedRed(r.tree) /\ (IsRed(r.tree) => IsRed(t)) /\ (r.shorter => ~IsRed(r.tree))
          /\ HasDepth(r.tree, IF r.shorter THEN h - 1 ELSE h)

\* What is seen of a tree from below the root.
LEMMA Under ==
  ASSUME NEW t \in Tree, t # NULL, NoRedRed(t), NEW h \in Int, HasDepth(t, h), NEW side \in Side
  PROVE  /\ NoRedRed(t[side]) /\ NoRedRed(t[Other(side)])
         /\ IsRed(t) => ~IsRed(t[side]) /\ ~IsRed(t[Other(side)])
         /\ h - Blacks(t) \in Int
         /\ HasDepth(t[side], h - Blacks(t)) /\ HasDepth(t[Other(side)], h - Blacks(t))
<1>1. h - Blacks(t) \in Int
  BY DEF Blacks
<1> QED
  BY <1>1, NoRedRedIs, DepthIs

\* A node of t's color over subtrees that may be under t.
LEMMA Over ==
  ASSUME NEW t \in Tree, t # NULL, NEW n, NEW r, NEW side \in Side, NEW x, NEW y,
         NodeIs(r, n, t.color, side, x, y), NoRedRed(x), NoRedRed(y),
         IsRed(t) => ~IsRed(x) /\ ~IsRed(y),
         NEW h \in Int, HasDepth(x, h - Blacks(t)), HasDepth(y, h - Blacks(t))
  PROVE  NoRedRed(r) /\ HasDepth(r, h)
<1>1. r \in Tree /\ r # NULL /\ r.color = t.color /\ r[side] = x /\ r[Other(side)] = y
  BY DEF NodeIs
<1>2. (IsRed(r) <=> IsRed(t)) /\ Blacks(r) = Blacks(t)
  BY <1>1 DEF IsRed, Blacks
<1>3. NoRedRed(r)
  BY <1>1, <1>2, NoRedRedIs
<1>4. HasDepth(r[side], h - Blacks(r)) /\ HasDepth(r[Other(side)], h - Blacks(r))
  BY <1>1, <1>2
<1>5. HasDepth(r, h)
  BY <1>1, <1>4, DepthIs
<1> QED
  BY <1>3, <1>5

\* One level of a deletion, on the way back: Shrunk (sglib.h:1678-1686).
LEMMA ShrunkHolds ==
  ASSUME NEW m \in Nat, m + 1 < Height, NEW t \in Tree, t # NULL, NEW side \in Side,
         NEW r, r.tree \in Trees[m], NEW z, z = t[Other(side)], z \in Trees[m], Shrinks(t[side], r)
  PROVE  LET q == Shrunk(t, side, r)
         IN  /\ q.tree \in Trees[m + 2] /\ q.tree # NULL /\ Shrinks(t, q)
             /\ \E a \in Tree : NodeIs(a, t, t.color, side, r.tree, z) /\ Same(q.tree, a)
<1> DEFINE a == [t EXCEPT ![side] = r.tree]
           q == Shrunk(t, side, r)
<1>1. /\ Other(side) \in Side /\ m < Height /\ RED \in {RED, BLACK}
      /\ Trees[m + 1] \subseteq Trees[m + 2]
  BY Room
<1>2. a \in Trees[m + 1] /\ NodeIs(a, t, t.color, side, r.tree, z)
  <2>1. t[Other(side)] \in Trees[m]
    OBVIOUS
  <2>2. /\ [t EXCEPT ![side] = r.tree] \in Trees[m + 1]
        /\ NodeIs([t EXCEPT ![side] = r.tree], t, t.color, side, r.tree, t[Other(side)])
    BY <1>1, <2>1, OneSet
  <2> QED
    BY <2>2
<1>3. q = IF r.shorter THEN FixDeletion(a, side) ELSE Result(a, FALSE)
  BY DEF Shrunk
<1> HIDE DEF a, q
<1>4. /\ a \in Tree /\ a # NULL /\ a[side] = r.tree /\ a[Other(side)] = z /\ a.color = t.color
  BY <1>2 DEF NodeIs
<1>5. (IsRed(a) <=> IsRed(t)) /\ Blacks(a) = Blacks(t)
  BY <1>4 DEF IsRed, Blacks
<1>6. ASSUME NEW h \in Int, NoRedRed(t), HasDepth(t, h)
      PROVE  /\ NoRedRed(z) /\ (IsRed(t) => ~IsRed(z)) /\ HasDepth(z, h - Blacks(t))
             /\ h - Blacks(t) \in Int /\ NoRedRed(r.tree) /\ (IsRed(t) => ~IsRed(r.tree))
             /\ r.shorter => ~IsRed(r.tree)
             /\ HasDepth(r.tree, IF r.shorter THEN (h - Blacks(t)) - 1 ELSE h - Blacks(t))
  <2>1. /\ NoRedRed(t[side]) /\ NoRedRed(z) /\ (IsRed(t) => ~IsRed(t[side]) /\ ~IsRed(z))
        /\ h - Blacks(t) \in Int /\ HasDepth(t[side], h - Blacks(t)) /\ HasDepth(z, h - Blacks(t))
    BY <1>6, Under
  <2> QED
    BY <2>1 DEF Shrinks
<1>7. CASE r.shorter
  <2>1. q = FixDeletion(a, side)
    BY <1>3, <1>7
  <2>2. q.tree \in Trees[m + 2] /\ FixedUp(a, side, q)
    BY <1>4, <2>1, FixDeletionHolds
  <2>3. q.tree # NULL /\ Same(q.tree, a) /\ q.shorter \in BOOLEAN
    BY <2>2 DEF FixedUp
  <2>4. ASSUME NEW h \in Int, NoRedRed(t), HasDepth(t, h)
        PROVE  /\ NoRedRed(q.tree) /\ (IsRed(q.tree) => IsRed(t)) /\ (q.shorter => ~IsRed(q.tree))
               /\ HasDepth(q.tree, IF q.shorter THEN h - 1 ELSE h)
    <3> DEFINE i == (h - Blacks(t)) - 1
    <3>1. Blacks(t) \in {0, 1}
      BY DEF Blacks
    <3>2. i \in Int /\ h - Blacks(t) = i + 1 /\ i + Blacks(a) = h - 1 /\ (i + 1) + Blacks(a) = h
      BY <1>5, <3>1
    <3>3. Short(a, side, i)
      <4>1. /\ NoRedRed(z) /\ (IsRed(t) => ~IsRed(z)) /\ HasDepth(z, i + 1)
            /\ NoRedRed(r.tree) /\ ~IsRed(r.tree) /\ HasDepth(r.tree, i)
        BY <1>6, <1>7, <2>4, <3>2
      <4> HIDE DEF i
      <4> QED
        BY <1>4, <1>5, <4>1 DEF Short
    <3> HIDE DEF i
    <3>4. /\ NoRedRed(q.tree) /\ (IsRed(q.tree) => IsRed(a)) /\ (q.shorter => ~IsRed(q.tree))
          /\ HasDepth(q.tree, IF q.shorter THEN i + Blacks(a) ELSE (i + 1) + Blacks(a))
      BY <2>2, <3>2, <3>3 DEF FixedUp
    <3> QED
      BY <1>5, <3>2, <3>4
  <2>5. Shrinks(t, q)
    BY <2>3, <2>4 DEF Shrinks
  <2> QED
    BY <1>2, <1>4, <2>2, <2>3, <2>5 DEF q
<1>8. CASE ~r.shorter
  <2>1. q.tree = a /\ q.shorter = FALSE
    BY <1>3, <1>8 DEF Result
  <2>2. ASSUME NEW h \in Int, NoRedRed(t), HasDepth(t, h)
        PROVE  /\ NoRedRed(a) /\ HasDepth(a, h)
    <3>1. /\ NoRedRed(z) /\ (IsRed(t) => ~IsRed(z)) /\ HasDepth(z, h - Blacks(t))
          /\ NoRedRed(r.tree) /\ (IsRed(t) => ~IsRed(r.tree)) /\ HasDepth(r.tree, h - Blacks(t))
      BY <1>6, <1>8, <2>2
    <3> QED
      BY <1>2, <2>2, <3>1, Over
  <2>3. Shrinks(t, q)
    BY <1>5, <2>1, <2>2 DEF Shrinks
  <2>4. Same(q.tree, a)
    BY <2>1 DEF Same
  <2> QED
    BY <1>1, <1>2, <1>4, <2>1, <2>3, <2>4 DEF q
<1>9. r.shorter \in BOOLEAN
  BY DEF Shrinks
<1> QED
  BY <1>7, <1>8, <1>9 DEF q

\* The deletion of a root with at most one subtree (sglib.h:1689-1698).
LEMMA WithoutRootHolds ==
  ASSUME NEW n \in 0 .. Height, NEW t \in Trees[n], t # NULL, NEW side \in Side,
         NEW only, only = t[side], t[Other(side)] = NULL
  PROVE  LET q == WithoutRoot(t, only)
         IN  /\ q.tree \in Trees[n] /\ Shrinks(t, q) /\ Same(q.tree, only)
<1> DEFINE q == WithoutRoot(t, only)
<1>1. t \in Tree /\ only \in Tree /\ only \in Trees[n] /\ BLACK \in {RED, BLACK}
  BY Lower, NodeFields
<1>2. ASSUME NEW h \in Int, NoRedRed(t), HasDepth(t, h)
      PROVE  NoRedRed(only) /\ (IsRed(t) => ~IsRed(only)) /\ h = Blacks(t) /\ HasDepth(only, 0)
  <2>1. /\ NoRedRed(only) /\ (IsRed(t) => ~IsRed(only)) /\ HasDepth(only, h - Blacks(t))
        /\ HasDepth(NULL, h - Blacks(t))
    BY <1>1, <1>2, Under
  <2>2. h - Blacks(t) = 0
    BY <2>1, Empty
  <2>3. h = Blacks(t)
    BY <2>2 DEF Blacks
  <2> QED
    BY <2>1, <2>2, <2>3
<1>3. CASE only = NULL
  <2>1. q = Result(NULL, ~IsRed(t))
    BY <1>3 DEF WithoutRoot
  <2>2. q.tree = NULL /\ q.shorter = ~IsRed(t) /\ q.shorter \in BOOLEAN
    BY <2>1 DEF Result
  <2> HIDE DEF q
  <2>3. NULL \in Trees[n] /\ Same(NULL, only)
    BY <1>1, <1>3 DEF Same
  <2>4. ASSUME NEW h \in Int, NoRedRed(t), HasDepth(t, h)
        PROVE  HasDepth(NULL, IF q.shorter THEN h - 1 ELSE h)
    <3>1. CASE IsRed(t)
      <4>1. h = 0 
        BY <1>2, <2>4, <3>1 DEF Blacks
      <4>2. q.shorter = FALSE
        BY <2>2, <3>1, Zenon
      <4> QED
        BY <4>1, <4>2, Empty
    <3>2. CASE ~IsRed(t)
      <4>1. h = 1 /\ h - 1 = 0
        BY <1>2, <2>4, <3>2 DEF Blacks
      <4>2. q.shorter = TRUE
        BY <2>2, <3>2, Zenon
      <4> QED
        BY <4>1, <4>2, Empty
    <3> QED
      BY <3>1, <3>2
  <2>5. Shrinks(t, q)
    BY <2>2, <2>4, Empty DEF Shrinks
  <2> QED
    BY <2>2, <2>3, <2>5 DEF q
<1>4. CASE only # NULL
  <2> DEFINE p == Painted(only, BLACK)
  <2>1. q = Result(p, ~IsRed(t) /\ ~IsRed(only))
    BY <1>4 DEF WithoutRoot
  <2>2. /\ p \in Trees[n] /\ Same(p, only)
        /\ NodeIs(p, only, BLACK, side, only[side], only[Other(side)])
    BY <1>1, <1>4, PaintedIs, PaintedSame
  <2> HIDE DEF p
  <2>3. q.tree = p /\ q.shorter = (~IsRed(t) /\ ~IsRed(only)) /\ q.shorter \in BOOLEAN
    BY <2>1 DEF Result
  <2> HIDE DEF q
  <2>4. ASSUME NEW h \in Int, NoRedRed(t), HasDepth(t, h)
        PROVE  NoRedRed(p) /\ ~IsRed(p) /\ HasDepth(p, h) /\ q.shorter = FALSE
    <3>1. NoRedRed(only) /\ (IsRed(t) => ~IsRed(only)) /\ h = Blacks(t) /\ HasDepth(only, 0)
      BY <1>2, <2>4
    <3>2. 0 - Blacks(only) \in Nat
      BY <1>1, <1>4, <3>1, DepthIs
    <3>3. IsRed(only)
      BY <3>2 DEF Blacks
    <3>4. h = 0 + 1
      BY <3>1, <3>3 DEF Blacks
    <3>5. /\ NoRedRed(only[side]) /\ NoRedRed(only[Other(side)])
          /\ HasDepth(only[side], 0) /\ HasDepth(only[Other(side)], 0)
      BY <1>1, <3>1, <3>3, UnderRed
    <3>6. NoRedRed(p) /\ ~IsRed(p) /\ HasDepth(p, 0 + 1)
      BY <2>2, <3>5, BlackNode
    <3>7. q.shorter = FALSE
      BY <2>3, <3>3, Zenon
    <3> QED
      BY <3>4, <3>6, <3>7
  <2>5. Shrinks(t, q)
    BY <2>3, <2>4 DEF Shrinks
  <2> QED
    BY <2>2, <2>3, <2>5 DEF q
<1> QED
  BY <1>3, <1>4

\* Levels, when a deletion goes down to a subtree.
LEMMA RoomToDelete ==
  ASSUME NEW n \in Nat, 2 * n <= Height, NEW t \in Trees[n], t # NULL, NEW side \in Side
  PROVE  /\ n \in 0 .. Height /\ t \in Tree /\ n - 1 \in Nat /\ 2 * (n - 1) <= Height
         /\ 2 * (n - 1) \in Nat /\ 2 * (n - 1) + 1 < Height /\ 2 * (n - 1) + 2 = 2 * n
         /\ t[side] \in Trees[n - 1] /\ t[Other(side)] \in Trees[n - 1]
         /\ Trees[n - 1] \subseteq Trees[2 * (n - 1)] /\ Trees[n] \subseteq Trees[2 * n]
         /\ t[side] \in Tree /\ t[Other(side)] \in Tree
<1>1. n \in 0 .. Height /\ 2 * n \in 0 .. Height /\ n \in 0 .. 2 * n
  BY Levels
<1>2. n - 1 \in Nat /\ t \in Tree /\ t[side] \in Trees[n - 1] /\ t[Other(side)] \in Trees[n - 1]
  BY <1>1, Lower
<1>3. /\ 2 * (n - 1) <= Height /\ 2 * (n - 1) \in Nat /\ 2 * (n - 1) + 1 < Height
      /\ 2 * (n - 1) + 2 = 2 * n /\ 2 * (n - 1) \in 0 .. Height /\ n - 1 \in 0 .. 2 * (n - 1)
  BY <1>1, <1>2, Levels
<1>4. Trees[n - 1] \subseteq Trees[2 * (n - 1)]
  BY <1>3, TreesGrow
<1>5. Trees[n] \subseteq Trees[2 * n]
  BY <1>1, TreesGrow
<1> QED
  BY <1>1, <1>2, <1>3, <1>4, <1>5, NodeFields

\* What DeleteRightmost leaves of t, from which it takes leaf.
TakesLast(t, leaf, r) ==
    /\ Shrinks(t, r)
    /\ Ordered(t) => /\ Ordered(r.tree)
                     /\ EntriesOf(t) = EntriesOf(r.tree) \union {<<leaf.key, leaf.value>>}
                     /\ \A k \in KeysIn(r.tree) : k < leaf.key

\* The keys and values on the left and on the right.
LEMMA LeftRight ==
  ASSUME NEW t \in Tree, t # NULL
  PROVE  /\ "left" \in Side /\ "right" \in Side /\ Other("left") = "right" /\ Other("right") = "left"
         /\ t["left"] = t.left /\ t["right"] = t.right /\ t.left \in Tree /\ t.right \in Tree
         /\ EntriesOf(t) = {<<t.key, t.value>>} \union EntriesOf(t.left) \union EntriesOf(t.right)
         /\ Ordered(t) <=> /\ Ordered(t.left) /\ Ordered(t.right)
                           /\ \A k \in KeysIn(t.left) : k < t.key
                           /\ \A k \in KeysIn(t.right) : t.key < k
<1>1. /\ "left" \in Side /\ "right" \in Side /\ Other("left") = "right" /\ Other("right") = "left"
      /\ t["left"] = t.left /\ t["right"] = t.right /\ t.left \in Tree /\ t.right \in Tree
  BY NodeFields DEF Side, Other, NodesOver
<1>2. EntriesOf(t) = {<<t.key, t.value>>} \union EntriesOf(t.left) \union EntriesOf(t.right)
  BY <1>1, Contents
<1>3. Ordered(t) <=> /\ Ordered(t.left) /\ Ordered(t.right)
                     /\ \A k \in KeysIn(t.left) : Before("left", k, t.key)
                     /\ \A k \in KeysIn(t.right) : Before("left", t.key, k)
  BY <1>1, OrderedIs
<1>4. Ordered(t) <=> /\ Ordered(t.left) /\ Ordered(t.right)
                     /\ \A k \in KeysIn(t.left) : k < t.key
                     /\ \A k \in KeysIn(t.right) : t.key < k
  BY <1>3 DEF Before
<1> QED
  BY <1>1, <1>2, <1>4

\* Fewer entries, fewer keys.
LEMMA FewerKeys ==
  ASSUME NEW x \in Tree, NEW y \in Tree, EntriesOf(x) \subseteq EntriesOf(y)
  PROVE  KeysIn(x) \subseteq KeysIn(y)
<1>1. KeysIn(x) = { e[1] : e \in EntriesOf(x) } /\ KeysIn(y) = { e[1] : e \in EntriesOf(y) }
  BY KeysOfTree
<1>2. { e[1] : e \in EntriesOf(x) } \subseteq { e[1] : e \in EntriesOf(y) }
  OBVIOUS
<1> QED
  BY <1>1, <1>2

\* One level of DeleteRightmost on the way back.
LEMMA DeleteRightmostStep ==
  ASSUME NEW n \in Nat, 2 * n <= Height, NEW t \in Trees[n], t # NULL, NEW leaf,
         NEW s, s = t.right, s # NULL, leaf \in Nodes(s),
         NEW p, p.tree \in Trees[2 * (n - 1)], TakesLast(s, leaf, p),
         NEW r, r = Shrunk(t, "right", p)
  PROVE  r.tree \in Trees[2 * n] /\ TakesLast(t, leaf, r)
<1> DEFINE z == t.left
           m == 2 * (n - 1)
<1>0. "right" \in Side
  BY DEF Side
<1>1. /\ t \in Tree /\ m \in Nat /\ m + 1 < Height /\ m + 2 = 2 * n /\ m < Height
      /\ t[Other("right")] \in Trees[m]
  <2>1. /\ t \in Tree /\ 2 * (n - 1) \in Nat /\ 2 * (n - 1) + 1 < Height /\ 2 * (n - 1) + 2 = 2 * n
        /\ t[Other("right")] \in Trees[n - 1] /\ Trees[n - 1] \subseteq Trees[2 * (n - 1)]
    BY <1>0, RoomToDelete
  <2> HIDE DEF z
  <2>2. m = 2 * (n - 1)
    OBVIOUS
  <2> HIDE DEF m
  <2>3. m < Height
    BY <2>1, <2>2, Levels
  <2> QED
    BY <2>1, <2>2, <2>3
<1>2. /\ Other("right") = "left" /\ t["left"] = z /\ t["right"] = s /\ z \in Tree /\ s \in Tree
      /\ EntriesOf(t) = {<<t.key, t.value>>} \union EntriesOf(z) \union EntriesOf(s)
      /\ Ordered(t) <=> /\ Ordered(z) /\ Ordered(s)
                        /\ \A k \in KeysIn(z) : k < t.key
                        /\ \A k \in KeysIn(s) : t.key < k
  BY <1>1, LeftRight
<1> HIDE DEF m, z
<1>3. Shrinks(t["right"], p) /\ p.tree \in Trees[m]
  BY <1>2 DEF TakesLast, m
<1>4. /\ r.tree \in Trees[m + 2] /\ r.tree # NULL /\ Shrinks(t, r)
      /\ \E a \in Tree : NodeIs(a, t, t.color, "right", p.tree, z) /\ Same(r.tree, a)
  <2>1. z = t[Other("right")]
    BY <1>2
  <2>2. /\ Shrunk(t, "right", p).tree \in Trees[m + 2] /\ Shrunk(t, "right", p).tree # NULL
        /\ Shrinks(t, Shrunk(t, "right", p))
        /\ \E a \in Tree : /\ NodeIs(a, t, t.color, "right", p.tree, t[Other("right")])
                           /\ Same(Shrunk(t, "right", p).tree, a)
    BY <1>0, <1>1, <1>3, ShrunkHolds
  <2> QED
    BY <2>1, <2>2
<1>5. PICK a \in Tree : NodeIs(a, t, t.color, "right", p.tree, z) /\ Same(r.tree, a)
  BY <1>4
<1>6. /\ a # NULL /\ a.key = t.key /\ a.value = t.value /\ a.right = p.tree /\ a.left = z
  <2>1. a # NULL /\ a["left"] = a.left /\ a["right"] = a.right
    BY <1>5, LeftRight DEF NodeIs
  <2> QED
    BY <1>2, <1>5, <2>1 DEF NodeIs
<1>7. /\ EntriesOf(a) = {<<t.key, t.value>>} \union EntriesOf(z) \union EntriesOf(p.tree)
      /\ Ordered(a) <=> /\ Ordered(z) /\ Ordered(p.tree)
                        /\ \A k \in KeysIn(z) : k < t.key
                        /\ \A k \in KeysIn(p.tree) : t.key < k
  BY <1>6, LeftRight
<1>8. ASSUME Ordered(t)
      PROVE  /\ Ordered(r.tree) /\ EntriesOf(t) = EntriesOf(r.tree) \union {<<leaf.key, leaf.value>>}
             /\ \A k \in KeysIn(r.tree) : k < leaf.key
  <2>1. /\ Ordered(p.tree) /\ EntriesOf(s) = EntriesOf(p.tree) \union {<<leaf.key, leaf.value>>}
        /\ \A k \in KeysIn(p.tree) : k < leaf.key
    BY <1>2, <1>8 DEF TakesLast
  <2>2. p.tree \in Tree /\ r.tree \in Tree
    BY <1>1, <1>3, <1>4, LevelsOf, Room
  <2>3. KeysIn(p.tree) \subseteq KeysIn(s)
    BY <1>2, <2>1, <2>2, FewerKeys
  <2>4. Ordered(a)
    BY <1>2, <1>7, <1>8, <2>1, <2>3
  <2>5. Ordered(r.tree) /\ EntriesOf(r.tree) = EntriesOf(a) /\ KeysIn(r.tree) = KeysIn(a)
    BY <1>5, <2>2, <2>4, SameKeys DEF Same
  <2>6. EntriesOf(t) = EntriesOf(r.tree) \union {<<leaf.key, leaf.value>>}
    BY <1>2, <1>7, <2>1, <2>5
  <2>7. KeysIn(a) = {t.key} \union KeysIn(p.tree) \union KeysIn(z)
    BY <1>0, <1>5, Contents DEF NodeIs
  <2>8. leaf.key \in KeysIn(s) /\ leaf.key \in Int /\ t.key \in Int /\ KeysIn(z) \subseteq Int
    BY <1>1, <1>2, KeysOfTree, NodeFields DEF KeysIn
  <2>9. t.key < leaf.key /\ \A k \in KeysIn(z) : k < leaf.key
    BY <1>2, <1>8, <2>8
  <2> QED
    BY <2>1, <2>5, <2>6, <2>7, <2>9
<1>9. TakesLast(t, leaf, r)
  BY <1>4, <1>8 DEF TakesLast
<1> QED
  BY <1>1, <1>4, <1>9

\* DeleteRightmost (sglib___rbtree_delete_rightmost_leaf, sglib.h:1645-1666).
LEMMA DeleteRightmostHolds ==
  \A t \in Tree : t # NULL =>
    /\ Rightmost(t) \in Nodes(t)
    /\ \A n \in Nat : 2 * n <= Height /\ t \in Trees[n] =>
         /\ DeleteRightmost(t).tree \in Trees[2 * n]
         /\ TakesLast(t, Rightmost(t), DeleteRightmost(t))
<1> DEFINE Ok(t, n) == /\ DeleteRightmost(t).tree \in Trees[2 * n]
                       /\ TakesLast(t, Rightmost(t), DeleteRightmost(t))
           S == { t \in Tree : t # NULL =>
                    /\ Rightmost(t) \in Nodes(t)
                    /\ \A n \in Nat : 2 * n <= Height /\ t \in Trees[n] => Ok(t, n) }
<1>1. NULL \in S
  BY Empty
<1>2. ASSUME NEW t \in Tree \ {NULL}, t.left \in S, t.right \in S PROVE t \in S
  <2>1. /\ Rightmost(t) = IF t.right = NULL THEN t ELSE Rightmost(t.right)
        /\ DeleteRightmost(t) = IF t.right = NULL THEN WithoutRoot(t, t.left)
                                ELSE Shrunk(t, "right", DeleteRightmost(t.right))
    BY RightmostIs, DeleteRightmostIs
  <2>2. /\ "left" \in Side /\ "right" \in Side /\ Other("left") = "right" /\ Other("right") = "left"
        /\ t["left"] = t.left /\ t["right"] = t.right /\ t.left \in Tree /\ t.right \in Tree
        /\ EntriesOf(t) = {<<t.key, t.value>>} \union EntriesOf(t.left) \union EntriesOf(t.right)
        /\ Ordered(t) <=> /\ Ordered(t.left) /\ Ordered(t.right)
                          /\ \A k \in KeysIn(t.left) : k < t.key
                          /\ \A k \in KeysIn(t.right) : t.key < k
    BY LeftRight
  <2>3. CASE t.right = NULL
    <3>1. Rightmost(t) = t /\ t \in Nodes(t) /\ DeleteRightmost(t) = WithoutRoot(t, t.left)
      BY <2>1, <2>3, NodesOfTree
    <3>2. ASSUME NEW n \in Nat, 2 * n <= Height, t \in Trees[n] PROVE Ok(t, n)
      <4> DEFINE q == WithoutRoot(t, t.left)
      <4>1. n \in 0 .. Height /\ Trees[n] \subseteq Trees[2 * n] /\ 2 * n \in 0 .. Height
        <5>1. n \in 0 .. Height /\ Trees[n] \subseteq Trees[2 * n]
          BY <2>2, <3>2, RoomToDelete
        <5> QED
          BY <3>2, <5>1
      <4>2. q.tree \in Trees[n] /\ Shrinks(t, q) /\ Same(q.tree, t.left)
        <5>1. t.left = t["left"] /\ t[Other("left")] = NULL
          BY <2>2, <2>3
        <5> QED
          BY <2>2, <3>2, <4>1, <5>1, WithoutRootHolds
      <4> HIDE DEF q
      <4>3. q.tree \in Tree
        BY <4>1, <4>2, SubtreesOf, Empty
      <4>4. ASSUME Ordered(t)
            PROVE  /\ Ordered(q.tree) /\ EntriesOf(t) = EntriesOf(q.tree) \union {<<t.key, t.value>>}
                   /\ \A k \in KeysIn(q.tree) : k < t.key
        <5>1. KeysIn(q.tree) = KeysIn(t.left)
          BY <2>2, <4>2, <4>3, SameKeys
        <5> QED
          BY <2>2, <2>3, <4>2, <4>4, <5>1, Empty DEF Same
      <4>5. TakesLast(t, t, q)
        BY <4>2, <4>4 DEF TakesLast
      <4> QED
        BY <3>1, <4>1, <4>2, <4>5 DEF q
    <3> QED
      BY <3>1, <3>2
  <2>4. CASE t.right # NULL
    <3>1. /\ Rightmost(t) = Rightmost(t.right)
          /\ DeleteRightmost(t) = Shrunk(t, "right", DeleteRightmost(t.right))
      BY <2>1, <2>4
    <3>2. Rightmost(t.right) \in Nodes(t.right) /\ Nodes(t.right) \subseteq Nodes(t)
      BY <1>2, <2>4, NodesAre
    <3>3. ASSUME NEW n \in Nat, 2 * n <= Height, t \in Trees[n] PROVE Ok(t, n)
      <4>1. n - 1 \in Nat /\ 2 * (n - 1) <= Height /\ t.right \in Trees[n - 1]
        <5>1. n - 1 \in Nat /\ 2 * (n - 1) <= Height /\ t["right"] \in Trees[n - 1]
          BY <2>2, <3>3, RoomToDelete
        <5> QED
          BY <2>2, <5>1
      <4>2. Ok(t.right, n - 1)
        <5> HIDE DEF Ok
        <5> QED
          BY <1>2, <2>4, <4>1
      <4>3. /\ DeleteRightmost(t).tree \in Trees[2 * n]
            /\ TakesLast(t, Rightmost(t.right), DeleteRightmost(t))
        BY <2>4, <3>1, <3>2, <3>3, <4>1, <4>2, DeleteRightmostStep
      <4> QED
        BY <3>1, <4>3
    <3> HIDE DEF Ok
    <3> QED
      BY <3>1, <3>2, <3>3
  <2> QED
    BY <2>3, <2>4
<1> HIDE DEF S
<1>3. Tree \subseteq S
  BY <1>1, <1>2, TreeInduction
<1> QED
  BY <1>3 DEF S

\* What DeleteRecursive leaves of t without key.
Deletes(t, key, r) ==
    Shrinks(t, r) /\ Ordered(r.tree) /\ EntriesOf(r.tree) = { e \in EntriesOf(t) : e[1] # key }

\* One level of DeleteRecursive on the way back.
LEMMA DeleteBelow ==
  ASSUME NEW n \in Nat, 2 * n <= Height, NEW t \in Trees[n], t # NULL, Ordered(t),
         NEW key \in Keys, key # t.key, NEW side, side = SideOf(t, key), NEW s, s = t[side],
         NEW p, p.tree \in Trees[2 * (n - 1)], Deletes(s, key, p),
         NEW r, r = Shrunk(t, side, p)
  PROVE  r.tree \in Trees[2 * n] /\ Deletes(t, key, r)
<1> DEFINE z == t[Other(side)]
           m == 2 * (n - 1)
<1>0. t \in Tree /\ side \in Side
  BY LevelsOf, SideOfKey, SubtreesOf, Levels
<1>1. /\ m \in Nat /\ m + 1 < Height /\ m + 2 = 2 * n /\ m < Height /\ z \in Trees[m]
      /\ s \in Tree /\ z \in Tree
  <2>1. /\ t \in Tree /\ 2 * (n - 1) \in Nat /\ 2 * (n - 1) + 1 < Height /\ 2 * (n - 1) + 2 = 2 * n
        /\ t[Other(side)] \in Trees[n - 1] /\ Trees[n - 1] \subseteq Trees[2 * (n - 1)]
        /\ t[side] \in Tree /\ t[Other(side)] \in Tree
    BY <1>0, RoomToDelete
  <2>2. m = 2 * (n - 1) /\ z = t[Other(side)]
    OBVIOUS
  <2> HIDE DEF m, z
  <2>3. m < Height
    BY <2>1, <2>2, Levels
  <2> QED
    BY <2>1, <2>2, <2>3
<1>2. p.tree \in Trees[m] /\ Shrinks(t[side], p)
  BY DEF Deletes
<1>3. z = t[Other(side)]
  OBVIOUS
<1> HIDE DEF m
<1>4. /\ r.tree \in Trees[m + 2] /\ r.tree # NULL /\ Shrinks(t, r)
      /\ \E a \in Tree : NodeIs(a, t, t.color, side, p.tree, z) /\ Same(r.tree, a)
  <2>1. /\ Shrunk(t, side, p).tree \in Trees[m + 2] /\ Shrunk(t, side, p).tree # NULL
        /\ Shrinks(t, Shrunk(t, side, p))
        /\ \E a \in Tree : NodeIs(a, t, t.color, side, p.tree, z) /\ Same(Shrunk(t, side, p).tree, a)
    <3> HIDE DEF z
    <3> QED
      BY <1>0, <1>1, <1>2, <1>3, ShrunkHolds
  <2> QED
    BY <2>1
<1>5. PICK a \in Tree : NodeIs(a, t, t.color, side, p.tree, z) /\ Same(r.tree, a)
  BY <1>4
<1> HIDE DEF z
<1>6. p.tree \in Tree /\ r.tree \in Tree /\ t.color \in {RED, BLACK}
  BY <1>0, <1>1, <1>2, <1>4, LevelsOf, Room, NodeFields
<1>7. /\ Ordered(s) /\ Ordered(z)
      /\ \A k \in KeysIn(s) : Before(side, k, t.key)
      /\ \A k \in KeysIn(z) : Before(side, t.key, k)
  BY <1>0, <1>3, OrderedIs
<1>8. EntriesOf(p.tree) = { e \in EntriesOf(s) : e[1] # key } /\ Ordered(p.tree)
  BY DEF Deletes
<1>9. KeysIn(p.tree) \subseteq KeysIn(s)
  BY <1>1, <1>6, <1>8, FewerKeys
<1>10. Ordered(a)
  <2>1. Ordered(a) <=> /\ Ordered(p.tree) /\ Ordered(z)
                       /\ \A k \in KeysIn(p.tree) : Before(side, k, t.key)
                       /\ \A k \in KeysIn(z) : Before(side, t.key, k)
    BY <1>0, <1>5, <1>6, NodeHolds
  <2> QED
    BY <1>7, <1>8, <1>9, <2>1
<1>11. EntriesOf(a) = {<<t.key, t.value>>} \union EntriesOf(p.tree) \union EntriesOf(z)
  BY <1>0, <1>5, Contents DEF NodeIs
<1>12. { e \in EntriesOf(t) : e[1] # key }
         = {<<t.key, t.value>>} \union { e \in EntriesOf(s) : e[1] # key } \union EntriesOf(z)
  BY <1>0, <1>3, OtherEntries
<1>13. Ordered(r.tree) /\ EntriesOf(r.tree) = { e \in EntriesOf(t) : e[1] # key }
  BY <1>5, <1>8, <1>10, <1>11, <1>12 DEF Same
<1> QED
  BY <1>1, <1>4, <1>13 DEF Deletes

\* The key is in the root, which has no left subtree.
LEMMA DeleteHere ==
  ASSUME NEW n \in Nat, 2 * n <= Height, NEW t \in Trees[n], t # NULL, Ordered(t),
         t.key \in Keys, t.left = NULL, NEW r, r = WithoutRoot(t, t.right)
  PROVE  r.tree \in Trees[2 * n] /\ Deletes(t, t.key, r)
<1>0. "right" \in Side
  BY DEF Side
<1>1. n \in 0 .. Height /\ t \in Tree /\ Trees[n] \subseteq Trees[2 * n] /\ 2 * n \in 0 .. Height
  <2>1. n \in 0 .. Height /\ t \in Tree /\ Trees[n] \subseteq Trees[2 * n]
    BY <1>0, RoomToDelete
  <2> QED
    BY <2>1
<1>2. /\ Other("right") = "left" /\ t["left"] = t.left /\ t["right"] = t.right /\ t.right \in Tree
      /\ Ordered(t.right)
  BY <1>1, LeftRight
<1>3. r.tree \in Trees[n] /\ Shrinks(t, r) /\ Same(r.tree, t.right)
  <2>1. t.right = t["right"] /\ t[Other("right")] = NULL
    BY <1>2
  <2> QED
    BY <1>0, <1>1, <2>1, WithoutRootHolds
<1>4. { e \in EntriesOf(t) : e[1] # t.key } = EntriesOf(t.right)
  <2>1. t.key \in Int
    BY <1>1, NodeFields
  <2>2. SideOf(t, t.key) = "right"
    BY <2>1 DEF SideOf
  <2>3. { e \in EntriesOf(t) : e[1] # t.key } = EntriesOf(t["right"]) \union EntriesOf(t[Other("right")])
    BY <1>1, <2>2, OtherEntries
  <2> QED
    BY <1>2, <2>3, Empty
<1>5. Deletes(t, t.key, r)
  BY <1>2, <1>3, <1>4 DEF Deletes, Same
<1> QED
  BY <1>1, <1>3, <1>5

\* The key is in the root, which gets the entry of the rightmost node on the left.
LEMMA DeleteAbove ==
  ASSUME NEW n \in Nat, 2 * n <= Height, NEW t \in Trees[n], t # NULL, Ordered(t),
         t.key \in Keys, t.left # NULL, NEW leaf, leaf \in Nodes(t.left),
         NEW p, p.tree \in Trees[2 * (n - 1)], TakesLast(t.left, leaf, p),
         NEW u, u = [t EXCEPT !.key = leaf.key, !.value = leaf.value],
         NEW r, r = Shrunk(u, "left", p)
  PROVE  r.tree \in Trees[2 * n] /\ Deletes(t, t.key, r)
<1> DEFINE z == t.right
           s == t.left
           m == 2 * (n - 1)
<1>0. "left" \in Side
  BY DEF Side
<1>1. /\ t \in Tree /\ m \in Nat /\ m + 1 < Height /\ m + 2 = 2 * n /\ m < Height
      /\ t[Other("left")] \in Trees[m]
  <2>1. /\ t \in Tree /\ 2 * (n - 1) \in Nat /\ 2 * (n - 1) + 1 < Height /\ 2 * (n - 1) + 2 = 2 * n
        /\ t[Other("left")] \in Trees[n - 1] /\ Trees[n - 1] \subseteq Trees[2 * (n - 1)]
    BY <1>0, RoomToDelete
  <2> HIDE DEF z, s
  <2>2. m = 2 * (n - 1)
    OBVIOUS
  <2> HIDE DEF m
  <2>3. m < Height
    BY <2>1, <2>2, Levels
  <2> QED
    BY <2>1, <2>2, <2>3
<1>2. /\ Other("left") = "right" /\ t["left"] = s /\ t["right"] = z /\ z \in Tree /\ s \in Tree
      /\ EntriesOf(t) = {<<t.key, t.value>>} \union EntriesOf(s) \union EntriesOf(z)
      /\ Ordered(s) /\ Ordered(z)
      /\ \A k \in KeysIn(s) : k < t.key
      /\ \A k \in KeysIn(z) : t.key < k
  BY <1>1, LeftRight
<1>3. leaf \in Tree /\ leaf # NULL /\ leaf.key \in Keys /\ leaf.value \in Values /\ leaf.key \in KeysIn(s)
      /\ leaf.key \in Int
  BY <1>2, NodesOfTree, NodeFields DEF KeysIn
<1>4. /\ u \in Tree /\ u # NULL /\ u.key = leaf.key /\ u.value = leaf.value /\ u.color = t.color
      /\ u["left"] = s /\ u["right"] = z
  <2>1. PICK k \in Nat : k < Height /\ t \in NodesOver(Trees[k])
    <3>1. n \in 0 .. Height
      BY Levels
    <3>2. n - 1 \in Nat /\ n - 1 < Height /\ t \in NodesOver(Trees[n - 1])
      BY <3>1, SubtreesOf, Levels
    <3> QED
      BY <3>2
  <2>2. /\ u \in NodesOver(Trees[k]) /\ u.key = leaf.key /\ u.value = leaf.value /\ u.color = t.color
        /\ u["left"] = s /\ u["right"] = z
    BY <1>3, <2>1 DEF NodesOver
  <2> QED
    BY <2>1, <2>2, LevelsOf
<1>5. /\ IsRed(u) <=> IsRed(t)
      /\ NoRedRed(t) => NoRedRed(u)
      /\ \A h \in Int : HasDepth(t, h) => HasDepth(u, h)
  <2>1. u["left"] = t["left"] /\ u[Other("left")] = t[Other("left")]
    BY <1>2, <1>4
  <2>2. \A q \in Tree : /\ q # NULL /\ q.color = t.color /\ q["left"] = t["left"]
                       /\ q[Other("left")] = t[Other("left")]
                       => /\ IsRed(q) <=> IsRed(t)
                          /\ NoRedRed(t) => NoRedRed(q)
                          /\ \A h \in Int : HasDepth(t, h) => HasDepth(q, h)
    BY <1>0, <1>1, SameColor
  <2> QED
    BY <1>4, <2>1, <2>2, Zenon
<1>6. Shrinks(u["left"], p) /\ p.tree \in Trees[m] /\ u[Other("left")] \in Trees[m]
      /\ u[Other("left")] = z
  BY <1>1, <1>2, <1>4 DEF TakesLast
<1> HIDE DEF m, s, z
<1>7. /\ r.tree \in Trees[m + 2] /\ r.tree # NULL /\ Shrinks(u, r)
      /\ \E a \in Tree : NodeIs(a, u, u.color, "left", p.tree, z) /\ Same(r.tree, a)
  <2>1. \A v \in Tree : v # NULL /\ Shrinks(v["left"], p) /\ v[Other("left")] \in Trees[m] =>
          /\ Shrunk(v, "left", p).tree \in Trees[m + 2] /\ Shrunk(v, "left", p).tree # NULL
          /\ Shrinks(v, Shrunk(v, "left", p))
          /\ \E a \in Tree : /\ NodeIs(a, v, v.color, "left", p.tree, v[Other("left")])
                             /\ Same(Shrunk(v, "left", p).tree, a)
    BY <1>0, <1>1, <1>6, ShrunkHolds
  <2>2. /\ Shrunk(u, "left", p).tree \in Trees[m + 2] /\ Shrunk(u, "left", p).tree # NULL
        /\ Shrinks(u, Shrunk(u, "left", p))
        /\ \E a \in Tree : /\ NodeIs(a, u, u.color, "left", p.tree, u[Other("left")])
                           /\ Same(Shrunk(u, "left", p).tree, a)
    BY <1>4, <1>6, <2>1
  <2> QED
    BY <1>6, <2>2
<1>8. PICK a \in Tree : NodeIs(a, u, u.color, "left", p.tree, z) /\ Same(r.tree, a)
  BY <1>7
<1>9. Shrinks(t, r)
  BY <1>5, <1>7 DEF Shrinks
<1>10. p.tree \in Tree /\ r.tree \in Tree /\ u.color \in {RED, BLACK}
  BY <1>0, <1>1, <1>4, <1>6, <1>7, LevelsOf, Room, NodeFields
<1>11. /\ Ordered(p.tree) /\ EntriesOf(s) = EntriesOf(p.tree) \union {<<leaf.key, leaf.value>>}
       /\ \A k \in KeysIn(p.tree) : k < leaf.key
  BY <1>2 DEF TakesLast, s
<1>12. Ordered(a)
  <2>1. Ordered(a) <=> /\ Ordered(p.tree) /\ Ordered(z)
                       /\ \A k \in KeysIn(p.tree) : Before("left", k, leaf.key)
                       /\ \A k \in KeysIn(z) : Before("left", leaf.key, k)
    <3>1. /\ a # NULL /\ a.key = leaf.key /\ a["left"] = p.tree /\ a[Other("left")] = z
      BY <1>4, <1>8 DEF NodeIs
    <3>2. Ordered(a) <=> /\ Ordered(a["left"]) /\ Ordered(a[Other("left")])
                         /\ \A k \in KeysIn(a["left"]) : Before("left", k, a.key)
                         /\ \A k \in KeysIn(a[Other("left")]) : Before("left", a.key, k)
      BY <1>0, <3>1, OrderedIs
    <3> QED
      BY <3>1, <3>2
  <2>2. \A k \in KeysIn(p.tree) : Before("left", k, leaf.key)
    BY <1>11 DEF Before
  <2>3. KeysIn(z) \subseteq Int /\ t.key \in Int
    BY <1>1, <1>2, KeysOfTree, NodeFields
  <2>4. leaf.key < t.key
    BY <1>2, <1>3
  <2>5. \A k \in KeysIn(z) : leaf.key < k
    BY <1>2, <1>3, <2>3, <2>4
  <2>6. \A k \in KeysIn(z) : Before("left", leaf.key, k)
    BY <2>5 DEF Before
  <2> QED
    BY <1>2, <1>11, <2>1, <2>2, <2>6
<1>13. EntriesOf(a) = {<<leaf.key, leaf.value>>} \union EntriesOf(p.tree) \union EntriesOf(z)
  <2>1. /\ a # NULL /\ a.key = leaf.key /\ a.value = leaf.value
        /\ a["left"] = p.tree /\ a[Other("left")] = z
    BY <1>4, <1>8 DEF NodeIs
  <2>2. EntriesOf(a) = {<<a.key, a.value>>} \union EntriesOf(a["left"]) \union EntriesOf(a[Other("left")])
    BY <1>0, <2>1, Contents
  <2> QED
    BY <2>1, <2>2
<1>14. { e \in EntriesOf(t) : e[1] # t.key } = EntriesOf(s) \union EntriesOf(z)
  <2>1. t.key \in Int
    BY <1>1, NodeFields
  <2>2. SideOf(t, t.key) = "right" /\ Other("right") = "left"
    BY <2>1 DEF SideOf, Other
  <2>3. { e \in EntriesOf(t) : e[1] # t.key } = EntriesOf(t["right"]) \union EntriesOf(t[Other("right")])
    BY <1>1, <2>2, OtherEntries
  <2> QED
    BY <1>2, <2>2, <2>3
<1>15. Ordered(r.tree) /\ EntriesOf(r.tree) = { e \in EntriesOf(t) : e[1] # t.key }
  BY <1>8, <1>11, <1>12, <1>13, <1>14 DEF Same
<1> QED
  BY <1>1, <1>7, <1>9, <1>15 DEF Deletes

\* DeleteRecursive (sglib___rbtree_delete_recursive, sglib.h:1668-1711) of a key that is there.
LEMMA DeleteRecursiveHolds ==
  ASSUME NEW key \in Keys
  PROVE  \A t \in Tree : Ordered(t) /\ key \in KeysIn(t) =>
            \A n \in Nat : 2 * n <= Height /\ t \in Trees[n] =>
               /\ DeleteRecursive(t, key).tree \in Trees[2 * n]
               /\ Deletes(t, key, DeleteRecursive(t, key))
<1> DEFINE del(t) == DeleteRecursive(t, key)
           Ok(t, n) == del(t).tree \in Trees[2 * n] /\ Deletes(t, key, del(t))
           S == { t \in Tree : Ordered(t) /\ key \in KeysIn(t) =>
                    \A n \in Nat : 2 * n <= Height /\ t \in Trees[n] => Ok(t, n) }
<1>1. NULL \in S
  BY Empty
<1>2. ASSUME NEW t \in Tree \ {NULL}, t.left \in S, t.right \in S PROVE t \in S
  <2> SUFFICES ASSUME Ordered(t), key \in KeysIn(t), NEW n \in Nat, 2 * n <= Height, t \in Trees[n]
               PROVE  Ok(t, n)
    OBVIOUS
  <2> DEFINE side == SideOf(t, key)
             s == t[side]
             leaf == Rightmost(t.left)
             u == [t EXCEPT !.key = leaf.key, !.value = leaf.value]
  <2>1. del(t) = IF t.key # key THEN Shrunk(t, side, del(s))
                 ELSE IF t.left = NULL THEN WithoutRoot(t, t.right)
                 ELSE Shrunk(u, "left", DeleteRightmost(t.left))
    BY DeleteRecursiveIs
  <2>2. side \in Side /\ s \in S
    BY <1>2, OnSide
  <2>3. n - 1 \in Nat /\ 2 * (n - 1) <= Height /\ s \in Trees[n - 1] /\ t.left \in Trees[n - 1]
        /\ t.left \in Tree
    <3>1. n - 1 \in Nat /\ 2 * (n - 1) <= Height /\ s \in Trees[n - 1]
      BY <2>2, RoomToDelete
    <3>2. "left" \in Side /\ t["left"] = t.left /\ t.left \in Tree
      BY LeftRight
    <3>3. t["left"] \in Trees[n - 1]
      BY <3>2, RoomToDelete
    <3> QED
      BY <3>1, <3>2, <3>3
  <2> HIDE DEF del
  <2>4. CASE t.key # key
    <3>1. Ordered(s) /\ key \in KeysIn(s)
      BY <2>4, KeyOnItsSide
    <3>2. Ok(s, n - 1)
      <4> HIDE DEF Ok, s
      <4> QED
        BY <2>2, <2>3, <3>1
    <3>3. del(t) = Shrunk(t, side, del(s))
      BY <2>1, <2>4
    <3> HIDE DEF u, leaf
    <3> QED
      BY <2>4, <3>2, <3>3, DeleteBelow
  <2>5. CASE t.key = key /\ t.left = NULL
    <3>1. del(t) = WithoutRoot(t, t.right)
      BY <2>1, <2>5
    <3> HIDE DEF u, leaf, s, side
    <3> QED
      BY <2>5, <3>1, DeleteHere
  <2>6. CASE t.key = key /\ t.left # NULL
    <3>1. del(t) = Shrunk(u, "left", DeleteRightmost(t.left))
      BY <2>1, <2>6
    <3>2. /\ leaf \in Nodes(t.left)
          /\ DeleteRightmost(t.left).tree \in Trees[2 * (n - 1)]
          /\ TakesLast(t.left, leaf, DeleteRightmost(t.left))
      BY <2>3, <2>6, DeleteRightmostHolds
    <3>3. u = [t EXCEPT !.key = leaf.key, !.value = leaf.value]
      OBVIOUS
    <3> HIDE DEF u, leaf, s, side
    <3> QED
      BY <2>6, <3>1, <3>2, <3>3, DeleteAbove
  <2> QED
    BY <2>4, <2>5, <2>6
<1> HIDE DEF S
<1>3. Tree \subseteq S
  BY <1>1, <1>2, TreeInduction
<1> QED
  BY <1>3 DEF S

\* Delete (sglib_rbtree_delete, sglib.h:1719-1722) of a key that is there.
LEMMA DeleteHolds ==
  ASSUME NEW key \in Keys, NEW n \in Nat, 2 * n <= Height, NEW t \in Trees[n], t \in Tree,
         Ordered(t), RedBlack(t), key \in KeysIn(t)
  PROVE  LET r == Delete(t, key)
         IN  /\ r \in Trees[2 * n] /\ EntriesOf(r) = { e \in EntriesOf(t) : e[1] # key }
             /\ Ordered(r) /\ RedBlack(r)
<1> DEFINE q == DeleteRecursive(t, key)
           r == Delete(t, key)
<1>1. q.tree \in Trees[2 * n] /\ Deletes(t, key, q)
  BY DeleteRecursiveHolds
<1>2. r = IF q.tree = NULL THEN NULL ELSE Painted(q.tree, BLACK)
  BY DEF Delete
<1> HIDE DEF q, r
<1>3. /\ Ordered(q.tree) /\ EntriesOf(q.tree) = { e \in EntriesOf(t) : e[1] # key }
  BY <1>1 DEF Deletes
<1>4. PICK h \in Int : HasDepth(t, h)
  BY DEF RedBlack
<1>5. NoRedRed(q.tree) /\ HasDepth(q.tree, IF q.shorter THEN h - 1 ELSE h)
  BY <1>1, <1>4 DEF RedBlack, Deletes, Shrinks
<1>6. PICK i \in Int : HasDepth(q.tree, i)
  <2>1. (IF q.shorter THEN h - 1 ELSE h) \in Int
    OBVIOUS
  <2> QED
    BY <1>5, <2>1
<1>7. CASE q.tree = NULL
  <2>1. r = NULL
    BY <1>2, <1>7
  <2>2. RedBlack(NULL)
    BY Empty DEF RedBlack
  <2> QED
    BY <1>1, <1>3, <1>7, <2>1, <2>2 DEF r
<1>8. CASE q.tree # NULL
  <2>1. r = Painted(q.tree, BLACK)
    BY <1>2, <1>8
  <2>2. 2 * n \in 0 .. Height /\ BLACK \in {RED, BLACK} /\ "left" \in Side
    BY Levels DEF Side
  <2>3. q.tree \in Tree
    BY <1>1, <1>8, <2>2, SubtreesOf
  <2>4. r \in Trees[2 * n] /\ Same(r, q.tree)
    BY <1>1, <1>8, <2>1, <2>2, <2>3, PaintedIs, PaintedSame
  <2>5. RedBlack(r)
    <3>1. Grown(q.tree)
      BY <1>5, <1>8, <2>2, <2>3, GrownIs
    <3> QED
      BY <1>6, <1>8, <2>1, <2>3, <3>1, PaintedBlack
  <2> QED
    BY <1>3, <2>4, <2>5 DEF r, Same
<1> QED
  BY <1>7, <1>8

\* A tree in order has no more levels than keys.
LEMMA LevelsByKeys ==
  \A t \in Tree : Ordered(t) =>
     \A n \in 0 .. Height : Cardinality(KeysIn(t)) <= n => t \in Trees[n]
<1> DEFINE S == { t \in Tree : Ordered(t) =>
                    \A n \in 0 .. Height : Cardinality(KeysIn(t)) <= n => t \in Trees[n] }
<1>1. NULL \in S
  <2>1. \A n \in 0 .. Height : NULL \in Trees[n]
    <3> TAKE n \in 0 .. Height
    <3>1. Trees[0] = {NULL} /\ 0 \in 0 .. n
      BY TreesAre
    <3> QED
      BY <3>1, TreesGrow
  <2> QED
    BY <2>1, Empty
<1>2. ASSUME NEW t \in Tree \ {NULL}, t.left \in S, t.right \in S PROVE t \in S
  <2> SUFFICES ASSUME Ordered(t), NEW n \in 0 .. Height, Cardinality(KeysIn(t)) <= n
               PROVE  t \in Trees[n]
    OBVIOUS
  <2>1. /\ Ordered(t.left) /\ Ordered(t.right) /\ t.left \in Tree /\ t.right \in Tree
        /\ \A k \in KeysIn(t.left) : k < t.key
        /\ \A k \in KeysIn(t.right) : t.key < k
    BY LeftRight
  <2>2. KeysIn(t) = {t.key} \union KeysIn(t.left) \union KeysIn(t.right)
    BY LeftRight, Contents
  <2>3. t.key \in KeysIn(t) /\ t.key \in Int /\ IsFiniteSet(KeysIn(t))
        /\ KeysIn(t.left) \subseteq Int /\ KeysIn(t.right) \subseteq Int
    BY <2>1, KeysOfTree, NodeFields
  <2> DEFINE K == KeysIn(t) \ {t.key}
  <2>4. IsFiniteSet(K) /\ Cardinality(K) = Cardinality(KeysIn(t)) - 1 /\ Cardinality(KeysIn(t)) \in Nat
    BY <2>3, FS_RemoveElement, FS_CardinalityType
  <2>5. KeysIn(t.left) \subseteq K /\ KeysIn(t.right) \subseteq K
    BY <2>1, <2>2, <2>3
  <2> HIDE DEF K
  <2>6. /\ IsFiniteSet(KeysIn(t.left)) /\ Cardinality(KeysIn(t.left)) <= Cardinality(K)
        /\ IsFiniteSet(KeysIn(t.right)) /\ Cardinality(KeysIn(t.right)) <= Cardinality(K)
    BY <2>4, <2>5, FS_Subset
  <2>7. Cardinality(KeysIn(t.left)) \in Nat /\ Cardinality(KeysIn(t.right)) \in Nat
    BY <2>6, FS_CardinalityType
  <2>8. Cardinality(K) \in Nat
    BY <2>4, FS_CardinalityType
  <2>9. /\ n > 0 /\ n - 1 \in 0 .. Height /\ n - 1 \in Nat /\ n - 1 < Height /\ (n - 1) + 1 = n
        /\ Cardinality(KeysIn(t.left)) <= n - 1 /\ Cardinality(KeysIn(t.right)) <= n - 1
    BY <2>4, <2>6, <2>7, <2>8, Levels
  <2>10. t.left \in Trees[n - 1] /\ t.right \in Trees[n - 1]
    BY <1>2, <2>1, <2>9
  <2>11. t \in NodesOver(Trees[n - 1])
    <3>1. t \in NodesOver(Tree)
      BY NodeFields
    <3> QED
      BY <2>10, <3>1 DEF NodesOver
  <2> QED
    BY <2>9, <2>11, LevelsOf
<1> HIDE DEF S
<1>3. Tree \subseteq S
  BY <1>1, <1>2, TreeInduction
<1> QED
  BY <1>3 DEF S

\* A tree of the store: in order, red-black, and of no more levels than keys.
Good(t) == t \in Trees[Cardinality(Keys)] /\ Ordered(t) /\ RedBlack(t)

\* The levels that are enough.
LEMMA GoodLevels ==
  /\ Cardinality(Keys) \in Nat /\ Cardinality(Keys) \in 0 .. Height
  /\ 2 * Cardinality(Keys) + 1 = Height /\ 2 * Cardinality(Keys) <= Height
  /\ 2 * Cardinality(Keys) \in 0 .. Height
  /\ Trees[Cardinality(Keys)] \subseteq Tree /\ Trees[2 * Cardinality(Keys)] \subseteq Tree
<1>1. /\ Cardinality(Keys) \in Nat /\ Cardinality(Keys) \in 0 .. Height
      /\ 2 * Cardinality(Keys) + 1 = Height /\ 2 * Cardinality(Keys) <= Height
      /\ 2 * Cardinality(Keys) \in 0 .. Height /\ Height \in 0 .. Height
  BY Levels
<1> QED
  BY <1>1, TreesGrow DEF Tree

\* A tree in order and red-black is such a tree.
LEMMA GoodIs ==
  ASSUME NEW t \in Tree, Ordered(t), RedBlack(t)
  PROVE  Good(t)
<1>1. KeysIn(t) \subseteq Keys /\ IsFiniteSet(Keys)
  BY KeysOfTree, RedBlackTreeAssumption
<1>2. Cardinality(KeysIn(t)) <= Cardinality(Keys)
  BY <1>1, FS_Subset
<1> QED
  BY <1>2, LevelsByKeys, GoodLevels DEF Good

\* The tree at first.
LEMMA GoodEmpty == Good(NULL)
BY GoodIs, Empty DEF RedBlack

\* rbtree_put (rbtree.c:26-41) makes a good tree of a good tree, and changes one entry.
LEMMA PutTree ==
  ASSUME NEW k \in Keys, NEW v \in Values, NEW t, Good(t),
         NEW r, r = IF Find(t, k) = NULL THEN Add(t, Node(k, v)) ELSE Overwrite(t, k, v)
  PROVE  Good(r) /\ EntriesOf(r) = { e \in EntriesOf(t) : e[1] # k } \union {<<k, v>>}
<1>1. t \in Trees[Cardinality(Keys)] /\ t \in Tree /\ Ordered(t) /\ RedBlack(t)
  BY GoodLevels DEF Good
<1>2. Find(t, k) = NULL <=> k \notin KeysIn(t)
  BY <1>1, FindFinds
<1>3. CASE k \notin KeysIn(t)
  <2>1. r = Add(t, Node(k, v))
    BY <1>2, <1>3
  <2>2. /\ Add(t, Node(k, v)) \in Trees[2 * Cardinality(Keys) + 1]
        /\ EntriesOf(Add(t, Node(k, v))) = EntriesOf(t) \union {<<k, v>>}
        /\ Ordered(Add(t, Node(k, v))) /\ RedBlack(Add(t, Node(k, v)))
    <3>1. Cardinality(Keys) \in Nat /\ 2 * Cardinality(Keys) + 1 <= Height
      BY GoodLevels
    <3> QED
      BY <1>1, <1>3, <3>1, AddHolds
  <2>3. r \in Tree /\ Ordered(r) /\ RedBlack(r)
    BY <2>1, <2>2, GoodLevels DEF Tree
  <2>4. \A e \in EntriesOf(t) : e[1] # k
    <3>1. KeysIn(t) = { e[1] : e \in EntriesOf(t) }
      BY <1>1, KeysOfTree
    <3> QED
      BY <1>3, <3>1
  <2>5. EntriesOf(r) = { e \in EntriesOf(t) : e[1] # k } \union {<<k, v>>}
    BY <2>1, <2>2, <2>4
  <2> QED
    BY <2>3, <2>5, GoodIs
<1>4. CASE k \in KeysIn(t)
  <2>1. r = Overwrite(t, k, v)
    BY <1>2, <1>4
  <2>2. r \in Trees[Cardinality(Keys)] /\ OverwritesIn(t, r, k, v)
    BY <1>1, <2>1, GoodLevels, OverwriteHolds
  <2>3. PICK h \in Int : HasDepth(t, h)
    BY <1>1 DEF RedBlack
  <2>4. RedBlack(r)
    BY <1>1, <2>2, <2>3 DEF RedBlack, OverwritesIn
  <2> QED
    BY <1>1, <1>4, <2>2, <2>4 DEF OverwritesIn, Good
<1> QED
  BY <1>3, <1>4

\* sglib_rbtree_delete_if_member makes a good tree of a good tree, and takes one entry.
LEMMA DeleteTree ==
  ASSUME NEW k \in Keys, NEW t, Good(t), Find(t, k) # NULL
  PROVE  Good(Delete(t, k)) /\ EntriesOf(Delete(t, k)) = { e \in EntriesOf(t) : e[1] # k }
<1>1. t \in Trees[Cardinality(Keys)] /\ t \in Tree /\ Ordered(t) /\ RedBlack(t)
  BY GoodLevels DEF Good
<1>2. k \in KeysIn(t)
  BY <1>1, FindFinds
<1>3. /\ Delete(t, k) \in Trees[2 * Cardinality(Keys)]
      /\ EntriesOf(Delete(t, k)) = { e \in EntriesOf(t) : e[1] # k }
      /\ Ordered(Delete(t, k)) /\ RedBlack(Delete(t, k))
  BY <1>1, <1>2, GoodLevels, DeleteHolds
<1>4. Delete(t, k) \in Tree
  BY <1>3, GoodLevels
<1> QED
  BY <1>3, <1>4, GoodIs

\* What consistency_check asserts is so.
LEMMA GoodIsConsistent ==
  ASSUME NEW t, Good(t)
  PROVE  ConsistencyCheck(t)
<1>1. t \in Tree /\ Ordered(t) /\ RedBlack(t)
  BY GoodLevels DEF Good
<1>2. PICK h \in Int : BlackDepths(t) = {h}
  BY <1>1 DEF RedBlack, HasDepth
<1>3. Cardinality(BlackDepths(t)) = 1
  BY <1>2, FS_Singleton
<1>4. ASSUME NEW n \in Nodes(t)
      PROVE  /\ n.left # NULL => n.left.key <= n.key
             /\ n.right # NULL => n.key <= n.right.key
             /\ IsRed(n) => ~IsRed(n.left) /\ ~IsRed(n.right)
  <2>1. n \in Tree /\ n # NULL
    BY <1>1, NodesOfTree
  <2>2. n.left \in Tree /\ n.right \in Tree /\ n.key \in Int
    BY <2>1, NodeFields
  <2>3. n.left # NULL => n.left \in Nodes(n.left) /\ n.left.key \in Int
    BY <2>2, NodesOfTree, NodeFields
  <2>4. n.right # NULL => n.right \in Nodes(n.right) /\ n.right.key \in Int
    BY <2>2, NodesOfTree, NodeFields
  <2>5. n.left # NULL => n.left.key < n.key
    BY <1>1, <1>4, <2>3 DEF Ordered
  <2>6. n.right # NULL => n.key < n.right.key
    BY <1>1, <1>4, <2>4 DEF Ordered
  <2>7. IsRed(n) => ~IsRed(n.left) /\ ~IsRed(n.right)
    BY <1>1, <1>4 DEF RedBlack, NoRedRed
  <2> QED
    BY <2>2, <2>3, <2>4, <2>5, <2>6, <2>7
<1>5. ~IsRed(t)
  BY <1>1 DEF RedBlack
<1> QED
  BY <1>3, <1>4, <1>5 DEF ConsistencyCheck

-----------------------------------------------------------------------------
(* The value of a key.                                                     *)

\* What rbtree_get gives for key k, of tree t.
ValueIn(t, k) == IF Find(t, k) = NULL THEN None ELSE Find(t, k).value

\* The value that is found is the one of the entry.
LEMMA ValueIs ==
  ASSUME NEW t, Good(t), NEW k \in Keys
  PROVE  /\ k \notin KeysIn(t) => ValueIn(t, k) = None
         /\ \A v : <<k, v>> \in EntriesOf(t) => ValueIn(t, k) = v
         /\ k \in KeysIn(t) => <<k, ValueIn(t, k)>> \in EntriesOf(t)
<1>1. t \in Tree /\ Ordered(t)
  BY GoodLevels DEF Good
<1>2. /\ Find(t, k) = NULL <=> k \notin KeysIn(t)
      /\ Find(t, k) # NULL => <<k, Find(t, k).value>> \in EntriesOf(t)
  BY <1>1, FindFinds
<1>3. ASSUME NEW v, <<k, v>> \in EntriesOf(t) PROVE ValueIn(t, k) = v
  <2>1. KeysIn(t) = { e[1] : e \in EntriesOf(t) } /\ <<k, v>>[1] = k
    BY <1>1, KeysOfTree
  <2>2. k \in KeysIn(t)
    BY <1>3, <2>1
  <2>3. <<k, Find(t, k).value>> \in EntriesOf(t)
    BY <1>2, <2>2
  <2>4. <<k, v>>[1] = <<k, Find(t, k).value>>[1]
    OBVIOUS
  <2>5. <<k, v>> = <<k, Find(t, k).value>>
    BY <1>1, <1>3, <2>3, <2>4, OneValue
  <2> QED
    BY <1>2, <2>2, <2>5 DEF ValueIn
<1> QED
  BY <1>2, <1>3 DEF ValueIn

\* Trees with the same entry for a key, or without one, have the same value for it.
LEMMA SameValue ==
  ASSUME NEW t, Good(t), NEW r, Good(r), NEW j \in Keys,
         \A v : <<j, v>> \in EntriesOf(r) <=> <<j, v>> \in EntriesOf(t)
  PROVE  ValueIn(r, j) = ValueIn(t, j)
<1>1. t \in Tree /\ r \in Tree
  BY GoodLevels DEF Good
<1>2. CASE j \in KeysIn(t)
  <2>1. <<j, ValueIn(t, j)>> \in EntriesOf(t)
    BY <1>2, ValueIs
  <2> QED
    BY <2>1, ValueIs
<1>3. CASE j \notin KeysIn(t)
  <2>1. j \notin KeysIn(r)
    <3> SUFFICES ASSUME j \in KeysIn(r) PROVE FALSE
      OBVIOUS
    <3>1. <<j, ValueIn(r, j)>> \in EntriesOf(t)
      BY ValueIs
    <3>2. KeysIn(t) = { e[1] : e \in EntriesOf(t) } /\ <<j, ValueIn(r, j)>>[1] = j
      BY <1>1, KeysOfTree
    <3> QED
      BY <1>3, <3>1, <3>2
  <2> QED
    BY <1>3, <2>1, ValueIs
<1> QED
  BY <1>2, <1>3

\* After a put the key has the value that was put, and no other value has changed.
LEMMA ValueAfterPut ==
  ASSUME NEW k \in Keys, NEW v \in Values, NEW t, Good(t), NEW r, Good(r),
         EntriesOf(r) = { e \in EntriesOf(t) : e[1] # k } \union {<<k, v>>}, NEW j \in Keys
  PROVE  ValueIn(r, j) = IF j = k THEN v ELSE ValueIn(t, j)
<1>1. CASE j = k
  <2>1. <<j, v>> \in EntriesOf(r)
    BY <1>1
  <2> QED
    BY <1>1, <2>1, ValueIs
<1>2. CASE j # k
  <2>1. \A w : <<j, w>>[1] = j /\ <<j, w>> # <<k, v>>
    BY <1>2
  <2>2. \A w : <<j, w>> \in EntriesOf(r) <=> <<j, w>> \in EntriesOf(t)
    BY <1>2, <2>1
  <2> QED
    BY <1>2, <2>2, SameValue
<1> QED
  BY <1>1, <1>2

\* After a removal the key has no value, and no other value has changed.
LEMMA ValueAfterDelete ==
  ASSUME NEW k \in Keys, NEW t, Good(t), NEW r, Good(r),
         EntriesOf(r) = { e \in EntriesOf(t) : e[1] # k }, NEW j \in Keys
  PROVE  ValueIn(r, j) = IF j = k THEN None ELSE ValueIn(t, j)
<1>1. CASE j = k
  <2>1. r \in Tree
    BY GoodLevels DEF Good
  <2>2. KeysIn(r) = { e[1] : e \in EntriesOf(r) }
    BY <2>1, KeysOfTree
  <2>3. j \notin KeysIn(r)
    BY <1>1, <2>2
  <2> QED
    BY <1>1, <2>3, ValueIs
<1>2. CASE j # k
  <2>1. \A w : <<j, w>>[1] = j
    OBVIOUS
  <2>2. \A w : <<j, w>> \in EntriesOf(r) <=> <<j, w>> \in EntriesOf(t)
    BY <1>2, <2>1
  <2> QED
    BY <1>2, <2>2, SameValue
<1> QED
  BY <1>1, <1>2

\* What each kind of step does to the tree.
LEMMA TreeSteps ==
  ASSUME Good(the_tree), [Next]_vars
  PROVE  /\ Good(the_tree')
         /\ \/ \E k \in Keys : \E v \in Values :
                 /\ Idle /\ path' = <<the_tree'>> /\ the_tree' # NULL
                 /\ EntriesOf(the_tree') = { e \in EntriesOf(the_tree) : e[1] # k } \union {<<k, v>>}
            \/ \E k \in Keys :
                 EntriesOf(the_tree') = { e \in EntriesOf(the_tree) : e[1] # k }
            \/ the_tree' = the_tree
<1>1. ASSUME NEW p \in Puts, rbtree_put(p[1], p[2])
      PROVE  /\ Good(the_tree') /\ Idle /\ path' = <<the_tree'>> /\ the_tree' # NULL
             /\ EntriesOf(the_tree')
                  = { e \in EntriesOf(the_tree) : e[1] # p[1] } \union {<<p[1], p[2]>>}
             /\ p[1] \in Keys /\ p[2] \in Values
  <2>1. p[1] \in Keys /\ p[2] \in Values
    BY KeyValueTreeAssumption
  <2>2. /\ the_tree' = IF Find(the_tree, p[1]) = NULL THEN Add(the_tree, Node(p[1], p[2]))
                       ELSE Overwrite(the_tree, p[1], p[2])
        /\ Idle /\ path' = <<the_tree'>>
    BY <1>1 DEF rbtree_put, Put
  <2>3. /\ Good(the_tree')
        /\ EntriesOf(the_tree')
             = { e \in EntriesOf(the_tree) : e[1] # p[1] } \union {<<p[1], p[2]>>}
    BY <2>1, <2>2, PutTree
  <2>4. the_tree' # NULL
    BY <2>3, Empty
  <2> QED
    BY <2>1, <2>2, <2>3, <2>4
<1>2. ASSUME NEW k \in Keys, delete_if_member(k)
      PROVE  /\ Good(the_tree')
             /\ EntriesOf(the_tree') = { e \in EntriesOf(the_tree) : e[1] # k }
  BY <1>2, DeleteTree DEF delete_if_member
<1>3. CASE rbtree_print \/ UNCHANGED vars
  BY <1>3 DEF rbtree_print, GoUp, GoDown, PassOver, PrintElement, Turn, vars
<1> QED
  BY <1>1, <1>2, <1>3 DEF Next

\* The tree is a good one, after any sequence of operations.
TreeInv == Good(the_tree)

(***************************************************************************)
(* The inductive invariant of the tree: its keys are in order, no red node *)
(* has a red child and all paths have as many black nodes, after any       *)
(* sequence of puts and removals (rbtree.c:26-41, sglib.h:1713-1722).      *)
(***************************************************************************)
THEOREM StoreOrdered == Spec => []TreeInv
<1>1. Init => TreeInv
  BY GoodEmpty DEF Init, TreeInv
<1>2. TreeInv /\ [Next]_vars => TreeInv'
  BY TreeSteps DEF TreeInv
<1> QED
  BY <1>1, <1>2, PTL DEF Spec

(***************************************************************************)
(* What consistency_check asserts (sglib.h:1865-1889) is so after every    *)
(* operation: the repairs of insertion and deletion are enough.            *)
(***************************************************************************)
THEOREM TreeStaysConsistent == Spec => []TreeConsistent
<1>1. TreeInv => TreeConsistent
  BY GoodIsConsistent DEF TreeInv, TreeConsistent
<1> QED
  BY <1>1, StoreOrdered, PTL

(***************************************************************************)
(* A put, a get and a removal (rbtree.c:26-53, sglib.h:1746-1753) do with  *)
(* the tree what they say they do with keys and values: a put sets the     *)
(* value of its key and no other, a removal takes its key and no other.    *)
(***************************************************************************)
THEOREM StoreImplemented == Spec => ImplementsStore
<1> DEFINE abstract == [k \in Keys |-> rbtree_get(k)]
<1>1. \A k \in Keys : rbtree_get(k) = ValueIn(the_tree, k)
  BY DEF rbtree_get, ValueIn
<1>2. \A k \in Keys : rbtree_get(k)' = ValueIn(the_tree', k)
  BY DEF rbtree_get, ValueIn
<1>3. Init => Store!Init
  <2> SUFFICES ASSUME Init PROVE abstract = [k \in Keys |-> None]
    BY DEF Store!Init
  <2>1. \A k \in Keys : ValueIn(NULL, k) = None
    BY GoodEmpty, Empty, ValueIs
  <2>2. the_tree = NULL
    BY DEF Init
  <2> QED
    BY <1>1, <2>1, <2>2
<1>4. ASSUME TreeInv, [Next]_vars PROVE [Store!Next]_(abstract)
  <2>1. Good(the_tree) /\ Good(the_tree')
    BY <1>4, TreeSteps DEF TreeInv
  <2>2. CASE \E k \in Keys : \E v \in Values :
               EntriesOf(the_tree') = { e \in EntriesOf(the_tree) : e[1] # k } \union {<<k, v>>}
    <3>1. PICK k \in Keys, v \in Values :
            EntriesOf(the_tree') = { e \in EntriesOf(the_tree) : e[1] # k } \union {<<k, v>>}
      BY <2>2
    <3>2. \A j \in Keys : ValueIn(the_tree', j) = IF j = k THEN v ELSE ValueIn(the_tree, j)
      BY <2>1, <3>1, ValueAfterPut
    <3>3. abstract' = [abstract EXCEPT ![k] = v]
      BY <1>1, <1>2, <3>2
    <3>4. Store!Put(k, v)
      BY <3>3 DEF Store!Put
    <3> QED
      BY <3>4 DEF Store!Next
  <2>3. CASE \E k \in Keys : EntriesOf(the_tree') = { e \in EntriesOf(the_tree) : e[1] # k }
    <3>1. PICK k \in Keys : EntriesOf(the_tree') = { e \in EntriesOf(the_tree) : e[1] # k }
      BY <2>3
    <3>2. \A j \in Keys : ValueIn(the_tree', j) = IF j = k THEN None ELSE ValueIn(the_tree, j)
      BY <2>1, <3>1, ValueAfterDelete
    <3>3. abstract' = [abstract EXCEPT ![k] = None]
      BY <1>1, <1>2, <3>2
    <3>4. Store!Remove(k)
      BY <3>3 DEF Store!Remove
    <3> QED
      BY <3>4 DEF Store!Next
  <2>4. CASE the_tree' = the_tree
    <3>1. abstract' = abstract
      BY <1>1, <1>2, <2>4
    <3> QED
      BY <3>1
  <2> QED
    BY <1>4, <2>2, <2>3, <2>4, TreeSteps DEF TreeInv
<1> QED
  BY <1>3, <1>4, StoreOrdered, PTL DEF Spec, ImplementsStore, Store!Spec

-----------------------------------------------------------------------------
(* The iterator of sglib.h: the path from the root to where it is.         *)

\* The second node is the subtree of the first that was gone to last.
Link(n, p, m) == \/ p = 1 /\ m = n.left
                 \/ p = 2 /\ m = n.right

(***************************************************************************)
(* The path goes down from the root, each node being the subtree of the    *)
(* one above that its pass says, and the current element is the last node, *)
(* between its two subtrees.                                               *)
(***************************************************************************)
PathInv ==
    /\ path \in Seq(Tree \ {NULL}) /\ pass \in Seq(0 .. 2) /\ Len(path) = Len(pass)
    /\ path # <<>> => path[1] = the_tree
    /\ \A i \in 1 .. Len(path) - 1 : Link(path[i], pass[i], path[i + 1])
    /\ currentelem # NULL => path # <<>> /\ currentelem = Last(path) /\ Last(pass) = 1
    /\ printed \in Seq(Keys \X Values)

\* A list without its last element.
LEMMA FrontIs ==
  ASSUME NEW S, NEW s \in Seq(S), s # <<>>
  PROVE  /\ Len(s) \in Nat /\ Len(s) > 0
         /\ Front(s) \in Seq(S) /\ Len(Front(s)) = Len(s) - 1
         /\ \A i \in 1 .. Len(s) - 1 : Front(s)[i] = s[i]
         /\ Last(s) = s[Len(s)] /\ Last(s) \in S
<1>1. Len(s) \in Nat /\ Len(s) > 0
  OBVIOUS
<1>2. Front(s) = SubSeq(s, 1, Len(s) - 1)
  BY DEF Front
<1>3. Last(s) = s[Len(s)]
  BY DEF Last
<1>4. /\ Front(s) \in Seq(S) /\ Len(Front(s)) = Len(s) - 1
      /\ \A i \in 1 .. Len(s) - 1 : Front(s)[i] = s[i]
  <2> DEFINE n == Len(s) - 1
  <2>1. n \in Int /\ 1 \in Int /\ \A i \in 1 .. n : s[i] \in S
    BY <1>1
  <2>2. n >= 0
    BY <1>1
  <2> HIDE DEF n
  <2>3. /\ SubSeq(s, 1, n) \in Seq(S)
        /\ Len(SubSeq(s, 1, n)) = IF 1 <= n THEN n - 1 + 1 ELSE 0
        /\ \A i \in 1 .. n - 1 + 1 : SubSeq(s, 1, n)[i] = s[1 + i - 1]
    BY <2>1, SubSeqProperties
  <2>4. n - 1 + 1 = n /\ (IF 1 <= n THEN n - 1 + 1 ELSE 0) = n
    BY <2>1, <2>2
  <2>5. \A i \in 1 .. n : 1 + i - 1 = i
    BY <2>1
  <2> QED
    BY <1>2, <2>3, <2>4, <2>5 DEF n
<1> QED
  BY <1>1, <1>3, <1>4

\* Where the iterator is, and what it has in front of it.
LEMMA WhereIs ==
  ASSUME PathInv, Good(the_tree), ~Idle
  PROVE  /\ Len(path) \in Nat /\ Len(path) > 0 /\ Len(pass) = Len(path)
         /\ Last(path) = path[Len(path)] /\ Last(pass) = pass[Len(path)]
         /\ Last(path) \in Tree /\ Last(path) # NULL /\ Last(pass) \in 0 .. 2
         /\ Last(path).left \in Tree /\ Last(path).right \in Tree
         /\ NextSubtree \in Tree
<1>1. path \in Seq(Tree \ {NULL}) /\ pass \in Seq(0 .. 2) /\ Len(path) = Len(pass)
      /\ path # <<>>
  BY DEF PathInv, Idle
<1>2. pass # <<>>
  BY <1>1
<1>3. /\ Len(path) \in Nat /\ Len(path) > 0 /\ Len(pass) = Len(path)
      /\ Last(path) = path[Len(path)] /\ Last(pass) = pass[Len(path)]
      /\ Last(path) \in Tree /\ Last(path) # NULL /\ Last(pass) \in 0 .. 2
  <2>1. /\ Len(path) \in Nat /\ Len(path) > 0 /\ Last(path) = path[Len(path)]
        /\ Last(path) \in Tree \ {NULL}
    BY <1>1, FrontIs
  <2>2. Last(pass) = pass[Len(pass)] /\ Last(pass) \in 0 .. 2
    BY <1>1, <1>2, FrontIs
  <2> QED
    BY <1>1, <2>1, <2>2
<1>4. Last(path).left \in Tree /\ Last(path).right \in Tree
  BY <1>3, NodeFields
<1> QED
  BY <1>1, <1>3, <1>4 DEF NextSubtree

\* The pass of the last node counted up.
LEMMA CountedIs ==
  ASSUME PathInv, Good(the_tree), ~Idle, Last(pass) < 2
  PROVE  /\ Counted \in Seq(0 .. 2) /\ Len(Counted) = Len(path) /\ Counted # <<>>
         /\ \A i \in 1 .. Len(path) - 1 : Counted[i] = pass[i]
         /\ Counted[Len(path)] = Last(pass) + 1 /\ Last(Counted) = Last(pass) + 1
         /\ Last(pass) = 0 \/ Last(pass) = 1
<1>1. pass \in Seq(0 .. 2) /\ Len(pass) = Len(path) /\ Len(path) \in Nat /\ Len(path) > 0
      /\ Last(pass) = pass[Len(path)] /\ Last(pass) \in 0 .. 2
  BY WhereIs DEF PathInv
<1>2. Counted = [pass EXCEPT ![Len(path)] = Last(pass) + 1]
  BY <1>1 DEF Counted
<1>3. Last(pass) + 1 \in 0 .. 2 /\ Len(path) \in 1 .. Len(pass)
      /\ (Last(pass) = 0 \/ Last(pass) = 1)
  BY <1>1
<1>4. /\ Counted \in Seq(0 .. 2) /\ Len(Counted) = Len(pass)
      /\ \A i \in 1 .. Len(path) - 1 : Counted[i] = pass[i]
      /\ Counted[Len(path)] = Last(pass) + 1
  BY <1>1, <1>2, <1>3
<1>5. Counted # <<>>
  BY <1>1, <1>4
<1> QED
  BY <1>1, <1>3, <1>4, <1>5 DEF Last

\* Going up.
LEMMA GoUpIs ==
  ASSUME PathInv, Good(the_tree), GoUp
  PROVE  /\ PathInv' /\ ~Idle /\ currentelem = NULL /\ Last(pass) = 2
         /\ the_tree' = the_tree /\ printed' = printed
         /\ Len(path') = Len(path) - 1
         /\ \A i \in 1 .. Len(path) - 1 : path'[i] = path[i] /\ pass'[i] = pass[i]
         /\ path' # <<>> => currentelem' = IF Last(pass') = 1 THEN Last(path') ELSE NULL
<1>1. path \in Seq(Tree \ {NULL}) /\ pass \in Seq(0 .. 2) /\ path # <<>> /\ pass # <<>>
      /\ Len(pass) = Len(path) /\ Len(path) \in Nat /\ Len(path) > 0
  BY WhereIs DEF PathInv, Idle, GoUp
<1>2. /\ path' = Front(path) /\ pass' = Front(pass)
      /\ currentelem' = Current(path', pass')
      /\ the_tree' = the_tree /\ printed' = printed /\ ~Idle /\ currentelem = NULL
      /\ Last(pass) >= 2
  BY DEF GoUp, Turn
<1>3. /\ path' \in Seq(Tree \ {NULL}) /\ Len(path') = Len(path) - 1
      /\ \A i \in 1 .. Len(path) - 1 : path'[i] = path[i]
  BY <1>1, <1>2, FrontIs
<1>4. /\ pass' \in Seq(0 .. 2) /\ Len(pass') = Len(path) - 1
      /\ \A i \in 1 .. Len(path) - 1 : pass'[i] = pass[i]
  BY <1>1, <1>2, FrontIs
<1>5. Last(pass) = 2
  BY <1>2, WhereIs
<1>6. path' # <<>> => path'[1] = the_tree'
  BY <1>1, <1>2, <1>3 DEF PathInv
<1>7. \A i \in 1 .. Len(path') - 1 : Link(path'[i], pass'[i], path'[i + 1])
  BY <1>1, <1>3, <1>4 DEF PathInv
<1>8. currentelem' # NULL => path' # <<>> /\ currentelem' = Last(path') /\ Last(pass') = 1
  BY <1>2 DEF Current, Order
<1>9. path' # <<>> => currentelem' = IF Last(pass') = 1 THEN Last(path') ELSE NULL
  BY <1>2 DEF Current, Order
<1>10. PathInv'
  <2>1. printed' \in Seq(Keys \X Values)
    BY <1>2 DEF PathInv
  <2> QED
    BY <1>3, <1>4, <1>6, <1>7, <1>8, <2>1 DEF PathInv
<1> QED
  BY <1>2, <1>3, <1>4, <1>5, <1>9, <1>10

\* Going down.
LEMMA GoDownIs ==
  ASSUME PathInv, Good(the_tree), GoDown
  PROVE  /\ PathInv' /\ ~Idle /\ currentelem = NULL /\ Last(pass) \in {0, 1}
         /\ the_tree' = the_tree /\ printed' = printed /\ NextSubtree # NULL
         /\ path' # <<>> /\ Len(path') = Len(path) + 1
         /\ \A i \in 1 .. Len(path) : path'[i] = path[i]
         /\ Last(path') = NextSubtree /\ Last(pass') = 0 /\ currentelem' = NULL
<1>1. path \in Seq(Tree \ {NULL}) /\ path # <<>>
      /\ Len(pass) = Len(path) /\ Len(path) \in Nat /\ Len(path) > 0
      /\ Last(path) = path[Len(path)]
  BY WhereIs DEF PathInv, Idle, GoDown
<1>2. /\ path' = Append(path, NextSubtree) /\ pass' = Append(Counted, 0)
      /\ currentelem' = Current(path', pass')
      /\ the_tree' = the_tree /\ printed' = printed /\ ~Idle /\ currentelem = NULL
      /\ Last(pass) < 2 /\ NextSubtree # NULL
  BY DEF GoDown, Turn
<1>3. NextSubtree \in Tree \ {NULL}
  BY <1>2, WhereIs
<1>4. /\ path' \in Seq(Tree \ {NULL}) /\ Len(path') = Len(path) + 1 /\ path' # <<>>
      /\ \A i \in 1 .. Len(path) : path'[i] = path[i]
      /\ path'[Len(path) + 1] = NextSubtree
  BY <1>1, <1>2, <1>3, AppendProperties
<1>5. /\ Counted \in Seq(0 .. 2) /\ Len(Counted) = Len(path)
      /\ \A i \in 1 .. Len(path) - 1 : Counted[i] = pass[i]
      /\ Counted[Len(path)] = Last(pass) + 1
      /\ Last(pass) = 0 \/ Last(pass) = 1
  BY <1>2, CountedIs
<1>6. /\ pass' \in Seq(0 .. 2) /\ Len(pass') = Len(path) + 1 /\ pass' # <<>>
      /\ \A i \in 1 .. Len(path) : pass'[i] = Counted[i]
      /\ pass'[Len(path) + 1] = 0
  <2>1. 0 \in 0 .. 2
    OBVIOUS
  <2> QED
    BY <1>2, <1>5, <2>1, AppendProperties
<1>7. path'[1] = the_tree'
  <2>1. 1 \in 1 .. Len(path) /\ path[1] = the_tree
    BY <1>1 DEF PathInv
  <2> QED
    BY <1>2, <1>4, <2>1
<1>8. ASSUME NEW i \in 1 .. Len(path') - 1 PROVE Link(path'[i], pass'[i], path'[i + 1])
  <2>1. i \in 1 .. Len(path)
    BY <1>1, <1>4
  <2>2. CASE i = Len(path)
    <3>1. path'[i] = Last(path) /\ pass'[i] = Last(pass) + 1 /\ path'[i + 1] = NextSubtree
      BY <1>1, <1>4, <1>5, <1>6, <2>1, <2>2
    <3> QED
      BY <1>5, <3>1 DEF Link, NextSubtree
  <2>3. CASE i # Len(path)
    <3>1. i \in 1 .. Len(path) - 1 /\ i + 1 \in 1 .. Len(path)
      BY <1>1, <2>1, <2>3
    <3>2. path'[i] = path[i] /\ path'[i + 1] = path[i + 1] /\ pass'[i] = pass[i]
      BY <1>4, <1>5, <1>6, <2>1, <3>1
    <3>3. Link(path[i], pass[i], path[i + 1])
      BY <3>1 DEF PathInv
    <3> QED
      BY <3>2, <3>3
  <2> QED
    BY <2>2, <2>3
<1>9. Last(path') = NextSubtree /\ Last(pass') = 0
  BY <1>4, <1>6 DEF Last
<1>10. currentelem' = NULL
  BY <1>2, <1>9 DEF Current, Order
<1>11. PathInv'
  <2>1. printed' \in Seq(Keys \X Values)
    BY <1>2 DEF PathInv
  <2> QED
    BY <1>4, <1>6, <1>7, <1>8, <1>10, <2>1 DEF PathInv
<1> QED
  BY <1>2, <1>4, <1>5, <1>9, <1>10, <1>11

\* Passing over a subtree that is empty.
LEMMA PassOverIs ==
  ASSUME PathInv, Good(the_tree), PassOver
  PROVE  /\ PathInv' /\ ~Idle /\ currentelem = NULL /\ Last(pass) \in {0, 1}
         /\ the_tree' = the_tree /\ printed' = printed /\ NextSubtree = NULL
         /\ path' = path /\ Last(pass') = Last(pass) + 1
         /\ currentelem' = IF Last(pass) = 0 THEN Last(path) ELSE NULL
<1>1. path \in Seq(Tree \ {NULL}) /\ path # <<>>
      /\ Len(pass) = Len(path) /\ Len(path) \in Nat /\ Len(path) > 0
  BY WhereIs DEF PathInv, Idle, PassOver
<1>2. /\ path' = path /\ pass' = Counted
      /\ currentelem' = Current(path', pass')
      /\ the_tree' = the_tree /\ printed' = printed /\ ~Idle /\ currentelem = NULL
      /\ Last(pass) < 2 /\ NextSubtree = NULL
  BY DEF PassOver, Turn
<1>3. /\ Counted \in Seq(0 .. 2) /\ Len(Counted) = Len(path)
      /\ \A i \in 1 .. Len(path) - 1 : Counted[i] = pass[i]
      /\ Last(Counted) = Last(pass) + 1
      /\ Last(pass) = 0 \/ Last(pass) = 1
  BY <1>2, CountedIs
<1>4. currentelem' = IF Last(pass) = 0 THEN Last(path) ELSE NULL
  BY <1>1, <1>2, <1>3 DEF Current, Order
<1>5. currentelem' # NULL => path' # <<>> /\ currentelem' = Last(path') /\ Last(pass') = 1
  BY <1>1, <1>2, <1>3, <1>4
<1>6. \A i \in 1 .. Len(path') - 1 : Link(path'[i], pass'[i], path'[i + 1])
  BY <1>2, <1>3 DEF PathInv
<1>7. PathInv'
  BY <1>1, <1>2, <1>3, <1>5, <1>6 DEF PathInv
<1> QED
  BY <1>2, <1>3, <1>4, <1>7

\* Printing the element the iterator has come to.
LEMMA PrintElementIs ==
  ASSUME PathInv, Good(the_tree), PrintElement
  PROVE  /\ PathInv' /\ ~Idle /\ currentelem = Last(path) /\ Last(pass) = 1
         /\ the_tree' = the_tree /\ path' = path /\ pass' = pass /\ currentelem' = NULL
         /\ printed' = Append(printed, <<Last(path).key, Last(path).value>>)
         /\ <<Last(path).key, Last(path).value>> \in Keys \X Values
<1>1. /\ ~Idle /\ currentelem = Last(path) /\ Last(pass) = 1
  BY DEF PathInv, PrintElement, Idle
<1>2. /\ the_tree' = the_tree /\ path' = path /\ pass' = pass /\ currentelem' = NULL
      /\ printed' = Append(printed, <<Last(path).key, Last(path).value>>)
  BY <1>1 DEF PrintElement
<1>3. <<Last(path).key, Last(path).value>> \in Keys \X Values
  BY <1>1, WhereIs, NodeFields
<1>4. printed' \in Seq(Keys \X Values)
  BY <1>2, <1>3, AppendProperties DEF PathInv
<1>5. PathInv'
  BY <1>2, <1>4 DEF PathInv
<1> QED
  BY <1>1, <1>2, <1>3, <1>5

\* The start of the iterator, at the root.
LEMMA StartIs ==
  ASSUME PathInv, Good(the_tree), NEW p \in Puts, rbtree_put(p[1], p[2])
  PROVE  /\ PathInv' /\ Good(the_tree') /\ Idle /\ printed' = <<>>
         /\ path' = <<the_tree'>> /\ pass' = <<0>> /\ currentelem' = NULL
         /\ Last(path') = the_tree' /\ Last(pass') = 0
<1>1. p[1] \in Keys /\ p[2] \in Values
  BY KeyValueTreeAssumption
<1>2. /\ the_tree' = IF Find(the_tree, p[1]) = NULL THEN Add(the_tree, Node(p[1], p[2]))
                     ELSE Overwrite(the_tree, p[1], p[2])
      /\ Idle /\ path' = <<the_tree'>> /\ pass' = <<0>> /\ printed' = <<>>
      /\ currentelem' = currentelem
  BY DEF rbtree_put, Put
<1>3. Good(the_tree')
  BY <1>1, <1>2, PutTree
<1>4. the_tree' \in Tree \ {NULL}
  <2>1. the_tree' # NULL
    <3>1. EntriesOf(the_tree') = { e \in EntriesOf(the_tree) : e[1] # p[1] } \union {<<p[1], p[2]>>}
      BY <1>1, <1>2, PutTree
    <3> QED
      BY <3>1, Empty
  <2> QED
    BY <1>3, <2>1, GoodLevels DEF Good
<1>5. currentelem' = NULL
  BY <1>2 DEF PathInv, Idle
<1>6. /\ path' \in Seq(Tree \ {NULL}) /\ Len(path') = 1 /\ path'[1] = the_tree'
      /\ pass' \in Seq(0 .. 2) /\ Len(pass') = 1 /\ pass'[1] = 0
      /\ printed' \in Seq(Keys \X Values)
  BY <1>2, <1>4
<1>7. Last(path') = the_tree' /\ Last(pass') = 0
  BY <1>6 DEF Last
<1>8. \A i \in 1 .. Len(path') - 1 : FALSE
  BY <1>6
<1>9. PathInv'
  BY <1>5, <1>6, <1>8 DEF PathInv
<1> QED
  BY <1>2, <1>3, <1>5, <1>7, <1>9

\* A removal, when the iterator is not under way.
LEMMA RemovalIs ==
  ASSUME PathInv, Good(the_tree), NEW k \in Keys, delete_if_member(k)
  PROVE  /\ PathInv' /\ Good(the_tree') /\ Idle /\ Idle' /\ UNCHANGED <<iterator, printed>>
<1>1. /\ UNCHANGED <<iterator, printed>> /\ Idle /\ Find(the_tree, k) # NULL
      /\ the_tree' = Delete(the_tree, k)
  BY DEF delete_if_member
<1>2. Good(the_tree')
  BY <1>1, DeleteTree
<1>3. path' = path /\ pass' = pass /\ currentelem' = currentelem /\ printed' = printed
      /\ path = <<>>
  BY <1>1 DEF iterator, Idle
<1>4. PathInv'
  BY <1>3 DEF PathInv
<1> QED
  BY <1>1, <1>2, <1>3, <1>4 DEF Idle

\* The tree and the iterator on it.
WalkInv == TreeInv /\ PathInv

(***************************************************************************)
(* The inductive invariant of the tree and of the iterator on it           *)
(* (sglib.h:1770-1841).                                                    *)
(***************************************************************************)
THEOREM WalkHolds == Spec => []WalkInv
<1>1. Init => WalkInv
  BY GoodEmpty DEF Init, WalkInv, TreeInv, PathInv
<1>2. WalkInv /\ [Next]_vars => WalkInv'
  <2> SUFFICES ASSUME TreeInv, PathInv, [Next]_vars PROVE TreeInv' /\ PathInv'
    BY DEF WalkInv
  <2>1. TreeInv'
    BY TreeSteps DEF TreeInv
  <2>2. ASSUME NEW p \in Puts, rbtree_put(p[1], p[2]) PROVE PathInv'
    BY <2>2, StartIs DEF TreeInv
  <2>3. ASSUME NEW k \in Keys, delete_if_member(k) PROVE PathInv'
    BY <2>3, RemovalIs DEF TreeInv
  <2>4. CASE GoUp
    BY <2>1, <2>4, GoUpIs DEF TreeInv
  <2>5. CASE GoDown
    BY <2>1, <2>5, GoDownIs DEF TreeInv
  <2>6. CASE PassOver
    BY <2>1, <2>6, PassOverIs DEF TreeInv
  <2>7. CASE PrintElement
    BY <2>1, <2>7, PrintElementIs DEF TreeInv
  <2>8. CASE UNCHANGED vars
    BY <2>1, <2>8 DEF vars, PathInv
  <2> QED
    BY <2>1, <2>2, <2>3, <2>4, <2>5, <2>6, <2>7, <2>8 DEF Next, rbtree_print
<1> QED
  BY <1>1, <1>2, PTL DEF Spec

\* The nodes under a node of a tree are nodes of it.
LEMMA NodesUnder ==
  \A t \in Tree : \A n \in Nodes(t) : Nodes(n) \subseteq Nodes(t)
<1> DEFINE S == { t \in Tree : \A n \in Nodes(t) : Nodes(n) \subseteq Nodes(t) }
<1>1. NULL \in S
  BY Empty
<1>2. ASSUME NEW t \in Tree \ {NULL}, t.left \in S, t.right \in S PROVE t \in S
  <2>1. Nodes(t) = {t} \union Nodes(t.left) \union Nodes(t.right)
    BY NodesAre
  <2> QED
    BY <1>2, <2>1
<1> HIDE DEF S
<1>3. Tree \subseteq S
  BY <1>1, <1>2, TreeInduction
<1> QED
  BY <1>3 DEF S

\* The nodes on the path of the iterator are nodes of the tree.
LEMMA NodesOnPath ==
  ASSUME PathInv, Good(the_tree)
  PROVE  \A i \in 1 .. Len(path) : path[i] \in Nodes(the_tree)
<1> SUFFICES ASSUME path # <<>> PROVE \A i \in 1 .. Len(path) : path[i] \in Nodes(the_tree)
  <2>1. CASE path = <<>>
    BY <2>1
  <2> QED
    BY <2>1
<1>1. /\ path \in Seq(Tree \ {NULL}) /\ Len(path) \in Nat /\ Len(path) > 0
      /\ path[1] = the_tree
  BY DEF PathInv
<1>2. the_tree \in Tree /\ the_tree \in Nodes(the_tree)
  BY <1>1, GoodLevels, NodesOfTree DEF Good
<1> DEFINE I == { i \in 0 .. Len(path) - 1 : path[i + 1] \in Nodes(the_tree) }
<1>3. 0 \in I
  BY <1>1, <1>2
<1>4. ASSUME NEW i \in 1 .. Len(path) - 1, i - 1 \in I PROVE i \in I
  <2>1. path[i] \in Nodes(the_tree) /\ path[i] \in Tree \ {NULL} /\ path[i + 1] \in Tree \ {NULL}
    <3>1. (i - 1) + 1 = i
      OBVIOUS
    <3> QED
      BY <1>1, <1>4, <3>1
  <2>2. path[i + 1] = path[i].left \/ path[i + 1] = path[i].right
    BY DEF PathInv, Link
  <2>3. path[i + 1] \in Nodes(path[i + 1])
    BY <2>1, NodesOfTree
  <2>4. path[i + 1] \in Nodes(path[i])
    BY <2>1, <2>2, <2>3, NodesAre
  <2>5. path[i + 1] \in Nodes(the_tree)
    BY <1>2, <2>1, <2>4, NodesUnder
  <2> QED
    BY <2>5
<1> HIDE DEF I
<1>5. ASSUME NEW i \in 1 .. Len(path) PROVE path[i] \in Nodes(the_tree)
  <2>1. i - 1 \in Nat /\ \A j \in 1 .. i - 1 : j \in 1 .. Len(path) - 1
    BY <1>1
  <2>2. i - 1 \in I
    BY <1>3, <1>4, <2>1, LoopInvariant
  <2>3. (i - 1) + 1 = i
    OBVIOUS
  <2> QED
    BY <2>2, <2>3 DEF I
<1> QED
  BY <1>5

(***************************************************************************)
(* The fields of the nodes have their types, keys are on their sides, and  *)
(* the iterator is at nodes of the tree (sglib.h:1770-1811).               *)
(***************************************************************************)
THEOREM KeyValueTypes == Spec => []KeyValueTypeOK
<1>1. ASSUME Good(the_tree), PathInv PROVE KeyValueTypeOK
  <2>1. the_tree \in Tree /\ Ordered(the_tree)
    BY <1>1, GoodLevels DEF Good
  <2>2. ASSUME NEW n \in Nodes(the_tree)
        PROVE  /\ n.key \in Keys /\ n.value \in Values /\ n.color \in {RED, BLACK}
               /\ \A m \in Nodes(n.left) : m.key < n.key
               /\ \A m \in Nodes(n.right) : n.key < m.key
    <3>1. n \in Tree /\ n # NULL
      BY <2>1, NodesOfTree
    <3> QED
      BY <2>1, <3>1, NodeFields DEF Ordered
  <2>3. /\ path \in Seq(Tree \ {NULL}) /\ pass \in Seq(0 .. 2) /\ Len(path) = Len(pass)
        /\ currentelem # NULL => currentelem = Last(path)
        /\ printed \in Seq(Keys \X Values)
    BY <1>1 DEF PathInv
  <2>4. \A i \in DOMAIN path : path[i] \in Nodes(the_tree) /\ pass[i] \in 0 .. 2
    BY <1>1, <2>3, NodesOnPath
  <2>5. \A i \in DOMAIN printed : printed[i] \in Keys \X Values
    BY <2>3
  <2> QED
    BY <2>2, <2>3, <2>4, <2>5 DEF KeyValueTypeOK
<1>2. WalkInv => KeyValueTypeOK
  BY <1>1 DEF WalkInv, TreeInv
<1> QED
  BY <1>2, WalkHolds, PTL

-----------------------------------------------------------------------------
(* How deep a tree is, for the nodes it has.                               *)

\* The powers of two.
LEMMA Powers ==
  /\ PowerOfTwo[0] = 1
  /\ \A n \in Nat : PowerOfTwo[n + 1] = 2 * PowerOfTwo[n]
<1> DEFINE body(f, n) == IF n = 0 THEN 1 ELSE 2 * f[n - 1]
           is(f, D) == f = [n \in D |-> body(f, n)]
           S == { m \in Nat : \E f : is(f, 0 .. m) }
<1>1. 0 \in S
  <2>1. is([n \in 0 .. 0 |-> 1], 0 .. 0)
    OBVIOUS
  <2> QED
    BY <2>1
<1>2. ASSUME NEW m \in Nat, m \in S PROVE m + 1 \in S
  <2>1. PICK f : is(f, 0 .. m)
    BY <1>2
  <2> DEFINE g == [n \in 0 .. m + 1 |-> body(f, n)]
  <2>2. \A n \in 0 .. m : g[n] = f[n]
    <3> HIDE DEF body
    <3>1. \A n \in 0 .. m : f[n] = body(f, n) /\ n \in 0 .. m + 1
      BY <2>1
    <3> QED
      BY <3>1
  <2> HIDE DEF g
  <2>3. ASSUME NEW n \in 0 .. m + 1 PROVE body(g, n) = body(f, n)
    <3>1. n # 0 => n - 1 \in 0 .. m
      OBVIOUS
    <3> QED
      BY <2>2, <3>1
  <2> HIDE DEF body
  <2>4. g = [n \in 0 .. m + 1 |-> body(g, n)]
    BY <2>3 DEF g
  <2>5. is(g, 0 .. m + 1)
    BY <2>4
  <2> HIDE DEF is
  <2> QED
    BY <2>5
<1> HIDE DEF S
<1>3. Nat \subseteq S
  BY <1>1, <1>2, InductionOverNat
<1> DEFINE upTo(m) == CHOOSE f : is(f, 0 .. m)
<1>4. ASSUME NEW m \in Nat PROVE is(upTo(m), 0 .. m)
  <2>1. \E f : is(f, 0 .. m)
    BY <1>3 DEF S
  <2> HIDE DEF is
  <2> QED
    BY <2>1
<1>5. ASSUME NEW m \in Nat, NEW n \in 0 .. m PROVE upTo(m)[n] = body(upTo(m), n)
  <2>1. is(upTo(m), 0 .. m)
    BY <1>4
  <2> HIDE DEF body, upTo
  <2> QED
    BY <2>1
<1> HIDE DEF upTo
<1>6. ASSUME NEW m \in Nat PROVE upTo(m + 1)[m] = upTo(m)[m]
  <2> DEFINE I == { n \in 0 .. m : upTo(m + 1)[n] = upTo(m)[n] }
  <2>1. 0 \in I
    BY <1>5
  <2>2. ASSUME NEW n \in 1 .. m, n - 1 \in I PROVE n \in I
    <3>1. n \in 0 .. m /\ n \in 0 .. m + 1 /\ n # 0 /\ m + 1 \in Nat
      OBVIOUS
    <3>2. upTo(m + 1)[n] = 2 * upTo(m + 1)[n - 1]
      BY <1>5, <3>1
    <3>3. upTo(m)[n] = 2 * upTo(m)[n - 1]
      BY <1>5, <3>1
    <3> QED
      BY <2>2, <3>1, <3>2, <3>3
  <2> HIDE DEF I
  <2>3. m \in I
    BY <2>1, <2>2, LoopInvariant
  <2> QED
    BY <2>3 DEF I
<1> DEFINE F == [n \in Nat |-> upTo(n)[n]]
<1>7. ASSUME NEW n \in Nat PROVE F[n] = body(F, n)
  <2>1. CASE n = 0
    BY <1>5, <2>1
  <2>2. CASE n # 0
    <3>1. n - 1 \in Nat /\ (n - 1) + 1 = n
      BY <2>2
    <3>2. upTo(n)[n] = 2 * upTo(n)[n - 1]
      BY <1>5, <2>2
    <3>3. upTo(n)[n - 1] = upTo(n - 1)[n - 1]
      BY <1>6, <3>1
    <3> QED
      BY <2>2, <3>1, <3>2, <3>3
  <2> QED
    BY <2>1, <2>2
<1> HIDE DEF body
<1>8. is(F, Nat)
  BY <1>7
<1> HIDE DEF F
<1>9. \E f : is(f, Nat)
  <2> HIDE DEF is
  <2> QED
    BY <1>8
<1>10. is(PowerOfTwo, Nat)
  <2>1. PowerOfTwo = CHOOSE f : is(f, Nat)
    BY DEF PowerOfTwo, body
  <2> HIDE DEF is
  <2> QED
    BY <1>9, <2>1
<1>11. \A n \in Nat : PowerOfTwo[n] = body(PowerOfTwo, n)
  BY <1>10
<1>12. \A n \in Nat : n + 1 \in Nat /\ n + 1 # 0 /\ (n + 1) - 1 = n
  OBVIOUS
<1> QED
  BY <1>11, <1>12 DEF body

\* They grow.
LEMMA PowersGrow ==
  ASSUME NEW n \in Nat, NEW m \in 0 .. n
  PROVE  PowerOfTwo[n] \in Nat /\ PowerOfTwo[m] \in Nat /\ PowerOfTwo[m] <= PowerOfTwo[n]
<1> DEFINE S == { k \in Nat : PowerOfTwo[k] \in Nat }
<1>1. 0 \in S
  BY Powers
<1>2. \A k \in Nat : k \in S => k + 1 \in S
  BY Powers
<1> HIDE DEF S
<1>3. Nat \subseteq S
  BY <1>1, <1>2, InductionOverNat
<1>4. \A k \in Nat : PowerOfTwo[k] \in Nat
  BY <1>3 DEF S
<1> DEFINE I == { k \in 0 .. n - m : PowerOfTwo[m] <= PowerOfTwo[m + k] }
<1>5. 0 \in I
  BY <1>4
<1>6. ASSUME NEW k \in 1 .. n - m, k - 1 \in I PROVE k \in I
  <2>1. m + (k - 1) \in Nat /\ (m + (k - 1)) + 1 = m + k
    OBVIOUS
  <2>2. PowerOfTwo[m + k] = 2 * PowerOfTwo[m + (k - 1)]
    BY <2>1, Powers
  <2>3. PowerOfTwo[m + (k - 1)] \in Nat /\ PowerOfTwo[m] \in Nat
    BY <1>4, <2>1
  <2> QED
    BY <1>6, <2>2, <2>3
<1> HIDE DEF I
<1>7. n - m \in I
  BY <1>5, <1>6, LoopInvariant
<1> QED
  BY <1>4, <1>7 DEF I

\* Two ordered subtrees of a node have no node in common.
LEMMA NodesDiffer ==
  ASSUME NEW t \in Tree, t # NULL, Ordered(t)
  PROVE  /\ Nodes(t.left) \cap Nodes(t.right) = {}
         /\ t \notin Nodes(t.left) /\ t \notin Nodes(t.right)
<1>1. t \in Nodes(t)
  BY NodesOfTree
<1>2. /\ \A m \in Nodes(t.left) : m.key < t.key
      /\ \A m \in Nodes(t.right) : t.key < m.key
  BY <1>1 DEF Ordered
<1>3. t.key \in Int /\ t.left \in Tree /\ t.right \in Tree
  BY NodeFields
<1>4. \A m \in Nodes(t.left) \union Nodes(t.right) : m.key \in Int
  BY <1>3, NodesOfTree, NodeFields
<1> QED
  BY <1>2, <1>3, <1>4

\* So it has as many nodes as they have, and one.
LEMMA NodesCount ==
  ASSUME NEW t \in Tree, t # NULL, Ordered(t)
  PROVE  /\ Cardinality(Nodes(t)) = Cardinality(Nodes(t.left)) + Cardinality(Nodes(t.right)) + 1
         /\ Cardinality(Nodes(t.left)) \in Nat /\ Cardinality(Nodes(t.right)) \in Nat
<1> DEFINE L == Nodes(t.left)
           R == Nodes(t.right)
<1>1. t.left \in Tree /\ t.right \in Tree
  BY NodeFields
<1>2. IsFiniteSet(L) /\ IsFiniteSet(R)
  BY <1>1, NodesOfTree
<1>3. L \cap R = {} /\ t \notin L /\ t \notin R
  BY NodesDiffer
<1>4. Nodes(t) = (L \union R) \union {t}
  BY NodesAre
<1> HIDE DEF L, R
<1>5. Cardinality(L) \in Nat /\ Cardinality(R) \in Nat
  BY <1>2, FS_CardinalityType
<1>6. IsFiniteSet(L \union R) /\ Cardinality(L \union R) = Cardinality(L) + Cardinality(R) - Cardinality(L \cap R)
  BY <1>2, FS_Union
<1>7. Cardinality(L \cap R) = 0
  BY <1>3, FS_EmptySet
<1>8. Cardinality((L \union R) \union {t}) = Cardinality(L \union R) + 1
  BY <1>3, <1>6, FS_AddElement
<1> QED
  BY <1>4, <1>5, <1>6, <1>7, <1>8 DEF L, R

\* A tree of some black depth has at least so many nodes.
LEMMA DepthNeedsNodes ==
  \A t \in Tree : \A h \in Nat :
     Ordered(t) /\ HasDepth(t, h) => PowerOfTwo[h] <= Cardinality(Nodes(t)) + 1
<1> DEFINE S == { t \in Tree : \A h \in Nat :
                    Ordered(t) /\ HasDepth(t, h) => PowerOfTwo[h] <= Cardinality(Nodes(t)) + 1 }
<1>1. NULL \in S
  <2>1. Cardinality(Nodes(NULL)) = 0
    BY Empty, FS_EmptySet
  <2>2. \A h : HasDepth(NULL, h) => h = 0
    BY Empty
  <2> QED
    BY <2>1, <2>2, Empty, Powers, SMTT(30)
<1>2. ASSUME NEW t \in Tree \ {NULL}, t.left \in S, t.right \in S PROVE t \in S
  <2> SUFFICES ASSUME NEW h \in Nat, Ordered(t), HasDepth(t, h)
               PROVE  PowerOfTwo[h] <= Cardinality(Nodes(t)) + 1
    OBVIOUS
  <2>1. Ordered(t.left) /\ Ordered(t.right)
    BY LeftRight
  <2> DEFINE d == h - Blacks(t)
  <2>2. d \in Nat /\ HasDepth(t.left, d) /\ HasDepth(t.right, d)
    <3>1. "left" \in Side /\ Other("left") = "right"
      BY DEF Side, Other
    <3>2. /\ HasDepth(t, h) <=> HasDepth(t["left"], d) /\ HasDepth(t[Other("left")], d)
          /\ HasDepth(t, h) => d \in Nat
      BY <3>1, DepthIs
    <3> QED
      BY <3>1, <3>2
  <2>3. h = d \/ h = d + 1
    BY DEF Blacks
  <2> HIDE DEF d
  <2>4. PowerOfTwo[d] <= Cardinality(Nodes(t.left)) + 1 /\ PowerOfTwo[d] <= Cardinality(Nodes(t.right)) + 1
    BY <1>2, <2>1, <2>2
  <2>5. PowerOfTwo[d] \in Nat /\ PowerOfTwo[d + 1] = 2 * PowerOfTwo[d]
    BY <2>2, PowersGrow, Powers
  <2> QED
    BY <2>3, <2>4, <2>5, NodesCount
<1> HIDE DEF S
<1>3. Tree \subseteq S
  BY <1>1, <1>2, TreeInduction
<1> QED
  BY <1>3 DEF S

\* A black node on the path leaves two levels less for each black node of a path from
\* there on, a red one leaves one.
LEMMA PathIsShort ==
  ASSUME PathInv, Good(the_tree), NEW h \in Nat, HasDepth(the_tree, h)
  PROVE  Len(path) \in Nat /\ Len(path) <= 2 * h
<1>1. /\ path \in Seq(Tree \ {NULL}) /\ Len(path) \in Nat
      /\ path # <<>> => path[1] = the_tree
  BY DEF PathInv
<1> SUFFICES ASSUME Len(path) > 0 PROVE Len(path) <= 2 * h
  BY <1>1
<1>2. the_tree \in Tree /\ ~IsRed(the_tree) /\ NoRedRed(the_tree)
  BY GoodLevels DEF Good, RedBlack
<1> DEFINE red(n) == IF IsRed(n) THEN 1 ELSE 0
           ok(i, d) == HasDepth(path[i + 1], d) /\ 2 * d + red(path[i + 1]) + (i + 1) <= 2 * h + 1
           I == { i \in 0 .. Len(path) - 1 : \E d \in Nat : ok(i, d) }
<1>3. 0 \in I
  <2>1. path[1] = the_tree /\ red(the_tree) = 0 /\ 0 \in 0 .. Len(path) - 1 /\ 0 + 1 = 1
    BY <1>1, <1>2
  <2>2. ok(0, h)
    BY <2>1
  <2> HIDE DEF ok
  <2> QED
    BY <2>1, <2>2
<1>4. ASSUME NEW i \in 1 .. Len(path) - 1, i - 1 \in I PROVE i \in I
  <2> DEFINE n == path[i]
             m == path[i + 1]
  <2>1. PICK d \in Nat : ok(i - 1, d)
    BY <1>4
  <2>2. (i - 1) + 1 = i /\ i \in 1 .. Len(path) /\ i + 1 \in 1 .. Len(path)
    BY <1>1
  <2>3. HasDepth(n, d) /\ 2 * d + red(n) + i <= 2 * h + 1
    BY <2>1, <2>2
  <2>4. n \in Tree \ {NULL} /\ m \in Tree \ {NULL} /\ n \in Nodes(the_tree)
    BY <1>1, <2>2, NodesOnPath
  <2>5. m = n.left \/ m = n.right
    BY DEF PathInv, Link
  <2> HIDE DEF n, m
  <2>6. d - Blacks(n) \in Nat /\ HasDepth(m, d - Blacks(n))
    <3>1. "left" \in Side /\ Other("left") = "right"
      BY DEF Side, Other
    <3>2. /\ HasDepth(n, d) <=> HasDepth(n["left"], d - Blacks(n)) /\ HasDepth(n[Other("left")], d - Blacks(n))
          /\ HasDepth(n, d) => d - Blacks(n) \in Nat
      BY <2>4, <3>1, DepthIs
    <3> QED
      BY <2>3, <2>5, <3>1, <3>2
  <2>7. IsRed(n) => ~IsRed(m)
    BY <1>2, <2>4, <2>5 DEF NoRedRed
  <2>8. 2 * (d - Blacks(n)) + red(m) + (i + 1) <= 2 * h + 1
    <3>1. CASE IsRed(n)
      BY <2>3, <2>7, <3>1 DEF Blacks
    <3>2. CASE ~IsRed(n)
      BY <2>3, <3>2 DEF Blacks
    <3> QED
      BY <3>1, <3>2
  <2>9. ok(i, d - Blacks(n))
    BY <2>6, <2>8 DEF m
  <2> HIDE DEF ok
  <2> QED
    BY <2>6, <2>9
<1> HIDE DEF I
<1>5. Len(path) - 1 \in I
  BY <1>1, <1>3, <1>4, LoopInvariant
<1> DEFINE n == path[Len(path)]
<1>6. PICK d \in Nat : HasDepth(n, d) /\ 2 * d + red(n) + Len(path) <= 2 * h + 1
  <2>1. (Len(path) - 1) + 1 = Len(path)
    BY <1>1
  <2> QED
    BY <1>5, <2>1 DEF I
<1>7. n \in Tree /\ n # NULL
  BY <1>1
<1> HIDE DEF n
<1>8. d - Blacks(n) \in Nat
  <2>1. "left" \in Side
    BY DEF Side
  <2> QED
    BY <1>6, <1>7, <2>1, DepthIs
<1> QED
  BY <1>1, <1>6, <1>8 DEF Blacks

(***************************************************************************)
(* The path of the iterator, which nothing checks against its capacity     *)
(* (sglib.h:1797-1802, 1895), is never longer than two for each black node *)
(* of a path down, so at most twice the logarithm of the number of nodes.  *)
(***************************************************************************)
THEOREM PathAlwaysFits == Spec => []PathFits
<1>1. ASSUME Good(the_tree), PathInv PROVE PathFits
  <2>1. the_tree \in Tree /\ Ordered(the_tree)
    BY <1>1, GoodLevels DEF Good
  <2>2. PICK h \in Int : HasDepth(the_tree, h)
    BY <1>1 DEF Good, RedBlack
  <2>3. h \in Nat
    BY <2>1, <2>2, DepthsOfTree DEF HasDepth
  <2>4. Len(path) \in Nat /\ Len(path) <= 2 * h
    BY <1>1, <2>2, <2>3, PathIsShort
  <2>5. (Len(path) + 1) \div 2 \in 0 .. h
    BY <2>3, <2>4
  <2>6. /\ PowerOfTwo[h] \in Nat /\ PowerOfTwo[(Len(path) + 1) \div 2] \in Nat
        /\ PowerOfTwo[(Len(path) + 1) \div 2] <= PowerOfTwo[h]
    BY <2>3, <2>5, PowersGrow
  <2>7. PowerOfTwo[h] <= Cardinality(Nodes(the_tree)) + 1
    BY <2>1, <2>2, <2>3, DepthNeedsNodes
  <2>8. Cardinality(Nodes(the_tree)) \in Nat
    BY <2>1, NodesOfTree, FS_CardinalityType
  <2> QED
    BY <2>6, <2>7, <2>8 DEF PathFits
<1>2. WalkInv => PathFits
  BY <1>1 DEF WalkInv, TreeInv
<1> QED
  BY <1>2, WalkHolds, PTL

-----------------------------------------------------------------------------
(* Where the entries of a part of a tree are among those of the whole.     *)

\* The entries of t before all those of n, before a key, and up to a key.
BeforeNode(t, n) == { e \in EntriesOf(t) : \A k \in KeysIn(n) : e[1] < k }
BeforeKey(t, k) == { e \in EntriesOf(t) : e[1] < k }
UpToKey(t, k) == { e \in EntriesOf(t) : e[1] <= k }

\* The entries of n are next to one another: any other comes before or after them all.
LEMMA PartsConnected ==
  \A t \in Tree : Ordered(t) => \A n \in Nodes(t) : \A e \in EntriesOf(t) :
     \/ e \in EntriesOf(n)
     \/ \A k \in KeysIn(n) : e[1] < k
     \/ \A k \in KeysIn(n) : k < e[1]
<1> DEFINE place(n, e) == \/ e \in EntriesOf(n)
                          \/ \A k \in KeysIn(n) : e[1] < k
                          \/ \A k \in KeysIn(n) : k < e[1]
           S == { t \in Tree : Ordered(t) =>
                    \A n \in Nodes(t) : \A e \in EntriesOf(t) : place(n, e) }
<1>1. NULL \in S
  BY Empty
<1>2. ASSUME NEW t \in Tree \ {NULL}, t.left \in S, t.right \in S PROVE t \in S
  <2> SUFFICES ASSUME Ordered(t), NEW n \in Nodes(t), NEW e \in EntriesOf(t) PROVE place(n, e)
    OBVIOUS
  <2>1. /\ t.left \in Tree /\ t.right \in Tree
        /\ EntriesOf(t) = {<<t.key, t.value>>} \union EntriesOf(t.left) \union EntriesOf(t.right)
        /\ Ordered(t.left) /\ Ordered(t.right)
        /\ \A k \in KeysIn(t.left) : k < t.key
        /\ \A k \in KeysIn(t.right) : t.key < k
    BY LeftRight
  <2>2. Nodes(t) = {t} \union Nodes(t.left) \union Nodes(t.right)
    BY NodesAre
  <2>3. /\ \A f \in EntriesOf(t.left) : f[1] \in KeysIn(t.left)
        /\ \A f \in EntriesOf(t.right) : f[1] \in KeysIn(t.right)
        /\ KeysIn(t.left) \subseteq Int /\ KeysIn(t.right) \subseteq Int /\ t.key \in Int
    BY <2>1, KeysOfTree, NodeFields
  <2>4. <<t.key, t.value>>[1] = t.key
    OBVIOUS
  <2>5. CASE n \in Nodes(t.left)
    <3>1. KeysIn(n) \subseteq KeysIn(t.left)
      BY <2>1, <2>5, NodesUnder DEF KeysIn
    <3>2. CASE e \in EntriesOf(t.left)
      BY <1>2, <2>1, <2>5, <3>2
    <3>3. CASE e \notin EntriesOf(t.left)
      <4>1. t.key <= e[1] /\ e[1] \in Int
        BY <2>1, <2>3, <2>4, <3>3
      <4>2. \A k \in KeysIn(n) : k < e[1]
        BY <2>1, <2>3, <3>1, <4>1
      <4> QED
        BY <4>2
    <3> QED
      BY <3>2, <3>3
  <2>6. CASE n \in Nodes(t.right)
    <3>1. KeysIn(n) \subseteq KeysIn(t.right)
      BY <2>1, <2>6, NodesUnder DEF KeysIn
    <3>2. CASE e \in EntriesOf(t.right)
      BY <1>2, <2>1, <2>6, <3>2
    <3>3. CASE e \notin EntriesOf(t.right)
      <4>1. e[1] <= t.key /\ e[1] \in Int
        BY <2>1, <2>3, <2>4, <3>3
      <4>2. \A k \in KeysIn(n) : e[1] < k
        BY <2>1, <2>3, <3>1, <4>1
      <4> QED
        BY <4>2
    <3> QED
      BY <3>2, <3>3
  <2> QED
    BY <2>2, <2>5, <2>6
<1> HIDE DEF S
<1>3. Tree \subseteq S
  BY <1>1, <1>2, TreeInduction
<1> QED
  BY <1>3 DEF S

\* What the fields of a node of a tree say of the places of its parts.
LEMMA NodePlace ==
  ASSUME NEW t \in Tree, Ordered(t), NEW n \in Nodes(t)
  PROVE  /\ n \in Tree /\ n # NULL /\ n.left \in Tree /\ n.right \in Tree
         /\ n.key \in Int /\ n.key \in KeysIn(n) /\ KeysIn(n) \subseteq Int
         /\ KeysIn(n.left) \subseteq KeysIn(n) /\ KeysIn(n.right) \subseteq KeysIn(n)
         /\ EntriesOf(n) = {<<n.key, n.value>>} \union EntriesOf(n.left) \union EntriesOf(n.right)
         /\ \A k \in KeysIn(n.left) : k < n.key
         /\ \A k \in KeysIn(n.right) : n.key < k
         /\ \A e \in EntriesOf(n.left) : e[1] \in KeysIn(n.left)
         /\ \A e \in EntriesOf(n.right) : e[1] \in KeysIn(n.right)
         /\ \A e \in EntriesOf(t) : e[1] \in Int
         /\ EntriesOf(n) \subseteq EntriesOf(t)
         /\ n.left # NULL => n.left.key \in KeysIn(n.left)
         /\ n.right # NULL => n.right.key \in KeysIn(n.right)
<1>1. n \in Tree /\ n # NULL
  BY NodesOfTree
<1>2. n.left \in Tree /\ n.right \in Tree /\ n.key \in Int
  BY <1>1, NodeFields
<1>3. EntriesOf(n) = {<<n.key, n.value>>} \union EntriesOf(n.left) \union EntriesOf(n.right)
  BY <1>1, LeftRight
<1>4. /\ \A k \in KeysIn(n.left) : k < n.key
      /\ \A k \in KeysIn(n.right) : n.key < k
  BY DEF Ordered, KeysIn
<1>5. Nodes(n) = {n} \union Nodes(n.left) \union Nodes(n.right)
  BY <1>1, NodesAre
<1>6. n.key \in KeysIn(n) /\ KeysIn(n.left) \subseteq KeysIn(n) /\ KeysIn(n.right) \subseteq KeysIn(n)
  BY <1>5 DEF KeysIn
<1>7. /\ KeysIn(n) \subseteq Int
      /\ \A e \in EntriesOf(n.left) : e[1] \in KeysIn(n.left)
      /\ \A e \in EntriesOf(n.right) : e[1] \in KeysIn(n.right)
      /\ \A e \in EntriesOf(t) : e[1] \in Int
      /\ n.left # NULL => n.left.key \in KeysIn(n.left)
      /\ n.right # NULL => n.right.key \in KeysIn(n.right)
  BY <1>1, <1>2, KeysOfTree
<1>8. EntriesOf(n) \subseteq EntriesOf(t)
  BY NodesUnder DEF EntriesOf
<1> QED
  BY <1>1, <1>2, <1>3, <1>4, <1>6, <1>7, <1>8

\* What is before a node and in its left subtree is what is before its key.
LEMMA LeftPart ==
  ASSUME NEW t \in Tree, Ordered(t), NEW n \in Nodes(t)
  PROVE  /\ BeforeNode(t, n) \union EntriesOf(n.left) = BeforeKey(t, n.key)
         /\ n.left # NULL => BeforeNode(t, n.left) = BeforeNode(t, n)
<1>1. ASSUME NEW e \in EntriesOf(t)
      PROVE  \/ e = <<n.key, n.value>> /\ e[1] = n.key
             \/ e \in EntriesOf(n.left) /\ e[1] \in KeysIn(n.left) /\ e[1] < n.key
             \/ n.key < e[1]
             \/ e \in BeforeNode(t, n) /\ e[1] < n.key
  <2>1. <<n.key, n.value>>[1] = n.key
    OBVIOUS
  <2>2. CASE e \in EntriesOf(n)
    BY <2>1, <2>2, NodePlace
  <2>3. CASE \A k \in KeysIn(n) : e[1] < k
    BY <2>3, NodePlace DEF BeforeNode
  <2>4. CASE \A k \in KeysIn(n) : k < e[1]
    BY <2>4, NodePlace
  <2> QED
    BY <2>2, <2>3, <2>4, PartsConnected
<1>2. BeforeNode(t, n) \union EntriesOf(n.left) = BeforeKey(t, n.key)
  <2>1. BeforeNode(t, n) \subseteq BeforeKey(t, n.key)
    BY NodePlace DEF BeforeNode, BeforeKey
  <2>2. EntriesOf(n.left) \subseteq BeforeKey(t, n.key)
    BY NodePlace DEF BeforeKey
  <2>3. ASSUME NEW e \in EntriesOf(t), e[1] < n.key
        PROVE  e \in BeforeNode(t, n) \union EntriesOf(n.left)
    <3>1. n.key \in Int /\ e[1] \in Int
      BY NodePlace
    <3> QED
      BY <1>1, <2>3, <3>1
  <2> QED
    BY <2>1, <2>2, <2>3 DEF BeforeKey
<1>3. ASSUME n.left # NULL PROVE BeforeNode(t, n.left) = BeforeNode(t, n)
  <2>1. BeforeNode(t, n) \subseteq BeforeNode(t, n.left)
    BY NodePlace DEF BeforeNode
  <2>2. ASSUME NEW e \in EntriesOf(t), \A k \in KeysIn(n.left) : e[1] < k
        PROVE  e \in BeforeNode(t, n)
    <3>1. /\ n.left.key \in KeysIn(n.left) /\ n.left.key < n.key
          /\ n.key \in Int /\ n.left.key \in Int /\ e[1] \in Int
      BY <1>3, NodePlace
    <3>2. e[1] < n.left.key
      BY <2>2, <3>1
    <3>3. ~(n.key < e[1]) /\ e[1] # n.key
      BY <3>1, <3>2
    <3>4. e[1] \notin KeysIn(n.left)
      BY <2>2, <3>1
    <3> QED
      BY <1>1, <3>3, <3>4
  <2> QED
    BY <2>1, <2>2 DEF BeforeNode
<1> QED
  BY <1>2, <1>3

\* What is up to its key and in its right subtree is what is before the node, and it.
LEMMA RightPart ==
  ASSUME NEW t \in Tree, Ordered(t), NEW n \in Nodes(t)
  PROVE  /\ UpToKey(t, n.key) \union EntriesOf(n.right) = BeforeNode(t, n) \union EntriesOf(n)
         /\ n.right # NULL => BeforeNode(t, n.right) = UpToKey(t, n.key)
<1>1. ASSUME NEW e \in EntriesOf(t)
      PROVE  \/ e \in EntriesOf(n) /\ e[1] <= n.key
             \/ e \in EntriesOf(n.right) /\ e[1] \in KeysIn(n.right)
             \/ \A k \in KeysIn(n) : k < e[1]
             \/ e \in BeforeNode(t, n) /\ e[1] < n.key
  <2>1. <<n.key, n.value>>[1] = n.key
    OBVIOUS
  <2>2. CASE e \in EntriesOf(n)
    BY <2>1, <2>2, NodePlace
  <2>3. CASE \A k \in KeysIn(n) : e[1] < k
    BY <2>3, NodePlace DEF BeforeNode
  <2> QED
    BY <2>2, <2>3, PartsConnected
<1>2. UpToKey(t, n.key) \union EntriesOf(n.right) = BeforeNode(t, n) \union EntriesOf(n)
  <2>1. BeforeNode(t, n) \subseteq UpToKey(t, n.key)
    BY NodePlace DEF BeforeNode, UpToKey
  <2>2. ASSUME NEW e \in EntriesOf(n) PROVE e \in UpToKey(t, n.key) \union EntriesOf(n.right)
    <3>1. <<n.key, n.value>>[1] = n.key
      OBVIOUS
    <3> QED
      BY <3>1, NodePlace DEF UpToKey
  <2>3. EntriesOf(n.right) \subseteq EntriesOf(n)
    BY NodePlace
  <2>4. ASSUME NEW e \in EntriesOf(t), e[1] <= n.key
        PROVE  e \in BeforeNode(t, n) \union EntriesOf(n)
    <3>1. /\ n.key \in Int /\ e[1] \in Int /\ n.key \in KeysIn(n)
          /\ EntriesOf(n.right) \subseteq EntriesOf(n)
      BY NodePlace
    <3> QED
      BY <1>1, <2>4, <3>1
  <2> QED
    BY <2>1, <2>2, <2>3, <2>4 DEF UpToKey
<1>3. ASSUME n.right # NULL PROVE BeforeNode(t, n.right) = UpToKey(t, n.key)
  <2>1. ASSUME NEW e \in EntriesOf(t), e[1] <= n.key PROVE e \in BeforeNode(t, n.right)
    BY <2>1, NodePlace DEF BeforeNode
  <2>2. ASSUME NEW e \in EntriesOf(t), \A k \in KeysIn(n.right) : e[1] < k
        PROVE  e[1] <= n.key
    <3>1. /\ n.right.key \in KeysIn(n.right) /\ n.right.key \in KeysIn(n)
          /\ n.key \in Int /\ n.right.key \in Int /\ e[1] \in Int
      BY <1>3, NodePlace
    <3>2. e[1] < n.right.key /\ e[1] \notin KeysIn(n.right)
      BY <2>2, <3>1
    <3> QED
      BY <1>1, <3>1, <3>2
  <2> QED
    BY <2>1, <2>2 DEF UpToKey, BeforeNode
<1> QED
  BY <1>2, <1>3

\* Its own entry comes between.
LEMMA OwnPart ==
  ASSUME NEW t \in Tree, Ordered(t), NEW n \in Nodes(t)
  PROVE  UpToKey(t, n.key) = BeforeKey(t, n.key) \union {<<n.key, n.value>>}
<1>1. <<n.key, n.value>> \in EntriesOf(t) /\ <<n.key, n.value>>[1] = n.key
  BY DEF EntriesOf
<1>2. \A e \in EntriesOf(t) : e[1] = n.key => e = <<n.key, n.value>>
  BY <1>1, OneValue
<1>3. n.key \in Int /\ \A e \in EntriesOf(t) : e[1] \in Int
  BY NodePlace
<1> QED
  BY <1>1, <1>2, <1>3 DEF UpToKey, BeforeKey

\* Nothing comes before the whole tree.
LEMMA WholePart ==
  ASSUME NEW t \in Tree, t # NULL
  PROVE  BeforeNode(t, t) = {}
<1>1. /\ \A e \in EntriesOf(t) : e[1] \in KeysIn(t)
      /\ KeysIn(t) \subseteq Int
  BY KeysOfTree
<1> QED
  BY <1>1 DEF BeforeNode

-----------------------------------------------------------------------------
(* What has been printed when the iterator is at a node.                   *)

\* At node n of t, after p of its subtrees, c being the current element.
PrintedAt(t, n, p, c) ==
    IF p = 0 THEN BeforeNode(t, n)
    ELSE IF p = 1 THEN IF c = NULL THEN UpToKey(t, n.key) ELSE BeforeKey(t, n.key)
    ELSE BeforeNode(t, n) \union EntriesOf(n)

\* The keys grow from each entry to the next.
InOrder(list) == \A i, j \in DOMAIN list : i < j => list[i][1] < list[j][1]

\* With an entry all those before it.
Beginning(t, part) ==
    /\ part \subseteq EntriesOf(t)
    /\ \A e \in part : \A d \in EntriesOf(t) : d[1] <= e[1] => d \in part

(***************************************************************************)
(* What is printed is in order, and is what comes before the place of the  *)
(* iterator, which its last node, pass and current element tell.           *)
(***************************************************************************)
PrintInv ==
    /\ InOrder(printed)
    /\ ~Idle => /\ ToSet(printed) = PrintedAt(the_tree, Last(path), Last(pass), currentelem)
                /\ Beginning(the_tree, ToSet(printed))

\* The list with one more, greater than all.
LEMMA OneMore ==
  ASSUME NEW list \in Seq(Keys \X Values), NEW e \in Keys \X Values, InOrder(list),
         \A d \in ToSet(list) : d[1] < e[1]
  PROVE  InOrder(Append(list, e)) /\ ToSet(Append(list, e)) = ToSet(list) \union {e}
<1> DEFINE r == Append(list, e)
<1>1. /\ Len(r) = Len(list) + 1 /\ Len(list) \in Nat /\ r \in Seq(Keys \X Values)
      /\ \A i \in 1 .. Len(list) : r[i] = list[i]
      /\ r[Len(list) + 1] = e
  BY AppendProperties
<1> HIDE DEF r
<1>2. DOMAIN list = 1 .. Len(list) /\ DOMAIN r = 1 .. Len(list) + 1
  BY <1>1
<1>3. \A i \in DOMAIN r : i = Len(list) + 1 \/ i \in DOMAIN list
  BY <1>1, <1>2
<1>4. ASSUME NEW i \in DOMAIN r, NEW j \in DOMAIN r, i < j PROVE r[i][1] < r[j][1]
  <2>1. i \in DOMAIN list /\ r[i] = list[i]
    BY <1>1, <1>2, <1>4
  <2>2. CASE j = Len(list) + 1
    <3>1. list[i] \in ToSet(list)
      BY <2>1 DEF ToSet
    <3> QED
      BY <1>1, <2>1, <2>2, <3>1
  <2>3. CASE j \in DOMAIN list
    BY <1>1, <1>2, <1>4, <2>1, <2>3 DEF InOrder
  <2> QED
    BY <1>3, <2>2, <2>3
<1>5. ToSet(r) = ToSet(list) \union {e}
  <2>1. ToSet(r) \subseteq ToSet(list) \union {e}
    BY <1>1, <1>2, <1>3 DEF ToSet
  <2>2. ToSet(list) \subseteq ToSet(r)
    BY <1>1, <1>2 DEF ToSet
  <2>3. e \in ToSet(r)
    BY <1>1, <1>2 DEF ToSet
  <2> QED
    BY <2>1, <2>2, <2>3
<1> QED
  BY <1>4, <1>5 DEF InOrder, r

\* Where the iterator is, the tree is in order, and its node is one of it.
LEMMA AtNode ==
  ASSUME PathInv, Good(the_tree), ~Idle
  PROVE  /\ the_tree \in Tree /\ Ordered(the_tree) /\ the_tree # NULL
         /\ Last(path) \in Nodes(the_tree) /\ Last(path) # NULL
         /\ Len(path) \in Nat /\ Len(path) > 0
<1>1. the_tree \in Tree /\ Ordered(the_tree)
  BY GoodLevels DEF Good
<1>2. Len(path) \in Nat /\ Len(path) > 0 /\ Last(path) = path[Len(path)] /\ Last(path) # NULL
  BY WhereIs
<1>3. Last(path) \in Nodes(the_tree)
  BY <1>2, NodesOnPath
<1>4. the_tree # NULL
  BY <1>3, Empty
<1> QED
  BY <1>1, <1>2, <1>3, <1>4

\* Above the last node is the one that it is a subtree of.
LEMMA AboveIs ==
  ASSUME PathInv, Good(the_tree), GoUp
  PROVE  /\ Idle' => Last(path) = the_tree
         /\ ~Idle' => /\ Link(Last(path'), Last(pass'), Last(path))
                      /\ Last(path') \in Nodes(the_tree)
                      /\ currentelem' = IF Last(pass') = 1 THEN Last(path') ELSE NULL
<1>1. /\ Len(path) \in Nat /\ Len(path) > 0 /\ Last(path) = path[Len(path)]
      /\ path # <<>>
  BY WhereIs DEF GoUp, Idle
<1>2. /\ PathInv' /\ the_tree' = the_tree
      /\ Len(path') = Len(path) - 1
      /\ \A i \in 1 .. Len(path) - 1 : path'[i] = path[i] /\ pass'[i] = pass[i]
      /\ path' # <<>> => currentelem' = IF Last(pass') = 1 THEN Last(path') ELSE NULL
  BY GoUpIs
<1>3. path' \in Seq(Tree \ {NULL}) /\ Len(path') = Len(pass')
  BY <1>2 DEF PathInv
<1>4. ASSUME Idle' PROVE Last(path) = the_tree
  <2>1. Len(path') = 0
    BY <1>4 DEF Idle
  <2>2. Len(path) = 1
    BY <1>1, <1>2, <2>1
  <2> QED
    BY <1>1, <2>2 DEF PathInv
<1>5. ASSUME ~Idle'
      PROVE  /\ Link(Last(path'), Last(pass'), Last(path))
             /\ Last(path') \in Nodes(the_tree)
             /\ currentelem' = IF Last(pass') = 1 THEN Last(path') ELSE NULL
  <2> DEFINE i == Len(path) - 1
  <2>1. path' # <<>>
    BY <1>5 DEF Idle
  <2>2. i \in 1 .. Len(path) - 1 /\ i + 1 = Len(path) /\ i \in 1 .. Len(path)
        /\ Len(path') = i /\ Len(pass') = i
    BY <1>1, <1>2, <1>3, <2>1
  <2> HIDE DEF i
  <2>3. Last(path') = path[i] /\ Last(pass') = pass[i]
    BY <1>2, <2>2 DEF Last
  <2>4. Link(path[i], pass[i], path[i + 1])
    BY <2>2 DEF PathInv
  <2>5. path[i] \in Nodes(the_tree)
    BY <2>2, NodesOnPath
  <2> QED
    BY <1>1, <1>2, <2>1, <2>2, <2>3, <2>4, <2>5
<1> QED
  BY <1>4, <1>5

\* A step of the iterator prints nothing, or the next entry; at the end all are printed.
LEMMA PrintSteps ==
  ASSUME PathInv, Good(the_tree), PrintInv, rbtree_print
  PROVE  /\ PrintInv' /\ the_tree' = the_tree
         /\ Beginning(the_tree, ToSet(printed'))
         /\ Idle' => ToSet(printed') = EntriesOf(the_tree)
<1> DEFINE t == the_tree
           n == Last(path)
           p == Last(pass)
<1>1. ~Idle
  BY DEF rbtree_print, GoUp, GoDown, PassOver, PrintElement, PathInv, Idle
<1>2. /\ t \in Tree /\ Ordered(t) /\ t # NULL /\ n \in Nodes(t) /\ n # NULL
      /\ Len(path) \in Nat /\ Len(path) > 0
  BY <1>1, AtNode
<1>3. /\ InOrder(printed) /\ ToSet(printed) = PrintedAt(t, n, p, currentelem)
      /\ Beginning(t, ToSet(printed))
  BY <1>1 DEF PrintInv
<1>4. EntriesOf(NULL) = {}
  BY Empty
<1>5. CASE GoUp
  <2>1. /\ currentelem = NULL /\ p = 2 /\ the_tree' = t /\ printed' = printed
    BY <1>5, GoUpIs
  <2>2. ToSet(printed) = BeforeNode(t, n) \union EntriesOf(n)
    BY <1>3, <2>1 DEF PrintedAt
  <2>3. ASSUME Idle' PROVE ToSet(printed) = EntriesOf(t)
    <3>1. n = t
      BY <1>5, <2>3, AboveIs
    <3>2. BeforeNode(t, t) = {}
      BY <1>2, WholePart
    <3> QED
      BY <2>2, <3>1, <3>2
  <2>4. ASSUME ~Idle'
        PROVE  ToSet(printed) = PrintedAt(t, Last(path'), Last(pass'), currentelem')
    <3> DEFINE m == Last(path')
    <3>1. /\ Link(m, Last(pass'), n) /\ m \in Nodes(t)
          /\ currentelem' = IF Last(pass') = 1 THEN m ELSE NULL
      BY <1>5, <2>4, AboveIs
    <3>2. m # NULL /\ n # NULL
      BY <1>2, <3>1, NodesOfTree
    <3> HIDE DEF m, n
    <3>3. CASE Last(pass') = 1 /\ n = m.left
      <4>1. BeforeNode(t, n) \union EntriesOf(n) = BeforeKey(t, m.key)
        BY <1>2, <3>1, <3>2, <3>3, LeftPart
      <4>2. currentelem' # NULL
        BY <3>1, <3>2, <3>3
      <4> QED
        BY <2>2, <3>3, <4>1, <4>2 DEF PrintedAt, m
    <3>4. CASE Last(pass') = 2 /\ n = m.right
      <4>1. BeforeNode(t, n) \union EntriesOf(n) = BeforeNode(t, m) \union EntriesOf(m)
        BY <1>2, <3>1, <3>2, <3>4, RightPart
      <4> QED
        BY <2>2, <3>4, <4>1 DEF PrintedAt, m
    <3> QED
      BY <3>1, <3>3, <3>4 DEF Link
  <2>5. PrintInv'
    BY <1>3, <2>1, <2>4 DEF PrintInv
  <2> QED
    BY <1>3, <2>1, <2>3, <2>5
<1>6. CASE GoDown
  <2> DEFINE m == NextSubtree
  <2>1. /\ currentelem = NULL /\ p \in {0, 1} /\ the_tree' = t /\ printed' = printed
        /\ m # NULL /\ path' # <<>> /\ Last(path') = m /\ Last(pass') = 0
    BY <1>6, GoDownIs
  <2>2. BeforeNode(t, m) = ToSet(printed)
    <3>1. CASE p = 0
      <4>1. m = n.left /\ ToSet(printed) = BeforeNode(t, n)
        BY <1>3, <3>1 DEF NextSubtree, PrintedAt
      <4> QED
        BY <1>2, <2>1, <4>1, LeftPart
    <3>2. CASE p = 1
      <4>1. m = n.right /\ ToSet(printed) = UpToKey(t, n.key)
        BY <1>3, <2>1, <3>2 DEF NextSubtree, PrintedAt
      <4> QED
        BY <1>2, <2>1, <4>1, RightPart
    <3> QED
      BY <2>1, <3>1, <3>2
  <2>3. ToSet(printed') = PrintedAt(the_tree', Last(path'), Last(pass'), currentelem')
    BY <2>1, <2>2 DEF PrintedAt
  <2>4. PrintInv'
    BY <1>3, <2>1, <2>3 DEF PrintInv
  <2> QED
    BY <1>3, <2>1, <2>4 DEF Idle
<1>7. CASE PassOver
  <2>1. /\ currentelem = NULL /\ p \in {0, 1} /\ the_tree' = t /\ printed' = printed
        /\ NextSubtree = NULL /\ path' = path /\ Last(pass') = p + 1
        /\ currentelem' = IF p = 0 THEN n ELSE NULL
    BY <1>7, PassOverIs
  <2>2. ToSet(printed) = PrintedAt(t, n, p + 1, currentelem')
    <3>1. CASE p = 0
      <4>1. n.left = NULL /\ ToSet(printed) = BeforeNode(t, n)
        BY <1>3, <2>1, <3>1 DEF NextSubtree, PrintedAt
      <4>2. BeforeNode(t, n) \union EntriesOf(n.left) = BeforeKey(t, n.key)
        BY <1>2, LeftPart
      <4>3. ToSet(printed) = BeforeKey(t, n.key)
        BY <1>4, <4>1, <4>2, Zenon
      <4>4. currentelem' # NULL
        BY <1>2, <2>1, <3>1
      <4>5. p + 1 = 1
        BY <3>1
      <4> QED
        BY <4>3, <4>4, <4>5 DEF PrintedAt
    <3>2. CASE p = 1
      <4>1. n.right = NULL /\ ToSet(printed) = UpToKey(t, n.key)
        BY <1>3, <2>1, <3>2 DEF NextSubtree, PrintedAt
      <4>2. UpToKey(t, n.key) \union EntriesOf(n.right) = BeforeNode(t, n) \union EntriesOf(n)
        BY <1>2, RightPart
      <4>3. ToSet(printed) = BeforeNode(t, n) \union EntriesOf(n) /\ p + 1 = 2
        BY <1>4, <3>2, <4>1, <4>2
      <4> QED
        BY <4>3 DEF PrintedAt
    <3> QED
      BY <2>1, <3>1, <3>2
  <2>3. PrintInv'
    BY <1>3, <2>1, <2>2 DEF PrintInv
  <2> QED
    BY <1>1, <1>3, <2>1, <2>3 DEF Idle
<1>8. CASE PrintElement
  <2> DEFINE e == <<n.key, n.value>>
  <2>1. /\ currentelem = n /\ p = 1 /\ the_tree' = t /\ path' = path /\ pass' = pass
        /\ currentelem' = NULL /\ printed' = Append(printed, e)
        /\ e \in Keys \X Values
    BY <1>8, PrintElementIs
  <2>2. ToSet(printed) = BeforeKey(t, n.key)
    BY <1>2, <1>3, <2>1 DEF PrintedAt
  <2>3. \A d \in ToSet(printed) : d[1] < e[1]
    BY <2>2 DEF BeforeKey
  <2>4. InOrder(printed') /\ ToSet(printed') = ToSet(printed) \union {e}
    <3>1. printed \in Seq(Keys \X Values)
      BY DEF PathInv
    <3> QED
      BY <1>3, <2>1, <2>3, <3>1, OneMore
  <2>5. ToSet(printed') = UpToKey(t, n.key)
    BY <1>2, <2>2, <2>4, OwnPart
  <2>6. Beginning(t, UpToKey(t, n.key))
    <3>1. n.key \in Int /\ \A d \in EntriesOf(t) : d[1] \in Int
      BY <1>2, NodePlace
    <3> QED
      BY <3>1 DEF Beginning, UpToKey
  <2>7. ToSet(printed') = PrintedAt(the_tree', Last(path'), Last(pass'), currentelem')
    BY <2>1, <2>5 DEF PrintedAt
  <2>8. PrintInv'
    BY <2>1, <2>4, <2>5, <2>6, <2>7 DEF PrintInv
  <2> QED
    BY <1>1, <2>1, <2>5, <2>6, <2>8 DEF Idle
<1> QED
  BY <1>5, <1>6, <1>7, <1>8 DEF rbtree_print

(***************************************************************************)
(* The inductive invariant of rbtree_print, with what it rests on.         *)
(***************************************************************************)
THEOREM PrintHolds == Spec => [](WalkInv /\ PrintInv)
<1>1. Init => PrintInv
  BY DEF Init, PrintInv, Idle, InOrder
<1>2. WalkInv /\ PrintInv /\ [Next]_vars => PrintInv'
  <2> SUFFICES ASSUME TreeInv, PathInv, PrintInv, [Next]_vars PROVE PrintInv'
    BY DEF WalkInv
  <2>1. Good(the_tree)
    BY DEF TreeInv
  <2>2. ASSUME NEW p \in Puts, rbtree_put(p[1], p[2]) PROVE PrintInv'
    <3>1. /\ PathInv' /\ Good(the_tree') /\ printed' = <<>> /\ path' = <<the_tree'>>
          /\ Last(path') = the_tree' /\ Last(pass') = 0
      BY <2>1, <2>2, StartIs
    <3>2. the_tree' \in Tree /\ the_tree' # NULL
      <4>1. path' \in Seq(Tree \ {NULL}) /\ path'[1] = the_tree' /\ Len(path') = 1
        BY <3>1 DEF PathInv
      <4> QED
        BY <4>1
    <3>3. ToSet(printed') = {} /\ BeforeNode(the_tree', the_tree') = {}
      BY <3>1, <3>2, WholePart DEF ToSet
    <3>4. InOrder(printed')
      BY <3>1 DEF InOrder
    <3>5. /\ ToSet(printed') = PrintedAt(the_tree', Last(path'), Last(pass'), currentelem')
          /\ Beginning(the_tree', ToSet(printed'))
      BY <3>1, <3>3 DEF PrintedAt, Beginning
    <3> QED
      BY <3>4, <3>5 DEF PrintInv
  <2>3. ASSUME NEW k \in Keys, delete_if_member(k) PROVE PrintInv'
    <3>1. Idle' /\ printed' = printed
      BY <2>1, <2>3, RemovalIs
    <3> QED
      BY <3>1 DEF PrintInv
  <2>4. CASE rbtree_print
    BY <2>1, <2>4, PrintSteps
  <2>5. CASE UNCHANGED vars
    BY <2>5 DEF vars, PrintInv, Idle
  <2> QED
    BY <2>2, <2>3, <2>4, <2>5 DEF Next
<1> QED
  BY <1>1, <1>2, WalkHolds, PTL DEF Spec

(***************************************************************************)
(* rbtree_print (rbtree.c:55-64) prints every entry once, in the order of  *)
(* keys and no other, whatever the shape of the tree.                      *)
(***************************************************************************)
THEOREM PrintIsInOrder == Spec => PrintsInOrder
<1>1. ASSUME WalkInv, PrintInv, [Next]_vars, ~Idle, ~UNCHANGED vars
      PROVE  /\ ListsInOrder(printed', Entries)
             /\ Idle' => ToSet(printed') = Entries
  <2>1. PathInv /\ Good(the_tree)
    BY <1>1 DEF WalkInv, TreeInv
  <2>2. rbtree_print
    BY <1>1 DEF Next, rbtree_put, delete_if_member
  <2>3. /\ PrintInv' /\ Beginning(the_tree, ToSet(printed'))
        /\ Idle' => ToSet(printed') = EntriesOf(the_tree)
    BY <1>1, <2>1, <2>2, PrintSteps
  <2>4. Entries = EntriesOf(the_tree)
    BY DEF Entries, EntriesOf
  <2>5. InOrder(printed')
    BY <2>3 DEF PrintInv
  <2>6. ToSet(printed') = { e \in Entries : \E i \in DOMAIN printed' : e[1] <= printed'[i][1] }
    <3>1. ASSUME NEW e \in ToSet(printed')
          PROVE  e \in Entries /\ \E i \in DOMAIN printed' : e[1] <= printed'[i][1]
      <4>1. PICK i \in DOMAIN printed' : printed'[i] = e
        BY DEF ToSet
      <4>2. e \in Entries
        BY <2>3, <2>4 DEF Beginning
      <4>3. e[1] \in Int
        <5>1. the_tree \in Tree
          BY <2>1, GoodLevels DEF Good
        <5> QED
          BY <2>4, <4>2, <5>1, KeysOfTree
      <4> QED
        BY <4>1, <4>2, <4>3
    <3>2. ASSUME NEW e \in Entries, NEW i \in DOMAIN printed', e[1] <= printed'[i][1]
          PROVE  e \in ToSet(printed')
      <4>1. printed'[i] \in ToSet(printed')
        BY DEF ToSet
      <4> QED
        BY <2>3, <2>4, <3>2, <4>1 DEF Beginning
    <3> QED
      BY <3>1, <3>2
  <2> QED
    BY <2>3, <2>4, <2>5, <2>6 DEF ListsInOrder, InOrder
<1>2. WalkInv /\ PrintInv /\ [Next]_vars
        => [~Idle => /\ ListsInOrder(printed', Entries)
                     /\ Idle' => ToSet(printed') = Entries]_vars
  BY <1>1
<1> QED
  BY <1>2, PrintHolds, PTL DEF Spec, PrintsInOrder
=============================================================================
