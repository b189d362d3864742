-------------------------- MODULE RequestLogProofs --------------------------
(***************************************************************************)
(* Theorems about the web server of hw1/a1.c, for rings, buffers and       *)
(* requests of any size: what its records look like, and that the status   *)
(* page shows the true history.                                            *)
(***************************************************************************)
EXTENDS RequestLog, ListLemmas

\* Strings: the provers are not aware that these literals are members of STRING.
Chars == STRING \union Special \union Methods
         \union {"&", "quot;", "lt;", "gt;", "undefined", "overwritten"}

Str == Seq(Chars)

Clean(s) == \A p \in DOMAIN s : s[p] \notin Special

-----------------------------------------------------------------------------
(* sanitize, turn by turn.                                                 *)

LEMMA EntityIs ==
  ASSUME NEW ch \in Special
  PROVE  /\ Entity(ch) \in Str /\ Len(Entity(ch)) = 2 /\ Clean(Entity(ch))
<1> DEFINE n == CASE ch = "quote" -> "quot;" [] ch = "<" -> "lt;" [] ch = ">" -> "gt;"
<1>1. n \in {"quot;", "lt;", "gt;"}
  BY DEF Special
<1>2. n \in Chars /\ n \notin Special /\ "&" \in Chars /\ "&" \notin Special
  BY <1>1 DEF Special, Chars
<1> HIDE DEF n
<1>3. Entity(ch) = <<"&", n>>
  BY DEF Entity, n
<1> QED
  BY <1>2, <1>3 DEF Clean, Str

\* A string in which the character after p is replaced by an entity.
LEMMA EscapeIs ==
  ASSUME NEW p \in Str, NEW ch \in Special, NEW r \in Str,
         Len(p) + Len(r) + 2 <= MAX_MESG
  PROVE  Escape(p \o <<ch>> \o r, Len(p) + 1) = p \o Entity(ch) \o r
<1> DEFINE s == p \o <<ch>> \o r
           e == Entity(ch)
           i == Len(p) + 1
<1>1. e \in Str /\ Len(e) = 2 /\ <<ch>> \in Str /\ Len(<<ch>>) = 1 /\ <<ch>>[1] = ch
  <2>1. ch \in Chars
    BY DEF Chars
  <2>2. e \in Str /\ Len(e) = 2
    BY EntityIs
  <2> QED
    BY <2>1, <2>2 DEF Str
<1> HIDE DEF e
<1> DEFINE q == p \o <<ch>>
<1>2. /\ q \in Str /\ Len(q) = Len(p) + 1
      /\ \A k \in 1 .. Len(p) + 1 : q[k] = IF k <= Len(p) THEN p[k] ELSE ch
  BY <1>1, ConcatProperties DEF Str
<1> HIDE DEF q
<1>3. /\ q \o r \in Str /\ Len(q \o r) = Len(q) + Len(r)
      /\ \A k \in 1 .. Len(q) + Len(r) : (q \o r)[k] = IF k <= Len(q) THEN q[k] ELSE r[k - Len(q)]
  BY <1>2, ConcatProperties, Zenon DEF Str
<1>4. s = q \o r
  BY DEF q
<1> HIDE DEF s
<1>5. /\ s \in Str /\ Len(s) = Len(p) + 1 + Len(r) /\ Len(p) \in Nat /\ Len(r) \in Nat
      /\ \A k \in 1 .. Len(p) : s[k] = p[k]
      /\ s[i] = ch
      /\ \A k \in 1 .. Len(r) : s[i + k] = r[k]
  BY <1>2, <1>3, <1>4 DEF Str
<1>6. SubSeq(s, 1, i - 1) = p
  <2>1. i - 1 = Len(p) /\ 1 + i - 1 = i /\ Len(p) - 1 + 1 = Len(p)
    BY <1>5
  <2> DEFINE a == SubSeq(s, 1, Len(p))
  <2>2. a \in Str /\ Len(a) = Len(p) /\ \A k \in 1 .. Len(p) : a[k] = s[k]
    <3>1. \A k \in 1 .. Len(p) : s[k] \in Chars /\ 1 + k - 1 = k
      BY <1>5 DEF Str
    <3> QED
      BY <1>5, <2>1, <3>1, SubSeqProperties DEF Str
  <2> HIDE DEF a
  <2>3. a = p
    BY <1>5, <2>2, SeqEqual DEF Str
  <2> QED
    BY <2>1, <2>3 DEF a
<1>7. SubSeq(s, i + 1, Len(s)) = r
  <2> DEFINE a == SubSeq(s, i + 1, Len(s))
  <2>1. /\ i + 1 \in Int /\ Len(s) \in Int /\ Len(s) - (i + 1) + 1 = Len(r)
        /\ \A k \in i + 1 .. Len(s) : k \in 1 .. Len(s)
        /\ \A k \in 1 .. Len(r) : (i + 1) + k - 1 = i + k
    BY <1>5
  <2>2. \A k \in i + 1 .. Len(s) : s[k] \in Chars
    BY <1>5, <2>1 DEF Str
  <2>3. a \in Str /\ Len(a) = Len(r) /\ \A k \in 1 .. Len(r) : a[k] = s[i + k]
    <3> HIDE DEF i
    <3>1. /\ a \in Str /\ Len(a) = IF i + 1 <= Len(s) THEN Len(s) - (i + 1) + 1 ELSE 0
          /\ \A k \in 1 .. Len(s) - (i + 1) + 1 : a[k] = s[(i + 1) + k - 1]
      BY <2>1, <2>2, SubSeqProperties DEF Str
    <3>2. Len(r) \in Nat /\ (i + 1 <= Len(s) <=> Len(r) # 0)
      BY <1>5 DEF i
    <3> QED
      BY <2>1, <3>1, <3>2
  <2> HIDE DEF a
  <2>4. a = r
    BY <1>5, <2>3, SeqEqual DEF Str
  <2> QED
    BY <2>4 DEF a
<1> DEFINE t == p \o e \o r
<1>8. t \in Str /\ Len(t) = Len(s) + 1
  <2>1. p \o e \in Str /\ Len(p \o e) = Len(p) + Len(e)
    BY <1>1, ConcatProperties, Zenon DEF Str
  <2>2. (p \o e) \o r \in Str /\ Len((p \o e) \o r) = Len(p \o e) + Len(r)
    BY <2>1, ConcatProperties, Zenon DEF Str
  <2> QED
    BY <1>1, <1>5, <2>1, <2>2
<1>9. Len(s) < MAX_MESG
  BY <1>5, RequestAssumption
<1>10. Escape(s, i) = SubSeq(t, 1, Len(s) + 1)
  BY <1>5, <1>6, <1>7, <1>9 DEF Escape, e
<1> HIDE DEF t, i
<1>11. SubSeq(t, 1, Len(t)) = t
  BY <1>8, SubSeqFull DEF Str
<1>12. Escape(s, i) = t
  BY <1>8, <1>10, <1>11
<1> QED
  BY <1>12 DEF t, e, i, s

\* No character up to n is to be replaced.
CleanTo(s, n) == \A p \in DOMAIN s : p <= n => s[p] \notin Special

Fit == { s \in Str : Len(s) <= MAX_MESG }

\* A turn of the loop leaves a string that fits the buffer, and clean one
\* character further than it was.
LEMMA AtPositionKeeps ==
  ASSUME NEW s \in Fit, NEW i \in Nat \ {0}
  PROVE  /\ AtPosition(s, i) \in Fit
         /\ Len(s) <= Len(AtPosition(s, i))
         /\ CleanTo(s, i - 1) => CleanTo(AtPosition(s, i), i)
<1>1. s \in Str /\ Len(s) \in Nat /\ Len(s) <= MAX_MESG /\ DOMAIN s = 1 .. Len(s)
      /\ MAX_MESG \in Nat
  BY RequestAssumption DEF Fit, Str
<1>2. CASE i <= Len(s) /\ s[i] \in Special
  <2> DEFINE a == SubSeq(s, 1, i - 1)
             e == Entity(s[i])
             b == SubSeq(s, i + 1, Len(s))
             n == IF Len(s) < MAX_MESG THEN Len(s) + 1 ELSE MAX_MESG
  <2>1. e \in Str /\ Len(e) = 2 /\ e[1] \notin Special
    <3>1. e \in Str /\ Len(e) = 2 /\ Clean(e)
      BY <1>2, EntityIs
    <3> HIDE DEF e
    <3> QED
      BY <3>1 DEF Clean, Str
  <2> HIDE DEF e
  <2>2. \A k \in 1 .. Len(s) : s[k] \in Chars
    BY <1>1 DEF Str
  <2>3. a \in Str /\ Len(a) = i - 1 /\ \A k \in 1 .. i - 1 : a[k] = s[k]
    <3>1. \A k \in 1 .. i - 1 : s[k] \in Chars /\ 1 + k - 1 = k
      BY <1>2, <2>2
    <3>2. 1 \in Int /\ i - 1 \in Int /\ (1 <= i - 1 => i - 1 - 1 + 1 = i - 1)
          /\ (~(1 <= i - 1) => i - 1 = 0)
      OBVIOUS
    <3>3. /\ a \in Str /\ Len(a) = IF 1 <= i - 1 THEN i - 1 - 1 + 1 ELSE 0
          /\ \A k \in 1 .. i - 1 - 1 + 1 : a[k] = s[1 + k - 1]
      BY <3>1, <3>2, SubSeqProperties DEF Str
    <3> HIDE DEF a
    <3> QED
      BY <3>1, <3>2, <3>3
  <2>4. b \in Str /\ Len(b) = Len(s) - i
    <3>1. /\ \A k \in i + 1 .. Len(s) : s[k] \in Chars
          /\ i + 1 \in Int /\ Len(s) \in Int
      BY <1>1, <2>2
    <3>2. b \in Str /\ Len(b) = IF i + 1 <= Len(s) THEN Len(s) - (i + 1) + 1 ELSE 0
      BY <3>1, SubSeqProperties DEF Str
    <3> HIDE DEF b
    <3>3. i + 1 <= Len(s) => Len(s) - (i + 1) + 1 = Len(s) - i
      BY <1>1
    <3>4. ~(i + 1 <= Len(s)) => Len(s) - i = 0
      <4>1. i <= Len(s) /\ i \in Int /\ Len(s) \in Int
        BY <1>1, <1>2
      <4>2. \A x, y \in Int : x <= y /\ ~(x + 1 <= y) => y - x = 0
        OBVIOUS
      <4> QED
        BY <4>1, <4>2
    <3> QED
      BY <3>2, <3>3, <3>4
  <2> HIDE DEF a, b
  <2> DEFINE q == a \o e
             t == q \o b
  <2>5. /\ q \in Str /\ Len(q) = Len(a) + Len(e)
        /\ \A k \in 1 .. Len(a) + Len(e) : q[k] = IF k <= Len(a) THEN a[k] ELSE e[k - Len(a)]
    BY <2>1, <2>3, ConcatProperties, Zenon DEF Str
  <2> HIDE DEF q
  <2>6. /\ t \in Str /\ Len(t) = Len(q) + Len(b)
        /\ \A k \in 1 .. Len(q) + Len(b) : t[k] = IF k <= Len(q) THEN q[k] ELSE b[k - Len(q)]
    BY <2>4, <2>5, ConcatProperties, Zenon DEF Str
  <2> HIDE DEF t
  <2>7. Len(t) = Len(s) + 1 /\ \A k \in 1 .. i - 1 : t[k] = s[k]
    <3>1. Len(q) = i + 1 /\ Len(t) = Len(s) + 1
      BY <1>1, <1>2, <2>1, <2>3, <2>4, <2>5, <2>6
    <3>2. ASSUME NEW k \in 1 .. i - 1 PROVE t[k] = q[k] /\ q[k] = a[k]
      BY <1>1, <1>2, <2>1, <2>3, <2>4, <2>5, <2>6, <3>1
    <3> QED
      BY <2>3, <3>1, <3>2
  <2>8. t[i] = e[1]
    <3>1. /\ Len(q) = i + 1 /\ i \in 1 .. i + 1 /\ i \in 1 .. Len(q) + Len(b) /\ ~(i <= i - 1)
          /\ i - (i - 1) = 1 /\ i <= i + 1
      BY <1>1, <1>2, <2>1, <2>3, <2>4, <2>5
    <3>2. t[i] = q[i]
      BY <2>6, <3>1
    <3>3. q[i] = e[i - (i - 1)]
      BY <2>1, <2>3, <2>5, <3>1
    <3> QED
      BY <3>1, <3>2, <3>3
  <2>9. n \in Nat /\ n <= MAX_MESG /\ Len(s) <= n /\ n <= Len(t) /\ n \in 1 .. Len(t)
    BY <1>1, <1>2, <2>7
  <2>10. AtPosition(s, i) = SubSeq(t, 1, n)
    BY <1>2 DEF AtPosition, Escape, t, q, a, e, b
  <2> DEFINE u == SubSeq(t, 1, n)
  <2> HIDE DEF n
  <2>11. u \in Str /\ Len(u) = n /\ \A k \in 1 .. n : u[k] = t[k]
    <3>1. \A k \in 1 .. n : t[k] \in Chars /\ 1 + k - 1 = k
      BY <2>6, <2>9 DEF Str
    <3>2. 1 \in Int /\ n \in Int /\ n - 1 + 1 = n /\ 1 <= n
      BY <2>9
    <3>3. /\ u \in Str /\ Len(u) = IF 1 <= n THEN n - 1 + 1 ELSE 0
          /\ \A k \in 1 .. n - 1 + 1 : u[k] = t[1 + k - 1]
      BY <3>1, <3>2, SubSeqProperties DEF Str
    <3> HIDE DEF u
    <3> QED
      BY <3>1, <3>2, <3>3
  <2> HIDE DEF u
  <2>12. CleanTo(s, i - 1) => CleanTo(u, i)
    <3> SUFFICES ASSUME CleanTo(s, i - 1), NEW k \in DOMAIN u, k <= i
                 PROVE  u[k] \notin Special
      BY DEF CleanTo
    <3>1. k \in 1 .. n
      BY <2>9, <2>11 DEF Str
    <3>2. CASE k = i
      BY <2>1, <2>8, <2>11, <3>1, <3>2
    <3>3. CASE k # i
      <4>1. k \in 1 .. i - 1 /\ k \in DOMAIN s /\ k <= i - 1
        BY <1>1, <1>2, <3>1, <3>3
      <4>2. u[k] = s[k]
        BY <2>7, <2>11, <3>1, <4>1
      <4> QED
        BY <4>1, <4>2 DEF CleanTo
    <3> QED
      BY <3>2, <3>3
  <2> QED
    BY <2>9, <2>10, <2>11, <2>12 DEF Fit, u
<1>3. CASE ~(i <= Len(s) /\ s[i] \in Special)
  <2>1. AtPosition(s, i) = s
    BY <1>3 DEF AtPosition
  <2>2. ASSUME CleanTo(s, i - 1), NEW p \in DOMAIN s, p <= i PROVE s[p] \notin Special
    <3>1. CASE p = i
      BY <1>1, <1>3, <3>1
    <3>2. CASE p # i
      <4>1. p <= i - 1
        BY <1>1, <2>2, <3>2
      <4> QED
        BY <2>2, <4>1 DEF CleanTo
    <3> QED
      BY <3>1, <3>2
  <2> QED
    BY <1>1, <2>1, <2>2 DEF CleanTo
<1> QED
  BY <1>2, <1>3

\* The values of the string in the loop of sanitize.
LEMMA SanitizeLoop ==
  ASSUME NEW s \in Fit
  PROVE  \E g \in [0 .. MAX_MESG -> Fit] :
            /\ g[0] = s /\ g[MAX_MESG] = Sanitize(s)
            /\ \A j \in 1 .. MAX_MESG : g[j] = AtPosition(g[j - 1], j)
<1> DEFINE N == MAX_MESG
           Is(g) == g = [j \in 0 .. N |-> IF j = 0 THEN s ELSE AtPosition(g[j - 1], j)]
           F == [j \in 1 .. N |-> [x \in Fit |-> AtPosition(x, j)]]
           g == CHOOSE h : Is(h)
<1>1. N \in Nat
  BY RequestAssumption
<1>2. F \in [1 .. N -> [Fit -> Fit]]
  <2>1. \A j \in 1 .. N : j \in Nat \ {0}
    BY <1>1
  <2> QED
    BY <2>1, AtPositionKeeps
<1>3. \A j \in 1 .. N : \A x \in Fit : F[j][x] = AtPosition(x, j)
  OBVIOUS
<1> HIDE DEF F
<1>4. PICK h \in [0 .. N -> Fit] : IsLoop(h, s, F, N)
  BY <1>1, <1>2, LoopExists
<1>5. \A j \in 0 .. N : j # 0 => j \in 1 .. N /\ j - 1 \in 0 .. N
  BY <1>1
<1>6. Is(h)
  <2>1. \A j \in 0 .. N : j # 0 => F[j][h[j - 1]] = AtPosition(h[j - 1], j)
    BY <1>3, <1>4, <1>5
  <2> QED
    BY <1>4, <2>1 DEF IsLoop
<1>7. Is(g)
  BY <1>6
<1>8. Sanitize(s) = g[N]
  BY DEF Sanitize
<1> HIDE DEF g
<1>9. g[0] = s /\ DOMAIN g = 0 .. N
      /\ \A j \in 1 .. N : g[j] = AtPosition(g[j - 1], j)
  <2>1. 0 \in 0 .. N /\ \A j \in 1 .. N : j \in 0 .. N /\ j # 0
    BY <1>1
  <2> QED
    BY <1>7, <2>1
<1>10. \A m \in 0 .. N : g[m] \in Fit
  <2> SUFFICES ASSUME NEW m \in 0 .. N PROVE g[m] \in Fit
    OBVIOUS
  <2> DEFINE J == { j \in 0 .. N : g[j] \in Fit }
  <2>1. 0 \in J
    BY <1>1, <1>9
  <2>2. ASSUME NEW j \in 1 .. m, j - 1 \in J PROVE j \in J
    <3>1. j \in 1 .. N /\ j \in 0 .. N /\ j \in Nat \ {0} /\ g[j - 1] \in Fit
      BY <1>1, <2>2
    <3> QED
      BY <1>9, <3>1, AtPositionKeeps
  <2> HIDE DEF J
  <2>3. m \in J
    BY <1>1, <2>1, <2>2, LoopInvariant
  <2> QED
    BY <2>3 DEF J
<1>11. g \in [0 .. N -> Fit]
  BY <1>7, <1>10
<1> QED
  BY <1>8, <1>9, <1>11

\* What sanitize leaves fits the buffer and is clean to the end.
LEMMA SanitizeCleans ==
  ASSUME NEW s \in Fit
  PROVE  /\ Sanitize(s) \in Fit /\ Clean(Sanitize(s))
         /\ Len(s) <= Len(Sanitize(s))
<1> DEFINE N == MAX_MESG
<1>1. N \in Nat
  BY RequestAssumption
<1>2. PICK g \in [0 .. N -> Fit] :
         /\ g[0] = s /\ g[N] = Sanitize(s)
         /\ \A j \in 1 .. N : g[j] = AtPosition(g[j - 1], j)
  BY SanitizeLoop
<1> DEFINE J == { j \in 0 .. N : CleanTo(g[j], j) /\ Len(s) <= Len(g[j]) }
<1>3. 0 \in J
  <2>1. \A p \in DOMAIN s : ~(p <= 0)
    BY DEF Fit, Str
  <2>2. Len(s) \in Nat
    BY DEF Fit, Str
  <2> QED
    BY <1>1, <1>2, <2>1, <2>2 DEF CleanTo
<1>4. ASSUME NEW j \in 1 .. N, j - 1 \in J PROVE j \in J
  <2>1. j - 1 \in 0 .. N /\ j \in 0 .. N /\ j \in Nat \ {0} /\ g[j - 1] \in Fit
        /\ CleanTo(g[j - 1], j - 1) /\ Len(s) <= Len(g[j - 1])
    BY <1>1, <1>4
  <2>2. /\ g[j] \in Fit /\ CleanTo(g[j], j) /\ Len(g[j - 1]) <= Len(g[j])
    BY <1>2, <2>1, AtPositionKeeps
  <2>3. Len(s) \in Nat /\ Len(g[j - 1]) \in Nat /\ Len(g[j]) \in Nat
    BY <2>1, <2>2 DEF Fit, Str
  <2> QED
    BY <2>1, <2>2, <2>3
<1> HIDE DEF J
<1>5. N \in J
  BY <1>1, <1>3, <1>4, LoopInvariant
<1>6. /\ Sanitize(s) \in Fit /\ CleanTo(Sanitize(s), N) /\ Len(s) <= Len(Sanitize(s))
  BY <1>1, <1>2, <1>5 DEF J
<1>7. \A p \in DOMAIN Sanitize(s) : p <= N
  BY <1>1, <1>6 DEF Fit, Str
<1> QED
  BY <1>6, <1>7 DEF Clean, CleanTo

\* It leaves a clean string as it is.
LEMMA SanitizeSame ==
  ASSUME NEW s \in Fit, Clean(s)
  PROVE  Sanitize(s) = s
<1> DEFINE N == MAX_MESG
<1>1. N \in Nat
  BY RequestAssumption
<1>2. PICK g \in [0 .. N -> Fit] :
         /\ g[0] = s /\ g[N] = Sanitize(s)
         /\ \A j \in 1 .. N : g[j] = AtPosition(g[j - 1], j)
  BY SanitizeLoop
<1> DEFINE J == { j \in 0 .. N : g[j] = s }
<1>3. 0 \in J
  BY <1>1, <1>2
<1>4. ASSUME NEW j \in 1 .. N, j - 1 \in J PROVE j \in J
  <2>1. j \in 0 .. N /\ g[j] = AtPosition(s, j) /\ j \in Nat \ {0}
    BY <1>1, <1>2, <1>4
  <2>2. j <= Len(s) => s[j] \notin Special
    BY <2>1 DEF Clean, Fit, Str
  <2> QED
    BY <2>1, <2>2 DEF AtPosition
<1> HIDE DEF J
<1>5. N \in J
  BY <1>1, <1>3, <1>4, LoopInvariant
<1> QED
  BY <1>2, <1>5 DEF J
-----------------------------------------------------------------------------
(* sanitize as it should be, character by character.                       *)

Piece(ch) == IF ch \in Special THEN Entity(ch) ELSE <<ch>>

\* What a character is replaced by has one character or two.
LEMMA PieceIs ==
  ASSUME NEW ch \in Chars
  PROVE  Piece(ch) \in Str /\ Len(Piece(ch)) \in {1, 2}
<1>1. CASE ch \in Special
  BY <1>1, EntityIs DEF Piece
<1>2. CASE ch \notin Special
  BY <1>2 DEF Piece, Str
<1> QED
  BY <1>1, <1>2

\* Escaped is the last of a series of strings that grows by a piece a turn.
LEMMA EscapedLoop ==
  ASSUME NEW s \in Str
  PROVE  \E e \in [0 .. Len(s) -> Str] :
            /\ e[0] = <<>> /\ e[Len(s)] = Escaped(s)
            /\ \A k \in 1 .. Len(s) : e[k] = e[k - 1] \o Piece(s[k])
<1> DEFINE N == Len(s)
           P == [k \in 1 .. N |-> IF s[k] \in Special THEN Entity(s[k]) ELSE <<s[k]>>]
           Is(f) == f = [i \in 1 .. N |-> IF i = 1 THEN P[i] ELSE f[i - 1] \o P[i]]
           F == [k \in 1 .. N |-> [x \in Str |-> x \o Piece(s[k])]]
           f == CHOOSE h : Is(h)
<1>1. N \in Nat /\ \A k \in 1 .. N : s[k] \in Chars
  BY DEF Str
<1>2. \A k \in 1 .. N : P[k] = Piece(s[k]) /\ P[k] \in Str
  BY <1>1, PieceIs DEF Piece
<1>3. DOMAIN P = 1 .. N /\ P \in Seq(Str) /\ Len(P) = N
  BY <1>1, <1>2
<1>4. F \in [1 .. N -> [Str -> Str]]
  <2>1. \A k \in 1 .. N : \A x \in Str : x \o Piece(s[k]) \in Str
    BY <1>1, PieceIs, ConcatProperties DEF Str
  <2> QED
    BY <2>1
<1>5. \A k \in 1 .. N : \A x \in Str : F[k][x] = x \o Piece(s[k])
  OBVIOUS
<1>6. <<>> \in Str
  BY DEF Str
<1>7. Escaped(s) = IF Len(P) = 0 THEN P ELSE f[Len(P)]
  <2>1. Escaped(s) = FlattenSeq(P)
    BY DEF Escaped
  <2> HIDE DEF P
  <2>2. FlattenSeq(P) = IF Len(P) = 0 THEN P ELSE f[Len(P)]
    BY <1>3 DEF FlattenSeq
  <2> QED
    BY <2>1, <2>2
<1> HIDE DEF F, P
<1>8. PICK g \in [0 .. N -> Str] : IsLoop(g, <<>>, F, N)
  BY <1>1, <1>4, <1>6, LoopExists
<1>9. g[0] = <<>> /\ \A k \in 1 .. N : g[k] = g[k - 1] \o Piece(s[k])
  <2>1. 0 \in 0 .. N /\ \A k \in 1 .. N : k \in 0 .. N /\ k - 1 \in 0 .. N /\ k # 0
    BY <1>1
  <2>2. g[0] = <<>> /\ \A k \in 1 .. N : g[k] = F[k][g[k - 1]]
    BY <1>8, <2>1 DEF IsLoop
  <2> QED
    BY <1>5, <2>1, <2>2
<1>10. CASE N = 0
  <2>1. P = <<>>
    BY <1>3, <1>10
  <2> QED
    BY <1>3, <1>7, <1>9, <1>10, <2>1
<1>11. CASE N # 0
  <2> DEFINE h == [i \in 1 .. N |-> g[i]]
  <2>1. Is(h)
    <3>1. ASSUME NEW i \in 1 .. N PROVE h[i] = IF i = 1 THEN P[i] ELSE h[i - 1] \o P[i]
      <4>1. CASE i = 1
        <5>0. i - 1 = 0
          BY <4>1
        <5>1. g[i] = <<>> \o P[i]
          BY <1>2, <1>9, <5>0
        <5>2. <<>> \o P[i] = P[i]
          BY <1>2, ConcatEmptySeq DEF Str
        <5> QED
          BY <4>1, <5>1, <5>2
      <4>2. CASE i # 1
        <5>1. i - 1 \in 1 .. N
          BY <1>1, <4>2
        <5> QED
          BY <1>2, <1>9, <4>2, <5>1
      <4> QED
        BY <4>1, <4>2
    <3> QED
      BY <3>1
  <2>2. Is(f)
    BY <2>1
  <2> HIDE DEF f
  <2> DEFINE J == { i \in 0 .. N : i # 0 => f[i] = g[i] }
  <2>3. 0 \in J
    BY <1>1
  <2>4. ASSUME NEW i \in 1 .. N, i - 1 \in J PROVE i \in J
    <3>0. i \in 0 .. N /\ (i # 1 => i - 1 \in 1 .. N /\ i - 1 # 0) /\ f[i] = IF i = 1 THEN P[i] ELSE f[i - 1] \o P[i]
      BY <1>1, <2>2
    <3>1. CASE i = 1
      <4>1. f[i] = h[i]
        BY <2>1, <3>0, <3>1
      <4> QED
        BY <3>0, <4>1
    <3>2. CASE i # 1
      <4>1. f[i] = f[i - 1] \o P[i] /\ f[i - 1] = g[i - 1]
        BY <2>4, <3>0, <3>2
      <4> QED
        BY <1>2, <1>9, <3>0, <4>1
    <3> QED
      BY <3>1, <3>2
  <2> HIDE DEF J
  <2>5. N \in J
    BY <1>1, <2>3, <2>4, LoopInvariant
  <2>6. f[N] = g[N]
    BY <1>11, <2>5 DEF J
  <2> QED
    BY <1>3, <1>7, <1>9, <1>11, <2>6
<1> QED
  BY <1>10, <1>11

\* The escaped string in pieces: what is put in for the first k characters.
IsEscape(e, s) ==
    /\ e \in [0 .. Len(s) -> Str]
    /\ e[0] = <<>> /\ e[Len(s)] = Escaped(s)
    /\ \A k \in 1 .. Len(s) : e[k] = e[k - 1] \o Piece(s[k])

\* Each piece is at least one character.
LEMMA EscapeGrows ==
  ASSUME NEW s \in Str, NEW e, IsEscape(e, s), NEW k \in 0 .. Len(s)
  PROVE  Len(e[k]) \in Nat /\ Len(e[k]) + (Len(s) - k) <= Len(e[Len(s)])
<1> DEFINE N == Len(s)
<1>1. N \in Nat /\ \A m \in 1 .. N : s[m] \in Chars
  BY DEF Str
<1>2. \A m \in 0 .. N : e[m] \in Str /\ Len(e[m]) \in Nat
  BY DEF IsEscape, Str
<1>3. \A m \in 1 .. N : Len(e[m - 1]) + 1 <= Len(e[m])
  <2> SUFFICES ASSUME NEW m \in 1 .. N PROVE Len(e[m - 1]) + 1 <= Len(e[m])
    OBVIOUS
  <2>1. m - 1 \in 0 .. N /\ e[m] = e[m - 1] \o Piece(s[m])
    <3>1. m - 1 \in 0 .. N
      BY <1>1
    <3> QED
      BY <3>1 DEF IsEscape
  <2>2. e[m - 1] \in Str /\ Piece(s[m]) \in Str /\ Len(Piece(s[m])) \in {1, 2}
    BY <1>1, <1>2, <2>1, PieceIs
  <2>3. Len(e[m]) = Len(e[m - 1]) + Len(Piece(s[m]))
    BY <2>1, <2>2, ConcatProperties DEF Str
  <2>4. Len(e[m - 1]) \in Nat
    BY <1>2, <2>1
  <2>5. \A x \in Nat : \A y \in {1, 2} : x + 1 <= x + y
    OBVIOUS
  <2> QED
    BY <2>2, <2>3, <2>4, <2>5
<1> DEFINE J == { d \in 0 .. N - k : Len(e[k]) + d <= Len(e[k + d]) }
<1>4. 0 \in J
  BY <1>1, <1>2
<1>5. ASSUME NEW d \in 1 .. N - k, d - 1 \in J PROVE d \in J
  <2>1. /\ k + d \in 1 .. N /\ k + d - 1 = k + (d - 1) /\ k + (d - 1) \in 0 .. N /\ d \in 0 .. N - k
    BY <1>1
  <2>2. /\ Len(e[k + (d - 1)]) + 1 <= Len(e[k + d]) /\ Len(e[k]) + (d - 1) <= Len(e[k + (d - 1)])
    BY <1>3, <1>5, <2>1
  <2>3. Len(e[k + (d - 1)]) \in Nat /\ Len(e[k + d]) \in Nat /\ Len(e[k]) \in Nat
    BY <1>2, <2>1
  <2>4. Len(e[k]) + d <= Len(e[k + d])
    BY <2>2, <2>3
  <2> QED
    BY <2>1, <2>4
<1> HIDE DEF J
<1>6. N - k \in Nat /\ k + (N - k) = N
  BY <1>1
<1>7. N - k \in J
  BY <1>4, <1>5, <1>6, LoopInvariant
<1> QED
  BY <1>2, <1>6, <1>7 DEF J

\* The end of a string from its (k+1)-th character on.
Rest(s, k) == SubSeq(s, k + 1, Len(s))

\* The rest of a string, one character at a time.
LEMMA RestIs ==
  ASSUME NEW s \in Str, NEW k \in 0 .. Len(s)
  PROVE  /\ Rest(s, k) \in Str /\ Len(Rest(s, k)) = Len(s) - k
         /\ k < Len(s) => Rest(s, k) = <<s[k + 1]>> \o Rest(s, k + 1)
<1>1. Len(s) \in Nat /\ \A m \in 1 .. Len(s) : s[m] \in Chars
  BY DEF Str
<1> DEFINE b == SubSeq(s, k + 1, Len(s))
<1>2. b \in Str /\ Len(b) = IF k + 1 <= Len(s) THEN Len(s) - (k + 1) + 1 ELSE 0
  <2>1. /\ \A m \in k + 1 .. Len(s) : s[m] \in Chars
        /\ k + 1 \in Int /\ Len(s) \in Int
    BY <1>1
  <2> QED
    BY <2>1, SubSeqProperties DEF Str
<1> HIDE DEF b
<1>3. k + 1 <= Len(s) => Len(s) - (k + 1) + 1 = Len(s) - k
  BY <1>1
<1>4. ~(k + 1 <= Len(s)) => Len(s) - k = 0
  <2>1. k <= Len(s) /\ k \in Int /\ Len(s) \in Int
    BY <1>1
  <2>2. \A x, y \in Int : x <= y /\ ~(x + 1 <= y) => y - x = 0
    OBVIOUS
  <2> QED
    BY <2>1, <2>2
<1>5. ASSUME k < Len(s) PROVE b = <<s[k + 1]>> \o Rest(s, k + 1)
  <2>1. k + 1 \in 1 .. Len(s) /\ Len(s) \in k + 1 .. Len(s)
    BY <1>1, <1>5
  <2> QED
    BY <2>1, SubSeqRecursiveFirst DEF b, Rest, Str
<1> QED
  BY <1>2, <1>3, <1>4, <1>5 DEF Rest, b

\* The loop of sanitize has put in e[k] for the first k characters, and looks
\* next at what comes after, at the rest of an entity, or beyond the end.
Reached(e, s, t, m, k) ==
    /\ k \in 0 .. Len(s) /\ t = e[k] \o Rest(s, k)
    /\ \/ m = Len(e[k])
       \/ m + 1 = Len(e[k]) /\ e[k][m + 1] \notin Special
       \/ k = Len(s) /\ m > Len(e[k])

\* Concatenation is associative.
LEMMA Concats ==
  ASSUME NEW a \in Str, NEW b \in Str, NEW d \in Str
  PROVE  (a \o b) \o d = a \o (b \o d)
BY ConcatAssociative DEF Str

\* A turn of the loop goes on by one character of what it has written.
LEMMA EscapeStep ==
  ASSUME NEW s \in Str, NEW e, IsEscape(e, s), Len(Escaped(s)) <= MAX_MESG,
         NEW m \in Nat, NEW t, NEW k, Reached(e, s, t, m, k)
  PROVE  \E n \in 0 .. Len(s) : Reached(e, s, AtPosition(t, m + 1), m + 1, n)
<1> DEFINE N == Len(s)
           p == e[k]
           r == Rest(s, k)
<1>1. /\ N \in Nat /\ k \in 0 .. N /\ p \in Str /\ Len(p) \in Nat
      /\ r \in Str /\ Len(r) = N - k /\ t = p \o r /\ MAX_MESG \in Nat
  <2>1. k \in 0 .. N /\ t = p \o r
    BY DEF Reached
  <2>2. p \in Str
    BY <2>1 DEF IsEscape
  <2>3. r \in Str /\ Len(r) = N - k
    BY <2>1, RestIs
  <2>4. N \in Nat /\ Len(p) \in Nat /\ MAX_MESG \in Nat
    BY <2>2, RequestAssumption DEF Str
  <2> QED
    BY <2>1, <2>2, <2>3, <2>4
<1>2. /\ t \in Str /\ Len(t) = Len(p) + Len(r)
      /\ \A i \in 1 .. Len(p) + Len(r) : t[i] = IF i <= Len(p) THEN p[i] ELSE r[i - Len(p)]
  BY <1>1, ConcatProperties, Zenon DEF Str
<1>3. CASE m = Len(p) /\ k < N
  <2> DEFINE ch == s[k + 1]
             q == e[k + 1]
             u == Rest(s, k + 1)
  <2>1. k + 1 \in 0 .. N /\ k + 1 \in 1 .. N /\ k + 1 - 1 = k
    BY <1>1, <1>3
  <2>2. ch \in Chars /\ u \in Str /\ Len(u) = N - (k + 1) /\ r = <<ch>> \o u
    <3>1. ch \in Chars
      BY <2>1 DEF Str
    <3>2. u \in Str /\ Len(u) = N - (k + 1)
      BY <2>1, RestIs
    <3>3. r = <<ch>> \o u
      BY <1>1, <1>3, RestIs
    <3> QED
      BY <3>1, <3>2, <3>3
  <2>3. q = p \o Piece(ch) /\ q \in Str
    BY <2>1 DEF IsEscape
  <2> HIDE DEF r
  <2>4. Len(q) \in Nat /\ Len(q) + (N - (k + 1)) <= MAX_MESG
    <3>1. Len(q) \in Nat /\ Len(q) + (N - (k + 1)) <= Len(e[N])
      BY <2>1, EscapeGrows
    <3>2. e[N] = Escaped(s) /\ e[N] \in Str
      BY <1>1 DEF IsEscape
    <3>3. Len(e[N]) \in Nat
      BY <3>2 DEF Str
    <3> QED
      BY <1>1, <3>1, <3>2, <3>3
  <2> HIDE DEF ch, q, u, p, N
  <2>5. <<ch>> \in Str /\ Len(<<ch>>) = 1 /\ <<ch>>[1] = ch
    BY <2>2 DEF Str
  <2>6. t = (p \o <<ch>>) \o u
    <3> DEFINE x == <<ch>>
    <3>1. x \in Str /\ t = p \o (x \o u)
      BY <1>1, <2>2, <2>5
    <3> HIDE DEF x
    <3>2. p \in Str /\ u \in Str
      BY <1>1, <2>2
    <3>3. (p \o x) \o u = p \o (x \o u)
      BY <3>1, <3>2, Concats, Zenon
    <3> QED
      BY <3>1, <3>3 DEF x
  <2>7. m + 1 <= Len(t) /\ t[m + 1] = ch
    <3>1. /\ r \in Str /\ Len(r) = 1 + Len(u) /\ r[1] = ch
      BY <2>2, <2>5, ConcatProperties DEF Str
    <3>2. m + 1 \in 1 .. Len(p) + Len(r) /\ ~(m + 1 <= Len(p)) /\ m + 1 - Len(p) = 1
      BY <1>1, <1>3
    <3> QED
      BY <1>1, <1>2, <3>1, <3>2
  <2>8. CASE ch \in Special
    <3>1. Piece(ch) = Entity(ch) /\ Entity(ch) \in Str /\ Len(Entity(ch)) = 2 /\ Clean(Entity(ch))
      BY <2>8, EntityIs DEF Piece
    <3>2. /\ Len(q) = Len(p) + Len(Entity(ch))
          /\ \A i \in 1 .. Len(p) + Len(Entity(ch)) :
                q[i] = IF i <= Len(p) THEN p[i] ELSE Entity(ch)[i - Len(p)]
      <4> DEFINE b == Entity(ch)
      <4>1. b \in Str /\ q = p \o b
        BY <2>3, <3>1
      <4> HIDE DEF b
      <4>2. /\ Len(p \o b) = Len(p) + Len(b)
            /\ \A i \in 1 .. Len(p) + Len(b) :
                 (p \o b)[i] = IF i <= Len(p) THEN p[i] ELSE b[i - Len(p)]
        BY <1>1, <4>1, ConcatProperties, Zenon DEF Str
      <4> QED
        BY <4>1, <4>2, Zenon DEF b
    <3>3. Len(p) + Len(u) + 2 <= MAX_MESG
      BY <1>1, <2>1, <2>2, <2>4, <3>1, <3>2 DEF N
    <3>4. Escape(t, m + 1) = p \o Entity(ch) \o u
      <4>1. Escape(p \o <<ch>> \o u, Len(p) + 1) = p \o Entity(ch) \o u
        BY <1>1, <2>2, <2>8, <3>3, EscapeIs
      <4>2. m = Len(p)
        BY <1>1, <1>3
      <4> QED
        BY <2>6, <4>1, <4>2
    <3>5. AtPosition(t, m + 1) = q \o u
      BY <2>3, <2>7, <2>8, <3>1, <3>4 DEF AtPosition
    <3>6. m + 1 + 1 = Len(q) /\ q[m + 1 + 1] \notin Special
      <4>1. m + 1 + 1 = Len(q) /\ m + 2 = m + 1 + 1
        BY <1>1, <1>3, <3>1, <3>2
      <4>2. m + 2 \in 1 .. Len(p) + Len(Entity(ch)) /\ ~(m + 2 <= Len(p)) /\ m + 2 - Len(p) = 2
        BY <1>1, <1>3, <3>1
      <4>3. q[m + 2] = Entity(ch)[2]
        BY <3>2, <4>2
      <4>4. Entity(ch)[2] \notin Special
        BY <3>1 DEF Clean, Str
      <4> QED
        BY <4>1, <4>3, <4>4
    <3> QED
      BY <2>1, <3>5, <3>6 DEF Reached, q, u, N
  <2>9. CASE ch \notin Special
    <3>1. q = p \o <<ch>>
      BY <2>3, <2>9 DEF Piece
    <3>2. AtPosition(t, m + 1) = q \o u
      BY <2>6, <2>7, <2>9, <3>1 DEF AtPosition
    <3>3. Len(q) = Len(p) + 1
      BY <1>1, <2>5, <3>1, ConcatProperties DEF Str
    <3> QED
      BY <1>3, <2>1, <3>2, <3>3 DEF Reached, q, u, N
  <2> QED
    BY <2>8, <2>9
<1>4. CASE ~(m = Len(p) /\ k < N)
  <2>1. m + 1 <= Len(t) => t[m + 1] \notin Special
    <3>1. CASE m + 1 = Len(p) /\ p[m + 1] \notin Special
      <4>1. m + 1 \in 1 .. Len(p) + Len(r)
        BY <1>1, <3>1
      <4> QED
        BY <1>2, <3>1, <4>1
    <3>2. CASE m >= Len(p)
      <4>1. k = N
        BY <1>1, <1>4, <3>2 DEF Reached
      <4>2. ~(m + 1 <= Len(t))
        BY <1>1, <1>2, <3>2, <4>1
      <4> QED
        BY <4>2
    <3>3. m >= Len(p) \/ (m + 1 = Len(p) /\ p[m + 1] \notin Special)
      <4>1. \/ m = Len(p)
            \/ m + 1 = Len(p) /\ p[m + 1] \notin Special
            \/ k = N /\ m > Len(p)
        BY DEF Reached
      <4> QED
        BY <1>1, <4>1
    <3> QED
      BY <3>1, <3>2, <3>3, Zenon
  <2>2. AtPosition(t, m + 1) = t
    BY <2>1 DEF AtPosition
  <2>3. m + 1 = Len(p) \/ (k = N /\ m + 1 > Len(p))
    BY <1>1, <1>4 DEF Reached
  <2> QED
    BY <1>1, <2>2, <2>3 DEF Reached
<1> QED
  BY <1>3, <1>4

\* sanitize (a1.c:54-85) replaces characters in place, each time moving the rest
\* of the buffer up by one.  Where there is room for the result, that is the
\* string in which every such character, and no other, is replaced by its entity.
THEOREM SanitizeEscapes ==
  ASSUME NEW s \in Str, Len(Escaped(s)) <= MAX_MESG
  PROVE  s \in Fit /\ Sanitize(s) = Escaped(s)
<1> DEFINE N == Len(s)
           M == MAX_MESG
<1>1. PICK e : IsEscape(e, s)
  BY EscapedLoop DEF IsEscape
<1>2. N \in Nat /\ M \in Nat /\ e[0] = <<>> /\ e[N] = Escaped(s) /\ e[N] \in Str
  BY <1>1, RequestAssumption DEF IsEscape, Str
<1>3. \A k \in 0 .. N : Len(e[k]) \in Nat /\ Len(e[k]) + (N - k) <= Len(e[N])
  BY <1>1, EscapeGrows
<1>4. Len(e[N]) \in Nat /\ Len(e[N]) <= M
  BY <1>2 DEF Str
<1>5. s \in Fit
  <2>1. Len(e[0]) + (N - 0) <= Len(e[N]) /\ Len(e[0]) = 0
    BY <1>2, <1>3
  <2> QED
    BY <1>2, <1>4, <2>1 DEF Fit
<1>6. PICK g \in [0 .. M -> Fit] :
         /\ g[0] = s /\ g[M] = Sanitize(s)
         /\ \A j \in 1 .. M : g[j] = AtPosition(g[j - 1], j)
  BY <1>5, SanitizeLoop
<1> DEFINE J == { m \in 0 .. M : \E k \in 0 .. N : Reached(e, s, g[m], m, k) }
<1>7. 0 \in J
  <2>1. Rest(s, 0) = s
    BY SubSeqFull DEF Rest, Str
  <2>2. <<>> \o s = s
    BY ConcatEmptySeq DEF Str
  <2>3. Reached(e, s, g[0], 0, 0)
    BY <1>2, <1>6, <2>1, <2>2 DEF Reached
  <2> QED
    BY <1>2, <2>3
<1>8. ASSUME NEW m \in 1 .. M, m - 1 \in J PROVE m \in J
  <2>1. m - 1 \in Nat /\ m - 1 + 1 = m /\ m \in 0 .. M
    BY <1>2
  <2>2. PICK k \in 0 .. N : Reached(e, s, g[m - 1], m - 1, k)
    BY <1>8
  <2>3. \E n \in 0 .. N : Reached(e, s, AtPosition(g[m - 1], m - 1 + 1), m - 1 + 1, n)
    BY <1>1, <2>1, <2>2, EscapeStep
  <2> QED
    BY <1>6, <2>1, <2>3
<1> HIDE DEF J
<1>9. M \in J
  BY <1>2, <1>7, <1>8, LoopInvariant
<1>10. PICK k \in 0 .. N : Reached(e, s, g[M], M, k)
  BY <1>9 DEF J
<1>11. k = N
  <2>1. Len(e[k]) \in Nat /\ Len(e[k]) + (N - k) <= M
    BY <1>2, <1>3, <1>4
  <2>2. M <= Len(e[k]) \/ k = N
    BY <1>2, <1>10, <2>1 DEF Reached
  <2> QED
    BY <1>2, <2>1, <2>2
<1>12. g[M] = e[N] \o Rest(s, N)
  BY <1>10, <1>11 DEF Reached
<1>13. Rest(s, N) = <<>>
  BY <1>2, SubSeqEmpty DEF Rest
<1>14. e[N] \o <<>> = e[N]
  BY <1>2, ConcatEmptySeq DEF Str
<1> QED
  BY <1>2, <1>5, <1>6, <1>12, <1>13, <1>14

\* What Escaped gives: at least as long, and the same where there is nothing to do.
LEMMA EscapedIs ==
  ASSUME NEW s \in Str
  PROVE  /\ Escaped(s) \in Str /\ Len(s) <= Len(Escaped(s))
         /\ Clean(s) => Escaped(s) = s
<1> DEFINE N == Len(s)
<1>1. PICK e : IsEscape(e, s)
  BY EscapedLoop DEF IsEscape
<1>2. N \in Nat /\ e[0] = <<>> /\ e[N] = Escaped(s) /\ e[N] \in Str
  BY <1>1 DEF IsEscape, Str
<1>3. N <= Len(e[N])
  <2>1. Len(e[0]) + (N - 0) <= Len(e[N]) /\ Len(e[0]) = 0
    BY <1>1, <1>2, EscapeGrows
  <2> QED
    BY <1>2, <2>1
<1>4. ASSUME Clean(s) PROVE e[N] = s
  <2> DEFINE J == { k \in 0 .. N : e[k] = SubSeq(s, 1, k) }
  <2>1. 0 \in J
    <3>1. SubSeq(s, 1, 0) = <<>> /\ 0 \in 0 .. N
      BY <1>2, SubSeqEmpty
    <3> QED
      BY <1>2, <3>1
  <2>2. ASSUME NEW k \in 1 .. N, k - 1 \in J PROVE k \in J
    <3>1. k \in 0 .. N /\ e[k] = e[k - 1] \o Piece(s[k]) /\ e[k - 1] = SubSeq(s, 1, k - 1)
      <4>1. k \in 0 .. N
        BY <1>2
      <4>2. e[k] = e[k - 1] \o Piece(s[k])
        BY <1>1 DEF IsEscape
      <4>3. e[k - 1] = SubSeq(s, 1, k - 1)
        BY <2>2
      <4> QED
        BY <4>1, <4>2, <4>3
    <3>2. Piece(s[k]) = <<s[k]>>
      BY <1>4 DEF Clean, Piece, Str
    <3>3. SubSeq(s, 1, k) = SubSeq(s, 1, k - 1) \o <<s[k]>>
      <4>1. 1 \in 1 .. N /\ k \in 1 .. N
        BY <1>2
      <4> QED
        BY <4>1, SubSeqRecursiveSecond DEF Str
    <3> QED
      BY <3>1, <3>2, <3>3
  <2> HIDE DEF J
  <2>3. N \in J
    BY <1>2, <2>1, <2>2, LoopInvariant
  <2>4. SubSeq(s, 1, N) = s
    BY SubSeqFull DEF Str
  <2> QED
    BY <2>3, <2>4 DEF J
<1> QED
  BY <1>2, <1>3, <1>4

\* A string for which there is room, and what sanitize makes of it.
LEMMA SanitizeFits ==
  ASSUME NEW s \in Str, Len(Escaped(s)) <= MAX_MESG
  PROVE  /\ Sanitize(s) \in Str /\ Sanitize(s) = Escaped(s)
         /\ Sanitize(Sanitize(s)) = Sanitize(s)
         /\ Len(Escaped(Sanitize(s))) <= MAX_MESG
         /\ Sanitize(s) = <<>> <=> s = <<>>
<1>1. s \in Fit /\ Sanitize(s) = Escaped(s)
  BY SanitizeEscapes
<1>2. Sanitize(s) \in Fit /\ Clean(Sanitize(s)) /\ Len(s) <= Len(Sanitize(s))
  BY <1>1, SanitizeCleans
<1>3. Sanitize(Sanitize(s)) = Sanitize(s)
  BY <1>2, SanitizeSame
<1>4. Sanitize(s) \in Str /\ Escaped(Sanitize(s)) = Sanitize(s)
  BY <1>2, EscapedIs DEF Fit
<1>5. ASSUME s = <<>> PROVE Sanitize(s) = <<>>
  <2>1. Clean(s)
    BY <1>5 DEF Clean
  <2> QED
    BY <1>1, <1>5, <2>1, SanitizeSame
<1>6. ASSUME Sanitize(s) = <<>> PROVE s = <<>>
  <2>1. Len(Sanitize(s)) = 0 /\ Len(s) \in Nat
    BY <1>6 DEF Str
  <2>2. Len(s) = 0
    BY <1>2, <2>1
  <2> QED
    BY <2>2, EmptySeq DEF Str
<1> QED
  BY <1>1, <1>3, <1>4, <1>5, <1>6
-----------------------------------------------------------------------------
(* The last line with a User-Agent.                                        *)

LEMMA MaxExists ==
  ASSUME NEW n \in Nat, NEW S \in SUBSET (1 .. n), S # {}
  PROVE  Max(S) \in S /\ \A y \in S : Max(S) >= y
<1> DEFINE J == { m \in 0 .. n : \A T \in SUBSET (1 .. m) :
                                    T # {} => \E x \in T : \A y \in T : x >= y }
<1>1. 0 \in J
  <2>1. 1 .. 0 = {}
    OBVIOUS
  <2>2. 0 \in 0 .. n
    OBVIOUS
  <2> QED
    BY <2>1, <2>2
<1>2. ASSUME NEW m \in 1 .. n, m - 1 \in J PROVE m \in J
  <2> SUFFICES ASSUME NEW T \in SUBSET (1 .. m), T # {}
               PROVE  \E x \in T : \A y \in T : x >= y
    OBVIOUS
  <2>1. CASE m \in T
    BY <2>1
  <2>2. CASE m \notin T
    <3>1. T \in SUBSET (1 .. m - 1)
      BY <2>2
    <3> QED
      BY <1>2, <3>1
  <2> QED
    BY <2>1, <2>2
<1> HIDE DEF J
<1>3. n \in J
  BY <1>1, <1>2, LoopInvariant
<1>4. \E x \in S : \A y \in S : x >= y
  BY <1>3 DEF J
<1> QED
  BY <1>4 DEF Max

AllLines == [method : Methods, uri : Chars, over : Nat, agent : Fit, ends : {"crlf", "lf", "no"}]

WithAgent(lines) == { n \in 1 .. Len(lines) : lines[n].agent # <<>> }

AgentOf(lines) == IF WithAgent(lines) = {} THEN <<"undefined">>
                  ELSE Escaped(lines[Max(WithAgent(lines))].agent)

\* No line, no User-Agent.
LEMMA AgentOfEmpty == AgentOf(<<>>) = <<"undefined">>
BY DEF AgentOf, WithAgent

\* The last line tells the agent, if it has one.
LEMMA AgentOfLast ==
  ASSUME NEW lines \in Seq(AllLines), lines # <<>>, lines[Len(lines)].agent # <<>>
  PROVE  AgentOf(lines) = Escaped(lines[Len(lines)].agent)
<1> DEFINE S == WithAgent(lines)
           n == Len(lines)
<1>1. n \in Nat \ {0} /\ S \in SUBSET (1 .. n) /\ n \in S
  BY EmptySeq DEF WithAgent
<1> HIDE DEF S
<1>2. Max(S) = n
  <2>1. Max(S) \in S /\ Max(S) >= n
    <3> HIDE DEF n
    <3> QED
      BY <1>1, MaxExists
  <2>2. Max(S) \in 1 .. n
    BY <1>1, <2>1
  <2> QED
    BY <1>1, <2>1, <2>2
<1> QED
  BY <1>1, <1>2 DEF AgentOf, S

\* One more line, with a User-Agent or without.
LEMMA AgentOfNext ==
  ASSUME NEW lines \in Seq(AllLines), NEW l \in AllLines
  PROVE  AgentOf(Append(lines, l)) = IF l.agent # <<>> THEN Escaped(l.agent)
                                     ELSE AgentOf(lines)
<1> DEFINE a == Append(lines, l)
           n == Len(lines)
<1>1. /\ a \in Seq(AllLines) /\ Len(a) = n + 1 /\ a[n + 1] = l /\ n \in Nat
      /\ \A k \in 1 .. n : a[k] = lines[k]
  BY AppendProperties
<1> HIDE DEF a
<1>2. CASE l.agent # <<>>
  <2>1. a # <<>>
    BY <1>1
  <2> QED
    BY <1>1, <1>2, <2>1, AgentOfLast DEF a
<1>3. CASE l.agent = <<>>
  <2>1. WithAgent(a) = WithAgent(lines)
    BY <1>1, <1>3 DEF WithAgent
  <2>2. WithAgent(lines) # {} => Max(WithAgent(lines)) \in 1 .. n
    BY <1>1, MaxExists DEF WithAgent
  <2> QED
    BY <1>1, <1>3, <2>1, <2>2 DEF AgentOf, a
<1> QED
  BY <1>2, <1>3
-----------------------------------------------------------------------------
(* Types.                                                                  *)

Statuses == {-1, 200, 302, 400, 404, 405}

Record == [method : Methods \union {"undefined", "overwritten"}, uri : Chars, agent : Str,
           status : Statuses \union {0}]

CleanRecord == { r \in Record : Clean(r.agent) }

\* A record that no URI has run over.
Whole(r) == r.method # "overwritten" /\ r.status # 0

\* A ring after n requests, in which the slots in gone are damaged.
RingOf(ring, n, gone) ==
    /\ ring \in [0 .. NUM_ENTRIES - 1 -> CleanRecord]
    /\ \A i \in 0 .. NUM_ENTRIES - 1 : i \notin gone =>
           Whole(ring[i]) /\ (i > n => ring[i] = Undefined)

ConnectionOK ==
    /\ pc \in {"accept", "read", "respond", "killed", "overrun"}
    /\ first \in BOOLEAN /\ closed \in BOOLEAN /\ method \in Methods
    /\ buffer \in AllLines /\ input \in Seq(AllLines) /\ heard \in Seq(AllLines)
    /\ pc \in {"read", "respond"} => (first <=> heard = <<>>)
    /\ pc = "respond" => heard # <<>>
    /\ pc \in {"read", "respond"} => Whole(state[Slot(c)])

TypeInv ==
    /\ made \in 0 .. MAXREQUESTS /\ c \in 0 .. made
    /\ (pc \in {"read", "respond"} => c < made)
    /\ served \in Seq(Record) /\ Len(served) = c
    /\ damaged \subseteq 0 .. NUM_ENTRIES - 1
    /\ RingOf(state, c, damaged) /\ ConnectionOK

\* Lines that arrive fit buffer,
LEMMA LinesAre == \A l \in Lines : l \in AllLines
<1> SUFFICES ASSUME NEW l \in Lines PROVE l \in AllLines
  OBVIOUS
<1>1. /\ l \in [method : Methods, uri : STRING, over : Nat, agent : Seq(STRING),
                ends : {"crlf", "lf", "no"}]
      /\ Len(l.agent) <= MAX_MESG
  BY DEF Lines
<1>2. l.agent \in Str
  <2>1. STRING \subseteq Chars /\ l.agent \in Seq(STRING)
    BY <1>1 DEF Chars
  <2> QED
    BY <2>1, SeqMonotonic DEF Str
<1> QED
  BY <1>1, <1>2 DEF AllLines, Fit, Chars

\* and requests are sequences of them.
LEMMA RequestsAre == \A r \in Requests : r \in Seq(AllLines)
<1> SUFFICES ASSUME NEW r \in Requests PROVE r \in Seq(AllLines)
  OBVIOUS
<1>1. Lines \subseteq AllLines /\ r \in Seq(Lines)
  BY LinesAre, RequestAssumption
<1> QED
  BY <1>1, SeqMonotonic

\* Slots are in the ring, and the first requests have the first ones.
LEMMA SlotIs ==
  ASSUME NEW n \in Nat
  PROVE  Slot(n) \in 0 .. NUM_ENTRIES - 1 /\ (n < NUM_ENTRIES => Slot(n) = n)
<1>1. NUM_ENTRIES \in Nat \ {0}
  BY RequestAssumption
<1>2. n < NUM_ENTRIES => Slot(n) = n
  <2> SUFFICES ASSUME n < NUM_ENTRIES PROVE Slot(n) = n
    OBVIOUS
  <2>1. n \in 0 .. NUM_ENTRIES - 1 /\ 0 * NUM_ENTRIES + n = n
    BY <1>1
  <2>2. (0 * NUM_ENTRIES + n) % NUM_ENTRIES = n
    BY <1>1, <2>1, QuotientIs
  <2> QED
    BY <2>1, <2>2 DEF Slot
<1> QED
  BY <1>1, <1>2, Division DEF Slot

\* A record as reset_record leaves it.
LEMMA UndefinedIs ==
  /\ Undefined \in CleanRecord
  /\ Undefined.agent = <<"undefined">> /\ Undefined.status = -1 /\ Whole(Undefined)
<1>1. <<"undefined">> \in Str /\ Clean(<<"undefined">>) /\ "undefined" \in Chars
  BY DEF Str, Chars, Clean, Special
<1> QED
  BY <1>1 DEF Undefined, CleanRecord, Record, Statuses, Whole, Methods

\* What a URI that is too long leaves is clean, too.
LEMMA OverwrittenIs == Overwritten \in CleanRecord
<1>1. <<"overwritten">> \in Str /\ Clean(<<"overwritten">>) /\ "overwritten" \in Chars
  BY DEF Str, Chars, Clean, Special
<1> QED
  BY <1>1 DEF Overwritten, CleanRecord, Record

\* The copy of a text in the field user_agent.
LEMMA CopiedIs ==
  ASSUME NEW s \in Str, Clean(s), NEW m \in Methods \union {"undefined", "overwritten"}
  PROVE  /\ Copied(s, m) \in Str /\ Clean(Copied(s, m))
         /\ Len(s) < MAX_AGENT => Copied(s, m) = s
<1>1. MAX_AGENT \in Nat /\ MAX_AGENT >= 1 /\ Len(s) \in Nat
  BY RequestAssumption DEF Str
<1>2. CASE Len(s) < MAX_AGENT
  BY <1>2 DEF Copied
<1>3. CASE ~(Len(s) < MAX_AGENT)
  <2> DEFINE a == SubSeq(s, 1, MAX_AGENT)
             t == <<m>>
             u == a \o t
  <2>1. /\ a \in Str /\ Len(a) = MAX_AGENT
        /\ \A k \in 1 .. MAX_AGENT : a[k] = s[k] /\ k \in DOMAIN s
    <3>1. \A k \in 1 .. MAX_AGENT : s[k] \in Chars /\ 1 + k - 1 = k /\ k \in DOMAIN s
      BY <1>1, <1>3 DEF Str
    <3>2. 1 \in Int /\ MAX_AGENT \in Int /\ MAX_AGENT - 1 + 1 = MAX_AGENT /\ 1 <= MAX_AGENT
      BY <1>1
    <3>3. /\ a \in Str /\ Len(a) = IF 1 <= MAX_AGENT THEN MAX_AGENT - 1 + 1 ELSE 0
          /\ \A k \in 1 .. MAX_AGENT - 1 + 1 : a[k] = s[1 + k - 1]
      BY <3>1, <3>2, SubSeqProperties DEF Str
    <3> HIDE DEF a
    <3> QED
      BY <3>1, <3>2, <3>3
  <2> HIDE DEF a
  <2>2. t \in Str /\ Len(t) = 1 /\ t[1] = m /\ m \notin Special
    <3>1. m \in Chars /\ m \notin Special
      BY DEF Chars, Methods, Special
    <3> QED
      BY <3>1 DEF Str
  <2> HIDE DEF t
  <2>3. /\ u \in Str /\ Len(u) = Len(a) + Len(t)
        /\ \A k \in 1 .. Len(a) + Len(t) : u[k] = IF k <= Len(a) THEN a[k] ELSE t[k - Len(a)]
    BY <2>1, <2>2, ConcatProperties, Zenon DEF Str
  <2> HIDE DEF u
  <2>4. ASSUME NEW k \in DOMAIN u PROVE u[k] \notin Special
    <3>1. k \in 1 .. MAX_AGENT + 1 /\ k \in 1 .. Len(a) + Len(t)
      BY <2>1, <2>2, <2>3 DEF Str
    <3>2. CASE k <= MAX_AGENT
      <4>1. k \in 1 .. MAX_AGENT /\ u[k] = a[k]
        BY <1>1, <2>1, <2>3, <3>1, <3>2
      <4> QED
        BY <2>1, <4>1 DEF Clean
    <3>3. CASE ~(k <= MAX_AGENT)
      <4>1. k - Len(a) = 1
        BY <1>1, <2>1, <3>1, <3>3
      <4>2. u[k] = t[k - Len(a)]
        BY <2>1, <2>3, <3>1, <3>3
      <4> QED
        BY <2>2, <4>1, <4>2
    <3> QED
      BY <3>2, <3>3
  <2>5. Copied(s, m) = u
    BY <1>3 DEF Copied, u, a, t
  <2> QED
    BY <1>3, <2>3, <2>4, <2>5 DEF Clean
<1> QED
  BY <1>2, <1>3

\* A record in which a line is noted that sanitize has been over.
LEMMA NotedIs ==
  ASSUME NEW r \in CleanRecord, NEW l \in AllLines, Clean(l.agent), first \in BOOLEAN
  PROVE  LET m == IF first THEN l.method ELSE r.method
         IN  /\ Noted(r, l) \in CleanRecord /\ (Whole(r) => Whole(Noted(r, l)))
             /\ Noted(r, l) = [method |-> m,
                               uri    |-> IF first THEN l.uri ELSE r.uri,
                               agent  |-> IF l.agent # <<>> THEN Copied(l.agent, m) ELSE r.agent,
                               status |-> r.status]
             /\ Len(l.agent) < MAX_AGENT => Copied(l.agent, m) = l.agent
<1> DEFINE m == IF first THEN l.method ELSE r.method
           u == IF first THEN l.uri ELSE r.uri
           a == IF l.agent # <<>> THEN Copied(l.agent, m) ELSE r.agent
<1>1. r \in Record /\ Clean(r.agent) /\ l.agent \in Str /\ l.method \in Methods /\ l.uri \in Chars
  BY DEF CleanRecord, AllLines, Fit
<1>2. m \in Methods \union {"undefined", "overwritten"} /\ u \in Chars
  BY <1>1 DEF Record
<1>3. Whole(r) => m # "overwritten"
  BY <1>1 DEF Whole, Methods
<1> HIDE DEF m
<1>4. /\ Copied(l.agent, m) \in Str /\ Clean(Copied(l.agent, m))
      /\ Len(l.agent) < MAX_AGENT => Copied(l.agent, m) = l.agent
  BY <1>1, <1>2, CopiedIs
<1>5. a \in Str /\ Clean(a)
  BY <1>1, <1>4 DEF Record
<1>6. Noted(r, l) = [r EXCEPT !.method = m, !.uri = u, !.agent = a]
  BY DEF Noted, m
<1> HIDE DEF u, a
<1>7. [r EXCEPT !.method = m, !.uri = u, !.agent = a]
        = [method |-> m, uri |-> u, agent |-> a, status |-> r.status]
  <2> DEFINE M == Methods \union {"undefined", "overwritten"}
             S == Statuses \union {0}
  <2>1. r \in [method : M, uri : Chars, agent : Str, status : S] /\ m \in M
    BY <1>1, <1>2 DEF Record
  <2> HIDE DEF M, S
  <2> DEFINE f == [r EXCEPT !.method = m, !.uri = u, !.agent = a]
  <2>2. f \in [method : M, uri : Chars, agent : Str, status : S]
    BY <1>2, <1>5, <2>1
  <2>3. f.method = m /\ f.uri = u /\ f.agent = a /\ f.status = r.status
    BY <2>1
  <2> HIDE DEF f
  <2>4. f = [method |-> f.method, uri |-> f.uri, agent |-> f.agent, status |-> f.status]
    BY <2>2
  <2> QED
    BY <2>3, <2>4 DEF f
<1>8. r.status \in Statuses \union {0}
  BY <1>1 DEF Record
<1>9. Noted(r, l) \in CleanRecord /\ (Whole(r) => Whole(Noted(r, l)))
  BY <1>2, <1>3, <1>5, <1>6, <1>7, <1>8 DEF CleanRecord, Record, Whole
<1> QED
  BY <1>4, <1>6, <1>7, <1>9 DEF m, u, a

\* The status of an answer.
LEMMA StatusIs ==
  ASSUME NEW m \in Methods, NEW u
  PROVE  Status(m, u) \in Statuses
BY DEF Status, Methods, Statuses, Paths

\* What a request should be recorded as is a record.
LEMMA RecordedIs ==
  ASSUME NEW lines \in Seq(AllLines), lines # <<>>
  PROVE  /\ Recorded(lines) \in Record
         /\ Recorded(lines) = [method |-> lines[1].method, uri |-> lines[1].uri,
                               agent |-> AgentOf(lines),
                               status |-> Status(lines[1].method, lines[1].uri)]
<1>1. lines[1] \in AllLines
  BY EmptySeq
<1>2. AgentOf(lines) \in Str
  <2>1. CASE WithAgent(lines) = {}
    BY <2>1 DEF AgentOf, Str, Chars
  <2>2. CASE WithAgent(lines) # {}
    <3>1. Len(lines) \in Nat /\ WithAgent(lines) \in SUBSET (1 .. Len(lines))
      BY DEF WithAgent
    <3>2. Max(WithAgent(lines)) \in 1 .. Len(lines)
      BY <2>2, <3>1, MaxExists
    <3> DEFINE n == Max(WithAgent(lines))
    <3> HIDE DEF n
    <3>3. lines[n] \in AllLines
      BY <3>2 DEF n
    <3>4. lines[n].agent \in Str
      BY <3>3 DEF AllLines, Fit
    <3> QED
      BY <2>2, <3>4, EscapedIs DEF AgentOf, n
  <2> QED
    BY <2>1, <2>2
<1>3. Recorded(lines) = [method |-> lines[1].method, uri |-> lines[1].uri,
                         agent |-> AgentOf(lines),
                         status |-> Status(lines[1].method, lines[1].uri)]
  BY DEF Recorded, AgentOf, WithAgent
<1> QED
  BY <1>1, <1>2, <1>3, StatusIs DEF Record, AllLines

\* Writing the slot of a request changes that slot alone, and makes it whole.
LEMMA RingSet ==
  ASSUME NEW n \in Nat, NEW ring, NEW gone, RingOf(ring, n, gone),
         NEW r \in CleanRecord, Whole(r), NEW left, gone \ {Slot(n)} \subseteq left
  PROVE  LET new == [ring EXCEPT ![Slot(n)] = r]
         IN  /\ RingOf(new, n, left) /\ new[Slot(n)] = r
             /\ \A i \in 0 .. NUM_ENTRIES - 1 : i # Slot(n) => new[i] = ring[i]
<1> DEFINE new == [ring EXCEPT ![Slot(n)] = r]
           k == Slot(n)
<1>1. k \in 0 .. NUM_ENTRIES - 1 /\ (n < NUM_ENTRIES => k = n) /\ NUM_ENTRIES \in Nat
  BY SlotIs, RequestAssumption
<1>0. gone \ {k} \subseteq left
  OBVIOUS
<1> HIDE DEF k
<1>2. /\ new \in [0 .. NUM_ENTRIES - 1 -> CleanRecord] /\ new[k] = r
      /\ \A i \in 0 .. NUM_ENTRIES - 1 : i # k => new[i] = ring[i]
  BY <1>1 DEF RingOf, k
<1> HIDE DEF new
<1>3. ASSUME NEW i \in 0 .. NUM_ENTRIES - 1, i \notin left
      PROVE  Whole(new[i]) /\ (i > n => new[i] = Undefined)
  <2>1. CASE i = k
    BY <1>1, <1>2, <2>1
  <2>2. CASE i # k
    <3>1. i \notin gone
      BY <1>0, <1>3, <2>2
    <3> QED
      BY <1>2, <1>3, <2>2, <3>1 DEF RingOf
  <2> QED
    BY <2>1, <2>2
<1> QED
  BY <1>2, <1>3 DEF RingOf, new, k

\* The types hold at first,
LEMMA TypeInit == Init => TypeInv
<1> SUFFICES ASSUME Init PROVE TypeInv
  OBVIOUS
<1>1. RingOf(state, c, damaged)
  BY UndefinedIs DEF Init, RingOf
<1>2. ConnectionOK
  <2>1. buffer \in AllLines
    BY LinesAre, RequestAssumption DEF Init
  <2>2. method \in Methods
    BY DEF Init, Methods
  <2>3. input \in Seq(AllLines) /\ heard \in Seq(AllLines) /\ pc = "accept"
    BY DEF Init
  <2>4. first \in BOOLEAN /\ closed \in BOOLEAN
    BY DEF Init
  <2> QED
    BY <2>1, <2>2, <2>3, <2>4 DEF ConnectionOK
<1>3. /\ served \in Seq(Record) /\ Len(served) = 0 /\ c = 0
      /\ made \in 0 .. MAXREQUESTS /\ c \in 0 .. made
  BY RequestAssumption DEF Init
<1> QED
  BY <1>1, <1>2, <1>3 DEF TypeInv, Init

\* are kept when a client connects,
LEMMA TypeConnect ==
  ASSUME TypeInv, Connect
  PROVE  TypeInv'
<1>1. made' \in 0 .. MAXREQUESTS /\ made < made' /\ made \in Nat
  BY RequestAssumption DEF TypeInv, Connect
<1> QED
  BY <1>1 DEF TypeInv, Connect, ConnectionOK, RingOf, Slot

\* when it is accepted,
LEMMA TypeAccept ==
  ASSUME TypeInv, NEW r \in Requests, Accept(r)
  PROVE  TypeInv'
<1>1. c \in Nat /\ RingOf(state, c, damaged) /\ c < made /\ r \in Seq(AllLines)
  BY RequestsAre DEF TypeInv, Accept
<1>2. RingOf(state', c, damaged') /\ state'[Slot(c)] = Undefined
  <2>1. state' = [state EXCEPT ![Slot(c)] = Undefined] /\ damaged' = damaged \ {Slot(c)}
    BY DEF Accept
  <2>2. Undefined \in CleanRecord /\ Whole(Undefined)
    BY UndefinedIs
  <2> DEFINE whole == damaged \ {Slot(c)}
             new   == [state EXCEPT ![Slot(c)] = Undefined]
  <2>3. damaged \ {Slot(c)} \subseteq whole
    OBVIOUS
  <2> HIDE DEF whole
  <2>4. RingOf(new, c, whole) /\ new[Slot(c)] = Undefined
    BY <1>1, <2>2, <2>3, RingSet
  <2> QED
    BY <2>1, <2>4 DEF whole
<1>3. ConnectionOK'
  <2>1. method' \in Methods
    BY DEF Accept, Methods
  <2>2. /\ buffer' \in AllLines /\ input' \in Seq(AllLines) /\ heard' = <<>>
        /\ pc' = "read" /\ first' = TRUE /\ closed' = FALSE /\ c' = c
    BY <1>1 DEF TypeInv, ConnectionOK, Accept
  <2>3. heard' \in Seq(AllLines)
        /\ pc' \in {"accept", "read", "respond", "killed", "overrun"} /\ pc' # "respond"
    BY <2>2
  <2>4. Whole(state[Slot(c)])'
    BY <1>2, <2>2, UndefinedIs DEF Whole, Slot
  <2> QED
    BY <2>1, <2>2, <2>3, <2>4 DEF ConnectionOK
<1>4. damaged' \subseteq 0 .. NUM_ENTRIES - 1
  BY DEF TypeInv, Accept
<1> QED
  BY <1>1, <1>2, <1>3, <1>4 DEF TypeInv, Accept, RingOf

\* A line is read, or the last one comes once more.
Read == IF input # <<>> THEN Head(input) ELSE buffer

Cleaned == [Read EXCEPT !.agent = Sanitize(@)]

\* What a line does to the ring.
LEMMA ReadRing ==
  ASSUME TypeInv, ReadLine
  PROVE  /\ Read \in AllLines /\ Cleaned \in AllLines /\ Clean(Cleaned.agent)
         /\ Cleaned = [method |-> Read.method, uri |-> Read.uri, over |-> Read.over,
                       agent |-> Sanitize(Read.agent), ends |-> Read.ends]
         /\ state[Slot(c)] \in CleanRecord /\ Whole(state[Slot(c)])
         /\ state'[Slot(c)] = Noted(state[Slot(c)], Cleaned)
         /\ state'[Slot(c)] \in CleanRecord /\ Whole(state'[Slot(c)])
         /\ damaged \subseteq damaged' /\ damaged' \subseteq 0 .. NUM_ENTRIES - 1
         /\ \A i \in 0 .. NUM_ENTRIES - 1 :
                i # Slot(c) => state'[i] = state[i] \/ (state'[i] = Overwritten /\ i \in damaged')
         /\ RingOf(state', c, damaged')
<1>1. c \in Nat /\ RingOf(state, c, damaged) /\ ConnectionOK /\ pc = "read"
      /\ damaged \subseteq 0 .. NUM_ENTRIES - 1
  BY DEF TypeInv, ReadLine
<1>2. Read \in AllLines
  BY <1>1, HeadTailProperties DEF ConnectionOK, Read
<1>3. /\ Cleaned \in AllLines /\ Clean(Cleaned.agent)
      /\ Cleaned = [method |-> Read.method, uri |-> Read.uri, over |-> Read.over,
                    agent |-> Sanitize(Read.agent), ends |-> Read.ends]
  <2>1. Sanitize(Read.agent) \in Fit /\ Clean(Sanitize(Read.agent))
    BY <1>2, SanitizeCleans DEF AllLines
  <2> DEFINE a == Sanitize(Read.agent)
  <2> HIDE DEF a
  <2>2. /\ [Read EXCEPT !.agent = a] \in AllLines /\ [Read EXCEPT !.agent = a].agent = a
        /\ [Read EXCEPT !.agent = a] = [method |-> Read.method, uri |-> Read.uri,
                                        over |-> Read.over, agent |-> a, ends |-> Read.ends]
    BY <1>2, <2>1 DEF AllLines, a
  <2>3. Cleaned = [Read EXCEPT !.agent = a]
    BY DEF Cleaned, a
  <2> QED
    BY <2>1, <2>2, <2>3 DEF a
<1>4. Slot(c) \in 0 .. NUM_ENTRIES - 1
  BY <1>1, SlotIs
<1>5. state[Slot(c)] \in CleanRecord /\ Whole(state[Slot(c)])
  BY <1>1, <1>4 DEF RingOf, ConnectionOK
<1>6. Noted(state[Slot(c)], Cleaned) \in CleanRecord /\ Whole(Noted(state[Slot(c)], Cleaned))
  BY <1>1, <1>3, <1>5, NotedIs DEF ConnectionOK
<1>7. /\ DOMAIN state = 0 .. NUM_ENTRIES - 1
      /\ state' = [i \in DOMAIN state |->
                     IF i = Slot(c) THEN Noted(state[i], Cleaned)
                     ELSE IF i \in RunOver(Read) THEN Overwritten ELSE state[i]]
      /\ damaged' = damaged \union (RunOver(Read) \intersect DOMAIN state)
  BY <1>1 DEF RingOf, ReadLine, Read, Cleaned
<1>8. state'[Slot(c)] = Noted(state[Slot(c)], Cleaned)
  BY <1>4, <1>7
<1>9. \A i \in 0 .. NUM_ENTRIES - 1 :
          i # Slot(c) => state'[i] = state[i] \/ (state'[i] = Overwritten /\ i \in damaged')
  BY <1>7
<1>10. damaged \subseteq damaged' /\ damaged' \subseteq 0 .. NUM_ENTRIES - 1
  BY <1>1, <1>7
<1>11. RingOf(state', c, damaged')
  <2>1. ASSUME NEW i \in 0 .. NUM_ENTRIES - 1
        PROVE  /\ state'[i] \in CleanRecord
               /\ i \notin damaged' => Whole(state'[i]) /\ (i > c => state'[i] = Undefined)
    <3>1. CASE i = Slot(c)
      <4>1. ~(i > c)
        <5>1. c < NUM_ENTRIES => i = c
          BY <1>1, <3>1, SlotIs
        <5> QED
          BY <1>1, <5>1, RequestAssumption
      <4> QED
        BY <1>6, <1>8, <3>1, <4>1
    <3>2. CASE i # Slot(c)
      BY <1>1, <1>9, <1>10, <3>2, OverwrittenIs DEF RingOf
    <3> QED
      BY <3>1, <3>2
  <2>2. state' = [i \in 0 .. NUM_ENTRIES - 1 |-> state'[i]]
    BY <1>7
  <2> QED
    BY <2>1, <2>2 DEF RingOf
<1> QED
  BY <1>2, <1>3, <1>5, <1>6, <1>8, <1>9, <1>10, <1>11

\* when a line is read,
LEMMA TypeReadLine ==
  ASSUME TypeInv, ReadLine
  PROVE  TypeInv'
<1>1. ConnectionOK /\ pc = "read" /\ Read \in AllLines /\ Cleaned \in AllLines
  BY ReadRing DEF TypeInv, ReadLine
<1>2. (IF input # <<>> THEN Tail(input) ELSE input) \in Seq(AllLines)
  BY <1>1, HeadTailProperties DEF ConnectionOK
<1>3. /\ buffer' = Cleaned
      /\ method' = IF first THEN Read.method ELSE method
      /\ pc' \in {"read", "respond", "overrun"}
      /\ heard' = IF first \/ input # <<>> THEN Append(heard, Read) ELSE heard
      /\ UNCHANGED <<made, c, served>>
  BY DEF ReadLine, Read, Cleaned
<1>4. heard' \in Seq(AllLines) /\ heard' # <<>>
  <2>1. CASE first \/ input # <<>>
    BY <1>1, <1>3, <2>1, AppendProperties DEF ConnectionOK
  <2>2. CASE ~ (first \/ input # <<>>)
    BY <1>1, <1>3, <2>2 DEF ConnectionOK
  <2> QED
    BY <2>1, <2>2
<1>5. method' \in Methods
  BY <1>1, <1>3 DEF ConnectionOK, AllLines
<1>6. /\ first' = FALSE /\ closed' = closed
      /\ input' \in Seq(AllLines) /\ buffer' \in AllLines
  BY <1>1, <1>2, <1>3 DEF ReadLine
<1>7. Whole(state[Slot(c)])'
  BY <1>3, ReadRing DEF Whole, Slot
<1>8. ConnectionOK'
  BY <1>1, <1>3, <1>4, <1>5, <1>6, <1>7 DEF ConnectionOK
<1>9. RingOf(state, c, damaged)' /\ damaged' \subseteq 0 .. NUM_ENTRIES - 1
  BY <1>3, ReadRing DEF RingOf
<1> QED
  BY <1>1, <1>3, <1>8, <1>9 DEF TypeInv

\* when a request is answered,
LEMMA TypeRespond ==
  ASSUME TypeInv, Respond
  PROVE  /\ TypeInv' /\ state[Slot(c)] \in CleanRecord
         /\ LET new == [state[Slot(c)] EXCEPT
                           !.status = Status(method, state[Slot(c)].uri),
                           !.uri = IF Slot(c) \in damaged THEN "overwritten" ELSE @]
            IN  state' = [state EXCEPT ![Slot(c)] = new] /\ new \in CleanRecord
<1>1. /\ c \in Nat /\ c < made /\ RingOf(state, c, damaged) /\ ConnectionOK /\ pc = "respond"
      /\ made \in Nat
  BY RequestAssumption DEF TypeInv, Respond
<1> DEFINE k == Slot(c)
           s == Status(method, state[k].uri)
           u == IF k \in damaged THEN "overwritten" ELSE state[k].uri
           r == [state[k] EXCEPT !.status = s, !.uri = u]
<1>2. k \in 0 .. NUM_ENTRIES - 1 /\ state[k] \in CleanRecord /\ Whole(state[k])
  BY <1>1, SlotIs DEF RingOf, ConnectionOK
<1>3. s \in Statuses /\ u \in Chars
  BY <1>1, <1>2, StatusIs DEF ConnectionOK, CleanRecord, Record, Chars
<1>4. state' = [state EXCEPT ![k] = r]
  BY <1>1, <1>2 DEF Respond, RingOf
<1> HIDE DEF k, s, u
<1>5. r \in CleanRecord /\ Whole(r)
  <2> DEFINE M == Methods \union {"undefined", "overwritten"}
             S == Statuses \union {0}
  <2>1. state[k] \in [method : M, uri : Chars, agent : Str, status : S] /\ Clean(state[k].agent)
    BY <1>2 DEF CleanRecord, Record
  <2>2. s \in S /\ s # 0
    BY <1>3 DEF Statuses
  <2> HIDE DEF M, S
  <2>3. /\ r \in [method : M, uri : Chars, agent : Str, status : S]
        /\ r.status = s /\ r.method = state[k].method /\ r.agent = state[k].agent
    BY <1>3, <2>1, <2>2
  <2> HIDE DEF r
  <2> QED
    BY <1>2, <2>1, <2>2, <2>3 DEF CleanRecord, Record, Whole, M, S
<1>10. r = [state[Slot(c)] EXCEPT
               !.status = Status(method, state[Slot(c)].uri),
               !.uri = IF Slot(c) \in damaged THEN "overwritten" ELSE @]
  BY DEF k, s, u
<1> HIDE DEF r
<1>6. RingOf(state', c, damaged)
  BY <1>1, <1>4, <1>5, RingSet DEF k
<1>7. RingOf(state', c + 1, damaged)
  BY <1>1, <1>6, RequestAssumption DEF RingOf
<1>8. ConnectionOK'
  BY <1>1 DEF ConnectionOK, Respond
<1>9. served' \in Seq(Record) /\ Len(served') = c + 1
  <2>1. Recorded(heard) \in Record
    BY <1>1, RecordedIs DEF ConnectionOK
  <2> QED
    BY <2>1, AppendProperties DEF TypeInv, Respond
<1>11. TypeInv'
  BY <1>1, <1>7, <1>8, <1>9 DEF TypeInv, Respond, RingOf
<1> QED
  BY <1>2, <1>4, <1>5, <1>10, <1>11 DEF k

\* and by every step,
LEMMA TypeStep == TypeInv /\ [Next]_vars => TypeInv'
<1> SUFFICES ASSUME TypeInv, [Next]_vars PROVE TypeInv'
  OBVIOUS
<1>0. CASE Connect
  BY <1>0, TypeConnect
<1>1. CASE AcceptNext
  BY <1>1, TypeAccept DEF AcceptNext
<1>2. CASE ClientCloses
  BY <1>2 DEF ClientCloses, TypeInv, ConnectionOK, RingOf, Slot
<1>3. CASE ReadLine
  BY <1>3, TypeReadLine
<1>4. CASE Respond
  BY <1>4, TypeRespond
<1>5. CASE UNCHANGED vars
  BY <1>5 DEF vars, TypeInv, ConnectionOK, RingOf, Slot
<1> QED
  BY <1>0, <1>1, <1>2, <1>3, <1>4, <1>5 DEF Next

\* and so hold always.
LEMMA TypeAlways == Spec => []TypeInv
<1>1. Init => TypeInv
  BY TypeInit
<1>2. TypeInv /\ [Next]_vars => TypeInv'
  BY TypeStep
<1> QED
  BY <1>1, <1>2, PTL DEF Spec

\* Whatever clients send, no User-Agent in the ring holds a character that
\* sanitize (a1.c:269) is to replace, also when the escaped text did not fit the
\* buffer or the field, and the slots of requests that have not come are as
\* reset_record leaves them; but not where a URI, which is neither escaped nor
\* measured (a1.c:257), has run over the record.
THEOREM RecordsAreClean == Spec => []RequestTypeOK
<1>1. TypeInv => RequestTypeOK
  <2> SUFFICES ASSUME TypeInv PROVE RequestTypeOK
    OBVIOUS
  <2>1. ASSUME NEW i \in (0 .. NUM_ENTRIES - 1) \ damaged
        PROVE  /\ state[i].method \in Methods \union {"undefined"}
               /\ state[i].status \in {-1, 200, 302, 400, 404, 405}
               /\ \A p \in DOMAIN state[i].agent : state[i].agent[p] \notin Special
               /\ i > c => state[i] = Undefined
    BY <2>1 DEF TypeInv, RingOf, CleanRecord, Record, Statuses, Clean, Whole
  <2>2. DOMAIN state = 0 .. NUM_ENTRIES - 1
    BY DEF TypeInv, RingOf
  <2> QED
    BY <2>1, <2>2 DEF TypeInv, ConnectionOK, RequestTypeOK
<1> QED
  BY <1>1, TypeAlways, PTL
-----------------------------------------------------------------------------
(* The ring.                                                               *)

\* Two of NUM_ENTRIES consecutive requests are kept in two slots.
LEMMA SlotsDiffer ==
  ASSUME NEW a \in Nat, NEW b \in Nat, a < b, b < a + NUM_ENTRIES
  PROVE  Slot(a) # Slot(b)
<1> SUFFICES ASSUME Slot(a) = Slot(b) PROVE FALSE
  OBVIOUS
<1> DEFINE N == NUM_ENTRIES
           v == a \div N
           w == b \div N
           r == a % N
<1>1. N \in Nat \ {0}
  BY RequestAssumption
<1>2. /\ v \in Nat /\ w \in Nat /\ r \in 0 .. N - 1
      /\ a = v * N + r /\ b = w * N + r
  BY <1>1, Division DEF Slot
<1>3. /\ v * N \in Nat /\ w * N \in Nat /\ (v + 1) * N = v * N + N
      /\ v < w => (v + 1) * N <= w * N
      /\ w <= v => w * N <= v * N
  BY <1>1, <1>2, Products
<1> HIDE DEF v, w, r, N
<1> DEFINE x == v * N
           y == w * N
           z == (v + 1) * N
<1>4. /\ x \in Nat /\ y \in Nat /\ z = x + N /\ a = x + r /\ b = y + r
      /\ v < w => z <= y
      /\ w <= v => y <= x
  BY <1>2, <1>3
<1> HIDE DEF x, y, z
<1>5. b < a + N
  BY DEF N
<1> QED
  BY <1>1, <1>2, <1>4, <1>5

\* The slot of a row of the page is the one that its request was kept in.
LEMMA RowSlotIs ==
  ASSUME NEW n \in 1 .. NUM_ENTRIES, c \in Nat, n <= c + 1
  PROVE  RowSlot(Counter(n)) = Slot(c - n + 1)
<1> DEFINE N == NUM_ENTRIES
           q == c \div N
           r == c % N
           j == n - 1
<1>1. N \in Nat \ {0} /\ j \in 0 .. N - 1 /\ j <= c
  BY RequestAssumption
<1>2. q \in Nat /\ r \in 0 .. N - 1 /\ c = q * N + r
  BY <1>1, Division
<1>3. RowSlot(Counter(n)) = (r + (N - j)) % N
  <2>1. Counter(n) = N - j
    BY <1>1 DEF Counter
  <2> QED
    BY <2>1 DEF RowSlot, Slot
<1>4. Slot(c - n + 1) = (c - j) % N
  <2>1. c - n + 1 = c - j
    OBVIOUS
  <2> QED
    BY <2>1 DEF Slot
<1> HIDE DEF q, r, N, j
<1>5. q * N \in Nat /\ 0 * N = 0 /\ 1 * N = N
  BY <1>1, <1>2, Products
<1>6. CASE j <= r
  <2>1. r - j \in 0 .. N - 1 /\ r + (N - j) = 1 * N + (r - j) /\ c - j = q * N + (r - j)
    BY <1>1, <1>2, <1>5, <1>6
  <2>2. (1 * N + (r - j)) % N = r - j /\ (q * N + (r - j)) % N = r - j
    BY <1>1, <1>2, <2>1, QuotientIs
  <2> QED
    BY <1>3, <1>4, <2>1, <2>2
<1>7. CASE r < j
  <2>1. q # 0
    BY <1>1, <1>2, <1>5, <1>7
  <2>2. q - 1 \in Nat /\ q * N = (q - 1) * N + N /\ (q - 1) * N \in Nat
    <3>1. q - 1 \in Nat /\ (q - 1) + 1 = q
      BY <1>2, <2>1
    <3> QED
      BY <1>1, <3>1, Products
  <2> DEFINE y == (q - 1) * N
             x == q * N
  <2>3. x = y + N /\ y \in Nat /\ c = x + r
    BY <1>2, <2>2
  <2> HIDE DEF x, y
  <2>4. r + N - j \in 0 .. N - 1 /\ r + (N - j) = 0 + (r + N - j) /\ c - j = y + (r + N - j)
    BY <1>1, <1>2, <1>7, <2>3
  <2>5. (y + (r + N - j)) % N = r + N - j
    BY <1>1, <2>2, <2>4, QuotientIs DEF y
  <2>6. (0 * N + (r + N - j)) % N = r + N - j
    BY <1>1, <2>4, QuotientIs
  <2> QED
    BY <1>3, <1>4, <1>5, <2>4, <2>5, <2>6
<1> QED
  BY <1>1, <1>2, <1>6, <1>7

-----------------------------------------------------------------------------
(* The status page.                                                        *)

InHand == pc \in {"read", "respond", "overrun"}

\* How many requests back the ring reaches: one slot is given up for the request
\* in hand.
Kept == IF InHand THEN NUM_ENTRIES - 1 ELSE NUM_ENTRIES

RingHolds ==
    \A n \in 1 .. c : c - n < Kept /\ Slot(n - 1) \notin damaged
                       => Shows(state[Slot(n - 1)], served[n])

\* What has been noted of the lines heard.
NotedSoFar(r, lines) ==
    /\ r.method = lines[1].method /\ r.uri = lines[1].uri
    /\ Len(AgentOf(lines)) < MAX_AGENT => r.agent = AgentOf(lines)

\* The slot of the request in hand.
CurrentOK ==
    /\ page = <<>>
    /\ first => state[Slot(c)] = Undefined
    /\ ~first => /\ NotedSoFar(state[Slot(c)], heard)
                 /\ method = heard[1].method
                 /\ buffer.agent = Sanitize(heard[Len(heard)].agent)

HistoryInv == TypeInv /\ RingHolds /\ (InHand => CurrentOK) /\ TableIsHistory

\* What happens in the slot of the request in hand leaves the others alone.
LEMMA RingKept ==
  ASSUME TypeInv, RingHolds, NEW n \in 1 .. c, c - n < NUM_ENTRIES - 1,
         Slot(n - 1) \notin damaged', damaged \ {Slot(c)} \subseteq damaged',
         \A i \in 0 .. NUM_ENTRIES - 1 :
             i # Slot(c) /\ i \notin damaged' => state'[i] = state[i]
  PROVE  Shows(state'[Slot(n - 1)], served[n])
<1>1. c \in Nat /\ n - 1 \in Nat /\ n - 1 < c /\ c < (n - 1) + NUM_ENTRIES /\ NUM_ENTRIES \in Nat
  BY RequestAssumption DEF TypeInv
<1>2. Slot(n - 1) # Slot(c) /\ Slot(n - 1) \in 0 .. NUM_ENTRIES - 1
  BY <1>1, SlotsDiffer, SlotIs
<1>3. c - n < Kept
  BY <1>1 DEF Kept
<1>4. state'[Slot(n - 1)] = state[Slot(n - 1)] /\ Slot(n - 1) \notin damaged
  BY <1>2
<1> QED
  BY <1>3, <1>4 DEF RingHolds

\* The invariant of the history holds at first,
LEMMA HistoryInit == Init => HistoryInv
<1> SUFFICES ASSUME Init PROVE HistoryInv
  OBVIOUS
<1> QED
  BY TypeInit DEF HistoryInv, Init, RingHolds, InHand, TableIsHistory

\* is kept when a client is accepted: the slot given up is the oldest one,
LEMMA HistoryAccept ==
  ASSUME HistoryInv, NEW r \in Requests, Accept(r)
  PROVE  HistoryInv'
<1>1. /\ TypeInv /\ TypeInv' /\ c \in Nat /\ RingOf(state, c, damaged) /\ RingHolds
      /\ c' = c /\ served' = served /\ pc' = "read" /\ NUM_ENTRIES \in Nat
      /\ damaged' = damaged \ {Slot(c)}
  <2>1. TypeInv /\ RingHolds
    BY DEF HistoryInv
  <2>2. TypeInv'
    BY <2>1, TypeAccept
  <2>3. c \in Nat /\ RingOf(state, c, damaged)
    BY <2>1 DEF TypeInv
  <2> QED
    BY <2>1, <2>2, <2>3, RequestAssumption DEF Accept
<1>2. /\ state'[Slot(c)] = Undefined
      /\ \A i \in 0 .. NUM_ENTRIES - 1 : i # Slot(c) => state'[i] = state[i]
  <2>1. state' = [state EXCEPT ![Slot(c)] = Undefined]
    BY DEF Accept
  <2>2. Undefined \in CleanRecord /\ Whole(Undefined)
    BY UndefinedIs
  <2> QED
    BY <1>1, <2>1, <2>2, RingSet
<1>3. RingHolds'
  <2> SUFFICES ASSUME NEW n \in 1 .. c, c - n < NUM_ENTRIES - 1, Slot(n - 1) \notin damaged'
               PROVE  Shows(state'[Slot(n - 1)], served[n])
    BY <1>1 DEF RingHolds, Kept, InHand, Slot, Shows
  <2> QED
    BY <1>1, <1>2, RingKept
<1>4. CurrentOK'
  BY <1>1, <1>2 DEF CurrentOK, Accept, Slot
<1> QED
  BY <1>1, <1>3, <1>4 DEF HistoryInv, Accept, TableIsHistory

\* when a line is read, or the last one is handled once more,
LEMMA HistoryReadLine ==
  ASSUME HistoryInv, ReadLine
  PROVE  HistoryInv'
<1> DEFINE line == Read
           old  == state[Slot(c)]
           new  == state'[Slot(c)]
           short(s) == Len(s) < MAX_AGENT
<1>1. /\ TypeInv /\ TypeInv' /\ c \in Nat /\ RingHolds /\ ConnectionOK
      /\ CurrentOK /\ InHand /\ pc = "read" /\ NUM_ENTRIES \in Nat
      /\ c' = c /\ served' = served /\ page' = page
  <2>1. TypeInv /\ RingHolds /\ (InHand => CurrentOK)
    BY DEF HistoryInv
  <2>2. TypeInv'
    BY <2>1, TypeReadLine
  <2>3. c \in Nat /\ ConnectionOK
    BY <2>1 DEF TypeInv
  <2>4. InHand /\ pc = "read" /\ c' = c /\ served' = served /\ page' = page
    BY DEF ReadLine, InHand
  <2> QED
    BY <2>1, <2>2, <2>3, <2>4, RequestAssumption
<1>2. /\ line \in AllLines /\ line.agent \in Fit
      /\ Cleaned.method = line.method /\ Cleaned.uri = line.uri
      /\ Cleaned.agent = Sanitize(line.agent)
      /\ new = Noted(old, Cleaned) /\ old \in CleanRecord
      /\ damaged \subseteq damaged'
      /\ \A i \in 0 .. NUM_ENTRIES - 1 :
             i # Slot(c) /\ i \notin damaged' => state'[i] = state[i]
  BY <1>1, ReadRing DEF AllLines
<1>3. /\ buffer' = Cleaned
      /\ method' = IF first THEN line.method ELSE method
      /\ pc' \in {"read", "respond", "overrun"}
      /\ heard' = IF first \/ input # <<>> THEN Append(heard, line) ELSE heard
      /\ first' = FALSE
  BY DEF ReadLine, Read, Cleaned
<1>4. /\ new.method = IF first THEN line.method ELSE old.method
      /\ new.uri = IF first THEN line.uri ELSE old.uri
      /\ Cleaned.agent = <<>> => new.agent = old.agent
      /\ Cleaned.agent # <<>> /\ short(Cleaned.agent) => new.agent = Cleaned.agent
  <2>1. Cleaned \in AllLines /\ Clean(Cleaned.agent) /\ first \in BOOLEAN
    BY <1>1, ReadRing DEF ConnectionOK
  <2>2. PICK m : /\ Noted(old, Cleaned) =
                       [method |-> IF first THEN Cleaned.method ELSE old.method,
                        uri    |-> IF first THEN Cleaned.uri ELSE old.uri,
                        agent  |-> IF Cleaned.agent # <<>> THEN Copied(Cleaned.agent, m)
                                   ELSE old.agent,
                        status |-> old.status]
                 /\ Len(Cleaned.agent) < MAX_AGENT => Copied(Cleaned.agent, m) = Cleaned.agent
    BY <1>2, <2>1, NotedIs
  <2> HIDE DEF old
  <2> QED
    BY <1>2, <2>2
\* A User-Agent that fits the field once it is escaped fits buffer,
<1>5. ASSUME NEW s \in Fit, short(Escaped(s))
      PROVE  /\ Sanitize(s) = Escaped(s) /\ Sanitize(Sanitize(s)) = Sanitize(s)
             /\ (Sanitize(s) = <<>> <=> s = <<>>)
  <2>1. s \in Str /\ Escaped(s) \in Str
    BY EscapedIs DEF Fit
  <2>2. Len(Escaped(s)) <= MAX_MESG
    <3>1. Len(Escaped(s)) \in Nat /\ MAX_AGENT \in 1 .. MAX_MESG /\ MAX_MESG \in Nat
      BY <2>1, RequestAssumption DEF Str
    <3> QED
      BY <1>5, <3>1
  <2> QED
    BY <2>1, <2>2, SanitizeFits
\* and no other one becomes, or ceases to be, empty.
<1>6. ASSUME NEW s \in Fit
      PROVE  Sanitize(s) = <<>> <=> s = <<>>
  <2>1. ASSUME Sanitize(s) = <<>> PROVE s = <<>>
    <3>1. Len(s) <= Len(Sanitize(s)) /\ s \in Str /\ Len(s) \in Nat
      BY SanitizeCleans DEF Fit, Str
    <3>2. Len(s) = 0
      BY <2>1, <3>1
    <3> QED
      BY <3>1, <3>2, EmptySeq DEF Str
  <2>2. ASSUME s = <<>> PROVE Sanitize(s) = <<>>
    <3>1. Clean(s)
      BY <2>2 DEF Clean
    <3> QED
      BY <2>2, <3>1, SanitizeSame
  <2> QED
    BY <2>1, <2>2
<1>7. RingHolds'
  <2> SUFFICES ASSUME NEW n \in 1 .. c, c - n < NUM_ENTRIES - 1, Slot(n - 1) \notin damaged'
               PROVE  Shows(state'[Slot(n - 1)], served[n])
    BY <1>1, <1>3 DEF RingHolds, Kept, InHand, Slot, Shows
  <2> QED
    BY <1>1, <1>2, RingKept
<1>8. heard \in Seq(AllLines) /\ heard' \in Seq(AllLines) /\ (first <=> heard = <<>>)
  BY <1>1 DEF TypeInv, ConnectionOK
<1> HIDE DEF line, old, new, short
\* The lines heard so far, and what was noted of them, with this one.
<1>9. /\ NotedSoFar(new, heard')
      /\ method' = heard'[1].method
      /\ buffer'.agent = Sanitize(heard'[Len(heard')].agent)
  <2>1. CASE first
    <3>1. heard = <<>> /\ heard' = Append(heard, line) /\ old = Undefined
      BY <1>1, <1>3, <1>8, <2>1 DEF CurrentOK, old
    <3>2. Len(heard') = 1 /\ heard'[1] = line
      BY <3>1
    <3>3. AgentOf(heard') = IF line.agent # <<>> THEN Escaped(line.agent) ELSE <<"undefined">>
      BY <1>2, <1>8, <3>1, AgentOfNext, AgentOfEmpty
    <3>4. short(AgentOf(heard')) => new.agent = AgentOf(heard')
      <4>1. CASE line.agent = <<>>
        BY <1>2, <1>4, <1>6, <3>1, <3>3, <4>1, UndefinedIs
      <4>2. CASE line.agent # <<>>
        BY <1>2, <1>4, <1>5, <1>6, <3>3, <4>2
      <4> QED
        BY <4>1, <4>2
    <3> QED
      BY <1>2, <1>3, <1>4, <2>1, <3>2, <3>4 DEF NotedSoFar, short
  <2>2. CASE ~first /\ input # <<>>
    <3>1. /\ heard' = Append(heard, line) /\ heard # <<>>
          /\ NotedSoFar(old, heard) /\ method = heard[1].method
      BY <1>1, <1>3, <1>8, <2>2 DEF CurrentOK, old
    <3>2. Len(heard') = Len(heard) + 1 /\ heard'[1] = heard[1] /\ heard'[Len(heard')] = line
      BY <1>2, <1>8, <3>1, AppendProperties, EmptySeq
    <3>3. AgentOf(heard') = IF line.agent # <<>> THEN Escaped(line.agent) ELSE AgentOf(heard)
      BY <1>2, <1>8, <3>1, AgentOfNext
    <3>4. short(AgentOf(heard')) => new.agent = AgentOf(heard')
      <4>1. CASE line.agent = <<>>
        BY <1>2, <1>4, <1>6, <3>1, <3>3, <4>1 DEF NotedSoFar, short
      <4>2. CASE line.agent # <<>>
        BY <1>2, <1>4, <1>5, <1>6, <3>3, <4>2
      <4> QED
        BY <4>1, <4>2
    <3> QED
      BY <1>2, <1>3, <1>4, <2>2, <3>1, <3>2, <3>4 DEF NotedSoFar, short
  <2>3. CASE ~first /\ input = <<>>
    <3> DEFINE last == heard[Len(heard)]
    <3>1. /\ heard' = heard /\ heard # <<>> /\ line = buffer
          /\ NotedSoFar(old, heard) /\ method = heard[1].method
          /\ buffer.agent = Sanitize(last.agent)
      BY <1>1, <1>3, <1>8, <2>3 DEF CurrentOK, old, line, Read
    <3>2. last.agent \in Fit
      <4>1. Len(heard) \in 1 .. Len(heard)
        BY <1>8, <3>1, EmptySeq
      <4>2. last \in AllLines
        BY <1>8, <4>1
      <4> QED
        BY <4>2 DEF AllLines
    <3>3. line.agent = Sanitize(last.agent)
      BY <3>1
    <3>4. line.agent # <<>> => AgentOf(heard) = Escaped(last.agent)
      BY <1>6, <1>8, <3>1, <3>2, <3>3, AgentOfLast
    <3> HIDE DEF last
    <3>5. short(AgentOf(heard)) => new.agent = AgentOf(heard)
      <4>1. CASE line.agent = <<>>
        BY <1>2, <1>4, <1>6, <3>1, <4>1 DEF NotedSoFar, short
      <4>2. CASE line.agent # <<>>
        <5> SUFFICES ASSUME short(Escaped(last.agent)) PROVE new.agent = Escaped(last.agent)
          BY <3>4, <4>2
        <5>1. Sanitize(last.agent) = Escaped(last.agent) /\ Sanitize(line.agent) = line.agent
          BY <1>5, <3>2, <3>3
        <5>2. Cleaned.agent = Escaped(last.agent)
          BY <1>2, <3>3, <5>1
        <5> QED
          BY <1>4, <3>3, <4>2, <5>1, <5>2
      <4> QED
        BY <4>1, <4>2
    <3>6. buffer'.agent = Sanitize(last.agent)
      <4>1. Clean(line.agent) /\ line.agent \in Fit
        BY <3>2, <3>3, SanitizeCleans
      <4>2. Sanitize(line.agent) = line.agent
        BY <4>1, SanitizeSame
      <4> QED
        BY <1>2, <1>3, <3>3, <4>2
    <3> QED
      BY <1>3, <1>4, <2>3, <3>1, <3>5, <3>6 DEF NotedSoFar, short, last
  <2> QED
    BY <1>1, <2>1, <2>2, <2>3 DEF ConnectionOK
<1>10. CurrentOK'
  BY <1>1, <1>3, <1>9 DEF CurrentOK, Slot, NotedSoFar, new
<1> QED
  BY <1>1, <1>3, <1>7, <1>10 DEF HistoryInv, TableIsHistory, CurrentOK

\* when a request is answered, which brings it into the history,
LEMMA HistoryRespond ==
  ASSUME HistoryInv, Respond
  PROVE  HistoryInv'
<1> DEFINE k   == Slot(c)
           old == state[k]
           new == [old EXCEPT !.status = Status(method, old.uri),
                              !.uri = IF k \in damaged THEN "overwritten" ELSE @]
<1>1. /\ TypeInv /\ TypeInv' /\ c \in Nat /\ RingOf(state, c, damaged) /\ RingHolds
      /\ CurrentOK /\ pc = "respond" /\ NUM_ENTRIES \in Nat
      /\ served \in Seq(Record) /\ Len(served) = c
      /\ heard \in Seq(AllLines) /\ heard # <<>> /\ ~first
      /\ old \in CleanRecord /\ state' = [state EXCEPT ![k] = new]
  <2>1. TypeInv /\ RingHolds /\ (InHand => CurrentOK)
    BY DEF HistoryInv
  <2>2. TypeInv' /\ old \in CleanRecord /\ state' = [state EXCEPT ![k] = new]
    BY <2>1, TypeRespond
  <2>3. /\ c \in Nat /\ RingOf(state, c, damaged) /\ ConnectionOK
        /\ served \in Seq(Record) /\ Len(served) = c
    BY <2>1 DEF TypeInv
  <2>4. InHand /\ pc = "respond"
    BY DEF Respond, InHand
  <2>5. heard \in Seq(AllLines) /\ heard # <<>> /\ ~first
    BY <2>3, <2>4 DEF ConnectionOK
  <2> QED
    BY <2>1, <2>2, <2>3, <2>4, <2>5, RequestAssumption
<1>2. /\ c' = c + 1 /\ served' = Append(served, Recorded(heard)) /\ damaged' = damaged
      /\ page' = <<>> \/ page' = Rows(state')
      /\ pc' \in {"accept", "killed"}
  BY DEF Respond
<1>3. k \in 0 .. NUM_ENTRIES - 1 /\ state \in [0 .. NUM_ENTRIES - 1 -> CleanRecord]
  BY <1>1, SlotIs DEF RingOf
<1>4. state'[k] = new /\ \A i \in 0 .. NUM_ENTRIES - 1 : i # k => state'[i] = state[i]
  BY <1>1, <1>3
<1>5. k \notin damaged => Shows(state'[k], Recorded(heard))
  <2>1. NotedSoFar(old, heard) /\ method = heard[1].method
    BY <1>1 DEF CurrentOK
  <2>2. old \in Record
    BY <1>1 DEF CleanRecord
  <2> HIDE DEF old
  <2>3. /\ new.method = old.method /\ new.agent = old.agent
        /\ new.status = Status(method, old.uri)
        /\ k \notin damaged => new.uri = old.uri
    BY <2>2 DEF Record
  <2>4. Recorded(heard) = [method |-> heard[1].method, uri |-> heard[1].uri,
                           agent |-> AgentOf(heard),
                           status |-> Status(heard[1].method, heard[1].uri)]
    BY <1>1, RecordedIs
  <2> HIDE DEF new
  <2> QED
    BY <1>4, <2>1, <2>3, <2>4 DEF NotedSoFar, Shows
<1>6. /\ \A n \in 1 .. c : served'[n] = served[n]
      /\ served'[c + 1] = Recorded(heard)
  BY <1>1, <1>2, RecordedIs, AppendProperties
<1> HIDE DEF k, new, old
<1>7. ASSUME NEW n \in 1 .. c + 1, (c + 1) - n < NUM_ENTRIES, Slot(n - 1) \notin damaged
      PROVE  Shows(state'[Slot(n - 1)], served'[n])
  <2>1. CASE n = c + 1
    <3>1. Slot(n - 1) = k
      BY <1>1, <2>1 DEF k
    <3> QED
      BY <1>5, <1>6, <1>7, <2>1, <3>1
  <2>2. CASE n # c + 1
    <3>1. n \in 1 .. c /\ c - n < NUM_ENTRIES - 1
      BY <1>1, <1>7, <2>2
    <3>2. Shows(state'[Slot(n - 1)], served[n])
      BY <1>1, <1>2, <1>4, <1>7, <3>1, RingKept DEF k
    <3> QED
      BY <1>6, <3>1, <3>2
  <2> QED
    BY <2>1, <2>2
<1>8. RingHolds'
  BY <1>2, <1>7 DEF RingHolds, Kept, InHand, Slot, Shows
<1>9. TableIsHistory'
  <2> DEFINE rows == 1 .. (IF c + 1 < NUM_ENTRIES THEN c + 1 ELSE NUM_ENTRIES)
  <2> SUFFICES ASSUME page' # <<>>
               PROVE  /\ DOMAIN page' = rows
                      /\ \A n \in DOMAIN page' :
                             /\ page'[n].number = (c + 1) - n + 1
                             /\ Slot((c + 1) - n) \notin damaged
                                => Shows(page'[n].record, served'[(c + 1) - n + 1])
    BY <1>2 DEF TableIsHistory, Slot, Shows
  <2>1. page' = Rows(state')
    BY <1>2
  <2>2. Shown = rows
    BY <1>1 DEF Shown, Counter
  <2>3. page' = [ n \in rows |-> [number |-> c - NUM_ENTRIES + Counter(n) + 1,
                                  record |-> state'[RowSlot(Counter(n))]] ]
    BY <2>1, <2>2 DEF Rows
  <2>4. ASSUME NEW n \in rows
        PROVE  /\ c - NUM_ENTRIES + Counter(n) + 1 = (c + 1) - n + 1
               /\ Slot((c + 1) - n) \notin damaged
                  => Shows(state'[RowSlot(Counter(n))], served'[(c + 1) - n + 1])
    <3>1. n \in 1 .. NUM_ENTRIES /\ n <= c + 1
      BY <1>1
    <3>2. c - NUM_ENTRIES + Counter(n) + 1 = (c + 1) - n + 1
      BY <1>1, <3>1 DEF Counter
    <3> DEFINE m == (c + 1) - n + 1
    <3>3. m \in 1 .. c + 1 /\ (c + 1) - m < NUM_ENTRIES /\ m - 1 = (c + 1) - n
      BY <1>1, <3>1
    <3>4. RowSlot(Counter(n)) = Slot((c + 1) - n)
      <4>1. c - n + 1 = (c + 1) - n
        BY <1>1, <3>1
      <4> QED
        BY <1>1, <3>1, <4>1, RowSlotIs
    <3> HIDE DEF m
    <3>5. Slot(m - 1) \notin damaged => Shows(state'[Slot(m - 1)], served'[m])
      BY <1>7, <3>3
    <3> QED
      BY <3>2, <3>3, <3>4, <3>5 DEF m
  <2> HIDE DEF rows
  <2> QED
    BY <2>3, <2>4
<1> QED
  BY <1>1, <1>2, <1>8, <1>9 DEF HistoryInv, InHand

\* and by every step.
LEMMA HistoryStep == HistoryInv /\ [Next]_vars => HistoryInv'
<1> SUFFICES ASSUME HistoryInv, [Next]_vars PROVE HistoryInv'
  OBVIOUS
<1>1. CASE AcceptNext
  BY <1>1, HistoryAccept DEF AcceptNext
<1>2. CASE Connect \/ ClientCloses \/ UNCHANGED vars
  <2>1. TypeInv'
    BY TypeStep DEF HistoryInv
  <2>2. UNCHANGED <<state, c, pc, first, method, buffer, page, heard, served, damaged>>
    BY <1>2 DEF Connect, ClientCloses, vars
  <2> QED
    BY <2>1, <2>2 DEF HistoryInv, RingHolds, Kept, InHand, CurrentOK, NotedSoFar,
                      TableIsHistory, Slot, Shows
<1>3. CASE ReadLine
  BY <1>3, HistoryReadLine
<1>4. CASE Respond
  BY <1>4, HistoryRespond
<1> QED
  BY <1>1, <1>2, <1>3, <1>4 DEF Next

\* The status page (a1.c:296-312) shows the last NUM_ENTRIES requests, or all
\* there were, newest first, each under its own number, with its first line and
\* the last User-Agent it gave, escaped, if the field holds that; for any sizes of
\* the ring, of buffer and of the field.  The rows that a URI too long for its own
\* field has run over are excepted, and no others.
THEOREM PageIsTheHistory == Spec => []TableIsHistory
<1>1. HistoryInv => TableIsHistory
  BY DEF HistoryInv
<1> QED
  BY <1>1, HistoryInit, HistoryStep, PTL DEF Spec
=============================================================================
