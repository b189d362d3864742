-------------------------- MODULE MessengerProofs --------------------------
(***************************************************************************)
(* Proofs about the messenger of hw3/messenger.c: type correctness, that   *)
(* messages get to everyone, that they are shown once, and that the mesh   *)
(* is repaired when nodes leave it one after the other.                    *)
(***************************************************************************)
EXTENDS Messenger, ListLemmas

-----------------------------------------------------------------------------
(* What the loops over targets compute.                                    *)

LEMMA DropAtType ==
  ASSUME NEW s \in Seq(Nodes), NEW j \in Nat \ {0}, NEW n
  PROVE  DropAt(s, j, n) \in Seq(Nodes)
<1>1. CASE j <= Len(s) /\ s[j] = n
  <2>1. j \in 1 .. Len(s)
    BY <1>1
  <2> QED
    BY <1>1, <2>1, DropSlotElements DEF DropAt
<1>2. CASE ~(j <= Len(s) /\ s[j] = n)
  BY <1>2 DEF DropAt
<1> QED
  BY <1>1, <1>2

\* Without is what the loop leaves that starts with ts and drops n at each turn.
LEMMA WithoutLoop ==
  ASSUME NEW ts \in Seq(Nodes), NEW n
  PROVE  \E g \in [0 .. Len(ts) -> Seq(Nodes)] :
            /\ g[0] = ts /\ g[Len(ts)] = Without(ts, n)
            /\ \A j \in 1 .. Len(ts) : g[j] = DropAt(g[j - 1], j, n)
<1> DEFINE T == Seq(Nodes)
           N == Len(ts)
           Is(g) == g = [j \in 0 .. N |-> IF j = 0 THEN ts ELSE DropAt(g[j - 1], j, n)]
           F == [j \in 1 .. N |-> [s \in T |-> DropAt(s, j, n)]]
           g == CHOOSE h : Is(h)
<1>1. F \in [1 .. N -> [T -> T]] /\ N \in Nat /\ ts \in T
  BY DropAtType
<1>2. \A j \in 1 .. N : \A s \in T : F[j][s] = DropAt(s, j, n)
  OBVIOUS
<1> HIDE DEF F, T
<1>3. PICK h \in [0 .. N -> T] : IsLoop(h, ts, F, N)
  BY <1>1, LoopExists
<1>4. Is(h)
  <2>1. \A j \in 0 .. N : j # 0 => j \in 1 .. N /\ h[j - 1] \in T
    OBVIOUS
  <2>2. \A j \in 0 .. N : j # 0 => F[j][h[j - 1]] = DropAt(h[j - 1], j, n)
    BY <1>2, <2>1
  <2> QED
    BY <1>3, <2>2 DEF IsLoop
<1>5. Is(g)
  BY <1>4
<1>6. Without(ts, n) = g[N]
  BY DEF Without
<1> HIDE DEF g
<1>7. g[0] = ts /\ DOMAIN g = 0 .. N
      /\ \A j \in 1 .. N : g[j] = DropAt(g[j - 1], j, n)
  BY <1>1, <1>5
<1> DEFINE I(m) == m \in { j \in 0 .. N : g[j] \in T }
<1>8. \A m \in 0 .. N : I(m)
  <2> SUFFICES ASSUME NEW m \in 0 .. N PROVE I(m)
    OBVIOUS
  <2> DEFINE J == { j \in 0 .. N : g[j] \in T }
  <2>1. 0 \in J
    BY <1>1, <1>7
  <2>2. \A j \in 1 .. m : j - 1 \in J => j \in J
    BY <1>1, <1>7, DropAtType DEF T
  <2> HIDE DEF J
  <2>3. m \in J
    BY <2>1, <2>2, LoopInvariant
  <2> QED
    BY <2>3 DEF J
<1>9. g \in [0 .. N -> T]
  BY <1>5, <1>8
<1> QED
  BY <1>6, <1>7, <1>9 DEF T

\* A turn drops n only.
LEMMA DropAtRange ==
  ASSUME NEW s \in Seq(Nodes), NEW j \in Nat \ {0}, NEW n
  PROVE  /\ Range(DropAt(s, j, n)) \subseteq Range(s)
         /\ Range(s) \ {n} \subseteq Range(DropAt(s, j, n))
<1>1. CASE j <= Len(s) /\ s[j] = n
  <2> DEFINE r == DropSlot(s, j)
  <2>1. j \in 1 .. Len(s) /\ DropAt(s, j, n) = r
    BY <1>1 DEF DropAt
  <2>2. /\ Len(r) = Len(s) - 1 /\ r \in Seq(Nodes)
        /\ \A k \in 1 .. Len(s) - 1 : r[k] = IF k = j THEN s[Len(s)] ELSE s[k]
    BY <2>1, DropSlotElements
  <2> HIDE DEF r
  <2>3. /\ DOMAIN r = 1 .. Len(s) - 1 /\ DOMAIN s = 1 .. Len(s) /\ Len(s) \in Nat
    BY <2>2
  <2>4. Range(r) \subseteq Range(s)
    BY <2>1, <2>2, <2>3 DEF Range
  <2>5. ASSUME NEW k \in DOMAIN s, s[k] # n PROVE s[k] \in Range(r)
    <3>1. k # j
      BY <1>1, <2>5
    <3>2. CASE k = Len(s)
      <4>1. j \in DOMAIN r /\ r[j] = s[k]
        BY <2>1, <2>2, <2>3, <3>1, <3>2
      <4> QED
        BY <4>1 DEF Range
    <3>3. CASE k # Len(s)
      <4>1. k \in DOMAIN r /\ r[k] = s[k]
        BY <2>2, <2>3, <3>1, <3>3
      <4> QED
        BY <4>1 DEF Range
    <3> QED
      BY <3>2, <3>3
  <2> QED
    BY <2>1, <2>4, <2>5 DEF Range
<1>2. CASE ~(j <= Len(s) /\ s[j] = n)
  BY <1>2 DEF DropAt
<1> QED
  BY <1>1, <1>2

\* Without is a list of some of the nodes of ts, n at most left out.
LEMMA WithoutRange ==
  ASSUME NEW ts \in Seq(Nodes), NEW n
  PROVE  /\ Without(ts, n) \in Seq(Nodes)
         /\ Range(Without(ts, n)) \subseteq Range(ts)
         /\ Range(ts) \ {n} \subseteq Range(Without(ts, n))
<1> DEFINE N == Len(ts)
<1>1. PICK g \in [0 .. N -> Seq(Nodes)] :
            /\ g[0] = ts /\ g[N] = Without(ts, n)
            /\ \A j \in 1 .. N : g[j] = DropAt(g[j - 1], j, n)
  BY WithoutLoop
<1>2. N \in Nat
  OBVIOUS
<1> HIDE DEF N
<1> DEFINE J == { j \in 0 .. N : /\ Range(g[j]) \subseteq Range(ts)
                                 /\ Range(ts) \ {n} \subseteq Range(g[j]) }
<1>3. 0 \in J
  BY <1>1, <1>2
<1>4. ASSUME NEW j \in 1 .. N, j - 1 \in J PROVE j \in J
  <2>1. g[j - 1] \in Seq(Nodes) /\ g[j] = DropAt(g[j - 1], j, n) /\ j \in Nat \ {0}
    BY <1>1, <1>2
  <2>2. /\ Range(g[j]) \subseteq Range(g[j - 1])
        /\ Range(g[j - 1]) \ {n} \subseteq Range(g[j])
    BY <2>1, DropAtRange
  <2> QED
    BY <1>4, <2>2
<1> HIDE DEF J
<1>5. N \in J
  BY <1>2, <1>3, <1>4, LoopInvariant
<1> QED
  BY <1>1, <1>2, <1>5 DEF J

\* If n is in ts once it is dropped, and no other node is there twice then.
LEMMA WithoutDistinct ==
  ASSUME NEW ts \in Seq(Nodes), NEW n, Distinct(ts)
  PROVE  /\ Distinct(Without(ts, n))
         /\ n \notin Range(Without(ts, n))
<1> DEFINE N == Len(ts)
<1>1. PICK g \in [0 .. N -> Seq(Nodes)] :
            /\ g[0] = ts /\ g[N] = Without(ts, n)
            /\ \A j \in 1 .. N : g[j] = DropAt(g[j - 1], j, n)
  BY WithoutLoop
<1>2. N \in Nat /\ Len(g[0]) = N
  BY <1>1
<1> HIDE DEF N
<1> DEFINE J == { j \in 0 .. N : /\ Distinct(g[j]) /\ Len(g[j]) <= N
                                 /\ \A k \in DOMAIN g[j] : k <= j => g[j][k] # n }
<1>3. 0 \in J
  <2>1. \A k \in DOMAIN g[0] : ~(k <= 0)
    BY <1>1
  <2> QED
    BY <1>1, <1>2, <2>1
<1>4. ASSUME NEW j \in 1 .. N, j - 1 \in J PROVE j \in J
  <2> DEFINE s == g[j - 1]
             r == g[j]
  <2>1. s \in Seq(Nodes) /\ r = DropAt(s, j, n)
    BY <1>1, <1>2
  <2>2. Distinct(s) /\ Len(s) <= N /\ \A k \in DOMAIN s : k <= j - 1 => s[k] # n
    BY <1>4
  <2>3. DOMAIN s = 1 .. Len(s) /\ Len(s) \in Nat
    BY <2>1
  <2> HIDE DEF s, r
  <2> SUFFICES Distinct(r) /\ Len(r) <= N /\ \A k \in DOMAIN r : k <= j => r[k] # n
    BY <1>2 DEF r
  <2>4. CASE j <= Len(s) /\ s[j] = n
    <3>1. j \in 1 .. Len(s) /\ r = DropSlot(s, j)
      BY <2>1, <2>4 DEF DropAt
    <3> DEFINE d == DropSlot(s, j)
    <3>a. /\ d \in Seq(Nodes) /\ Len(d) = Len(s) - 1
          /\ \A k \in 1 .. Len(s) - 1 : d[k] = IF k = j THEN s[Len(s)] ELSE s[k]
      BY <2>1, <3>1, DropSlotElements
    <3> HIDE DEF d
    <3>2. /\ r \in Seq(Nodes) /\ Len(r) = Len(s) - 1
          /\ \A k \in 1 .. Len(s) - 1 : r[k] = IF k = j THEN s[Len(s)] ELSE s[k]
      BY <3>1, <3>a DEF d
    <3> DEFINE from(k) == IF k = j THEN Len(s) ELSE k
    <3>3. /\ DOMAIN r = 1 .. Len(s) - 1
          /\ \A k \in DOMAIN r : from(k) \in DOMAIN s /\ r[k] = s[from(k)] /\ from(k) # j
      <4>1. DOMAIN r = 1 .. Len(s) - 1 /\ j \in Int
        BY <2>3, <3>1, <3>2
      <4>2. ASSUME NEW k \in 1 .. Len(s) - 1
            PROVE  from(k) \in 1 .. Len(s) /\ r[k] = s[from(k)] /\ from(k) # j
        <5>1. CASE k = j
          BY <2>3, <3>2, <4>1, <5>1
        <5>2. CASE k # j
          BY <2>3, <3>2, <4>1, <5>2
        <5> QED
          BY <5>1, <5>2
      <4> QED
        BY <2>3, <4>1, <4>2
    <3>4. \A k, m \in DOMAIN r : from(k) = from(m) => k = m
      BY <2>3, <3>2
    <3> HIDE DEF from
    <3>5. Distinct(r)
      BY <2>2, <3>3, <3>4 DEF Distinct
    <3>6. \A k \in DOMAIN r : r[k] # n
      BY <2>2, <2>3, <2>4, <3>1, <3>3 DEF Distinct
    <3>7. Len(r) <= N
      BY <2>2, <2>3, <3>2, <1>2
    <3> QED
      BY <3>5, <3>6, <3>7
  <2>5. CASE ~(j <= Len(s) /\ s[j] = n)
    <3>1. r = s
      BY <2>1, <2>5 DEF DropAt
    <3>2. \A k \in DOMAIN s : k <= j => k <= j - 1 \/ k = j
      BY <2>3
    <3> QED
      BY <2>2, <2>3, <2>5, <3>1, <3>2
  <2> QED
    BY <2>4, <2>5
<1> HIDE DEF J
<1>5. N \in J
  BY <1>2, <1>3, <1>4, LoopInvariant
<1>6. /\ Distinct(Without(ts, n))
      /\ \A k \in DOMAIN Without(ts, n) : Without(ts, n)[k] # n
  <2>1. /\ Distinct(g[N]) /\ Len(g[N]) <= N
        /\ \A k \in DOMAIN g[N] : k <= N => g[N][k] # n
    BY <1>5 DEF J
  <2>2. DOMAIN g[N] = 1 .. Len(g[N]) /\ Len(g[N]) \in Nat
    BY <1>1, <1>2
  <2> QED
    BY <1>1, <1>2, <2>1, <2>2
<1> QED
  BY <1>6 DEF Range

\* Registering a neighbour adds it, once.
LEMMA AddNewElements ==
  ASSUME NEW s \in Seq(Nodes), NEW r \in Nodes
  PROVE  /\ AddNew(s, r) \in Seq(Nodes)
         /\ Range(AddNew(s, r)) = Range(s) \union {r}
         /\ Distinct(s) => Distinct(AddNew(s, r))
<1>1. CASE r \in Range(s)
  BY <1>1 DEF AddNew
<1>2. CASE r \notin Range(s)
  BY <1>2, AppendElements DEF AddNew
<1> QED
  BY <1>1, <1>2

\* With is what the loop leaves that starts with ts and adds a node of rs at each turn.
LEMMA WithLoop ==
  ASSUME NEW ts \in Seq(Nodes), NEW rs \in Seq(Nodes)
  PROVE  \E g \in [0 .. Len(rs) -> Seq(Nodes)] :
            /\ g[0] = ts /\ g[Len(rs)] = With(ts, rs)
            /\ \A i \in 1 .. Len(rs) : g[i] = AddNew(g[i - 1], rs[i])
<1> DEFINE T == Seq(Nodes)
           N == Len(rs)
           Is(g) == g = [i \in 0 .. N |-> IF i = 0 THEN ts ELSE AddNew(g[i - 1], rs[i])]
           F == [i \in 1 .. N |-> [s \in T |-> AddNew(s, rs[i])]]
           g == CHOOSE h : Is(h)
<1>0. N \in Nat /\ \A i \in 1 .. N : rs[i] \in Nodes
  OBVIOUS
<1>1. F \in [1 .. N -> [T -> T]] /\ N \in Nat /\ ts \in T
  <2> HIDE DEF N
  <2>1. \A i \in 1 .. N : \A s \in T : AddNew(s, rs[i]) \in T
    BY <1>0, AddNewElements
  <2> QED
    BY <1>0, <2>1
<1>2. \A i \in 1 .. N : \A s \in T : F[i][s] = AddNew(s, rs[i])
  OBVIOUS
<1> HIDE DEF F, T
<1>3. PICK h \in [0 .. N -> T] : IsLoop(h, ts, F, N)
  BY <1>1, LoopExists
<1>4. Is(h)
  <2>1. \A i \in 0 .. N : i # 0 => i \in 1 .. N /\ h[i - 1] \in T
    OBVIOUS
  <2>2. \A i \in 0 .. N : i # 0 => F[i][h[i - 1]] = AddNew(h[i - 1], rs[i])
    BY <1>2, <2>1
  <2> QED
    BY <1>3, <2>2 DEF IsLoop
<1>5. Is(g)
  BY <1>4
<1>6. With(ts, rs) = g[N]
  BY DEF With
<1> HIDE DEF g
<1>7. g[0] = ts /\ DOMAIN g = 0 .. N
      /\ \A i \in 1 .. N : g[i] = AddNew(g[i - 1], rs[i])
  BY <1>1, <1>5
<1>8. ASSUME NEW m \in 0 .. N PROVE g[m] \in T
  <2> DEFINE J == { i \in 0 .. N : g[i] \in T }
  <2>1. 0 \in J
    BY <1>1, <1>7
  <2>2. ASSUME NEW i \in 1 .. m, i - 1 \in J PROVE i \in J
    <3>1. i \in 1 .. N /\ g[i - 1] \in Seq(Nodes) /\ g[i] = AddNew(g[i - 1], rs[i])
      BY <2>2, <1>1, <1>7 DEF T
    <3>2. rs[i] \in Nodes
      BY <1>0, <3>1
    <3>3. AddNew(g[i - 1], rs[i]) \in T
      BY <3>1, <3>2, AddNewElements DEF T
    <3> QED
      BY <3>1, <3>3
  <2> HIDE DEF J
  <2>3. m \in J
    BY <2>1, <2>2, LoopInvariant
  <2> QED
    BY <2>3 DEF J
<1>9. g \in [0 .. N -> T]
  BY <1>5, <1>8
<1> QED
  BY <1>6, <1>7, <1>9 DEF T

\* All of rs are in With, and no node is there twice that was not before.
LEMMA WithElements ==
  ASSUME NEW ts \in Seq(Nodes), NEW rs \in Seq(Nodes)
  PROVE  /\ With(ts, rs) \in Seq(Nodes)
         /\ Range(With(ts, rs)) = Range(ts) \union Range(rs)
         /\ Distinct(ts) => Distinct(With(ts, rs))
<1> DEFINE N == Len(rs)
<1>1. PICK g \in [0 .. N -> Seq(Nodes)] :
            /\ g[0] = ts /\ g[N] = With(ts, rs)
            /\ \A i \in 1 .. N : g[i] = AddNew(g[i - 1], rs[i])
  BY WithLoop
<1>2. N \in Nat /\ DOMAIN rs = 1 .. N /\ \A i \in 1 .. N : rs[i] \in Nodes
  OBVIOUS
<1> HIDE DEF N
<1> DEFINE J == { i \in 0 .. N : /\ Range(g[i]) = Range(ts) \union { rs[k] : k \in 1 .. i }
                                 /\ Distinct(ts) => Distinct(g[i]) }
<1>3. 0 \in J
  BY <1>1, <1>2
<1>4. ASSUME NEW i \in 1 .. N, i - 1 \in J PROVE i \in J
  <2>1. g[i - 1] \in Seq(Nodes) /\ g[i] = AddNew(g[i - 1], rs[i])
    BY <1>1, <1>2
  <2>2. /\ Range(g[i]) = Range(g[i - 1]) \union {rs[i]}
        /\ Distinct(g[i - 1]) => Distinct(g[i])
    BY <1>2, <2>1, AddNewElements
  <2>3. 1 .. i = (1 .. i - 1) \union {i}
    BY <1>2
  <2>4. { rs[k] : k \in 1 .. i } = { rs[k] : k \in 1 .. i - 1 } \union {rs[i]}
    BY <2>3
  <2> QED
    BY <1>2, <1>4, <2>2, <2>4
<1> HIDE DEF J
<1>5. N \in J
  BY <1>2, <1>3, <1>4, LoopInvariant
<1>6. Range(rs) = { rs[k] : k \in 1 .. N }
  BY <1>2 DEF Range
<1> QED
  BY <1>1, <1>2, <1>5, <1>6 DEF J
-----------------------------------------------------------------------------
(* Type correctness.                                                       *)

LEMMA PacketFields ==
  ASSUME NEW p \in Packets
  PROVE  /\ p.kind \in {"message", "register", "redirect"}
         /\ p.from \in Nodes /\ p.to \in Nodes
         /\ p.kind = "message" => p.mes \in Messages
         /\ p.kind = "redirect" => p.redirects \in Seq(Nodes)
BY DEF Packets

\* What nodes send are packets.
LEMMA PacketsAreSent ==
  ASSUME NEW n \in Nodes, NEW to \in Nodes
  PROVE  /\ \A m \in Messages : Message(n, to, m) \in Packets
         /\ Register(n, to) \in Packets
         /\ \A rs \in Seq(Nodes) : Redirect(n, to, rs) \in Packets
BY DEF Packets, Message, Register, Redirect

\* What receiving a packet changes, whatever else its handler does.
LEMMA ReceiveType ==
  ASSUME MessengerTypeOK, NEW p \in net, NEW sent, Receive(p, sent)
  PROVE  /\ state' = state /\ lost' = lost /\ audience' = audience
         /\ p \in Packets /\ p.to \in Nodes /\ p.from \in Nodes
         /\ state[p.to] = "up" /\ ~atStdin[p.to]
         /\ atStdin' \in [Nodes -> BOOLEAN]
         /\ \A n \in Nodes \ {p.to} : atStdin'[n] = atStdin[n]
         /\ net' \subseteq net \union Reaching(sent)
         /\ net \ {p} \subseteq net' /\ Reaching(sent) \subseteq net'
         /\ repeated' \in Nat /\ lost' + repeated' <= FAULTS
<1>1. p \in Packets /\ p.to \in Nodes /\ p.from \in Nodes
  BY PacketFields DEF MessengerTypeOK
<1>2. /\ atStdin' \in [Nodes -> BOOLEAN]
      /\ \A n \in Nodes \ {p.to} : atStdin'[n] = atStdin[n]
  <2>1. PICK b \in BOOLEAN : atStdin' = [atStdin EXCEPT ![p.to] = b]
    BY DEF Receive
  <2> QED
    BY <1>1, <2>1 DEF MessengerTypeOK
<1>3. /\ net' \subseteq net \union Reaching(sent)
      /\ net \ {p} \subseteq net' /\ Reaching(sent) \subseteq net'
  BY DEF Receive
<1>4. /\ state' = state /\ lost' = lost /\ audience' = audience
      /\ state[p.to] = "up" /\ ~atStdin[p.to]
  BY DEF Receive
<1>5. repeated' \in Nat /\ lost' + repeated' <= FAULTS
  <2>1. /\ lost \in Nat /\ repeated \in Nat /\ FAULTS \in Nat /\ lost' = lost
        /\ lost + repeated <= FAULTS
    BY <1>4, MessengerAssumption DEF MessengerTypeOK
  <2>2. \/ repeated' = repeated
        \/ lost + repeated < FAULTS /\ repeated' = repeated + 1
    BY DEF Receive
  <2> QED
    BY <2>1, <2>2
<1> QED
  BY <1>1, <1>2, <1>3, <1>4, <1>5

\* The place in the ring of digests stays in it, or is just past it with input.
LEMMA WrappedType ==
  ASSUME MessengerTypeOK, NEW n \in Nodes, NEW l \in Nat, Wrapped(n, l),
         atStdin'[n] => l <= MAX_DIGESTS
  PROVE  /\ latest' \in [Nodes -> 0 .. MAX_DIGESTS]
         /\ ~atStdin'[n] => latest'[n] < MAX_DIGESTS
         /\ \A k \in Nodes \ {n} : latest'[k] = latest[k]
<1> DEFINE v == IF atStdin'[n] THEN l ELSE l % MAX_DIGESTS
<1>1. l % MAX_DIGESTS \in 0 .. MAX_DIGESTS - 1
  BY MessengerAssumption
<1>2. v \in 0 .. MAX_DIGESTS /\ (~atStdin'[n] => v < MAX_DIGESTS)
  BY <1>1, MessengerAssumption
<1>3. latest' = [latest EXCEPT ![n] = v]
  BY DEF Wrapped
<1> HIDE DEF v
<1> QED
  BY <1>2, <1>3 DEF MessengerTypeOK

\* Recording a digest keeps the ring an array of digests.
LEMMA RecordType ==
  ASSUME MessengerTypeOK, NEW n \in Nodes, NEW m \in Messages, Record(n, m),
         atStdin'[n] => ~atStdin[n]
  PROVE  /\ digests' \in [Nodes -> [0 .. MAX_DIGESTS - 1 -> Digests]]
         /\ latest' \in [Nodes -> 0 .. MAX_DIGESTS]
         /\ ~atStdin'[n] => latest'[n] < MAX_DIGESTS
         /\ \A k \in Nodes \ {n} : latest'[k] = latest[k]
<1>1. latest[n] \in 0 .. MAX_DIGESTS /\ (~atStdin[n] => latest[n] < MAX_DIGESTS)
      /\ Digest[m] \in Digests /\ MAX_DIGESTS \in Nat \ {0}
  BY MessengerAssumption DEF MessengerTypeOK
<1>2. digests' \in [Nodes -> [0 .. MAX_DIGESTS - 1 -> Digests]]
  BY <1>1 DEF MessengerTypeOK, Record
<1>3. Wrapped(n, latest[n] + 1)
  BY DEF Record
<1>4. latest[n] + 1 \in Nat /\ (atStdin'[n] => latest[n] + 1 <= MAX_DIGESTS)
  BY <1>1
<1> QED
  BY <1>2, <1>3, <1>4, WrappedType

\* Copies passed on are packets.
LEMMA ForwardSent ==
  ASSUME MessengerTypeOK, NEW n \in Nodes, NEW from, NEW m \in Messages
  PROVE  Forward(n, from, m) \subseteq Packets
<1>1. targets[n] \in Seq(Nodes)
  BY DEF MessengerTypeOK
<1>2. Range(targets[n]) \subseteq Nodes
  BY <1>1 DEF Range
<1> QED
  BY <1>2, PacketsAreSent DEF Forward

\* What a node sends when it leaves are packets.
LEMMA FarewellSent ==
  ASSUME MessengerTypeOK, NEW n \in Nodes
  PROVE  Farewell(n) \subseteq Packets
<1>1. /\ targets[n] \in Seq(Nodes) /\ DOMAIN targets[n] = 1 .. Len(targets[n])
      /\ Len(targets[n]) \in Nat
  BY DEF MessengerTypeOK
<1>2. CASE Len(targets[n]) = 1
  <2>1. targets[n][1] \in Nodes /\ <<>> \in Seq(Nodes)
    BY <1>1, <1>2
  <2> QED
    BY <1>2, <2>1, PacketsAreSent DEF Farewell
<1>3. CASE Len(targets[n]) # 1
  <2>1. ASSUME NEW i \in 2 .. Len(targets[n])
        PROVE  /\ Redirect(n, targets[n][1], <<targets[n][i]>>) \in Packets
               /\ Redirect(n, targets[n][i], <<targets[n][1]>>) \in Packets
    <3>1. targets[n][1] \in Nodes /\ targets[n][i] \in Nodes
      BY <1>1
    <3>2. <<targets[n][1]>> \in Seq(Nodes) /\ <<targets[n][i]>> \in Seq(Nodes)
      BY <3>1
    <3> QED
      BY <3>1, <3>2, PacketsAreSent
  <2> QED
    BY <1>3, <2>1 DEF Farewell
<1> QED
  BY <1>2, <1>3

\* A packet handled keeps the types.
LEMMA HandlePacketType ==
  ASSUME MessengerTypeOK, NEW p \in net, HandlePacket(p)
  PROVE  MessengerTypeOK'
<1>1. /\ p \in Packets /\ p.to \in Nodes /\ p.from \in Nodes
      /\ p.kind = "message" => p.mes \in Messages
      /\ p.kind = "redirect" => p.redirects \in Seq(Nodes)
  BY PacketFields DEF MessengerTypeOK
<1> DEFINE ReceivedOK(sent) ==
             /\ Receive(p, sent) /\ Reaching(sent) \subseteq Packets
             /\ targets' \in [Nodes -> Seq(Nodes)]
             /\ shown' \in [Nodes -> Seq(Messages)]
<1>2. ASSUME NEW sent, ReceivedOK(sent),
             \/ UNCHANGED <<digests, latest>>
             \/ \E m \in Messages : Record(p.to, m)
      PROVE  MessengerTypeOK'
  <2>1. /\ state' = state /\ audience' = audience /\ lost' = lost
        /\ atStdin' \in [Nodes -> BOOLEAN] /\ ~atStdin[p.to]
        /\ \A n \in Nodes \ {p.to} : atStdin'[n] = atStdin[n]
        /\ net' \subseteq Packets
        /\ repeated' \in Nat /\ lost' + repeated' <= FAULTS
    BY <1>2, ReceiveType DEF MessengerTypeOK
  <2>2. /\ digests' \in [Nodes -> [0 .. MAX_DIGESTS - 1 -> Digests]]
        /\ latest' \in [Nodes -> 0 .. MAX_DIGESTS]
        /\ ~atStdin'[p.to] => latest'[p.to] < MAX_DIGESTS
        /\ \A k \in Nodes \ {p.to} : latest'[k] = latest[k]
    <3>1. CASE UNCHANGED <<digests, latest>>
      BY <1>1, <2>1, <3>1 DEF MessengerTypeOK
    <3>2. CASE \E m \in Messages : Record(p.to, m)
      BY <1>1, <2>1, <3>2, RecordType
    <3> QED
      BY <1>2, <3>1, <3>2
  <2>3. \A n \in Nodes : ~atStdin'[n] => latest'[n] < MAX_DIGESTS
    BY <2>1, <2>2 DEF MessengerTypeOK
  <2> QED
    BY <1>2, <2>1, <2>2, <2>3 DEF MessengerTypeOK
<1> HIDE DEF ReceivedOK
<1>3. CASE DropUnknown(p)
  <2>1. ReceivedOK({})
    BY <1>3 DEF ReceivedOK, DropUnknown, Reaching, MessengerTypeOK
  <2> QED
    BY <1>2, <1>3, <2>1 DEF DropUnknown
<1>4. CASE DropSeen(p)
  <2>1. ReceivedOK({})
    BY <1>4 DEF ReceivedOK, DropSeen, Reaching, MessengerTypeOK
  <2> QED
    BY <1>2, <1>4, <2>1 DEF DropSeen
<1>5. CASE ShowAndForward(p)
  <2>1. p.mes \in Messages /\ shown[p.to] \in Seq(Messages)
    BY <1>1, <1>5 DEF ShowAndForward, MessengerTypeOK
  <2>2. Reaching(Forward(p.to, p.from, p.mes)) \subseteq Packets
    BY <1>1, <2>1, ForwardSent DEF Reaching
  <2>3. shown' \in [Nodes -> Seq(Messages)]
    <3>1. Append(shown[p.to], p.mes) \in Seq(Messages)
      BY <2>1
    <3> QED
      BY <1>1, <1>5, <3>1 DEF ShowAndForward, MessengerTypeOK
  <2>4. ReceivedOK(Forward(p.to, p.from, p.mes))
    BY <1>5, <2>2, <2>3 DEF ReceivedOK, ShowAndForward, MessengerTypeOK
  <2> QED
    BY <1>2, <1>5, <2>1, <2>4 DEF ShowAndForward
<1>6. CASE HandleRegister(p)
  <2>1. Append(targets[p.to], p.from) \in Seq(Nodes)
    BY <1>1 DEF MessengerTypeOK
  <2>2. ReceivedOK({})
    BY <1>1, <1>6, <2>1 DEF ReceivedOK, HandleRegister, Reaching, MessengerTypeOK
  <2> QED
    BY <1>2, <1>6, <2>2 DEF HandleRegister
<1>7. CASE HandleRedirect(p)
  <2> DEFINE ts == With(Without(targets[p.to], p.from), p.redirects)
  <2>1. ts \in Seq(Nodes)
    <3>1. targets[p.to] \in Seq(Nodes) /\ p.redirects \in Seq(Nodes)
      BY <1>1, <1>7 DEF HandleRedirect, MessengerTypeOK
    <3>2. Without(targets[p.to], p.from) \in Seq(Nodes)
      BY <3>1, WithoutRange
    <3> QED
      BY <3>1, <3>2, WithElements
  <2>2. targets' = [targets EXCEPT ![p.to] = ts]
    BY <1>7 DEF HandleRedirect
  <2> HIDE DEF ts
  <2>3. ReceivedOK({})
    BY <1>1, <1>7, <2>1, <2>2 DEF ReceivedOK, HandleRedirect, Reaching, MessengerTypeOK
  <2> QED
    BY <1>2, <1>7, <2>3 DEF HandleRedirect
<1> QED
  BY <1>3, <1>4, <1>5, <1>6, <1>7 DEF HandlePacket

\* The types hold at first,
LEMMA TypeInit ==
  Init => MessengerTypeOK
<1> SUFFICES ASSUME Init PROVE MessengerTypeOK
  OBVIOUS
<1>1. digests \in [Nodes -> [0 .. MAX_DIGESTS - 1 -> Digests]]
  BY MessengerAssumption DEF Init
<1>2. /\ latest \in [Nodes -> 0 .. MAX_DIGESTS]
      /\ \A n \in Nodes : latest[n] < MAX_DIGESTS
      /\ lost \in Nat /\ repeated \in Nat /\ lost + repeated <= FAULTS
  BY MessengerAssumption DEF Init
<1> QED
  BY <1>1, <1>2 DEF Init, MessengerTypeOK

\* and are kept by every step.
LEMMA TypeNext ==
  MessengerTypeOK /\ [Next]_vars => MessengerTypeOK'
<1> SUFFICES ASSUME MessengerTypeOK, [Next]_vars PROVE MessengerTypeOK'
  OBVIOUS
<1>1. ASSUME NEW n \in Nodes, Start(n) PROVE MessengerTypeOK'
  <2>1. Contacts[n] \in Seq(Nodes) /\ Range(Contacts[n]) \subseteq Nodes
    BY MessengerAssumption DEF Range
  <2>2. { Register(n, to) : to \in Range(Contacts[n]) } \subseteq Packets
    BY <2>1, PacketsAreSent
  <2> QED
    BY <1>1, <2>1, <2>2 DEF Start, MessengerTypeOK
<1>2. ASSUME NEW n \in Nodes, Query(n) PROVE MessengerTypeOK'
  <2>1. /\ atStdin' = [atStdin EXCEPT ![n] = FALSE] /\ Wrapped(n, latest[n])
        /\ UNCHANGED <<state, targets, digests, shown, net, lost, repeated, audience>>
    BY <1>2 DEF Query
  <2>2. latest[n] \in Nat /\ ~atStdin'[n]
    BY <2>1 DEF MessengerTypeOK
  <2>3. /\ latest' \in [Nodes -> 0 .. MAX_DIGESTS]
        /\ latest'[n] < MAX_DIGESTS
        /\ \A k \in Nodes \ {n} : latest'[k] = latest[k]
    BY <2>1, <2>2, WrappedType
  <2> QED
    BY <2>1, <2>3 DEF MessengerTypeOK
<1>3. ASSUME NEW n \in Nodes, NEW sent, Gone(n, sent), Reaching(sent) \subseteq Packets
      PROVE  MessengerTypeOK'
  BY <1>3 DEF Gone, MessengerTypeOK
<1>4. ASSUME NEW n \in Nodes, Leave(n) PROVE MessengerTypeOK'
  <2>1. Reaching(Farewell(n)) \subseteq Packets
    BY FarewellSent DEF Reaching
  <2> QED
    BY <1>3, <1>4, <2>1 DEF Leave
<1>5. ASSUME NEW n \in Nodes, Gone(n, {}) PROVE MessengerTypeOK'
  BY <1>3, <1>5 DEF Reaching
<1>6. ASSUME NEW m \in Messages, NEW n \in Nodes, Type(n, m) PROVE MessengerTypeOK'
  <2>1. /\ atStdin' = [atStdin EXCEPT ![n] = FALSE] /\ Record(n, m)
        /\ shown' = [shown EXCEPT ![n] = Append(@, m)]
        /\ net' = net \union Reaching({ Message(n, to, m) : to \in Range(targets[n]) })
        /\ UNCHANGED <<state, targets, lost, repeated>>
    BY <1>6 DEF Type
  <2>2. audience' \in [Messages -> SUBSET Nodes]
    BY <1>6 DEF Type, Up, MessengerTypeOK
  <2>3. ~atStdin'[n]
    BY <2>1 DEF MessengerTypeOK
  <2>4. /\ digests' \in [Nodes -> [0 .. MAX_DIGESTS - 1 -> Digests]]
        /\ latest' \in [Nodes -> 0 .. MAX_DIGESTS]
        /\ latest'[n] < MAX_DIGESTS
        /\ \A k \in Nodes \ {n} : latest'[k] = latest[k]
    BY <2>1, <2>3, RecordType
  <2>5. Range(targets[n]) \subseteq Nodes
    BY DEF Range, MessengerTypeOK
  <2>6. Reaching({ Message(n, to, m) : to \in Range(targets[n]) }) \subseteq Packets
    BY <2>5, PacketsAreSent DEF Reaching
  <2>7. Append(shown[n], m) \in Seq(Messages)
    BY DEF MessengerTypeOK
  <2> QED
    BY <2>1, <2>2, <2>4, <2>6, <2>7 DEF MessengerTypeOK
<1>7. ASSUME NEW p \in net, Lose(p) PROVE MessengerTypeOK'
  <2>1. lost' \in Nat /\ lost' + repeated' <= FAULTS
    BY <1>7, MessengerAssumption DEF Lose, MessengerTypeOK
  <2> QED
    BY <1>7, <2>1 DEF Lose, nodeVars, MessengerTypeOK
<1>8. CASE UNCHANGED vars
  BY <1>8 DEF vars, nodeVars, MessengerTypeOK
<1>9. \A m \in Messages : Author[m] \in Nodes
  BY MessengerAssumption
<1> QED
  BY <1>1, <1>2, <1>4, <1>5, <1>6, <1>7, <1>8, <1>9, HandlePacketType
     DEF Next, Interrupt, Overrun

\* A node at the top of the loop of hw3/messenger.c:215 has a slot of the record
\* to write the next digest to.
THEOREM MessengerTypeCorrect ==
  Spec => []MessengerTypeOK
BY TypeInit, TypeNext, PTL DEF Spec
-----------------------------------------------------------------------------
(* What is shown, and what is under way of it.                             *)

\* A step shows nothing and sends no message, or one node shows a message that
\* was typed there, or that came, and sends that message only.
LEMMA WhatIsShown ==
  ASSUME MessengerTypeOK, [Next]_vars
  PROVE  \/ /\ shown' = shown /\ digests' = digests
            /\ latest' = latest \/ \E n \in Nodes : Wrapped(n, latest[n])
            /\ \A q \in net' \ net : q.kind # "message"
         \/ \E n \in Nodes, m \in Messages :
               /\ shown' = [shown EXCEPT ![n] = Append(@, m)] /\ Record(n, m)
               /\ \A q \in net' \ net : q.kind = "message" /\ q.from = n /\ q.mes = m
               /\ \/ n = Author[m] /\ Type(n, m)
                  \/ \E p \in net : ShowAndForward(p) /\ n = p.to /\ m = p.mes
<1> DEFINE Nothing == /\ shown' = shown /\ digests' = digests
                      /\ latest' = latest \/ \E n \in Nodes : Wrapped(n, latest[n])
                      /\ \A q \in net' \ net : q.kind # "message"
           Shows(n, m) == /\ shown' = [shown EXCEPT ![n] = Append(@, m)] /\ Record(n, m)
                          /\ \A q \in net' \ net : q.kind = "message" /\ q.from = n /\ q.mes = m
<1>1. ASSUME NEW n \in Nodes, Start(n) PROVE Nothing
  BY <1>1 DEF Start, Register
<1>2. ASSUME NEW n \in Nodes, Query(n) PROVE Nothing
  BY <1>2 DEF Query
<1>3. ASSUME NEW n \in Nodes, Leave(n) PROVE Nothing
  <2>1. \A q \in Farewell(n) : q.kind # "message"
    BY DEF Farewell, Redirect
  <2> QED
    BY <1>3, <2>1 DEF Leave, Gone, Reaching
<1>4. ASSUME NEW n \in Nodes, Gone(n, {}) PROVE Nothing
  BY <1>4 DEF Gone, Reaching
<1>5. ASSUME NEW n \in Nodes, NEW m \in Messages, Type(n, m) PROVE Shows(n, m)
  BY <1>5 DEF Type, Reaching, Message
<1>6. ASSUME NEW p \in net, Lose(p) PROVE Nothing
  BY <1>6 DEF Lose, nodeVars
<1>7. ASSUME NEW p \in net, NEW sent, Receive(p, sent)
      PROVE  \A q \in net' \ net : q \in sent
  BY <1>7 DEF Receive, Reaching
<1>8. ASSUME NEW p \in net, ShowAndForward(p) PROVE Shows(p.to, p.mes)
  <2>1. \A q \in Forward(p.to, p.from, p.mes) :
            q.kind = "message" /\ q.from = p.to /\ q.mes = p.mes
    BY DEF Forward, Message
  <2> QED
    BY <1>7, <1>8, <2>1 DEF ShowAndForward
<1>9. ASSUME NEW p \in net, HandlePacket(p), ~ShowAndForward(p) PROVE Nothing
  <2>1. Receive(p, {}) /\ shown' = shown /\ digests' = digests /\ latest' = latest
    BY <1>9 DEF HandlePacket, DropUnknown, DropSeen, HandleRegister, HandleRedirect
  <2> QED
    BY <1>7, <2>1
<1>10. ASSUME UNCHANGED vars PROVE Nothing
  BY <1>10 DEF vars, nodeVars
<1>11. \A m \in Messages : Author[m] \in Nodes
  BY MessengerAssumption
<1>12. \A p \in net : ShowAndForward(p) => p.to \in Nodes /\ p.mes \in Messages
  BY PacketFields DEF ShowAndForward, MessengerTypeOK
<1> HIDE DEF Nothing, Shows
<1>13. \/ Nothing
       \/ \E m \in Messages : Type(Author[m], m)
       \/ \E p \in net : ShowAndForward(p)
  BY <1>1, <1>2, <1>3, <1>4, <1>6, <1>9, <1>10, <1>11 DEF Next, Interrupt, Overrun
<1>14. ASSUME NEW m \in Messages, Type(Author[m], m)
       PROVE  \E n \in Nodes : Shows(n, m) /\ n = Author[m] /\ Type(n, m)
  BY <1>5, <1>11, <1>14
<1> QED
  BY <1>8, <1>12, <1>13, <1>14 DEF Nothing, Shows

\* Nodes are started once, and do not come back.
LEMMA StatesFollow ==
  ASSUME MessengerTypeOK, [Next]_vars, NEW n \in Nodes
  PROVE  /\ state[n] = "gone" => state'[n] = "gone"
         /\ state[n] = "up" => state'[n] \in {"up", "gone"}
<1>1. ASSUME NEW k \in Nodes, Start(k) \/ Gone(k, {}) \/ Leave(k)
      PROVE  /\ state[n] = "gone" => state'[n] = "gone"
             /\ state[n] = "up" => state'[n] \in {"up", "gone"}
  BY <1>1 DEF Start, Leave, Gone, Up, MessengerTypeOK
<1>2. ASSUME state' = state
      PROVE  /\ state[n] = "gone" => state'[n] = "gone"
             /\ state[n] = "up" => state'[n] \in {"up", "gone"}
  BY <1>2
<1>3. \A p \in net : HandlePacket(p) \/ Lose(p) => state' = state
  BY DEF HandlePacket, DropUnknown, DropSeen, ShowAndForward, HandleRegister,
         HandleRedirect, Receive, Lose, nodeVars
<1>4. \A k \in Nodes : Query(k) => state' = state
  BY DEF Query
<1>5. \A m \in Messages : Author[m] \in Nodes /\ (Type(Author[m], m) => state' = state)
  BY MessengerAssumption DEF Type
<1>6. UNCHANGED vars => state' = state
  BY DEF vars, nodeVars
<1> QED
  BY <1>1, <1>2, <1>3, <1>4, <1>5, <1>6 DEF Next, Interrupt, Overrun

ShownOK ==
    /\ \A n \in Nodes : \A m \in Range(shown[n]) : m \in Range(shown[Author[m]])
    /\ \A p \in net : p.kind = "message" => p.mes \in Range(shown[p.from])
    /\ \A n \in Nodes, i \in 0 .. MAX_DIGESTS - 1 :
          digests[n][i] \in Junk \union { Digest[m] : m \in Range(shown[n]) }

\* What was shown stays shown.
LEMMA ShownKept ==
  ASSUME MessengerTypeOK, [Next]_vars, NEW n \in Nodes
  PROVE  Range(shown[n]) \subseteq Range(shown'[n])
<1>1. CASE shown' = shown
  BY <1>1
<1>2. ASSUME NEW k \in Nodes, NEW m \in Messages,
             shown' = [shown EXCEPT ![k] = Append(@, m)]
      PROVE  Range(shown[n]) \subseteq Range(shown'[n])
  <2>1. Range(shown[k]) \subseteq Range(Append(shown[k], m))
    BY AppendElements DEF MessengerTypeOK
  <2> QED
    BY <1>2, <2>1 DEF MessengerTypeOK
<1> QED
  BY <1>1, <1>2, WhatIsShown

\* What was shown was shown at its author, and digests recorded are of such.
LEMMA ShownNext ==
  ASSUME MessengerTypeOK, ShownOK, [Next]_vars
  PROVE  ShownOK'
<1>1. \A n \in Nodes : Range(shown[n]) \subseteq Messages
  BY DEF MessengerTypeOK, Range
<1>2. \A n \in Nodes : Range(shown[n]) \subseteq Range(shown'[n])
  BY ShownKept
<1>3. \A m \in Messages : Author[m] \in Nodes
  BY MessengerAssumption
<1>4. \A p \in net : p.from \in Nodes
  BY PacketFields DEF MessengerTypeOK
<1>5. CASE /\ shown' = shown /\ digests' = digests
           /\ \A q \in net' \ net : q.kind # "message"
  BY <1>5 DEF ShownOK
<1>6. ASSUME NEW n \in Nodes, NEW m \in Messages,
             shown' = [shown EXCEPT ![n] = Append(@, m)], Record(n, m),
             \A q \in net' \ net : q.kind = "message" /\ q.from = n /\ q.mes = m,
             n = Author[m] \/ \E p \in net : ShowAndForward(p) /\ m = p.mes
      PROVE  ShownOK'
  <2>1. Range(shown'[n]) = Range(shown[n]) \union {m}
    <3>1. Range(Append(shown[n], m)) = Range(shown[n]) \union {m}
      BY AppendElements DEF MessengerTypeOK
    <3> QED
      BY <1>6, <3>1 DEF MessengerTypeOK
  <2>2. \A k \in Nodes \ {n} : shown'[k] = shown[k]
    BY <1>6 DEF MessengerTypeOK
  <2>3. m \in Range(shown'[Author[m]])
    <3>1. CASE n = Author[m]
      BY <2>1, <3>1
    <3>2. CASE \E p \in net : ShowAndForward(p) /\ m = p.mes
      <4>1. PICK p \in net : ShowAndForward(p) /\ m = p.mes
        BY <3>2
      <4>2. m \in Range(shown[p.from]) /\ p.from \in Nodes
        BY <1>4, <4>1 DEF ShowAndForward, ShownOK
      <4> QED
        BY <1>2, <1>3, <4>2 DEF ShownOK
    <3> QED
      BY <1>6, <3>1, <3>2
  <2>4. \A k \in Nodes : \A x \in Range(shown'[k]) : x \in Range(shown'[Author[x]])
    <3> SUFFICES ASSUME NEW k \in Nodes, NEW x \in Range(shown'[k]), x # m
                 PROVE  x \in Range(shown'[Author[x]])
      BY <2>3
    <3>1. x \in Range(shown[k])
      BY <2>1, <2>2
    <3> QED
      BY <1>1, <1>2, <1>3, <3>1 DEF ShownOK
  <2>5. \A q \in net' : q.kind = "message" => q.mes \in Range(shown'[q.from])
    BY <1>2, <1>4, <1>6, <2>1 DEF ShownOK
  <2>6. \A k \in Nodes, i \in 0 .. MAX_DIGESTS - 1 :
           digests'[k][i] \in Junk \union { Digest[x] : x \in Range(shown'[k]) }
    <3> SUFFICES ASSUME NEW k \in Nodes, NEW i \in 0 .. MAX_DIGESTS - 1
                 PROVE  digests'[k][i] \in Junk \union { Digest[x] : x \in Range(shown'[k]) }
      OBVIOUS
    <3>1. \/ digests'[k][i] = digests[k][i]
          \/ k = n /\ digests'[k][i] = Digest[m]
      BY <1>6 DEF Record, MessengerTypeOK
    <3>2. digests[k][i] \in Junk \union { Digest[x] : x \in Range(shown[k]) }
      BY DEF ShownOK
    <3> QED
      BY <1>2, <2>1, <3>1, <3>2
  <2> QED
    BY <2>4, <2>5, <2>6 DEF ShownOK
<1> QED
  BY <1>5, <1>6, WhatIsShown
-----------------------------------------------------------------------------
(* Messages get to everyone.                                               *)

\* What messageSeen compares tells the messages apart, and from what malloc left.
DigestsTellApart ==
    \A m \in Messages :
        /\ \A k \in Messages : FirstByte[Digest[k]] = FirstByte[Digest[m]] => k = m
        /\ \A d \in Junk : FirstByte[d] # FirstByte[Digest[m]]

\* Each end of the link knows the other.
Linked(a, b) == b \in Range(targets[a]) /\ a \in Range(targets[b])

\* If a has shown m, so has b, or m is on its way to it.
Reached(m, a, b) ==
    m \in Range(shown[a]) => m \in Range(shown[b]) \/ Message(a, b, m) \in net

\* The links in L leave no part of A cut off.
Spans(L, A) ==
    \A S \in (SUBSET A) \ {{}, A} : \E a \in S, b \in A \ S : <<a, b>> \in L

FromGone == \A p \in net : p.kind = "redirect" => state[p.from] = "gone"

Present == \A m \in Messages : \A n \in audience[m] : state[n] # "off"

\* There were links when m was typed that nobody has removed since.  Later ones
\* are of no use: m may have passed by before.
FloodOK ==
    lost = 0 =>
        \A m \in Messages : audience[m] # {} /\ audience[m] \subseteq Up =>
            /\ Author[m] \in audience[m] /\ m \in Range(shown[Author[m]])
            /\ \E L : /\ Spans(L, audience[m])
                      /\ \A a, b \in audience[m] :
                            <<a, b>> \in L => Linked(a, b) /\ Reached(m, a, b)

\* If digests tell messages apart, a message taken for a repeat is one.
LEMMA SeenMeansShown ==
  ASSUME MessengerTypeOK, ShownOK, DigestsTellApart,
         NEW n \in Nodes, NEW m \in Messages, messageSeen(n, m)
  PROVE  m \in Range(shown[n])
<1>1. PICK i \in 0 .. MAX_DIGESTS - 1 : FirstByte[digests[n][i]] = FirstByte[Digest[m]]
  BY DEF messageSeen
<1>2. digests[n][i] \in Junk \union { Digest[k] : k \in Range(shown[n]) }
  BY DEF ShownOK
<1>3. Range(shown[n]) \subseteq Messages
  BY DEF MessengerTypeOK, Range
<1> QED
  BY <1>1, <1>2, <1>3 DEF DigestsTellApart

\* A running node keeps its targets, but those that are gone.
LEMMA TargetsKept ==
  ASSUME MessengerTypeOK, FromGone, [Next]_vars, NEW a \in Nodes, NEW b \in Nodes,
         state[a] = "up", state[b] # "gone", b \in Range(targets[a])
  PROVE  b \in Range(targets'[a])
<1>1. ASSUME targets' = targets PROVE b \in Range(targets'[a])
  BY <1>1
<1>2. ASSUME NEW n \in Nodes, Start(n) PROVE b \in Range(targets'[a])
  BY <1>2 DEF Start, MessengerTypeOK
<1>3. ASSUME NEW p \in net, HandleRegister(p) PROVE b \in Range(targets'[a])
  <2>1. p.to \in Nodes /\ p.from \in Nodes
    BY PacketFields DEF MessengerTypeOK
  <2>2. Range(targets[p.to]) \subseteq Range(Append(targets[p.to], p.from))
    BY <2>1, AppendElements DEF MessengerTypeOK
  <2> QED
    BY <1>3, <2>1, <2>2 DEF HandleRegister, MessengerTypeOK
<1>4. ASSUME NEW p \in net, HandleRedirect(p) PROVE b \in Range(targets'[a])
  <2>1. /\ p.to \in Nodes /\ p.from \in Nodes /\ p.redirects \in Seq(Nodes)
        /\ state[p.from] = "gone" /\ targets[p.to] \in Seq(Nodes)
    BY <1>4, PacketFields DEF HandleRedirect, FromGone, MessengerTypeOK
  <2> DEFINE w == Without(targets[p.to], p.from)
             ts == With(w, p.redirects)
  <2>2. w \in Seq(Nodes) /\ Range(targets[p.to]) \ {p.from} \subseteq Range(w)
    BY <2>1, WithoutRange
  <2>3. Range(w) \subseteq Range(ts)
    <3> HIDE DEF w
    <3> QED BY <2>1, <2>2, WithElements
  <2>4. targets' = [targets EXCEPT ![p.to] = ts]
    BY <1>4 DEF HandleRedirect
  <2> HIDE DEF w, ts
  <2> QED
    BY <2>1, <2>2, <2>3, <2>4 DEF MessengerTypeOK
<1>5. \A p \in net : DropUnknown(p) \/ DropSeen(p) \/ ShowAndForward(p) \/ Lose(p)
                        => targets' = targets
  BY DEF DropUnknown, DropSeen, ShowAndForward, Lose, nodeVars
<1>6. \A n \in Nodes : Query(n) \/ Leave(n) \/ Interrupt(n) => targets' = targets
  BY DEF Query, Leave, Interrupt, Gone
<1>7. \A n \in Nodes, m \in Messages : Type(n, m) \/ Overrun(n, m) => targets' = targets
  BY DEF Type, Overrun, Gone
<1>8. UNCHANGED vars => targets' = targets
  BY DEF vars, nodeVars
<1>9. \A m \in Messages : Author[m] \in Nodes
  BY MessengerAssumption
<1> QED
  BY <1>1, <1>2, <1>3, <1>4, <1>5, <1>6, <1>7, <1>8, <1>9 DEF Next, HandlePacket

\* REDIRECTs come from nodes that have left.
LEMMA FromGoneNext ==
  ASSUME MessengerTypeOK, FromGone, [Next]_vars
  PROVE  FromGone'
<1>1. \A n \in Nodes : state[n] = "gone" => state'[n] = "gone"
  BY StatesFollow
<1>2. \A p \in net : p.from \in Nodes
  BY PacketFields DEF MessengerTypeOK
<1>3. ASSUME \A q \in net' \ net : q.kind # "redirect" PROVE FromGone'
  BY <1>1, <1>2, <1>3 DEF FromGone
<1>4. ASSUME NEW n \in Nodes, Leave(n) PROVE FromGone'
  <2>1. \A q \in Farewell(n) : q.from = n
    BY DEF Farewell, Redirect
  <2>2. state'[n] = "gone" /\ \A q \in net' \ net : q \in Farewell(n)
    BY <1>4 DEF Leave, Gone, Reaching, MessengerTypeOK
  <2> QED
    BY <1>1, <1>2, <2>1, <2>2 DEF FromGone
<1>5. \A n \in Nodes : Start(n) \/ Query(n) \/ Interrupt(n)
                          => \A q \in net' \ net : q.kind # "redirect"
  BY DEF Start, Query, Interrupt, Gone, Reaching, Register
<1>6. \A n \in Nodes, m \in Messages : Type(n, m) \/ Overrun(n, m)
                          => \A q \in net' \ net : q.kind # "redirect"
  BY DEF Type, Overrun, Gone, Reaching, Message
<1>7. ASSUME NEW p \in net, HandlePacket(p) PROVE \A q \in net' \ net : q.kind # "redirect"
  <2>1. \A q \in Forward(p.to, p.from, p.mes) : q.kind # "redirect"
    BY DEF Forward, Message
  <2>2. Receive(p, {}) \/ Receive(p, Forward(p.to, p.from, p.mes))
    BY <1>7 DEF HandlePacket, DropUnknown, DropSeen, ShowAndForward, HandleRegister,
                HandleRedirect
  <2> QED
    BY <2>1, <2>2 DEF Receive, Reaching
<1>8. ASSUME NEW p \in net, Lose(p) PROVE net' \subseteq net
  BY <1>8 DEF Lose
<1>9. UNCHANGED vars => net' = net
  BY DEF vars
<1>10. \A m \in Messages : Author[m] \in Nodes
  BY MessengerAssumption
<1> QED
  BY <1>3, <1>4, <1>5, <1>6, <1>7, <1>8, <1>9, <1>10 DEF Next

\* The audience of a message are nodes that were started.
LEMMA PresentNext ==
  ASSUME MessengerTypeOK, Present, [Next]_vars
  PROVE  Present'
<1>1. \A n \in Nodes : state[n] # "off" => state'[n] # "off"
  BY StatesFollow DEF MessengerTypeOK
<1>2. \A m \in Messages : audience[m] \subseteq Nodes
  BY DEF MessengerTypeOK
<1>3. CASE audience' = audience
  BY <1>1, <1>2, <1>3 DEF Present
<1>4. ASSUME NEW m \in Messages, Type(Author[m], m) PROVE Present'
  BY <1>1, <1>2, <1>4 DEF Type, Up, Present, MessengerTypeOK
<1>5. \A p \in net : HandlePacket(p) \/ Lose(p) => audience' = audience
  BY DEF HandlePacket, DropUnknown, DropSeen, ShowAndForward, HandleRegister,
         HandleRedirect, Receive, Lose
<1>6. \A n \in Nodes : Start(n) \/ Query(n) \/ Leave(n) \/ Interrupt(n)
                          => audience' = audience
  BY DEF Start, Query, Leave, Interrupt, Gone
<1>7. \A m \in Messages : Overrun(Author[m], m) => audience' = audience
  BY DEF Overrun, Gone
<1>8. UNCHANGED vars => audience' = audience
  BY DEF vars
<1> QED
  BY <1>3, <1>4, <1>5, <1>6, <1>7, <1>8 DEF Next

\* m is not lost on a link between running nodes: it stays on its way until the
\* node at the end shows it, or has shown it before.
LEMMA PacketArrives ==
  ASSUME MessengerTypeOK, ShownOK, DigestsTellApart, [Next]_vars, lost' = 0, lost = 0,
         NEW a \in Nodes, NEW b \in Nodes, NEW m \in Messages,
         state'[b] = "up", Known(b, a), Message(a, b, m) \in net
  PROVE  m \in Range(shown'[b]) \/ Message(a, b, m) \in net'
<1> DEFINE q == Message(a, b, m)
<1>1. q.kind = "message" /\ q.from = a /\ q.to = b /\ q.mes = m
  BY DEF Message
<1> HIDE DEF q
<1>2. m \in Range(shown[b]) => m \in Range(shown'[b])
  BY ShownKept
<1>3. ASSUME NEW p \in net, HandlePacket(p), p # q PROVE q \in net'
  <2>1. \E sent : Receive(p, sent)
    BY <1>3 DEF HandlePacket, DropUnknown, DropSeen, ShowAndForward, HandleRegister,
                HandleRedirect
  <2> QED
    BY <1>3, <2>1 DEF Receive, q
<1>4. ASSUME HandlePacket(q) PROVE m \in Range(shown'[b])
  <2>1. DropSeen(q) \/ ShowAndForward(q)
    BY <1>1, <1>4 DEF HandlePacket, DropUnknown, HandleRegister, HandleRedirect
  <2>2. CASE DropSeen(q)
    BY <1>1, <1>2, <2>2, SeenMeansShown DEF DropSeen
  <2>3. CASE ShowAndForward(q)
    <3>1. shown' = [shown EXCEPT ![b] = Append(shown[b], m)]
      BY <1>1, <2>3 DEF ShowAndForward
    <3>2. m \in Range(Append(shown[b], m))
      BY AppendElements DEF MessengerTypeOK
    <3> QED
      BY <3>1, <3>2 DEF MessengerTypeOK
  <2> QED
    BY <2>1, <2>2, <2>3
<1>5. ASSUME NEW n \in Nodes, NEW sent, Gone(n, sent) PROVE q \in net'
  <2>1. n # b
    BY <1>5 DEF Gone, MessengerTypeOK
  <2> QED
    BY <1>1, <1>5, <2>1 DEF Gone, q
<1>6. \A n \in Nodes : Start(n) \/ Query(n) => q \in net'
  BY DEF Start, Query, q
<1>7. \A k \in Messages : Type(Author[k], k) => q \in net'
  BY DEF Type, q
<1>8. \A p \in net : ~Lose(p)
  BY DEF Lose
<1>9. UNCHANGED vars => q \in net'
  BY DEF vars, q
<1>10. \A k \in Messages : Author[k] \in Nodes
  BY MessengerAssumption
<1>11. q \in net
  BY DEF q
<1>12. m \in Range(shown'[b]) \/ q \in net'
  BY <1>3, <1>4, <1>5, <1>6, <1>7, <1>8, <1>9, <1>10, <1>11
     DEF Next, Leave, Interrupt, Overrun
<1> QED
  BY <1>12 DEF q

\* A node that shows m has had it from there, or passes it on.
LEMMA LinkCarries ==
  ASSUME MessengerTypeOK, ShownOK, DigestsTellApart, [Next]_vars, lost' = 0, lost = 0,
         NEW a \in Nodes, NEW b \in Nodes, NEW m \in Messages,
         state[b] = "up", state'[b] = "up", Linked(a, b), Reached(m, a, b)
  PROVE  Reached(m, a, b)'
<1> SUFFICES ASSUME m \in Range(shown'[a])
             PROVE  m \in Range(shown'[b]) \/ Message(a, b, m) \in net'
  BY DEF Reached, Message
<1>1. Range(shown[b]) \subseteq Range(shown'[b])
  BY ShownKept
<1>2. CASE m \in Range(shown[a])
  BY <1>1, <1>2, PacketArrives DEF Reached, Linked, Known
<1>3. CASE m \notin Range(shown[a])
  <2>1. PICK n \in Nodes, k \in Messages :
               /\ shown' = [shown EXCEPT ![n] = Append(@, k)]
               /\ \/ n = Author[k] /\ Type(n, k)
                  \/ \E p \in net : ShowAndForward(p) /\ n = p.to /\ k = p.mes
    BY <1>3, WhatIsShown
  <2>2. Range(Append(shown[n], k)) = Range(shown[n]) \union {k}
    BY AppendElements DEF MessengerTypeOK
  <2>3. a = n /\ m = k
    BY <1>3, <2>1, <2>2 DEF MessengerTypeOK
  <2>4. /\ Message(a, b, m).to = b
        /\ b \in Range(targets[a])
    BY DEF Message, Linked
  <2>5. CASE Type(a, m)
    BY <2>4, <2>5 DEF Type, Reaching
  <2>6. CASE \E p \in net : ShowAndForward(p) /\ a = p.to /\ m = p.mes
    <3>1. PICK p \in net : ShowAndForward(p) /\ a = p.to /\ m = p.mes
      BY <2>6
    <3>2. CASE p.from = b
      BY <1>1, <3>1, <3>2 DEF ShowAndForward, ShownOK
    <3>3. CASE p.from # b
      <4>1. Message(a, b, m) \in Forward(a, p.from, m)
        BY <2>4, <3>3 DEF Forward
      <4> QED
        BY <2>4, <3>1, <4>1 DEF ShowAndForward, Receive, Reaching
    <3> QED
      BY <3>2, <3>3
  <2> QED
    BY <2>1, <2>3, <2>5, <2>6
<1> QED
  BY <1>2, <1>3

\* What was lost stays lost.
LEMMA NothingFound ==
  ASSUME MessengerTypeOK, [Next]_vars, lost' = 0
  PROVE  lost = 0
<1>1. \A p \in net : Lose(p) => lost' # 0
  BY DEF Lose, MessengerTypeOK
<1>2. \A p \in net : HandlePacket(p) => lost' = lost
  BY DEF HandlePacket, DropUnknown, DropSeen, ShowAndForward, HandleRegister,
         HandleRedirect, Receive
<1>3. \A n \in Nodes : Start(n) \/ Query(n) \/ Leave(n) \/ Interrupt(n) => lost' = lost
  BY DEF Start, Query, Leave, Interrupt, Gone
<1>4. \A m \in Messages : Type(Author[m], m) \/ Overrun(Author[m], m) => lost' = lost
  BY DEF Type, Overrun, Gone
<1>5. UNCHANGED vars => lost' = lost
  BY DEF vars
<1> QED
  BY <1>1, <1>2, <1>3, <1>4, <1>5 DEF Next

\* A message has another audience only when it is typed.
LEMMA AudienceChanges ==
  ASSUME MessengerTypeOK, [Next]_vars, NEW m \in Messages, audience'[m] # audience[m]
  PROVE  Type(Author[m], m)
<1>1. \A p \in net : HandlePacket(p) \/ Lose(p) => audience' = audience
  BY DEF HandlePacket, DropUnknown, DropSeen, ShowAndForward, HandleRegister,
         HandleRedirect, Receive, Lose
<1>2. \A n \in Nodes : Start(n) \/ Query(n) \/ Leave(n) \/ Interrupt(n)
                          => audience' = audience
  BY DEF Start, Query, Leave, Interrupt, Gone
<1>3. \A k \in Messages : Overrun(Author[k], k) => audience' = audience
  BY DEF Overrun, Gone
<1>4. \A k \in Messages \ {m} : Type(Author[k], k) => audience'[m] = audience[m]
  BY DEF Type, MessengerTypeOK
<1>5. UNCHANGED vars => audience' = audience
  BY DEF vars
<1> QED
  BY <1>1, <1>2, <1>3, <1>4, <1>5 DEF Next

\* What a node has shown, its neighbours in the audience have shown, or it is on its way.
LEMMA FloodNext ==
  ASSUME MessengerTypeOK, ShownOK, FromGone, Present, FloodOK, DigestsTellApart, [Next]_vars
  PROVE  FloodOK'
<1> SUFFICES ASSUME lost' = 0, NEW m \in Messages,
                    audience'[m] # {}, audience'[m] \subseteq Up'
             PROVE  /\ Author[m] \in audience'[m] /\ m \in Range(shown'[Author[m]])
                    /\ \E L : /\ Spans(L, audience'[m])
                              /\ \A a, b \in audience'[m] :
                                    <<a, b>> \in L => Linked(a, b)' /\ Reached(m, a, b)'
  BY DEF FloodOK, Spans, Linked, Reached, Up, Message
<1>1. lost = 0 /\ Author[m] \in Nodes
  BY NothingFound, MessengerAssumption
<1>2. \A n \in Nodes : Range(shown[n]) \subseteq Range(shown'[n])
  BY ShownKept
<1>3. CASE audience'[m] = audience[m]
  <2> DEFINE A == audience[m]
  <2>1. A \subseteq Nodes /\ A \subseteq Up /\ A # {}
    <3>1. \A n \in A : n \in Nodes /\ state[n] # "off" /\ state'[n] = "up"
      BY <1>3 DEF Present, Up, MessengerTypeOK
    <3>2. \A n \in A : state[n] # "gone"
      BY <3>1, StatesFollow
    <3> QED
      BY <1>3, <3>1, <3>2 DEF Up, MessengerTypeOK
  <2>2. /\ Author[m] \in A /\ m \in Range(shown[Author[m]])
        /\ \E L : /\ Spans(L, A)
                  /\ \A a, b \in A : <<a, b>> \in L => Linked(a, b) /\ Reached(m, a, b)
    BY <1>1, <2>1 DEF FloodOK
  <2>3. PICK L : /\ Spans(L, A)
                 /\ \A a, b \in A : <<a, b>> \in L => Linked(a, b) /\ Reached(m, a, b)
    BY <2>2
  <2>4. ASSUME NEW a \in A, NEW b \in A, <<a, b>> \in L
        PROVE  Linked(a, b)' /\ Reached(m, a, b)'
    <3>1. /\ a \in Nodes /\ b \in Nodes
          /\ state[a] = "up" /\ state[b] = "up" /\ state'[b] = "up"
      BY <1>3, <2>1 DEF Up
    <3>2. Linked(a, b) /\ Reached(m, a, b)
      BY <2>3, <2>4
    <3>3. Reached(m, a, b)'
      BY <1>1, <3>1, <3>2, LinkCarries
    <3>4. b \in Range(targets'[a]) /\ a \in Range(targets'[b])
      BY <3>1, <3>2, TargetsKept DEF Linked
    <3> QED
      BY <3>3, <3>4 DEF Linked
  <2> HIDE DEF A
  <2>5. Spans(L, A) /\ \A a, b \in A : <<a, b>> \in L => Linked(a, b)' /\ Reached(m, a, b)'
    BY <2>3, <2>4
  <2>6. audience'[m] = A
    BY <1>3 DEF A
  <2>7. Author[m] \in A /\ m \in Range(shown'[Author[m]])
    BY <1>1, <1>2, <2>2
  <2> QED
    BY <2>5, <2>6, <2>7
<1>4. CASE audience'[m] # audience[m]
  <2>1. Type(Author[m], m)
    BY <1>4, AudienceChanges
  <2>2. /\ Settled /\ Connected /\ audience'[m] = Up
        /\ Author[m] \in Up /\ m \notin Range(shown[Author[m]])
        /\ state' = state /\ targets' = targets
    BY <2>1 DEF Type, MessengerTypeOK
  <2> DEFINE L == { l \in Up \X Up : Linked(l[1], l[2]) }
  <2>3. Spans(L, Up)
    BY <2>2 DEF Spans, Connected, Linked
  <2>4. \A n \in Nodes : m \notin Range(shown[n])
    BY <2>2 DEF ShownOK
  <2>5. shown' = [shown EXCEPT ![Author[m]] = Append(shown[Author[m]], m)]
    BY <2>1 DEF Type
  <2>6. m \in Range(shown'[Author[m]])
    <3>1. m \in Range(Append(shown[Author[m]], m))
      BY <1>1, AppendElements DEF MessengerTypeOK
    <3> QED
      BY <1>1, <2>5, <3>1 DEF MessengerTypeOK
  <2>7. ASSUME NEW a \in Up, NEW b \in Up, <<a, b>> \in L
        PROVE  Linked(a, b)' /\ Reached(m, a, b)'
    <3>1. Linked(a, b) /\ a \in Nodes
      BY <2>7 DEF Up
    <3>2. Linked(a, b)'
      BY <2>2, <3>1 DEF Linked
    <3>3. CASE a = Author[m]
      <4>1. Message(a, b, m).to = b /\ state[b] = "up"
        BY DEF Message, Up
      <4>2. Message(a, b, m) \in net'
        BY <2>1, <3>1, <3>3, <4>1 DEF Type, Reaching, Linked
      <4> QED
        BY <3>2, <4>2 DEF Reached, Message
    <3>4. CASE a # Author[m]
      <4>1. m \notin Range(shown'[a])
        BY <2>4, <2>5, <3>1, <3>4 DEF MessengerTypeOK
      <4> QED
        BY <3>2, <4>1 DEF Reached
    <3> QED
      BY <3>3, <3>4
  <2> HIDE DEF L
  <2> QED
    BY <2>2, <2>3, <2>6, <2>7
<1> QED
  BY <1>3, <1>4

FloodInv == MessengerTypeOK /\ ShownOK /\ FromGone /\ Present /\ FloodOK

\* The invariant of the flood holds at first,
LEMMA FloodInvInit ==
  Init => FloodInv
<1> SUFFICES ASSUME Init PROVE FloodInv
  OBVIOUS
<1>1. MessengerTypeOK
  BY TypeInit
<1>2. ShownOK
  <2>1. \A n \in Nodes : Range(shown[n]) = {}
    BY DEF Init, Range
  <2> QED
    BY <2>1 DEF Init, ShownOK
<1> QED
  BY <1>1, <1>2 DEF Init, FloodInv, FromGone, Present, FloodOK

\* and is kept by every step.
LEMMA FloodInvNext ==
  DigestsTellApart /\ FloodInv /\ [Next]_vars => FloodInv'
BY TypeNext, ShownNext, FromGoneNext, PresentNext, FloodNext DEF FloodInv

\* With nothing under way, the message is shown everywhere in its audience.
LEMMA NobodyLeftOut ==
  FloodInv => Delivered
<1> SUFFICES ASSUME FloodInv, net = {}, lost = 0,
                    NEW m \in Messages, audience[m] \subseteq Up,
                    NEW n \in audience[m]
             PROVE  m \in Range(shown[n])
  BY DEF Delivered
<1> DEFINE A == audience[m]
           S == { a \in A : m \in Range(shown[a]) }
<1>1. /\ Author[m] \in A /\ m \in Range(shown[Author[m]])
      /\ \E L : /\ Spans(L, A)
                /\ \A a, b \in A : <<a, b>> \in L => Linked(a, b) /\ Reached(m, a, b)
  BY DEF FloodInv, FloodOK
<1>2. PICK L : /\ Spans(L, A)
               /\ \A a, b \in A : <<a, b>> \in L => Linked(a, b) /\ Reached(m, a, b)
  BY <1>1
<1>3. \A a, b \in A : <<a, b>> \in L /\ m \in Range(shown[a]) => m \in Range(shown[b])
  BY <1>2 DEF Reached
<1>4. S \in SUBSET A /\ S # {}
  BY <1>1
<1>5. ASSUME S # A PROVE FALSE
  <2>1. PICK a \in S, b \in A \ S : <<a, b>> \in L
    BY <1>2, <1>4, <1>5 DEF Spans
  <2> QED
    BY <1>3, <2>1
<1> QED
  BY <1>5

\* However nodes come and go and packets are reordered or repeated, in a flood
\* that has ended without loss a message has been shown at all the nodes of the
\* whole mesh it was typed in, if none of them has left: the nodes that discard
\* it as seen (hw3/messenger.c:275) have shown it, and their neighbours have it.
THEOREM MessagesReachTheirAudience ==
  ASSUME DigestsTellApart
  PROVE  Spec => []Delivered
BY FloodInvInit, FloodInvNext, NobodyLeftOut, PTL DEF Spec
-----------------------------------------------------------------------------
(* Messages are shown once.                                                *)

\* No copy of a message comes to a node that has shown MAX_DIGESTS others since.
CopiesAreRecent ==
    \A p \in net :
        p.kind = "message" =>
            \A q \in DOMAIN shown[p.to] :
                shown[p.to][q] = p.mes => q > Len(shown[p.to]) - MAX_DIGESTS

\* Nothing is typed in the turn in which the last slot was filled.
RecordHasRoom == \A m \in Messages : Type(Author[m], m) => latest[Author[m]] < MAX_DIGESTS

\* The record is a ring: it has the digests of the last messages shown, each at
\* the place of its number, and latest is the place of the next one.
RecordOK ==
    \A n \in Nodes :
        /\ latest[n] % MAX_DIGESTS = Len(shown[n]) % MAX_DIGESTS
        /\ \A q \in DOMAIN shown[n] :
              q > Len(shown[n]) - MAX_DIGESTS
              => digests[n][(q - 1) % MAX_DIGESTS] = Digest[shown[n][q]]

\* Remainders count round the ring, and numbers less than a turn apart differ.
LEMMA Remainders ==
  ASSUME NEW K \in Nat \ {0}, NEW a \in Nat, NEW b \in Nat
  PROVE  /\ a % K \in 0 .. K - 1 /\ (a % K) % K = a % K
         /\ a < K => a % K = a
         /\ a % K = b % K => (a + 1) % K = (b + 1) % K
         /\ a < b /\ b - a < K => a % K # b % K
<1> DEFINE After(p) == IF p + 1 < K THEN p + 1 ELSE 0
<1>1. ASSUME NEW k \in Nat PROVE (k + 1) % K = After(k % K)
  <2> DEFINE v == k \div K
             p == k % K
  <2>1. v \in Nat /\ p \in 0 .. K - 1 /\ k = v * K + p
    BY Division
  <2> HIDE DEF v, p
  <2>2. v * K \in Nat /\ (v + 1) * K = v * K + K
    BY <2>1, Products
  <2>3. CASE p + 1 < K
    <3>1. (v * K + (p + 1)) % K = p + 1
      BY <2>1, <2>3, QuotientIs
    <3>2. k + 1 = v * K + (p + 1)
      BY <2>1, <2>2
    <3> QED
      BY <2>3, <3>1, <3>2 DEF p
  <2>4. CASE p + 1 = K
    <3>1. ((v + 1) * K + 0) % K = 0
      BY <2>1, QuotientIs
    <3>2. k + 1 = (v + 1) * K + 0
      BY <2>1, <2>2, <2>4
    <3> QED
      BY <2>4, <3>1, <3>2 DEF p
  <2> QED
    BY <2>1, <2>3, <2>4
<1>2. \A p \in 0 .. K - 1 : p % K = p
  <2> SUFFICES ASSUME NEW p \in 0 .. K - 1 PROVE p % K = p
    OBVIOUS
  <2>1. (0 * K + p) % K = p /\ 0 * K + p = p
    BY QuotientIs
  <2> QED
    BY <2>1
<1>4. a % K \in 0 .. K - 1
  BY Division
<1>5. a < K => a \in 0 .. K - 1
  OBVIOUS
<1>3. ASSUME a < b, b - a < K, a % K = b % K PROVE FALSE
  <2> DEFINE v == a \div K
             w == b \div K
             p == a % K
  <2>1. v \in Nat /\ w \in Nat /\ p \in 0 .. K - 1 /\ a = v * K + p /\ b = w * K + p
    BY <1>3, Division
  <2> HIDE DEF v, w, p
  <2>2. /\ v * K \in Nat /\ w * K \in Nat /\ (v + 1) * K = v * K + K
        /\ v < w => (v + 1) * K <= w * K
        /\ w <= v => w * K <= v * K
    BY <2>1, Products
  <2> QED
    BY <1>3, <2>1, <2>2
<1> QED
  BY <1>1, <1>2, <1>3, <1>4, <1>5

\* A copy that is recent has its digest in the record.
LEMMA NewOnly ==
  ASSUME MessengerTypeOK, RecordOK, CopiesAreRecent, NEW p \in net, ShowAndForward(p)
  PROVE  p.mes \notin Range(shown[p.to])
<1> SUFFICES ASSUME p.mes \in Range(shown[p.to]) PROVE FALSE
  OBVIOUS
<1>1. p.to \in Nodes /\ p.mes \in Messages /\ p.kind = "message"
  BY PacketFields DEF ShowAndForward, MessengerTypeOK
<1>2. PICK q \in DOMAIN shown[p.to] : shown[p.to][q] = p.mes
  BY DEF Range
<1>3. q > Len(shown[p.to]) - MAX_DIGESTS
  BY <1>1, <1>2 DEF CopiesAreRecent
<1>4. digests[p.to][(q - 1) % MAX_DIGESTS] = Digest[p.mes]
  BY <1>1, <1>2, <1>3 DEF RecordOK
<1>5. q - 1 \in Nat
  <2>1. shown[p.to] \in Seq(Messages)
    BY <1>1 DEF MessengerTypeOK
  <2> QED
    BY <2>1
<1>6. (q - 1) % MAX_DIGESTS \in 0 .. MAX_DIGESTS - 1
  BY <1>5, MessengerAssumption, Remainders
<1>7. messageSeen(p.to, p.mes)
  BY <1>4, <1>6 DEF messageSeen
<1> QED
  BY <1>7 DEF ShowAndForward

\* With room for it, the digest of a message takes the place of its number.
LEMMA RecordShown ==
  ASSUME MessengerTypeOK, RecordOK, NEW n \in Nodes, NEW m \in Messages,
         shown' = [shown EXCEPT ![n] = Append(@, m)], Record(n, m),
         latest[n] < MAX_DIGESTS
  PROVE  RecordOK'
<1> DEFINE K == MAX_DIGESTS
           s == shown[n]
           r == Append(s, m)
           l == Len(s)
           v == latest[n]
<1>0. latest[n] % MAX_DIGESTS = Len(shown[n]) % MAX_DIGESTS
  BY DEF RecordOK
<1>1. /\ K \in Nat \ {0} /\ s \in Seq(Messages) /\ l \in Nat
      /\ v \in 0 .. K - 1 /\ v % K = l % K
  <2>1. MAX_DIGESTS \in Nat \ {0} /\ shown[n] \in Seq(Messages)
        /\ latest[n] \in 0 .. MAX_DIGESTS
    BY MessengerAssumption DEF MessengerTypeOK
  <2>2. Len(shown[n]) \in Nat /\ latest[n] \in 0 .. MAX_DIGESTS - 1
    BY <2>1
  <2> QED
    BY <1>0, <2>1, <2>2
<1>2. v = l % K /\ v \in Nat /\ l % K \in 0 .. K - 1
  <2>1. v \in Nat /\ v < K
    BY <1>1
  <2>2. v % K = v /\ l % K \in 0 .. K - 1
    BY <1>1, <2>1, Remainders
  <2> QED
    BY <1>1, <2>1, <2>2
<1>3. \A q \in DOMAIN s : q > l - K => digests[n][(q - 1) % K] = Digest[s[q]]
  BY DEF RecordOK
<1>4. /\ shown'[n] = r /\ \A k \in Nodes \ {n} : shown'[k] = shown[k]
  BY DEF MessengerTypeOK
<1>5. digests' = [digests EXCEPT ![n][v] = Digest[m]] /\ Wrapped(n, v + 1)
  BY DEF Record
<1> HIDE DEF s
<1>6. /\ Len(r) = l + 1 /\ r[l + 1] = m /\ DOMAIN r = 1 .. l + 1 /\ DOMAIN s = 1 .. l
      /\ \A q \in 1 .. l : r[q] = s[q]
  BY <1>1, AppendProperties
<1> HIDE DEF K, r, l, v
<1>7. /\ digests'[n][v] = Digest[m]
      /\ \A i \in 0 .. K - 1 : i # v => digests'[n][i] = digests[n][i]
      /\ \A k \in Nodes \ {n} : digests'[k] = digests[k]
  BY <1>1, <1>5 DEF MessengerTypeOK, K
<1>8. /\ latest'[n] = v + 1 \/ latest'[n] = (v + 1) % K
      /\ \A k \in Nodes \ {n} : latest'[k] = latest[k]
  BY <1>5 DEF Wrapped, MessengerTypeOK, K
<1>9. latest'[n] % K = (l + 1) % K
  <2>1. (v + 1) % K = (l + 1) % K
    BY <1>1, <1>2, Remainders
  <2>2. ((v + 1) % K) % K = (v + 1) % K
    BY <1>1, <1>2, Remainders
  <2> QED
    BY <1>8, <2>1, <2>2
<1> DEFINE Kept(q) == digests'[n][(q - 1) % K] = Digest[r[q]]
<1>10. ASSUME NEW q \in 1 .. l + 1, q > l + 1 - K
       PROVE  Kept(q)
  <2>1. CASE q = l + 1
    <3>1. q - 1 = l
      BY <1>1, <2>1
    <3> QED
      BY <1>2, <1>6, <1>7, <2>1, <3>1
  <2>2. CASE q # l + 1
    <3>1. q \in 1 .. l /\ q > l - K /\ q - 1 \in Nat /\ q - 1 < l /\ l - (q - 1) < K
      BY <1>1, <1>10, <2>2
    <3>2. (q - 1) % K # l % K /\ (q - 1) % K \in 0 .. K - 1
      <4> DEFINE i == q - 1
      <4>1. i \in Nat /\ i < l /\ l - i < K
        BY <3>1
      <4> HIDE DEF i
      <4>2. i % K # l % K /\ i % K \in 0 .. K - 1
        BY <1>1, <4>1, Remainders
      <4> QED
        BY <4>2 DEF i
    <3>3. digests'[n][(q - 1) % K] = digests[n][(q - 1) % K]
      BY <1>2, <1>7, <3>2
    <3> QED
      BY <1>3, <1>6, <3>1, <3>3
  <2> QED
    BY <2>1, <2>2
<1>11. \A k \in Nodes \ {n} :
         /\ latest'[k] % K = Len(shown'[k]) % K
         /\ \A q \in DOMAIN shown'[k] :
               q > Len(shown'[k]) - K
               => digests'[k][(q - 1) % K] = Digest[shown'[k][q]]
  BY <1>4, <1>7, <1>8 DEF RecordOK, K
<1>12. /\ latest'[n] % K = Len(shown'[n]) % K
       /\ \A q \in DOMAIN shown'[n] :
             q > Len(shown'[n]) - K
             => digests'[n][(q - 1) % K] = Digest[shown'[n][q]]
  <2> HIDE DEF Kept
  <2>1. ASSUME NEW q \in DOMAIN r, q > Len(r) - K PROVE Kept(q)
    <3>1. q \in 1 .. l + 1 /\ q > l + 1 - K
      BY <1>1, <1>6, <2>1
    <3> QED
      BY <1>10, <3>1
  <2> USE DEF Kept
  <2>2. latest'[n] % K = Len(r) % K
    BY <1>6, <1>9
  <2> QED
    BY <1>4, <2>1, <2>2
<1> QED
  BY <1>11, <1>12 DEF RecordOK, K

\* The record goes round with what is shown.
LEMMA RecordNext ==
  ASSUME MessengerTypeOK, RecordOK, [Next]_vars, [RecordHasRoom]_vars
  PROVE  RecordOK'
<1>1. MAX_DIGESTS \in Nat \ {0} /\ \A n \in Nodes : latest[n] \in Nat
  BY MessengerAssumption DEF MessengerTypeOK
<1>2. CASE UNCHANGED vars
  BY <1>2 DEF vars, nodeVars, RecordOK
<1>3. ASSUME shown' = shown, digests' = digests,
             latest' = latest \/ \E n \in Nodes : Wrapped(n, latest[n])
      PROVE  RecordOK'
  <2>1. \A k \in Nodes : latest'[k] = latest[k] \/ latest'[k] = latest[k] % MAX_DIGESTS
    BY <1>3 DEF Wrapped, MessengerTypeOK
  <2>2. \A k \in Nodes : (latest[k] % MAX_DIGESTS) % MAX_DIGESTS = latest[k] % MAX_DIGESTS
    BY <1>1, Remainders
  <2>3. \A k \in Nodes : latest'[k] % MAX_DIGESTS = latest[k] % MAX_DIGESTS
    BY <2>1, <2>2
  <2> QED
    BY <1>3, <2>3 DEF RecordOK
<1>4. ASSUME NEW n \in Nodes, NEW m \in Messages, RecordHasRoom,
             \/ n = Author[m] /\ Type(n, m)
             \/ \E p \in net : ShowAndForward(p) /\ n = p.to /\ m = p.mes
      PROVE  latest[n] < MAX_DIGESTS
  <2>1. CASE n = Author[m] /\ Type(n, m)
    BY <1>4, <2>1 DEF RecordHasRoom
  <2>2. CASE \E p \in net : ShowAndForward(p) /\ n = p.to /\ m = p.mes
    BY <2>2 DEF ShowAndForward, Receive, MessengerTypeOK
  <2> QED
    BY <1>4, <2>1, <2>2
<1> QED
  BY <1>2, <1>3, <1>4, WhatIsShown, RecordShown

RecordInv == MessengerTypeOK /\ ShownOK /\ RecordOK

\* The invariant of the record holds at first.
LEMMA RecordInvInit ==
  Init => RecordInv
<1> SUFFICES ASSUME Init PROVE RecordInv
  OBVIOUS
<1>1. MessengerTypeOK /\ ShownOK
  BY FloodInvInit DEF FloodInv
<1>2. \A n \in Nodes : shown[n] = <<>> /\ latest[n] = 0
  BY DEF Init
<1>3. RecordOK
  <2>1. DOMAIN <<>> = {}
    OBVIOUS
  <2>2. \A n \in Nodes : latest[n] = Len(shown[n])
    BY <1>2
  <2> QED
    BY <1>2, <2>1, <2>2 DEF RecordOK
<1> QED
  BY <1>1, <1>3 DEF RecordInv

\* A step shows a message once at a node, or none.
LEMMA ShowsOnce ==
  ASSUME RecordInv, CopiesAreRecent, [Next]_vars
  PROVE  [Terminals!Next]_shown
<1>1. MessengerTypeOK /\ ShownOK /\ RecordOK
  BY DEF RecordInv
<1>2. CASE shown' = shown
  BY <1>2
<1>3. ASSUME NEW n \in Nodes, NEW m \in Messages,
             shown' = [shown EXCEPT ![n] = Append(@, m)],
             \/ n = Author[m] /\ Type(n, m)
             \/ \E p \in net : ShowAndForward(p) /\ n = p.to /\ m = p.mes
      PROVE  Terminals!Next
  <2>1. CASE n = Author[m] /\ Type(n, m)
    <3>1. Terminals!Show(Author[m], m)
      BY <1>3, <2>1 DEF Type, Terminals!Show, Terminals!Range, Range
    <3> QED
      BY <3>1 DEF Terminals!Next, Terminals!Type
  <2>2. CASE \E p \in net : ShowAndForward(p) /\ n = p.to /\ m = p.mes
    <3>1. PICK p \in net : ShowAndForward(p) /\ n = p.to /\ m = p.mes
      BY <2>2
    <3>2. m \notin Range(shown[n])
      BY <1>1, <3>1, NewOnly
    <3>3. p.from \in Nodes /\ m \in Range(shown[p.from])
      BY <1>1, <3>1, PacketFields DEF ShowAndForward, ShownOK, MessengerTypeOK
    <3>4. m \in Range(shown[Author[m]])
      BY <1>1, <3>3 DEF ShownOK
    <3>5. Terminals!Deliver(n, m)
      BY <1>3, <3>2, <3>4 DEF Terminals!Deliver, Terminals!Show, Terminals!Range, Range
    <3> QED
      BY <3>5 DEF Terminals!Next
  <2> QED
    BY <1>3, <2>1, <2>2
<1> QED
  BY <1>1, <1>2, <1>3, WhatIsShown

\* A message is shown once at each node, after it was typed at its author,
\* however many are sent, whatever cycles the mesh has and however packets are
\* reordered or repeated (hw3/messenger.c:9-11), unless a copy comes after
\* MAX_DIGESTS other messages were shown, when the record has forgotten it, or
\* something is typed when the record is past its end (messenger.c:215, 404).
THEOREM MessagesAreShownOnce ==
  Spec /\ []CopiesAreRecent /\ [][RecordHasRoom]_vars => ImplementsBroadcast
<1>1. Init => Terminals!Init
  BY DEF Init, Terminals!Init
<1>2. RecordInv /\ [Next]_vars /\ [RecordHasRoom]_vars => RecordInv'
  BY TypeNext, ShownNext, RecordNext DEF RecordInv
<1>3. RecordInv /\ CopiesAreRecent /\ [Next]_vars => [Terminals!Next]_shown
  BY ShowsOnce
<1> QED
  BY <1>1, <1>2, <1>3, RecordInvInit, PTL DEF Spec, ImplementsBroadcast, Terminals!Spec
-----------------------------------------------------------------------------
(* The mesh is repaired, when nodes leave it one after the other.          *)

\* No packet is lost or comes twice, a node names another once on its command
\* line, and only one starts a mesh of its own.
OneMesh ==
    /\ FAULTS = 0
    /\ \A n \in Nodes : Distinct(Contacts[n])
    /\ \A n, k \in Nodes : Contacts[n] = <<>> /\ Contacts[k] = <<>> => n = k

Names(p, a, b) == p.kind = "redirect" /\ p.to = a /\ b \in Range(p.redirects)

\* b is a target of a, or a is about to hear of it.
Knows(a, b) ==
    \/ b \in Range(targets[a])
    \/ Register(b, a) \in net
    \/ \E p \in net : Names(p, a, b)

\* A registration is news to its receiver.
RegistersOK ==
    \A p \in net : p.kind = "register" =>
        /\ state[p.from] = "up" /\ state[p.to] = "up" /\ p.from # p.to
        /\ p.from \notin Range(targets[p.to])
        /\ \A q \in net : ~Names(q, p.to, p.from)

\* A redirection is from a node that has left, and names running nodes.
RedirectsOK ==
    \A p \in net : p.kind = "redirect" =>
        /\ state[p.from] = "gone" /\ state[p.to] = "up"
        /\ Range(p.redirects) \subseteq Up \ {p.to}

\* A target that has left is about to be replaced.
StaleOK ==
    \A a \in Up : \A b \in Range(targets[a]) :
        b \in Up \/ \E p \in net : p.kind = "redirect" /\ p.from = b /\ p.to = a

Mutual == \A a, b \in Up : Knows(a, b) => Knows(b, a)

Whole == \A S \in (SUBSET Up) \ {{}, Up} : \E a \in S, b \in Up \ S : Knows(a, b)

\* The node without contacts was the first.
Rooted ==
    \A r \in Nodes : Contacts[r] = <<>> /\ state[r] = "off" =>
        \A n \in Nodes : state[n] = "off"

MeshInv == /\ MessengerTypeOK /\ SlotsSuffice
           /\ RegistersOK /\ RedirectsOK /\ StaleOK /\ Mutual /\ Whole /\ Rooted

\* The invariant of the mesh holds at first.
LEMMA MeshInit ==
  ASSUME Init
  PROVE  MeshInv
<1>1. MessengerTypeOK
  BY TypeInit
<1>2. \A n \in Nodes : targets[n] = <<>> /\ state[n] = "off"
  BY DEF Init
<1>3. net = {} /\ Up = {}
  BY <1>2 DEF Init, Up
<1>4. SlotsSuffice
  BY <1>2 DEF SlotsSuffice, IsInjective, Range
<1>5. RegistersOK /\ RedirectsOK /\ StaleOK /\ Mutual /\ Whole /\ Rooted
  BY <1>2, <1>3 DEF RegistersOK, RedirectsOK, StaleOK, Mutual, Whole, Rooted
<1> QED
  BY <1>1, <1>4, <1>5 DEF MeshInv

\* Messages have no part in it.
LEMMA MessagesAside ==
  ASSUME MeshInv, MessengerTypeOK', state' = state, targets' = targets,
         \A p \in net \union net' : p.kind # "message" => p \in net /\ p \in net'
  PROVE  MeshInv'
<1>1. Up' = Up
  BY DEF Up
<1>2. ASSUME NEW a, NEW b PROVE Knows(a, b)' <=> Knows(a, b)
  <2>1. Register(b, a).kind # "message"
    BY DEF Register
  <2>2. Register(b, a) \in net' <=> Register(b, a) \in net
    BY <2>1
  <2>3. (\E p \in net' : Names(p, a, b)) <=> \E p \in net : Names(p, a, b)
    BY DEF Names
  <2>4. Register(b, a)' = Register(b, a)
    BY DEF Register
  <2> QED
    BY <2>2, <2>3 DEF Knows, Names, Register
<1>3. SlotsSuffice' /\ Rooted'
  BY DEF MeshInv, SlotsSuffice, Rooted
<1>4. RegistersOK'
  BY DEF MeshInv, RegistersOK, Names
<1>5. RedirectsOK'
  BY <1>1 DEF MeshInv, RedirectsOK
<1>6. StaleOK'
  BY <1>1 DEF MeshInv, StaleOK
<1>7. Mutual' /\ Whole'
  BY <1>1, <1>2 DEF MeshInv, Mutual, Whole
<1> QED
  BY <1>3, <1>4, <1>5, <1>6, <1>7 DEF MeshInv

\* A REGISTER is told by its two ends.
LEMMA RegisterIsRegister ==
  ASSUME NEW p \in Packets, p.kind = "register"
  PROVE  p = Register(p.from, p.to)
BY DEF Packets, Register

\* p is received, and comes only once.
LEMMA ReceivedOnce ==
  ASSUME MessengerTypeOK, FAULTS = 0, NEW p \in net, Receive(p, {})
  PROVE  net' = net \ {p} /\ state' = state
BY DEF Receive, Reaching, MessengerTypeOK

\* A REGISTER handled completes a link that is on its way.
LEMMA RegisterKeepsMesh ==
  ASSUME MeshInv, FAULTS = 0, NEW p \in net, HandleRegister(p), MessengerTypeOK'
  PROVE  MeshInv'
<1> DEFINE n == p.to
           x == p.from
<1>1. /\ p.kind = "register" /\ Receive(p, {})
      /\ targets' = [targets EXCEPT ![n] = Append(@, x)]
  BY DEF HandleRegister
<1>2. /\ MessengerTypeOK
      /\ p \in Packets /\ n \in Nodes /\ x \in Nodes /\ p = Register(x, n)
  BY <1>1, PacketFields, RegisterIsRegister DEF MeshInv, MessengerTypeOK
<1>3. /\ net' = net \ {p} /\ state' = state /\ Up' = Up
  BY <1>1, <1>2, ReceivedOnce DEF Up
<1>4. /\ x \in Up /\ n \in Up /\ x # n /\ x \notin Range(targets[n])
      /\ \A q \in net : ~Names(q, n, x)
  BY <1>1, <1>2 DEF MeshInv, RegistersOK, Up
<1> HIDE DEF n, x
<1>5. /\ Range(targets'[n]) = Range(targets[n]) \union {x}
      /\ IsInjective(targets'[n])
      /\ \A k \in Nodes \ {n} : targets'[k] = targets[k]
  <2>1. targets[n] \in Seq(Nodes) /\ Distinct(targets[n])
    BY <1>2 DEF MeshInv, SlotsSuffice, IsInjective, Distinct, MessengerTypeOK
  <2>2. /\ Range(Append(targets[n], x)) = Range(targets[n]) \union {x}
        /\ Distinct(Append(targets[n], x))
    BY <1>2, <1>4, <2>1, AppendElements
  <2>3. targets'[n] = Append(targets[n], x)
    BY <1>1, <1>2 DEF MessengerTypeOK
  <2> QED
    BY <1>1, <1>2, <2>2, <2>3 DEF IsInjective, Distinct, MessengerTypeOK
<1>6. SlotsSuffice'
  BY <1>4, <1>5 DEF MeshInv, SlotsSuffice
<1>7. RegistersOK'
  <2> SUFFICES ASSUME NEW q \in net', q.kind = "register"
               PROVE  /\ state'[q.from] = "up" /\ state'[q.to] = "up" /\ q.from # q.to
                      /\ q.from \notin Range(targets'[q.to])
                      /\ \A r \in net' : ~Names(r, q.to, q.from)
    BY DEF RegistersOK, Names
  <2>1. /\ state[q.from] = "up" /\ state[q.to] = "up" /\ q.from # q.to
        /\ q.from \notin Range(targets[q.to])
        /\ \A r \in net : ~Names(r, q.to, q.from)
    BY <1>3 DEF MeshInv, RegistersOK
  <2>2. q \in Packets /\ q.to \in Nodes /\ q = Register(q.from, q.to)
    BY <1>2, <1>3, PacketFields, RegisterIsRegister DEF MessengerTypeOK
  <2>3. q.to # n \/ q.from # x
    BY <1>2, <1>3, <2>2
  <2> QED
    BY <1>3, <1>5, <2>1, <2>2, <2>3
<1>8. RedirectsOK'
  BY <1>3 DEF MeshInv, RedirectsOK
<1>9. StaleOK'
  <2> SUFFICES ASSUME NEW a \in Up, NEW b \in Range(targets'[a]), b \notin Up
               PROVE  \E q \in net' : q.kind = "redirect" /\ q.from = b /\ q.to = a
    BY <1>3 DEF StaleOK
  <2>1. b \in Range(targets[a])
    BY <1>4, <1>5 DEF Up
  <2> QED
    BY <1>1, <1>3, <2>1 DEF MeshInv, StaleOK
<1>10. ASSUME NEW a \in Up, NEW b \in Up PROVE Knows(a, b)' <=> Knows(a, b)
  <2>1. b \in Range(targets'[a]) <=> b \in Range(targets[a]) \/ (a = n /\ b = x)
    BY <1>5 DEF Up
  <2>2. Register(b, a) \in net <=> Register(b, a) \in net' \/ (a = n /\ b = x)
    <3>1. Register(b, a) = Register(x, n) <=> a = n /\ b = x
      BY DEF Register
    <3> QED
      BY <1>2, <1>3, <3>1
  <2>3. (\E q \in net' : Names(q, a, b)) <=> \E q \in net : Names(q, a, b)
    BY <1>1, <1>3 DEF Names
  <2> QED
    BY <2>1, <2>2, <2>3 DEF Knows, Names, Register
<1>11. Mutual' /\ Whole'
  BY <1>3, <1>10 DEF MeshInv, Mutual, Whole
<1>12. Rooted'
  BY <1>3 DEF MeshInv, Rooted
<1> QED
  BY <1>6, <1>7, <1>8, <1>9, <1>11, <1>12 DEF MeshInv

\* A REDIRECT handled replaces the node that leaves by those it names.
LEMMA RedirectKeepsMesh ==
  ASSUME MeshInv, FAULTS = 0, NEW p \in net, HandleRedirect(p), MessengerTypeOK'
  PROVE  MeshInv'
<1> DEFINE n == p.to
           x == p.from
           rs == p.redirects
           w == Without(targets[n], x)
           ts == With(w, rs)
<1>1. /\ p.kind = "redirect" /\ Receive(p, {})
      /\ targets' = [targets EXCEPT ![n] = ts]
  BY DEF HandleRedirect
<1>2. /\ MessengerTypeOK /\ p \in Packets
      /\ n \in Nodes /\ x \in Nodes /\ rs \in Seq(Nodes)
  BY <1>1, PacketFields DEF MeshInv, MessengerTypeOK
<1>3. net' = net \ {p} /\ state' = state /\ Up' = Up
  BY <1>1, <1>2, ReceivedOnce DEF Up
<1>4. x \notin Up /\ n \in Up /\ Range(rs) \subseteq Up \ {n}
  BY <1>1, <1>2 DEF MeshInv, RedirectsOK, Up
<1>5. /\ Range(ts) = (Range(targets[n]) \ {x}) \union Range(rs)
      /\ Distinct(ts)
  <2>1. targets[n] \in Seq(Nodes) /\ Distinct(targets[n])
    BY <1>2 DEF MeshInv, SlotsSuffice, IsInjective, Distinct, MessengerTypeOK
  <2>2. /\ w \in Seq(Nodes) /\ Distinct(w)
        /\ Range(w) = Range(targets[n]) \ {x}
    <3>1. /\ w \in Seq(Nodes)
          /\ Range(w) \subseteq Range(targets[n])
          /\ Range(targets[n]) \ {x} \subseteq Range(w)
      BY <2>1, WithoutRange
    <3>2. Distinct(w) /\ x \notin Range(w)
      BY <2>1, WithoutDistinct
    <3> HIDE DEF w
    <3> QED
      BY <3>1, <3>2
  <2> HIDE DEF w, rs
  <2> QED
    BY <1>2, <2>2, WithElements
<1> HIDE DEF n, x, rs, w, ts
<1>6. /\ Range(targets'[n]) = (Range(targets[n]) \ {x}) \union Range(rs)
      /\ IsInjective(targets'[n])
      /\ \A k \in Nodes \ {n} : targets'[k] = targets[k]
  <2>1. targets'[n] = ts
    BY <1>1, <1>2 DEF MessengerTypeOK
  <2> QED
    BY <1>1, <1>2, <1>5, <2>1 DEF IsInjective, Distinct, MessengerTypeOK
<1>7. SlotsSuffice'
  BY <1>4, <1>6 DEF MeshInv, SlotsSuffice
<1>8. \A a, b : Names(p, a, b) <=> a = n /\ b \in Range(rs)
  BY <1>1 DEF Names, n, rs
<1>9. RegistersOK'
  <2> SUFFICES ASSUME NEW q \in net', q.kind = "register"
               PROVE  /\ state'[q.from] = "up" /\ state'[q.to] = "up" /\ q.from # q.to
                      /\ q.from \notin Range(targets'[q.to])
                      /\ \A r \in net' : ~Names(r, q.to, q.from)
    BY DEF RegistersOK, Names
  <2>1. /\ state[q.from] = "up" /\ state[q.to] = "up" /\ q.from # q.to
        /\ q.from \notin Range(targets[q.to])
        /\ \A r \in net : ~Names(r, q.to, q.from)
    BY <1>3 DEF MeshInv, RegistersOK
  <2>2. q.to \in Nodes
    BY <1>2, <1>3, PacketFields DEF MessengerTypeOK
  <2>3. ~Names(p, q.to, q.from)
    BY <2>1
  <2> QED
    BY <1>3, <1>6, <1>8, <2>1, <2>2, <2>3
<1>10. RedirectsOK'
  BY <1>3 DEF MeshInv, RedirectsOK
<1>11. StaleOK'
  <2> SUFFICES ASSUME NEW a \in Up, NEW b \in Range(targets'[a]), b \notin Up
               PROVE  \E q \in net' : q.kind = "redirect" /\ q.from = b /\ q.to = a
    BY <1>3 DEF StaleOK
  <2>1. b \in Range(targets[a]) /\ (a # n \/ b # x)
    BY <1>4, <1>6 DEF Up
  <2>2. PICK q \in net : q.kind = "redirect" /\ q.from = b /\ q.to = a
    BY <2>1 DEF MeshInv, StaleOK
  <2>3. q # p
    BY <2>1, <2>2 DEF n, x
  <2> QED
    BY <1>3, <2>2, <2>3
<1>12. ASSUME NEW a \in Up, NEW b \in Up PROVE Knows(a, b)' <=> Knows(a, b)
  <2>1. b \in Range(targets'[a]) <=> b \in Range(targets[a]) \/ (a = n /\ b \in Range(rs))
    BY <1>4, <1>6 DEF Up
  <2>2. Register(b, a) \in net <=> Register(b, a) \in net'
    BY <1>1, <1>3 DEF Register
  <2>3. (\E q \in net : Names(q, a, b)) <=> \/ \E q \in net' : Names(q, a, b)
                                            \/ a = n /\ b \in Range(rs)
    BY <1>3, <1>8
  <2> QED
    BY <2>1, <2>2, <2>3 DEF Knows, Names, Register
<1>13. Mutual' /\ Whole'
  BY <1>3, <1>12 DEF MeshInv, Mutual, Whole
<1>14. Rooted'
  BY <1>3 DEF MeshInv, Rooted
<1> QED
  BY <1>7, <1>9, <1>10, <1>11, <1>13, <1>14 DEF MeshInv

\* A node that starts joins the mesh through its contact.
LEMMA StartKeepsMesh ==
  ASSUME MeshInv, OneMesh, NEW n \in Nodes, Start(n), MessengerTypeOK'
  PROVE  MeshInv'
<1> DEFINE K == Range(Contacts[n])
<1>17. /\ MessengerTypeOK /\ state[n] = "off" /\ K \subseteq Up
      /\ state' = [state EXCEPT ![n] = "up"]
      /\ targets' = [targets EXCEPT ![n] = Contacts[n]]
      /\ net' = net \union { Register(n, k) : k \in K }
  BY DEF Start, MeshInv
<1>2. /\ Up' = Up \union {n} /\ n \notin Up
      /\ \A k \in Nodes \ {n} : state'[k] = state[k] /\ targets'[k] = targets[k]
      /\ state'[n] = "up" /\ Range(targets'[n]) = K /\ targets'[n] = Contacts[n]
  BY <1>17 DEF Up, MessengerTypeOK
<1> HIDE DEF K
<1>3. \A p \in net : p.to \in Nodes /\ p.from \in Nodes
  BY <1>17, PacketFields DEF MessengerTypeOK
<1>4. \A p \in net : p.kind # "message" => p.to \in Up /\ p.from # n
  <2>1. \A p \in net : p.kind # "message" => p.kind = "register" \/ p.kind = "redirect"
    BY <1>17, PacketFields DEF MessengerTypeOK
  <2> QED
    BY <1>17, <1>3, <2>1 DEF MeshInv, RegistersOK, RedirectsOK, Up
<1>5. \A p \in net : \A a : ~Names(p, a, n)
  BY <1>2 DEF MeshInv, RedirectsOK, Names
<1>6. \A a \in Up : n \notin Range(targets[a])
  BY <1>2, <1>4 DEF MeshInv, StaleOK
<1>7. ASSUME NEW p \in net' PROVE p \in net \/ \E k \in K : p = Register(n, k)
  BY <1>17
<1>8. \A q \in net' : \A a, b : Names(q, a, b) => q \in net
  BY <1>7 DEF Names, Register
<1>9. SlotsSuffice'
  <2>1. IsInjective(targets'[n]) /\ n \notin K
    BY <1>17, <1>2 DEF OneMesh, Distinct, IsInjective
  <2> QED
    BY <1>2, <2>1 DEF MeshInv, SlotsSuffice
<1>10. RegistersOK'
  <2> SUFFICES ASSUME NEW p \in net', p.kind = "register"
               PROVE  /\ state'[p.from] = "up" /\ state'[p.to] = "up" /\ p.from # p.to
                      /\ p.from \notin Range(targets'[p.to])
                      /\ \A q \in net' : ~Names(q, p.to, p.from)
    BY DEF RegistersOK, Names
  <2>1. CASE p \in net
    <3>1. /\ state[p.from] = "up" /\ state[p.to] = "up" /\ p.from # p.to
          /\ p.from \notin Range(targets[p.to])
          /\ \A q \in net : ~Names(q, p.to, p.from)
      BY <2>1 DEF MeshInv, RegistersOK
    <3> QED
      BY <1>17, <1>2, <1>3, <1>8, <2>1, <3>1
  <2>2. CASE \E k \in K : p = Register(n, k)
    <3>1. PICK k \in K : p = Register(n, k)
      BY <2>2
    <3>2. p.from = n /\ p.to = k /\ k \in Up /\ k \in Nodes /\ k # n
      BY <1>17, <1>2, <3>1 DEF Register, Up
    <3>3. n \notin Range(targets'[k])
      BY <1>2, <1>6, <3>2
    <3>4. \A q \in net' : ~Names(q, k, n)
      BY <1>5, <1>8
    <3> QED
      BY <1>2, <3>2, <3>3, <3>4 DEF Up
  <2> QED
    BY <1>7, <2>1, <2>2
<1>11. RedirectsOK'
  <2> SUFFICES ASSUME NEW p \in net', p.kind = "redirect"
               PROVE  /\ state'[p.from] = "gone" /\ state'[p.to] = "up"
                      /\ Range(p.redirects) \subseteq Up' \ {p.to}
    BY DEF RedirectsOK
  <2>1. p \in net
    BY <1>7 DEF Register
  <2>2. /\ state[p.from] = "gone" /\ state[p.to] = "up"
        /\ Range(p.redirects) \subseteq Up \ {p.to}
    BY <2>1 DEF MeshInv, RedirectsOK
  <2> QED
    BY <1>17, <1>2, <1>3, <2>1, <2>2
<1>12. StaleOK'
  <2> SUFFICES ASSUME NEW a \in Up', NEW b \in Range(targets'[a]), b \notin Up'
               PROVE  \E q \in net' : q.kind = "redirect" /\ q.from = b /\ q.to = a
    BY DEF StaleOK
  <2>1. a \in Up /\ b \in Range(targets[a]) /\ b \notin Up
    BY <1>17, <1>2 DEF Up
  <2> QED
    BY <1>17, <2>1 DEF MeshInv, StaleOK
<1>13. ASSUME NEW a \in Up', NEW b \in Up'
       PROVE  Knows(a, b)' <=> \/ a \in Up /\ b \in Up /\ Knows(a, b)
                               \/ a = n /\ b \in K
                               \/ b = n /\ a \in K
  <2>1. b \in Range(targets'[a]) <=> \/ a \in Up /\ b \in Up /\ b \in Range(targets[a])
                                     \/ a = n /\ b \in K
    BY <1>17, <1>2, <1>6 DEF Up
  <2>2. Register(b, a) \in net' <=> \/ a \in Up /\ b \in Up /\ Register(b, a) \in net
                                    \/ b = n /\ a \in K
    <3>1. /\ Register(b, a).kind = "register"
          /\ Register(b, a).from = b /\ Register(b, a).to = a
          /\ \A k : Register(b, a) = Register(n, k) => b = n /\ a = k
      BY DEF Register
    <3>2. Register(b, a) \in net => a \in Up /\ b \in Up
      BY <1>2, <1>4, <3>1
    <3> QED
      BY <1>17, <3>1, <3>2
  <2>3. (\E q \in net' : Names(q, a, b)) <=>
            a \in Up /\ b \in Up /\ \E q \in net : Names(q, a, b)
    <3>1. \A q \in net : Names(q, a, b) => a \in Up /\ b \in Up
      BY <1>4 DEF Names, MeshInv, RedirectsOK
    <3> QED
      BY <1>17, <1>8, <3>1
  <2> QED
    BY <2>1, <2>2, <2>3 DEF Knows, Names, Register
<1>14. Mutual'
  BY <1>13 DEF MeshInv, Mutual
<1>15. Whole'
  <2> SUFFICES ASSUME NEW S \in (SUBSET Up') \ {{}, Up'}
               PROVE  \E a \in S, b \in Up' \ S : Knows(a, b)'
    BY DEF Whole
  <2>1. PICK k \in K : TRUE
    <3>1. Up # {}
      BY <1>2
    <3>2. Contacts[n] # <<>>
      BY <1>17, <3>1 DEF MeshInv, Rooted, Up
    <3>3. Contacts[n] \in Seq(Nodes)
      BY MessengerAssumption
    <3>4. 1 \in DOMAIN Contacts[n]
      BY <3>2, <3>3
    <3> QED
      BY <3>4 DEF K, Range
  <2>2. k \in Up /\ k \in Up' /\ n \in Up' /\ k # n
    BY <1>17, <1>2
  <2>3. CASE n \in S /\ k \notin S
    BY <1>13, <2>2, <2>3
  <2>4. CASE n \notin S /\ k \in S
    BY <1>13, <2>2, <2>4
  <2>5. CASE n \in S /\ k \in S
    <3>1. S \ {n} \in (SUBSET Up) \ {{}, Up}
      BY <1>2, <2>2, <2>5
    <3>2. PICK a \in S \ {n}, b \in Up \ (S \ {n}) : Knows(a, b)
      BY <3>1 DEF MeshInv, Whole
    <3>3. a \in Up /\ a \in Up' /\ b \in Up' \ S
      BY <1>2, <2>5, <3>2
    <3> QED
      BY <1>13, <3>2, <3>3
  <2>6. CASE n \notin S /\ k \notin S
    <3>1. S \in (SUBSET Up) \ {{}, Up}
      BY <1>2, <2>2, <2>6
    <3>2. PICK a \in S, b \in Up \ S : Knows(a, b)
      BY <3>1 DEF MeshInv, Whole
    <3> QED
      BY <1>2, <1>13, <3>1, <3>2
  <2> QED
    BY <2>3, <2>4, <2>5, <2>6
<1>16. Rooted'
  <2> SUFFICES ASSUME NEW r \in Nodes, Contacts[r] = <<>>, state'[r] = "off"
               PROVE  FALSE
    BY DEF Rooted
  <2>1. r # n /\ state[r] = "off"
    BY <1>2
  <2>2. Up = {}
    BY <2>1 DEF MeshInv, Rooted, Up
  <2>3. Contacts[n] = <<>>
    <3>1. Contacts[n] \in Seq(Nodes) /\ Range(Contacts[n]) = {}
      BY <1>17, <2>2, MessengerAssumption DEF K
    <3>2. 1 \notin DOMAIN Contacts[n]
      BY <3>1 DEF Range
    <3>3. /\ DOMAIN Contacts[n] = 1 .. Len(Contacts[n]) /\ Len(Contacts[n]) \in Nat
          /\ Len(Contacts[n]) = 0 => Contacts[n] = <<>>
      BY <3>1
    <3> QED
      BY <3>2, <3>3
  <2> QED
    BY <2>1, <2>3 DEF OneMesh
<1> QED
  BY <1>9, <1>10, <1>11, <1>12, <1>14, <1>15, <1>16 DEF MeshInv

\* Whom a REDIRECT to one node names.
LEMMA RedirectNames ==
  ASSUME NEW n, NEW a, NEW b
  PROVE  /\ Redirect(n, a, <<b>>).kind = "redirect"
         /\ Redirect(n, a, <<b>>).from = n /\ Redirect(n, a, <<b>>).to = a
         /\ Range(Redirect(n, a, <<b>>).redirects) = {b}
         /\ \A c, d : Names(Redirect(n, a, <<b>>), c, d) <=> c = a /\ d = b
<1>17. Range(<<b>>) = {b}
  BY DEF Range
<1> QED
  BY <1>17 DEF Redirect, Names

\* The first target of a node that leaves and the others are named to each other.
LEMMA FarewellLinks ==
  ASSUME MessengerTypeOK, SlotsSuffice, NEW n \in Nodes
  PROVE  /\ \A q \in Farewell(n) :
               /\ q.kind = "redirect" /\ q.from = n /\ q.to \in Range(targets[n])
               /\ Range(q.redirects) \subseteq Range(targets[n]) \ {q.to}
         /\ \A d \in Range(targets[n]) : \E q \in Farewell(n) : q.to = d
         /\ \A q \in Farewell(n) : \A a, b :
               Names(q, a, b) => \E r \in Farewell(n) : Names(r, b, a)
         /\ \A T : \A d \in Range(targets[n]) \cap T, e \in Range(targets[n]) \ T :
               \E a \in Range(targets[n]) \cap T, b \in Range(targets[n]) \ T :
                  \E q \in Farewell(n) : Names(q, a, b)
<1> DEFINE ts == targets[n]
           f == ts[1]
<1>1. /\ ts \in Seq(Nodes) /\ DOMAIN ts = 1 .. Len(ts) /\ Len(ts) \in Nat
      /\ \A i, k \in 1 .. Len(ts) : ts[i] = ts[k] => i = k
  <2>1. ts \in Seq(Nodes) /\ IsInjective(ts)
    BY DEF MessengerTypeOK, SlotsSuffice
  <2> QED
    BY <2>1 DEF IsInjective
<1>3. CASE Len(ts) = 1
  <2>1. Farewell(n) = { Redirect(n, f, <<>>) } /\ Range(ts) = {f}
    <3>1. DOMAIN ts = {1}
      BY <1>1, <1>3
    <3> QED
      BY <1>3, <3>1 DEF Farewell, Range
  <2>2. /\ Redirect(n, f, <<>>).kind = "redirect" /\ Redirect(n, f, <<>>).from = n
        /\ Redirect(n, f, <<>>).to = f /\ Range(Redirect(n, f, <<>>).redirects) = {}
    BY DEF Redirect, Range
  <2>3. \A a, b : ~Names(Redirect(n, f, <<>>), a, b)
    BY <2>2 DEF Names
  <2> HIDE DEF f, ts
  <2> QED
    BY <2>1, <2>2, <2>3 DEF ts
<1>4. CASE Len(ts) # 1
  <2> DEFINE One(i) == Redirect(n, f, <<ts[i]>>)
             Other(i) == Redirect(n, ts[i], <<f>>)
  <2>1. /\ \A q \in Farewell(n) : \E i \in 2 .. Len(ts) : q = One(i) \/ q = Other(i)
        /\ \A i \in 2 .. Len(ts) : One(i) \in Farewell(n) /\ Other(i) \in Farewell(n)
    BY <1>4 DEF Farewell
  <2> HIDE DEF ts
  <2>2. \A i \in 2 .. Len(ts) :
           /\ i \in 1 .. Len(ts) /\ 1 \in 1 .. Len(ts)
           /\ ts[i] \in Range(ts) /\ f \in Range(ts) /\ ts[i] # f
    BY <1>1 DEF Range
  <2>3. \A d \in Range(ts) : d = f \/ \E i \in 2 .. Len(ts) : d = ts[i]
    <3> SUFFICES ASSUME NEW k \in 1 .. Len(ts), k # 1 PROVE k \in 2 .. Len(ts)
      BY <1>1 DEF Range
    <3> QED
      BY <1>1
  <2>4. Range(ts) # {} => 2 \in 2 .. Len(ts)
    <3>1. Len(ts) = 0 => Range(ts) = {}
      BY <1>1 DEF Range
    <3>2. Len(ts) # 0 => 2 \in 2 .. Len(ts)
      BY <1>1, <1>4
    <3> QED
      BY <3>1, <3>2
  <2> HIDE DEF f
  <2>5. \A i : One(i).kind = "redirect" /\ One(i).from = n /\ One(i).to = f
    BY RedirectNames
  <2>6. \A i : Range(One(i).redirects) = {ts[i]}
    BY RedirectNames
  <2>7. \A i, c, d : Names(One(i), c, d) <=> c = f /\ d = ts[i]
    BY RedirectNames
  <2>8. \A i : Other(i).kind = "redirect" /\ Other(i).from = n /\ Other(i).to = ts[i]
    BY RedirectNames
  <2>9. \A i : Range(Other(i).redirects) = {f}
    BY RedirectNames
  <2>10. \A i, c, d : Names(Other(i), c, d) <=> c = ts[i] /\ d = f
    BY RedirectNames
  <2> HIDE DEF One, Other
  <2>11. \A q \in Farewell(n) :
           /\ q.kind = "redirect" /\ q.from = n /\ q.to \in Range(ts)
           /\ Range(q.redirects) \subseteq Range(ts) \ {q.to}
    <3> SUFFICES ASSUME NEW q \in Farewell(n)
                 PROVE  /\ q.kind = "redirect" /\ q.from = n /\ q.to \in Range(ts)
                        /\ Range(q.redirects) \subseteq Range(ts) \ {q.to}
      OBVIOUS
    <3>1. PICK i \in 2 .. Len(ts) : q = One(i) \/ q = Other(i)
      BY <2>1
    <3>2. CASE q = One(i)
      BY <2>2, <2>5, <2>6, <3>2
    <3>3. CASE q = Other(i)
      BY <2>2, <2>8, <2>9, <3>3
    <3> QED
      BY <3>1, <3>2, <3>3
  <2>12. \A d \in Range(ts) : \E q \in Farewell(n) : q.to = d
    <3> SUFFICES ASSUME NEW d \in Range(ts) PROVE \E q \in Farewell(n) : q.to = d
      OBVIOUS
    <3>1. CASE d = f
      BY <2>1, <2>4, <2>5, <3>1
    <3>2. CASE d # f
      BY <2>1, <2>3, <2>8, <3>2
    <3> QED
      BY <3>1, <3>2
  <2>13. \A q \in Farewell(n) : \A a, b :
           Names(q, a, b) => \E r \in Farewell(n) : Names(r, b, a)
    <3> SUFFICES ASSUME NEW q \in Farewell(n), NEW a, NEW b, Names(q, a, b)
                 PROVE  \E r \in Farewell(n) : Names(r, b, a)
      OBVIOUS
    <3>1. PICK i \in 2 .. Len(ts) : q = One(i) \/ q = Other(i)
      BY <2>1
    <3>2. CASE q = One(i)
      BY <2>1, <2>7, <2>10, <3>2
    <3>3. CASE q = Other(i)
      BY <2>1, <2>7, <2>10, <3>3
    <3> QED
      BY <3>1, <3>2, <3>3
  <2>14. ASSUME NEW T, NEW d \in Range(ts) \cap T, NEW e \in Range(ts) \ T
        PROVE  \E a \in Range(ts) \cap T, b \in Range(ts) \ T :
                  \E q \in Farewell(n) : Names(q, a, b)
    <3>1. CASE f \in T
      <4>1. PICK i \in 2 .. Len(ts) : e = ts[i]
        BY <2>3, <3>1
      <4> QED
        BY <2>1, <2>2, <2>7, <3>1, <4>1
    <3>2. CASE f \notin T
      <4>1. PICK i \in 2 .. Len(ts) : d = ts[i]
        BY <2>3, <3>2
      <4> QED
        BY <2>1, <2>2, <2>10, <3>2, <4>1
    <3> QED
      BY <3>1, <3>2
  <2> QED
    BY <2>11, <2>12, <2>13, <2>14 DEF ts
<1> QED
  BY <1>3, <1>4

\* A node that leaves names its first neighbour to the others, and them to it.
LEMMA LeaveKeepsMesh ==
  ASSUME MeshInv, Settled, NEW n \in Nodes, Leave(n), MessengerTypeOK'
  PROVE  MeshInv'
<1> DEFINE D == Range(targets[n])
<1>1. /\ MessengerTypeOK /\ SlotsSuffice /\ n \in Up
      /\ state' = [state EXCEPT ![n] = "gone"] /\ targets' = targets
      /\ net' = { p \in net \union Reaching(Farewell(n)) : p.to # n }
  BY DEF Leave, Gone, MeshInv
<1>2. /\ Up' = Up \ {n} /\ state'[n] = "gone"
      /\ \A k \in Nodes \ {n} : state'[k] = state[k]
  BY <1>1 DEF Up, MessengerTypeOK
<1>3. ASSUME NEW a, NEW b
      PROVE  Knows(a, b) <=> b \in Range(targets[a])
  BY DEF Knows, Settled, Register, Names
<1>4. \A a \in Up : Range(targets[a]) \subseteq Up
  BY DEF MeshInv, StaleOK, Settled
<1>5. D \subseteq Up' /\ \A d \in D : d \in Nodes /\ state[d] = "up" /\ d # n
  BY <1>1, <1>2, <1>4 DEF Up, SlotsSuffice
<1> HIDE DEF D
<1>6. /\ \A q \in Farewell(n) : /\ q.kind = "redirect" /\ q.from = n /\ q.to \in D
                                /\ Range(q.redirects) \subseteq D \ {q.to}
      /\ \A d \in D : \E q \in Farewell(n) : q.to = d
      /\ \A q \in Farewell(n) : \A a, b : Names(q, a, b) => \E r \in Farewell(n) : Names(r, b, a)
      /\ \A T : \A d \in D \cap T, e \in D \ T :
            \E a \in D \cap T, b \in D \ T : \E q \in Farewell(n) : Names(q, a, b)
  BY <1>1, FarewellLinks DEF D
<1>7. /\ \A q \in net' : q.kind # "message" => q \in Farewell(n)
      /\ \A q \in Farewell(n) : q \in net'
  BY <1>1, <1>5, <1>6 DEF Settled, Reaching
<1>8. SlotsSuffice'
  BY <1>1 DEF SlotsSuffice
<1>9. RegistersOK'
  BY <1>6, <1>7 DEF RegistersOK
<1>10. RedirectsOK'
  <2> SUFFICES ASSUME NEW p \in net', p.kind = "redirect"
               PROVE  /\ state'[p.from] = "gone" /\ state'[p.to] = "up"
                      /\ Range(p.redirects) \subseteq Up' \ {p.to}
    BY DEF RedirectsOK
  <2>1. /\ p.from = n /\ p.to \in D /\ Range(p.redirects) \subseteq D \ {p.to}
    BY <1>6, <1>7
  <2> QED
    BY <1>2, <1>5, <2>1
<1>11. StaleOK'
  <2> SUFFICES ASSUME NEW a \in Up', NEW b \in Range(targets'[a]), b \notin Up'
               PROVE  \E q \in net' : q.kind = "redirect" /\ q.from = b /\ q.to = a
    BY DEF StaleOK
  <2>1. a \in Up /\ b = n
    BY <1>1, <1>2, <1>4
  <2>2. a \in D
    BY <1>1, <1>3, <2>1 DEF MeshInv, Mutual, D
  <2> QED
    BY <1>6, <1>7, <2>1, <2>2
<1>12. ASSUME NEW a \in Up', NEW b \in Up'
       PROVE  Knows(a, b)' <=> Knows(a, b) \/ \E q \in Farewell(n) : Names(q, a, b)
  <2>1. Register(b, a) \notin net'
    <3>1. Register(b, a).kind = "register"
      BY DEF Register
    <3> QED
      BY <1>6, <1>7, <3>1
  <2>2. (\E q \in net' : Names(q, a, b)) <=> \E q \in Farewell(n) : Names(q, a, b)
    BY <1>7 DEF Names
  <2> QED
    BY <1>1, <1>3, <2>1, <2>2 DEF Knows, Names, Register
<1>13. Mutual'
  BY <1>2, <1>6, <1>12 DEF MeshInv, Mutual
<1>14. Whole'
  <2> SUFFICES ASSUME NEW S \in (SUBSET Up') \ {{}, Up'}
               PROVE  \E a \in S, b \in Up' \ S : Knows(a, b)'
    BY DEF Whole
  <2>1. /\ S \in (SUBSET Up) \ {{}, Up}
        /\ S \union {n} \in (SUBSET Up) \ {{}, Up}
    BY <1>1, <1>2
  <2>2. PICK a \in S, b \in Up \ S : Knows(a, b)
    BY <2>1 DEF MeshInv, Whole
  <2>3. PICK c \in S \union {n}, d \in Up \ (S \union {n}) : Knows(c, d)
    BY <2>1 DEF MeshInv, Whole
  <2>4. CASE b # n
    BY <1>2, <1>12, <2>2, <2>4
  <2>5. CASE c # n
    BY <1>2, <1>12, <2>3, <2>5
  <2>6. CASE b = n /\ c = n
    <3>1. a \in D \cap S /\ d \in D \ S
      BY <1>1, <1>2, <1>3, <2>2, <2>3, <2>6 DEF MeshInv, Mutual, D
    <3>2. PICK x \in D \cap S, y \in D \ S : \E q \in Farewell(n) : Names(q, x, y)
      BY <1>6, <3>1
    <3> QED
      BY <1>5, <1>12, <3>2
  <2> QED
    BY <2>4, <2>5, <2>6
<1>15. Rooted'
  BY <1>1, <1>2 DEF MeshInv, Rooted, Up, MessengerTypeOK
<1> QED
  BY <1>8, <1>9, <1>10, <1>11, <1>13, <1>14, <1>15 DEF MeshInv

\* An orderly step is a step.
LEMMA OrderlyIsNext ==
  OrderlyNext => Next
BY DEF OrderlyNext, Next

\* Every orderly step keeps the invariant of the mesh.
LEMMA MeshNext ==
  OneMesh /\ MeshInv /\ [OrderlyNext]_vars => MeshInv'
<1> SUFFICES ASSUME OneMesh, MeshInv, [OrderlyNext]_vars PROVE MeshInv'
  OBVIOUS
<1>1. MessengerTypeOK /\ MessengerTypeOK' /\ FAULTS = 0
  BY OrderlyIsNext, TypeNext DEF MeshInv, OneMesh
<1>2. ASSUME NEW n \in Nodes, Start(n) PROVE MeshInv'
  BY <1>1, <1>2, StartKeepsMesh
<1>3. ASSUME NEW n \in Nodes, Settled, Leave(n) PROVE MeshInv'
  BY <1>1, <1>3, LeaveKeepsMesh
<1>4. ASSUME NEW n \in Nodes, Query(n) PROVE MeshInv'
  BY <1>1, <1>4, MessagesAside DEF Query
<1>5. ASSUME NEW m \in Messages, Type(Author[m], m) PROVE MeshInv'
  <2>1. \A p \in net \union net' : p.kind # "message" => p \in net /\ p \in net'
    BY <1>5 DEF Type, Reaching, Message
  <2>2. state' = state /\ targets' = targets
    BY <1>5 DEF Type
  <2> QED
    BY <1>1, <2>1, <2>2, MessagesAside
<1>6. ASSUME NEW p \in net, DropUnknown(p) \/ DropSeen(p) \/ ShowAndForward(p)
      PROVE  MeshInv'
  <2>1. /\ p.kind = "message" /\ targets' = targets
        /\ Receive(p, {}) \/ Receive(p, Forward(p.to, p.from, p.mes))
    BY <1>6 DEF DropUnknown, DropSeen, ShowAndForward
  <2>2. \A q \in Forward(p.to, p.from, p.mes) : q.kind = "message"
    BY DEF Forward, Message
  <2>3. \A q \in net \union net' : q.kind # "message" => q \in net /\ q \in net'
    BY <2>1, <2>2 DEF Receive, Reaching
  <2>4. state' = state
    BY <2>1 DEF Receive
  <2> QED
    BY <1>1, <2>1, <2>3, <2>4, MessagesAside
<1>7. ASSUME NEW p \in net, HandlePacket(p) PROVE MeshInv'
  BY <1>1, <1>6, <1>7, RegisterKeepsMesh, RedirectKeepsMesh DEF HandlePacket
<1>8. ASSUME UNCHANGED vars PROVE MeshInv'
  BY <1>1, <1>8, MessagesAside DEF vars, nodeVars
<1> QED
  BY <1>2, <1>3, <1>4, <1>5, <1>7, <1>8 DEF OrderlyNext

\* With nothing under way, the invariant says that the mesh is whole.
LEMMA SettledIsConnected ==
  MeshInv => MeshStaysConnected
<1> SUFFICES ASSUME MeshInv, Settled, NEW S \in (SUBSET Up) \ {{}, Up}
             PROVE  \E a \in S, b \in Up \ S : b \in Range(targets[a]) /\ a \in Range(targets[b])
  BY DEF MeshStaysConnected, Connected
<1>1. ASSUME NEW a, NEW b, Knows(a, b) PROVE b \in Range(targets[a])
  BY <1>1 DEF Knows, Settled, Register, Names
<1>2. PICK a \in S, b \in Up \ S : Knows(a, b)
  BY DEF MeshInv, Whole
<1>3. Knows(b, a)
  BY <1>2 DEF MeshInv, Mutual
<1> QED
  BY <1>1, <1>2, <1>3

\* The node that a leaving node makes its successor (hw3/messenger.c:57-71) ends up
\* linked to all its other neighbours, from both ends, whatever the order in which
\* the redirects arrive, and registrations of new nodes between them.
THEOREM MeshIsRepaired ==
  ASSUME OneMesh
  PROVE  OrderlySpec => []MeshStaysConnected
<1>1. Init => MeshInv
  BY MeshInit
<1> QED
  BY <1>1, MeshNext, SettledIsConnected, PTL DEF OrderlySpec

\* The slots of targets (hw3/messenger.c:308 and 359) never hold a node twice, or the
\* node itself: as many as there are other nodes suffice.
THEOREM OneSlotPerNeighbour ==
  ASSUME OneMesh
  PROVE  OrderlySpec => []SlotsSuffice
<1>1. Init => MeshInv
  BY MeshInit
<1>2. MeshInv => SlotsSuffice
  BY DEF MeshInv
<1> QED
  BY <1>1, <1>2, MeshNext, PTL DEF OrderlySpec
=============================================================================
