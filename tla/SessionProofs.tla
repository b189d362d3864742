--------------------------- MODULE SessionProofs ---------------------------
(***************************************************************************)
(* Theorems about the key-value nodes of hw5, for all sets of nodes,       *)
(* clients, keys and values and every number of faults.                    *)
(***************************************************************************)
EXTENDS Session, TLAPS

\* The command of client c, or the answer to it.
About(p, c) ==
    \/ p.kind \in {"put", "get", "del"} /\ p.from = c
    \/ p.kind \in {"ack", "got", "not"} /\ p.to = c

\* No packet is from, or to, a client that has not sent its command.
ClientsKnown ==
    \A c \in Clients, p \in net : About(p, c) => answer[c].kind # "new"

\* A packet says what its client, or the node that answers, has to say.
WellFormed(p) ==
    /\ p.kind \in {"put", "get", "del"} =>
           /\ p.from \in Clients /\ p.kind = Op[p.from] /\ p.to = Target[p.from]
           /\ p.key = Key[p.from] /\ (p.kind = "put" => p.value = Value[p.from])
    /\ p.kind = "sput" => p.from \in Nodes /\ p.to \in Nodes
    /\ p.kind \in {"ack", "got", "not"} =>
           /\ p.to \in Clients /\ p.from = Target[p.to] /\ p.key = Key[p.to]
           /\ Op[p.to] = IF p.kind = "ack" THEN "put" ELSE "get"

PacketsOK == \A p \in net : p \in Packets /\ WellFormed(p)

\* Packets go to those who listen.
Heard(p) == p.to \in up \/ (p.to \in Clients /\ answer[p.to].kind = "waiting")

StateOK == SessionTypeOK /\ PacketsOK /\ ClientsKnown
-----------------------------------------------------------------------------
(* Types, and who has a packet under way.                                  *)

LEMMA ReachingIsHeard ==
  ASSUME NEW ps PROVE Reaching(ps) = { p \in ps : Heard(p) }
  BY DEF Reaching, Heard

\* Every packet under way has someone to hear it, and is as its kind has it.
LEMMA AllHeard ==
  ASSUME StateOK, NEW p \in net
  PROVE  Heard(p) /\ p \in Packets /\ WellFormed(p)
  BY DEF StateOK, SessionTypeOK, PacketsOK, Reaching, Heard

\* The state before anything runs.
LEMMA InitState ==
  ASSUME Init PROVE StateOK
<1>1. Empty \in [Keys -> Values \union {None}]
  BY DEF Empty
<1>2. Reaching({}) = {}
  BY DEF Reaching
<1>3. log \in [Nodes -> Seq(Entries)]
  BY DEF Init
<1>4. answer \in [Clients -> [kind : {"new", "waiting", "timeout"}]]
  BY DEF Init, Without
<1>5. SessionTypeOK
  BY <1>1, <1>2, <1>3, <1>4, SessionAssumption DEF Init, SessionTypeOK
<1> QED
  BY <1>5 DEF Init, StateOK, PacketsOK, ClientsKnown

\* The command of client c.
Sent(c) == Packet(Op[c], c, Target[c], Key[c], IF Op[c] = "put" THEN Value[c] ELSE None)

\* What the three ways to send a command do.
LEMMA Sending ==
  ASSUME NEW c \in Clients, SendCommand(c)
  PROVE  /\ answer[c].kind = "new" /\ answer' = [answer EXCEPT ![c] = Without("waiting")]
         /\ net' = net \union Reaching({ Sent(c) })
         /\ acked' = [acked EXCEPT ![c] = { d \in Clients : Acked(d) }]
         /\ UNCHANGED <<up, primary, store, log, faults, twice, missed>>
         /\ raced' \in {raced, raced \union {Key[c]}}
         /\ Op[c] = "put" /\ PutUnderWay(Key[c]) => raced' = raced \union {Key[c]}
<1>1. CASE SendPut(c)
  BY <1>1 DEF SendPut, Send, Sent, nodeVars
<1>2. CASE SendGet(c) \/ SendDel(c)
  BY <1>2 DEF SendGet, SendDel, Send, Sent, nodeVars
<1> QED
  BY <1>1, <1>2 DEF SendCommand

\* The fields of a command.
LEMMA SentFields ==
  ASSUME NEW c \in Clients
  PROVE  /\ Sent(c).kind = Op[c] /\ Sent(c).from = c /\ Sent(c).to = Target[c]
         /\ Sent(c).key = Key[c] /\ (Op[c] = "put" => Sent(c).value = Value[c])
         /\ Op[c] \in {"put", "get", "del"}
BY SessionAssumption DEF Sent, Packet

\* A client that sends its command keeps the state sound.
LEMMA SendState ==
  ASSUME StateOK, NEW c \in Clients, SendCommand(c) PROVE StateOK'
<1> DEFINE q == Sent(c)
<1>1. /\ q.kind = Op[c] /\ q.from = c /\ q.to = Target[c] /\ q.key = Key[c]
      /\ (Op[c] = "put" => q.value = Value[c])
  BY SentFields
<1>2. q \in Packets /\ WellFormed(q)
  BY SessionAssumption, <1>1 DEF Sent, Packet, Packets, WellFormed
<1>3. /\ answer' = [answer EXCEPT ![c] = Without("waiting")]
      /\ net' = net \union { p \in {q} : Heard(p) }
      /\ answer[c].kind = "new"
  BY ReachingIsHeard, Sending
<1> HIDE DEF q
<1>5. About(q, c) /\ \A d \in Clients : About(q, d) => d = c
  BY <1>1, SessionAssumption DEF About
<1>6. PacketsOK'
  BY <1>2, <1>3 DEF StateOK, PacketsOK, WellFormed
<1>7. answer'[c].kind = "waiting" /\ \A d \in Clients \ {c} : answer'[d] = answer[d]
  BY <1>3 DEF StateOK, SessionTypeOK, Without
<1>8. ClientsKnown'
  BY <1>3, <1>5, <1>7 DEF StateOK, ClientsKnown, About
<1>9. \A p \in net' : Heard(p)'
  BY <1>3, <1>7, AllHeard, Sending, SessionAssumption DEF Heard
<1>10. SessionTypeOK'
  <2>1. answer' \in [Clients -> [kind : {"new", "waiting", "timeout"}] \union Packets]
    BY <1>3 DEF StateOK, SessionTypeOK, Without
  <2>2. net' \subseteq Packets /\ Reaching(net)' = net'
    BY <1>6, <1>9 DEF PacketsOK, Reaching, Heard
  <2>3. raced' \subseteq Keys /\ acked' \in [Clients -> SUBSET Clients]
    <3>1. { d \in Clients : Acked(d) } \in SUBSET Clients
      OBVIOUS
    <3>2. acked' \in [Clients -> SUBSET Clients]
      BY <3>1, Sending DEF StateOK, SessionTypeOK
    <3>3. Key[c] \in Keys
      BY SessionAssumption
    <3>4. raced' = raced \/ raced' = raced \union {Key[c]}
      BY Sending
    <3>5. raced \subseteq Keys
      BY DEF StateOK, SessionTypeOK
    <3> QED
      BY <3>2, <3>3, <3>4, <3>5
  <2> QED
    BY <2>1, <2>2, <2>3, Sending DEF StateOK, SessionTypeOK
<1> QED
  BY <1>6, <1>8, <1>10 DEF StateOK

\* A packet to a client is the answer to it.
LEMMA ToClient ==
  ASSUME StateOK, NEW p \in net, NEW c \in Clients, p.to = c
  PROVE  About(p, c) /\ p.kind \in {"ack", "got", "not"}
<1>1. p \in Packets /\ WellFormed(p)
  BY AllHeard
<1> QED
  BY <1>1, SessionAssumption DEF Packets, WellFormed, About

\* Losing packets keeps what is said of packets.
LEMMA FewerPackets ==
  ASSUME StateOK, net' \subseteq net,
         \A c \in Clients : answer[c].kind # "new" => answer'[c].kind # "new"
  PROVE  PacketsOK' /\ ClientsKnown'
  BY DEF StateOK, PacketsOK, ClientsKnown, WellFormed, About

\* If every packet has someone to hear it, Reaching keeps them all.
LEMMA HeardPackets ==
  ASSUME PacketsOK', \A p \in net' : Heard(p)'
  PROVE  net' \subseteq Packets /\ (Reaching(net) = net)'
  BY DEF PacketsOK, Reaching, Heard

\* So does a client that receives its answer,
LEMMA ReceiveState ==
  ASSUME StateOK, NEW c \in Clients, ReceiveAnswer(c) PROVE StateOK'
<1>1. PICK p \in net : p.to = c /\ answer' = [answer EXCEPT ![c] = p]
  BY DEF ReceiveAnswer
<1>2. p \in Packets /\ p.kind \in {"ack", "got", "not"}
  BY <1>1, AllHeard, ToClient
<1>3. net' \subseteq net /\ \A q \in net' : q.to # c
  BY DEF ReceiveAnswer
<1>4. answer' \in [Clients -> [kind : {"new", "waiting", "timeout"}] \union Packets]
      /\ answer'[c].kind # "new" /\ \A d \in Clients \ {c} : answer'[d] = answer[d]
  BY <1>1, <1>2 DEF StateOK, SessionTypeOK
<1>5. PacketsOK' /\ ClientsKnown'
  BY <1>3, <1>4, FewerPackets
<1>6. \A q \in net' : Heard(q)'
  BY <1>3, <1>4, AllHeard DEF Heard, ReceiveAnswer, nodeVars
<1> QED
  BY <1>4, <1>5, <1>6, HeardPackets DEF StateOK, SessionTypeOK, ReceiveAnswer, nodeVars

\* one that stops waiting,
LEMMA TimeoutState ==
  ASSUME StateOK, NEW c \in Clients, Timeout(c) PROVE StateOK'
<1>1. answer' \in [Clients -> [kind : {"new", "waiting", "timeout"}] \union Packets]
      /\ answer'[c].kind = "timeout" /\ \A d \in Clients \ {c} : answer'[d] = answer[d]
  BY DEF Timeout, StateOK, SessionTypeOK, Without
<1>2. net' \subseteq net /\ \A q \in net' : q.to # c
  BY DEF Timeout
<1>3. PacketsOK' /\ ClientsKnown'
  BY <1>1, <1>2, FewerPackets
<1>4. \A q \in net' : Heard(q)'
  BY <1>1, <1>2, AllHeard DEF Heard, Timeout, nodeVars
<1> QED
  BY <1>1, <1>3, <1>4, HeardPackets DEF StateOK, SessionTypeOK, Timeout, nodeVars

\* The answers stay as they are, and nothing new is sent.
LEMMA FewerKeepState ==
  ASSUME StateOK, net' \subseteq net, UNCHANGED answer,
         \A p \in net' : p.to \in up => p.to \in up'
  PROVE  /\ PacketsOK' /\ ClientsKnown'
         /\ net' \subseteq Packets /\ (Reaching(net) = net)'
<1>1. PacketsOK' /\ ClientsKnown'
  BY FewerPackets
<1>2. \A p \in net' : Heard(p)'
  BY AllHeard DEF Heard
<1> QED
  BY <1>1, <1>2, HeardPackets

\* Of what was under way a handled packet at most is gone.
LEMMA Keeps ==
  ASSUME StateOK, NEW p \in net, NEW r, Received(p, r)
  PROVE  /\ r \subseteq net /\ net \ {p} \subseteq r
         /\ faults' \in 0 .. FAULTS
         /\ twice \subseteq twice' /\ twice' \subseteq Values
         /\ p \in r /\ p.value \in Values => p.value \in twice'
<1>1. p \in Packets
  BY AllHeard
<1>2. p.value \in Values \union {None}
  BY <1>1 DEF Packets
<1> QED
  BY <1>2, SessionAssumption DEF Received, StateOK, SessionTypeOK

\* a packet that is lost or changes nothing at its node,
LEMMA QuietState ==
  ASSUME StateOK, NEW p \in net, Lose(p) \/ IgnoreSput(p) \/ HandleDel(p)
  PROVE  StateOK'
<1>1. /\ net' \subseteq net /\ UNCHANGED <<up, primary, store, log, answer, raced, acked>>
      /\ faults' \in 0 .. FAULTS /\ twice' \subseteq Values
  BY SessionAssumption, Keeps DEF Lose, IgnoreSput, HandleDel, nodeVars, StateOK, SessionTypeOK
<1>2. missed' \in [Nodes -> SUBSET Keys]
  <2>1. p \in Packets
    BY AllHeard
  <2>2. p.key \in Keys
    BY <2>1 DEF Packets
  <2>3. \A n \in Nodes : missed[n] \union {p.key} \in SUBSET Keys
    BY <2>2 DEF StateOK, SessionTypeOK
  <2>4. [missed EXCEPT ![p.to] = @ \union {p.key}] \in [Nodes -> SUBSET Keys]
    BY <2>3 DEF StateOK, SessionTypeOK
  <2> QED
    BY <2>4 DEF Lose, IgnoreSput, HandleDel, StateOK, SessionTypeOK
<1> QED
  BY <1>1, <1>2, FewerKeepState DEF StateOK, SessionTypeOK

\* a node that starts,
LEMMA StartState ==
  ASSUME StateOK, NEW n \in Nodes, Start(n) PROVE StateOK'
<1>1. PICK a \in Addresses(n) : primary' = [primary EXCEPT ![n] = a]
  BY DEF Start
<1>2. a \in Nodes \union {None} /\ (n \in Eth0 => a = n)
  BY DEF Addresses
<1>3. /\ primary' \in [Nodes -> Nodes \union {None}]
      /\ \A m \in up' \intersect Eth0 : primary'[m] = m
  BY <1>1, <1>2, SessionAssumption DEF Start, StateOK, SessionTypeOK
<1> QED
  BY <1>3, FewerKeepState DEF Start, StateOK, SessionTypeOK

\* a node that stops,
LEMMA StopState ==
  ASSUME StateOK, NEW n \in Nodes, Stop(n) PROVE StateOK'
<1>1. Empty \in [Keys -> Values \union {None}] /\ <<>> \in Seq(Entries)
  BY DEF Empty
<1>2. /\ log' \in [Nodes -> Seq(Entries)] /\ \A m \in Nodes \ up' : log'[m] = <<>>
      /\ store' \in [Nodes -> [Keys -> Values \union {None}]]
      /\ missed' \in [Nodes -> SUBSET Keys] /\ faults' \in 0 .. FAULTS
      /\ primary' \in [Nodes -> Nodes \union {None}]
      /\ \A m \in up' \intersect Eth0 : primary'[m] = m
  BY <1>1, SessionAssumption DEF Stop, StateOK, SessionTypeOK
<1>3. /\ net' \subseteq net /\ UNCHANGED <<answer, twice, raced, acked>>
      /\ up' \subseteq Nodes /\ \A p \in net' : p.to \in up => p.to \in up'
  BY DEF Stop, StateOK, SessionTypeOK
<1> QED
  BY <1>2, <1>3, FewerKeepState DEF StateOK, SessionTypeOK

\* A command, or a broadcast, is at a node that runs.
LEMMA ToNode ==
  ASSUME StateOK, NEW p \in net, p.kind \in {"put", "get", "del", "sput"}
  PROVE  p.to \in Nodes /\ p.to \in up /\ p.key \in Keys
<1>1. p \in Packets /\ WellFormed(p) /\ Heard(p)
  BY AllHeard
<1>2. p.to \in Nodes
  BY <1>1, SessionAssumption DEF WellFormed
<1> QED
  BY <1>1, <1>2, SessionAssumption DEF Heard, Packets

\* A value put is in the store, and comes last in the log.
LEMMA Stored ==
  ASSUME StateOK, NEW p \in net, p.kind \in {"put", "sput"},
         Put(p.to, p.key, p.value), Log(p)
  PROVE  /\ p.value \in Values /\ p.from \in Nodes \union Clients
         /\ store' \in [Nodes -> [Keys -> Values \union {None}]]
         /\ log' \in [Nodes -> Seq(Entries)] /\ \A n \in Nodes \ up : log'[n] = <<>>
         /\ \A n \in Nodes, k \in Keys :
                store'[n][k] = IF n = p.to /\ k = p.key THEN p.value ELSE store[n][k]
         /\ log'[p.to] = Append(log[p.to], [key |-> p.key, value |-> p.value,
                                            source |-> p.from])
         /\ \A n \in Nodes \ {p.to} : log'[n] = log[n]
<1>1. /\ p.to \in Nodes /\ p.to \in up /\ p.key \in Keys
      /\ p.value \in Values /\ p.from \in Nodes \union Clients
  BY ToNode, AllHeard DEF Packets
<1> DEFINE e == [key |-> p.key, value |-> p.value, source |-> p.from]
<1>2. e \in Entries
  BY <1>1 DEF Entries
<1> HIDE DEF e
<1>3. /\ log' \in [Nodes -> Seq(Entries)] /\ log'[p.to] = Append(log[p.to], e)
      /\ \A n \in Nodes \ {p.to} : log'[n] = log[n]
  <2>1. log' = [log EXCEPT ![p.to] = Append(@, e)]
    BY DEF Log, e
  <2>2. Append(log[p.to], e) \in Seq(Entries)
    BY <1>1, <1>2 DEF StateOK, SessionTypeOK
  <2> QED
    BY <1>1, <2>1, <2>2 DEF StateOK, SessionTypeOK
<1>4. /\ store' \in [Nodes -> [Keys -> Values \union {None}]]
      /\ \A n \in Nodes, k \in Keys :
             store'[n][k] = IF n = p.to /\ k = p.key THEN p.value ELSE store[n][k]
  BY <1>1 DEF Put, StateOK, SessionTypeOK
<1> QED
  BY <1>1, <1>3, <1>4 DEF StateOK, SessionTypeOK, e

\* The answer to client c joins what is under way.
LEMMA AnswerPackets ==
  ASSUME StateOK, NEW q \in net, NEW c \in Clients, About(q, c), NEW a, About(a, c),
         NEW sputs, \A p \in sputs : p.kind = "sput",
         \A p \in sputs \union {a} : p \in Packets /\ WellFormed(p),
         \A p \in net' : p \in net \/ p \in Reaching(sputs \union {a}),
         UNCHANGED <<up, answer>>
  PROVE  /\ PacketsOK' /\ ClientsKnown'
         /\ net' \subseteq Packets /\ (Reaching(net) = net)'
<1>1. \A p \in net' : p \in net \/ (p \in sputs \union {a} /\ Heard(p))
  BY ReachingIsHeard
<1>2. PacketsOK'
  BY <1>1, AllHeard DEF PacketsOK, WellFormed
<1>3. \A p \in net' : Heard(p)'
  BY <1>1, AllHeard DEF Heard
<1>4. a \in Packets /\ WellFormed(a) /\ \A d \in Clients : About(a, d) => d = c
  BY DEF About, WellFormed
<1>5. answer[c].kind # "new"
  BY DEF StateOK, ClientsKnown
<1>6. ASSUME NEW d \in Clients, NEW p \in net', About(p, d) PROVE answer[d].kind # "new"
  <2>1. CASE p \in net
    BY <1>6, <2>1 DEF StateOK, ClientsKnown
  <2>2. CASE p = a
    BY <1>4, <1>5, <1>6, <2>2
  <2> QED
    BY <1>1, <1>6, <2>1, <2>2 DEF About
<1>7. ClientsKnown'
  BY <1>6 DEF ClientsKnown, About
<1> QED
  BY <1>2, <1>3, <1>7, HeardPackets

\* a PUT,
LEMMA PutState ==
  ASSUME StateOK, NEW p \in net, HandlePut(p) PROVE StateOK'
<1> DEFINE a == Packet("ack", p.to, p.from, p.key, p.value)
           sputs == Broadcast(p.to, p.key, p.value)
<1>1. p.kind = "put" /\ p \in Packets /\ WellFormed(p)
  BY AllHeard DEF HandlePut
<1>2. p.to \in Nodes /\ p.from \in Clients /\ p.key \in Keys /\ p.value \in Values
  BY <1>1, ToNode, Stored DEF WellFormed, HandlePut
<1>3. a \in Packets /\ WellFormed(a) /\ About(a, p.from)
  BY <1>1, <1>2 DEF Packet, Packets, WellFormed, About
<1>4. \A q \in sputs : q.kind = "sput" /\ q \in Packets /\ WellFormed(q)
  BY <1>2 DEF Broadcast, Packet, Packets, WellFormed
<1>5. /\ \A q \in net' : q \in net \/ q \in Reaching(sputs \union {a})
      /\ UNCHANGED <<up, primary, answer, raced, acked>>
      /\ faults' \in 0 .. FAULTS /\ twice' \subseteq Values
  BY Keeps DEF HandlePut
<1>6. About(p, p.from)
  BY <1>1 DEF About
<1> HIDE DEF a, sputs
<1>7. PacketsOK' /\ ClientsKnown' /\ net' \subseteq Packets /\ (Reaching(net) = net)'
  <2>1. \A q \in sputs \union {a} : q \in Packets /\ WellFormed(q)
    BY <1>3, <1>4
  <2> QED
    BY <2>1, <1>2, <1>3, <1>4, <1>5, <1>6, AnswerPackets
<1>8. missed' \in [Nodes -> SUBSET Keys]
  BY <1>2 DEF HandlePut, StateOK, SessionTypeOK
<1> QED
  BY <1>1, <1>5, <1>7, <1>8, Stored DEF HandlePut, StateOK, SessionTypeOK

\* an SPUT,
LEMMA SputState ==
  ASSUME StateOK, NEW p \in net, HandleSput(p) PROVE StateOK'
<1>1. p.kind = "sput" /\ Put(p.to, p.key, p.value) /\ Log(p) /\ net' \subseteq net
      /\ UNCHANGED <<up, primary, answer, raced, acked>>
      /\ faults' \in 0 .. FAULTS /\ twice' \subseteq Values
  BY Keeps DEF HandleSput
<1>2. missed' \in [Nodes -> SUBSET Keys]
  BY DEF HandleSput, StateOK, SessionTypeOK
<1>3. /\ store' \in [Nodes -> [Keys -> Values \union {None}]]
      /\ log' \in [Nodes -> Seq(Entries)] /\ \A n \in Nodes \ up : log'[n] = <<>>
  BY <1>1, Stored
<1> QED
  BY <1>1, <1>2, <1>3, FewerKeepState DEF StateOK, SessionTypeOK

\* and a GET.
LEMMA GetState ==
  ASSUME StateOK, NEW p \in net, HandleGet(p) PROVE StateOK'
<1> DEFINE a == AnswerTo(p)
           sputs == {}
<1>1. p.kind = "get" /\ p \in Packets /\ WellFormed(p) /\ p.to \in Nodes /\ p.key \in Keys
  BY AllHeard, ToNode DEF HandleGet
<1>2. store[p.to][p.key] \in Values \union {None}
  BY <1>1 DEF StateOK, SessionTypeOK
<1>3. a \in Packets /\ WellFormed(a) /\ About(a, p.from) /\ About(p, p.from) /\ p.from \in Clients
  BY <1>1, <1>2 DEF AnswerTo, Packet, Packets, WellFormed, About
<1>4. /\ \A q \in net' : q \in net \/ q \in Reaching(sputs \union {a})
      /\ UNCHANGED <<up, primary, store, log, answer, raced, missed, acked>>
      /\ faults' \in 0 .. FAULTS /\ twice' \subseteq Values
  BY Keeps DEF HandleGet, nodeVars
<1>5. \A q \in sputs : q.kind = "sput"
  OBVIOUS
<1>6. \A q \in sputs \union {a} : q \in Packets /\ WellFormed(q)
  BY <1>3
<1> HIDE DEF a, sputs
<1>7. PacketsOK' /\ ClientsKnown' /\ net' \subseteq Packets /\ (Reaching(net) = net)'
  BY <1>3, <1>4, <1>5, <1>6, AnswerPackets
<1> QED
  BY <1>4, <1>7 DEF StateOK, SessionTypeOK

\* Every step keeps the state sound.
LEMMA NextKeepsState ==
  ASSUME StateOK, [Next]_vars PROVE StateOK'
<1>1. CASE \E c \in Clients : SendCommand(c) \/ ReceiveAnswer(c) \/ Timeout(c)
  BY <1>1, SendState, ReceiveState, TimeoutState
<1>2. CASE \E p \in net : HandlePacket(p) \/ Lose(p)
  BY <1>2, PutState, SputState, GetState, QuietState DEF HandlePacket
<1>3. CASE \E n \in Nodes : Start(n) \/ Stop(n)
  BY <1>3, StartState, StopState
<1>4. CASE UNCHANGED vars
  BY <1>4 DEF vars, nodeVars, StateOK, SessionTypeOK, PacketsOK, WellFormed, ClientsKnown,
              About, Reaching
<1> QED
  BY <1>1, <1>2, <1>3, <1>4 DEF Next
-----------------------------------------------------------------------------
(* What a step may do to the stores, the logs and the packets.             *)

\* p is a put, or a broadcast of another node, and is handled.
Stores(p) == HandlePut(p) \/ HandleSput(p)

\* The rest of the steps send no broadcast, and lose the log of a node that
\* stops, with its store.
LEMMA CalmSteps ==
  ASSUME StateOK, [Next]_vars, ~ \E p \in net : Stores(p)
  PROVE  /\ \A p \in net' : p.kind = "sput" => p \in net
         /\ \A n \in Nodes : \/ log'[n] = log[n] /\ store'[n] = store[n]
                             \/ log'[n] = <<>> /\ store'[n] = Empty
<1>1. CASE \E c \in Clients : SendCommand(c)
  <2>1. PICK c \in Clients : SendCommand(c)
    BY <1>1
  <2>2. Sent(c).kind # "sput"
    BY SentFields
  <2>3. \A p \in net' : p \in net \/ p = Sent(c)
    BY <2>1, Sending DEF Reaching
  <2> QED
    BY <2>1, <2>2, <2>3, Sending
<1>2. CASE \E c \in Clients : ReceiveAnswer(c) \/ Timeout(c)
  BY <1>2 DEF ReceiveAnswer, Timeout, nodeVars
<1>3. CASE \E p \in net : HandleGet(p)
  <2>1. PICK p \in net : HandleGet(p)
    BY <1>3
  <2>2. AnswerTo(p).kind # "sput"
    BY DEF AnswerTo, Packet
  <2>3. \A q \in net' : q \in net \/ q = AnswerTo(p)
    BY <2>1, Keeps DEF HandleGet, Reaching
  <2> QED
    BY <2>1, <2>2, <2>3 DEF HandleGet, nodeVars
<1>4. CASE \E p \in net : IgnoreSput(p) \/ HandleDel(p) \/ Lose(p)
  BY <1>4, Keeps DEF IgnoreSput, HandleDel, Lose, nodeVars
<1>5. CASE \E n \in Nodes : Start(n)
  BY <1>5 DEF Start
<1>6. CASE \E n \in Nodes : Stop(n)
  BY <1>6 DEF Stop, StateOK, SessionTypeOK
<1>7. CASE UNCHANGED vars
  BY <1>7 DEF vars, nodeVars
<1> QED
  BY <1>1, <1>2, <1>3, <1>4, <1>5, <1>6, <1>7 DEF Next, HandlePacket, Stores

\* A client that is done stays as it is.
LEMMA AnswersStay ==
  ASSUME StateOK, [Next]_vars, NEW c \in Clients
  PROVE  /\ answer[c].kind # "new" => answer'[c].kind # "new"
         /\ answer[c].kind \notin {"new", "waiting"} => answer'[c] = answer[c]
<1>1. CASE \E d \in Clients : SendCommand(d)
  BY <1>1, Sending DEF Without, StateOK, SessionTypeOK
<1>2. CASE \E d \in Clients : Timeout(d)
  BY <1>2 DEF Timeout, Without, StateOK, SessionTypeOK
<1>3. CASE \E d \in Clients : ReceiveAnswer(d)
  <2>1. PICK d \in Clients, p \in net : /\ answer[d].kind = "waiting"
                                        /\ answer' = [answer EXCEPT ![d] = p]
    BY <1>3 DEF ReceiveAnswer
  <2>2. p.kind # "new"
    BY <2>1, AllHeard DEF Packets
  <2> QED
    BY <2>1, <2>2 DEF StateOK, SessionTypeOK
<1>4. CASE UNCHANGED answer
  BY <1>4
<1> QED
  BY <1>1, <1>2, <1>3, <1>4 DEF Next, HandlePacket, HandlePut, HandleSput, HandleGet,
     HandleDel, IgnoreSput, Lose, Start, Stop, vars

\* The put of client d has been handled, or is lost, unless the network repeats it.
Spent(d) ==
    /\ answer[d].kind # "new"
    /\ Value[d] \in twice \/ \A q \in net : q.kind = "put" => q.from # d

\* What came twice did.
LEMMA TwiceStays ==
  ASSUME StateOK, [Next]_vars PROVE twice \subseteq twice'
<1>1. CASE \E c \in Clients : SendCommand(c)
  BY <1>1, Sending
<1>2. CASE \E p \in net : HandlePacket(p)
  BY <1>2, Keeps DEF HandlePacket, HandlePut, HandleSput, HandleGet, HandleDel, IgnoreSput
<1>3. CASE UNCHANGED twice
  BY <1>3
<1> QED
  BY <1>1, <1>2, <1>3 DEF Next, ReceiveAnswer, Timeout, Lose, Start, Stop, vars

\* What a client has used up stays used up.
LEMMA SpentStays ==
  ASSUME StateOK, [Next]_vars, NEW d \in Clients, Spent(d) PROVE Spent(d)'
<1>1. \A q \in net' : q.kind = "put" => q \in net \/ answer[q.from].kind = "new"
  <2>1. CASE \E c \in Clients : SendCommand(c)
    <3>1. PICK c \in Clients : SendCommand(c)
      BY <2>1
    <3>2. answer[c].kind = "new" /\ \A q \in net' : q \in net \/ q = Sent(c)
      BY <3>1, Sending DEF Reaching
    <3>3. Sent(c).from = c
      BY SentFields
    <3> QED
      BY <3>2, <3>3
  <2>2. CASE \E p \in net : HandleGet(p)
    <3>1. PICK p \in net : HandleGet(p)
      BY <2>2
    <3>2. AnswerTo(p).kind # "put"
      BY DEF AnswerTo, Packet
    <3>3. \A q \in net' : q \in net \/ q = AnswerTo(p)
      BY <3>1, Keeps DEF HandleGet, Reaching
    <3> QED
      BY <3>2, <3>3
  <2>3. CASE \E p \in net : HandlePut(p)
    <3>1. PICK p \in net : HandlePut(p)
      BY <2>3
    <3>2. \A q \in net' : q \in net \/ q.kind \in {"sput", "ack"}
      BY <3>1, Keeps DEF HandlePut, Reaching, Broadcast, Packet
    <3> QED
      BY <3>2
  <2>4. CASE net' \subseteq net
    BY <2>4
  <2>5. CASE \E p \in net : HandleSput(p) \/ HandleDel(p) \/ IgnoreSput(p)
    BY <2>5, Keeps DEF HandleSput, HandleDel, IgnoreSput
  <2> QED
    BY <2>1, <2>2, <2>3, <2>4, <2>5 DEF Next, HandlePacket, ReceiveAnswer, Timeout, Lose,
       Start, Stop, vars
<1> QED
  BY <1>1, AnswersStay, TwiceStays DEF Spent

-----------------------------------------------------------------------------
(* The store and the log.                                                  *)

\* StoreFollowsLog, of value v for key k and any log.
Follows(v, k, s) ==
    IF v = None
    THEN \A i \in DOMAIN s : s[i].key # k
    ELSE \E i \in DOMAIN s : /\ s[i].key = k /\ s[i].value = v
                             /\ \A j \in DOMAIN s : s[j].key = k => j <= i

\* A value follows its log when both are told of the same entry.
LEMMA AppendFollows ==
  ASSUME NEW s \in Seq(Entries), NEW e \in Entries, NEW k, NEW v, Follows(v, k, s)
  PROVE  Follows(IF e.key = k THEN e.value ELSE v, k, Append(s, e))
<1> DEFINE t == Append(s, e)
           n == Len(s)
<1>1. /\ n \in Nat /\ DOMAIN s = 1 .. n /\ DOMAIN t = 1 .. n + 1
      /\ t[n + 1] = e /\ \A i \in 1 .. n : t[i] = s[i]
  OBVIOUS
<1>2. e.value # None
  BY SessionAssumption DEF Entries
<1> HIDE DEF t, n
<1>3. CASE e.key = k
  <2>1. n + 1 \in DOMAIN t /\ t[n + 1].key = k /\ t[n + 1].value = e.value
    BY <1>1, <1>3
  <2>2. \A j \in DOMAIN t : j <= n + 1
    BY <1>1
  <2>3. Follows(e.value, k, t)
    BY <1>2, <2>1, <2>2 DEF Follows
  <2> QED
    BY <1>3, <2>3 DEF t
<1>4. CASE e.key # k
  <2>1. \A j \in DOMAIN t : t[j].key = k => j \in DOMAIN s /\ t[j] = s[j]
    <3> SUFFICES ASSUME NEW j \in DOMAIN t, t[j].key = k PROVE j \in DOMAIN s /\ t[j] = s[j]
      OBVIOUS
    <3>1. j \in 1 .. n + 1 /\ j # n + 1
      BY <1>1, <1>4
    <3>2. j \in 1 .. n
      BY <1>1, <3>1
    <3> QED
      BY <1>1, <3>2
  <2>2. \A i \in DOMAIN s : i \in DOMAIN t /\ t[i] = s[i]
    BY <1>1
  <2>3. Follows(v, k, t)
    BY <2>1, <2>2 DEF Follows
  <2> QED
    BY <1>4, <2>3 DEF t
<1> QED
  BY <1>3, <1>4

\* StoreFollowsLog, for one node and one key at a time.
LEMMA FollowsLog ==
  StoreFollowsLog <=> \A n \in Nodes, k \in Keys : Follows(store[n][k], k, log[n])
BY DEF StoreFollowsLog, IsLast, Follows

\* Stores keep following their logs.
LEMMA StoresFollow ==
  ASSUME StateOK, StoreFollowsLog, [Next]_vars PROVE StoreFollowsLog'
<1> SUFFICES ASSUME NEW n \in Nodes, NEW k \in Keys
             PROVE  Follows(store'[n][k], k, log'[n])
  BY DEF StoreFollowsLog, IsLast, Follows
<1>1. Follows(store[n][k], k, log[n])
  BY FollowsLog
<1>2. CASE \E p \in net : Stores(p)
  <2>1. PICK p \in net : Stores(p)
    BY <1>2
  <2> DEFINE e == [key |-> p.key, value |-> p.value, source |-> p.from]
  <2>2. /\ p.kind \in {"put", "sput"} /\ Put(p.to, p.key, p.value) /\ Log(p)
    BY <2>1 DEF Stores, HandlePut, HandleSput
  <2>3. p.value \in Values /\ p.from \in Nodes \union Clients /\ p.key \in Keys
    BY <2>2, Stored, ToNode
  <2>4. CASE n # p.to
    BY <1>1, <2>2, <2>4, Stored
  <2>5. CASE n = p.to
    <3>1. e \in Entries /\ log[n] \in Seq(Entries)
      BY <2>3 DEF Entries, StateOK, SessionTypeOK
    <3>2. log'[n] = Append(log[n], e) /\ e.key = p.key /\ e.value = p.value
      BY <2>2, <2>5, Stored
    <3>3. store'[n][k] = IF p.key = k THEN p.value ELSE store[n][k]
      BY <2>2, <2>5, Stored
    <3> HIDE DEF e
    <3>4. Follows(IF e.key = k THEN e.value ELSE store[n][k], k, Append(log[n], e))
      BY <1>1, <3>1, AppendFollows
    <3> QED
      BY <3>2, <3>3, <3>4
  <2> QED
    BY <2>4, <2>5
<1>3. CASE ~ \E p \in net : Stores(p)
  <2>1. Empty[k] = None
    BY DEF Empty
  <2>2. Follows(None, k, <<>>)
    BY DEF Follows
  <2> QED
    BY <1>1, <1>3, <2>1, <2>2, CalmSteps
<1> QED
  BY <1>2, <1>3
-----------------------------------------------------------------------------
(* Where the values of broadcasts and logs come from.                      *)

\* Client d has put value v for key k.
PutBy(d, k, v) == Op[d] = "put" /\ Key[d] = k /\ Value[d] = v /\ Spent(d)

SputsOK ==
    \A p \in net : p.kind = "sput" =>
        \E d \in Clients : PutBy(d, p.key, p.value) /\ Target[d] = p.from

\* Entry e of node n came from the client that put it, or from the node it was
\* put at; and from n itself only if n does not know its own address.
EntryOK(n, e) ==
    \/ e.source \in Clients /\ PutBy(e.source, e.key, e.value) /\ Target[e.source] = n
    \/ /\ e.source \in Nodes
       /\ \E d \in Clients : PutBy(d, e.key, e.value) /\ Target[d] = e.source
       /\ n \in Eth0 => e.source # n

LogsOK == \A n \in Nodes : \A i \in DOMAIN log[n] : EntryOK(n, log[n][i])

\* What is acked stays acked.
AckedOK == \A c \in Clients : \A d \in acked[c] : Acked(d)

\* Nobody else puts the value of c, and the network repeats no packet with it.
Single(c) == Fresh(c) /\ Value[c] \notin twice

\* A node that is yet to hear a broadcast has not logged it.
NotHeardBefore ==
    \A c \in Clients, p \in net :
        Single(c) /\ p.kind = "sput" /\ p.value = Value[c]
        => \A i \in DOMAIN log[p.to] :
               ~(log[p.to][i].value = Value[c] /\ log[p.to][i].source = p.from)

\* LoggedOnce, for each sender.
OncePerSource ==
    \A n \in Nodes, c \in Clients :
        Single(c) =>
            \A i, j \in DOMAIN log[n] :
                /\ log[n][i].value = Value[c] /\ log[n][j].value = Value[c]
                /\ log[n][i].source = log[n][j].source
                => i = j

\* A put that is acked, or about to be, is in the log of its node; or the node was
\* stopped since, and gets the value no more.
AckedIsLogged ==
    \A d \in Clients :
        Fresh(d) /\ (Acked(d) \/ \E p \in net : p.kind = "ack" /\ p.to = d) =>
            \/ \E i \in DOMAIN log[Target[d]] : log[Target[d]][i].value = Value[d]
            \/ \A p \in net : p.kind \in {"put", "sput"} /\ p.value = Value[d]
                             => p.to # Target[d]

HistoryOK ==
    SputsOK /\ LogsOK /\ AckedOK /\ OncePerSource /\ NotHeardBefore /\ AckedIsLogged

\* Who put what is not forgotten.
LEMMA PutByStays ==
  ASSUME StateOK, [Next]_vars, NEW d \in Clients, NEW k, NEW v, PutBy(d, k, v)
  PROVE  PutBy(d, k, v)'
BY SpentStays DEF PutBy

\* A packet is told by its fields.
LEMMA SamePacket ==
  ASSUME NEW p \in Packets, NEW q \in Packets, p.kind = q.kind, p.from = q.from,
         p.to = q.to, p.key = q.key, p.value = q.value
  PROVE  p = q
BY DEF Packets

\* The put that a node handles is the only one of its client, unless the network
\* repeats it.
LEMMA PutIsNew ==
  ASSUME StateOK, NEW p \in net, HandlePut(p)
  PROVE  /\ p.kind = "put" /\ p.from \in Clients /\ p.to = Target[p.from]
         /\ PutBy(p.from, p.key, p.value)'
         /\ p.value = Value[p.from] /\ p.key = Key[p.from]
         /\ p.value \notin twice => ~Spent(p.from)
<1>1. p.kind = "put" /\ WellFormed(p) /\ p \in Packets
  BY AllHeard DEF HandlePut
<1>2. /\ p.from \in Clients /\ Op[p.from] = "put" /\ p.to = Target[p.from]
      /\ p.key = Key[p.from] /\ p.value = Value[p.from] /\ p.value \in Values
  BY <1>1 DEF WellFormed, Packets
<1>3. answer[p.from].kind # "new" /\ answer' = answer
  BY <1>1, <1>2 DEF StateOK, ClientsKnown, About, HandlePut
<1>4. p.value \in twice' \/ \A q \in net' : q.kind = "put" => q.from # p.from
  <2>0. PICK r \in {net, net \ {p}} :
             /\ Received(p, r)
             /\ net' = r \union Reaching(Broadcast(p.to, p.key, p.value) \union
                                         { Packet("ack", p.to, p.from, p.key, p.value) })
    BY DEF HandlePut
  <2>1. Received(p, r) /\ \A q \in net' : q \in r \/ q.kind \in {"sput", "ack"}
    BY <2>0 DEF Reaching, Broadcast, Packet
  <2>2. CASE p \in r
    BY <1>2, <2>1, <2>2, Keeps
  <2>3. CASE p \notin r
    <3> SUFFICES ASSUME NEW q \in net', q.kind = "put", q.from = p.from PROVE FALSE
      OBVIOUS
    <3>1. q \in net /\ q # p
      BY <2>1, <2>3
    <3>2. q \in Packets /\ WellFormed(q)
      BY <3>1, AllHeard
    <3>3. q.to = p.to /\ q.key = p.key /\ q.value = p.value
      BY <1>2, <3>2 DEF WellFormed
    <3> QED
      BY <1>1, <3>1, <3>2, <3>3, SamePacket
  <2> QED
    BY <2>2, <2>3
<1> QED
  BY <1>1, <1>2, <1>3, <1>4 DEF PutBy, Spent

\* What is stored was put by a client.
LEMMA StoredIsPut ==
  ASSUME StateOK, SputsOK, [Next]_vars, NEW p \in net, Stores(p),
         NEW e, e.key = p.key, e.value = p.value, e.source = p.from
  PROVE  EntryOK(p.to, e)'
<1>1. CASE HandlePut(p)
  BY <1>1, PutIsNew DEF EntryOK, PutBy, Spent
<1>2. CASE HandleSput(p)
  <2>1. PICK d \in Clients : PutBy(d, p.key, p.value) /\ Target[d] = p.from
    BY <1>2 DEF SputsOK, HandleSput
  <2>2. PutBy(d, p.key, p.value)'
    BY <2>1, PutByStays
  <2>3. p.to \in Eth0 => p.from # p.to
    <3>1. p.to \in up /\ p.from # primary[p.to]
      BY <1>2, ToNode DEF HandleSput, OwnBroadcast
    <3> QED
      BY <3>1 DEF StateOK, SessionTypeOK
  <2>4. p.from \in Nodes
    BY <2>1, SessionAssumption
  <2> QED
    BY <2>1, <2>2, <2>3, <2>4 DEF EntryOK, PutBy, Spent
<1> QED
  BY <1>1, <1>2 DEF Stores

\* A handled put is broadcast from where it was put.
LEMMA NewSputs ==
  ASSUME StateOK, NEW p \in net, Stores(p), NEW q \in net', q.kind = "sput"
  PROVE  \/ q \in net
         \/ HandlePut(p) /\ q.from = p.to /\ q.key = p.key /\ q.value = p.value
BY Keeps DEF Stores, HandlePut, HandleSput, Reaching, Broadcast, Packet

\* Entry i of the log of node n is the one for p.
NewEntry(p, n, i) ==
    /\ Stores(p) /\ p.to = n /\ i = Len(log[n]) + 1
    /\ log'[n][i].key = p.key /\ log'[n][i].value = p.value
    /\ log'[n][i].source = p.from

\* A log is lost, or has what it had and at most one more entry.
LEMMA LogGrows ==
  ASSUME StateOK, [Next]_vars, NEW n \in Nodes
  PROVE  /\ \A i \in DOMAIN log'[n] : \/ i \in DOMAIN log[n] /\ log'[n][i] = log[n][i]
                                      \/ \E p \in net : NewEntry(p, n, i)
         /\ \/ log'[n] = <<>>
            \/ \A i \in DOMAIN log[n] : i \in DOMAIN log'[n] /\ log'[n][i] = log[n][i]
<1>1. CASE \E p \in net : Stores(p)
  <2>1. PICK p \in net : Stores(p)
    BY <1>1
  <2>2. p.kind \in {"put", "sput"} /\ Put(p.to, p.key, p.value) /\ Log(p)
    BY <2>1 DEF Stores, HandlePut, HandleSput
  <2>3. CASE p.to # n
    BY <2>2, <2>3, Stored
  <2>4. CASE p.to = n
    <3> DEFINE e == [key |-> p.key, value |-> p.value, source |-> p.from]
    <3>1. log[n] \in Seq(Entries) /\ log'[n] = Append(log[n], e)
          /\ e.key = p.key /\ e.value = p.value /\ e.source = p.from
      BY <2>2, <2>4, Stored DEF StateOK, SessionTypeOK
    <3> HIDE DEF e
    <3>2. /\ DOMAIN log'[n] = DOMAIN log[n] \union {Len(log[n]) + 1}
          /\ \A i \in DOMAIN log[n] : log'[n][i] = log[n][i]
          /\ log'[n][Len(log[n]) + 1] = e
      BY <3>1
    <3>3. \A i : i = Len(log[n]) + 1 => NewEntry(p, n, i)
      BY <2>1, <2>4, <3>1, <3>2 DEF NewEntry
    <3> QED
      BY <3>2, <3>3
  <2> QED
    BY <2>3, <2>4
<1>2. CASE ~ \E p \in net : Stores(p)
  BY <1>2, CalmSteps
<1> QED
  BY <1>1, <1>2

\* Every SPUT under way tells of a put made at its sender.
LEMMA SputsKept ==
  ASSUME StateOK, SputsOK, [Next]_vars PROVE SputsOK'
<1> SUFFICES ASSUME NEW q \in net', q.kind = "sput"
             PROVE  \E d \in Clients : PutBy(d, q.key, q.value)' /\ Target[d] = q.from
  BY DEF SputsOK
<1>1. CASE q \in net
  BY <1>1, PutByStays DEF SputsOK
<1>2. CASE q \notin net
  <2>1. PICK p \in net : Stores(p)
    BY <1>2, CalmSteps
  <2>2. HandlePut(p) /\ q.from = p.to /\ q.key = p.key /\ q.value = p.value
    BY <1>2, <2>1, NewSputs
  <2> QED
    BY <2>2, PutIsNew
<1> QED
  BY <1>1, <1>2

\* Every entry of a log was put by a client.
LEMMA LogsKept ==
  ASSUME StateOK, SputsOK, LogsOK, [Next]_vars PROVE LogsOK'
<1> SUFFICES ASSUME NEW n \in Nodes, NEW i \in DOMAIN log'[n]
             PROVE  EntryOK(n, log[n][i])'
  BY DEF LogsOK
<1>1. CASE i \in DOMAIN log[n] /\ log'[n][i] = log[n][i]
  <2> DEFINE e == log[n][i]
  <2>1. EntryOK(n, e)
    BY <1>1 DEF LogsOK
  <2>2. \A d \in Clients : PutBy(d, e.key, e.value) => PutBy(d, e.key, e.value) /\ Spent(d)'
    BY SpentStays DEF PutBy
  <2>3. log'[n][i] = e
    BY <1>1
  <2> HIDE DEF e
  <2> QED
    BY <2>1, <2>2, <2>3 DEF EntryOK, PutBy
<1>2. CASE \E p \in net : NewEntry(p, n, i)
  <2>1. PICK p \in net : NewEntry(p, n, i)
    BY <1>2
  <2>2. PICK e : e = log'[n][i]
    OBVIOUS
  <2>3. Stores(p) /\ p.to = n /\ e.key = p.key /\ e.value = p.value /\ e.source = p.from
    BY <2>1, <2>2 DEF NewEntry
  <2>4. EntryOK(n, e)'
    BY <2>3, StoredIsPut
  <2> QED
    BY <2>2, <2>4 DEF EntryOK, PutBy
<1> QED
  BY <1>1, <1>2, LogGrows

\* Puts remembered as acknowledged were.
LEMMA AckedKept ==
  ASSUME StateOK, AckedOK, [Next]_vars PROVE AckedOK'
<1> SUFFICES ASSUME NEW c \in Clients, NEW d \in acked'[c] PROVE answer'[d].kind = "ack"
  BY DEF AckedOK, Acked
<1>1. d \in Clients /\ answer[d].kind = "ack"
  <2>1. CASE \E b \in Clients : SendCommand(b)
    <3>1. PICK b \in Clients : SendCommand(b)
      BY <2>1
    <3>2. acked' = [acked EXCEPT ![b] = { e \in Clients : Acked(e) }]
      BY <3>1, Sending
    <3>3. acked'[c] = acked[c] \/ acked'[c] = { e \in Clients : Acked(e) }
      BY <3>2 DEF StateOK, SessionTypeOK
    <3> QED
      BY <3>3 DEF AckedOK, Acked, StateOK, SessionTypeOK
  <2>2. CASE UNCHANGED acked
    BY <2>2 DEF AckedOK, Acked, StateOK, SessionTypeOK
  <2> QED
    BY <2>1, <2>2 DEF Next, HandlePacket, HandlePut, HandleSput, HandleGet, HandleDel,
       IgnoreSput, ReceiveAnswer, Timeout, Lose, Start, Stop, vars
<1> QED
  BY <1>1, AnswersStay

\* A value that only client c puts is stored when its put is handled, and by who
\* hears of it.
LEMMA FreshStored ==
  ASSUME StateOK, HistoryOK, NEW p \in net, Stores(p), NEW c \in Clients, Fresh(c),
         p.value = Value[c]
  PROVE  /\ p.key = Key[c]
         /\ \/ /\ HandlePut(p) /\ p.from = c /\ p.to = Target[c]
               /\ Value[c] \notin twice => ~Spent(c)
            \/ HandleSput(p) /\ p.from = Target[c] /\ Spent(c)
<1>1. \A d \in Clients : Value[d] = Value[c] => d = c
  BY DEF Fresh
<1>2. CASE HandlePut(p)
  BY <1>1, <1>2, PutIsNew
<1>3. CASE HandleSput(p)
  BY <1>1, <1>3 DEF HistoryOK, SputsOK, PutBy, HandleSput
<1> QED
  BY <1>2, <1>3 DEF Stores

\* Who logged it knows that the put of c is spent.
LEMMA LoggedIsSpent ==
  ASSUME StateOK, HistoryOK, NEW c \in Clients, Fresh(c), NEW n \in Nodes,
         NEW i \in DOMAIN log[n], log[n][i].value = Value[c]
  PROVE  Spent(c) /\ log[n][i].key = Key[c]
<1>1. PICK d \in Clients : PutBy(d, log[n][i].key, log[n][i].value)
  BY DEF HistoryOK, LogsOK, EntryOK
<1>2. d = c
  BY <1>1 DEF PutBy, Fresh
<1> QED
  BY <1>1, <1>2 DEF PutBy

\* It was not in the log before, from the same sender.
LEMMA FreshNotLogged ==
  ASSUME StateOK, HistoryOK, NEW p \in net, Stores(p), NEW c \in Clients, Single(c),
         p.value = Value[c]
  PROVE  \A i \in DOMAIN log[p.to] :
             ~(log[p.to][i].value = Value[c] /\ log[p.to][i].source = p.from)
<1>1. p.to \in Nodes /\ p.kind \in {"put", "sput"} /\ Fresh(c) /\ Value[c] \notin twice
  BY ToNode DEF Stores, HandlePut, HandleSput, Single
<1>2. CASE HandlePut(p)
  <2>1. ~Spent(c)
    BY <1>1, <1>2, FreshStored DEF HandlePut, HandleSput
  <2> QED
    BY <1>1, <2>1, LoggedIsSpent
<1>3. CASE HandleSput(p)
  BY <1>3 DEF HistoryOK, NotHeardBefore, HandleSput
<1> QED
  BY <1>2, <1>3 DEF Stores

\* No step logs a put a second time.
LEMMA OnceKept ==
  ASSUME StateOK, HistoryOK, [Next]_vars PROVE OncePerSource'
<1> SUFFICES ASSUME NEW n \in Nodes, NEW c \in Clients, Single(c)',
                    NEW i \in DOMAIN log'[n], NEW j \in DOMAIN log'[n],
                    log'[n][i].value = Value[c], log'[n][j].value = Value[c],
                    log'[n][i].source = log'[n][j].source
             PROVE  i = j
  BY DEF OncePerSource
<1>0. Single(c)
  BY TwiceStays DEF Single, Fresh
<1>1. CASE \E p \in net : NewEntry(p, n, i) \/ NewEntry(p, n, j)
  <2>1. PICK p \in net : NewEntry(p, n, i) \/ NewEntry(p, n, j)
    BY <1>1
  <2>2. Stores(p) /\ p.to = n /\ p.value = Value[c] /\ p.from = log'[n][i].source
    BY <2>1 DEF NewEntry
  <2>3. \A k \in DOMAIN log[n] : ~(log[n][k].value = Value[c] /\ log[n][k].source = p.from)
    BY <1>0, <2>2, FreshNotLogged
  <2>4. (\E q \in net : NewEntry(q, n, i)) /\ (\E q \in net : NewEntry(q, n, j))
    BY <2>2, <2>3, LogGrows
  <2> QED
    BY <2>4 DEF NewEntry
<1>2. CASE ~ \E p \in net : NewEntry(p, n, i) \/ NewEntry(p, n, j)
  <2>1. /\ i \in DOMAIN log[n] /\ log'[n][i] = log[n][i]
        /\ j \in DOMAIN log[n] /\ log'[n][j] = log[n][j]
    BY <1>2, LogGrows
  <2> QED
    BY <1>0, <2>1 DEF HistoryOK, OncePerSource
<1> QED
  BY <1>1, <1>2

\* A broadcast is in none of the logs that it has yet to reach.
LEMMA NotHeardKept ==
  ASSUME StateOK, HistoryOK, [Next]_vars PROVE NotHeardBefore'
<1> SUFFICES ASSUME NEW c \in Clients, NEW q \in net', Single(c)', q.kind = "sput",
                    q.value = Value[c], NEW i \in DOMAIN log'[q.to],
                    log'[q.to][i].value = Value[c], log'[q.to][i].source = q.from
             PROVE  FALSE
  BY DEF NotHeardBefore
<1>0. Single(c) /\ Fresh(c) /\ Value[c] \notin twice /\ Value[c] \notin twice'
  BY TwiceStays DEF Single, Fresh
<1>1. q.to \in Nodes /\ q.from \in Nodes /\ q \in Packets
  <2>1. PacketsOK'
    BY NextKeepsState DEF StateOK
  <2> QED
    BY <2>1 DEF PacketsOK, WellFormed
<1>2. CASE q \in net
  <2>1. \A k \in DOMAIN log[q.to] :
            ~(log[q.to][k].value = Value[c] /\ log[q.to][k].source = q.from)
    BY <1>0, <1>2 DEF HistoryOK, NotHeardBefore
  <2>2. PICK p \in net : NewEntry(p, q.to, i)
    BY <1>1, <2>1, LogGrows
  <2>3. Stores(p) /\ p.to = q.to /\ p.value = Value[c] /\ p.from = q.from
    BY <2>2 DEF NewEntry
  <2>4. HandleSput(p) /\ p.key = Key[c]
    BY <1>0, <1>1, <2>3, FreshStored, SessionAssumption
  <2>5. q.key = Key[c]
    BY <1>0, <1>2 DEF HistoryOK, SputsOK, PutBy, Fresh
  <2>6. p = q
    BY <2>3, <2>4, <2>5, <1>1, AllHeard, SamePacket DEF HandleSput
  <2>7. Received(p, net') /\ p.value \in Values
    BY <2>3, <2>4, SessionAssumption DEF HandleSput
  <2> QED
    BY <1>0, <2>3, <2>6, <2>7, Keeps
<1>3. CASE q \notin net
  <2>1. PICK p \in net : Stores(p)
    BY <1>3, CalmSteps
  <2>2. HandlePut(p) /\ p.value = Value[c] /\ q.from = p.to
    BY <1>3, <2>1, NewSputs
  <2>3. ~Spent(c)
    BY <1>0, <2>1, <2>2, FreshStored DEF HandlePut, HandleSput
  <2>4. ~(i \in DOMAIN log[q.to] /\ log'[q.to][i] = log[q.to][i])
    BY <1>0, <1>1, <2>3, LoggedIsSpent
  <2>5. PICK r \in net : NewEntry(r, q.to, i)
    BY <1>1, <2>4, LogGrows
  <2>6. Stores(r) /\ r.value = Value[c] /\ r.from = q.from
    BY <2>5 DEF NewEntry
  <2>7. HandlePut(r) /\ r.from = c
    BY <1>0, <2>3, <2>6, FreshStored
  <2> QED
    BY <1>1, <2>6, <2>7, SessionAssumption
<1> QED
  BY <1>2, <1>3

\* An ack is new only with its put.
LEMMA NewAcks ==
  ASSUME StateOK, [Next]_vars, NEW d \in Clients
  PROVE  /\ \A p \in net' : p.kind = "ack" /\ p.to = d
                => p \in net \/ \E q \in net : HandlePut(q) /\ q.from = d
         /\ Acked(d)' => Acked(d) \/ \E p \in net : p.kind = "ack" /\ p.to = d
<1>1. CASE \E c \in Clients : SendCommand(c)
  <2>1. PICK c \in Clients : SendCommand(c)
    BY <1>1
  <2>2. /\ \A p \in net' : p \in net \/ p.kind \in {"put", "get", "del"}
        /\ answer' = [answer EXCEPT ![c] = Without("waiting")]
    BY <2>1, Sending, SentFields DEF Reaching
  <2> QED
    BY <2>2 DEF Acked, Without, StateOK, SessionTypeOK
<1>2. CASE \E q \in net : HandlePut(q)
  <2>1. PICK q \in net : HandlePut(q)
    BY <1>2
  <2>2. \A p \in net' : p \in net \/ p.kind = "sput" \/ p.to = q.from
    BY <2>1, Keeps DEF HandlePut, Reaching, Broadcast, Packet
  <2> QED
    BY <2>1, <2>2 DEF HandlePut, Acked
<1>3. CASE \E q \in net : HandleGet(q)
  <2>1. PICK q \in net : HandleGet(q)
    BY <1>3
  <2>2. \A p \in net' : p \in net \/ p.kind \in {"got", "not"}
    BY <2>1, Keeps DEF HandleGet, Reaching, AnswerTo, Packet
  <2> QED
    BY <2>1, <2>2 DEF HandleGet, Acked
<1>4. CASE \E c \in Clients : ReceiveAnswer(c)
  BY <1>4 DEF ReceiveAnswer, Acked, StateOK, SessionTypeOK
<1>5. CASE \E c \in Clients : Timeout(c)
  BY <1>5 DEF Timeout, Without, Acked, StateOK, SessionTypeOK
<1>6. CASE net' \subseteq net /\ UNCHANGED answer
  BY <1>6 DEF Acked
<1> QED
  BY <1>1, <1>2, <1>3, <1>4, <1>5, <1>6, Keeps DEF Next, HandlePacket, HandleSput, HandleDel,
     IgnoreSput, Lose, Start, Stop, vars

\* A put that is handled is in the log of its node.
LEMMA PutIsLogged ==
  ASSUME StateOK, NEW p \in net, HandlePut(p)
  PROVE  \E i \in DOMAIN log'[p.to] : log'[p.to][i].value = p.value
<1>1. p.kind \in {"put", "sput"} /\ Put(p.to, p.key, p.value) /\ Log(p)
  BY DEF HandlePut
<1> DEFINE e == [key |-> p.key, value |-> p.value, source |-> p.from]
<1>2. log[p.to] \in Seq(Entries) /\ log'[p.to] = Append(log[p.to], e) /\ e.value = p.value
  BY <1>1, Stored, ToNode DEF StateOK, SessionTypeOK
<1> HIDE DEF e
<1>3. Len(log[p.to]) + 1 \in DOMAIN log'[p.to] /\ log'[p.to][Len(log[p.to]) + 1] = e
  BY <1>2
<1> QED
  BY <1>2, <1>3

\* Only a put of client d sends its value to the node it was put at.
LEMMA NewToTarget ==
  ASSUME StateOK, HistoryOK, [Next]_vars, NEW d \in Clients, Fresh(d), answer[d].kind # "new",
         NEW p \in net', p.kind \in {"put", "sput"}, p.value = Value[d], p.to = Target[d]
  PROVE  \E q \in net : /\ q.kind \in {"put", "sput"} /\ q.value = Value[d]
                        /\ q.to = Target[d]
<1>1. CASE p \in net
  BY <1>1
<1>2. CASE p \notin net /\ p.kind = "sput"
  <2>1. PICK q \in net : Stores(q)
    BY <1>2, CalmSteps
  <2>2. HandlePut(q) /\ q.value = Value[d]
    BY <1>2, <2>1, NewSputs
  <2>3. q.kind = "put" /\ q.to = Target[q.from] /\ q.from \in Clients /\ Value[q.from] = Value[d]
    BY <2>2, PutIsNew
  <2> QED
    BY <2>2, <2>3 DEF Fresh
<1>3. CASE p \notin net /\ p.kind = "put"
  <2>1. PICK c \in Clients : SendCommand(c)
    <3>1. CASE \E q \in net : HandlePacket(q)
      BY <1>3, <3>1, Keeps DEF HandlePacket, HandlePut, HandleSput, HandleGet, HandleDel,
         IgnoreSput, Reaching, Broadcast, AnswerTo, Packet
    <3> QED
      BY <1>3, <3>1 DEF Next, ReceiveAnswer, Timeout, Lose, Start, Stop, vars
  <2>2. p = Sent(c) /\ answer[c].kind = "new"
    BY <1>3, <2>1, Sending DEF Reaching
  <2>3. Value[c] = Value[d]
    BY <1>3, <2>2, SentFields
  <2> QED
    BY <2>2, <2>3 DEF Fresh
<1> QED
  BY <1>1, <1>2, <1>3

\* No other step than its stop empties a log.
LEMMA OnlyStopEmpties ==
  ASSUME StateOK, [Next]_vars, NEW n \in Nodes, NEW i \in DOMAIN log[n], log'[n] = <<>>
  PROVE  \E m \in Nodes : Stop(m)
<1>1. log[n] \in Seq(Entries) /\ log'[n] # log[n]
  BY DEF StateOK, SessionTypeOK
<1>2. ~ \E p \in net : Stores(p)
  <2> SUFFICES ASSUME NEW p \in net, Stores(p) PROVE FALSE
    OBVIOUS
  <2>1. p.kind \in {"put", "sput"} /\ Put(p.to, p.key, p.value) /\ Log(p)
    BY DEF Stores, HandlePut, HandleSput
  <2>2. p.to = n
    BY <1>1, <2>1, Stored
  <2>3. PICK e : log'[n] = Append(log[n], e)
    BY <2>1, <2>2, Stored
  <2> QED
    BY <1>1, <2>3
<1>3. CASE \E c \in Clients : SendCommand(c)
  BY <1>1, <1>3, Sending
<1>4. CASE UNCHANGED log
  BY <1>1, <1>4
<1> QED
  BY <1>2, <1>3, <1>4 DEF Next, HandlePacket, Stores, HandleGet, HandleDel, IgnoreSput,
     ReceiveAnswer, Timeout, Lose, Start, vars, nodeVars

\* What is acked stays in the log, or gone.
LEMMA AckedLoggedKept ==
  ASSUME StateOK, HistoryOK, [Next]_vars PROVE AckedIsLogged'
<1> SUFFICES ASSUME NEW d \in Clients, Fresh(d),
                    Acked(d)' \/ \E p \in net' : p.kind = "ack" /\ p.to = d,
                    NEW r \in net', r.kind \in {"put", "sput"}, r.value = Value[d],
                    r.to = Target[d]
             PROVE  \E i \in DOMAIN log'[Target[d]] : log'[Target[d]][i].value = Value[d]
  BY DEF AckedIsLogged, Fresh
<1> DEFINE n == Target[d]
<1>0. n \in Nodes
  BY SessionAssumption
<1>1. CASE \E q \in net : HandlePut(q) /\ q.from = d
  <2>1. PICK q \in net : HandlePut(q) /\ q.from = d
    BY <1>1
  <2> QED
    BY <2>1, PutIsNew, PutIsLogged
<1>2. CASE Acked(d) \/ \E p \in net : p.kind = "ack" /\ p.to = d
  <2>1. answer[d].kind # "new"
    BY <1>2 DEF Acked, StateOK, ClientsKnown, About
  <2>2. \E q \in net : q.kind \in {"put", "sput"} /\ q.value = Value[d] /\ q.to = n
    BY <2>1, NewToTarget
  <2>3. PICK i \in DOMAIN log[n] : log[n][i].value = Value[d]
    BY <1>2, <2>2 DEF HistoryOK, AckedIsLogged
  <2>4. CASE log'[n] # <<>>
    BY <1>0, <2>3, <2>4, LogGrows
  <2>5. CASE log'[n] = <<>>
    <3>1. log[n] # <<>> /\ log'[n] # log[n]
      BY <2>3, <2>5
    <3>2. PICK m \in Nodes : Stop(m)
      BY <1>0, <2>3, <2>5, OnlyStopEmpties
    <3>3. m = n
      BY <1>0, <3>1, <3>2 DEF Stop, StateOK, SessionTypeOK
    <3> QED
      BY <3>2, <3>3 DEF Stop
  <2> QED
    BY <2>4, <2>5
<1> QED
  BY <1>1, <1>2, NewAcks

\* Every step keeps what relates packets to logs.
LEMMA HistoryKept ==
  ASSUME StateOK, HistoryOK, [Next]_vars PROVE HistoryOK'
BY SputsKept, LogsKept, AckedKept, OnceKept, NotHeardKept, AckedLoggedKept DEF HistoryOK
-----------------------------------------------------------------------------
(* What a get is answered.                                                 *)

\* AckedIsRead, of answer a to client g.
NotOutdated(a, g) ==
    \A d \in acked[g] : \A i \in DOMAIN log[Target[g]] :
        /\ Op[g] = "get" /\ Target[g] = Target[d] /\ Key[g] = Key[d]
        /\ Fresh(d) /\ log[Target[g]][i].value = Value[d] /\ IsFirst(Target[g], i)
        => NotOlder(a, Target[g], Key[g], i)

ReadsOK ==
    \A g \in Clients :
        /\ answer[g].kind \in {"got", "not"} => NotOutdated(answer[g], g)
        /\ \A p \in net : p.to = g /\ p.kind \in {"got", "not"} => NotOutdated(p, g)

\* A get takes the last value logged for its key.
LEMMA AnswerNotOutdated ==
  ASSUME StateOK, StoreFollowsLog, HistoryOK, NEW p \in net, HandleGet(p)
  PROVE  NotOutdated(AnswerTo(p), p.from)
<1> DEFINE g == p.from
           n == p.to
           k == p.key
<1>1. g \in Clients /\ n = Target[g] /\ n \in Nodes /\ k = Key[g] /\ k \in Keys
  <2>1. p.kind = "get"
    BY DEF HandleGet
  <2> QED
    BY <2>1, AllHeard, ToNode DEF WellFormed
<1> HIDE DEF g
<1> SUFFICES ASSUME NEW d \in acked[g], NEW i \in DOMAIN log[n], Key[g] = Key[d],
                    Fresh(d), log[n][i].value = Value[d]
             PROVE  NotOlder(AnswerTo(p), n, k, i)
  BY <1>1 DEF NotOutdated, g
<1>2. d \in Clients
  BY <1>1 DEF StateOK, SessionTypeOK
<1>3. log[n][i].key = k
  BY <1>1, <1>2, LoggedIsSpent
<1>4. store[n][k] # None
  BY <1>1, <1>3 DEF StoreFollowsLog
<1>5. PICK j \in DOMAIN log[n] : IsLast(n, k, j) /\ log[n][j].value = store[n][k]
  BY <1>1, <1>4 DEF StoreFollowsLog
<1>6. i <= j /\ log[n][j].key = k
  BY <1>3, <1>5 DEF IsLast
<1>7. log[n] \in Seq(Entries)
  BY <1>1 DEF StateOK, SessionTypeOK
<1>8. j >= i
  <2>1. i \in Nat /\ j \in Nat
    BY <1>7
  <2> QED
    BY <1>6, <2>1
<1>9. AnswerTo(p).kind = "got" /\ AnswerTo(p).value = store[n][k]
  BY <1>4 DEF AnswerTo, Packet
<1> QED
  BY <1>5, <1>6, <1>8, <1>9 DEF NotOlder

\* What is logged later comes after the first entry of a put that is acked.
LEMMA NotOutdatedStays ==
  ASSUME StateOK, HistoryOK, [Next]_vars, NEW g \in Clients, acked'[g] = acked[g],
         NEW a, NotOutdated(a, g)
  PROVE  NotOutdated(a, g)'
<1> DEFINE n == Target[g]
<1> SUFFICES ASSUME NEW d \in acked[g], NEW i \in DOMAIN log'[n],
                    Op[g] = "get", n = Target[d], Key[g] = Key[d], Fresh(d),
                    log'[n][i].value = Value[d], IsFirst(n, i)'
             PROVE  NotOlder(a, n, Key[g], i)'
  BY DEF NotOutdated, Fresh
<1>1. n \in Nodes /\ d \in Clients /\ Acked(d) /\ log[n] \in Seq(Entries)
  BY SessionAssumption DEF HistoryOK, AckedOK, StateOK, SessionTypeOK
<1>2. \A j \in DOMAIN log[n] : j \in DOMAIN log'[n] /\ log'[n][j] = log[n][j]
  <2>1. log'[n] # <<>>
    OBVIOUS
  <2> QED
    BY <1>1, <2>1, LogGrows
<1>3. ~ \E p \in net : NewEntry(p, n, i)
  <2> SUFFICES ASSUME NEW p \in net, NewEntry(p, n, i) PROVE FALSE
    OBVIOUS
  <2>1. p.kind \in {"put", "sput"} /\ p.to = n /\ p.value = Value[d] /\ i = Len(log[n]) + 1
    BY DEF NewEntry, Stores, HandlePut, HandleSput
  <2>2. PICK j \in DOMAIN log[n] : log[n][j].value = Value[d]
    BY <1>1, <2>1 DEF HistoryOK, AckedIsLogged
  <2>3. i <= j
    BY <1>2, <2>2 DEF IsFirst
  <2> QED
    BY <1>1, <2>1, <2>2, <2>3
<1>4. i \in DOMAIN log[n] /\ log'[n][i] = log[n][i]
  BY <1>1, <1>3, LogGrows
<1>5. NotOlder(a, n, Key[g], i)
  <2>1. IsFirst(n, i)
    BY <1>2, <1>4 DEF IsFirst
  <2> QED
    BY <1>4, <2>1 DEF NotOutdated
<1>6. a.kind = "got"
  BY <1>5 DEF NotOlder
<1>7. PICK j \in DOMAIN log[n] : j >= i /\ log[n][j].key = Key[g] /\ log[n][j].value = a.value
  BY <1>5 DEF NotOlder
<1>8. j \in DOMAIN log'[n] /\ log'[n][j] = log[n][j]
  BY <1>2
<1> QED
  BY <1>6, <1>7, <1>8 DEF NotOlder

\* Answers to a GET come from its handler only.
LEMMA NewAnswers ==
  ASSUME StateOK, [Next]_vars, NEW p \in net', p.kind \in {"got", "not"}
  PROVE  p \in net \/ \E q \in net : HandleGet(q) /\ p = AnswerTo(q)
<1>1. CASE \E c \in Clients : SendCommand(c)
  <2>1. PICK c \in Clients : SendCommand(c)
    BY <1>1
  <2>2. Sent(c).kind \notin {"got", "not"}
    BY SentFields
  <2>3. \A q \in net' : q \in net \/ q = Sent(c)
    BY <2>1, Sending DEF Reaching
  <2> QED
    BY <2>2, <2>3
<1>2. CASE \E q \in net : HandleGet(q)
  <2>1. PICK q \in net : HandleGet(q)
    BY <1>2
  <2> QED
    BY <2>1, Keeps DEF HandleGet, Reaching
<1>3. CASE \E q \in net : HandlePut(q)
  <2>1. PICK q \in net : HandlePut(q)
    BY <1>3
  <2>2. \A r \in net' : r \in net \/ r.kind \in {"sput", "ack"}
    BY <2>1, Keeps DEF HandlePut, Reaching, Broadcast, Packet
  <2> QED
    BY <2>2
<1>4. CASE \E q \in net : HandleSput(q) \/ HandleDel(q) \/ IgnoreSput(q)
  BY <1>4, Keeps DEF HandleSput, HandleDel, IgnoreSput
<1>5. CASE net' \subseteq net
  BY <1>5
<1> QED
  BY <1>1, <1>2, <1>3, <1>4, <1>5 DEF Next, HandlePacket, ReceiveAnswer, Timeout, Lose,
     Start, Stop, vars

\* Every step keeps what is known of answers to a GET.
LEMMA ReadsKept ==
  ASSUME StateOK, StoreFollowsLog, HistoryOK, ReadsOK, [Next]_vars PROVE ReadsOK'
<1> SUFFICES ASSUME NEW g \in Clients
             PROVE  /\ answer'[g].kind \in {"got", "not"} => NotOutdated(answer[g], g)'
                    /\ \A p \in net' : p.to = g /\ p.kind \in {"got", "not"} => NotOutdated(p, g)'
  BY DEF ReadsOK
<1>1. CASE SendCommand(g)
  <2>1. answer'[g].kind = "waiting" /\ answer[g].kind = "new"
    <3>1. answer[g].kind = "new" /\ answer' = [answer EXCEPT ![g] = Without("waiting")]
      BY <1>1, Sending
    <3> QED
      BY <3>1 DEF Without, StateOK, SessionTypeOK
  <2>2. \A p \in net : p.to # g
    BY <2>1, ToClient DEF StateOK, ClientsKnown
  <2>3. \A p \in net' : p \in net \/ p = Sent(g)
    BY <1>1, Sending DEF Reaching
  <2>4. Sent(g).to = Target[g]
    BY SentFields
  <2> QED
    BY <2>1, <2>2, <2>3, <2>4, SessionAssumption
<1>2. CASE ~SendCommand(g)
  <2>1. acked'[g] = acked[g]
    <3>1. CASE \E c \in Clients : SendCommand(c)
      <4>1. PICK c \in Clients : SendCommand(c)
        BY <3>1
      <4>2. acked' = [acked EXCEPT ![c] = { d \in Clients : Acked(d) }] /\ c # g
        BY <1>2, <4>1, Sending
      <4> QED
        BY <4>2 DEF StateOK, SessionTypeOK
    <3>2. CASE UNCHANGED acked
      BY <3>2
    <3> QED
      BY <3>1, <3>2 DEF Next, HandlePacket, HandlePut, HandleSput, HandleGet, HandleDel,
         IgnoreSput, ReceiveAnswer, Timeout, Lose, Start, Stop, vars
  <2>2. ASSUME NEW p \in net', p.to = g, p.kind \in {"got", "not"}
        PROVE  NotOutdated(p, g)'
    <3>1. CASE p \in net
      BY <2>1, <2>2, <3>1, NotOutdatedStays DEF ReadsOK
    <3>2. CASE p \notin net
      <4>1. PICK q \in net : HandleGet(q) /\ p = AnswerTo(q)
        BY <2>2, <3>2, NewAnswers
      <4>2. p.to = q.from
        BY <4>1 DEF AnswerTo, Packet
      <4>3. NotOutdated(p, g)
        BY <2>2, <4>1, <4>2, AnswerNotOutdated
      <4> QED
        BY <2>1, <4>3, NotOutdatedStays
    <3> QED
      BY <3>1, <3>2
  <2>3. ASSUME answer'[g].kind \in {"got", "not"}
        PROVE  NotOutdated(answer[g], g)'
    <3>0. PICK a : a = answer'[g]
      OBVIOUS
    <3>1. a = answer[g] \/ (a \in net /\ a.to = g)
      <4>1. CASE \E c \in Clients : SendCommand(c)
        <5>1. PICK c \in Clients : SendCommand(c)
          BY <4>1
        <5>2. answer' = [answer EXCEPT ![c] = Without("waiting")] /\ c # g
          BY <1>2, <5>1, Sending
        <5> QED
          BY <3>0, <5>2 DEF StateOK, SessionTypeOK
      <4>2. CASE \E c \in Clients : Timeout(c)
        BY <3>0, <2>3, <4>2 DEF Timeout, Without, StateOK, SessionTypeOK
      <4>3. CASE \E c \in Clients : ReceiveAnswer(c)
        BY <3>0, <4>3 DEF ReceiveAnswer, StateOK, SessionTypeOK
      <4>4. CASE UNCHANGED answer
        BY <3>0, <4>4
      <4> QED
        BY <4>1, <4>2, <4>3, <4>4 DEF Next, HandlePacket, HandlePut, HandleSput, HandleGet,
           HandleDel, IgnoreSput, Lose, Start, Stop, vars
    <3>2. NotOutdated(a, g)
      BY <3>0, <2>3, <3>1 DEF ReadsOK
    <3>3. NotOutdated(a, g)'
      BY <2>1, <3>2, NotOutdatedStays
    <3> QED
      BY <3>0, <3>3 DEF NotOutdated, NotOlder
  <2> QED
    BY <2>2, <2>3
<1> QED
  BY <1>1, <1>2
-----------------------------------------------------------------------------
(* How the replicas converge.                                              *)

\* A broadcast of key k is on its way to node n.
Pending(n, k) == \E p \in net : p.kind = "sput" /\ p.to = n /\ p.key = k /\ p.from # n

\* What is under way puts one value for key k at most, and a node that missed no put
\* has that value or is about to get it; when no broadcast is left, they agree.
Settling(k) ==
    /\ \A p, q \in net :
           p.kind \in {"put", "sput"} /\ q.kind \in {"put", "sput"} /\ p.key = k /\ q.key = k
           => p.value = q.value
    /\ \A p \in net, n \in Nodes :
           p.kind = "sput" /\ p.key = k /\ k \notin missed[n]
           => store[n][k] = p.value \/ Pending(n, k)
    /\ (\A p \in net : ~(p.kind = "sput" /\ p.key = k)) =>
           \A m, n \in Nodes : k \notin missed[m] /\ k \notin missed[n]
                               => store[m][k] = store[n][k]

ConvergeOK == \A k \in Keys \ raced : Settling(k)

\* No put of k is new, and what is gone had done its work or is missed.
LEMMA FewerSettling ==
  ASSUME NEW k, Settling(k),
         \A p \in net' : p.kind \in {"put", "sput"} /\ p.key = k => p \in net,
         \A p \in net : p.kind = "sput" /\ p.key = k
             => p \in net' \/ p.from = p.to \/ k \in missed'[p.to],
         \A n \in Nodes : k \notin missed'[n]
             => k \notin missed[n] /\ store'[n][k] = store[n][k]
  PROVE  Settling(k)'
<1>1. \A p, q \in net' :
         p.kind \in {"put", "sput"} /\ q.kind \in {"put", "sput"} /\ p.key = k /\ q.key = k
         => p.value = q.value
  BY DEF Settling
<1>2. \A n \in Nodes : k \notin missed'[n] /\ Pending(n, k) => Pending(n, k)'
  BY DEF Pending
<1>3. \A p \in net, n \in Nodes :
         p.kind = "sput" /\ p.key = k /\ k \notin missed'[n]
         => store'[n][k] = p.value \/ Pending(n, k)'
  BY <1>2 DEF Settling
<1>4. ASSUME \A p \in net' : ~(p.kind = "sput" /\ p.key = k),
             NEW m \in Nodes, NEW n \in Nodes, k \notin missed'[m], k \notin missed'[n]
      PROVE  store'[m][k] = store'[n][k]
  <2>1. ~Pending(m, k)' /\ ~Pending(n, k)'
    BY <1>4 DEF Pending
  <2>2. CASE \E p \in net : p.kind = "sput" /\ p.key = k
    BY <1>3, <1>4, <2>1, <2>2
  <2>3. CASE \A p \in net : ~(p.kind = "sput" /\ p.key = k)
    BY <1>4, <2>3 DEF Settling
  <2> QED
    BY <2>2, <2>3
<1>5. \A p \in net', n \in Nodes :
         p.kind = "sput" /\ p.key = k /\ k \notin missed'[n]
         => store'[n][k] = p.value \/ Pending(n, k)'
  BY <1>3
<1> QED
  BY <1>1, <1>4, <1>5 DEF Settling

\* A PUT handled leaves replicas on their way to agreement.
LEMMA PutSettling ==
  ASSUME StateOK, NEW p \in net, HandlePut(p), Settling(p.key) PROVE Settling(p.key)'
<1> DEFINE k == p.key
           sent(n) == Packet("sput", p.to, n, k, p.value)
<1>1. p.kind = "put" /\ p.to \in Nodes /\ p.to \in up
  BY ToNode DEF HandlePut
<1>2. \A q \in net' : q.kind \in {"put", "sput"} /\ q.key = k => q.value = p.value
  <2>1. \A q \in net' : q \in net \/ q.kind = "ack" \/ (q.kind = "sput" /\ q.value = p.value)
    BY Keeps DEF HandlePut, Reaching, Broadcast, Packet
  <2>2. \A q \in net : q.kind \in {"put", "sput"} /\ q.key = k => q.value = p.value
    BY <1>1 DEF Settling
  <2> QED
    BY <2>1, <2>2
<1>3. \A n \in Nodes : n \in up => sent(n) \in net'
  BY DEF HandlePut, Reaching, Broadcast, Packet
<1>4. \A n \in Nodes : sent(n).kind = "sput" /\ sent(n).to = n /\ sent(n).key = k /\ sent(n).from = p.to
  BY DEF Packet
<1> HIDE DEF sent
<1>5. \E q \in net' : q.kind = "sput" /\ q.key = k
  BY <1>1, <1>3, <1>4
<1>6. ASSUME NEW n \in Nodes, k \notin missed'[n]
      PROVE  store'[n][k] = p.value \/ Pending(n, k)'
  <2>1. CASE n = p.to
    <3>1. k \in Keys
      BY <1>1, ToNode
    <3> QED
      BY <1>1, <2>1, <3>1, Stored DEF HandlePut
  <2>2. CASE n # p.to
    <3>1. n \in up
      BY <1>6, <2>2 DEF HandlePut
    <3> QED
      BY <1>3, <1>4, <2>2, <3>1 DEF Pending
  <2> QED
    BY <2>1, <2>2
<1> QED
  BY <1>2, <1>5, <1>6 DEF Settling

\* So does an SPUT handled,
LEMMA SputSettling ==
  ASSUME StateOK, NEW p \in net, HandleSput(p), Settling(p.key) PROVE Settling(p.key)'
<1> DEFINE k == p.key
<1>0. p.to \in Nodes /\ k \in Keys
  BY ToNode DEF HandleSput
<1>1. /\ p.kind = "sput" /\ net' \subseteq net /\ net \ {p} \subseteq net'
      /\ p.to \in Nodes /\ k \in Keys
      /\ \A n \in Nodes \ {p.to} : k \notin missed'[n] => k \notin missed[n]
  <2>1. /\ p.kind = "sput" /\ net' \subseteq net /\ net \ {p} \subseteq net'
        /\ missed' = [missed EXCEPT ![p.to] = @ \ {k}]
    BY Keeps DEF HandleSput
  <2>2. missed \in [Nodes -> SUBSET Keys]
    BY DEF StateOK, SessionTypeOK
  <2> QED
    BY <1>0, <2>1, <2>2
<1>2. \A n \in Nodes : store'[n][k] = IF n = p.to THEN p.value ELSE store[n][k]
  <2>1. Put(p.to, p.key, p.value) /\ Log(p) /\ p.kind \in {"put", "sput"}
    BY DEF HandleSput
  <2>2. \A n \in Nodes, x \in Keys :
            store'[n][x] = IF n = p.to /\ x = p.key THEN p.value ELSE store[n][x]
    BY <2>1, Stored
  <2> QED
    BY <1>0, <2>2
<1>3. \A q \in net : q.kind = "sput" /\ q.key = k => q.value = p.value
  BY <1>1 DEF Settling
<1>4. ASSUME NEW n \in Nodes, k \notin missed'[n]
      PROVE  store'[n][k] = p.value \/ Pending(n, k)'
  <2>1. CASE n = p.to
    BY <1>2, <2>1
  <2>2. CASE n # p.to
    <3>1. store[n][k] = p.value \/ Pending(n, k)
      BY <1>1, <1>4, <2>2 DEF Settling
    <3> QED
      BY <1>1, <1>2, <2>2, <3>1 DEF Pending
  <2> QED
    BY <2>1, <2>2
<1>5. \A q, r \in net' :
         q.kind \in {"put", "sput"} /\ r.kind \in {"put", "sput"} /\ q.key = k /\ r.key = k
         => q.value = r.value
  BY <1>1 DEF Settling
<1>6. \A q \in net', n \in Nodes :
         q.kind = "sput" /\ q.key = k /\ k \notin missed'[n]
         => store'[n][k] = q.value \/ Pending(n, k)'
  BY <1>1, <1>3, <1>4
<1>7. (\A q \in net' : ~(q.kind = "sput" /\ q.key = k)) =>
         \A m, n \in Nodes : k \notin missed'[m] /\ k \notin missed'[n]
                             => store'[m][k] = store'[n][k]
  BY <1>4 DEF Pending
<1> QED
  BY <1>5, <1>6, <1>7 DEF Settling

\* and a command sent, unless its key is raced by it.
LEMMA SendSettling ==
  ASSUME StateOK, NEW c \in Clients, SendCommand(c), NEW k \in Keys, k \notin raced', Settling(k)
  PROVE  Settling(k)'
<1> DEFINE q == Sent(c)
<1>1. /\ q.kind = Op[c] /\ q.key = Key[c] /\ Op[c] # "sput"
      /\ net \subseteq net' /\ \A p \in net' : p \in net \/ p = q
      /\ UNCHANGED <<store, missed>>
  BY SentFields, Sending DEF Reaching
<1>2. Op[c] = "put" /\ Key[c] = k => ~PutUnderWay(k)
  BY Sending
<1> HIDE DEF q
<1>3. CASE Op[c] = "put" /\ Key[c] = k
  <2>1. \A p \in net' : p.kind \in {"put", "sput"} /\ p.key = k => p = q /\ p.kind # "sput"
    BY <1>1, <1>2, <1>3 DEF PutUnderWay
  <2>2. \A p \in net : ~(p.kind = "sput" /\ p.key = k)
    BY <1>2, <1>3 DEF PutUnderWay
  <2> QED
    BY <1>1, <2>1, <2>2 DEF Settling
<1>4. CASE ~(Op[c] = "put" /\ Key[c] = k)
  <2>1. \A p \in net' : p.kind \in {"put", "sput"} /\ p.key = k => p \in net
    BY <1>1, <1>4
  <2> QED
    BY <1>1, <2>1, FewerSettling
<1> QED
  BY <1>3, <1>4

\* The hypotheses of FewerSettling.
CalmFor(k) ==
    /\ \A p \in net' : p.kind \in {"put", "sput"} /\ p.key = k => p \in net
    /\ \A p \in net : p.kind = "sput" /\ p.key = k
           => p \in net' \/ p.from = p.to \/ k \in missed'[p.to]
    /\ \A n \in Nodes : k \notin missed'[n]
           => k \notin missed[n] /\ store'[n][k] = store[n][k]

\* Steps that neither store nor send leave a key alone.
LEMMA CalmForKey ==
  ASSUME StateOK, [Next]_vars, ~ \E p \in net : Stores(p),
         ~ \E c \in Clients : SendCommand(c), NEW k \in Keys
  PROVE  CalmFor(k)
<1>1. \A p \in net : p.kind = "sput" => p.to \in Nodes
  BY ToNode
<1>2. CASE \E c \in Clients : ReceiveAnswer(c) \/ Timeout(c)
  <2>1. PICK c \in Clients : ReceiveAnswer(c) \/ Timeout(c)
    BY <1>2
  <2>2. \A p \in net : p.kind = "sput" => p.to # c
    BY <1>1, SessionAssumption
  <2>3. /\ net' \subseteq net /\ \A p \in net : p.to # c => p \in net'
        /\ UNCHANGED <<store, missed>>
    BY <2>1 DEF ReceiveAnswer, Timeout, nodeVars
  <2> QED
    BY <2>2, <2>3 DEF CalmFor
<1>3. CASE \E p \in net : HandleGet(p)
  <2>1. PICK p \in net : HandleGet(p)
    BY <1>3
  <2>2. AnswerTo(p).kind \notin {"put", "sput"}
    BY DEF AnswerTo, Packet
  <2>3. /\ p.kind = "get" /\ \A q \in net' : q \in net \/ q = AnswerTo(p)
        /\ \A q \in net : q # p => q \in net'
        /\ UNCHANGED <<store, missed>>
    BY <2>1, Keeps DEF HandleGet, Reaching, nodeVars
  <2> QED
    BY <2>2, <2>3 DEF CalmFor
<1>4. CASE \E p \in net : IgnoreSput(p) \/ HandleDel(p)
  <2>1. PICK p \in net : IgnoreSput(p) \/ HandleDel(p)
    BY <1>4
  <2>2. net' \subseteq net /\ net \ {p} \subseteq net' /\ UNCHANGED store
    BY <2>1, Keeps DEF IgnoreSput, HandleDel, nodeVars
  <2>3. \A n \in Nodes : missed[n] \subseteq missed'[n]
    BY <2>1 DEF IgnoreSput, HandleDel, StateOK, SessionTypeOK
  <2>4. p.kind = "sput" => p.from = p.to \/ p.key \in missed'[p.to]
    BY <1>1, <2>1 DEF IgnoreSput, HandleDel, StateOK, SessionTypeOK
  <2> QED
    BY <2>2, <2>3, <2>4 DEF CalmFor
<1>5. CASE \E p \in net : Lose(p)
  <2>1. PICK p \in net : Lose(p)
    BY <1>5
  <2>2. net' = net \ {p} /\ UNCHANGED store
    BY <2>1 DEF Lose, nodeVars
  <2>3. \A n \in Nodes : missed[n] \subseteq missed'[n]
    BY <2>1 DEF Lose, StateOK, SessionTypeOK
  <2>4. p.kind = "sput" => p.key \in missed'[p.to]
    BY <1>1, <2>1 DEF Lose, StateOK, SessionTypeOK
  <2> QED
    BY <2>2, <2>3, <2>4 DEF CalmFor
<1>6. CASE \E n \in Nodes : Start(n)
  BY <1>6 DEF Start, CalmFor
<1>7. CASE \E n \in Nodes : Stop(n)
  <2>1. PICK n \in Nodes : Stop(n)
    BY <1>7
  <2>2. /\ net' = { p \in net : p.to # n } /\ k \in missed'[n]
        /\ \A m \in Nodes \ {n} : missed'[m] = missed[m] /\ store'[m] = store[m]
    BY <2>1 DEF Stop, StateOK, SessionTypeOK
  <2> QED
    BY <2>2 DEF CalmFor
<1>8. CASE UNCHANGED vars
  BY <1>8 DEF vars, nodeVars, CalmFor
<1> QED
  BY <1>2, <1>3, <1>4, <1>5, <1>6, <1>7, <1>8 DEF Next, HandlePacket, Stores

\* Every step keeps replicas on their way to agreement.
LEMMA ConvergeKept ==
  ASSUME StateOK, ConvergeOK, [Next]_vars PROVE ConvergeOK'
<1> SUFFICES ASSUME NEW k \in Keys, k \notin raced' PROVE Settling(k)'
  BY DEF ConvergeOK
<1>1. CASE \E c \in Clients : SendCommand(c)
  <2>1. PICK c \in Clients : SendCommand(c)
    BY <1>1
  <2>2. k \notin raced
    BY <2>1, Sending
  <2> QED
    BY <2>1, <2>2, SendSettling DEF ConvergeOK
<1>2. CASE ~ \E c \in Clients : SendCommand(c)
  <2>1. raced' = raced
    BY <1>2 DEF Next, HandlePacket, HandlePut, HandleSput, HandleGet, HandleDel,
       IgnoreSput, ReceiveAnswer, Timeout, Lose, Start, Stop, vars
  <2>2. Settling(k)
    BY <2>1 DEF ConvergeOK
  <2>3. CASE \E p \in net : Stores(p) /\ p.key = k
    BY <2>2, <2>3, PutSettling, SputSettling DEF Stores
  <2>4. CASE \E p \in net : Stores(p) /\ p.key # k
    <3>1. PICK p \in net : Stores(p) /\ p.key # k
      BY <2>4
    <3>2. \A q \in net' : q.kind \in {"put", "sput"} /\ q.key = k => q \in net
      BY <3>1, Keeps DEF Stores, HandlePut, HandleSput, Reaching, Broadcast, Packet
    <3>3. \A q \in net : q.key = k => q \in net'
      BY <3>1, Keeps DEF Stores, HandlePut, HandleSput
    <3>4. \A n \in Nodes : k \notin missed'[n] => k \notin missed[n]
      <4>1. missed \in [Nodes -> SUBSET Keys]
        BY DEF StateOK, SessionTypeOK
      <4>2. CASE HandlePut(p)
        BY <3>1, <4>2 DEF HandlePut
      <4>3. CASE HandleSput(p)
        <5>1. missed' = [missed EXCEPT ![p.to] = @ \ {p.key}]
          BY <4>3 DEF HandleSput
        <5> QED
          BY <3>1, <4>1, <5>1
      <4> QED
        BY <3>1, <4>2, <4>3 DEF Stores
    <3>5. \A n \in Nodes : store'[n][k] = store[n][k]
      <4>1. p.kind \in {"put", "sput"} /\ Put(p.to, p.key, p.value) /\ Log(p)
        BY <3>1 DEF Stores, HandlePut, HandleSput
      <4> QED
        BY <3>1, <4>1, Stored
    <3> QED
      BY <2>2, <3>2, <3>3, <3>4, <3>5, FewerSettling
  <2>5. CASE ~ \E p \in net : Stores(p)
    <3>1. CalmFor(k)
      BY <1>2, <2>5, CalmForKey
    <3> QED
      BY <2>2, <3>1, FewerSettling DEF CalmFor
  <2> QED
    BY <2>3, <2>4, <2>5
<1> QED
  BY <1>1, <1>2
-----------------------------------------------------------------------------
(* The inductive invariant.                                                *)

IInv == StateOK /\ StoreFollowsLog /\ HistoryOK /\ ReadsOK /\ ConvergeOK

\* The inductive invariant holds at first,
LEMMA InitIInv ==
  Init => IInv
<1> SUFFICES ASSUME Init PROVE IInv
  OBVIOUS
<1>1. StateOK
  BY InitState
<1>2. StoreFollowsLog
  BY DEF Init, StoreFollowsLog, Empty
<1>3. HistoryOK
  BY DEF Init, HistoryOK, SputsOK, LogsOK, AckedOK, OncePerSource, NotHeardBefore,
     AckedIsLogged, Acked, Without
<1>4. ReadsOK
  BY DEF Init, ReadsOK, Without
<1>5. ConvergeOK
  BY DEF Init, ConvergeOK, Settling
<1> QED
  BY <1>1, <1>2, <1>3, <1>4, <1>5 DEF IInv

\* is kept by every step,
LEMMA NextKeepsIInv ==
  IInv /\ [Next]_vars => IInv'
BY NextKeepsState, StoresFollow, HistoryKept, ReadsKept, ConvergeKept DEF IInv

\* and so holds always.
LEMMA InvariantHolds == Spec => []IInv
  BY InitIInv, NextKeepsIInv, PTL DEF Spec
-----------------------------------------------------------------------------
(* The theorems.                                                           *)

(***************************************************************************)
(* Every packet has a kind, and a value where its kind needs one; a node   *)
(* that does not run has no log, and nothing is under way to one that does *)
(* not listen (session.c:159-250, client.c:163-309).                       *)
(***************************************************************************)
THEOREM SessionTypeCorrect == Spec => []SessionTypeOK
  BY InvariantHolds, PTL DEF IInv, StateOK

(***************************************************************************)
(* The store of each node is what replaying its session_log gives, however *)
(* puts and broadcasts are ordered, lost or cut off by a stop              *)
(* (session.c:169-204).                                                    *)
(***************************************************************************)
THEOREM LogExplainsStore == Spec => []StoreFollowsLog
  BY InvariantHolds, PTL DEF IInv

(***************************************************************************)
(* A node logs what a client puts, and the network does not repeat, once   *)
(* for each sender at most.  Where get_primary_addr finds an address it    *)
(* logs it once in all, though the node hears its own broadcast            *)
(* (session.c:126, 184-189).                                               *)
(***************************************************************************)
THEOREM PutsAreLoggedOnce == Spec => []LoggedOnce
<1>1. IInv => LoggedOnce
  <2> SUFFICES ASSUME IInv, NEW n \in Nodes, NEW c \in Clients, Single(c),
                      NEW i \in DOMAIN log[n], NEW j \in DOMAIN log[n],
                      log[n][i].value = Value[c], log[n][j].value = Value[c],
                      n \in Eth0 \/ log[n][i].source = log[n][j].source
               PROVE  i = j
    BY DEF LoggedOnce, Single
  <2>1. HistoryOK /\ Fresh(c)
    BY DEF IInv, Single
  <2>2. ASSUME n \in Eth0, NEW x \in DOMAIN log[n], log[n][x].value = Value[c]
        PROVE  log[n][x].source = IF Target[c] = n THEN c ELSE Target[c]
    <3>1. EntryOK(n, log[n][x])
      BY <2>1 DEF HistoryOK, LogsOK
    <3>2. \A d \in Clients : PutBy(d, log[n][x].key, log[n][x].value) => d = c
      BY <2>1, <2>2 DEF PutBy, Fresh
    <3> QED
      BY <2>2, <3>1, <3>2 DEF EntryOK
  <2>3. log[n][i].source = log[n][j].source
    BY <2>2
  <2> QED
    BY <2>1, <2>3 DEF HistoryOK, OncePerSource
<1> QED
  BY <1>1, InvariantHolds, PTL

(***************************************************************************)
(* The nodes that missed no put of a key agree on it when its broadcasts   *)
(* have arrived, unless two puts of the key were under way at once         *)
(* (session.c:181 and 199).                                                *)
(***************************************************************************)
THEOREM ReplicasAgree == Spec => []ReplicasConverge
<1>1. IInv => ReplicasConverge
  <2> SUFFICES ASSUME IInv, NEW k \in Keys \ raced, ~PutUnderWay(k),
                      NEW m \in up, NEW n \in up, k \notin missed[m], k \notin missed[n]
               PROVE  store[m][k] = store[n][k]
    BY DEF ReplicasConverge
  <2>1. m \in Nodes /\ n \in Nodes
    BY DEF IInv, StateOK, SessionTypeOK
  <2>2. Settling(k)
    BY DEF IInv, ConvergeOK
  <2>3. \A p \in net : ~(p.kind = "sput" /\ p.key = k)
    BY DEF PutUnderWay
  <2> QED
    BY <2>1, <2>2, <2>3 DEF Settling
<1> QED
  BY <1>1, InvariantHolds, PTL

(***************************************************************************)
(* A node that acked a put never answers a later get of the key as if it   *)
(* had not stored it, while it keeps running, though the network repeats   *)
(* the put (session.c:169-183, 206-215).                                   *)
(***************************************************************************)
THEOREM AckedPutsAreRead == Spec => []AckedIsRead
<1>1. IInv => AckedIsRead
  BY DEF IInv, ReadsOK, NotOutdated, AckedIsRead
<1> QED
  BY <1>1, InvariantHolds, PTL
=============================================================================
