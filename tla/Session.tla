------------------------------ MODULE Session ------------------------------
(***************************************************************************)
(* hw5: session.c, nodes that each keep a store of keys and values and a   *)
(* log of what they stored, and client.c, which sends one command to one   *)
(* node and waits a second for the answer.  A node that is told to put a   *)
(* value broadcasts it to the others.                                      *)
(*                                                                         *)
(* One action is one packet handled by the receiver thread, which alone    *)
(* uses the store.  The table of peers is module PeerTable.                *)
(***************************************************************************)
EXTENDS Integers, Sequences

CONSTANTS Nodes, Clients, Keys, Values,
          Target,   \* Target[c]: the node client c sends its command to
          Op,       \* Op[c]: "put", "get" or "del"
          Key,      \* Key[c]
          Value,    \* Value[c], used by a put
          Eth0,     \* the nodes on a host with an interface eth0
          None,     \* no value, or the address of no node
          FAULTS    \* bound on the packets lost or delivered once more and the
                    \* nodes stopped, in all

ASSUME SessionAssumption ==
    /\ Target \in [Clients -> Nodes]
    /\ Op \in [Clients -> {"put", "get", "del"}]
    /\ Key \in [Clients -> Keys]
    /\ Value \in [Clients -> Values]
    /\ Eth0 \subseteq Nodes
    /\ None \notin Values \union Nodes
    /\ Nodes \intersect Clients = {}
    /\ FAULTS \in Nat

VARIABLES
  up,      \* the nodes that run
  primary, \* the address each takes for its own
  store,   \* store[n][k]: the value node n has for k
  log,     \* session_log of each node, without the times
  answer,  \* answer[c].kind: "new", "waiting", "timeout" or that of the answer
  net,     \* packets under way; two equal ones count as one
  faults,  \* packets lost or delivered once more and nodes stopped so far
  twice,   \* history: the values a packet of which was delivered once more
  raced,   \* history: the keys put while another put was under way
  missed,  \* history: missed[n] are the keys with a put that node n missed
  acked    \* history: the puts acked before client c sent its command

nodeVars == <<up, primary, store, log>>
vars == <<nodeVars, answer, net, faults, twice, raced, missed, acked>>

\* Packets of kind "put", "get" and "del" go from a client to a node, "sput"
\* from node to node, "ack", "got" and "not" from a node to a client.
Packet(kind, from, to, key, value) ==
    [kind |-> kind, from |-> from, to |-> to, key |-> key, value |-> value]

Without(kind) == [kind |-> kind]

Empty == [k \in Keys |-> None]

Init ==
    /\ up = {} /\ primary = [n \in Nodes |-> None]
    /\ store = [n \in Nodes |-> Empty]
    /\ log = [n \in Nodes |-> <<>>]
    /\ answer = [c \in Clients |-> Without("new")]
    /\ net = {} /\ faults = 0 /\ twice = {}
    /\ raced = {}
    /\ missed = [n \in Nodes |-> {}]
    /\ acked = [c \in Clients |-> {}]

\* What is sent to a node that does not run, or to a client that has ended,
\* goes nowhere.
Reaching(ps) == { p \in ps : p.to \in up \/ (p.to \in Clients /\ answer[p.to].kind = "waiting") }
-----------------------------------------------------------------------------
(* The clients.                                                            *)

PutUnderWay(k) == \E p \in net : p.kind \in {"put", "sput"} /\ p.key = k

Acked(c) == answer[c].kind = "ack"

Send(c, value) ==
    /\ answer[c].kind = "new"
    /\ answer' = [answer EXCEPT ![c] = Without("waiting")]
    /\ net' = net \union Reaching({ Packet(Op[c], c, Target[c], Key[c], value) })
    /\ acked' = [acked EXCEPT ![c] = { d \in Clients : Acked(d) }]
    /\ UNCHANGED <<nodeVars, faults, twice, missed>>

SendPut(c) ==
    /\ Op[c] = "put" /\ Send(c, Value[c])
    /\ raced' = IF PutUnderWay(Key[c]) THEN raced \union {Key[c]} ELSE raced

SendGet(c) == Op[c] = "get" /\ Send(c, None) /\ UNCHANGED raced

SendDel(c) == Op[c] = "del" /\ Send(c, None) /\ UNCHANGED raced

SendCommand(c) == SendPut(c) \/ SendGet(c) \/ SendDel(c)

\* The first packet that comes is the answer, and the client ends: what comes
\* after it goes nowhere.  The three commands wait for it in the same way.
ReceiveAnswer(c) ==
    /\ answer[c].kind = "waiting"
    /\ \E p \in net : p.to = c /\ answer' = [answer EXCEPT ![c] = p]
    /\ net' = { p \in net : p.to # c }
    /\ UNCHANGED <<nodeVars, faults, twice, raced, missed, acked>>

\* What comes after the second is over goes nowhere either.
Timeout(c) ==
    /\ answer[c].kind = "waiting"
    /\ answer' = [answer EXCEPT ![c] = Without("timeout")]
    /\ net' = { p \in net : p.to # c }
    /\ UNCHANGED <<nodeVars, faults, twice, raced, missed, acked>>
-----------------------------------------------------------------------------
(* The network and the hosts.                                              *)

Lose(p) ==
    /\ faults < FAULTS
    /\ faults' = faults + 1
    /\ net' = net \ {p}
    /\ missed' = IF p.kind = "sput" THEN [missed EXCEPT ![p.to] = @ \union {p.key}]
                                    ELSE missed
    /\ UNCHANGED <<nodeVars, answer, twice, raced, acked>>

\* Packet p comes to its node, for the last time or to come once more, and
\* remaining is what is still under way.
Received(p, remaining) ==
    \/ remaining = net \ {p} /\ UNCHANGED <<faults, twice>>
    \/ /\ faults < FAULTS
       /\ remaining = net /\ faults' = faults + 1
       /\ twice' = twice \union ({p.value} \ {None})

\* get_primary_addr finds the address of eth0; if there is none its result is
\* ignored, and the address is whatever the uninitialised variable held.
Addresses(n) == IF n \in Eth0 THEN {n} ELSE Nodes \union {None}

\* A node starts with nothing, and asks no other node for what it has.
Start(n) ==
    /\ n \notin up
    /\ up' = up \union {n}
    /\ \E a \in Addresses(n) : primary' = [primary EXCEPT ![n] = a]
    /\ UNCHANGED <<store, log, answer, net, faults, twice, raced, missed, acked>>

Stop(n) ==
    /\ n \in up /\ faults < FAULTS
    /\ faults' = faults + 1
    /\ up' = up \ {n} /\ primary' = [primary EXCEPT ![n] = None]
    /\ store' = [store EXCEPT ![n] = Empty]
    /\ log' = [log EXCEPT ![n] = <<>>]
    /\ net' = { p \in net : p.to # n }
    /\ missed' = [missed EXCEPT ![n] = Keys]
    /\ UNCHANGED <<answer, twice, raced, acked>>
-----------------------------------------------------------------------------
(* The nodes.                                                              *)

\* rbtree_put that leaves a key that is there as it is
Put_OnlyNew(n, k, v) == store' = [store EXCEPT ![n][k] = IF @ = None THEN v ELSE @]

\* rbtree_put
Put(n, k, v) == store' = [store EXCEPT ![n][k] = v]

\* Only what clients put is logged.
Log_OnlyPuts(p) ==
    log' = IF p.kind = "put"
           THEN [log EXCEPT ![p.to] = Append(@, [key |-> p.key, value |-> p.value,
                                                 source |-> p.from])]
           ELSE log

\* session_log[c] is filled and c counted up.
Log(p) ==
    log' = [log EXCEPT ![p.to] = Append(@, [key |-> p.key, value |-> p.value,
                                            source |-> p.from])]

\* The broadcast comes back to its sender as well.
Broadcast(n, k, v) == { Packet("sput", n, m, k, v) : m \in Nodes }

HandlePut(p) ==
    /\ p.kind = "put"
    /\ Put(p.to, p.key, p.value)
    /\ Log(p)
    /\ \E remaining \in {net, net \ {p}} :
         /\ Received(p, remaining)
         /\ net' = remaining \union
                   Reaching(Broadcast(p.to, p.key, p.value) \union
                            { Packet("ack", p.to, p.from, p.key, p.value) })
    /\ missed' = [n \in Nodes |-> IF n = p.to THEN missed[n] \ {p.key}
                                  ELSE IF n \in up THEN missed[n]
                                  ELSE missed[n] \union {p.key}]
    /\ UNCHANGED <<up, primary, answer, raced, acked>>

OwnBroadcast_NotKnown(p) == FALSE

\* "this is my own broadcast", or one of the node whose address this one holds.
OwnBroadcast(p) == p.from = primary[p.to]

IgnoreSput(p) ==
    /\ p.kind = "sput" /\ OwnBroadcast(p)
    /\ Received(p, net')
    /\ missed' = IF p.from = p.to THEN missed
                 ELSE [missed EXCEPT ![p.to] = @ \union {p.key}]
    /\ UNCHANGED <<nodeVars, answer, raced, acked>>

\* A value put at another node: stored and logged, neither passed on nor acked.
HandleSput(p) ==
    /\ p.kind = "sput" /\ ~OwnBroadcast(p)
    /\ Put(p.to, p.key, p.value)
    /\ Log(p)
    /\ Received(p, net')
    /\ missed' = [missed EXCEPT ![p.to] = @ \ {p.key}]
    /\ UNCHANGED <<up, primary, answer, raced, acked>>

\* The answer to a get taken from the first entry of the log.
AnswerTo_FirstLogged(p) ==
    IF store[p.to][p.key] # None
    THEN Packet("got", p.to, p.from, p.key,
                SelectSeq(log[p.to], LAMBDA e : e.key = p.key)[1].value)
    ELSE Packet("not", p.to, p.from, p.key, None)

\* The answer to a get with what rbtree_get returns left out.
AnswerTo_AlwaysGot(p) == Packet("got", p.to, p.from, p.key, store[p.to][p.key])

\* rbtree_get, at once
AnswerTo(p) ==
    IF store[p.to][p.key] # None
    THEN Packet("got", p.to, p.from, p.key, store[p.to][p.key])
    ELSE Packet("not", p.to, p.from, p.key, None)

HandleGet(p) ==
    /\ p.kind = "get"
    /\ \E remaining \in {net, net \ {p}} :
         Received(p, remaining) /\ net' = remaining \union Reaching({ AnswerTo(p) })
    /\ UNCHANGED <<nodeVars, answer, raced, missed, acked>>

\* A del is reported on the terminal, and that is all.
HandleDel(p) ==
    /\ p.kind = "del"
    /\ Received(p, net')
    /\ UNCHANGED <<nodeVars, answer, raced, missed, acked>>

HandlePacket(p) ==
    \/ HandlePut(p) \/ IgnoreSput(p) \/ HandleSput(p) \/ HandleGet(p) \/ HandleDel(p)

Next ==
    \/ \E c \in Clients : SendCommand(c) \/ ReceiveAnswer(c) \/ Timeout(c)
    \/ \E p \in net : HandlePacket(p) \/ Lose(p)
    \/ \E n \in Nodes : Start(n) \/ Stop(n)

Spec == Init /\ [][Next]_vars
-----------------------------------------------------------------------------
(* What is claimed.                                                        *)

Packets ==
    [kind : {"put", "sput", "ack", "got"}, from : Nodes \union Clients,
     to : Nodes \union Clients, key : Keys, value : Values]
    \union
    [kind : {"get", "del", "not"}, from : Nodes \union Clients,
     to : Nodes \union Clients, key : Keys, value : {None}]

Entries == [key : Keys, value : Values, source : Nodes \union Clients]

\* Types; what carries a value has one, only a node that runs has a log, with an
\* eth0 it knows its address, and packets go to those who listen.
SessionTypeOK ==
    /\ up \subseteq Nodes
    /\ primary \in [Nodes -> Nodes \union {None}] /\ \A n \in up \intersect Eth0 : primary[n] = n
    /\ store \in [Nodes -> [Keys -> Values \union {None}]]
    /\ log \in [Nodes -> Seq(Entries)] /\ \A n \in Nodes \ up : log[n] = <<>>
    /\ answer \in [Clients -> [kind : {"new", "waiting", "timeout"}] \union Packets]
    /\ net \subseteq Packets /\ Reaching(net) = net
    /\ faults \in 0..FAULTS /\ twice \subseteq Values
    /\ raced \subseteq Keys
    /\ missed \in [Nodes -> SUBSET Keys]
    /\ acked \in [Clients -> SUBSET Clients]

\* Entry i is the last that node n logged for key k.
IsLast(n, k, i) ==
    /\ i \in DOMAIN log[n] /\ log[n][i].key = k
    /\ \A j \in DOMAIN log[n] : log[n][j].key = k => j <= i

\* The store of a node (rbtree.c) is what replaying its session_log gives: each
\* key has the value of its last entry, whoever sent it.  A newly started node
\* was to be brought up to date from this log.
StoreFollowsLog ==
    \A n \in Nodes, k \in Keys :
        IF store[n][k] = None
        THEN \A i \in DOMAIN log[n] : log[n][i].key # k
        ELSE \E i \in DOMAIN log[n] :
                 IsLast(n, k, i) /\ log[n][i].value = store[n][k]

Fresh(c) == \A d \in Clients \ {c} : Value[d] # Value[c]

\* A value that one client puts, and of which the network repeats no packet, is
\* logged once for each sender at most; and once in all by a node that has an
\* eth0, though its own broadcast comes back to it: no node passes on a
\* MAGIC_SPUT, and one from the node's own address is ignored.
LoggedOnce ==
    \A n \in Nodes, c \in Clients :
        Fresh(c) /\ Value[c] \notin twice =>
            \A i, j \in DOMAIN log[n] :
                /\ log[n][i].value = Value[c] /\ log[n][j].value = Value[c]
                /\ n \in Eth0 \/ log[n][i].source = log[n][j].source
                => i = j

\* When every put has been handled everywhere, the nodes that missed no put of a
\* key since they last stored it agree on the key, unless two puts of the key
\* were under way at once (the later one to arrive wins, at each node for itself).
ReplicasConverge ==
    \A k \in Keys \ raced :
        ~PutUnderWay(k) =>
            \A m, n \in { o \in up : k \notin missed[o] } : store[m][k] = store[n][k]

\* Answer a says what node n had for key k when it had logged entry i, or later.
NotOlder(a, n, k, i) ==
    /\ a.kind = "got"
    /\ \E j \in DOMAIN log[n] :
           j >= i /\ log[n][j].key = k /\ log[n][j].value = a.value

\* Entry i is the first in the log of node n with its value.
IsFirst(n, i) ==
    /\ i \in DOMAIN log[n]
    /\ \A j \in DOMAIN log[n] : log[n][j].value = log[n][i].value => i <= j

\* A get sent to a node after that node acked a put of the key is answered with
\* the value put or one the node logged after it, for as long as the node runs:
\* the ack of MAGIC_PUT is sent when the value is in the store.  That the network
\* repeats the put, and the node logs it again, does not make the answer older.
AckedIsRead ==
    \A g \in Clients : \A p \in acked[g] : \A i \in DOMAIN log[Target[g]] :
        /\ Op[g] = "get" /\ Target[g] = Target[p] /\ Key[g] = Key[p]
        /\ Fresh(p) /\ log[Target[g]][i].value = Value[p] /\ IsFirst(Target[g], i)
        /\ answer[g].kind \in {"got", "not"}
        => NotOlder(answer[g], Target[g], Key[g], i)
=============================================================================
