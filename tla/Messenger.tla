----------------------------- MODULE Messenger -----------------------------
(***************************************************************************)
(* hw3/messenger.c: nodes that register with each other form a mesh and    *)
(* flood it with the messages typed at any of them.  A message carries a   *)
(* digest, by which a node knows the ones it has already passed on.  A     *)
(* node that leaves makes its neighbours neighbours of each other.         *)
(*                                                                         *)
(* One action is one branch of the select loop: the packet that came, then *)
(* what was typed.  Signals come between branches.                         *)
(***************************************************************************)
EXTENDS Slots

CONSTANTS Nodes,
          Contacts,     \* Contacts[n]: the nodes on the command line of n
          Messages,
          Author,       \* Author[m]: the node m is typed at
          Digests,
          Digest,       \* Digest[m]: the digest of m, salted
          FirstByte,    \* FirstByte[d]: the first byte of a digest
          Junk,         \* the digests that malloc may leave in a new record
          MAX_DIGESTS,  \* digests a node remembers, 20 in the code
          FAULTS        \* bound on the packets the network loses or delivers twice

ASSUME MessengerAssumption ==
    /\ Contacts \in [Nodes -> Seq(Nodes)]
    /\ Author \in [Messages -> Nodes]
    /\ Digest \in [Messages -> Digests]
    /\ FirstByte \in [Digests -> 0 .. 255]
    /\ Junk \subseteq Digests
    /\ MAX_DIGESTS \in Nat \ {0}
    /\ FAULTS \in Nat

VARIABLES
  \* per node
  state,     \* "off", "up" or "gone"
  atStdin,   \* has select seen input on stdin as well, to be read next?
  targets,   \* the nodes it sends to, in the order of their slots
  digests,   \* the record of digests
  latest,    \* latest_digest, the slot of the record to write next
  shown,     \* the messages on its terminal, the ones typed there included
  \* the network
  net,       \* packets under way; two equal ones count as one
  lost,      \* packets lost
  repeated,  \* packets delivered twice
  \* history
  audience   \* audience[m]: the nodes there were when m was typed, if the
             \* mesh was whole

nodeVars == <<state, atStdin, targets, digests, latest, shown>>
vars == <<nodeVars, net, lost, repeated, audience>>

Packets == [kind : {"message"}, from : Nodes, to : Nodes, mes : Messages]
    \union [kind : {"register"}, from : Nodes, to : Nodes]
    \union [kind : {"redirect"}, from : Nodes, to : Nodes, redirects : Seq(Nodes)]

Up == { n \in Nodes : state[n] = "up" }

\* send_message, send_register and send_redirect
Message(n, to, m)   == [kind |-> "message", from |-> n, to |-> to, mes |-> m]
Register(n, to)     == [kind |-> "register", from |-> n, to |-> to]
Redirect(n, to, rs) == [kind |-> "redirect", from |-> n, to |-> to, redirects |-> rs]

\* No registration or redirection is under way.
Settled == \A p \in net : p.kind = "message"

\* No part of the running nodes is cut off from the others.
Connected ==
    \A S \in (SUBSET Up) \ {{}, Up} :
        \E a \in S, b \in Up \ S : b \in Range(targets[a]) /\ a \in Range(targets[b])

Init ==
    /\ state = [n \in Nodes |-> "off"]
    /\ atStdin = [n \in Nodes |-> FALSE]
    /\ targets = [n \in Nodes |-> <<>>]
    /\ digests \in [Nodes -> [0 .. MAX_DIGESTS - 1 -> Junk]]
    /\ latest = [n \in Nodes |-> 0]
    /\ shown = [n \in Nodes |-> <<>>]
    /\ net = {} /\ lost = 0 /\ repeated = 0
    /\ audience = [m \in Messages |-> {}]

\* Packets to a node that is not running go nowhere.
Reaching(packets) == { p \in packets : state[p.to] = "up" }

(* A node is started with the addresses of running nodes, printed when they *)
(* were started.                                                            *)
Start(n) ==
    /\ state[n] = "off"
    /\ Range(Contacts[n]) \subseteq Up
    /\ state' = [state EXCEPT ![n] = "up"]
    /\ targets' = [targets EXCEPT ![n] = Contacts[n]]
    /\ net' = net \union { Register(n, to) : to \in Range(Contacts[n]) }
    /\ UNCHANGED <<atStdin, digests, latest, shown, lost, repeated, audience>>
-----------------------------------------------------------------------------
(* Remembering digests.                                                    *)

\* The comparison ends at the first byte, equal or not.
messageSeen(n, m) ==
    \E i \in 0 .. MAX_DIGESTS - 1 : FirstByte[digests[n][i]] = FirstByte[Digest[m]]

\* Is latest' back in the record?  It is when the loop starts anew.
Wrapped_Never(n, l) == latest' = [latest EXCEPT ![n] = l]

Wrapped(n, l) == latest' = [latest EXCEPT ![n] = IF atStdin'[n] THEN l ELSE l % MAX_DIGESTS]

Record_SameSlot(n, m) ==
    /\ digests' = [digests EXCEPT ![n][0] = Digest[m]]
    /\ Wrapped(n, latest[n])

\* Past the record, which happens when something is typed in the same turn of
\* the loop as the last slot is filled, the digest goes to memory unknown; see
\* Overrun for the other outcome.
Record(n, m) ==
    /\ digests' = IF latest[n] < MAX_DIGESTS
                  THEN [digests EXCEPT ![n][latest[n]] = Digest[m]] ELSE digests
    /\ Wrapped(n, latest[n] + 1)
-----------------------------------------------------------------------------
(* A packet comes.                                                         *)

\* Packet p is received, and those of sent are sent.  If there is input on
\* stdin as well, it is read next.
Receive(p, sent) ==
    /\ state[p.to] = "up" /\ ~atStdin[p.to]
    /\ \E b \in BOOLEAN : atStdin' = [atStdin EXCEPT ![p.to] = b]
    /\ \/ net' = (net \ {p}) \union Reaching(sent) /\ UNCHANGED repeated
       \/ /\ lost + repeated < FAULTS
          /\ net' = net \union Reaching(sent) /\ repeated' = repeated + 1
    /\ UNCHANGED <<state, lost, audience>>

Known(n, from) == from \in Range(targets[n])

\* "message from unknown client. disregarding"
DropUnknown(p) ==
    /\ p.kind = "message" /\ ~Known(p.to, p.from)
    /\ Receive(p, {})
    /\ UNCHANGED <<targets, digests, latest, shown>>

Forward_NotLast(n, from, m) ==
    { Message(n, to, m) : to \in Range(SubSeq(targets[n], 1, Len(targets[n]) - 1)) \ {from} }

\* m is passed on to all targets but the one it came from.
Forward(n, from, m) == { Message(n, to, m) : to \in Range(targets[n]) \ {from} }

DropSeen_PassesOn(p) ==
    /\ p.kind = "message" /\ Known(p.to, p.from) /\ messageSeen(p.to, p.mes)
    /\ Receive(p, Forward(p.to, p.from, p.mes))
    /\ UNCHANGED <<targets, digests, latest, shown>>

DropSeen(p) ==
    /\ p.kind = "message" /\ Known(p.to, p.from) /\ messageSeen(p.to, p.mes)
    /\ Receive(p, {})
    /\ UNCHANGED <<targets, digests, latest, shown>>

ShowAndForward(p) ==
    /\ p.kind = "message" /\ Known(p.to, p.from) /\ ~messageSeen(p.to, p.mes)
    /\ Receive(p, Forward(p.to, p.from, p.mes))
    /\ shown' = [shown EXCEPT ![p.to] = Append(@, p.mes)]
    /\ Record(p.to, p.mes)
    /\ UNCHANGED targets

\* The sender becomes a target, even if it is one already.
HandleRegister(p) ==
    /\ p.kind = "register"
    /\ Receive(p, {})
    /\ targets' = [targets EXCEPT ![p.to] = Append(@, p.from)]
    /\ UNCHANGED <<digests, latest, shown>>

DropAt(slots, j, n) == IF j <= Len(slots) /\ slots[j] = n THEN DropSlot(slots, j) ELSE slots

\* The loop over the slots does not look again at the one it just overwrote.
Without(ts, n) ==
    LET slots[j \in 0 .. Len(ts)] ==
            IF j = 0 THEN ts ELSE DropAt(slots[j - 1], j, n)
    IN  slots[Len(ts)]

AddNew(slots, r) == IF r \in Range(slots) THEN slots ELSE Append(slots, r)

With_Again(ts, rs) == ts \o rs

\* The nodes of rs that are not there yet are added.
With(ts, rs) ==
    LET slots[i \in 0 .. Len(rs)] ==
            IF i = 0 THEN ts ELSE AddNew(slots[i - 1], rs[i])
    IN  slots[Len(rs)]

\* The sender is replaced by the nodes it names, if they are not there yet.
HandleRedirect(p) ==
    /\ p.kind = "redirect"
    /\ Receive(p, {})
    /\ targets' = [targets EXCEPT ![p.to] = With(Without(@, p.from), p.redirects)]
    /\ UNCHANGED <<digests, latest, shown>>

HandlePacket(p) ==
    \/ DropUnknown(p) \/ DropSeen(p) \/ ShowAndForward(p)
    \/ HandleRegister(p) \/ HandleRedirect(p)
-----------------------------------------------------------------------------
(* The terminal, signals and the network.                                  *)

\* m is typed, at once or after the packet that came in the same turn.
Type(n, m) ==
    /\ n \in Up /\ Author[m] = n /\ m \notin Range(shown[n])
    /\ atStdin' = [atStdin EXCEPT ![n] = FALSE]
    /\ Record(n, m)
    /\ shown' = [shown EXCEPT ![n] = Append(@, m)]
    /\ net' = net \union Reaching({ Message(n, to, m) : to \in Range(targets[n]) })
    /\ audience' = [audience EXCEPT ![m] = IF Settled /\ Connected THEN Up ELSE {}]
    /\ UNCHANGED <<state, targets, lost, repeated>>

\* '?' or '!' is typed.
Query(n) ==
    /\ n \in Up /\ atStdin[n]
    /\ atStdin' = [atStdin EXCEPT ![n] = FALSE]
    /\ Wrapped(n, latest[n])
    /\ UNCHANGED <<state, targets, digests, shown, net, lost, repeated, audience>>

Farewell_NotLast(n) ==
    { Redirect(n, targets[n][1], <<targets[n][i]>>) : i \in 2 .. Len(targets[n]) - 1 }
      \union { Redirect(n, targets[n][i], <<targets[n][1]>>) : i \in 2 .. Len(targets[n]) - 1 }

\* The first target takes over for n; a single one gets a null redirect.
Farewell(n) ==
    IF Len(targets[n]) = 1 THEN { Redirect(n, targets[n][1], <<>>) }
    ELSE { Redirect(n, targets[n][1], <<targets[n][i]>>) : i \in 2 .. Len(targets[n]) }
           \union { Redirect(n, targets[n][i], <<targets[n][1]>>) : i \in 2 .. Len(targets[n]) }

Gone(n, sent) ==
    /\ n \in Up
    /\ state' = [state EXCEPT ![n] = "gone"]
    /\ net' = { p \in net \union Reaching(sent) : p.to # n }
    /\ UNCHANGED <<atStdin, targets, digests, latest, shown, lost, repeated, audience>>

\* control-C
Leave(n) == Gone(n, Farewell(n))

\* m is typed in the turn in which the last slot was filled, and there is no
\* memory to write its digest to.
Overrun(n, m) ==
    /\ atStdin[n] /\ latest[n] = MAX_DIGESTS
    /\ Author[m] = n /\ m \notin Range(shown[n])
    /\ Gone(n, {})

\* Any other signal makes select fail, SIGUSR1, which has a handler, as well.
Interrupt(n) == ~atStdin[n] /\ Gone(n, {})

Lose(p) ==
    /\ lost + repeated < FAULTS
    /\ lost' = lost + 1
    /\ net' = net \ {p}
    /\ UNCHANGED <<nodeVars, repeated, audience>>

Next ==
    \/ \E n \in Nodes : Start(n) \/ Query(n) \/ Leave(n) \/ Interrupt(n)
    \/ \E m \in Messages : Type(Author[m], m) \/ Overrun(Author[m], m)
    \/ \E p \in net : HandlePacket(p) \/ Lose(p)

\* Nodes run, and what stdin has is read; nobody has to type, start or leave.
Fairness ==
    /\ \A n \in Nodes : WF_vars(Query(n))
    /\ WF_vars(\E p \in net : HandlePacket(p))

Spec == Init /\ [][Next]_vars /\ Fairness

(* Nodes leave one after the other, with control-C: one leaves when the      *)
(* redirects of the one before it have been received, and registrations too. *)
OrderlyNext ==
    \/ \E n \in Nodes : Start(n) \/ Query(n) \/ (Settled /\ Leave(n))
    \/ \E m \in Messages : Type(Author[m], m)
    \/ \E p \in net : HandlePacket(p)

OrderlySpec == Init /\ [][OrderlyNext]_vars /\ Fairness
-----------------------------------------------------------------------------
(* Type correctness; at the top of the loop the next slot is in the record. *)
MessengerTypeOK ==
    /\ state \in [Nodes -> {"off", "up", "gone"}]
    /\ atStdin \in [Nodes -> BOOLEAN]
    /\ targets \in [Nodes -> Seq(Nodes)]
    /\ digests \in [Nodes -> [0 .. MAX_DIGESTS - 1 -> Digests]]
    /\ latest \in [Nodes -> 0 .. MAX_DIGESTS]
    /\ \A n \in Nodes : ~atStdin[n] => latest[n] < MAX_DIGESTS
    /\ shown \in [Nodes -> Seq(Messages)]
    /\ net \subseteq Packets
    /\ lost \in Nat /\ repeated \in Nat /\ lost + repeated <= FAULTS
    /\ audience \in [Messages -> SUBSET Nodes]

(***************************************************************************)
(* What is shown at a node was typed at its author, and is shown once and  *)
(* never comes back as new to its author, whatever cycles the mesh has and *)
(* however packets are reordered, lost or repeated ("its hash is recorded  *)
(* ... the message is assumed to be a repeat and is discarded",            *)
(* hw3/messenger.c:9-11), unless a copy comes after MAX_DIGESTS others     *)
(* were shown, or something is typed when the record is past its end.      *)
(***************************************************************************)
Terminals == INSTANCE Broadcast
ImplementsBroadcast == Terminals!Spec

(***************************************************************************)
(* No node is a target twice, or its own target: targets, which has        *)
(* MAXTARGETS slots and no check of them (hw3/messenger.c:308 and 359),    *)
(* suffices for a mesh of MAXTARGETS + 1 nodes, though nodes take over the *)
(* neighbours of others that leave.                                        *)
(***************************************************************************)
SlotsSuffice ==
    \A n \in Nodes : IsInjective(targets[n]) /\ n \notin Range(targets[n])

(***************************************************************************)
(* When nothing is under way any more, a message that was typed in a whole *)
(* mesh has been shown at every node that was there, unless one of them    *)
(* left or a packet was lost: the nodes that know a message and pass       *)
(* nothing on (hw3/messenger.c:275-279) cut nobody off.                    *)
(***************************************************************************)
Delivered ==
    net = {} /\ lost = 0 =>
        \A m \in Messages : audience[m] \subseteq Up =>
            \A n \in audience[m] : m \in Range(shown[n])

(***************************************************************************)
(* Every flood comes to its end: messages do not go round in the cycles of *)
(* the mesh for ever.                                                      *)
(***************************************************************************)
FloodEnds == <>[](net = {})

(***************************************************************************)
(* "When nodes leave the network, they fix the hole they would've left"    *)
(* (hw3/messenger.c:13): whoever leaves, whatever order the redirects of a *)
(* departure and the registrations of new nodes arrive in, the nodes that  *)
(* are left are connected by links that both ends know.                    *)
(***************************************************************************)
MeshStaysConnected == Settled => Connected

(***************************************************************************)
(* What a node discards as a repeat is a message whose digest is in its    *)
(* record ("Take a digest and see if it is in the provided list of         *)
(* digests", hw3/messenger.c:107-109).                                     *)
(***************************************************************************)
OnlyRepeatsDiscarded ==
    [][\A p \in net : DropSeen(p) => Digest[p.mes] \in Range(digests[p.to])]_vars
=============================================================================
