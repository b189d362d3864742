----------------------------- MODULE PeerTable -----------------------------
(***************************************************************************)
(* hw4/receiver.c: a host's table of the hosts it hears from.  Its         *)
(* receiver thread enters those whose pings come, its cleaner thread takes *)
(* out those that have not pinged for STALE seconds, and its printer       *)
(* thread shows the table; mutex1 keeps them apart.  hw5/session.c has the *)
(* same threads and table, with STALE = 1.                                 *)
(*                                                                         *)
(* One action is one turn of a loop over the table, so that all            *)
(* interleavings the mutex allows, and no others, can happen.              *)
(***************************************************************************)
EXTENDS Slots

CONSTANTS Hosts,  \* the hosts on the subnet
          STALE   \* seconds after which an entry is purged, 5 in the code

ASSUME PeerTableAssumption == STALE \in Nat \ {0}

VARIABLES
  \* shared
  peers,   \* peers[1 .. num_peers]: [address, age], the age in full seconds
  mutex1,  \* "free", or the thread that has it
  \* the receiver
  rpc,     \* "recv", "lock" or "find"
  sender,  \* the host whose ping came
  rz,      \* the slot it looks at
  \* the cleaner
  cpc,     \* "sleep" or "sweep"
  cz,      \* the slot it looks at
  \* the printer
  ppc,     \* "sleep" or "print"
  shown,   \* the entries it has printed this time
  \* the other hosts and the network
  alive,   \* hosts that are running
  pings    \* hosts with a ping under way

receiver == <<rpc, sender, rz>>
cleaner == <<cpc, cz>>
printer == <<ppc, shown>>
others == <<alive, pings>>
vars == <<peers, mutex1, receiver, cleaner, printer, others>>

Init ==
    /\ peers = <<>> /\ mutex1 = "free"
    /\ rpc = "recv" /\ sender \in Hosts /\ rz = 1
    /\ cpc = "sleep" /\ cz = 1
    /\ ppc = "sleep" /\ shown = <<>>
    /\ alive = {} /\ pings = {}

Listed(h) == \E i \in DOMAIN peers : peers[i].address = h
-----------------------------------------------------------------------------
(* The other hosts: a pinger, which may be started and killed.             *)

StartHost(h) ==
    /\ h \notin alive /\ alive' = alive \union {h}
    /\ UNCHANGED <<peers, mutex1, receiver, cleaner, printer, pings>>

StopHost(h) ==
    /\ h \in alive /\ alive' = alive \ {h}
    /\ UNCHANGED <<peers, mutex1, receiver, cleaner, printer, pings>>

Ping(h) ==
    /\ h \in alive /\ pings' = pings \union {h}
    /\ UNCHANGED <<peers, mutex1, receiver, cleaner, printer, alive>>

\* Nobody sees the difference between a ping lost at once and one lost when the
\* receiver would be ready for it.
LosePing(h) ==
    /\ rpc = "recv" /\ h \in pings /\ pings' = pings \ {h}
    /\ UNCHANGED <<peers, mutex1, receiver, cleaner, printer, alive>>

(* A second is over for an entry.  Ages do not change while a thread is in   *)
(* the table: the cleaner takes the time once, when it has the mutex, and a  *)
(* second that ends while the receiver looks for an entry ends as well       *)
(* before it starts looking.                                                 *)
GrowOlder(h) ==
    /\ mutex1 = "free"
    /\ \E i \in DOMAIN peers :
         /\ peers[i].address = h /\ peers[i].age < STALE
         /\ peers' = [peers EXCEPT ![i].age = @ + 1]
    /\ UNCHANGED <<mutex1, receiver, cleaner, printer, others>>
-----------------------------------------------------------------------------
(* The receiver.                                                           *)

Lock_Ignored(thread) == mutex1' = mutex1

Lock(thread) == mutex1 = "free" /\ mutex1' = thread

Unlock == mutex1' = "free"

Recv(h) ==
    /\ rpc = "recv" /\ h \in pings
    /\ pings' = pings \ {h} /\ sender' = h
    /\ rpc' = "lock"
    /\ UNCHANGED <<peers, mutex1, rz, cleaner, printer, alive>>

StartFind ==
    /\ rpc = "lock" /\ Lock("receiver")
    /\ rz' = 1
    /\ rpc' = "find"
    /\ UNCHANGED <<peers, sender, cleaner, printer, others>>

FindOn ==
    /\ rpc = "find" /\ rz <= Len(peers) /\ peers[rz].address # sender
    /\ rz' = rz + 1
    /\ UNCHANGED <<peers, mutex1, rpc, sender, cleaner, printer, others>>

\* The entry is there: its time is now.
Refresh ==
    /\ rpc = "find" /\ rz <= Len(peers) /\ peers[rz].address = sender
    /\ peers' = [peers EXCEPT ![rz].age = 0]
    /\ Unlock /\ rpc' = "recv"
    /\ UNCHANGED <<sender, rz, cleaner, printer, others>>

Enter_NotCounted ==
    /\ rpc = "find" /\ rz > Len(peers)
    /\ Unlock /\ rpc' = "recv"
    /\ UNCHANGED <<peers, sender, rz, cleaner, printer, others>>

\* It is not: it comes last.
Enter ==
    /\ rpc = "find" /\ rz > Len(peers)
    /\ peers' = Append(peers, [address |-> sender, age |-> 0])
    /\ Unlock /\ rpc' = "recv"
    /\ UNCHANGED <<sender, rz, cleaner, printer, others>>
-----------------------------------------------------------------------------
(* The cleaner.                                                            *)

StartSweep ==
    /\ cpc = "sleep" /\ Lock("cleaner")
    /\ cz' = 1
    /\ cpc' = "sweep"
    /\ UNCHANGED <<peers, receiver, printer, others>>

Stale_Sooner(entry) == entry.age >= STALE - 1

Stale(entry) == entry.age >= STALE

\* The last entry is put into the slot of the stale one, and not looked at.
Purge ==
    /\ cpc = "sweep" /\ cz <= Len(peers) /\ Stale(peers[cz])
    /\ peers' = DropSlot(peers, cz)
    /\ cz' = cz + 1
    /\ UNCHANGED <<mutex1, receiver, cpc, printer, others>>

Keep ==
    /\ cpc = "sweep" /\ cz <= Len(peers) /\ ~Stale(peers[cz])
    /\ cz' = cz + 1
    /\ UNCHANGED <<peers, mutex1, receiver, cpc, printer, others>>

Swept_BeforeLast == cz >= Len(peers)

Swept == cz > Len(peers)

EndSweep ==
    /\ cpc = "sweep" /\ Swept
    /\ Unlock /\ cpc' = "sleep"
    /\ UNCHANGED <<peers, receiver, cz, printer, others>>
-----------------------------------------------------------------------------
(* The printer.                                                            *)

StartPrint ==
    /\ ppc = "sleep" /\ Lock("printer")
    /\ shown' = <<>>
    /\ ppc' = "print"
    /\ UNCHANGED <<peers, receiver, cleaner, others>>

PrintEntry ==
    /\ ppc = "print" /\ Len(shown) < Len(peers)
    /\ shown' = Append(shown, peers[Len(shown) + 1])
    /\ UNCHANGED <<peers, mutex1, receiver, cleaner, ppc, others>>

EndPrint ==
    /\ ppc = "print" /\ Len(shown) >= Len(peers)
    /\ Unlock /\ ppc' = "sleep"
    /\ shown' = <<>>
    /\ UNCHANGED <<peers, receiver, cleaner, others>>
-----------------------------------------------------------------------------
Receiver == StartFind \/ FindOn \/ Refresh \/ Enter
Cleaner == StartSweep \/ Purge \/ Keep \/ EndSweep
Printer == StartPrint \/ PrintEntry \/ EndPrint

Next ==
    \/ \E h \in Hosts : StartHost(h) \/ StopHost(h) \/ Ping(h) \/ LosePing(h)
                        \/ GrowOlder(h) \/ Recv(h)
    \/ Receiver \/ Cleaner \/ Printer

\* The threads run, and all get the mutex again and again; a host that runs
\* pings, and not all its pings are lost; time passes.
Fairness ==
    /\ SF_vars(StartFind) /\ SF_vars(StartSweep)
    /\ WF_vars(FindOn \/ Refresh \/ Enter)
    /\ WF_vars(Purge \/ Keep \/ EndSweep)
    /\ WF_vars(PrintEntry \/ EndPrint)
    /\ \A h \in Hosts : WF_vars(Ping(h)) /\ SF_vars(Recv(h)) /\ SF_vars(GrowOlder(h))

Spec == Init /\ [][Next]_vars /\ Fairness
-----------------------------------------------------------------------------
(* Type correctness; the thread that is in the table has the mutex.        *)
PeersTypeOK ==
    /\ peers \in Seq([address : Hosts, age : 0 .. STALE])
    /\ mutex1 \in {"free", "receiver", "cleaner", "printer"}
    /\ rpc \in {"recv", "lock", "find"}
    /\ cpc \in {"sleep", "sweep"}
    /\ rpc = "find" <=> mutex1 = "receiver"
    /\ cpc = "sweep" <=> mutex1 = "cleaner"
    /\ ppc \in {"sleep", "print"}
    /\ ppc = "print" <=> mutex1 = "printer"
    /\ shown \in Seq([address : Hosts, age : 0 .. STALE])
    /\ sender \in Hosts
    /\ rz \in Nat \ {0} /\ cz \in Nat \ {0}
    /\ alive \subseteq Hosts /\ pings \subseteq Hosts

(***************************************************************************)
(* A host has one entry ("if so, update it's timestamp otherwise add an    *)
(* entry", hw4/receiver.c:209), although the cleaner moves entries about   *)
(* between two searches.                                                   *)
(***************************************************************************)
OneEntryPerHost ==
    \A i, k \in DOMAIN peers : peers[i].address = peers[k].address => i = k

(***************************************************************************)
(* What the printer shows at one time is one state of the table ("lock my  *)
(* state table so it doesn't get edited while I'm printing",               *)
(* hw4/receiver.c:130): no host is left out or shown twice because the     *)
(* cleaner moved an entry meanwhile.                                       *)
(***************************************************************************)
ShowsOneState == shown = SubSeq(peers, 1, Len(shown))

(***************************************************************************)
(* The slots implement a set of hosts with ages: a host comes in, or young *)
(* again, only when a ping of it has come, and disappears only when it has *)
(* not been heard of for STALE seconds ("cleans out stale entries",        *)
(* hw4/receiver.c:11).  No entry gets lost, or lives on in a second slot,  *)
(* when the last one is moved to the slot of another.                      *)
(***************************************************************************)
AgeOf(h) == IF Listed(h) THEN peers[CHOOSE i \in DOMAIN peers : peers[i].address = h].age
            ELSE STALE + 1
Members == INSTANCE Membership WITH age <- [h \in Hosts |-> AgeOf(h)],
                                    heard <- IF rpc = "recv" THEN {} ELSE {sender}
ImplementsMembership == Members!Spec

(***************************************************************************)
(* A host that has stopped for good disappears in the end, although a      *)
(* sweep passes over the entry that it moves (hw4/receiver.c:155-167).     *)
(***************************************************************************)
DeadForgotten == \A h \in Hosts : <>[](h \notin alive) => <>[]~Listed(h)

(***************************************************************************)
(* A host that runs is in the table again and again, if not always.        *)
(***************************************************************************)
LiveListed == \A h \in Hosts : <>[](h \in alive) => []<>Listed(h)
=============================================================================
