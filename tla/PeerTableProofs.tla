-------------------------- MODULE PeerTableProofs --------------------------
(***************************************************************************)
(* Theorems about the peer table of hw4 and hw5, for every set of hosts    *)
(* and every limit STALE.                                                  *)
(***************************************************************************)
EXTENDS PeerTable, ListLemmas

Entry == [address : Hosts, age : 0 .. STALE]

\* The receiver has passed over no entry of the host it looks for.
SearchOK ==
    rpc = "find" => \A i \in DOMAIN peers : i < rz => peers[i].address # sender

\* Nothing is shown beyond the table, or outside of the printer's hold of mutex1.
PrinterOK ==
    /\ ppc = "sleep" => shown = <<>>
    /\ Len(shown) <= Len(peers)
    /\ \A i \in 1 .. Len(shown) : shown[i] = peers[i]

IInv == PeersTypeOK /\ OneEntryPerHost /\ SearchOK /\ PrinterOK
-----------------------------------------------------------------------------
(* The table.                                                              *)

\* OneEntryPerHost and AgeOf, of any table.
OneEach(ps) == \A i, k \in DOMAIN ps : ps[i].address = ps[k].address => i = k

AgeIn(ps, h) == IF \E i \in DOMAIN ps : ps[i].address = h
                THEN ps[CHOOSE i \in DOMAIN ps : ps[i].address = h].age
                ELSE STALE + 1

\* With one entry per host, the age of a host is that of its entry.
LEMMA AgeOfEntry ==
  ASSUME NEW ps, OneEach(ps), NEW i \in DOMAIN ps
  PROVE  AgeIn(ps, ps[i].address) = ps[i].age
<1> DEFINE h == ps[i].address
           k == CHOOSE j \in DOMAIN ps : ps[j].address = h
<1>1. k \in DOMAIN ps /\ ps[k].address = h
  OBVIOUS
<1>2. k = i
  BY <1>1 DEF OneEach
<1> QED
  BY <1>2 DEF AgeIn

\* A host without an entry counts as stale.
LEMMA AgeOfStranger ==
  ASSUME NEW ps, NEW h, \A i \in DOMAIN ps : ps[i].address # h
  PROVE  AgeIn(ps, h) = STALE + 1
  BY DEF AgeIn

\* An entry changes its age, or a new one comes last.
WithAge(ps, i, a) == [ps EXCEPT ![i].age = a]
WithEntry(ps, e) == Append(ps, e)

\* Setting the age of an entry changes the age of its host alone.
LEMMA SetAge ==
  ASSUME NEW ps \in Seq(Entry), OneEach(ps), NEW i \in 1 .. Len(ps), NEW a \in 0 .. STALE
  PROVE  /\ WithAge(ps, i, a) \in Seq(Entry) /\ OneEach(WithAge(ps, i, a))
         /\ \A h : AgeIn(WithAge(ps, i, a), h) =
                     IF h = ps[i].address THEN a ELSE AgeIn(ps, h)
<1> DEFINE new == WithAge(ps, i, a)
           e == [ps[i] EXCEPT !.age = a]
<1>1. DOMAIN ps = 1 .. Len(ps) /\ \A k \in 1 .. Len(ps) : ps[k] \in Entry
  OBVIOUS
<1>2. e \in Entry /\ e.address = ps[i].address /\ e.age = a
  BY <1>1 DEF Entry
<1>3. new = [ps EXCEPT ![i] = e]
  BY DEF WithAge
<1> HIDE DEF e, new
<1>4. /\ new \in Seq(Entry) /\ Len(new) = Len(ps)
      /\ \A k \in 1 .. Len(ps) : new[k] = IF k = i THEN e ELSE ps[k]
  BY <1>2, <1>3, ExceptSeq
<1>5. DOMAIN new = 1 .. Len(ps)
  BY <1>4
<1>6. \A k \in 1 .. Len(ps) : new[k].address = ps[k].address
  BY <1>2, <1>4
<1>7. OneEach(new)
  BY <1>1, <1>5, <1>6 DEF OneEach
<1>8. ASSUME NEW h PROVE AgeIn(new, h) = IF h = ps[i].address THEN a ELSE AgeIn(ps, h)
  <2>1. CASE h = ps[i].address
    BY <1>2, <1>4, <1>5, <1>7, <2>1, AgeOfEntry
  <2>2. CASE h # ps[i].address /\ \E k \in 1 .. Len(ps) : ps[k].address = h
    <3>1. PICK k \in 1 .. Len(ps) : ps[k].address = h
      BY <2>2
    <3>2. k # i /\ new[k] = ps[k]
      BY <1>4, <2>2, <3>1
    <3>3. AgeIn(new, new[k].address) = new[k].age /\ AgeIn(ps, ps[k].address) = ps[k].age
      BY <1>1, <1>5, <1>7, AgeOfEntry
    <3> QED
      BY <2>2, <3>1, <3>2, <3>3
  <2>3. CASE h # ps[i].address /\ ~ \E k \in 1 .. Len(ps) : ps[k].address = h
    BY <1>1, <1>5, <1>6, <2>3, AgeOfStranger
  <2> QED
    BY <2>1, <2>2, <2>3
<1> QED
  BY <1>4, <1>7, <1>8 DEF new

\* A host that is not in the table is entered.
LEMMA AddEntry ==
  ASSUME NEW ps \in Seq(Entry), OneEach(ps), NEW e \in Entry,
         \A k \in 1 .. Len(ps) : ps[k].address # e.address
  PROVE  /\ WithEntry(ps, e) \in Seq(Entry) /\ OneEach(WithEntry(ps, e))
         /\ \A h : AgeIn(WithEntry(ps, e), h) =
                     IF h = e.address THEN e.age ELSE AgeIn(ps, h)
<1> DEFINE new == WithEntry(ps, e)
<1>1. /\ new \in Seq(Entry) /\ Len(new) = Len(ps) + 1
      /\ \A k \in 1 .. Len(ps) : new[k] = ps[k]
      /\ new[Len(ps) + 1] = e
  BY AppendProperties DEF WithEntry
<1> HIDE DEF new
<1>2. DOMAIN ps = 1 .. Len(ps) /\ DOMAIN new = 1 .. Len(ps) + 1 /\ Len(ps) \in Nat
  BY <1>1
<1>3. OneEach(new)
  BY <1>1, <1>2 DEF OneEach
<1>4. ASSUME NEW h PROVE AgeIn(new, h) = IF h = e.address THEN e.age ELSE AgeIn(ps, h)
  <2>1. CASE h = e.address
    BY <1>1, <1>2, <1>3, <2>1, AgeOfEntry
  <2>2. CASE h # e.address /\ \E k \in 1 .. Len(ps) : ps[k].address = h
    <3>1. PICK k \in 1 .. Len(ps) : ps[k].address = h
      BY <2>2
    <3>2. AgeIn(new, new[k].address) = new[k].age /\ AgeIn(ps, ps[k].address) = ps[k].age
      BY <1>2, <1>3, AgeOfEntry
    <3> QED
      BY <1>1, <2>2, <3>1, <3>2
  <2>3. CASE h # e.address /\ ~ \E k \in 1 .. Len(ps) : ps[k].address = h
    <3>1. \A k \in DOMAIN new : new[k].address # h
      BY <1>1, <1>2, <2>3
    <3> QED
      BY <1>2, <2>3, <3>1, AgeOfStranger
  <2> QED
    BY <2>1, <2>2, <2>3
<1> QED
  BY <1>1, <1>3, <1>4 DEF new

\* An entry is dropped: its host is gone, and no other.
LEMMA DropEntry ==
  ASSUME NEW ps \in Seq(Entry), OneEach(ps), NEW i \in 1 .. Len(ps)
  PROVE  /\ DropSlot(ps, i) \in Seq(Entry) /\ OneEach(DropSlot(ps, i))
         /\ \A h : AgeIn(DropSlot(ps, i), h) =
                     IF h = ps[i].address THEN STALE + 1 ELSE AgeIn(ps, h)
<1> DEFINE new == DropSlot(ps, i)
           from(k) == IF k = i THEN Len(ps) ELSE k
<1>1. /\ new \in Seq(Entry) /\ Len(new) = Len(ps) - 1
      /\ \A k \in 1 .. Len(ps) - 1 : new[k] = IF k = i THEN ps[Len(ps)] ELSE ps[k]
  BY DropSlotElements
<1> HIDE DEF new
<1>2. DOMAIN ps = 1 .. Len(ps) /\ DOMAIN new = 1 .. Len(ps) - 1 /\ Len(ps) \in Nat
  BY <1>1
<1>3. \A k \in DOMAIN new : from(k) \in DOMAIN ps /\ from(k) # i /\ new[k] = ps[from(k)]
  BY <1>1, <1>2
<1>4. \A k, m \in DOMAIN new : from(k) = from(m) => k = m
  BY <1>2
<1> HIDE DEF from
<1>5. OneEach(new)
  BY <1>3, <1>4 DEF OneEach
<1>6. ASSUME NEW h
      PROVE  AgeIn(new, h) = IF h = ps[i].address THEN STALE + 1 ELSE AgeIn(ps, h)
  <2>1. CASE h = ps[i].address
    <3>1. \A k \in DOMAIN new : new[k].address # h
      BY <1>2, <1>3, <2>1 DEF OneEach
    <3> QED
      BY <2>1, <3>1, AgeOfStranger
  <2>2. CASE h # ps[i].address /\ \E k \in 1 .. Len(ps) : ps[k].address = h
    <3>1. PICK k \in 1 .. Len(ps) : ps[k].address = h
      BY <2>2
    <3>2. PICK m \in DOMAIN new : from(m) = k
      <4>1. k # i
        BY <2>2, <3>1
      <4>2. CASE k < Len(ps)
        <5>1. k \in DOMAIN new /\ from(k) = k
          BY <1>2, <4>1, <4>2 DEF from
        <5> QED
          BY <5>1
      <4>3. CASE k = Len(ps)
        <5>1. i \in DOMAIN new
          <6>1. i \in Nat /\ 1 <= i /\ i <= Len(ps) /\ i # Len(ps)
            BY <4>1, <4>3
          <6>2. Len(ps) \in Nat
            OBVIOUS
          <6>3. i <= Len(ps) - 1
            BY <6>1, <6>2
          <6>4. i \in 1 .. Len(ps) - 1
            BY <6>1, <6>2, <6>3
          <6> QED
            BY <1>2, <6>4, Zenon
        <5>2. from(i) = k
          BY <4>3 DEF from
        <5> QED
          BY <5>1, <5>2
      <4> QED
        BY <4>2, <4>3
    <3>3. new[m] = ps[k]
      BY <1>3, <3>2
    <3>4. AgeIn(new, new[m].address) = new[m].age /\ AgeIn(ps, ps[k].address) = ps[k].age
      BY <1>2, <1>5, AgeOfEntry
    <3> QED
      BY <2>2, <3>1, <3>3, <3>4
  <2>3. CASE h # ps[i].address /\ ~ \E k \in 1 .. Len(ps) : ps[k].address = h
    <3>1. \A k \in DOMAIN new : new[k].address # h
      BY <1>2, <1>3, <2>3
    <3> QED
      BY <1>2, <2>3, <3>1, AgeOfStranger
  <2> QED
    BY <2>1, <2>2, <2>3
<1> QED
  BY <1>1, <1>5, <1>6 DEF new
-----------------------------------------------------------------------------
(* The induction.                                                          *)

LEMMA InitIInv == Init => IInv
<1> SUFFICES ASSUME Init PROVE IInv
  OBVIOUS
<1>1. peers = <<>> /\ shown = <<>> /\ Len(peers) = 0 /\ DOMAIN peers = {}
  BY DEF Init
<1>2. PeersTypeOK
  BY <1>1 DEF Init, PeersTypeOK
<1>3. OneEntryPerHost /\ SearchOK /\ PrinterOK
  BY <1>1 DEF Init, OneEntryPerHost, SearchOK, PrinterOK
<1> QED
  BY <1>2, <1>3 DEF IInv

\* The threads and the others that leave the table as it is.
LEMMA TableUntouched ==
  ASSUME IInv, UNCHANGED peers, PeersTypeOK',
         \/ UNCHANGED <<rpc, sender, rz>>
         \/ rpc' # "find"
         \/ rz' = 1
         \/ UNCHANGED <<rpc, sender>> /\ rz' = rz + 1 /\ peers[rz].address # sender,
         UNCHANGED <<ppc, shown>> \/ shown' = <<>>
  PROVE  IInv'
<1>1. OneEntryPerHost'
  BY DEF IInv, OneEntryPerHost
<1>2. Len(peers) \in Nat /\ DOMAIN peers = 1 .. Len(peers) /\ rz \in Nat
  BY DEF IInv, PeersTypeOK
<1>3. SearchOK'
  BY <1>2 DEF IInv, SearchOK
<1>4. PrinterOK'
  BY <1>2 DEF IInv, PrinterOK
<1> QED
  BY <1>1, <1>3, <1>4 DEF IInv

\* When nobody else is in the table.
LEMMA TableChanged ==
  ASSUME IInv, mutex1 # "printer", PeersTypeOK', OneEach(peers'), SearchOK',
         UNCHANGED <<ppc, shown>>
  PROVE  IInv'
<1>1. ppc = "sleep" /\ shown = <<>> /\ Len(shown) = 0
  BY DEF IInv, PeersTypeOK, PrinterOK
<1>2. Len(peers') \in Nat
  BY DEF PeersTypeOK
<1>3. PrinterOK'
  BY <1>1, <1>2 DEF PrinterOK
<1> QED
  BY <1>3 DEF IInv, OneEach, OneEntryPerHost

\* What hosts and the network do, and a ping received, leaves the table alone.
LEMMA OthersKeepIInv ==
  ASSUME IInv, NEW h \in Hosts,
         StartHost(h) \/ StopHost(h) \/ Ping(h) \/ LosePing(h) \/ Recv(h)
  PROVE  IInv'
<1>1. PeersTypeOK'
  BY DEF IInv, PeersTypeOK, StartHost, StopHost, Ping, LosePing, Recv, receiver, cleaner, printer
<1>2. /\ UNCHANGED <<peers, ppc, shown>>
      /\ UNCHANGED <<rpc, sender, rz>> \/ rpc' # "find"
  BY DEF StartHost, StopHost, Ping, LosePing, Recv, receiver, cleaner, printer
<1> QED
  BY <1>1, <1>2, TableUntouched

\* A second passes: one entry is a second older.
LEMMA GrowOlderStep ==
  ASSUME IInv, NEW h \in Hosts, GrowOlder(h)
  PROVE  /\ IInv'
         /\ Members!GrowOlder(h)
<1>1. PICK i \in DOMAIN peers :
        /\ peers[i].address = h /\ peers[i].age < STALE
        /\ peers' = [peers EXCEPT ![i].age = peers[i].age + 1]
  BY DEF GrowOlder
<1>2. mutex1 = "free" /\ UNCHANGED <<mutex1, receiver, cleaner, printer, others>>
  BY DEF GrowOlder
<1>3. peers \in Seq(Entry) /\ OneEach(peers) /\ i \in 1 .. Len(peers)
  <2>1. peers \in Seq(Entry) /\ OneEach(peers)
    BY DEF IInv, PeersTypeOK, Entry, OneEntryPerHost, OneEach
  <2> QED
    BY <2>1
<1>4. PICK a \in 0 .. STALE : a = peers[i].age + 1
  <2>1. peers[i] \in Entry
    BY <1>3
  <2> QED
    BY <1>1, <2>1, PeerTableAssumption DEF Entry
<1>5. /\ peers' \in Seq(Entry) /\ OneEach(peers')
      /\ \A k : AgeIn(peers', k) = IF k = h THEN a ELSE AgeIn(peers, k)
  <2>1. peers' = WithAge(peers, i, a) /\ peers[i].address = h
    BY <1>1, <1>4 DEF WithAge
  <2> QED
    BY <1>3, <2>1, SetAge
<1>6. PeersTypeOK'
  BY <1>2, <1>5 DEF IInv, PeersTypeOK, Entry, receiver, cleaner, printer, others
<1>7. rpc' # "find"
  BY <1>2 DEF IInv, PeersTypeOK, receiver
<1>8. IInv'
  BY <1>2, <1>5, <1>6, <1>7, TableChanged DEF SearchOK, printer
<1>9. AgeIn(peers, h) = peers[i].age
  BY <1>1, <1>3, AgeOfEntry
<1>10. /\ \A k \in Hosts : AgeOf(k)' = IF k = h THEN AgeOf(k) + 1 ELSE AgeOf(k)
       /\ AgeOf(h) < STALE
  <2>1. \A k : AgeOf(k)' = AgeIn(peers', k) /\ AgeOf(k) = AgeIn(peers, k)
    BY DEF AgeOf, AgeIn, Listed
  <2> QED
    BY <1>1, <1>4, <1>5, <1>9, <2>1
<1> QED
  BY <1>2, <1>8, <1>10 DEF Members!GrowOlder, receiver
-----------------------------------------------------------------------------
(* The receiver.                                                           *)

LEMMA FindStep ==
  ASSUME IInv, StartFind \/ FindOn
  PROVE  IInv'
<1>1. PeersTypeOK'
  BY DEF IInv, PeersTypeOK, StartFind, FindOn, Lock, receiver, cleaner, printer, others
<1>2. /\ UNCHANGED <<peers, ppc, shown>>
      /\ rz' = 1 \/ (UNCHANGED <<rpc, sender>> /\ rz' = rz + 1 /\ peers[rz].address # sender)
  BY DEF StartFind, FindOn, printer
<1> QED
  BY <1>1, <1>2, TableUntouched

\* The receiver finds the host and makes it young.
LEMMA RefreshStep ==
  ASSUME IInv, Refresh
  PROVE  IInv' /\ Members!Enter(sender)
<1>1. /\ rpc = "find" /\ rz \in 1 .. Len(peers) /\ peers[rz].address = sender
      /\ peers' = [peers EXCEPT ![rz].age = 0]
      /\ mutex1' = "free" /\ rpc' = "recv"
      /\ UNCHANGED <<sender, rz, cleaner, printer, others>>
  BY DEF IInv, PeersTypeOK, Refresh, Unlock
<1>2. peers \in Seq(Entry) /\ OneEach(peers) /\ sender \in Hosts
  BY DEF IInv, PeersTypeOK, Entry, OneEntryPerHost, OneEach
<1>3. 0 \in 0 .. STALE
  BY PeerTableAssumption
<1>4. /\ peers' \in Seq(Entry) /\ OneEach(peers')
      /\ \A k : AgeIn(peers', k) = IF k = sender THEN 0 ELSE AgeIn(peers, k)
  <2>1. peers' = WithAge(peers, rz, 0) /\ rz \in 1 .. Len(peers) /\ peers[rz].address = sender
    BY <1>1 DEF WithAge
  <2> QED
    BY <1>2, <1>3, <2>1, SetAge
<1>5. PeersTypeOK'
  BY <1>1, <1>4 DEF IInv, PeersTypeOK, Entry, cleaner, printer, others
<1>6. IInv'
  BY <1>1, <1>4, <1>5, TableChanged DEF IInv, PeersTypeOK, SearchOK, printer
<1>7. \A k \in Hosts : AgeOf(k)' = IF k = sender THEN 0 ELSE AgeOf(k)
  BY <1>4 DEF AgeOf, AgeIn, Listed
<1> QED
  BY <1>1, <1>2, <1>6, <1>7 DEF Members!Enter

\* The receiver has searched the whole table and enters the host.
LEMMA EnterStep ==
  ASSUME IInv, Enter
  PROVE  IInv' /\ Members!Enter(sender)
<1>1. /\ rpc = "find" /\ rz > Len(peers) /\ rz \in Nat
      /\ peers' = Append(peers, [address |-> sender, age |-> 0])
      /\ mutex1' = "free" /\ rpc' = "recv"
      /\ UNCHANGED <<sender, rz, cleaner, printer, others>>
  BY DEF IInv, PeersTypeOK, Enter, Unlock
<1>2. peers \in Seq(Entry) /\ OneEach(peers) /\ sender \in Hosts
  BY DEF IInv, PeersTypeOK, Entry, OneEntryPerHost, OneEach
<1>3. \A k \in 1 .. Len(peers) : peers[k].address # sender
  BY <1>1, <1>2 DEF IInv, SearchOK
<1>4. PICK e : e \in Entry /\ e = [address |-> sender, age |-> 0]
               /\ e.address = sender /\ e.age = 0
  <2> DEFINE new == [address |-> sender, age |-> 0]
  <2>1. new \in Entry /\ new.address = sender /\ new.age = 0
    BY <1>2, PeerTableAssumption DEF Entry
  <2> QED
    BY <2>1
<1>5. /\ peers' \in Seq(Entry) /\ OneEach(peers')
      /\ \A k : AgeIn(peers', k) = IF k = sender THEN 0 ELSE AgeIn(peers, k)
  <2>1. peers' = WithEntry(peers, e) /\ \A k \in 1 .. Len(peers) : peers[k].address # e.address
    BY <1>1, <1>3, <1>4 DEF WithEntry
  <2> QED
    BY <1>2, <1>4, <2>1, AddEntry
<1>6. PeersTypeOK'
  BY <1>1, <1>5 DEF IInv, PeersTypeOK, Entry, cleaner, printer, others
<1>7. IInv'
  BY <1>1, <1>5, <1>6, TableChanged DEF IInv, PeersTypeOK, SearchOK, printer
<1>8. \A k \in Hosts : AgeOf(k)' = IF k = sender THEN 0 ELSE AgeOf(k)
  BY <1>5 DEF AgeOf, AgeIn, Listed
<1> QED
  BY <1>1, <1>2, <1>7, <1>8 DEF Members!Enter
-----------------------------------------------------------------------------
(* The cleaner.                                                            *)

LEMMA SweepStep ==
  ASSUME IInv, StartSweep \/ Keep \/ EndSweep
  PROVE  IInv'
<1>1. PeersTypeOK'
  BY DEF IInv, PeersTypeOK, StartSweep, Keep, EndSweep, Lock, Unlock, receiver, printer, others
<1>2. UNCHANGED <<peers, rpc, sender, rz, ppc, shown>>
  BY DEF StartSweep, Keep, EndSweep, receiver, printer
<1> QED
  BY <1>1, <1>2, TableUntouched

\* The cleaner moves the last entry over a stale one.
LEMMA PurgeStep ==
  ASSUME IInv, Purge
  PROVE  IInv' /\ Members!Forget(peers[cz].address)
<1> DEFINE h == peers[cz].address
<1>1. /\ cpc = "sweep" /\ cz \in 1 .. Len(peers) /\ peers[cz].age >= STALE
      /\ peers' = DropSlot(peers, cz)
      /\ cz' = cz + 1 /\ cz \in Nat
      /\ UNCHANGED <<mutex1, receiver, cpc, printer, others>>
  BY DEF IInv, PeersTypeOK, Purge, Stale
<1>2. peers \in Seq(Entry) /\ OneEach(peers) /\ peers[cz] \in Entry
  <2>1. peers \in Seq(Entry) /\ OneEach(peers)
    BY DEF IInv, PeersTypeOK, Entry, OneEntryPerHost, OneEach
  <2> QED
    BY <1>1, <2>1
<1>3. h \in Hosts /\ peers[cz].age = STALE
  BY <1>1, <1>2, PeerTableAssumption DEF Entry
<1>4. /\ peers' \in Seq(Entry) /\ OneEach(peers')
      /\ \A k : AgeIn(peers', k) = IF k = h THEN STALE + 1 ELSE AgeIn(peers, k)
  BY <1>1, <1>2, DropEntry
<1>5. PeersTypeOK'
  BY <1>1, <1>4 DEF IInv, PeersTypeOK, Entry, receiver, printer, others
<1>6. rpc' # "find" /\ mutex1 = "cleaner"
  BY <1>1 DEF IInv, PeersTypeOK, receiver
<1>7. IInv'
  BY <1>1, <1>4, <1>5, <1>6, TableChanged DEF SearchOK, printer
<1>8. AgeIn(peers, h) = STALE
  BY <1>1, <1>2, <1>3, AgeOfEntry
<1>9. /\ \A k \in Hosts : AgeOf(k)' = IF k = h THEN STALE + 1 ELSE AgeOf(k)
      /\ AgeOf(h) = STALE
  BY <1>4, <1>8 DEF AgeOf, AgeIn, Listed
<1> QED
  BY <1>1, <1>3, <1>7, <1>9 DEF Members!Forget, receiver
-----------------------------------------------------------------------------
(* The printer.                                                            *)

LEMMA PrintStep ==
  ASSUME IInv, StartPrint \/ EndPrint
  PROVE  IInv'
<1>1. PeersTypeOK'
  <2>1. shown' \in Seq([address : Hosts, age : 0 .. STALE])
    BY EmptySeq DEF StartPrint, EndPrint
  <2> QED
    BY <2>1
    DEF IInv, PeersTypeOK, StartPrint, EndPrint, Lock, Unlock, receiver, cleaner, others
<1>2. UNCHANGED <<peers, rpc, sender, rz>> /\ shown' = <<>>
  BY DEF StartPrint, EndPrint, receiver
<1> QED
  BY <1>1, <1>2, TableUntouched

\* The printer goes on by an entry.
LEMMA PrintEntryStep ==
  ASSUME IInv, PrintEntry
  PROVE  IInv'
<1> DEFINE n == Len(shown) + 1
<1>1. /\ ppc = "print" /\ Len(shown) < Len(peers)
      /\ shown' = Append(shown, peers[n])
      /\ UNCHANGED <<peers, mutex1, receiver, cleaner, ppc, others>>
  BY DEF PrintEntry
<1>2. peers \in Seq(Entry) /\ shown \in Seq(Entry)
  BY DEF IInv, PeersTypeOK, Entry
<1>3. n \in 1 .. Len(peers) /\ peers[n] \in Entry
  BY <1>1, <1>2
<1>4. /\ shown' \in Seq(Entry) /\ Len(shown') = n /\ shown'[n] = peers[n]
      /\ \A i \in 1 .. Len(shown) : shown'[i] = shown[i]
  BY <1>1, <1>2, <1>3, AppendProperties
<1>5. PeersTypeOK'
  BY <1>1, <1>4 DEF IInv, PeersTypeOK, Entry, receiver, cleaner, others
<1>6. PrinterOK'
  BY <1>1, <1>2, <1>3, <1>4 DEF IInv, PrinterOK
<1>7. OneEntryPerHost' /\ SearchOK'
  BY <1>1 DEF IInv, OneEntryPerHost, SearchOK, receiver
<1> QED
  BY <1>5, <1>6, <1>7 DEF IInv
-----------------------------------------------------------------------------
(* The theorems.                                                           *)

\* All steps keep the invariant; those the abstract table sees are its steps.
LEMMA NextKeepsIInv ==
  ASSUME IInv, [Next]_vars
  PROVE  IInv' /\ [Members!Next]_(Members!vars)
<1>1. CASE \E h \in Hosts : StartHost(h) \/ StopHost(h) \/ Ping(h) \/ LosePing(h)
  <2>1. IInv'
    BY <1>1, OthersKeepIInv
  <2>2. UNCHANGED <<peers, rpc, sender>>
    BY <1>1 DEF StartHost, StopHost, Ping, LosePing, receiver
  <2> QED
    BY <2>1, <2>2 DEF Members!vars, AgeOf, Listed
<1>2. ASSUME NEW h \in Hosts, GrowOlder(h)
      PROVE  IInv' /\ Members!Next
  BY <1>2, GrowOlderStep DEF Members!Next
<1>3. ASSUME NEW h \in Hosts, Recv(h)
      PROVE  IInv' /\ Members!Next
  <2>1. IInv'
    BY <1>3, OthersKeepIInv
  <2>2. rpc = "recv" /\ rpc' = "lock" /\ sender' = h /\ peers' = peers
    BY <1>3 DEF Recv
  <2>3. Members!Hear(h)
    BY <2>2 DEF Members!Hear, AgeOf, Listed
  <2> QED
    BY <2>1, <2>3 DEF Members!Next
<1>4. CASE StartFind \/ FindOn
  <2>1. UNCHANGED <<peers, sender>> /\ rpc # "recv" /\ rpc' # "recv"
    BY <1>4 DEF StartFind, FindOn
  <2> QED
    BY <1>4, <2>1, FindStep DEF Members!vars, AgeOf, Listed
<1>5. CASE Refresh \/ Enter
  <2>1. sender \in Hosts
    BY DEF IInv, PeersTypeOK
  <2> QED
    BY <1>5, <2>1, RefreshStep, EnterStep DEF Members!Next
<1>6. CASE StartSweep \/ Keep \/ EndSweep
  <2>1. UNCHANGED <<peers, rpc, sender>>
    BY <1>6 DEF StartSweep, Keep, EndSweep, receiver
  <2> QED
    BY <1>6, <2>1, SweepStep DEF Members!vars, AgeOf, Listed
<1>7. CASE Purge
  <2>1. peers[cz].address \in Hosts
    <3>1. peers \in Seq(Entry) /\ cz \in 1 .. Len(peers)
      BY <1>7 DEF IInv, PeersTypeOK, Entry, Purge
    <3>2. peers[cz] \in Entry
      BY <3>1
    <3> QED
      BY <3>2 DEF Entry
  <2> QED
    BY <1>7, <2>1, PurgeStep DEF Members!Next
<1>8. CASE Printer
  <2>1. UNCHANGED <<peers, rpc, sender>>
    BY <1>8 DEF Printer, StartPrint, PrintEntry, EndPrint, receiver
  <2> QED
    BY <1>8, <2>1, PrintStep, PrintEntryStep DEF Printer, Members!vars, AgeOf, Listed
<1>9. CASE UNCHANGED vars
  <2>1. UNCHANGED <<peers, mutex1, rpc, sender, rz, cpc, cz, ppc, shown, alive, pings>>
    BY <1>9 DEF vars, receiver, cleaner, printer, others
  <2>2. PeersTypeOK'
    BY <2>1 DEF IInv, PeersTypeOK
  <2> QED
    BY <2>1, <2>2, TableUntouched DEF Members!vars, AgeOf, Listed
<1> QED
  BY <1>1, <1>2, <1>3, <1>4, <1>5, <1>6, <1>7, <1>8, <1>9 DEF Next, Receiver, Cleaner

\* The inductive invariant holds always.
LEMMA InvariantHolds == Spec => []IInv
  BY InitIInv, NextKeepsIInv, PTL DEF Spec

(***************************************************************************)
(* A thread is in the table only when it has mutex1, whatever the three    *)
(* threads do (hw4/receiver.c:130, 153 and 212).                           *)
(***************************************************************************)
THEOREM PeersTypeCorrect == Spec => []PeersTypeOK
  BY InvariantHolds, PTL DEF IInv

(***************************************************************************)
(* No host is entered twice, whatever the cleaner moves between two        *)
(* searches of the receiver (hw4/receiver.c:209-228).                      *)
(***************************************************************************)
THEOREM HostsHaveOneEntry == Spec => []OneEntryPerHost
  BY InvariantHolds, PTL DEF IInv

(***************************************************************************)
(* What is printed is a part of one state of the table                     *)
(* (hw4/receiver.c:130-141).                                               *)
(***************************************************************************)
THEOREM PrinterIsConsistent == Spec => []ShowsOneState
<1>1. IInv => ShowsOneState
  <2> SUFFICES ASSUME IInv PROVE ShowsOneState
    OBVIOUS
  <2> DEFINE n == Len(shown)
  <2>1. /\ shown \in Seq(Entry) /\ peers \in Seq(Entry) /\ n \in 0 .. Len(peers)
        /\ \A i \in 1 .. n : shown[i] = peers[i]
    <3>1. shown \in Seq(Entry) /\ peers \in Seq(Entry)
      BY DEF IInv, PeersTypeOK, Entry
    <3> QED
      BY <3>1 DEF IInv, PrinterOK
  <2>2. \A i \in 1 .. n : peers[i] \in Entry
    BY <2>1
  <2>3. n \in Nat /\ n - 1 + 1 = n /\ \A i \in 1 .. n : 1 + i - 1 = i
    BY <2>1
  <2> HIDE DEF n
  <2>4. /\ SubSeq(peers, 1, n) \in Seq(Entry) /\ Len(SubSeq(peers, 1, n)) = n
        /\ \A i \in 1 .. n : SubSeq(peers, 1, n)[i] = peers[i]
    BY <2>2, <2>3, SubSeqProperties
  <2>5. Len(shown) = n
    BY DEF n
  <2>6. shown = SubSeq(peers, 1, n)
    BY <2>1, <2>4, <2>5, SeqEqual
  <2> QED
    BY <2>5, <2>6 DEF ShowsOneState
<1> QED
  BY <1>1, InvariantHolds, PTL

(***************************************************************************)
(* The table implements Membership: a host comes in only when its ping was *)
(* received, ages by the second and goes only when it is STALE seconds     *)
(* old; the slot that is moved loses nobody (hw4/receiver.c:155-167).      *)
(***************************************************************************)
THEOREM TableIsMembership == Spec => ImplementsMembership
<1>1. Init => Members!Init
  <2> SUFFICES ASSUME Init PROVE Members!Init
    OBVIOUS
  <2>1. rpc = "recv" /\ \A h : ~Listed(h)
    BY DEF Init, Listed
  <2> QED
    BY <2>1 DEF Members!Init, AgeOf
<1> QED
  BY <1>1, InvariantHolds, NextKeepsIInv, PTL DEF Spec, ImplementsMembership, Members!Spec
=============================================================================
