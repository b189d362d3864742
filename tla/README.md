# A verification of comp112

The repository holds five small network programs in C, one directory each:

| directory | program | processes and threads | transport |
|---|---|---|---|
| `src/hw1` | a web server that shows its last requests on a status page | one thread | TCP |
| `src/hw2` | a file transfer that works over a bad network: server and client | server of two threads, any number of clients | UDP |
| `src/hw3` | a peer-to-peer messenger | one select loop per node | UDP |
| `src/hw4` | a table of the hosts of a subnet, kept by broadcast pings | four threads per host | UDP broadcast |
| `src/hw5` | a replicated key-value store on top of the table of hw4, and its client | four threads per node, one-shot clients | UDP broadcast |

They share no code but what was copied from one to the next, and do not talk to
each other. hw2 is by far the most intricate: two threads, two mutexes, a
protocol over a network that may do anything. It is the core of this project. All
five are modelled and model-checked, and the safety properties that the runs check
on small instances are proved for every size: all invariants, all action properties
and all refinements, each from an inductive invariant.

Contents: [1 inventory](#1-the-system) ·
[2 modules](#2-the-modules) · [3 runs](#3-the-runs-and-their-bounds) ·
[4 fairness](#4-fairness) · [5 proofs](#5-what-is-proved) ·
[6 disagreements](#6-where-the-code-and-its-comments-disagree) ·
[7 known deviations](#7-known-deviations) ·
[8 not modelled](#8-what-is-not-modelled) · [9 plan](#9-plan)

## 1 The system

### hw2, the file transfer

A client (`client.c`) sends one command per file on its command line, "blocks 0
to INT_MAX". The server (`server.c`) answers with the blocks, one datagram each.
Every block carries its number and the number of blocks of the file, so the
first one that comes tells the client the size. The client sets a bit array to
all ones, clears the bit of every block it writes, and whenever nothing came for
a while asks again for the ranges of ones, at most `MAXRANGES` to a command. It
ends when all files are complete or after more than ten timeouts in a row.

*State.* Client: per file `done`, `fbits`, the file on disk; and
`got_any_packet`, `timeouts_since_last_response`. Server: the list of jobs
(`head`), one per file, each with the bits still to send (`todo`), the last
block sent (`which`), the address of the client and an open descriptor.

*Threads of the server.* `main` receives commands, looks up the job of the file,
adds the ranges to it or opens the file and inserts a new job. `job_handler`
walks the list: for each job it sends one block and clears its bit, or destroys
the job if it has no bits left. Two mutexes: `safetomodify` guards the list when
it is changed, and `worktodo` is used as a semaphore: locked by the thread
before each pass of its outer loop, unlocked by main after each command.

*Hard.* The thread reads the list, the bits and `j->next` without the lock, while
main inserts and adds. `worktodo` is locked by one thread and unlocked by the
other. `next_one` loops until it finds a bit. Modes "busy" and "goofy" skip jobs,
skip blocks and send in random order. The network loses, reorders and duplicates
commands and blocks; timeouts race with late answers. The bit arrays clamp ranges
and build masks by shifts.

*Correct when:* no wakeup is lost; the thread only touches live jobs, and a file has one
job; the search ends and finds a block that exists; descriptors are not lost; every job
and every block gets its turn; a client that says "complete" has every block and writes
no block a file has not; a client ends; a client that the server answered completes
unless too much is lost or its requests are served to another; `resend` asks for the
holes and nothing else; the bit arrays are sets of numbers below `nbits`.

### hw3, the messenger

Nodes know each other as `targets`. A node started with addresses sends each a
REGISTER; a message typed, or received from a target and not seen before, goes to
all targets but the one it came from; a node remembers the digests of the last
`MAX_DIGESTS` messages in a ring. On control-C a node sends REDIRECTs that make
its first target and all its others neighbours of each other.

*Hard.* Cycles in the mesh, reordered and repeated packets, links known to one
end only, departures and joins under way at once, two kinds of input in one turn
of the loop. *Correct when:* a message is shown once per node, floods end, a
message reaches everybody in a whole mesh, departures leave no part cut off, and
only repeats are discarded.

### hw4, the table of peers

`pinger` broadcasts a ping every second, `receiver` enters or refreshes the host
a ping came from, `cleaner` purges entries that are too old by moving the last
entry into their slot, `printer` prints. One mutex guards the table.

*Hard.* The cleaner moves entries between two searches of the receiver and
changes the bound of its own loop. *Correct when:* one entry per host, none
lost early, the dead forgotten, the living listed, and what is printed is one
state of the table.

### hw5, the key-value store

`session.c` has hw4's threads, with a ping every tenth of a second and a limit of
one second, and a receiver that also handles PUT (store, log, broadcast as SPUT,
acknowledge), SPUT (store and log, unless it is the node's own), GET (answered
at once from the store) and DEL (printed). The store is a red-black tree
(`rbtree.c`, an instance of the macros of `sglib.h`), printed in order after every
put; the log is an array that was meant to bring new nodes up to date. `client.c` sends one
command and waits a second for the answer.

*Hard.* Replicas, broadcasts that are lost or come twice, a node's own broadcasts, nodes
that start late or come back empty, answers after the client's second. *Correct when:*
store and log agree, a put is logged once per node as long as the network does not
repeat it and the node knows its own address, replicas that missed nothing and saw no
concurrent puts agree, and what was acknowledged is read. The tree stays red-black
through any sequence of insertions and removals, keeps the last value of every key, and
the iterator, with its own stack, shows each once and in order.

### hw1, the web server

One connection at a time is read line by line up to a blank line. Method, URI and
User-Agent go into slot `c % NUM_ENTRIES` of a ring of records, the latter with
`<`, `>` and `"` replaced in place. `GET /` and `GET /status` show the ring,
newest first.

*Hard.* Line buffer and ring outlive the connection; the row arithmetic; the
in-place replacement; fields of a record that what is copied need not fit; clients that
hang up. *Correct when:* the page shows the true history, where no copy has destroyed
it, and every connection is answered in its turn unless one breaks off for good.

## 2 The modules

`FileTransfer` composes server, client and network, `Resend` the loops of the
client with the bit array they read; the programs of hw5 are modelled one by one:
`KeyValueTree` implements `KeyValueStore`, which is what each node of `Session` has
(`Put`, `AnswerTo`), and `PeerTable` is its table of hosts, which neither reads nor
writes the store. `A ← B` below means B EXTENDS A.

    Udp, Bits ← FileServer ← FileServerEnv ← MCFileServer
    Udp, Holes ← FileClient
    FileServer, FileClient ← FileTransfer ← MCFileTransfer
    FileTransfer —implements→ BlockDelivery
    Bits ← BitArray —implements→ BitSet
    BitArray, Holes ← Resend   (the C loops against the definition in Holes)
    Slots ← Messenger ← MCMessenger,  Messenger —implements→ Broadcast
    Slots ← PeerTable —implements→ Membership
    RedBlackTree ← KeyValueTree ← MCKeyValueTree,  KeyValueTree —implements→ KeyValueStore
    Session ← MCSession,  RequestLog ← MCRequestLog
    proofs: FileTransferProofs (with FileServer), ResendProofs, MessengerProofs,
            PeerTableProofs, SessionProofs, RequestLogProofs, KeyValueTreeProofs,
            all on ListLemmas

| module | models | how |
|---|---|---|
| `Bits` | `help.c:67-101`, `server.c:305-307` | `bits_setrange` as the set of bits it sets in an array of `n` bits (clamping, and the mask of the first word with its undefined shift), and the set a whole command sets |
| `BitSet` | | abstract: a set of numbers below `nbits`, and whether it is empty |
| `BitArray` | `help.c:44-145` | the array word by word and mask by mask; each operation of the C interface is an action |
| `Udp` | `help.h` structs, the network | commands and blocks in flight as two sets |
| `FileServer` | `server.c` | `mpc` and `jpc` are the threads' places; each action is one critical section, or one step between two accesses to shared state |
| `FileServerEnv` | | arbitrary clients around the server |
| `Holes` | `client.c:41-100` | what `resend` is to send, without loops: holes in order, cut into full commands |
| `Resend` | `client.c:51-111` | the nested loops of `resend` over the array of `BitArray`, one iteration a step; between two calls the array changes in any way |
| `FileClient` | `client.c` | a pass of the main loop is an action: a timeout (give up, wait, finish, ask again) or a block (stranger, late, written) |
| `BlockDelivery` | | abstract: what a client may obtain and when it may call itself complete |
| `FileTransfer` | hw2 | server, clients, loss; a client's timeout looks at nothing the server does for others (`Expected`); states the properties of the whole |
| `Slots` | `messenger.c`, `receiver.c` | an array whose last entry moves to the slot of one removed |
| `Messenger` | `messenger.c` | a branch of the select loop is an action; `atStdin` says that the same turn also has input to read; the loops over `targets` that add and remove neighbours are recursive functions, one index a turn; `OrderlySpec` holds departures back while redirections are under way |
| `Broadcast` | | abstract: a message may be shown at each node once, after its author |
| `PeerTable` | `receiver.c`, `session.c:91-112, 222-279` | receiver, cleaner and printer, one iteration of their loops a step |
| `Membership` | | abstract: the hosts heard of in the last `STALE` seconds, and how long ago |
| `RedBlackTree` | `sglib.h:783-794, 1445-1722, 1865-1889` | the functions on trees: a tree is a value, a function that changes it in place gives the new one; `leftt` and `rightt` of the macros are a parameter `side`; what recurses in the code is a recursive function over the set `Tree` of the trees of at most `Height` levels |
| `KeyValueTree` | `rbtree.c`, `sglib.h:1746-1863` | put, get, removal, and the iterator, one iteration of its loop a step |
| `KeyValueStore` | | abstract: a value for each key |
| `Session` | `session.c`, `client.c` of hw5 | a packet handled is an action (only the receiver uses the store), and may leave the packet under way to come once more (`Received`); `primary` is the address `get_primary_addr` found, or did not set; history variables are marked as such |
| `RequestLog` | `a1.c` | connecting, accepting, reading one line, responding; a line has `over`, by how many records its URI is too long, and `damaged` are the slots a URI has run over |

Correspondence of names: variables and operators carry the names of the C code (`jobs`
for the list at `head`, `todo`, `which`, `client_addr`, `worktodo`, `got_any_packet`,
`done`, `missing` for the one bits of `fbits`, `targets`, `digests`, `latest`, `peers`,
`num_peers` = `Len(peers)`, `session_log` = `log`, `state` of hw1). The mutex
`safetomodify` is not a variable: the thread's two critical sections are one action
each, so the only holder another thread can meet is main between finding a job and
finishing its update, which is `mpc = "update"` (`Unlocked` is its negation).
`bits_empty` reads the words of an array one by one and without the lock, yet
`FindEmpty` is one step: main only adds bits, so an array found empty was empty when the
reading began. Names with an underscore and a capital (`EndOfWork_OnePass`) are
deliberate mistakes: each property has one that it notices, which shows that the
property depends on the code.

What the models abstract from the data: file contents (a block is its number),
message text, times (ages in full seconds in hw4), addresses (node names). Two
equal datagrams in flight count as one. That does not keep a datagram from coming
twice: hw2 (`Repeatable`), hw3 and hw5 (`FAULTS`) have a receipt that leaves the
datagram under way. What is left out is that two equal datagrams are lost one by one
or overtake each other, which a loss and a repetition amount to.

Undefined behaviour is nondeterminism: `wraps` in `Bits` is the shift by the
width of the word (`help.c:84`), which either yields 0 or takes the count modulo
the width; `Junk` is the uncleared memory of the record of digests
(`messenger.c:134-138`); `Garbage` the uncleared line buffer of hw1; `which`
starts anywhere in the file in `InsertJob`.

## 3 The runs and their bounds

Times are for two workers on a small machine.

| run | configuration | states | time |
|---|---|---|---|
| `bit_array_exact` | `BitArray.cfg` | (violation) | 5 s |
| `server` | `Server.cfg` | 35,543 | 20 s |
| `server_race` | `ServerRace.cfg` | (violation) | 5 s |
| `resend` | `Resend.cfg` | 3,715 | 10 s |
| `transfer` | `Transfer.cfg` | 146,953 | 120 s |
| `flood` | `Flood.cfg` | 457,325 | 70 s |
| `mesh` | `Mesh.cfg` | 166,111 | 7 s |
| `digest` | `Digest.cfg` | (violation) | 5 s |
| `peers` | `Peers.cfg` | 35,424 | 37 s |
| `session` | `Session.cfg` | 921,934 | 60 s |
| `key_value_tree` | `KeyValueTree.cfg` | 24,009 | 15 s |
| `request_log` | `RequestLog.cfg` | 38,791 | 76 s |

**server.** Goofy mode (the mode with all behaviours of the other two), a file of
three blocks, one of one block, a file that cannot be opened, a name with a `/`, a
command with no ranges and one whose size contradicts its header; two
descriptors. Words of two bits, so that a range from block 1 over a word's end has
the undefined shift. *Reduction:* one command is in flight at a time, chosen just
before main receives it, and blocks leave at once (`MCNext`): the server looks at
the network only in `RecvCommand`, and the clients of `FileServerEnv` do not
react, so which commands wait is not observable. Commands may come for ever, so
all interleavings of insertion, update, sending and removal happen. The liveness
properties are checked with commands that keep coming (`JobsGetTheirTurn`), or stop
some time (`BlocksGetTheirTurn`).

**resend.** The bit array and the loops that read it, together. Words of 3 bits
instead of 64, arrays of 1, 2, 3, 5, 6 or 8 bits, arguments 0 to 9: up to three
words, the last one partial or full, every first and last bit in or beyond the
array. Nothing in the code depends on the width except the shift that reaches it,
which happens for any width. Every operation refines the operation on a set
(`ImplementsBitSet`), the undefined shift allowed for, and the answer of `bits_empty`
is that of the set: no stray bit beyond `nbits` makes `next_one` search
for ever. `resend` is called for every content the operations can give the array,
two ranges to a command: no hole, one, up to four; exactly full and partial last
commands; holes at both ends. `AsksForMissing` says that what the loops send covers
exactly the missing blocks; `SendsTheHoles` that it is what `Holes` defines, which is
what `FileClient` uses.

**transfer.** Three settings, chosen at the start (`setting` in `MCFileTransfer`), for all
faults and clients at once are too many states for the liveness properties.

* "faults": a client alone, of a file of two blocks and one of one block. A datagram is
  lost, a timeout expires early, a block and a command come twice.
* "late": the same client, and a block under way to an earlier process on its port.
* "together": two clients of the file of two blocks, which start in any order and at any
  time, and one datagram is lost. The commands of one are added to the job of the other
  and served to the one who came first (`server.c:357-378`). No datagram is repeated and
  no timeout is early here.

Within a setting all interleavings are checked; not checked are early timeouts,
repeated datagrams and late blocks while two clients share a file. `GIVEUP` is 3: a
client asks for a file it has seen nothing of only from the second timeout on, so with
one loss it needs three.

A client's `select` waits for its own socket, whatever the server does for others
(`help.c:271-283`). So a timeout is early, and counts against `EARLY`, only while an
answer for *this* client is under way (`Expected`: its request, a job that sends to it, or
a block to it), and is possible without limit otherwise. A client whose request went
into the job of the other has no answer under way, counts timeouts and may give up, also
when it has heard of the server before: `merged` remembers these clients, and
`HeardClientCompletes` is not about them. It is about the one that is served, which gets
all its blocks though its job is changed by requests of others. What holds for both is
that their bits match their disks, that "complete" means complete, and that they end.

**flood.** Three nodes in a triangle, the shortest cycle, and one fault (a packet lost
or delivered twice). Two messages by two authors flood it at once, with a record of two
digests, which is just enough: `ImplementsBroadcast` needs that the record does not
forget a message while copies of it are under way, and TLC finds a message shown twice
without that (the record has 20 slots in the code). "c" may stop by a signal, at any
time. Once it has, and nothing is under way, a third message makes the ring of digests
turn over, and may be typed in the very turn in which the last slot was filled
(`Overrun`). Input and packet in the same turn of the loop are possible at "a" and "b",
where things are typed.

**mesh.** Four nodes that start in every possible order and leave in every order,
one message. A departure waits until no registration or redirection is under way
(`OrderlySpec`), because without that the property fails; see section 7. A node
with three neighbours leaving is the first case where the first target must link
two others. `SlotsSuffice` says that nobody ends up as a target twice, whatever lists
the redirections meet.

**peers.** Two hosts, a limit of two seconds: enough for a stale entry to be
first, last, and the one moved, with a host entering between any two iterations.
Run for `STALE = 2`; hw5 has the same code with a limit of one. Time passes in
steps of a second when nobody holds the mutex. The safety properties were also
checked for three hosts and `STALE = 1` (1.3 million states), where an entry can be
moved past two others.

**key_value_tree.** Seven keys, of which one is put with two different values; puts
and removals in any order, as long as they like. All trees of up to seven keys that
any sequence can reach, and every case of the repairs: both colors of the sibling,
each of the rotations, an empty tree, a removal that shortens all paths. The iterator
runs to its end after each put. `PathFits` says that a path is never longer than a
tree of that many nodes allows, so that 128 entries, which nothing checks
(`sglib.h:1895`), do for 2^64 nodes.

**session.** Two nodes, one key, clients at one or both nodes; node n1 is on a host with an
eth0 and knows its address, n2 is not, and takes anything for its address: another
node's, its own or nobody's. Either two clients put different values at different nodes
and a third asks for the key, with one fault, or one client puts a value and one asks
for it or deletes it, with two faults (`active` in `MCSession`). A fault is a packet
lost, a packet that comes once more, or a node stopped (and possibly started again,
empty). All orders of puts, broadcasts, answers and timeouts. Nothing in the handlers
relates two keys, so one is enough for what is claimed per key. `LoggedOnce` counts the
entries by sender: a node that does not recognise its own broadcast logs the put once
from the client and once from itself, and no more than that; a node with an eth0 logs
it once in all. Values of which a packet came twice (the history `twice`) are left out,
as the code stores and logs them again.

**request_log.** A ring of two slots and four connections, so that it wraps twice:
complete requests of different kinds, User-Agents with characters to replace, one that
fits `buffer` (`MAX_MESG` = 6) but not the field (`MAX_AGENT` = 4) once it is escaped,
several lines, a client that hangs up at any moment, lines that end in CRLF or LF, and
URIs that run over their own record, into the next one (which is one still shown, as
the ring is full), or beyond the ring. Clients connect before their turn comes, as
`listen` lets them, and `RequestsAnswered` is about each of them: it is answered, unless
some connection breaks off and the server waits for it, or reads its last line over and
over, for ever (`BrokenOff`). Respond to a client that is gone may kill the server, and a
URI that runs beyond the ring ends what the model can say (`overrun`).

Deadlock checking is off where the system really stops: clients that have ended,
nodes that are gone, the last of a bounded number of requests. It is on for the
bit array and `resend`, the server, the table of peers and the tree, which never stop.

## 4 Fairness

Stated with the specifications; safety properties use none of it.

* *Server.* Weak fairness of main's steps and of the thread's steps that need no
  lock: both run when they can. Strong fairness for the thread's two critical
  sections: main holds `safetomodify` only between finding a job and finishing its
  update and goes back to `recvfrom` without it, so the mutex is free again and
  again, though not always. Strong fairness of `PickBlock` per file: in the modes
  that skip a job, it is skipped one time in ten, so it is picked infinitely often
  if it is looked at infinitely often. No fairness of `RecvCommand` in
  `FileServerEnv`: nobody has to send.
* *Transfer.* Weak fairness of main's steps and of the thread's (normal mode
  skips nothing), weak fairness of the client's timeouts (`select` returns), and
  strong fairness of receiving *something that then leaves the network*
  (`cmds' # cmds`, `blks' # blks`): the network may repeat a datagram, but not for
  ever while others wait. Without that clause a repeated datagram could starve
  the rest; no network does that.
* *Messenger.* Some packet is handled while there are packets; what a terminal
  has is read. Nobody has to type, start or leave.
* *Peers.* Receiver and cleaner get the mutex again and again (strong), a thread that
  has it goes on (weak), time passes for every entry, a running host pings, and not
  all pings of a host are lost.
* *Request log.* The server accepts, reads and responds when it can: its one loop has
  nothing else to do. Clients owe nothing: they need not connect, send or close.
* *Session, tree, bit array.* Only safety is stated. In a session every packet may be
  lost, and there is no retry, so nothing has to happen.

## 5 What is proved

With TLAPS, for all values of the constants that satisfy the assumptions named:

| theorem | statement |
|---|---|
| `FileTransferProofs!TypeCorrect` | `EnvSpec => []ServerTypeOK`: descriptors stay within their limit too, and main only works on commands of the right size |
| `FileTransferProofs!WakeupsReachThread` | `EnvSpec => []NoLostWakeup` |
| `FileTransferProofs!JobsAreLive` | `EnvSpec => []WorksOnLiveJob` |
| `FileTransferProofs!SearchSucceeds` | `EnvSpec => []SearchFindsBlock` |
| `FileTransferProofs!DescriptorsAreOwned` | `EnvSpec => []DescriptorsOwned` |
| `FileTransferProofs!ClientsTypeCorrect` | `Spec => []ClientTypeOK` |
| `FileTransferProofs!BitsAreExact` | `Spec => []BitsMatchDisk` |
| `FileTransferProofs!ServerStaysSound` | the server's three invariants with real clients |
| `FileTransferProofs!TransferDelivers` | `Spec => ImplementsDelivery`: the refinement of `BlockDelivery` |
| `ResendProofs!WordsImplementSet` | `ResendSpec => ImplementsBitSet`: words and masks are a set of bits |
| `ResendProofs!LoopsAskForMissing` | `ResendSpec => []AsksForMissing` |
| `ResendProofs!LoopsSendTheHoles` | `ResendSpec => []SendsTheHoles`: the loops compute what `Holes` defines |
| `MessengerProofs!MessengerTypeCorrect` | `Spec => []MessengerTypeOK` |
| `MessengerProofs!MessagesReachTheirAudience` | `DigestsTellApart` proves `Spec => []Delivered` |
| `MessengerProofs!MessagesAreShownOnce` | `Spec /\ []CopiesAreRecent /\ [][RecordHasRoom]_vars => ImplementsBroadcast` |
| `MessengerProofs!MeshIsRepaired` | `OneMesh` proves `OrderlySpec => []MeshStaysConnected` |
| `MessengerProofs!OneSlotPerNeighbour` | `OneMesh` proves `OrderlySpec => []SlotsSuffice` |
| `PeerTableProofs!PeersTypeCorrect` | `Spec => []PeersTypeOK` |
| `PeerTableProofs!HostsHaveOneEntry` | `Spec => []OneEntryPerHost` |
| `PeerTableProofs!PrinterIsConsistent` | `Spec => []ShowsOneState` |
| `PeerTableProofs!TableIsMembership` | `Spec => ImplementsMembership` |
| `SessionProofs!SessionTypeCorrect` | `Spec => []SessionTypeOK` |
| `SessionProofs!LogExplainsStore` | `Spec => []StoreFollowsLog` |
| `SessionProofs!PutsAreLoggedOnce` | `Spec => []LoggedOnce`, with packets that come twice and nodes that do not know their address |
| `SessionProofs!ReplicasAgree` | `Spec => []ReplicasConverge` |
| `SessionProofs!AckedPutsAreRead` | `Spec => []AckedIsRead` |
| `KeyValueTreeProofs!StoreOrdered` | `Spec => []TreeInv`: the tree is ordered, red-black and of no more levels than there are keys |
| `KeyValueTreeProofs!TreeStaysConsistent` | `Spec => []TreeConsistent` |
| `KeyValueTreeProofs!StoreImplemented` | `Spec => ImplementsStore`: the refinement of `KeyValueStore` |
| `KeyValueTreeProofs!KeyValueTypes` | `Spec => []KeyValueTypeOK` |
| `KeyValueTreeProofs!PathAlwaysFits` | `Spec => []PathFits` |
| `KeyValueTreeProofs!PrintIsInOrder` | `Spec => PrintsInOrder` |
| `RequestLogProofs!RecordsAreClean` | `Spec => []RequestTypeOK`: every User-Agent in the ring is clean; the URI is not escaped, and rows a URI ran over are excepted |
| `RequestLogProofs!PageIsTheHistory` | `Spec => []TableIsHistory`: every row but those a URI ran over |
| `RequestLogProofs!SanitizeEscapes` | where the result has room, `Sanitize(s) = Escaped(s)` |

*Assumptions.* `WordAssumption` (a word has a bit), `SizesAssumption` (arrays have
bits), `ServerAssumption` (files have a size or cannot be opened, the mode is one of
three, `NULL` is no file), `RequestsAssumption` (what arrives are commands, of any size
and content), `ClientAssumption`, `HolesAssumption`, `ResendAssumption` and
`TransferAssumption` (command lines are lists of names; a command carries at least one
range; the open end of a range, `INT_MAX` in the code, is past every block; the first
name has no `/`, which `client_arguments_valid` checks; blocks left over from earlier
processes are blocks of existing files), `MessengerAssumption` (a record has a slot;
messages have an author and a digest of bytes), `PeerTableAssumption`,
`SessionAssumption` (a client has one command; nodes are not clients; any of the nodes
may have an eth0), `RequestAssumption` (rings, buffers and fields have room for
something, a line fits the buffer, and a URI too long for its field is none of the four
the server knows), `RedBlackTreeAssumption` (finitely many keys, which are ordered, and
`NULL` is no node) and `KeyValueTreeAssumption` (`None` is no value, what is put is a
key and a value). TLC evaluates all of them in the runs.

Four theorems have hypotheses of their own, for without them they are false:

* `DigestsTellApart`: no two messages, and no message and uncleared memory, have
  the same first byte of their digests. It is what run `digest` shows to fail in the
  code; the theorem says that nothing else loses a message.
* `MessagesAreShownOnce`: the ring forgets, so a copy that comes to a node after
  `MAX_DIGESTS` other messages were shown there is shown again. `CopiesAreRecent` says
  that none does: of a message that a node has shown, copies come while it is one of the
  last `MAX_DIGESTS`. It bounds the delay of a copy, not the number of messages: the
  ring may turn over any number of times. `RecordHasRoom` says that nothing is typed
  when the record is past its end. Run `flood` keeps the former, with a ring that turns
  over, and does without the latter.
* `OneMesh` (two theorems): packets are not lost or repeated (`FAULTS = 0`), no command
  line names an address twice, and one node is started without addresses. With
  `OrderlySpec` this excludes the behaviours of section 7 that cut a mesh.

Other theorems have premises inside the property, where the code fails without them:
empty files (`DescriptorsOwned`), repeated packets and unknown addresses (`LoggedOnce`),
raced and missed keys (`ReplicasConverge`), and rows that a URI ran over
(`TableIsHistory`). Section 7 has the behaviours they leave out.

*Loops and recursion.* What a loop computes is a recursive function in the models,
`f[i] == IF i = 0 THEN ... ELSE ... f[i - 1] ...`. `ListLemmas` has what is needed to
reason about it: induction over the numbers from the library's well-founded order
(`InductionOverNat`), that such a function exists (`LoopExists`), and that what holds at
first and is kept by every turn holds at the end (`LoopInvariant`). It also says what
`RemoveAt`, `Append`, `DropSlot` and prepending do to the elements of a list without
repetitions, and has the arithmetic of words: `Division`, `QuotientIs`, and
`QuotientOrder`, that bits are ordered by their word first and then by their
position.

*Server.* The invariants are not inductive: that the thread works on a live job
depends on the whole list being duplicate free, which depends on where main is.
The induction is over

    IInv == ServerTypeOK /\ ListOK /\ MainOK /\ ThreadOK /\ DescriptorsEnough /\ NoLostWakeup

`ListOK`: no file twice, and the bits and position of a job are inside its file.
`MainOK`: main in "update" has a job, and main in "open" or "insert" knows that its
file has none. That fact was established under one hold of the mutex and is used
under another, and it survives because only main inserts; the thread's removals
cannot invalidate it. Conversely "has a job" could be invalidated by a removal,
and is protected by the mutex (`Unlocked`). `ThreadOK`: the thread has a job
exactly outside "wait" and "head", its job is in the list because only the thread
removes, and in "seek" and "mark" it has a bit because only the thread clears.
`DescriptorsEnough` bounds the jobs by the open descriptors, so that closing never
goes below zero; `DescriptorsOwned` turns the bound into an equality. `RangeBitsInFile`
says that `bits_setrange` stays inside the file for any 64-bit arguments, the
undefined shift included. `MainKeepsIInv` and `ThreadKeepsIInv` have one case per
action.

*Transfer.* `TInv == IInv /\ ClientTypeOK /\ GenuineBlocks /\ FilesOK /\ TimeoutsOK`:
every block in flight is a block of its file (that is where `IInv` is needed: the
server only sends `which[j] \in todo[j] \subseteq BlocksOf(j)`), and per file the
bits, the blocks on disk and `done` agree. `StepDelivers` then maps every step to
one of `BlockDelivery` or to a stutter: writing a missing block delivers it,
writing one twice stutters, ending with `AllDone` completes.

*Bit arrays and resend.* `ArrayOK` says that no word has a bit at or beyond `nbits`.
`Members` is the set; each operation is shown to do to it what `BitSet` says, word by
word through `OneBit`, `Masks` and, for a range over several words,
`QuotientOrder`. The loops of `resend` keep

    ResendInv == ArrayOK /\ LoopTypeOK /\ AskedOK /\ HolesOK

`AskedOK`: what was asked for is what is missing below `i`, or below the hole that is
open. `HolesOK`: the ranges so far are the first ones of `HoleList`, where the number
of holes begun (ended) is that of the starts (ends) below `i`, counted by `Upto`.

*Messenger.* Three invariants, as the three theorems have different hypotheses.
`FloodInv`: for a message whose audience is still there and as long as nothing was
lost, there is a set of links, each known to both ends, that connects the audience,
and over each of them the message has passed or is on its way. Links made since do
not count, links removed since connected someone who has left. `RecordInv`: the
ring has the digest of each of the last `MAX_DIGESTS` messages shown at the place of its
number modulo `MAX_DIGESTS` (`Remainders` is the arithmetic of that), and `latest` is the
place of the next. `MeshInv`: a link is
known at both ends or about to be, by a REGISTER or REDIRECT under way to the end that
does not know it; every packet under way is one of these; and the graph of these links
connects the running nodes. A node that leaves is replaced in it by its first
neighbour (`LeaveKeepsMesh`); that the redirections arrive in any order, with
registrations between them, is in `RedirectKeepsMesh`.

*Peers.* `IInv == PeersTypeOK /\ OneEntryPerHost /\ SearchOK /\ PrinterOK`. `SearchOK`:
none of the entries that the receiver has passed is that of the sender; it holds
because the search and what follows are one hold of the mutex, in which nothing
moves. The refinement maps the table to the age of each host, `STALE + 1` for one
that has no entry.

*Session.* `IInv == StateOK /\ StoreFollowsLog /\ HistoryOK /\ ReadsOK /\ ConvergeOK`. A
client has one packet under way at a time; an SPUT tells of a put made at its
sender, an entry of a log of a put by the client or node it came from, and unless a
packet of it was repeated, a node that is still to hear of a value from someone has not
logged it from there (`HistoryOK`); what was acknowledged is in the log, or the node has
been stopped and will not hear of it again (`AckedIsLogged`);
an answer to a get, under way or received, is not older than any put acknowledged
before the get (`ReadsOK`); for a key that was not raced, all broadcasts under way
tell of one put, and a node that missed nothing has its value or will hear of it
(`ConvergeOK`).

*Request log.* `SanitizeCleans` and `SanitizeEscapes` are loop invariants: after turn
`j` the string is clean up to `j`; and it is a part that is escaped already, followed by
the rest of the original, also when the loop is in the middle of an entity it has just
written. Hence doing it twice changes nothing (`SanitizeFits`), which the code relies on
without knowing: at the end of the input the line in `buffer` is handled again.
`HistoryInv` says that the ring holds the last `NUM_ENTRIES` requests, or one less while
one is in hand, whose slot holds what has been noted so far, each but for the slots in
`damaged`; a URI too long for its own field can only damage its own slot and those after
it, and a slot is whole again when it is reset. `RowSlotIs` is the arithmetic of the
rows.

*Tree: its functions.* What the code does by recursion over a tree is a function over
the set `Tree`, of the trees of at most `Height = 2 * Cardinality(Keys) + 1` levels.
`LevelsByKeys` shows that a tree whose keys all differ has no more levels than there
are keys, and the lemmas on insertion and removal that these give at most one level
more and twice the levels, before that bound applies again; so no operation is ever
asked of a tree outside `Tree`, and the bound excludes no behaviour. That a function
with such a recursive definition exists is proved once, by induction on the levels,
for all of them at once (`Recursion`, where `OneLevel` is what each makes of a node
and of what it made of its subtrees); `FindIs`, `AddRecursiveIs`, ..., `NodesAre` and
`BlackDepthsAre` are its instances. `TreeInduction` is induction over trees, from the
numbers of their levels.

*Tree: its operations.* The inductive invariant of the tree is

    Good(t) == t \in Trees[Cardinality(Keys)] /\ Ordered(t) /\ RedBlack(t)

`consistency_check` compares a key only with those of its children, which is too weak
to be kept: `Ordered` compares it with all keys below. `OrderedIs`, `NoRedRedIs` and
`DepthIs` say what order, colors and black depth of a node are in terms of its
subtrees, and each case of each repair is a lemma in these terms. On the way up from
an insertion a subtree may have a red root with a red child (`Grown`), and only there;
`FixInsertionHolds` removes it under a black node, by a single rotation
(`SingleHolds`), a double one (`DoubleHolds`) or an exchange of colors, and the root
is painted black at last. On the way up from a removal a subtree's paths may be one
black node shorter than they were, which `shorter` reports (`Shrinks`); the cases for
a red sibling are `RepairedNull`, `RepairedPainted`, `RepairedDouble` and
`RepairedTriple`, those for a black one `RepairedRed`, `RepairedFar` and
`RepairedNear`. What a tree holds is `EntriesOf(t)`, keys with values: insertion adds
the new one (`AddRecursiveAdds`), overwriting replaces the old one (`OverwriteHolds`),
removal takes one out and no other (`DeleteRecursiveHolds`, which for a node with a
left subtree moves the entry of the rightmost node up), and lookup finds the one that
there is (`FindFinds`). `StoreImplemented` follows: two trees with the same entries
are the same store.

*Tree: the iterator.* `PathInv` says that the path goes down from the root, each node
being the subtree of the one above that `pass` says. `PathFits` needs more than the
invariant of the tree: no red node follows a red one on the path, so its length is at
most twice the black depth (`PathIsShort`), and a tree of black depth h has 2^h - 1
nodes or more (`DepthNeedsNodes`). `PrintInv` says what has been printed when the
iterator is at node n: the entries before those of n if it has gone to none of its
subtrees, those before n's own key, those up to that key, and those of n as well, by
its pass and current element. The entries of a subtree lie next to one another in the
whole tree (`PartsConnected`), so going down, passing over a missing subtree and going
back up print nothing between. When the path is empty the node left was the root, and
what is printed is everything.

*Only model-checked:* liveness (`JobsGetTheirTurn`, `BlocksGetTheirTurn`,
`ClientEnds`, `HeardClientCompletes`, `FloodEnds`, `DeadForgotten`, `LiveListed`,
`RequestsAnswered`), which is beyond the prover.

## 6 Where the code and its comments disagree

Three runs end in a counterexample. Each checks what a comment says.

* `bit_array_exact`: `bits_setrange(bits, 1, last)` with `last` in a later word
  shifts by the width of the word (`help.c:84`, `BITSPERLONG-firstbit+1` with
  `firstbit` = 1), which C does not define. Where the machine takes the count
  modulo 64 the mask is 0 and blocks 1 to 63 are not asked for. The client's
  timeout repairs it in part: holes are asked for again, also those that start
  elsewhere.
* `server_race`: "if there is nothing to do, decommission the job"
  (`server.c:112`): the thread tests the bits without the mutex and locks it only
  for the removal (`server.c:113-125`). Main can add the blocks of another command
  in between, and they are destroyed with the job. The client asks again.
* `digest`: "Take a digest and see if it is in the provided list"
  (`messenger.c:107-109`): the loop returns after the first equal byte
  (`messenger.c:122`), so one message in a dozen or so is taken for a repeat once
  the record of 20 is full.

## 7 Known deviations

Behaviours of the code that the models have, or that lie outside of them, and that
limit what can be claimed. Properties state the corresponding premise.

*hw2.* An empty file costs a descriptor: main opens it, finds no block 0 and
forgets it (`server.c:382`, `430-434`), so `DescriptorsOwned` is about files that
are not empty. Jobs are found by file name alone (`server.c:357`): two clients of
one file at a time are one job, served to the first. The other counts timeouts as
long as it lasts: it may never hear of the server, or, if it has got a part of its files
before, may give up all the same; `HeardClientCompletes` leaves it out
(`merged`). A client whose first
datagrams are lost only waits (`client.c:220-228`); `HeardClientCompletes` starts at
the first block. The same file twice on the command line is completed for the
later entry only, and the earlier is asked for again for ever (`client.c:279`); the
`transfer` run gives no client a name twice. The search for the next block starts at the one
just sent (`server.c:138`), so a client that asked for that block again and again
would get nothing else; `BlocksGetTheirTurn` has the premise that commands stop. The
number of blocks `resend` prints is wrong for a hole at the end (`client.c:72`), and
it counts blocks in an `int` (`53`), which a file of 2^31 blocks would overflow.

*hw3.* Two neighbours that leave at the same time redirect their neighbours to each
other, and a REGISTER that arrives twice makes a target that a redirect removes only
half; either can cut the mesh. SIGUSR1 has a handler, but makes `select` fail with
EINTR, and the node exits without a farewell (`221-224`). `targets` has no check of
MAXTARGETS (`308-312`; the source lists it as its known issue 1). A line typed in the
turn in which a packet filled the record is recorded one past it (`404`), which loses
the digest or ends the program (`Overrun`). A copy that comes when the record has
forgotten its message is shown, and flooded, once more. The salt of a digest is the
constant 12345 (`398`) where the head of the file says address and port (`7-8`), so
equal texts sent in the same second by two nodes are one message.

*hw4, hw5.* `peers` has no check of its limit (`receiver.c:224`, `session.c:236`), nor
has `session_log` (`session.c:176`). hw5: nothing tells a datagram that comes twice from
a new put, so it is stored and logged again (`session.c:169-202`). The result of
`get_primary_addr` is ignored (`126`), and on a host without an interface eth0 the
variable it should set is not initialised (`help.c:362-379`): the node then logs its own
broadcast as if it were another's, or ignores the broadcasts of a node whose address it
happens to hold. Both are in the model. The clients of hw5 ignore the result as well
(`client.c:123`), and where binding to that address fails they end: left out. The
timestamp that is broadcast is that of the next entry, as `c` was counted up before
(`181`); no receiver uses it. The printer reads the log without a mutex (`57`), but
entries are complete before they are counted. A get is answered at once and a del not at
all (`219-221`), where the comments at the top of the file describe more. Two puts of a
key at once leave the replicas different for good, as does a lost broadcast, and a node
that starts late has nothing; README.txt of hw5 says that this part was not finished.
`ReplicasConverge` leaves these keys out by means of the history variables `raced` and
`missed`.

*hw1.* A client that closes after its first line and before the blank one leaves
the server in its loop for ever: `fgets` returns NULL and leaves the line as it is
(`a1.c:205-275`). No later request is answered, however complete: `RequestsAnswered` has
the premise that no connection ends like that, or stays open without a blank line. If a
client closes at once, the last line of the connection before, a
blank one, is handled as a request, or uninitialised memory on the first
connection. Answering a client that is gone can raise SIGPIPE (`397-400`), which kills
the server.

A URI is copied without a limit into a field of 80 characters (`94`, `257-258`). A longer
one runs over the status and time of its record and into the next one in the ring, or in
the last slot beyond the ring: the model marks the slots (`damaged`), looks into
none of them until they are reset, and stops at "overrun". The status, set later,
cuts such a URI at its 81st character. The URI goes to the page as it came: only
User-Agents are escaped. `sanitize` near MAX_MESG loses the end of the string, and a
User-Agent of 1024 characters or more is copied without one (`270`), so that the page
shows the method after it (`Copied`).

## 8 What is not modelled

Output, statistics, usage texts and the checks of command lines; conversions between
network and host order (inverse of each other); the printing of the log of hw5, which
only reads; the rest of `sglib.h` (sorting, arrays, lists, hash tables, other functions
on trees), which no program uses, and the test of the tree, which puts, gets and prints;
the MD5 example of hw3; the pages of hw1 other than the status page, and the headers of
answers; times, addresses and host names. Errors of `lseek`, `write`, `select` and
`sendto` end the C programs and are left out, except those named in section 7.

## 9 Plan

Done so far, in the order of importance: the server of hw2 with its proofs, the
client, their composition and refinement, with two clients of one file, the bit
arrays and `resend`; then hw3, hw4, hw5 with its tree, and hw1, each of hw3 to hw5
against an abstract specification of what it promises.

Next, on the models: `FDLIMIT` reached while clients wait; a departure during a join
in hw3; a third node in `Session`, so that a put can be missed by one and not by
another.

On the proofs, every invariant, action property and refinement that a passing run
checks is stated by a theorem. Two could say more. `OneMesh` excludes all
faults, where a REGISTER that arrives twice is the one known to do harm without a loss.
`PageIsTheHistory` could say what a row shows whose own URI is too long, if the field's
80 characters were modelled.
