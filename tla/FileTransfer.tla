---------------------------- MODULE FileTransfer ----------------------------
(***************************************************************************)
(* hw2 put together: the server, its clients, and UDP between them, which  *)
(* loses, reorders and (those in Repeatable) duplicates datagrams.         *)
(***************************************************************************)
EXTENDS FileServer, FileClient

CONSTANTS LOSSES,   \* bound on the datagrams the network loses
          EARLY,    \* bound on a client's timeouts while an answer for it is under way
          Leftover  \* blocks on their way to earlier processes on the clients' ports

\* The first file name of a client has no '/' (client_arguments_valid).
ASSUME TransferAssumption ==
    /\ LOSSES \in Nat
    /\ EARLY \in Nat
    /\ Leftover \subseteq { b \in Blocks : b.total_blocks = Size[b.file]
                                        /\ b.which_block < b.total_blocks }
    /\ \A c \in Clients : Args[c] # <<>> /\ Args[c][1] \notin Slashed

VARIABLES lost,   \* datagrams lost so far
          early,  \* early timeouts so far
          merged  \* clients a request of which went into the job of another (a history)

vars == <<serverVars, clientVars, netVars, lost, early, merged>>

Init == /\ ServerInit /\ ClientInit /\ cmds = {} /\ blks = Leftover
        /\ lost = 0 /\ early = 0 /\ merged = {}

LoseDatagram ==
    /\ lost < LOSSES
    /\ lost' = lost + 1
    /\ \/ \E m \in cmds : cmds' = cmds \ {m} /\ UNCHANGED blks
       \/ \E b \in blks : blks' = blks \ {b} /\ UNCHANGED cmds
    /\ UNCHANGED <<serverVars, clientVars, early, merged>>

\* An answer for c itself is under way: its request, a job that sends to it, or
\* a block.  What the server does for others is no answer for c.
Expected(c) ==
    \/ \E m \in cmds : m.client = c
    \/ mpc # "recv" /\ loc_cmd.client = c
    \/ \E f \in Range(jobs) : client_addr[f] = c
    \/ \E b \in blks : b.client = c

\* Main finds the file's job, which is another client's: what it asks for is
\* sent to that one.
Merged(c) == mpc = "update" /\ loc_cmd.client = c /\ client_addr[loc_cmd.file] # c

Beside == /\ merged' = merged \union { c \in Clients : Merged(c)' }
          /\ UNCHANGED <<clientVars, lost, early>>

Server == ServerStep /\ Beside

\* The client's select waits for its own socket only.
ClientTimesOut(c) ==
    /\ ClientTimeout(c)
    /\ \/ ~Expected(c) /\ UNCHANGED early
       \/ Expected(c) /\ early < EARLY /\ early' = early + 1
    /\ UNCHANGED <<serverVars, lost, merged>>

ClientReceives(c) == ClientRecv(c) /\ UNCHANGED <<serverVars, lost, early, merged>>

ClientStarts(c) == ClientStart(c) /\ UNCHANGED <<serverVars, lost, early, merged>>

Next == \/ Server
        \/ \E c \in Clients : ClientStarts(c) \/ ClientTimesOut(c) \/ ClientReceives(c)
        \/ LoseDatagram

\* The processes keep running: the server takes each command that does not get
\* lost, a client takes its blocks, and its select times out in the end.  The
\* network delivers no datagram over and over for ever: a receiver that keeps
\* receiving takes, again and again, a datagram that does not come once more.
Fairness ==
    /\ SF_vars(RecvCommand /\ cmds' # cmds /\ Beside)
    /\ WF_vars(MainStep /\ Beside)
    /\ WF_vars(ThreadStep /\ Beside)
    /\ \A c \in Clients :
         /\ WF_vars(ClientTimesOut(c))
         /\ SF_vars(ClientReceives(c) /\ blks' # blks)

Spec == Init /\ [][Next]_vars /\ Fairness
-----------------------------------------------------------------------------
(* Type correctness of the clients.                                        *)
PerFileOf(S) == [Clients -> Seq(S)]

ClientTypeOK ==
    /\ NetTypeOK
    /\ phase \in [Clients -> {"off", "running", "complete", "gaveup"}]
    /\ got_any_packet \in [Clients -> BOOLEAN]
    /\ tslr \in [Clients -> 0 .. GIVEUP + 1]
    /\ done \in PerFileOf({-1, 0, 1})
    /\ nbits \in PerFileOf(Nat)
    /\ missing \in PerFileOf(SUBSET Nat)
    /\ written \in PerFileOf(SUBSET Nat)
    /\ \A c \in Clients :
         /\ done[c] \in [Files(c) -> {-1, 0, 1}]
         /\ nbits[c] \in [Files(c) -> Nat]
         /\ missing[c] \in [Files(c) -> SUBSET Nat]
         /\ written[c] \in [Files(c) -> SUBSET Nat]

(***************************************************************************)
(* The client's bits are exactly what its copy of the file still lacks: a  *)
(* file it takes for complete (hw2/client.c:342-345) has every block the   *)
(* server's file has, and a block it will not ask for again is on disk.    *)
(***************************************************************************)
BitsMatchDisk ==
    \A c \in Clients : \A a \in Files(c) :
        /\ done[c][a] # -1 => missing[c][a] = BlocksOf(Args[c][a]) \ written[c][a]
        /\ done[c][a] = 1 <=> done[c][a] # -1 /\ missing[c][a] = {}

(***************************************************************************)
(* The whole program implements what its users are promised (module        *)
(* BlockDelivery): no loss, reordering, duplication, late answer or        *)
(* premature re-request makes a client end as complete with a hole in a    *)
(* file (hw2/client.c:235-242) or write a block no file has.               *)
(***************************************************************************)
Delivery == INSTANCE BlockDelivery
              WITH got <- written,
                   outcome <- [c \in Clients |-> IF phase[c] = "off" THEN "running"
                                                 ELSE phase[c]]
ImplementsDelivery == Delivery!Init /\ [][Delivery!Next]_(Delivery!vars)

(***************************************************************************)
(* In the end no client is running, complete or not, whatever is lost or   *)
(* delivered twice: the blocks that come late, which reset its count of    *)
(* timeouts (hw2/client.c:282), and the requests it repeats with each      *)
(* timeout do not keep each other going for ever.                          *)
(***************************************************************************)
ClientEnds == <>[](\A c \in Clients : phase[c] # "running")

(***************************************************************************)
(* A client that has heard of the server gets all blocks of its files when *)
(* fewer datagrams are lost and fewer answers are late than make GIVEUP    *)
(* timeouts in a row: "some blocks will not be delivered and must be       *)
(* re-requested" (hw2/client.c:12).  The premise is needed: a request for  *)
(* a file that the server is sending to someone else is answered to that   *)
(* one (hw2/server.c:357-375), and whoever asked counts timeouts meanwhile *)
(* and can give up.  Requests of others that go into a job of c only add   *)
(* to what c gets.                                                         *)
(***************************************************************************)
HeardClientCompletes ==
    <>[](\A c \in Clients : got_any_packet[c] /\ c \notin merged =>
            \A a \in Files(c) : Size[Args[c][a]] > 0 => done[c][a] = 1)
=============================================================================
