----------------------------- MODULE FileClient -----------------------------
(***************************************************************************)
(* hw2/client.c: each client asks for every file on its command line,      *)
(* writes the blocks that come, and on a timeout asks again for what is    *)
(* missing, until all files are complete or too many timeouts in a row     *)
(* brought nothing.                                                        *)
(*                                                                         *)
(* A pass of the main loop is one action.  It sends all its commands at    *)
(* once: they can arrive one by one, in any order and late all the same.   *)
(***************************************************************************)
EXTENDS Udp, Holes

CONSTANTS Args,    \* Args[c]: the file names c was started with
          GIVEUP   \* timeouts in a row that are endured, 10 in the code

ASSUME ClientAssumption ==
    /\ Args \in [Clients -> Seq(Names)]
    /\ GIVEUP \in Nat

VARIABLES
  phase,           \* "off", "running", and how it ended: "complete" or "gaveup"
  got_any_packet,  \* has a block of a file of c come?
  tslr,            \* timeouts_since_last_response
  \* per client and file argument, struct file_meta:
  done,            \* -1 no block yet, 0 some, 1 all; the file is closed at 1
  nbits,           \* fbits.nbits: the size of the file, known from its first block
  missing,         \* the one bits of fbits
  written          \* the blocks written to the file

clientVars == <<phase, got_any_packet, tslr, done, nbits, missing, written>>

Files(c) == DOMAIN Args[c]
PerFile(value) == [c \in Clients |-> [a \in Files(c) |-> value]]

ClientInit ==
    /\ phase = [c \in Clients |-> "off"]
    /\ got_any_packet = [c \in Clients |-> FALSE]
    /\ tslr = [c \in Clients |-> 0]
    /\ done = PerFile(-1)
    /\ nbits = PerFile(0)
    /\ missing = PerFile({})
    /\ written = PerFile({})

\* send_command(.., 0, INT_MAX)
WholeFile(c, a) == Command(c, Args[c][a], <<[first_block |-> 0, last_block |-> END]>>)

\* resend
MissingBlocks(c, a) ==
    { Command(c, Args[c][a], r) : r \in Range(ResendRanges(missing[c][a], nbits[c][a])) }

ClientStart(c) ==
    /\ phase[c] = "off"
    /\ phase' = [phase EXCEPT ![c] = "running"]
    /\ cmds' = cmds \union { WholeFile(c, a) : a \in Files(c) }
    /\ UNCHANGED <<blks, got_any_packet, tslr, done, nbits, missing, written>>
-----------------------------------------------------------------------------
(* select_block timed out.                                                 *)

TooMany_OneMore(n) == n > GIVEUP + 1

TooMany(n) == n > GIVEUP

Timeout_NotCounted(c) ==
    /\ phase[c] = "running"
    /\ UNCHANGED <<blks, tslr, got_any_packet, done, nbits, missing, written>>

Timeout(c) ==
    /\ phase[c] = "running"
    /\ tslr' = [tslr EXCEPT ![c] = @ + 1]
    /\ UNCHANGED <<blks, got_any_packet, done, nbits, missing, written>>

AllDone(c) == \A a \in Files(c) : done[c][a] = 1

GiveUp(c) ==
    /\ Timeout(c) /\ TooMany(tslr'[c])
    /\ phase' = [phase EXCEPT ![c] = "gaveup"]
    /\ UNCHANGED cmds

\* Until the first packet a timeout only makes the next one longer.
AwaitFirst(c) ==
    /\ Timeout(c) /\ ~TooMany(tslr'[c]) /\ ~got_any_packet[c]
    /\ UNCHANGED <<cmds, phase>>

Finish(c) ==
    /\ Timeout(c) /\ ~TooMany(tslr'[c]) /\ got_any_packet[c] /\ AllDone(c)
    /\ phase' = [phase EXCEPT ![c] = "complete"]
    /\ UNCHANGED cmds

\* Asks for the missing blocks of the files that have some; for all of a file
\* that has none, from the second timeout on.
AskAgain(c) ==
    /\ Timeout(c) /\ ~TooMany(tslr'[c]) /\ got_any_packet[c] /\ ~AllDone(c)
    /\ cmds' = cmds
         \union (UNION { MissingBlocks(c, a) : a \in { k \in Files(c) : done[c][k] = 0 } })
         \union { WholeFile(c, a) : a \in { k \in Files(c) : done[c][k] = -1 /\ tslr'[c] > 1 } }
    /\ UNCHANGED phase

ClientTimeout(c) == GiveUp(c) \/ AwaitFirst(c) \/ Finish(c) \/ AskAgain(c)
-----------------------------------------------------------------------------
(* A block came.                                                           *)

\* Of c's files of the same name, block b counts for the last one.
Matches(c, a, b) ==
    /\ b.client = c /\ b.file = Args[c][a]
    /\ \A k \in Files(c) : k > a => Args[c][k] # b.file

\* A block of a file c did not ask for.
IgnoreStranger(c) ==
    /\ phase[c] = "running"
    /\ \E b \in blks :
         /\ b.client = c /\ \A a \in Files(c) : Args[c][a] # b.file
         /\ Received(blks, b, blks')
    /\ UNCHANGED <<cmds, clientVars>>

\* Any other block shows that the server is there ...
ServerHeard(c) ==
    /\ phase[c] = "running"
    /\ tslr' = [tslr EXCEPT ![c] = 0]
    /\ got_any_packet' = [got_any_packet EXCEPT ![c] = TRUE]
    /\ UNCHANGED <<cmds, phase>>

\* ... but for a file that is complete it does no more than that.
IgnoreLate(c) ==
    /\ ServerHeard(c)
    /\ \E a \in Files(c), b \in blks :
         Matches(c, a, b) /\ done[c][a] = 1 /\ Received(blks, b, blks')
    /\ UNCHANGED <<done, nbits, missing, written>>

BitsBefore_OneShort(c, a, b) ==
    IF done[c][a] = -1 THEN 0 .. b.total_blocks - 2 ELSE missing[c][a]

\* The bits of the file: all set if this is its first block.
BitsBefore(c, a, b) ==
    IF done[c][a] = -1 THEN 0 .. b.total_blocks - 1 ELSE missing[c][a]

WriteBlock(c) ==
    /\ ServerHeard(c)
    /\ \E a \in Files(c), b \in blks :
         LET left == BitsBefore(c, a, b) \ {b.which_block}
         IN  /\ Matches(c, a, b) /\ done[c][a] # 1 /\ Received(blks, b, blks')
             /\ nbits' = [nbits EXCEPT ![c][a] = IF done[c][a] = -1 THEN b.total_blocks ELSE @]
             /\ written' = [written EXCEPT ![c][a] = @ \union {b.which_block}]
             /\ missing' = [missing EXCEPT ![c][a] = left]
             /\ done' = [done EXCEPT ![c][a] = IF left = {} THEN 1 ELSE 0]

ClientRecv(c) == IgnoreStranger(c) \/ IgnoreLate(c) \/ WriteBlock(c)

ClientStep(c) == ClientStart(c) \/ ClientTimeout(c) \/ ClientRecv(c)
=============================================================================
