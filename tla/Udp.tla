-------------------------------- MODULE Udp --------------------------------
(***************************************************************************)
(* The datagrams of hw2 on their way between the clients and the server.   *)
(* A set, because UDP keeps no order: a command or a block leaves it when  *)
(* it is received or lost, and two equal datagrams in flight count as one  *)
(* (the network lost the other).                                           *)
(***************************************************************************)
EXTENDS Integers, Sequences

CONSTANTS Clients,       \* client processes, each with its own port
          Names,         \* file names
          Repeatable     \* the datagrams the network may deliver more than once

VARIABLES cmds,   \* commands sent to the server and not received yet
          blks    \* blocks sent to clients and not received yet

netVars == <<cmds, blks>>

\* struct range, struct command (with its sender) and struct block (with its
\* receiver) of hw2/help.h.  nranges is what the header of the datagram says;
\* the size of the datagram says how many ranges it really carries.
Ranges   == [first_block : Nat, last_block : Nat]
Commands == [client : Clients, file : Names, nranges : Nat, ranges : Seq(Ranges)]
Blocks   == [client : Clients, file : Names, which_block : Nat, total_blocks : Nat]

\* The command send_command and resend build for these ranges.
Command(client, file, ranges) ==
    [client |-> client, file |-> file, nranges |-> Len(ranges), ranges |-> ranges]

\* Datagram m of net is received: gone, unless the network duplicated it.
Received(net, m, remaining) ==
    remaining = net \ {m} \/ (m \in Repeatable /\ remaining = net)

NetTypeOK == cmds \subseteq Commands /\ blks \subseteq Blocks
=============================================================================
