------------------------- MODULE FileTransferProofs -------------------------
(***************************************************************************)
(* Theorems about hw2, for every number of clients, files and blocks.      *)
(*                                                                         *)
(* First the server, in every mode and for every sequence of commands: the *)
(* inductive invariant of its two threads, which holds whatever the network *)
(* does, then its consequences in the environment of module FileServerEnv. *)
(*                                                                         *)
(* Then the file transfer as a whole, under every loss, duplication and    *)
(* reordering.                                                             *)
(***************************************************************************)
EXTENDS FileTransfer, FileServerEnv, ListLemmas, FiniteSetTheorems

(***************************************************************************)
(* The inductive invariant.  Beyond the properties to be proved it says    *)
(* where each thread is in the list: main between its two holds of the     *)
(* lock has a file without a job, and it alone inserts; the job thread     *)
(* has a job in the list, and it alone removes.                            *)
(***************************************************************************)
ListOK ==
    /\ Distinct(jobs)
    /\ \A f \in Range(jobs) : /\ which[f] \in BlocksOf(f)
                              /\ todo[f] \subseteq BlocksOf(f)
                              /\ client_addr[f] \in Clients

MainOK ==
    /\ mpc = "update" => loc_cmd.file \in Range(jobs)
    /\ mpc \in {"open", "insert"} => loc_cmd.file \notin Range(jobs)
    /\ mpc = "insert" => Size[loc_cmd.file] > 0

ThreadOK ==
    /\ jpc \in {"wait", "head"} <=> j = NULL
    /\ j # NULL => j \in Range(jobs)
    /\ jpc \in {"seek", "mark"} => todo[j] # {}

\* A file without a block 0 makes main lose a descriptor, so there may be more.
DescriptorsEnough == fds >= Len(jobs) + (IF mpc = "insert" THEN 1 ELSE 0)

IInv == ServerTypeOK /\ ListOK /\ MainOK /\ ThreadOK /\ DescriptorsEnough /\ NoLostWakeup
-----------------------------------------------------------------------------
(* bits_setrange stays inside the file.                                    *)

\* Whatever range a command asks for, only bits of blocks of the file are set.
LEMMA RangeBitsInFile ==
  ASSUME NEW n \in Nat \ {0}, NEW first \in Nat, NEW last \in Nat, NEW wraps \in BOOLEAN
  PROVE  RangeBits(n, first, last, wraps) \subseteq 0 .. n - 1
<1> DEFINE f    == ClampFirst(n, first, last)
           l    == ClampLast(n, last)
           word == f \div BITSPERLONG
<1>1. f \in Nat /\ l \in 0 .. n - 1
  BY DEF ClampFirst, ClampLast
<1> HIDE DEF f, l
<1>2. word \in Nat
  BY <1>1, WordAssumption
<1> HIDE DEF word
<1>3. (word + 1) * BITSPERLONG \in Nat
  BY <1>2, WordAssumption
<1>4. \A start \in Nat : start .. l \subseteq 0 .. n - 1
  BY <1>1
<1> QED
  BY <1>1, <1>3, <1>4 DEF RangeBits, f, l, word

\* The numbers of a range of a command.
LEMMA RangeNumbers ==
  ASSUME NEW ranges \in Seq(Ranges), NEW r \in DOMAIN ranges
  PROVE  ranges[r].first_block \in Nat /\ ranges[r].last_block \in Nat
<1>1. ranges[r] \in Ranges
  OBVIOUS
<1> QED
  BY <1>1 DEF Ranges

\* The same for all the ranges of a command.
LEMMA CommandBitsInFile ==
  ASSUME NEW n \in Nat \ {0}, NEW ranges \in Seq(Ranges), NEW wraps \in BOOLEAN
  PROVE  CommandBits(n, ranges, wraps) \subseteq 0 .. n - 1
<1>1. \A r \in DOMAIN ranges : ranges[r].first_block \in Nat /\ ranges[r].last_block \in Nat
  BY RangeNumbers
<1>2. \A r \in DOMAIN ranges :
        RangeBits(n, ranges[r].first_block, ranges[r].last_block, wraps) \subseteq 0 .. n - 1
  BY <1>1, RangeBitsInFile
<1> QED
  BY <1>2 DEF CommandBits

-----------------------------------------------------------------------------
(* Where the job thread goes.                                              *)

\* The position of a file that has a job.
LEMMA PositionInList ==
  ASSUME NEW f, f \in Range(jobs), jobs \in Seq(Names)
  PROVE  Position(f) \in 1 .. Len(jobs) /\ jobs[Position(f)] = f
BY DEF Position, Range

\* The next job, if there is one, is another one of the list.
LEMMA NextJobInList ==
  ASSUME NEW f \in Range(jobs), jobs \in Seq(Names), Distinct(jobs)
  PROVE  NextJob(f) = NULL \/ NextJob(f) \in Range(jobs) \ {f}
<1>1. Position(f) \in 1 .. Len(jobs) /\ jobs[Position(f)] = f
  BY PositionInList
<1>2. CASE Position(f) < Len(jobs)
  <2>1. Position(f) + 1 \in DOMAIN jobs /\ Position(f) + 1 # Position(f)
    BY <1>1, <1>2
  <2>2. jobs[Position(f) + 1] \in Range(jobs) /\ jobs[Position(f) + 1] # f
    BY <1>1, <2>1 DEF Range, Distinct
  <2> QED
    BY <1>2, <2>2 DEF NextJob
<1>3. CASE ~(Position(f) < Len(jobs))
  BY <1>3 DEF NextJob
<1> QED
  BY <1>2, <1>3

-----------------------------------------------------------------------------
(* Every step keeps the inductive invariant.                               *)

\* The server's variables start in it.
LEMMA InitIInv == ServerInit /\ NetTypeOK => IInv
<1> SUFFICES ASSUME ServerInit, NetTypeOK PROVE IInv
  OBVIOUS
<1>1. jobs = <<>> /\ Range(jobs) = {} /\ DOMAIN jobs = {} /\ Len(jobs) = 0
  BY DEF ServerInit, Range
<1>2. ServerTypeOK
  BY <1>1, ServerAssumption DEF ServerInit, ServerTypeOK
<1> QED
  BY <1>1, <1>2, ServerAssumption
  DEF ServerInit, IInv, ListOK, MainOK, ThreadOK, DescriptorsEnough, NoLostWakeup, Distinct

\* The steps of the main thread.
LEMMA MainKeepsIInv ==
  ASSUME IInv, RecvCommand \/ MainStep
  PROVE  IInv'
<1> USE ServerAssumption
<1>0. /\ ServerTypeOK /\ ListOK /\ MainOK /\ ThreadOK /\ DescriptorsEnough /\ NoLostWakeup
      /\ jobs \in Seq(Names) /\ Len(jobs) \in Nat
  BY DEF IInv, ServerTypeOK
<1>1. CASE RecvCommand
  <2>1. PICK m \in cmds :
          /\ Received(cmds, m, cmds')
          /\ loc_cmd' = m
          /\ mpc' = IF Acceptable(m) THEN "find" ELSE "recv"
    BY <1>1 DEF RecvCommand
  <2>2. m \in Commands /\ cmds' \subseteq Commands
    BY <1>0, <2>1 DEF ServerTypeOK, NetTypeOK, Received
  <2>3. ServerTypeOK'
    BY <1>0, <1>1, <2>1, <2>2 DEF RecvCommand, ServerTypeOK, NetTypeOK, Acceptable
  <2> QED
    BY <1>0, <1>1, <2>1, <2>3
    DEF RecvCommand, IInv, ListOK, MainOK, ThreadOK, DescriptorsEnough, NoLostWakeup
<1>2. CASE FindJob
  <2>1. ServerTypeOK'
    BY <1>0, <1>2 DEF FindJob, ServerTypeOK, NetTypeOK, netVars, jobVars, threadVars
  <2> QED
    BY <1>0, <1>2, <2>1
    DEF FindJob, IInv, ListOK, MainOK, ThreadOK, DescriptorsEnough, NoLostWakeup,
        netVars, jobVars, threadVars
<1>3. CASE UpdateRange
  <2> DEFINE f == loc_cmd.file
  <2>1. f \in Names /\ f \in Range(jobs) /\ Size[f] \in Nat \ {0}
    BY <1>0, <1>3 DEF UpdateRange, ServerTypeOK, MainOK, ListOK, BlocksOf, Commands
  <2>2. loc_cmd.ranges \in Seq(Ranges) /\ range \in DOMAIN loc_cmd.ranges
    BY <1>0, <1>3 DEF UpdateRange, ServerTypeOK, Commands
  <2>3. loc_cmd.ranges[range].first_block \in Nat /\ loc_cmd.ranges[range].last_block \in Nat
    BY <2>2, RangeNumbers
  <2>4. PICK wraps \in BOOLEAN :
          todo' = [todo EXCEPT ![f] = @ \union
                    RangeBits(Size[f], loc_cmd.ranges[range].first_block,
                              loc_cmd.ranges[range].last_block, wraps)]
    BY <1>3 DEF UpdateRange
  <2> DEFINE new == RangeBits(Size[f], loc_cmd.ranges[range].first_block,
                              loc_cmd.ranges[range].last_block, wraps)
  <2>5. new \subseteq BlocksOf(f)
    BY <2>1, <2>3, RangeBitsInFile DEF BlocksOf
  <2>6. BlocksOf(f) \subseteq Nat
    BY DEF BlocksOf
  <2>7. todo' = [todo EXCEPT ![f] = todo[f] \union new]
    BY <2>4
  <2> HIDE DEF new
  <2>8. /\ todo' \in [Names -> SUBSET Nat]
        /\ \A g \in Names : g # f => todo'[g] = todo[g]
        /\ todo'[f] = todo[f] \union new
    BY <1>0, <2>1, <2>5, <2>6, <2>7 DEF ServerTypeOK
  <2>9. ServerTypeOK'
    BY <1>0, <1>3, <2>8 DEF UpdateRange, ServerTypeOK, NetTypeOK, netVars, threadVars
  <2>10. ListOK'
    <3>1. jobs' = jobs /\ which' = which /\ f \in Names
      BY <1>3, <2>1 DEF UpdateRange
    <3>2. Range(jobs) \subseteq Names /\ Range(jobs') = Range(jobs)
      BY <1>0, <3>1 DEF ServerTypeOK, Range
    <3>3. \A g \in Range(jobs) : todo'[g] \subseteq BlocksOf(g)
      BY <1>0, <2>5, <2>8, <3>2 DEF ListOK
    <3>4. Distinct(jobs') /\ client_addr' = client_addr
      BY <1>0, <1>3, <3>1 DEF UpdateRange, ListOK
    <3> QED
      BY <1>0, <3>1, <3>2, <3>3, <3>4 DEF ListOK, BlocksOf
  <2>11. ThreadOK'
    BY <1>0, <1>3, <2>1, <2>8 DEF UpdateRange, ThreadOK, ServerTypeOK, threadVars
  <2> QED
    BY <1>0, <1>3, <2>9, <2>10, <2>11
    DEF UpdateRange, IInv, MainOK, DescriptorsEnough, NoLostWakeup, threadVars
<1>4. CASE UpdateDone
  <2>1. ServerTypeOK'
    BY <1>0, <1>4 DEF UpdateDone, ServerTypeOK, NetTypeOK, netVars, jobVars, threadVars
  <2> QED
    BY <1>0, <1>4, <2>1
    DEF UpdateDone, IInv, ListOK, MainOK, ThreadOK, DescriptorsEnough, NoLostWakeup,
        netVars, jobVars, threadVars
<1>5. CASE OpenFails
  <2>1. ServerTypeOK'
    BY <1>0, <1>5 DEF OpenFails, ServerTypeOK, NetTypeOK, netVars, jobVars, threadVars
  <2> QED
    BY <1>0, <1>5, <2>1
    DEF OpenFails, IInv, ListOK, MainOK, ThreadOK, DescriptorsEnough, NoLostWakeup,
        netVars, jobVars, threadVars
<1>6. CASE OpenFile
  <2>1. ServerTypeOK'
    BY <1>0, <1>6 DEF OpenFile, ServerTypeOK, NetTypeOK, netVars, jobVars, threadVars
  <2>2. Size[loc_cmd.file] \in Int
    BY <1>0, <1>6 DEF OpenFile, ServerTypeOK, Commands
  <2>3. DescriptorsEnough'
    BY <1>0, <1>6 DEF OpenFile, ServerTypeOK, DescriptorsEnough, jobVars
  <2> QED
    BY <1>0, <1>6, <2>1, <2>2, <2>3
    DEF OpenFile, IInv, ListOK, MainOK, ThreadOK, NoLostWakeup,
        netVars, jobVars, threadVars
<1>7. CASE InsertJob
  <2> DEFINE f == loc_cmd.file
  <2>1. /\ f \in Names /\ loc_cmd.client \in Clients
        /\ loc_cmd.ranges \in Seq(Ranges)
        /\ f \notin Range(jobs) /\ Size[f] \in Nat \ {0}
    BY <1>0, <1>7 DEF InsertJob, ServerTypeOK, MainOK, Commands
  <2>2. /\ jobs' \in Seq(Names) /\ Len(jobs') = Len(jobs) + 1
        /\ Distinct(jobs') /\ Range(jobs') = Range(jobs) \union {f}
    BY <1>0, <1>7, <2>1, PushDistinct DEF InsertJob, ListOK
  <2>3. PICK wraps \in BOOLEAN :
          todo' = [todo EXCEPT ![f] = CommandBits(Size[f], loc_cmd.ranges, wraps)]
    BY <1>7 DEF InsertJob
  <2>4. CommandBits(Size[f], loc_cmd.ranges, wraps) \subseteq BlocksOf(f)
    BY <2>1, CommandBitsInFile DEF BlocksOf
  <2>5. BlocksOf(f) \subseteq Nat
    BY DEF BlocksOf
  <2>6. /\ todo' \in [Names -> SUBSET Nat]
        /\ \A g \in Names : g # f => todo'[g] = todo[g]
        /\ todo'[f] \subseteq BlocksOf(f)
    BY <1>0, <2>1, <2>3, <2>4, <2>5 DEF ServerTypeOK
  <2>7. PICK start \in BlocksOf(f) : which' = [which EXCEPT ![f] = start]
    BY <1>7 DEF InsertJob
  <2>8. /\ which' \in [Names -> Nat]
        /\ \A g \in Names : g # f => which'[g] = which[g]
        /\ which'[f] \in BlocksOf(f)
    BY <1>0, <2>1, <2>5, <2>7 DEF ServerTypeOK
  <2>9. ServerTypeOK'
    BY <1>0, <1>7, <2>1, <2>2, <2>6, <2>8
    DEF InsertJob, ServerTypeOK, NetTypeOK, netVars, threadVars
  <2>10. Range(jobs) \subseteq Names
    BY <1>0 DEF Range
  <2>11. ListOK'
    <3> SUFFICES ASSUME NEW g \in Range(jobs')
                 PROVE  /\ which'[g] \in BlocksOf(g)
                        /\ todo'[g] \subseteq BlocksOf(g)
                        /\ client_addr'[g] \in Clients
      BY <2>2 DEF ListOK, BlocksOf
    <3>0. client_addr'[f] = loc_cmd.client /\ \A h \in Names \ {f} : client_addr'[h] = client_addr[h]
      BY <1>0, <1>7, <2>1 DEF InsertJob, ServerTypeOK
    <3>1. CASE g = f
      BY <2>1, <2>6, <2>8, <3>0, <3>1
    <3>2. CASE g # f
      BY <1>0, <2>2, <2>6, <2>8, <2>10, <3>0, <3>2 DEF ListOK
    <3> QED
      BY <3>1, <3>2
  <2>12. ThreadOK'
    BY <1>0, <1>7, <2>1, <2>2, <2>6, <2>10 DEF InsertJob, ThreadOK, threadVars
  <2>13. DescriptorsEnough'
    BY <1>0, <1>7, <2>2 DEF InsertJob, ServerTypeOK, DescriptorsEnough
  <2> QED
    BY <1>0, <1>7, <2>9, <2>11, <2>12, <2>13
    DEF InsertJob, IInv, MainOK, NoLostWakeup, threadVars
<1>8. CASE WakeThread
  <2>1. ServerTypeOK'
    BY <1>0, <1>8 DEF WakeThread, ServerTypeOK, NetTypeOK, netVars, jobVars, threadVars
  <2> QED
    BY <1>0, <1>8, <2>1
    DEF WakeThread, IInv, ListOK, MainOK, ThreadOK, DescriptorsEnough, NoLostWakeup,
        netVars, jobVars, threadVars
<1> QED
  BY <1>1, <1>2, <1>3, <1>4, <1>5, <1>6, <1>7, <1>8 DEF MainStep

\* The steps of the job thread.
LEMMA ThreadKeepsIInv ==
  ASSUME IInv, ThreadStep
  PROVE  IInv'
<1> USE ServerAssumption
<1>0. /\ ServerTypeOK /\ ListOK /\ MainOK /\ ThreadOK /\ DescriptorsEnough /\ NoLostWakeup
      /\ jobs \in Seq(Names) /\ Len(jobs) \in Nat /\ Range(jobs) \subseteq Names
  BY DEF IInv, ServerTypeOK, Range
<1>1. CASE WaitForWork
  <2>1. ServerTypeOK'
    BY <1>0, <1>1 DEF WaitForWork, ServerTypeOK, NetTypeOK, netVars, jobVars, mainVars
  <2> QED
    BY <1>0, <1>1, <2>1
    DEF WaitForWork, IInv, ListOK, MainOK, ThreadOK, DescriptorsEnough, NoLostWakeup,
        netVars, jobVars, mainVars
<1>2. CASE StartPass
  <2>1. Head(jobs) \in Range(jobs)
    BY <1>0, <1>2 DEF StartPass, Range
  <2>2. j' = Head(jobs) /\ j' # NULL /\ jpc' = "check"
    BY <1>0, <1>2, <2>1 DEF StartPass, GoTo
  <2>3. ServerTypeOK'
    BY <1>0, <1>2, <2>1, <2>2 DEF StartPass, ServerTypeOK, NetTypeOK, netVars, jobVars, mainVars
  <2> QED
    BY <1>0, <1>2, <2>1, <2>2, <2>3
    DEF StartPass, IInv, ListOK, MainOK, ThreadOK, DescriptorsEnough, NoLostWakeup,
        netVars, jobVars, mainVars
<1>3. CASE EndOfWork
  <2>1. ServerTypeOK'
    BY <1>0, <1>3 DEF EndOfWork, ServerTypeOK, NetTypeOK, netVars, jobVars, mainVars
  <2> QED
    BY <1>0, <1>3, <2>1
    DEF EndOfWork, IInv, ListOK, MainOK, ThreadOK, DescriptorsEnough, NoLostWakeup,
        netVars, jobVars, mainVars
<1>4. CASE FindEmpty
  <2>1. ServerTypeOK'
    BY <1>0, <1>4 DEF FindEmpty, ServerTypeOK, NetTypeOK, netVars, jobVars, mainVars
  <2> QED
    BY <1>0, <1>4, <2>1
    DEF FindEmpty, IInv, ListOK, MainOK, ThreadOK, DescriptorsEnough, NoLostWakeup,
        netVars, jobVars, mainVars
<1>5. CASE PickBlock
  <2>1. j \in Range(jobs) /\ j \in Names
    BY <1>0, <1>5 DEF PickBlock, ThreadOK
  <2>2. PICK start \in BlocksOf(j) : which' = [which EXCEPT ![j] = start]
    BY <1>0, <1>5, <2>1 DEF PickBlock, ListOK
  <2>3. /\ which' \in [Names -> Nat]
        /\ which'[j] \in BlocksOf(j) /\ \A g \in Names : g # j => which'[g] = which[g]
    BY <1>0, <2>1, <2>2 DEF ServerTypeOK, BlocksOf
  <2>4. ServerTypeOK'
    BY <1>0, <1>5, <2>3 DEF PickBlock, ServerTypeOK, NetTypeOK, netVars, mainVars
  <2>5. ListOK'
    BY <1>0, <1>5, <2>3 DEF PickBlock, ListOK, BlocksOf
  <2> QED
    BY <1>0, <1>5, <2>4, <2>5
    DEF PickBlock, IInv, MainOK, ThreadOK, DescriptorsEnough, NoLostWakeup, mainVars
<1>6. CASE SkipJob
  <2>1. NextJob(j) = NULL \/ NextJob(j) \in Range(jobs)
    BY <1>0, <1>6, NextJobInList DEF SkipJob, ThreadOK, ListOK
  <2>2. j' = NextJob(j) /\ jpc' = IF NextJob(j) = NULL THEN "head" ELSE "check"
    BY <1>6 DEF SkipJob, GoTo
  <2>3. ServerTypeOK'
    BY <1>0, <1>6, <2>1, <2>2 DEF SkipJob, ServerTypeOK, NetTypeOK, netVars, jobVars, mainVars
  <2> QED
    BY <1>0, <1>6, <2>1, <2>2, <2>3
    DEF SkipJob, IInv, ListOK, MainOK, ThreadOK, DescriptorsEnough, NoLostWakeup,
        netVars, jobVars, mainVars
<1>7. CASE RemoveJob
  <2> DEFINE p == Position(j)
  <2>1. j \in Range(jobs) /\ p \in 1 .. Len(jobs) /\ jobs[p] = j
    BY <1>0, <1>7, PositionInList DEF RemoveJob, ThreadOK
  <2> HIDE DEF p
  <2>2. jobs' = RemoveAt(jobs, p)
    BY <1>7 DEF RemoveJob, p
  <2>3. /\ jobs' \in Seq(Names) /\ Len(jobs') = Len(jobs) - 1
        /\ Distinct(jobs') /\ Range(jobs') = Range(jobs) \ {j}
    BY <1>0, <2>1, <2>2, RemoveAtElements, RemoveAtDistinct DEF ListOK
  <2>4. NextJob(j) = NULL \/ NextJob(j) \in Range(jobs')
    BY <1>0, <2>1, <2>3, NextJobInList DEF ListOK
  <2>5. j' = NextJob(j) /\ jpc' = IF NextJob(j) = NULL THEN "head" ELSE "check"
    BY <1>7 DEF RemoveJob, GoTo
  <2>6. /\ todo' \in [Names -> SUBSET Nat] /\ which' \in [Names -> Nat]
        /\ client_addr' \in [Names -> Clients \union {NULL}]
        /\ \A g \in Names : g # j => /\ todo'[g] = todo[g]
                                     /\ which'[g] = which[g]
                                     /\ client_addr'[g] = client_addr[g]
    BY <1>0, <1>7 DEF RemoveJob, ServerTypeOK
  <2>7. fds' = fds - 1 /\ fds' \in 0 .. FDLIMIT
    <3>1. fds' = fds - 1
      BY <1>7 DEF RemoveJob, CloseFile
    <3>2. fds \in 0 .. FDLIMIT /\ Len(jobs) <= fds /\ Len(jobs) \in Nat \ {0}
      BY <1>0, <2>1 DEF ServerTypeOK, DescriptorsEnough
    <3> QED
      BY <3>1, <3>2
  <2>8. ServerTypeOK'
    BY <1>0, <1>7, <2>3, <2>4, <2>5, <2>6, <2>7
    DEF RemoveJob, ServerTypeOK, NetTypeOK, netVars, mainVars
  <2>9. ListOK'
    BY <1>0, <2>3, <2>6 DEF ListOK, BlocksOf
  <2>10. MainOK'
    BY <1>0, <1>7, <2>3 DEF RemoveJob, MainOK, Unlocked, mainVars
  <2>11. DescriptorsEnough'
    BY <1>0, <1>7, <2>3, <2>7 DEF RemoveJob, DescriptorsEnough, ServerTypeOK, mainVars
  <2> QED
    BY <1>0, <1>7, <2>4, <2>5, <2>8, <2>9, <2>10, <2>11
    DEF IInv, ThreadOK, NoLostWakeup
<1>8. CASE SeekOn
  <2>1. j \in Range(jobs) /\ j \in Names /\ which[j] \in BlocksOf(j)
    BY <1>0, <1>8 DEF SeekOn, ThreadOK, ListOK
  <2>2. Size[j] \in Nat \ {0} /\ (which[j] + 1) % Size[j] \in BlocksOf(j)
    BY <2>1 DEF BlocksOf
  <2>3. /\ which' \in [Names -> Nat]
        /\ which'[j] \in BlocksOf(j) /\ \A g \in Names : g # j => which'[g] = which[g]
    BY <1>0, <1>8, <2>1, <2>2 DEF SeekOn, ServerTypeOK, BlocksOf
  <2>4. ServerTypeOK'
    BY <1>0, <1>8, <2>3 DEF SeekOn, ServerTypeOK, NetTypeOK, netVars, mainVars, threadVars
  <2>5. ListOK'
    BY <1>0, <1>8, <2>3 DEF SeekOn, ListOK, BlocksOf
  <2> QED
    BY <1>0, <1>8, <2>4, <2>5
    DEF SeekOn, IInv, MainOK, ThreadOK, DescriptorsEnough, NoLostWakeup, mainVars, threadVars
<1>9. CASE SendBlock
  <2> DEFINE b == [client |-> client_addr[j], file |-> j,
                   which_block |-> which[j], total_blocks |-> Size[j]]
  <2>1. j \in Range(jobs) /\ j \in Names /\ which[j] \in BlocksOf(j)
    BY <1>0, <1>9 DEF SendBlock, ThreadOK, ListOK
  <2>2. client_addr[j] \in Clients
    BY <1>0, <2>1 DEF ListOK
  <2>3. b \in Blocks
    BY <2>1, <2>2 DEF Blocks, BlocksOf
  <2>4. ServerTypeOK'
    BY <1>0, <1>9, <2>3 DEF SendBlock, ServerTypeOK, NetTypeOK, jobVars, mainVars
  <2> QED
    BY <1>0, <1>9, <2>4
    DEF SendBlock, IInv, ListOK, MainOK, ThreadOK, DescriptorsEnough, NoLostWakeup,
        jobVars, mainVars
<1>10. CASE PretendToSend
  <2>1. ServerTypeOK'
    BY <1>0, <1>10 DEF PretendToSend, ServerTypeOK, NetTypeOK, netVars, jobVars, mainVars
  <2> QED
    BY <1>0, <1>10, <2>1
    DEF PretendToSend, IInv, ListOK, MainOK, ThreadOK, DescriptorsEnough, NoLostWakeup,
        netVars, jobVars, mainVars
<1>11. CASE MarkSent
  <2>1. j \in Range(jobs) /\ j \in Names
    BY <1>0, <1>11 DEF MarkSent, ThreadOK
  <2>2. NextJob(j) = NULL \/ NextJob(j) \in Range(jobs)
    BY <1>0, <2>1, NextJobInList DEF ListOK
  <2>3. j' = NextJob(j) /\ jpc' = IF NextJob(j) = NULL THEN "head" ELSE "check"
    BY <1>11 DEF MarkSent, GoTo
  <2>4. /\ todo' \in [Names -> SUBSET Nat]
        /\ \A g \in Names : todo'[g] \subseteq todo[g]
    BY <1>0, <1>11, <2>1 DEF MarkSent, ServerTypeOK
  <2>5. ServerTypeOK'
    BY <1>0, <1>11, <2>2, <2>3, <2>4 DEF MarkSent, ServerTypeOK, NetTypeOK, netVars, mainVars
  <2>6. ListOK'
    BY <1>0, <1>11, <2>4 DEF MarkSent, ListOK, BlocksOf
  <2> QED
    BY <1>0, <1>11, <2>2, <2>3, <2>5, <2>6
    DEF MarkSent, IInv, MainOK, ThreadOK, DescriptorsEnough, NoLostWakeup, mainVars
<1> QED
  BY <1>1, <1>2, <1>3, <1>4, <1>5, <1>6, <1>7, <1>8, <1>9, <1>10, <1>11
  DEF ThreadStep, FreeStep

\* The steps of others, which leave the server alone and put only commands and
\* blocks into the network.
LEMMA OthersKeepIInv ==
  ASSUME IInv, UNCHANGED serverVars, NetTypeOK'
  PROVE  IInv'
BY DEF serverVars, IInv, ServerTypeOK, NetTypeOK, ListOK, MainOK, ThreadOK,
       DescriptorsEnough, NoLostWakeup

\* A descriptor comes with a file that is opened and goes with its job.
LEMMA DescriptorsKept ==
  ASSUME IInv, DescriptorsOwned, ServerStep
  PROVE  DescriptorsOwned'
<1> SUFFICES ASSUME \A f \in Names : Size[f] # 0
             PROVE  fds' = Len(jobs') + (IF mpc' = "insert" THEN 1 ELSE 0)
  BY DEF DescriptorsOwned
<1>1. fds = Len(jobs) + (IF mpc = "insert" THEN 1 ELSE 0)
  BY DEF DescriptorsOwned
<1>2. jobs \in Seq(Names) /\ Len(jobs) \in Nat /\ (mpc # "recv" => loc_cmd.file \in Names)
  BY DEF IInv, ServerTypeOK, Commands
<1>3. CASE OpenFile
  BY <1>1, <1>2, <1>3 DEF OpenFile, jobVars
<1>4. CASE InsertJob
  <2>1. Len(<<loc_cmd.file>> \o jobs) = Len(jobs) + 1
    BY <1>2, <1>4 DEF InsertJob
  <2> QED
    BY <1>1, <1>2, <1>4, <2>1 DEF InsertJob
<1>5. CASE RemoveJob
  <2> DEFINE p == Position(j)
  <2>1. p \in 1 .. Len(jobs)
    BY <1>2, <1>5, PositionInList DEF RemoveJob, IInv, ThreadOK
  <2> HIDE DEF p
  <2>2. jobs' = RemoveAt(jobs, p)
    BY <1>5 DEF RemoveJob, p
  <2>3. Len(jobs') = Len(jobs) - 1
    BY <1>2, <2>1, <2>2, RemoveAtElements
  <2> QED
    BY <1>1, <1>2, <1>5, <2>3 DEF RemoveJob, CloseFile, mainVars
<1>6. CASE RecvCommand \/ FindJob \/ UpdateRange \/ UpdateDone \/ OpenFails \/ WakeThread
  BY <1>1, <1>6 DEF RecvCommand, FindJob, UpdateRange, UpdateDone, OpenFails, WakeThread, jobVars
<1>7. CASE WaitForWork \/ FreeStep \/ MarkSent
  BY <1>1, <1>7 DEF WaitForWork, FreeStep, StartPass, EndOfWork, FindEmpty, PickBlock, SkipJob,
     SeekOn, SendBlock, PretendToSend, MarkSent, jobVars, mainVars
<1> QED
  BY <1>3, <1>4, <1>5, <1>6, <1>7 DEF ServerStep, MainStep, ThreadStep
-----------------------------------------------------------------------------
(* The server among clients it knows nothing about.                        *)

\* The server never leaves its inductive invariant.
LEMMA InductiveInvariant == EnvSpec => []IInv
<1>1. EnvInit => IInv
  BY InitIInv DEF EnvInit, NetTypeOK
<1>2. ASSUME IInv, [EnvNext]_envVars PROVE IInv'
  <2>1. NetTypeOK
    BY <1>2 DEF IInv, ServerTypeOK
  <2>2. CASE ServerStep
    BY <1>2, <2>2, MainKeepsIInv, ThreadKeepsIInv DEF ServerStep
  <2>3. CASE Arrive \/ Depart \/ UNCHANGED envVars
    <3>1. UNCHANGED serverVars /\ NetTypeOK'
      BY <2>1, <2>3, RequestsAssumption DEF Arrive, Depart, envVars, netVars, NetTypeOK
    <3> QED
      BY <1>2, <3>1, OthersKeepIInv
  <2> QED
    BY <1>2, <2>2, <2>3 DEF EnvNext
<1> QED
  BY <1>1, <1>2, PTL DEF EnvSpec
-----------------------------------------------------------------------------
(***************************************************************************)
(* The server's state is of its type in every behaviour: in particular its *)
(* descriptors never exceed the limit nor go below zero, and main only     *)
(* handles commands that carry the ranges they announce                    *)
(* (hw2/server.c:341).                                                     *)
(***************************************************************************)
THEOREM TypeCorrect == EnvSpec => []ServerTypeOK
<1>1. IInv => ServerTypeOK
  BY DEF IInv
<1> QED
  BY InductiveInvariant, <1>1, PTL

(***************************************************************************)
(* No wakeup of the job thread is ever lost (hw2/server.c:106, 378, 429).  *)
(***************************************************************************)
THEOREM WakeupsReachThread == EnvSpec => []NoLostWakeup
<1>1. IInv => NoLostWakeup
  BY DEF IInv
<1> QED
  BY InductiveInvariant, <1>1, PTL

(***************************************************************************)
(* The job thread never works on a destroyed job and main never makes a    *)
(* second job for a file (hw2/server.c:113-185, 355-427).                  *)
(***************************************************************************)
THEOREM JobsAreLive == EnvSpec => []WorksOnLiveJob
<1>1. IInv => WorksOnLiveJob
  BY DEF IInv, ListOK, MainOK, ThreadOK, WorksOnLiveJob, ServerTypeOK, Distinct
<1> QED
  BY InductiveInvariant, <1>1, PTL

(***************************************************************************)
(* next_one always has a bit to find and read_block a block to read        *)
(* (hw2/server.c:66-68, 151): the job thread neither loops for ever in the *)
(* one nor aborts the server for the other, whatever ranges are asked for. *)
(***************************************************************************)
THEOREM SearchSucceeds == EnvSpec => []SearchFindsBlock
<1>1. IInv => SearchFindsBlock
  BY DEF IInv, ListOK, ThreadOK, SearchFindsBlock, Range
<1> QED
  BY InductiveInvariant, <1>1, PTL

(***************************************************************************)
(* If no file is empty, the descriptors in use are those of the jobs and   *)
(* the one main is about to make a job of (hw2/server.c:127, 382-434).     *)
(***************************************************************************)
THEOREM DescriptorsAreOwned == EnvSpec => []DescriptorsOwned
<1>1. EnvInit => DescriptorsOwned
  BY DEF EnvInit, ServerInit, DescriptorsOwned
<1>2. IInv /\ DescriptorsOwned /\ [EnvNext]_envVars => DescriptorsOwned'
  <2>1. CASE UNCHANGED serverVars
    BY <2>1 DEF serverVars, DescriptorsOwned
  <2> QED
    BY <2>1, DescriptorsKept DEF EnvNext, Arrive, Depart, envVars
<1> QED
  BY InductiveInvariant, <1>1, <1>2, PTL DEF EnvSpec
-----------------------------------------------------------------------------
(* The file transfer as a whole.                                          *)

(***************************************************************************)
(* The inductive invariant: the server's own, blocks in the network that   *)
(* are blocks of the file they name, and for each file of a client bits    *)
(* that are set for exactly the blocks of the file it has not written.     *)
(***************************************************************************)
GenuineBlocks ==
    \A b \in blks : b.total_blocks = Size[b.file] /\ b.which_block < b.total_blocks

FileOK(c, a) ==
    /\ done[c][a] = -1 => written[c][a] = {}
    /\ done[c][a] # -1 => /\ nbits[c][a] = Size[Args[c][a]]
                          /\ written[c][a] \subseteq BlocksOf(Args[c][a])
                          /\ missing[c][a] = BlocksOf(Args[c][a]) \ written[c][a]
    /\ done[c][a] = 1 <=> done[c][a] # -1 /\ missing[c][a] = {}

FilesOK == \A c \in Clients : \A a \in Files(c) : FileOK(c, a)

\* Only the timeout with which a client gives up is one too many.
TimeoutsOK == \A c \in Clients : phase[c] \in {"off", "running"} => tslr[c] <= GIVEUP

TInv == IInv /\ ClientTypeOK /\ GenuineBlocks /\ FilesOK /\ TimeoutsOK
-----------------------------------------------------------------------------
(* What resend builds are commands.                                        *)

\* The k-th member of a set, counted out, is a number.
LEMMA NthType == ASSUME NEW S, NEW n \in Nat, NEW k PROVE Nth(S, n, k) \in Nat
<1> DEFINE before == { b \in 0 .. n - 1 : Cardinality(S \intersect 0 .. b) < k }
<1>1. IsFiniteSet(0 .. n - 1)
  BY FS_Interval
<1>2. IsFiniteSet(before)
  BY <1>1, FS_Subset
<1> QED
  BY <1>2, FS_CardinalityType DEF Nth

\* The holes of a set of blocks are a sequence of ranges.
LEMMA HoleRangesType ==
  ASSUME NEW n \in Nat, NEW M \in SUBSET (0 .. n - 1)
  PROVE  HoleRanges(M, n) \in Seq(Ranges)
<1>1. IsFiniteSet(HoleStarts(M))
  <2>1. IsFiniteSet(0 .. n - 1) /\ HoleStarts(M) \subseteq 0 .. n - 1
    BY FS_Interval, 0 \in Int, n - 1 \in Int DEF HoleStarts
  <2> QED
    BY <2>1, FS_Subset
<1> DEFINE size == Cardinality(HoleStarts(M))
           hole(k) == [first_block |-> Nth(HoleStarts(M), n, k),
                        last_block  |-> IF Nth(HoleEnds(M), n, k) = n - 1 THEN END
                                        ELSE Nth(HoleEnds(M), n, k)]
<1>2. size \in Nat
  BY <1>1, FS_CardinalityType
<1>3. \A k \in 1 .. size : hole(k) \in Ranges
  BY NthType, HolesAssumption DEF Ranges
<1>4. HoleRanges(M, n) = [k \in 1 .. size |-> hole(k)]
  BY DEF HoleRanges
<1> HIDE DEF size, hole
<1> QED
  BY <1>2, <1>3, <1>4

\* So are the pieces they are cut into.
LEMMA PiecesType ==
  ASSUME NEW s \in Seq(Ranges), NEW r \in Range(Pieces(s))
  PROVE  r \in Seq(Ranges)
<1> DEFINE last(k) == Min({k * MAXRANGES, Len(s)})
<1>1. PICK k \in DOMAIN Pieces(s) : r = SubSeq(s, (k - 1) * MAXRANGES + 1, last(k))
  BY DEF Pieces, Range
<1>2. k \in Nat \ {0}
  BY <1>1, HolesAssumption DEF Pieces
<1>3. k * MAXRANGES \in Nat /\ (k - 1) * MAXRANGES \in Nat
  BY <1>2, HolesAssumption
<1>4. last(k) \in Nat /\ last(k) <= Len(s)
  <2> DEFINE m == k * MAXRANGES
  <2>1. m \in Nat
    BY <1>3
  <2> HIDE DEF m
  <2>2. \E x \in {m, Len(s)} : \A y \in {m, Len(s)} : x <= y
    BY <2>1
  <2>3. Min({m, Len(s)}) \in {m, Len(s)} /\ \A y \in {m, Len(s)} : Min({m, Len(s)}) <= y
    BY <2>2 DEF Min
  <2> QED
    BY <2>1, <2>3 DEF m
<1> HIDE DEF last
<1> DEFINE start == (k - 1) * MAXRANGES + 1
<1>5. start \in Nat \ {0}
  BY <1>3
<1> HIDE DEF start
<1>6. \A i \in start .. last(k) : s[i] \in Ranges
  BY <1>4, <1>5
<1>7. SubSeq(s, start, last(k)) \in Seq(Ranges)
  BY <1>4, <1>5, <1>6, SubSeqProperties
<1> QED
  BY <1>1, <1>7 DEF start

\* What is sent for one file on the command line of a client is a command.
LEMMA CommandType ==
  ASSUME NEW c \in Clients, NEW a \in Files(c), NEW r \in Seq(Ranges)
  PROVE  Command(c, Args[c][a], r) \in Commands
<1>1. Args[c][a] \in Names
  BY ClientAssumption DEF Files
<1> QED
  BY <1>1 DEF Command, Commands

\* The request for a whole file is a command.
LEMMA WholeFileType ==
  ASSUME NEW c \in Clients, NEW a \in Files(c) PROVE WholeFile(c, a) \in Commands
<1>1. [first_block |-> 0, last_block |-> END] \in Ranges
  BY HolesAssumption DEF Ranges
<1>2. <<[first_block |-> 0, last_block |-> END]>> \in Seq(Ranges)
  BY <1>1
<1> QED
  BY <1>2, CommandType DEF WholeFile

\* So is what resend sends for a file of which some blocks came.
LEMMA MissingBlocksType ==
  ASSUME ClientTypeOK, FilesOK, NEW c \in Clients, NEW a \in Files(c), done[c][a] = 0
  PROVE  MissingBlocks(c, a) \subseteq Commands
<1>1. nbits[c][a] \in Nat /\ missing[c][a] \subseteq 0 .. nbits[c][a] - 1
  BY DEF ClientTypeOK, FilesOK, FileOK, BlocksOf
<1>2. HoleRanges(missing[c][a], nbits[c][a]) \in Seq(Ranges)
  BY <1>1, HoleRangesType
<1>3. \A r \in Range(ResendRanges(missing[c][a], nbits[c][a])) : r \in Seq(Ranges)
  BY <1>2, PiecesType DEF ResendRanges
<1> QED
  BY <1>3, CommandType DEF MissingBlocks
-----------------------------------------------------------------------------
(* Every step keeps the invariant.                                         *)

\* What a client has for each of its files is a sequence.
LEMMA FilesInOrder == ASSUME NEW S, NEW c \in Clients PROVE [Files(c) -> S] \subseteq Seq(S)
<1>1. Len(Args[c]) \in Nat /\ Files(c) = 1 .. Len(Args[c])
  BY ClientAssumption DEF Files
<1> QED
  BY <1>1, SeqDef

\* A value for every file of every client.
LEMMA PerFileType ==
  ASSUME NEW S, NEW value \in S
  PROVE  /\ PerFile(value) \in PerFileOf(S)
         /\ \A c \in Clients : PerFile(value)[c] \in [Files(c) -> S]
<1>1. \A c \in Clients : [a \in Files(c) |-> value] \in [Files(c) -> S]
  OBVIOUS
<1> QED
  BY <1>1, FilesInOrder DEF PerFile, PerFileOf

\* The invariant of the transfer holds at first.
LEMMA InitTInv == Init => TInv
<1> SUFFICES ASSUME Init PROVE TInv
  OBVIOUS
<1>1. NetTypeOK /\ GenuineBlocks
  BY TransferAssumption DEF Init, NetTypeOK, GenuineBlocks
<1>2. IInv
  BY <1>1, InitIInv DEF Init
<1>3. ClientTypeOK
  <2>1. /\ phase \in [Clients -> {"off", "running", "complete", "gaveup"}]
        /\ got_any_packet \in [Clients -> BOOLEAN]
        /\ tslr \in [Clients -> 0 .. GIVEUP + 1]
    BY ClientAssumption DEF Init, ClientInit
  <2>2. /\ done \in PerFileOf({-1, 0, 1}) /\ nbits \in PerFileOf(Nat)
        /\ missing \in PerFileOf(SUBSET Nat) /\ written \in PerFileOf(SUBSET Nat)
        /\ \A c \in Clients : /\ done[c] \in [Files(c) -> {-1, 0, 1}]
                              /\ nbits[c] \in [Files(c) -> Nat]
                              /\ missing[c] \in [Files(c) -> SUBSET Nat]
                              /\ written[c] \in [Files(c) -> SUBSET Nat]
    BY PerFileType DEF Init, ClientInit
  <2> QED
    BY <1>1, <2>1, <2>2 DEF ClientTypeOK
<1>4. FilesOK
  BY DEF Init, ClientInit, FilesOK, FileOK, PerFile
<1>5. TimeoutsOK
  BY ClientAssumption DEF Init, ClientInit, TimeoutsOK
<1> QED
  BY <1>1, <1>2, <1>3, <1>4, <1>5 DEF TInv

\* The server only sends blocks that are in the file.
LEMMA ServerKeepsTInv == ASSUME TInv, Server PROVE TInv'
<1>1. IInv /\ ServerStep /\ UNCHANGED clientVars
  BY DEF TInv, Server, Beside
<1>2. IInv'
  BY <1>1, MainKeepsIInv, ThreadKeepsIInv DEF ServerStep
<1>3. ClientTypeOK' /\ FilesOK' /\ TimeoutsOK'
  <2>1. NetTypeOK'
    BY <1>2 DEF IInv, ServerTypeOK
  <2> QED
    BY <1>1, <2>1 DEF TInv, ClientTypeOK, FilesOK, FileOK, TimeoutsOK, clientVars
<1>4. GenuineBlocks'
  <2>1. CASE SendBlock
    <3> DEFINE b == [client |-> client_addr[j], file |-> j,
                     which_block |-> which[j], total_blocks |-> Size[j]]
    <3>1. blks' = blks \union {b}
      BY <2>1 DEF SendBlock
    <3>2. j \in Range(jobs) /\ which[j] \in 0 .. Size[j] - 1 /\ Size[j] \in Int
      BY <1>1, <2>1, ServerAssumption
      DEF SendBlock, IInv, ThreadOK, ListOK, BlocksOf, ServerTypeOK
    <3>3. b.total_blocks = Size[b.file] /\ b.which_block < b.total_blocks
      BY <3>2
    <3> QED
      BY <3>1, <3>3 DEF TInv, GenuineBlocks
  <2>2. CASE ~SendBlock
    <3>1. blks' = blks
      BY <1>1, <2>2
      DEF ServerStep, RecvCommand, MainStep, FindJob, UpdateRange, UpdateDone, OpenFails,
          OpenFile, InsertJob, WakeThread, ThreadStep, WaitForWork, FreeStep, StartPass,
          EndOfWork, FindEmpty, PickBlock, SkipJob, RemoveJob, SeekOn, PretendToSend,
          MarkSent, netVars
    <3> QED
      BY <3>1 DEF TInv, GenuineBlocks
  <2> QED
    BY <2>1, <2>2
<1> QED
  BY <1>2, <1>3, <1>4 DEF TInv

\* What clients send are commands, and only the server sends blocks.
LEMMA ClientKeepsNet ==
  ASSUME TInv, NEW c \in Clients, ClientStep(c)
  PROVE  cmds' \subseteq Commands /\ blks' \subseteq blks
<1>0. cmds \subseteq Commands
  BY DEF TInv, ClientTypeOK, NetTypeOK
<1>1. CASE ClientStart(c)
  BY <1>0, <1>1, WholeFileType DEF ClientStart
<1>2. CASE AskAgain(c)
  BY <1>0, <1>2, WholeFileType, MissingBlocksType DEF AskAgain, Timeout, TInv
<1>3. CASE GiveUp(c) \/ AwaitFirst(c) \/ Finish(c)
  BY <1>0, <1>3 DEF GiveUp, AwaitFirst, Finish, Timeout
<1>4. CASE ClientRecv(c)
  BY <1>0, <1>4
  DEF ClientRecv, IgnoreStranger, IgnoreLate, WriteBlock, ServerHeard, Received, Matches
<1> QED
  BY <1>1, <1>2, <1>3, <1>4 DEF ClientStep, ClientTimeout

\* One entry of a table with an entry for each file of each client.
Updated(table, c, a, value) == [table EXCEPT ![c][a] = value]

\* One value changed, for one client and one file.
LEMMA UpdatedType ==
  ASSUME NEW S, NEW table \in PerFileOf(S), \A k \in Clients : table[k] \in [Files(k) -> S],
         NEW c \in Clients, NEW a \in Files(c), NEW value \in S
  PROVE  LET new == Updated(table, c, a, value)
         IN  /\ new \in PerFileOf(S)
             /\ \A k \in Clients : new[k] \in [Files(k) -> S]
             /\ new[c][a] = value
             /\ \A k \in Clients : \A m \in Files(k) :
                   k # c \/ m # a => new[k][m] = table[k][m]
<1> DEFINE new == Updated(table, c, a, value)
<1>1. /\ new = [k \in Clients |-> IF k = c THEN [table[c] EXCEPT ![a] = value] ELSE table[k]]
  BY DEF Updated, PerFileOf
<1>2. [table[c] EXCEPT ![a] = value] \in [Files(c) -> S]
  OBVIOUS
<1>3. \A k \in Clients : new[k] \in [Files(k) -> S]
  BY <1>1, <1>2
<1>4. new \in PerFileOf(S)
  BY <1>1, <1>3, FilesInOrder DEF PerFileOf
<1>5. new[c][a] = value /\ \A k \in Clients : \A m \in Files(k) :
                             k # c \/ m # a => new[k][m] = table[k][m]
  BY <1>1
<1> QED
  BY <1>3, <1>4, <1>5

\* A block that is written was missing or is written again: the bits keep
\* matching the file.
LEMMA WriteKeepsFiles ==
  ASSUME TInv, NEW c \in Clients, WriteBlock(c)
  PROVE  /\ done' \in PerFileOf({-1, 0, 1}) /\ nbits' \in PerFileOf(Nat)
         /\ missing' \in PerFileOf(SUBSET Nat) /\ written' \in PerFileOf(SUBSET Nat)
         /\ \A k \in Clients : /\ done'[k] \in [Files(k) -> {-1, 0, 1}]
                               /\ nbits'[k] \in [Files(k) -> Nat]
                               /\ missing'[k] \in [Files(k) -> SUBSET Nat]
                               /\ written'[k] \in [Files(k) -> SUBSET Nat]
         /\ FilesOK'
<1>1. PICK a \in Files(c), b \in blks :
        LET left == BitsBefore(c, a, b) \ {b.which_block}
        IN  /\ Matches(c, a, b) /\ done[c][a] # 1
            /\ nbits' = [nbits EXCEPT ![c][a] = IF done[c][a] = -1 THEN b.total_blocks ELSE @]
            /\ written' = [written EXCEPT ![c][a] = @ \union {b.which_block}]
            /\ missing' = [missing EXCEPT ![c][a] = left]
            /\ done' = [done EXCEPT ![c][a] = IF left = {} THEN 1 ELSE 0]
  BY DEF WriteBlock
<1> DEFINE left == BitsBefore(c, a, b) \ {b.which_block}
<1>2. /\ b.file = Args[c][a] /\ b.total_blocks = Size[Args[c][a]]
      /\ b.which_block \in BlocksOf(Args[c][a]) /\ b.total_blocks \in Nat
  BY <1>1 DEF TInv, GenuineBlocks, Matches, ClientTypeOK, NetTypeOK, Blocks, BlocksOf
<1>3. FileOK(c, a)
  BY DEF TInv, FilesOK
<1>4. BitsBefore(c, a, b) = BlocksOf(Args[c][a]) \ written[c][a]
  BY <1>2, <1>3 DEF BitsBefore, FileOK, BlocksOf
<1>5. left = BlocksOf(Args[c][a]) \ (written[c][a] \union {b.which_block})
  BY <1>4
<1>6. BlocksOf(Args[c][a]) \subseteq Nat
  BY DEF BlocksOf
<1> HIDE DEF left
<1>7. /\ nbits' = [nbits EXCEPT ![c][a] = IF done[c][a] = -1 THEN b.total_blocks ELSE @]
      /\ written' = [written EXCEPT ![c][a] = @ \union {b.which_block}]
      /\ missing' = [missing EXCEPT ![c][a] = left]
      /\ done' = [done EXCEPT ![c][a] = IF left = {} THEN 1 ELSE 0]
  BY <1>1 DEF left
<1> DEFINE newDone  == IF left = {} THEN 1 ELSE 0
           newNbits == IF done[c][a] = -1 THEN b.total_blocks ELSE nbits[c][a]
<1>8. /\ newDone \in {-1, 0, 1} /\ newNbits \in Nat /\ left \in SUBSET Nat
      /\ written[c][a] \union {b.which_block} \in SUBSET Nat
  BY <1>2, <1>3, <1>5, <1>6 DEF TInv, ClientTypeOK, FileOK
<1> HIDE DEF newDone, newNbits
<1>9. /\ done' = Updated(done, c, a, newDone)
      /\ nbits' = Updated(nbits, c, a, newNbits)
      /\ missing' = Updated(missing, c, a, left)
      /\ written' = Updated(written, c, a, written[c][a] \union {b.which_block})
  BY <1>7 DEF Updated, newDone, newNbits
<1>10. /\ done' \in PerFileOf({-1, 0, 1}) /\ nbits' \in PerFileOf(Nat)
       /\ missing' \in PerFileOf(SUBSET Nat) /\ written' \in PerFileOf(SUBSET Nat)
       /\ \A k \in Clients : /\ done'[k] \in [Files(k) -> {-1, 0, 1}]
                             /\ nbits'[k] \in [Files(k) -> Nat]
                             /\ missing'[k] \in [Files(k) -> SUBSET Nat]
                             /\ written'[k] \in [Files(k) -> SUBSET Nat]
       /\ done'[c][a] = newDone /\ nbits'[c][a] = newNbits /\ missing'[c][a] = left
       /\ written'[c][a] = written[c][a] \union {b.which_block}
       /\ \A k \in Clients : \A m \in Files(k) : k # c \/ m # a =>
            /\ done'[k][m] = done[k][m] /\ nbits'[k][m] = nbits[k][m]
            /\ missing'[k][m] = missing[k][m] /\ written'[k][m] = written[k][m]
  <2>1. /\ done' \in PerFileOf({-1, 0, 1}) /\ done'[c][a] = newDone
        /\ \A k \in Clients : done'[k] \in [Files(k) -> {-1, 0, 1}]
        /\ \A k \in Clients : \A m \in Files(k) : k # c \/ m # a => done'[k][m] = done[k][m]
    <3> DEFINE S == {-1, 0, 1}
               value == newDone
    <3>1. done \in PerFileOf(S) /\ \A k \in Clients : done[k] \in [Files(k) -> S]
      BY DEF TInv, ClientTypeOK
    <3>2. value \in S /\ done' = Updated(done, c, a, value)
      BY <1>8, <1>9
    <3> HIDE DEF S, value
    <3>3. /\ done' \in PerFileOf(S) /\ done'[c][a] = value
          /\ \A k \in Clients : done'[k] \in [Files(k) -> S]
          /\ \A k \in Clients : \A m \in Files(k) : k # c \/ m # a => done'[k][m] = done[k][m]
      BY <3>1, <3>2, UpdatedType
    <3> QED
      BY <3>3 DEF S, value
  <2>2. /\ nbits' \in PerFileOf(Nat) /\ nbits'[c][a] = newNbits
        /\ \A k \in Clients : nbits'[k] \in [Files(k) -> Nat]
        /\ \A k \in Clients : \A m \in Files(k) : k # c \/ m # a => nbits'[k][m] = nbits[k][m]
    <3> DEFINE S == Nat
               value == newNbits
    <3>1. nbits \in PerFileOf(S) /\ \A k \in Clients : nbits[k] \in [Files(k) -> S]
      BY DEF TInv, ClientTypeOK
    <3>2. value \in S /\ nbits' = Updated(nbits, c, a, value)
      BY <1>8, <1>9
    <3> HIDE DEF S, value
    <3>3. /\ nbits' \in PerFileOf(S) /\ nbits'[c][a] = value
          /\ \A k \in Clients : nbits'[k] \in [Files(k) -> S]
          /\ \A k \in Clients : \A m \in Files(k) : k # c \/ m # a => nbits'[k][m] = nbits[k][m]
      BY <3>1, <3>2, UpdatedType
    <3> QED
      BY <3>3 DEF S, value
  <2>3. /\ missing' \in PerFileOf(SUBSET Nat) /\ missing'[c][a] = left
        /\ \A k \in Clients : missing'[k] \in [Files(k) -> SUBSET Nat]
        /\ \A k \in Clients : \A m \in Files(k) : k # c \/ m # a => missing'[k][m] = missing[k][m]
    <3> DEFINE S == SUBSET Nat
               value == left
    <3>1. missing \in PerFileOf(S) /\ \A k \in Clients : missing[k] \in [Files(k) -> S]
      BY DEF TInv, ClientTypeOK
    <3>2. value \in S /\ missing' = Updated(missing, c, a, value)
      BY <1>8, <1>9
    <3> HIDE DEF S, value
    <3>3. /\ missing' \in PerFileOf(S) /\ missing'[c][a] = value
          /\ \A k \in Clients : missing'[k] \in [Files(k) -> S]
          /\ \A k \in Clients : \A m \in Files(k) : k # c \/ m # a => missing'[k][m] = missing[k][m]
      BY <3>1, <3>2, UpdatedType
    <3> QED
      BY <3>3 DEF S, value
  <2>4. /\ written' \in PerFileOf(SUBSET Nat) /\ written'[c][a] = written[c][a] \union {b.which_block}
        /\ \A k \in Clients : written'[k] \in [Files(k) -> SUBSET Nat]
        /\ \A k \in Clients : \A m \in Files(k) : k # c \/ m # a => written'[k][m] = written[k][m]
    <3> DEFINE S == SUBSET Nat
               value == written[c][a] \union {b.which_block}
    <3>1. written \in PerFileOf(S) /\ \A k \in Clients : written[k] \in [Files(k) -> S]
      BY DEF TInv, ClientTypeOK
    <3>2. value \in S /\ written' = Updated(written, c, a, value)
      BY <1>8, <1>9
    <3> HIDE DEF S, value
    <3>3. /\ written' \in PerFileOf(S) /\ written'[c][a] = value
          /\ \A k \in Clients : written'[k] \in [Files(k) -> S]
          /\ \A k \in Clients : \A m \in Files(k) : k # c \/ m # a => written'[k][m] = written[k][m]
      BY <3>1, <3>2, UpdatedType
    <3> QED
      BY <3>3 DEF S, value
  <2> QED
    BY <2>1, <2>2, <2>3, <2>4
<1>11. FileOK(c, a)'
  <2>1. /\ done'[c][a] = newDone /\ nbits'[c][a] = newNbits /\ missing'[c][a] = left
        /\ written'[c][a] = written[c][a] \union {b.which_block}
    BY <1>10
  <2>2. newNbits = Size[Args[c][a]]
    BY <1>2, <1>3 DEF FileOK, newNbits
  <2>3. written[c][a] \union {b.which_block} \subseteq BlocksOf(Args[c][a])
    BY <1>2, <1>3 DEF FileOK, BlocksOf
  <2>4. newDone # -1 /\ (newDone = 1 <=> left = {})
    BY DEF newDone
  <2> QED
    BY <1>5, <2>1, <2>2, <2>3, <2>4 DEF FileOK, BlocksOf
<1>12. FilesOK'
  BY <1>10, <1>11 DEF TInv, FilesOK, FileOK, BlocksOf
<1> QED
  BY <1>10, <1>12

\* The steps of one client.
LEMMA ClientKeepsTInv ==
  ASSUME TInv, NEW c \in Clients, ClientStep(c), UNCHANGED serverVars
  PROVE  TInv'
<1> USE ClientAssumption
<1>1. NetTypeOK' /\ GenuineBlocks'
  BY ClientKeepsNet DEF TInv, ClientTypeOK, NetTypeOK, GenuineBlocks
<1>2. IInv'
  BY <1>1, OthersKeepIInv DEF TInv
<1>3. /\ phase' \in [Clients -> {"off", "running", "complete", "gaveup"}]
      /\ got_any_packet' \in [Clients -> BOOLEAN]
      /\ tslr' \in [Clients -> 0 .. GIVEUP + 1]
      /\ TimeoutsOK'
  <2>0. /\ phase \in [Clients -> {"off", "running", "complete", "gaveup"}]
        /\ got_any_packet \in [Clients -> BOOLEAN]
        /\ tslr \in [Clients -> 0 .. GIVEUP + 1]
        /\ TimeoutsOK
    BY DEF TInv, ClientTypeOK
  <2>1. CASE ClientStart(c)
    BY <2>0, <2>1 DEF ClientStart, TimeoutsOK
  <2>2. CASE GiveUp(c)
    <3>1. tslr[c] <= GIVEUP
      BY <2>0, <2>2 DEF GiveUp, Timeout, TimeoutsOK
    <3> QED
      BY <2>0, <2>2, <3>1 DEF GiveUp, Timeout, TimeoutsOK
  <2>3. CASE AwaitFirst(c) \/ AskAgain(c) \/ Finish(c)
    <3>1. tslr' = [tslr EXCEPT ![c] = @ + 1] /\ tslr'[c] <= GIVEUP
      BY <2>0, <2>3 DEF AwaitFirst, AskAgain, Finish, Timeout, TooMany
    <3>2. /\ got_any_packet' = got_any_packet
          /\ phase' = phase \/ phase' = [phase EXCEPT ![c] = "complete"]
      BY <2>3 DEF AwaitFirst, AskAgain, Finish, Timeout
    <3>3. tslr' \in [Clients -> 0 .. GIVEUP + 1]
      BY <2>0, <3>1
    <3>4. \A k \in Clients \ {c} : tslr'[k] = tslr[k] /\ phase'[k] = phase[k]
      BY <2>0, <3>1, <3>2
    <3>5. TimeoutsOK'
      BY <2>0, <3>1, <3>4 DEF TimeoutsOK
    <3> QED
      BY <2>0, <3>2, <3>3, <3>5
  <2>4. CASE ServerHeard(c)
    BY <2>0, <2>4 DEF ServerHeard, TimeoutsOK
  <2>5. CASE IgnoreStranger(c)
    BY <2>0, <2>5 DEF IgnoreStranger, TimeoutsOK, clientVars
  <2> QED
    BY <2>1, <2>2, <2>3, <2>4, <2>5
    DEF ClientStep, ClientTimeout, ClientRecv, IgnoreLate, WriteBlock
<1>4. CASE WriteBlock(c)
  BY <1>1, <1>2, <1>3, <1>4, WriteKeepsFiles DEF TInv, ClientTypeOK
<1>5. CASE UNCHANGED <<done, nbits, missing, written>>
  BY <1>1, <1>2, <1>3, <1>5 DEF TInv, ClientTypeOK, FilesOK, FileOK
<1> QED
  BY <1>4, <1>5
  DEF ClientStep, ClientStart, ClientTimeout, GiveUp, AwaitFirst, AskAgain, Finish, Timeout,
      ClientRecv, IgnoreStranger, IgnoreLate, clientVars

\* All steps of the program.
LEMMA NextKeepsTInv == TInv /\ [Next]_vars => TInv'
<1> SUFFICES ASSUME TInv, [Next]_vars PROVE TInv'
  OBVIOUS
<1>1. CASE Server
  BY <1>1, ServerKeepsTInv
<1>2. CASE \E c \in Clients : ClientStarts(c) \/ ClientTimesOut(c) \/ ClientReceives(c)
  <2>1. PICK c \in Clients : ClientStep(c) /\ UNCHANGED serverVars
    BY <1>2 DEF ClientStarts, ClientTimesOut, ClientReceives, ClientStep
  <2> QED
    BY <2>1, ClientKeepsTInv
<1>3. CASE LoseDatagram
  <2>1. /\ cmds' \subseteq cmds /\ blks' \subseteq blks
        /\ UNCHANGED serverVars /\ UNCHANGED clientVars
    BY <1>3 DEF LoseDatagram
  <2>2. NetTypeOK' /\ GenuineBlocks'
    BY <2>1 DEF TInv, ClientTypeOK, NetTypeOK, GenuineBlocks
  <2>3. IInv'
    BY <2>1, <2>2, OthersKeepIInv DEF TInv
  <2> QED
    BY <2>1, <2>2, <2>3 DEF TInv, ClientTypeOK, FilesOK, FileOK, TimeoutsOK, clientVars
<1>4. CASE UNCHANGED vars
  <2>1. UNCHANGED serverVars /\ UNCHANGED clientVars /\ UNCHANGED netVars
    BY <1>4 DEF vars
  <2>2. NetTypeOK' /\ GenuineBlocks'
    BY <2>1 DEF TInv, ClientTypeOK, NetTypeOK, GenuineBlocks, netVars
  <2>3. IInv'
    BY <2>1, <2>2, OthersKeepIInv DEF TInv
  <2> QED
    BY <2>1, <2>2, <2>3 DEF TInv, ClientTypeOK, FilesOK, FileOK, TimeoutsOK, clientVars
<1> QED
  BY <1>1, <1>2, <1>3, <1>4 DEF Next

\* The invariant of the transfer holds always.
LEMMA InvariantHolds == Spec => []TInv
  BY InitTInv, NextKeepsTInv, PTL DEF Spec
-----------------------------------------------------------------------------
(* The theorems.                                                           *)

(***************************************************************************)
(* The clients and the network are type correct; in particular the count   *)
(* of timeouts never passes GIVEUP + 1 (hw2/client.c:213-219).             *)
(***************************************************************************)
THEOREM ClientsTypeCorrect == Spec => []ClientTypeOK
  BY InvariantHolds, PTL DEF TInv

(***************************************************************************)
(* The bits of a client match its copy of the file, whatever is lost,      *)
(* reordered or duplicated (hw2/client.c:315-347).                         *)
(***************************************************************************)
THEOREM BitsAreExact == Spec => []BitsMatchDisk
<1>1. TInv => BitsMatchDisk
  BY DEF TInv, FilesOK, FileOK, BitsMatchDisk
<1> QED
  BY <1>1, InvariantHolds, PTL

(***************************************************************************)
(* The server keeps its invariants when it serves the real clients of hw2  *)
(* and not just any: the job thread works on live jobs                     *)
(* (hw2/server.c:113-185), finds a block to send (hw2/server.c:62-71) and  *)
(* loses no wakeup (hw2/server.c:106, 378, 429).                           *)
(***************************************************************************)
THEOREM ServerStaysSound == Spec => [](WorksOnLiveJob /\ SearchFindsBlock /\ NoLostWakeup)
<1>1. TInv => WorksOnLiveJob /\ SearchFindsBlock /\ NoLostWakeup
  BY DEF TInv, IInv, ServerTypeOK, ListOK, MainOK, ThreadOK, WorksOnLiveJob, SearchFindsBlock,
         Distinct, Range
<1> QED
  BY <1>1, InvariantHolds, PTL
-----------------------------------------------------------------------------
(* The program implements module BlockDelivery.                            *)

\* The outcome BlockDelivery sees.
Outcome == [c \in Clients |-> IF phase[c] = "off" THEN "running" ELSE phase[c]]

\* A block that is written is delivered, unless it is written again.
LEMMA WriteDelivers ==
  ASSUME TInv, NEW c \in Clients, WriteBlock(c)
  PROVE  Delivery!Next \/ UNCHANGED Delivery!vars
<1>1. PICK a \in Files(c), b \in blks :
        /\ Matches(c, a, b)
        /\ written' = [written EXCEPT ![c][a] = @ \union {b.which_block}]
  BY DEF WriteBlock
<1>2. phase[c] = "running" /\ Outcome' = Outcome
  BY DEF WriteBlock, ServerHeard, Outcome
<1>3. Outcome[c] = "running"
  BY <1>2 DEF Outcome
<1>4. b.which_block \in BlocksOf(Args[c][a])
  BY <1>1 DEF TInv, GenuineBlocks, ClientTypeOK, NetTypeOK, Blocks, Matches, BlocksOf
<1>5. CASE b.which_block \in written[c][a]
  <2>1. written[c][a] \union {b.which_block} = written[c][a]
    BY <1>5
  <2>2. written' = [written EXCEPT ![c][a] = written[c][a]]
    BY <1>1, <2>1
  <2>3. written \in [Clients -> Seq(SUBSET Nat)]
        /\ written[c] \in [Files(c) -> SUBSET Nat]
    BY DEF TInv, ClientTypeOK, PerFileOf
  <2>4. written' = written
    BY <2>2, <2>3
  <2> QED
    BY <1>2, <2>4 DEF Delivery!vars, Outcome
<1>6. CASE b.which_block \notin written[c][a]
  <2>1. Delivery!Deliver(c, a, b.which_block)
    BY <1>1, <1>2, <1>3, <1>4, <1>6 DEF Delivery!Deliver, Delivery!All, BlocksOf, Outcome
  <2> QED
    BY <1>4, <2>1 DEF Delivery!Next, Delivery!All, BlocksOf, Files
<1> QED
  BY <1>5, <1>6

\* A client that finishes has all blocks.
LEMMA FinishCompletes ==
  ASSUME TInv, NEW c \in Clients, Finish(c)
  PROVE  Delivery!Next
<1>1. phase[c] = "running" /\ phase' = [phase EXCEPT ![c] = "complete"] /\ written' = written
  BY DEF Finish, Timeout
<1>2. Outcome[c] = "running" /\ Outcome' = [Outcome EXCEPT ![c] = "complete"]
  BY <1>1 DEF TInv, ClientTypeOK, Outcome
<1>3. \A a \in Files(c) : written[c][a] = BlocksOf(Args[c][a])
  <2> SUFFICES ASSUME NEW a \in Files(c) PROVE written[c][a] = BlocksOf(Args[c][a])
    OBVIOUS
  <2>1. done[c][a] = 1 /\ FileOK(c, a)
    BY DEF Finish, AllDone, TInv, FilesOK
  <2>2. missing[c][a] = {} /\ missing[c][a] = BlocksOf(Args[c][a]) \ written[c][a]
        /\ written[c][a] \subseteq BlocksOf(Args[c][a])
    BY <2>1 DEF FileOK
  <2> QED
    BY <2>2
<1>4. Delivery!Complete(c)
  BY <1>1, <1>2, <1>3 DEF Delivery!Complete, Delivery!All, BlocksOf, Outcome, Files
<1> QED
  BY <1>4 DEF Delivery!Next

\* A client that gives up is one that gives up in the abstract.
LEMMA GiveUpGivesUp ==
  ASSUME TInv, NEW c \in Clients, GiveUp(c)
  PROVE  Delivery!Next
<1>1. phase[c] = "running" /\ phase' = [phase EXCEPT ![c] = "gaveup"] /\ written' = written
  BY DEF GiveUp, Timeout
<1>2. Outcome[c] = "running" /\ Outcome' = [Outcome EXCEPT ![c] = "gaveup"]
  BY <1>1 DEF TInv, ClientTypeOK, Outcome
<1>3. Delivery!GiveUp(c)
  BY <1>1, <1>2 DEF Delivery!GiveUp, Outcome
<1> QED
  BY <1>3 DEF Delivery!Next

\* Every other step goes unseen.
LEMMA StepDelivers == TInv /\ [Next]_vars => [Delivery!Next]_(Delivery!vars)
<1> SUFFICES ASSUME TInv, [Next]_vars PROVE Delivery!Next \/ UNCHANGED Delivery!vars
  OBVIOUS
<1>1. CASE \E c \in Clients : WriteBlock(c)
  BY <1>1, WriteDelivers
<1>2. CASE \E c \in Clients : Finish(c)
  BY <1>2, FinishCompletes
<1>3. CASE \E c \in Clients : GiveUp(c)
  BY <1>3, GiveUpGivesUp
<1>4. CASE UNCHANGED <<phase, written>>
  BY <1>4 DEF Delivery!vars
<1>5. CASE \E c \in Clients : ClientStart(c)
  BY <1>5 DEF ClientStart, TInv, ClientTypeOK, Delivery!vars
<1> QED
  BY <1>1, <1>2, <1>3, <1>4, <1>5
  DEF Next, vars, clientVars, Server, Beside, LoseDatagram, ClientStarts, ClientTimesOut, ClientTimeout,
      ClientReceives, ClientRecv, AwaitFirst, AskAgain, Timeout, IgnoreStranger, IgnoreLate,
      ServerHeard

(***************************************************************************)
(* The file transfer implements BlockDelivery: a client that ends as       *)
(* complete (hw2/client.c:235-242) has every block of each of its files,   *)
(* and never obtains a block that is not in the file.                      *)
(***************************************************************************)
THEOREM TransferDelivers == Spec => ImplementsDelivery
<1>1. Init => Delivery!Init
  BY DEF Init, ClientInit, PerFile, Files, Delivery!Init
<1> QED
  BY <1>1, StepDelivers, InvariantHolds, PTL DEF Spec, ImplementsDelivery
=============================================================================
