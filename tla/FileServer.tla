----------------------------- MODULE FileServer -----------------------------
(***************************************************************************)
(* hw2/server.c: the main thread turns commands into jobs, the job thread  *)
(* sends the blocks of all jobs in turn.  They share the list of jobs      *)
(* under the mutex safetomodify, and the mutex worktodo, which main        *)
(* unlocks to let the job thread run.                                      *)
(*                                                                         *)
(* One action is one critical section, or one step between two accesses to *)
(* shared state.  The job thread looks at the list and at the todo bits    *)
(* without the lock (hw2/server.c:108, 113, 138), so those are steps of    *)
(* their own that can fall between any two of main's.                      *)
(***************************************************************************)
EXTENDS Udp, Bits, SequencesExt

CONSTANTS Size,      \* blocks of each file; negative: the file cannot be opened
          Slashed,   \* the names that contain a '/'
          MODE,      \* "normal", "busy" or "goofy"
          FDLIMIT,   \* file descriptors the process may have open for files
          NULL       \* no job

ASSUME ServerAssumption ==
    /\ Size \in [Names -> Int]
    /\ Slashed \subseteq Names
    /\ MODE \in {"normal", "busy", "goofy"}
    /\ FDLIMIT \in Nat
    /\ NULL \notin Names

VARIABLES
  \* the job list and its mutexes
  jobs,         \* the files of the jobs from head on; a file has one job at most
  todo,         \* todo[f]: blocks of f still to be sent
  which,        \* which[f]: the block of f last looked at
  client_addr,  \* client_addr[f]: where the blocks of f go
  worktodo,     \* is the mutex worktodo locked?
  fds,          \* descriptors open for files
  \* the main thread
  mpc,          \* where it is
  loc_cmd,      \* the command it handles, NULL before the first
  range,        \* the range of loc_cmd it sets next
  \* the job thread
  jpc,          \* where it is
  j             \* the job it works on

jobVars    == <<jobs, todo, which, client_addr>>
mainVars   == <<mpc, loc_cmd, range>>
threadVars == <<jpc, j>>
serverVars == <<jobs, todo, which, client_addr, worktodo, fds, mpc, loc_cmd, range, jpc, j>>

BlocksOf(f) == 0 .. Size[f] - 1

\* Definitions whose name has an underscore and a capital are what the one
\* after them would be with a mistake in it: the properties notice them.

ServerInit ==
    /\ jobs = <<>>
    /\ todo = [f \in Names |-> {}]
    /\ which = [f \in Names |-> 0]
    /\ client_addr = [f \in Names |-> NULL]
    /\ worktodo = TRUE
    /\ fds = 0
    /\ mpc = "recv" /\ loc_cmd = NULL /\ range = 1
    /\ jpc = "wait" /\ j = NULL
-----------------------------------------------------------------------------
(* The main thread.                                                        *)

Unlocked_NoMutex == TRUE

\* main holds safetomodify from finding the job to the end of the update.
Unlocked == mpc # "update"

Acceptable_AnySize(m) == m.file \notin Slashed

\* A command of the wrong size or with a '/' in its name is dropped.
Acceptable(m) == m.nranges = Len(m.ranges) /\ m.file \notin Slashed

RecvCommand ==
    /\ mpc = "recv"
    /\ \E m \in cmds :
         /\ Received(cmds, m, cmds')
         /\ loc_cmd' = m
         /\ mpc' = IF Acceptable(m) THEN "find" ELSE "recv"
    /\ range' = 1
    /\ UNCHANGED <<blks, jobs, todo, which, client_addr, worktodo, fds, jpc, j>>

\* Locks safetomodify; keeps it only when the file has a job.
FindJob ==
    /\ mpc = "find"
    /\ mpc' = IF loc_cmd.file \in Range(jobs) THEN "update" ELSE "open"
    /\ UNCHANGED <<netVars, jobVars, worktodo, fds, loc_cmd, range, threadVars>>

\* One range of the command goes into the job that was found.
UpdateRange ==
    /\ mpc = "update" /\ range <= loc_cmd.nranges
    /\ \E wraps \in BOOLEAN :
         todo' = [todo EXCEPT ![loc_cmd.file] = @ \union
                    RangeBits(Size[loc_cmd.file], loc_cmd.ranges[range].first_block,
                              loc_cmd.ranges[range].last_block, wraps)]
    /\ range' = range + 1
    /\ UNCHANGED <<netVars, jobs, which, client_addr, worktodo, fds, mpc, loc_cmd, threadVars>>

\* All ranges are in: unlocks safetomodify.
UpdateDone ==
    /\ mpc = "update" /\ range > loc_cmd.nranges
    /\ mpc' = "wake"
    /\ UNCHANGED <<netVars, jobVars, worktodo, fds, loc_cmd, range, threadVars>>

\* The file cannot be opened, or the process is out of descriptors.
OpenFails ==
    /\ mpc = "open" /\ (Size[loc_cmd.file] < 0 \/ fds = FDLIMIT)
    /\ mpc' = "recv"
    /\ UNCHANGED <<netVars, jobVars, worktodo, fds, loc_cmd, range, threadVars>>

\* The file is opened and its block 0 read.  A file without a block 0 makes
\* main drop the command, and the descriptor stays open.
OpenFile ==
    /\ mpc = "open" /\ Size[loc_cmd.file] >= 0 /\ fds < FDLIMIT
    /\ fds' = fds + 1
    /\ mpc' = IF Size[loc_cmd.file] = 0 THEN "recv" ELSE "insert"
    /\ UNCHANGED <<netVars, jobVars, worktodo, loc_cmd, range, threadVars>>

\* The job is built and put at the head of the list.
InsertJob ==
    /\ mpc = "insert"
    /\ jobs' = <<loc_cmd.file>> \o jobs
    /\ \E wraps \in BOOLEAN :
         todo' = [todo EXCEPT ![loc_cmd.file] =
                    CommandBits(Size[loc_cmd.file], loc_cmd.ranges, wraps)]
    /\ \E start \in BlocksOf(loc_cmd.file) :
         which' = [which EXCEPT ![loc_cmd.file] = start]
    /\ client_addr' = [client_addr EXCEPT ![loc_cmd.file] = loc_cmd.client]
    /\ mpc' = "wake"
    /\ UNCHANGED <<netVars, worktodo, fds, loc_cmd, range, threadVars>>

\* Unlocks worktodo, "safe to unlock even if unlocked".
WakeThread ==
    /\ mpc = "wake"
    /\ worktodo' = FALSE
    /\ mpc' = "recv"
    /\ UNCHANGED <<netVars, jobVars, fds, loc_cmd, range, threadVars>>

MainStep ==
    \/ FindJob \/ UpdateRange \/ UpdateDone \/ OpenFails \/ OpenFile
    \/ InsertJob \/ WakeThread
-----------------------------------------------------------------------------
(* The job thread.                                                         *)

Position(f) == CHOOSE i \in DOMAIN jobs : jobs[i] = f

NextJob_BackToHead(f) == NULL

\* j->next
NextJob(f) == IF Position(f) < Len(jobs) THEN jobs[Position(f) + 1] ELSE NULL

\* The inner loop goes on with job f, or ends and the list is looked at again.
GoTo(f) == j' = f /\ jpc' = IF f = NULL THEN "head" ELSE "check"

WaitForWork ==
    /\ jpc = "wait" /\ ~worktodo
    /\ worktodo' = TRUE
    /\ jpc' = "head"
    /\ UNCHANGED <<netVars, jobVars, fds, mainVars, j>>

\* while (head): starts with the first job ...
StartPass ==
    /\ jpc = "head" /\ jobs # <<>>
    /\ GoTo(Head(jobs))
    /\ UNCHANGED <<netVars, jobVars, worktodo, fds, mainVars>>

EndOfWork_OnePass ==
    /\ jpc = "head"
    /\ jpc' = "wait"
    /\ UNCHANGED <<netVars, jobVars, worktodo, fds, mainVars, j>>

\* ... or is idle.
EndOfWork ==
    /\ jpc = "head" /\ jobs = <<>>
    /\ jpc' = "wait"
    /\ UNCHANGED <<netVars, jobVars, worktodo, fds, mainVars, j>>

\* bits_empty, without the lock: nothing to do for this job ...
FindEmpty ==
    /\ jpc = "check" /\ todo[j] = {}
    /\ jpc' = "remove"
    /\ UNCHANGED <<netVars, jobVars, worktodo, fds, mainVars, j>>

\* ... or a block to look for, from the last one on or from a random one ...
PickBlock ==
    /\ jpc = "check" /\ todo[j] # {}
    /\ jpc' = "seek"
    /\ \E start \in IF MODE = "goofy" THEN BlocksOf(j) ELSE {which[j]} :
         which' = [which EXCEPT ![j] = start]
    /\ UNCHANGED <<netVars, jobs, todo, client_addr, worktodo, fds, mainVars, j>>

\* ... or, one time in ten, the job is passed over.
SkipJob ==
    /\ jpc = "check" /\ todo[j] # {} /\ MODE # "normal"
    /\ GoTo(NextJob(j))
    /\ UNCHANGED <<netVars, jobVars, worktodo, fds, mainVars>>

CloseFile_Forgotten == fds' = fds

CloseFile == fds' = fds - 1

\* Takes the job out of the list and destroys it, under safetomodify.
RemoveJob ==
    /\ jpc = "remove" /\ Unlocked
    /\ jobs' = RemoveAt(jobs, Position(j))
    /\ todo' = [todo EXCEPT ![j] = {}]
    /\ which' = [which EXCEPT ![j] = 0]
    /\ client_addr' = [client_addr EXCEPT ![j] = NULL]
    /\ CloseFile
    /\ GoTo(NextJob(j))
    /\ UNCHANGED <<netVars, worktodo, mainVars>>

\* The loop of next_one: this bit is not set, try the next, cyclically.
SeekOn ==
    /\ jpc = "seek" /\ which[j] \notin todo[j]
    /\ which' = [which EXCEPT ![j] = (@ + 1) % Size[j]]
    /\ UNCHANGED <<netVars, jobs, todo, client_addr, worktodo, fds, mainVars, threadVars>>

\* This bit is set: the block is read and sent.
SendBlock ==
    /\ jpc = "seek" /\ which[j] \in todo[j]
    /\ blks' = blks \union { [client |-> client_addr[j], file |-> j,
                              which_block |-> which[j], total_blocks |-> Size[j]] }
    /\ jpc' = "mark"
    /\ UNCHANGED <<cmds, jobVars, worktodo, fds, mainVars, j>>

\* "10% of the time, say you sent it and don't".
PretendToSend ==
    /\ jpc = "seek" /\ which[j] \in todo[j] /\ MODE # "normal"
    /\ jpc' = "mark"
    /\ UNCHANGED <<netVars, jobVars, worktodo, fds, mainVars, j>>

\* Marks the block as sent, under safetomodify, and goes to the next job.
MarkSent ==
    /\ jpc = "mark" /\ Unlocked
    /\ todo' = [todo EXCEPT ![j] = @ \ {which[j]}]
    /\ GoTo(NextJob(j))
    /\ UNCHANGED <<netVars, jobs, which, client_addr, worktodo, fds, mainVars>>

\* The steps of the job thread that need no lock ...
FreeStep ==
    \/ StartPass \/ EndOfWork \/ FindEmpty \/ PickBlock \/ SkipJob
    \/ SeekOn \/ SendBlock \/ PretendToSend

\* ... and all of them.
ThreadStep == WaitForWork \/ FreeStep \/ RemoveJob \/ MarkSent
-----------------------------------------------------------------------------
ServerStep == RecvCommand \/ MainStep \/ ThreadStep

\* Main runs whenever it can.  So does the job thread, and it gets a mutex
\* that is free again and again: main goes back to sleep in recvfrom after
\* every command, without the lock.  A job that is passed over one time in ten
\* is not passed over for ever.
ServerFairness ==
    /\ WF_<<serverVars, netVars>>(MainStep)
    /\ WF_<<serverVars, netVars>>(FreeStep)
    /\ WF_<<serverVars, netVars>>(WaitForWork)
    /\ SF_<<serverVars, netVars>>(RemoveJob)
    /\ SF_<<serverVars, netVars>>(MarkSent)
    /\ \A f \in { g \in Names : Size[g] > 0 } : SF_<<serverVars, netVars>>(PickBlock /\ j = f)
-----------------------------------------------------------------------------
(* Type correctness.                                                       *)
ServerTypeOK ==
    /\ NetTypeOK
    /\ jobs \in Seq(Names)
    /\ todo \in [Names -> SUBSET Nat]
    /\ which \in [Names -> Nat]
    /\ client_addr \in [Names -> Clients \union {NULL}]
    /\ worktodo \in BOOLEAN
    /\ fds \in 0 .. FDLIMIT
    /\ mpc \in {"recv", "find", "update", "open", "insert", "wake"}
    /\ loc_cmd \in Commands \union {NULL}
    /\ mpc # "recv" => loc_cmd \in Commands /\ loc_cmd.nranges = Len(loc_cmd.ranges)
    /\ range \in Nat \ {0}
    /\ jpc \in {"wait", "head", "check", "remove", "seek", "mark"}
    /\ j \in Names \union {NULL}

(***************************************************************************)
(* The job thread never sleeps on worktodo (hw2/server.c:106) while there  *)
(* are jobs, unless main is about to unlock it (hw2/server.c:378, 429):    *)
(* no interleaving of its test of head with main's insertion loses the     *)
(* wakeup.                                                                 *)
(***************************************************************************)
NoLostWakeup ==
    jpc = "wait" /\ jobs # <<>> => ~worktodo \/ mpc = "wake"

(***************************************************************************)
(* The job the thread works on is in the list, so what it reads, clears    *)
(* and frees without searching (hw2/server.c:113-185) is a live job; and   *)
(* main, which decides that a file has no job and inserts one under two    *)
(* different holds of the lock (hw2/server.c:355-380, 425-427), never      *)
(* makes a second job for a file.                                          *)
(***************************************************************************)
WorksOnLiveJob ==
    /\ jpc \notin {"wait", "head"} => j \in Range(jobs)
    /\ \A i, k \in DOMAIN jobs : jobs[i] = jobs[k] => i = k
    /\ mpc = "update" => loc_cmd.file \in Range(jobs)

(***************************************************************************)
(* next_one finds a bit ("there must be a one somewhere or this loops      *)
(* infinitely", hw2/server.c:67), and the block it returns exists, so      *)
(* read_block does not fail and the server does not abort                  *)
(* (hw2/server.c:151-153), whatever ranges the commands ask for.           *)
(***************************************************************************)
SearchFindsBlock ==
    /\ jpc \in {"seek", "mark"} => todo[j] # {}
    /\ \A i \in DOMAIN jobs : which[jobs[i]] \in BlocksOf(jobs[i])
                              /\ todo[jobs[i]] \subseteq BlocksOf(jobs[i])

(***************************************************************************)
(* The descriptors in use are those of the jobs in the list, the one main  *)
(* is about to make a job of, and none else ("too many open files error    *)
(* if not", hw2/server.c:127): no order of opening, insertion and removal  *)
(* loses one or closes one twice.  Files must not be empty: main forgets   *)
(* the descriptor of one that is (hw2/server.c:382, 430-434).              *)
(***************************************************************************)
DescriptorsOwned ==
    (\A f \in Names : Size[f] # 0) =>
        fds = Len(jobs) + (IF mpc = "insert" THEN 1 ELSE 0)

(***************************************************************************)
(* "If there is nothing to do, decommission the job" (hw2/server.c:112):   *)
(* a job that is destroyed has no blocks to send.                          *)
(***************************************************************************)
DecommissionsIdleJobs == [][RemoveJob => todo[j] = {}]_serverVars

(***************************************************************************)
(* However many commands keep arriving, the job thread comes to every job: *)
(* neither a job with many blocks nor the insertion of new jobs at the     *)
(* head of the list (hw2/server.c:426) starves the ones at its end.        *)
(***************************************************************************)
JobsGetTheirTurn == \A f \in Names : f \in Range(jobs) ~> j = f

(***************************************************************************)
(* Once no more commands arrive, every block that is asked for is taken    *)
(* off its list, and the job thread ends up asleep with no job left.  The  *)
(* premise is needed: next_one (hw2/server.c:138) starts at the block just *)
(* sent, so a client that asks for that one again and again makes the      *)
(* thread send nothing else of the file.                                   *)
(***************************************************************************)
BlocksGetTheirTurn ==
    <>[](mpc = "recv") => <>[](jpc = "wait" /\ jobs = <<>> /\ todo = [f \in Names |-> {}])
=============================================================================
