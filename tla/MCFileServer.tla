---------------------------- MODULE MCFileServer ----------------------------
(* A small instance of the server: files "a" of three blocks and "b" of one, *)
(* one that does not exist and a name with a '/'.                            *)
EXTENDS FileServerEnv

MCSize == [f \in Names |-> CASE f = "a" -> 3 [] f = "b" -> 1 [] OTHER -> -1]

\* Past every file, as INT_MAX and the client's num_blocks of -1 are.
End == 9

R(first, last) == [first_block |-> first, last_block |-> last]

\* What the client of hw2/client.c sends: the holes of a file, or all of it.
WholeAndHoles ==
    { Command("c1", "a", <<R(0, 0), R(2, End)>>),
      Command("c2", "b", <<R(0, End)>>) }

\* Commands main drops, at one point or another, and one with no range.
Odd == { Command("c1", "none", <<R(0, End)>>),
         Command("c1", "x/y", <<R(0, End)>>),
         Command("c2", "b", <<>>),
         [Command("c2", "a", <<R(1, 2)>>) EXCEPT !.nranges = 2] }

MCRequests == WholeAndHoles \union Odd

(* Which commands wait and which blocks are still under way is nothing the  *)
(* server looks at: one command at a time, chosen when main is about to      *)
(* receive it, and blocks that leave at once show it all the same behaviour. *)
MCNext == IF blks # {} THEN Depart
          ELSE ServerStep \/ (cmds = {} /\ mpc = "recv" /\ Arrive)

MCSpec == EnvInit /\ [][MCNext]_envVars /\ ServerFairness
=============================================================================
