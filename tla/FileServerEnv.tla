---------------------------- MODULE FileServerEnv ----------------------------
(***************************************************************************)
(* The server of hw2 among clients it knows nothing about: any of a set of *)
(* commands may arrive at any time and again, and blocks leave the network *)
(* unnoticed.                                                              *)
(***************************************************************************)
EXTENDS FileServer

CONSTANT Requests  \* the commands that may arrive

ASSUME RequestsAssumption == Requests \subseteq Commands

envVars == <<serverVars, netVars>>

EnvInit == ServerInit /\ cmds = {} /\ blks = {}

Arrive == /\ \E m \in Requests : cmds' = cmds \union {m}
          /\ UNCHANGED <<serverVars, blks>>

Depart == /\ \E b \in blks : blks' = blks \ {b}
          /\ UNCHANGED <<serverVars, cmds>>

EnvNext == ServerStep \/ Arrive \/ Depart

EnvSpec == EnvInit /\ [][EnvNext]_envVars /\ ServerFairness
=============================================================================
