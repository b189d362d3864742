--------------------------- MODULE MCKeyValueTree ---------------------------
(* Instances of KeyValueTree.  A value never decides what happens, so one  *)
(* key with two values is enough to tell an old value from a new one.      *)
EXTENDS KeyValueTree

MCPuts == (Keys \X {"old"}) \union ({4} \X {"new"})
=============================================================================
