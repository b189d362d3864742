----------------------------- MODULE Membership -----------------------------
(***************************************************************************)
(* What the table of hw4/receiver.c and hw5/session.c promises: the hosts  *)
(* heard of in the last STALE seconds, each with the time since then.      *)
(***************************************************************************)
EXTENDS Naturals

CONSTANTS Hosts, STALE

VARIABLES age,    \* age[h]: seconds since h was heard of, STALE + 1 if h is not in
          heard   \* the host whose ping came and that is not entered yet, if any

vars == <<age, heard>>

Init == age = [h \in Hosts |-> STALE + 1] /\ heard = {}

Hear(h) == /\ heard = {} /\ heard' = {h}
           /\ UNCHANGED age

\* The host is entered, or is young again.
Enter(h) == /\ h \in heard /\ heard' = {}
            /\ age' = [age EXCEPT ![h] = 0]

GrowOlder(h) == /\ age[h] < STALE
                /\ age' = [age EXCEPT ![h] = @ + 1]
                /\ UNCHANGED heard

Forget(h) == /\ age[h] = STALE
             /\ age' = [age EXCEPT ![h] = STALE + 1]
             /\ UNCHANGED heard

Next == \E h \in Hosts : Hear(h) \/ Enter(h) \/ GrowOlder(h) \/ Forget(h)

Spec == Init /\ [][Next]_vars
=============================================================================
