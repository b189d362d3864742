---------------------------- MODULE MCMessenger ----------------------------
(* Small meshes: "a" comes first, the others join it and each other. *)
EXTENDS Messenger

Triangle == [n \in Nodes |-> CASE n = "a" -> <<>> [] n = "b" -> <<"a">> [] n = "c" -> <<"a", "b">>]

Four == [n \in Nodes |-> CASE n = "a" -> <<>> [] n = "b" -> <<"a">>
                           [] n = "c" -> <<"a", "b">> [] n = "d" -> <<"b">>]

MCAuthor == [m \in Messages |-> IF m = "yes" THEN "b" ELSE "a"]

MCDigest == [m \in Messages |-> CASE m = "hello" -> "h" [] m = "yes" -> "y" [] m = "bye" -> "b"]

\* All digests differ in their first byte ...
FirstDiffers == [d \in Digests |-> CASE d = "h" -> 1 [] d = "y" -> 2 [] d = "b" -> 3 [] OTHER -> 0]

\* ... or two have it in common.
FirstTheSame == [d \in Digests |-> CASE d = "h" -> 1 [] d = "y" -> 1 [] OTHER -> 0]

\* Nobody leaves in order, but "c", where nothing is typed, may stop.  "bye", for
\* which another message is forgotten, waits until nothing is under way and the
\* cycle is broken.
MayType(m) ==
    m = "bye" => /\ net = {} /\ state["c"] = "gone"
                 /\ \A k \in Messages \ {m} : k \in Range(shown[Author[k]])

FloodNext ==
    \/ \E n \in Nodes : Start(n) \/ Query(n)
    \/ Interrupt("c")
    \/ \E m \in Messages : MayType(m) /\ (Type(Author[m], m) \/ Overrun(Author[m], m))
    \/ \E p \in net : (HandlePacket(p) /\ ~atStdin'["c"]) \/ Lose(p)

FloodSpec == Init /\ [][FloodNext]_vars /\ Fairness
=============================================================================
