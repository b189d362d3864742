---------------------------- MODULE MCRequestLog ----------------------------
(***************************************************************************)
(* The requests of an instance of RequestLog: complete ones, ones that     *)
(* break off, ones that hold what sanitize replaces, and ones with a URI   *)
(* or a User-Agent too long for its field.                                 *)
(***************************************************************************)
EXTENDS RequestLog

Line(m, uri, agent, ends) ==
    [method |-> m, uri |-> uri, over |-> 0, agent |-> agent, ends |-> ends]

\* A URI that reaches so many records.
LongURI(over) == [Line("GET", "/long", <<>>, "no") EXCEPT !.over = over]

Malformed(agent, ends) == Line("Unsupported", "Malformed Request", agent, ends)

CRLF == Malformed(<<>>, "crlf")
LF   == Malformed(<<>>, "lf")

MCRequests ==
    { <<Line("GET", "/status", <<>>, "no"), Malformed(<<"ua", "quote", "<">>, "no"), CRLF>>,
      <<Line("GET", "/", <<>>, "no"), LF>>,
      <<Line("POST", "/info", <<>>, "no"), Malformed(<<"ua">>, "no"),
        Malformed(<<">">>, "no"), CRLF>>,
      <<Line("GET", "Malformed Request", <<>>, "no"), LF>>,
      <<Line("HEAD", "/status", <<>>, "no")>>,
      <<Line("GET", "/info", <<>>, "no"), Malformed(<<"u", "<", ">">>, "no"), LF>>,
      <<LongURI(1), CRLF>>,
      <<LongURI(2), CRLF>>,
      <<CRLF>>,
      <<>> }

MCGarbage == { CRLF, Line("GET", "/redirect", <<>>, "no"), Malformed(<<"<">>, "no") }
=============================================================================
