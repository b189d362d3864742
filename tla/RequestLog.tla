----------------------------- MODULE RequestLog -----------------------------
(***************************************************************************)
(* hw1: a1.c, a web server with one thread.  It reads a request line by    *)
(* line up to a blank one, keeps what it has read of the last NUM_ENTRIES  *)
(* requests in the ring state, and shows them on its status page.          *)
(*                                                                         *)
(* A line is a record of all that the program looks for in it: a method,   *)
(* a URI between two spaces, by how much that is too long, the characters  *)
(* of a User-Agent header, and whether it is blank.                        *)
(***************************************************************************)
EXTENDS Integers, SequencesExt

CONSTANTS NUM_ENTRIES,
          MAX_MESG,     \* length of buffer
          MAX_AGENT,    \* length of the field user_agent
          Requests,     \* what clients send: sequences of lines
          Garbage,      \* what buffer may look like before it was ever filled
          MAXREQUESTS   \* bound on the connections made

Methods == {"GET", "HEAD", "POST", "OPTIONS", "Unsupported"}

Paths == {"/", "/status", "/info", "/redirect"}

\* fgets fills buffer at most.  over is 0 for a URI that fits the field URI; else
\* it is the number of records that one reaches, which are its own and the next.
Lines == { l \in [method : Methods, uri : STRING, over : Nat, agent : Seq(STRING),
                  ends : {"crlf", "lf", "no"}] :
             Len(l.agent) <= MAX_MESG /\ (l.over > 0 => l.uri \notin Paths) }

ASSUME RequestAssumption ==
    /\ NUM_ENTRIES \in Nat \ {0} /\ MAX_MESG \in Nat \ {0} /\ MAXREQUESTS \in Nat
    /\ MAX_AGENT \in 1..MAX_MESG
    /\ \A r \in Requests : r \in Seq(Lines)
    /\ Garbage \subseteq Lines

VARIABLES
  state,    \* the ring of records
  made,     \* connections made so far, one request on each
  c,        \* requests served so far
  pc,       \* "accept", "read" or "respond"; "killed"; or "overrun", when the
            \* stack beyond state is overwritten and anything may follow
  first,    \* line_number = 0
  method,
  buffer,   \* the last line read, kept from one connection to the next
  input,    \* the lines sent by the client and not read
  closed,   \* the client has closed its connection
  page,     \* the rows of the status page, if that was the answer
  heard,    \* history: the lines handled for this request
  served,   \* history: what each request was
  damaged   \* history: the slots that a URI has run over

vars == <<state, made, c, pc, first, method, buffer, input, closed, page, heard,
          served, damaged>>

\* reset_record
Undefined == [method |-> "undefined", uri |-> "undefined",
              agent |-> <<"undefined">>, status |-> -1]

\* What a URI that is too long leaves of another record is not looked into.
Overwritten == [method |-> "overwritten", uri |-> "overwritten",
                agent |-> <<"overwritten">>, status |-> 0]

Slot(n) == n % NUM_ENTRIES

Init ==
    /\ state = [i \in 0..NUM_ENTRIES-1 |-> Undefined]
    /\ made = 0 /\ c = 0 /\ pc = "accept"
    /\ first = TRUE /\ method = "Unsupported"
    /\ buffer \in Garbage
    /\ input = <<>> /\ closed = FALSE
    /\ page = <<>> /\ heard = <<>> /\ served = <<>> /\ damaged = {}
-----------------------------------------------------------------------------
(* sanitize, in place, from the first character to the last.               *)

Special == {"quote", "<", ">"}

\* An entity is its ampersand and its name: what matters is that it is longer
\* than the character it stands for and holds none to be replaced.
Entity(ch) == <<"&", CASE ch = "quote" -> "quot;" [] ch = "<" -> "lt;" [] ch = ">" -> "gt;">>

\* The rest of the buffer moves up, and what passes its end is gone.
Escape(s, i) ==
    SubSeq(SubSeq(s, 1, i - 1) \o Entity(s[i]) \o SubSeq(s, i + 1, Len(s)), 1,
           IF Len(s) < MAX_MESG THEN Len(s) + 1 ELSE MAX_MESG)

AtPosition(s, i) == IF i <= Len(s) /\ s[i] \in Special THEN Escape(s, i) ELSE s

\* The end of the string is taken before it has grown.
Sanitize_ToOldEnd(s) ==
    LET t[i \in 0..Len(s)] == IF i = 0 THEN s ELSE AtPosition(t[i - 1], i)
    IN  t[Len(s)]

Sanitize(s) ==
    LET t[i \in 0..MAX_MESG] == IF i = 0 THEN s ELSE AtPosition(t[i - 1], i)
    IN  t[MAX_MESG]
-----------------------------------------------------------------------------
(* One connection after the other.                                         *)

\* listen keeps a connection until its turn comes.
Connect ==
    /\ made < MAXREQUESTS
    /\ made' = made + 1
    /\ UNCHANGED <<state, c, pc, first, method, buffer, input, closed, page, heard,
                   served, damaged>>

Accept(request) ==
    /\ pc = "accept" /\ c < made
    /\ pc' = "read"
    /\ state' = [state EXCEPT ![Slot(c)] = Undefined]
    /\ damaged' = damaged \ {Slot(c)}
    /\ first' = TRUE /\ method' = "Unsupported"
    /\ input' = request /\ closed' = FALSE
    /\ page' = <<>> /\ heard' = <<>>
    /\ UNCHANGED <<made, c, buffer, served>>

ClientCloses ==
    /\ pc \in {"read", "respond"} /\ ~closed
    /\ closed' = TRUE
    /\ UNCHANGED <<state, made, c, pc, first, method, buffer, input, page, heard,
                   served, damaged>>

Ends_OnlyCRLF(line) == line.ends = "crlf"

Ends(line) == line.ends \in {"crlf", "lf"}

\* The copy of a text that fills user_agent has no end of its own: what is read
\* of it goes on with the field that follows, method.
Copied(agent, m) ==
    IF Len(agent) < MAX_AGENT THEN agent ELSE SubSeq(agent, 1, MAX_AGENT) \o <<m>>

Noted(record, line) ==
    LET m == IF first THEN line.method ELSE record.method
    IN  [record EXCEPT
            !.method = m,
            !.uri    = IF first THEN line.uri ELSE @,
            !.agent  = IF line.agent # <<>> THEN Copied(line.agent, m) ELSE @]

\* The slots the URI of line is written over, some of them beyond the end of state.
RunOver(line) == IF first THEN Slot(c)..Slot(c) + line.over - 1 ELSE {}

\* At the end of the input fgets leaves in buffer what was there, and that is
\* handled once more.
ReadLine ==
    /\ pc = "read"
    /\ input # <<>> \/ closed
    /\ LET line  == IF input # <<>> THEN Head(input) ELSE buffer
           clean == [line EXCEPT !.agent = Sanitize(@)]
       IN  /\ buffer' = clean
           /\ method' = IF first THEN line.method ELSE method
           /\ state' = [i \in DOMAIN state |->
                           IF i = Slot(c) THEN Noted(state[i], clean)
                           ELSE IF i \in RunOver(line) THEN Overwritten ELSE state[i]]
           /\ damaged' = damaged \union (RunOver(line) \intersect DOMAIN state)
           /\ pc' = IF ~(RunOver(line) \subseteq DOMAIN state) THEN "overrun"
                    ELSE IF Ends(line) THEN "respond" ELSE "read"
           /\ heard' = IF first \/ input # <<>> THEN Append(heard, line) ELSE heard
    /\ input' = IF input # <<>> THEN Tail(input) ELSE input
    /\ first' = FALSE
    /\ UNCHANGED <<made, c, closed, page, served>>

Status(m, uri) ==
    CASE m \in {"GET", "HEAD"} /\ uri \in {"/", "/status", "/info"} -> 200
      [] m \in {"GET", "HEAD"} /\ uri = "/redirect" -> 302
      [] m \in {"GET", "HEAD"} /\ uri \notin Paths -> 404
      [] m \in {"POST", "OPTIONS"} -> 405
      [] m = "Unsupported" -> 400

\* k in the n-th turn of the loop that writes the rows of the table, which ends
\* when the number of the request would be negative.
Counter(n) == NUM_ENTRIES - n + 1

Shown == { n \in 1..NUM_ENTRIES : c - NUM_ENTRIES + Counter(n) >= 0 }

\* The slot after that of the current request comes first.
RowSlot_OneBefore(k) == (Slot(c) + k - 1) % NUM_ENTRIES

RowSlot(k) == (Slot(c) + k) % NUM_ENTRIES

Rows(ring) ==
    [ n \in Shown |-> [number |-> c - NUM_ENTRIES + Counter(n) + 1,
                       record |-> ring[RowSlot(Counter(n))]] ]

\* sanitize as it should be
Escaped(s) == FlattenSeq([i \in 1..Len(s) |-> IF s[i] \in Special THEN Entity(s[i])
                                                                 ELSE <<s[i]>>])

\* What a request that was heard as these lines should be recorded as.
Recorded(lines) ==
    LET agents == { n \in 1..Len(lines) : lines[n].agent # <<>> }
    IN  [method |-> lines[1].method, uri |-> lines[1].uri,
         agent |-> IF agents = {} THEN <<"undefined">> ELSE Escaped(lines[Max(agents)].agent),
         status |-> Status(lines[1].method, lines[1].uri)]

\* The status is set where a URI that is too long had its 81st character, and cuts
\* it off.  A client that is gone may make the second write raise SIGPIPE.
Respond ==
    /\ pc = "respond"
    /\ LET uri  == state[Slot(c)].uri
           ring == [state EXCEPT
                       ![Slot(c)].status = Status(method, uri),
                       ![Slot(c)].uri = IF Slot(c) \in damaged THEN "overwritten" ELSE @]
       IN  /\ state' = ring
           /\ page' = IF method = "GET" /\ uri \in {"/", "/status"} THEN Rows(ring) ELSE <<>>
    /\ c' = c + 1
    /\ served' = Append(served, Recorded(heard))
    /\ pc' \in IF closed THEN {"accept", "killed"} ELSE {"accept"}
    /\ UNCHANGED <<made, first, method, buffer, input, closed, heard, damaged>>

AcceptNext == \E r \in Requests : Accept(r)

Next == Connect \/ AcceptNext \/ ClientCloses \/ ReadLine \/ Respond

\* The server goes on as long as it can; clients need not.
Spec == Init /\ [][Next]_vars /\ WF_vars(AcceptNext) /\ WF_vars(ReadLine) /\ WF_vars(Respond)
-----------------------------------------------------------------------------
(* What is claimed.                                                        *)

\* Types; no character of a recorded User-Agent is left to be replaced, and the
\* slots of requests that have not come are as reset_record leaves them: but not
\* where a URI that was too long has run over them.
RequestTypeOK ==
    /\ made \in 0..MAXREQUESTS /\ c \in 0..made /\ c = Len(served)
    /\ pc \in {"accept", "read", "respond", "killed", "overrun"}
    /\ first \in BOOLEAN /\ closed \in BOOLEAN /\ method \in Methods
    /\ DOMAIN state = 0..NUM_ENTRIES-1 /\ damaged \subseteq DOMAIN state
    /\ \A i \in DOMAIN state \ damaged :
           /\ state[i].method \in Methods \union {"undefined"}
           /\ state[i].status \in {-1, 200, 302, 400, 404, 405}
           /\ \A p \in DOMAIN state[i].agent : state[i].agent[p] \notin Special
           /\ i > c => state[i] = Undefined

\* Record r shows request q as it was made, with what sanitize is to replace
\* replaced; of its User-Agent so, if the field holds it.
Shows(r, q) ==
    /\ r.method = q.method /\ r.uri = q.uri /\ r.status = q.status
    /\ Len(q.agent) < MAX_AGENT => r.agent = q.agent

\* The status page (a1.c:296-312) shows the last NUM_ENTRIES requests, or all
\* there were, the newest first, each under its own number; and each as it was
\* made, whatever the ring held before, unless its own URI or that of a later
\* request was too long and ran over its record (a1.c:257).
TableIsHistory ==
    page # <<>> =>
        /\ DOMAIN page = 1..(IF c < NUM_ENTRIES THEN c ELSE NUM_ENTRIES)
        /\ \A n \in DOMAIN page :
               /\ page[n].number = c - n + 1
               /\ Slot(c - n) \notin damaged => Shows(page[n].record, served[c - n + 1])

\* The client has sent nothing more and no blank line: the server waits for it, or
\* reads the last line over and over if it has closed.
BrokenOff ==
    /\ pc = "read" /\ input = <<>>
    /\ \A i \in DOMAIN heard : heard[i].ends = "no"

\* Every connection is answered in its turn, whether the blank line of a request
\* ends as HTTP has it or not (a1.c:272), if none before it or on it breaks off for
\* good: one that does keeps the server for ever (a1.c:205-275).  The server may
\* also be killed writing to a client that is gone, or overrun its ring.
RequestsAnswered ==
    ~<>[]BrokenOff =>
        \A n \in 1..MAXREQUESTS :
            made >= n ~> (c >= n \/ pc \in {"killed", "overrun"})
=============================================================================
