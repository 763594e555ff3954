----------------------------- MODULE SelectServer -----------------------------
(***************************************************************************)
(* The event loop of 03_select_server.c (web server, phase 3) with its     *)
(* table of connections (connection.c) and the browsers that call it.  A   *)
(* browser stands for the descriptor of its connection.  A request comes   *)
(* in REQUEST parts, the last one with the empty line, and a response      *)
(* leaves in at most RESPONSE parts.  select reports what is ready when it *)
(* returns; browsers go on while the loop works through the report.        *)
(* max_fd always covers the open descriptors, and a request fits the       *)
(* buffer; both are left out, as is last_active, which nothing reads.      *)
(***************************************************************************)
EXTENDS Integers, Sequences, FiniteSets, SequencesExt

CONSTANTS
    Browsers,
    NoBrowser,         \* the fd -1
    MAX_CONNECTIONS,
    REQUEST, RESPONSE  \* parts

ASSUME ServerConstants ==
    /\ NoBrowser \notin Browsers
    /\ {MAX_CONNECTIONS, REQUEST, RESPONSE} \subseteq Nat \ {0}

VARIABLES
    connections,
    browser,      \* what each browser has done, and what waits in its socket
    backlog,      \* connections the server has yet to accept
    loop          \* where the event loop is, and select's report

selVars == <<connections, browser, backlog, loop>>

ConnectionSlots == 1 .. MAX_CONNECTIONS

Connection == [fd : Browsers \cup {NoBrowser},
               state : {"CONN_READING", "CONN_WRITING", "CONN_CLOSING"},
               read : 0 .. REQUEST, write_sent : 0 .. RESPONSE,
               request_complete : BOOLEAN, response_ready : BOOLEAN]

Browser == [at : {"away", "connected"}, hung_up : BOOLEAN,
            sent : 0 .. REQUEST, unread : 0 .. REQUEST, got : 0 .. RESPONSE]

Loop == [pc : {"select", "accept", "handle", "killed"}, i : 1 .. MAX_CONNECTIONS + 1,
         readable : SUBSET Browsers, writable : SUBSET Browsers,
         new : BOOLEAN, activity : Int]

SelTypeOK ==
    /\ connections \in [ConnectionSlots -> Connection]
    /\ browser \in [Browsers -> Browser]
    /\ backlog \in Seq(Browsers)
    /\ loop \in Loop

Closed == [fd |-> NoBrowser, state |-> "CONN_CLOSING", read |-> 0, write_sent |-> 0,
           request_complete |-> FALSE, response_ready |-> FALSE]

Away == [at |-> "away", hung_up |-> FALSE, sent |-> 0, unread |-> 0, got |-> 0]

Asleep == [pc |-> "select", i |-> 1, readable |-> {}, writable |-> {},
           new |-> FALSE, activity |-> 0]

SelInit ==
    /\ connections = [i \in ConnectionSlots |-> Closed]
    /\ browser = [b \in Browsers |-> Away]
    /\ backlog = << >>
    /\ loop = Asleep

-----------------------------------------------------------------------------
(* Browsers                                                                *)

Connect(b) ==
    /\ browser[b].at = "away" /\ loop.pc # "killed"
    /\ browser' = [browser EXCEPT ![b].at = "connected"]
    /\ backlog' = Append(backlog, b)
    /\ UNCHANGED <<connections, loop>>

Talking(b) == browser[b].at = "connected" /\ ~ browser[b].hung_up

SendPart(b) ==
    /\ Talking(b) /\ browser[b].sent < REQUEST
    /\ browser' = [browser EXCEPT ![b].sent = @ + 1, ![b].unread = @ + 1]
    /\ UNCHANGED <<connections, backlog, loop>>

\* With its answer, or tired of waiting.
HangUp(b) ==
    /\ Talking(b)
    /\ browser' = [browser EXCEPT ![b].hung_up = TRUE]
    /\ UNCHANGED <<connections, backlog, loop>>

-----------------------------------------------------------------------------
(* The server                                                              *)

Watched(state) == {connections[i].fd : i \in {j \in ConnectionSlots : connections[j].state = state}}

\* select blocks until a watched descriptor, or the listening one, is ready.
Select ==
    /\ loop.pc = "select"
    /\ LET readable == {b \in Watched("CONN_READING") : browser[b].unread > 0 \/ browser[b].hung_up}
           writable == Watched("CONN_WRITING")
       IN  /\ readable \cup writable # {} \/ backlog # << >>
           /\ loop' = [pc |-> "accept", i |-> 1, readable |-> readable, writable |-> writable,
                       new |-> backlog # << >>,
                       activity |-> Cardinality(readable) + Cardinality(writable)]
    /\ UNCHANGED <<connections, browser, backlog>>

Opened(b) == [fd |-> b, state |-> "CONN_READING", read |-> 0, write_sent |-> 0,
              request_complete |-> FALSE, response_ready |-> FALSE]

send_response_unswitched(conn) == [conn EXCEPT !.response_ready = TRUE]

\* The response is in the write buffer; writing waits for the next select.
send_response(conn) == [conn EXCEPT !.response_ready = TRUE, !.state = "CONN_WRITING"]

Prepared(conns) == [i \in ConnectionSlots |->
    IF conns[i].request_complete /\ ~ conns[i].response_ready THEN send_response(conns[i])
    ELSE conns[i]]

\* handle_new_connection takes the first free element, or closes the socket when
\* there is none; then the loop prepares the responses.
handle_new_connection ==
    /\ loop.pc = "accept"
    /\ loop' = [loop EXCEPT !.pc = "handle"]
    /\ LET free == {i \in ConnectionSlots : connections[i].fd = NoBrowser} IN
       IF ~ loop.new THEN connections' = Prepared(connections) /\ UNCHANGED <<browser, backlog>>
       ELSE /\ backlog' = Tail(backlog)
            /\ IF free = {}
               THEN /\ browser' = [browser EXCEPT ![Head(backlog)] = Away]
                    /\ connections' = Prepared(connections)
               ELSE /\ connections' = Prepared([connections EXCEPT ![Min(free)] = Opened(Head(backlog))])
                    /\ UNCHANGED browser

Current == connections[loop.i]

Handling(fds) ==
    /\ loop.pc = "handle" /\ loop.i <= MAX_CONNECTIONS /\ loop.activity > 0
    /\ Current.fd \in fds

Next_i(handled) == [loop EXCEPT !.i = @ + 1, !.activity = @ - handled]

connection_close ==
    /\ connections' = [connections EXCEPT ![loop.i] = Closed]
    /\ browser' = [browser EXCEPT ![Current.fd] = Away]

\* SIGPIPE, which nothing handles, or the abort of a checked FD_ISSET.
Killed == loop' = [Asleep EXCEPT !.pc = "killed"]

\* handle_connection_activity(conn, 1, 0) receives what has come, or learns that the
\* browser hung up and closes.  After that the loop evaluates FD_ISSET(-1, &write_fds),
\* which finds nothing, finds a bit and counts it, or aborts.
Receive ==
    /\ Handling(loop.readable)
    /\ IF Current.state # "CONN_READING"
       THEN loop' = Next_i(1) /\ UNCHANGED <<connections, browser>>
       ELSE \/ LET b == Current.fd
                   all == Current.read + browser[b].unread
               IN  /\ browser[b].unread > 0
                   /\ browser' = [browser EXCEPT ![b].unread = 0]
                   /\ connections' = [connections EXCEPT ![loop.i].read = all,
                                                         ![loop.i].request_complete = (all = REQUEST)]
                   /\ loop' = Next_i(1)
            \/ /\ browser[Current.fd].hung_up
               /\ connection_close
               /\ loop' = Next_i(1) \/ loop' = Next_i(2) \/ Killed
    /\ UNCHANGED backlog

\* handle_connection_activity(conn, 0, 1) sends what the socket takes; once all is
\* sent the connection reads again, with both flags as they are.  To a browser that
\* hung up the bytes are lost, or send fails.
Send ==
    /\ Handling(loop.writable)
    /\ \/ \E k \in 1 .. RESPONSE - Current.write_sent :
             /\ connections' = [connections EXCEPT ![loop.i] =
                   IF Current.write_sent + k = RESPONSE
                   THEN [Current EXCEPT !.state = "CONN_READING", !.write_sent = 0]
                   ELSE [Current EXCEPT !.write_sent = @ + k]]
             /\ browser' = [browser EXCEPT ![Current.fd].got =
                               IF Talking(Current.fd) THEN @ + k ELSE @]
             /\ loop' = Next_i(1)
       \/ /\ browser[Current.fd].hung_up
          /\ \/ connection_close /\ loop' = Next_i(1)
             \/ Killed /\ UNCHANGED <<connections, browser>>
    /\ UNCHANGED backlog

\* Not in the report, or not in use.
Skip ==
    /\ loop.pc = "handle" /\ loop.i <= MAX_CONNECTIONS /\ loop.activity > 0
    /\ Current.fd \notin loop.readable \cup loop.writable
    /\ loop' = Next_i(0)
    /\ UNCHANGED <<connections, browser, backlog>>

EndOfRound ==
    /\ loop.pc = "handle"
    /\ loop.i > MAX_CONNECTIONS \/ loop.activity <= 0
    /\ loop' = Asleep
    /\ UNCHANGED <<connections, browser, backlog>>

EventLoop == Select \/ handle_new_connection \/ Receive \/ Send \/ Skip \/ EndOfRound

SelNext ==
    \/ EventLoop
    \/ \E b \in Browsers : Connect(b) \/ SendPart(b) \/ HangUp(b)

SelSpec == SelInit /\ [][SelNext]_selVars

-----------------------------------------------------------------------------
(* Properties                                                              *)

\* The server has the browser's whole request.
Asked(b) == \E i \in ConnectionSlots : connections[i].fd = b /\ connections[i].request_complete

Answered(b) == browser[b].got = RESPONSE

\* As long as something wakes the loop again and again, whoever asked is answered
\* or has hung up, although the response to a request is prepared one round later
\* and written yet another round later; a browser has one element of the table,
\* and only one that sent its whole request gets anything, also where elements
\* and descriptors are used again.  main, 03_select_server.c:442-536.
AnsweredWhenAwake ==
    /\ [](/\ \A i, j \in ConnectionSlots :
                connections[i].fd = connections[j].fd /\ i # j => connections[i].fd = NoBrowser
          /\ \A b \in Browsers : browser[b].got > 0 => browser[b].sent = REQUEST)
    /\ ([]<>(loop.pc = "handle")) =>
          \A b \in Browsers : Asked(b) ~> Answered(b) \/ ~ Talking(b)
=============================================================================
