-------------------------- MODULE ConnectionPools ---------------------------
(***************************************************************************)
(* The connection pool of the database (phase 7) and that of the Spring    *)
(* examples (phase 6): both lend what the other lends, and are shown to    *)
(* implement the same abstract pool.  Behind them, the server whose        *)
(* connections these are, and the protocol its messages travel in.         *)
(***************************************************************************)
EXTENDS Integers, Sequences, FiniteSets, SequencesExt

-----------------------------------------------------------------------------
(***************************************************************************)
(* The database connection pool of phase 7 (connection_pool.c, client.c):  *)
(* an array of pooled connections, users who borrow one, give it back or   *)
(* close it, and the clean-up of connections that were idle for too long.  *)
(*                                                                         *)
(* A client pointer is an address: malloc hands out any address that is    *)
(* not in use, also that of a client freed before.  Users keep the rules:  *)
(* they give back or close only the connection they have.                  *)
(***************************************************************************)

CONSTANTS
    Users,
    Clients,        \* addresses of client objects
    NoClient,       \* NULL
    initial_size,
    max_size,
    timeout,        \* passed to cleanup_idle
    MAX_TIME        \* bound: the clock

ASSUME PoolConstants ==
    /\ IsFiniteSet(Users) /\ IsFiniteSet(Clients)
    /\ NoClient \notin Clients
    /\ Cardinality(Clients) >= max_size
    /\ initial_size \in Nat /\ max_size \in Nat /\ timeout \in Nat /\ MAX_TIME \in Nat

Status == {"IDLE", "ACTIVE", "CLOSED"}

PooledConnection == [client : Clients \cup {NoClient}, status : Status, last_used : 0 .. MAX_TIME]

VARIABLES
    connections,               \* the first pool_size elements of the array
    idle_count, active_count,
    allocated,                 \* client objects that are not freed
    has,                       \* the connection each user has
    now                        \* the clock

poolVars == <<connections, idle_count, active_count, allocated, has, now>>

pool_size == Len(connections)

PoolTypeOK ==
    /\ connections \in Seq(PooledConnection) /\ pool_size <= max_size
    /\ idle_count \in Nat /\ active_count \in Nat
    /\ allocated \subseteq Clients
    /\ has \in [Users -> Clients \cup {NoClient}]
    /\ now \in 0 .. MAX_TIME

Slot(c, status) == [client |-> c, status |-> status, last_used |-> now]

\* connection_pool_create: up to initial_size connections, fewer where a client
\* cannot be created.
PoolInit ==
    /\ now = 0
    /\ has = [u \in Users |-> NoClient]
    /\ \E C \in SUBSET Clients : \E s \in SetToSeqs(C) :
          /\ Cardinality(C) <= initial_size /\ Cardinality(C) <= max_size
          /\ allocated = C
          /\ connections = [i \in DOMAIN s |->
                              [client |-> s[i], status |-> "IDLE", last_used |-> 0]]
          /\ idle_count = Cardinality(C)
    /\ active_count = 0

-----------------------------------------------------------------------------

IdleSlots == {i \in DOMAIN connections : connections[i].status = "IDLE"}

\* connection_pool_get_connection finds the first idle connection ...
get_connection_idle(u) ==
    /\ has[u] = NoClient
    /\ \E i \in IdleSlots :
          /\ \A j \in IdleSlots : i <= j
          /\ connections' = [connections EXCEPT ![i] = Slot(@.client, "ACTIVE")]
          /\ has' = [has EXCEPT ![u] = connections[i].client]
    /\ idle_count' = idle_count - 1 /\ active_count' = active_count + 1
    /\ UNCHANGED <<allocated, now>>

\* ... or opens one in the next element of the array, if there is one left.
get_connection_new(u) ==
    /\ has[u] = NoClient
    /\ IdleSlots = {} /\ pool_size < max_size
    /\ \E c \in Clients \ allocated :
          /\ allocated' = allocated \cup {c}
          /\ connections' = Append(connections, Slot(c, "ACTIVE"))
          /\ has' = [has EXCEPT ![u] = c]
    /\ active_count' = active_count + 1
    /\ UNCHANGED <<idle_count, now>>

SlotOf(c) == Min({i \in DOMAIN connections : connections[i].client = c})

\* The connection can be lent again.
connection_pool_return_connection(u) ==
    /\ has[u] # NoClient
    /\ LET i == SlotOf(has[u]) IN
       /\ connections[i].status = "ACTIVE"
       /\ connections' = [connections EXCEPT ![i] = Slot(@.client, "IDLE")]
    /\ idle_count' = idle_count + 1 /\ active_count' = active_count - 1
    /\ has' = [has EXCEPT ![u] = NoClient]
    /\ UNCHANGED <<allocated, now>>

Closed(slot) == [client |-> NoClient, status |-> "CLOSED", last_used |-> slot.last_used]

\* connection_pool_close_connection by the user who has it: the client is freed,
\* the element of the array stays behind.
connection_pool_close_connection(u) ==
    /\ has[u] # NoClient
    /\ LET i == SlotOf(has[u]) IN
       /\ connections' = [connections EXCEPT ![i] = Closed(@)]
       /\ active_count' = active_count - (IF connections[i].status = "ACTIVE" THEN 1 ELSE 0)
       /\ idle_count' = idle_count - (IF connections[i].status = "IDLE" THEN 1 ELSE 0)
    /\ allocated' = allocated \ {has[u]}
    /\ has' = [has EXCEPT ![u] = NoClient]
    /\ UNCHANGED now

Expired_active(slot) ==
    slot.status # "CLOSED" /\ now - slot.last_used > timeout

Expired(slot) == slot.status = "IDLE" /\ now - slot.last_used > timeout

\* Every connection that has been idle for longer than the timeout is closed.
connection_pool_cleanup_idle ==
    LET old == {i \in DOMAIN connections : Expired(connections[i])} IN
    /\ connections' = [i \in DOMAIN connections |->
                         IF i \in old THEN Closed(connections[i]) ELSE connections[i]]
    /\ allocated' = allocated \ {connections[i].client : i \in old}
    /\ idle_count' = idle_count - Cardinality(old)
    /\ UNCHANGED <<active_count, has, now>>

Tick ==
    /\ now < MAX_TIME /\ now' = now + 1
    /\ UNCHANGED <<connections, idle_count, active_count, allocated, has>>

PoolNext ==
    \/ \E u \in Users :
          \/ get_connection_idle(u) \/ get_connection_new(u)
          \/ connection_pool_return_connection(u) \/ connection_pool_close_connection(u)
    \/ connection_pool_cleanup_idle
    \/ Tick

PoolSpec == PoolInit /\ [][PoolNext]_poolVars

-----------------------------------------------------------------------------
(* Properties                                                              *)

CL == INSTANCE ConnectionLease WITH open <- allocated, lease <- has

Lent == {i \in DOMAIN connections : connections[i].status = "ACTIVE"}

\* The pool lends connections: one user each, open as long as they are lent; and
\* the two counts that four operations maintain are those of the connections that
\* are idle and lent.  connection_pool.c:66-200.
PoolLends ==
    /\ CL!LeaseSpec
    /\ [](idle_count = Cardinality(IdleSlots) /\ active_count = Cardinality(Lent))

-----------------------------------------------------------------------------
(***************************************************************************)
(* The connection pool of the Spring examples, phase 6 (connection_pool.c),*)
(* for one thread with several connections in use.  Connections are known  *)
(* by their id.  No code ever sets is_valid to 0; addresses, times and     *)
(* counts of queries are left out.  Borrowers keep the rules: they return  *)
(* what they have, once.                                                   *)
(***************************************************************************)

CONSTANTS
    Borrowers,
    minimum_idle, maximum_pool_size

ASSUME HikariAssumption ==
    /\ IsFiniteSet(Borrowers)
    /\ minimum_idle \in Nat /\ maximum_pool_size \in Nat /\ minimum_idle <= maximum_pool_size

VARIABLES
    hikari,    \* HikariPool: the states of the connections, and its counts
    borrowed   \* the connection each borrower has, or 0

hikariVars == <<hikari, borrowed>>

HikariPool(state, idle, active) == [state |-> state, idle_count |-> idle, active_count |-> active]

hikari_pool_create == HikariPool([i \in 1 .. minimum_idle |-> "IDLE"], minimum_idle, 0)

HikariInit == hikari = hikari_pool_create /\ borrowed = [b \in Borrowers |-> 0]

Idle == {i \in DOMAIN hikari.state : hikari.state[i] = "IDLE"}

BorrowIdle(b) ==
    \E i \in Idle :
       /\ \A j \in Idle : i <= j
       /\ hikari' = HikariPool([hikari.state EXCEPT ![i] = "IN_USE"],
                               hikari.idle_count - 1, hikari.active_count + 1)
       /\ borrowed' = [borrowed EXCEPT ![b] = i]

BorrowNew(b) ==
    /\ Idle = {} /\ Len(hikari.state) < maximum_pool_size
    /\ hikari' = HikariPool(Append(hikari.state, "IN_USE"),
                            hikari.idle_count, hikari.active_count + 1)
    /\ borrowed' = [borrowed EXCEPT ![b] = Len(hikari.state) + 1]

\* A pool that is exhausted returns NULL: nothing but a count of it changes.
hikari_borrow(b) == borrowed[b] = 0 /\ (BorrowIdle(b) \/ BorrowNew(b))

hikari_return(b) ==
    /\ borrowed[b] # 0
    /\ hikari' = HikariPool([hikari.state EXCEPT ![borrowed[b]] = "IDLE"],
                            hikari.idle_count + 1, hikari.active_count - 1)
    /\ borrowed' = [borrowed EXCEPT ![b] = 0]

HikariNext == \E b \in Borrowers : hikari_borrow(b) \/ hikari_return(b)

HikariSpec == HikariInit /\ [][HikariNext]_hikariVars

-----------------------------------------------------------------------------
(* Properties                                                              *)

HL == INSTANCE ConnectionLease WITH
        Users <- Borrowers, Clients <- 1 .. maximum_pool_size, NoClient <- 0,
        max_size <- maximum_pool_size, open <- DOMAIN hikari.state, lease <- borrowed

\* The counts say what the states do, and the pool lends connections: one
\* borrower each, never more than maximum_pool_size.  hikari_borrow and
\* hikari_return, connection_pool.c:158-237.
HikariLends ==
    /\ HL!LeaseSpec
    /\ [](/\ hikari.idle_count = Cardinality(Idle)
          /\ hikari.active_count = Cardinality({b \in Borrowers : borrowed[b] # 0}))

-----------------------------------------------------------------------------
(***************************************************************************)
(* The database server of phase 7 (server.c), with its simulated socket.   *)
(* A connection is known by its id, which is its place in the array.  The  *)
(* types of requests that are only answered with a text are one.           *)
(***************************************************************************)

CONSTANTS
    SERVER_CONNECTIONS,  \* MAX_CONNECTIONS
    MAX_REQUESTS         \* bound: requests processed

ASSUME DatabaseServerAssumption == SERVER_CONNECTIONS \in Nat /\ MAX_REQUESTS \in Nat

VARIABLE server  \* DatabaseServer, with the first conn_count elements of connections

serverVars == <<server>>

DatabaseServer(is_running, conns, total_requests) ==
    [is_running |-> is_running, connections |-> conns, total_requests |-> total_requests]

server_create == DatabaseServer(FALSE, << >>, 0)

DatabaseServerInit == server = server_create

server_start == server' = DatabaseServer(TRUE, server.connections, server.total_requests)

Connection(status, requests_processed) ==
    [status |-> status, requests_processed |-> requests_processed]

ClosedConnection(conn) == Connection("CLOSED", conn.requests_processed)

CloseAll == [i \in DOMAIN server.connections |-> ClosedConnection(server.connections[i])]

server_stop == server' = DatabaseServer(FALSE, CloseAll, server.total_requests)

\* The elements of connections that are closed are not used again, not even by a
\* server that was stopped and started.
server_accept_connection ==
    /\ server.is_running /\ Len(server.connections) < SERVER_CONNECTIONS
    /\ server' = DatabaseServer(TRUE, Append(server.connections, Connection("ACTIVE", 0)),
                                server.total_requests)

\* The connection is looked for by its id.
WithConnection(c, conn, requests) ==
    DatabaseServer(server.is_running, [server.connections EXCEPT ![c] = conn],
                   server.total_requests + requests)

server_close_connection(c) == server' = WithConnection(c, ClosedConnection(server.connections[c]), 0)

\* By its id alone: a request on one that is closed, or that comes after a stop, is
\* processed and counted.  A type that is not known is answered RESP_INVALID and
\* counts nowhere.
server_process_request(c, type) ==
    LET conn == server.connections[c] IN
    /\ server.total_requests < MAX_REQUESTS
    /\ \/ /\ type = "text"
          /\ server' = WithConnection(c, Connection(conn.status, conn.requests_processed + 1), 1)
       \/ /\ type = "disconnect"
          /\ server' = WithConnection(c, Connection("CLOSED", conn.requests_processed + 1), 1)
       \/ type = "unknown" /\ UNCHANGED server

DatabaseServerNext ==
    \/ server_start \/ server_stop \/ server_accept_connection
    \/ \E c \in DOMAIN server.connections :
          \/ server_close_connection(c)
          \/ \E type \in {"text", "disconnect", "unknown"} : server_process_request(c, type)

DatabaseServerSpec == DatabaseServerInit /\ [][DatabaseServerNext]_serverVars

\* server_get_connection_count counts these.
Open == {c \in DOMAIN server.connections : server.connections[c].status # "CLOSED"}

\* A server that does not run has no open connection, whatever was accepted, closed
\* and asked before, and an id names one connection for ever: once closed it stays
\* closed, through every later stop and start.  server.c:54-173.
ServerKeepsAccount ==
    /\ [](~server.is_running => Open = {})
    /\ [][\A c \in DOMAIN server.connections \ Open :
              c \in DOMAIN server'.connections \ Open']_serverVars

\* The connection pools of the database and of the Spring examples, and the server's
\* own table of connections.
ConnectionsAreLent == PoolLends /\ HikariLends /\ ServerKeepsAccount

-----------------------------------------------------------------------------
(***************************************************************************)
(* The protocol of phase 7 (protocol.c): messages laid one behind the      *)
(* other in a stream, of which any part has arrived when the reader looks. *)
(* A cell is one byte or more: the header has HEADER_CELLS of them, the    *)
(* first with the fields, the others never written, as the eight bytes     *)
(* that MESSAGE_HEADER_SIZE leaves behind the fields.  Sockets are not in  *)
(* the code: a stream keeps its order.                                     *)
(***************************************************************************)

CONSTANTS
    Payloads,       \* texts that messages carry: sequences of cells
    HEADER_CELLS,   \* MESSAGE_HEADER_SIZE
    BUFFER_CELLS,   \* buffer_size of the writer
    MAX_MESSAGES    \* bound: messages created

ASSUME ProtocolAssumption ==
    /\ HEADER_CELLS \in Nat \ {0} /\ BUFFER_CELLS \in Nat /\ MAX_MESSAGES \in Nat
    /\ \A payload \in Payloads : payload \in Seq(ToSet(payload))

VARIABLES
    next_sequence,
    posted,     \* messages that protocol_serialize_message laid into the stream
    stream,     \* cells written and not yet read
    arrived,    \* how many of them the reader has in its buffer
    fetched     \* messages the reader has deserialized

wireVars == <<next_sequence, posted, stream, arrived, fetched>>

WireInit == next_sequence = 1 /\ posted = << >> /\ stream = << >> /\ arrived = 0 /\ fetched = << >>

protocol_create_message(type, payload) ==
    [type |-> type, length |-> Len(payload), sequence |-> next_sequence, payload |-> payload]

HeaderOf(msg) == [type |-> msg.type, length |-> msg.length, sequence |-> msg.sequence]

Serialized(msg) ==
    <<HeaderOf(msg)>> \o [i \in 1 .. HEADER_CELLS - 1 |-> "unwritten"] \o msg.payload

\* A message that does not fit the writer's buffer takes its number along.
protocol_serialize_message(type, payload) ==
    LET msg  == protocol_create_message(type, payload)
        fits == HEADER_CELLS + msg.length <= BUFFER_CELLS
    IN  /\ next_sequence <= MAX_MESSAGES
        /\ next_sequence' = next_sequence + 1
        /\ posted' = IF fits THEN Append(posted, msg) ELSE posted
        /\ stream' = IF fits THEN stream \o Serialized(msg) ELSE stream
        /\ UNCHANGED <<arrived, fetched>>

CellsArrive ==
    /\ \E n \in arrived + 1 .. Len(stream) : arrived' = n
    /\ UNCHANGED <<next_sequence, posted, stream, fetched>>

\* Nothing is taken, and -1 returned, until the header and all it announces are there.
protocol_deserialize_message ==
    /\ arrived >= HEADER_CELLS
    /\ LET header     == stream[1]
           total_size == HEADER_CELLS + header.length
       IN  /\ total_size <= arrived
           /\ fetched' = Append(fetched,
                 [type |-> header.type, length |-> header.length, sequence |-> header.sequence,
                  payload |-> SubSeq(stream, HEADER_CELLS + 1, total_size)])
           /\ stream' = SubSeq(stream, total_size + 1, Len(stream))
           /\ arrived' = arrived - total_size
    /\ UNCHANGED <<next_sequence, posted>>

WireNext ==
    \/ \E type \in {"query", "result"}, payload \in Payloads : protocol_serialize_message(type, payload)
    \/ CellsArrive
    \/ protocol_deserialize_message

WireSpec == WireInit /\ [][WireNext]_wireVars

\* The reader has the messages that were written, whole, in their order, none twice
\* and none left out, however the stream was cut into pieces, and their numbers
\* rise.  protocol_serialize_message and protocol_deserialize_message,
\* protocol.c:48-88.
MessagesArriveWhole ==
    /\ IsPrefix(fetched, posted)
    /\ \A i, j \in DOMAIN fetched : i < j => fetched[i].sequence < fetched[j].sequence
=============================================================================
