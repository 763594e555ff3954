---------------------------- MODULE Services_proof ----------------------------
(***************************************************************************)
(* Proofs about the pools of connections and the server's account of its   *)
(* clients, about the shutdown of the Spring Boot example, about the four  *)
(* ways of waiting in Synchronizers, about the containers of the Spring    *)
(* examples, and about the embedded server and the traces of Spring Boot,  *)
(* for any number of threads, requests, connections, beans, interceptors,  *)
(* items and spans.                                                        *)
(***************************************************************************)
EXTENDS ConnectionPools, SpringBoot, SpringContainers, SpringRuntime, Synchronizers,
        FiniteSetTheorems, SequenceTheorems, TLAPS

-----------------------------------------------------------------------------
(* The pool of the Spring examples                                         *)

Holding == {b \in Borrowers : borrowed[b] # 0}

HikariStates == {"IDLE", "IN_USE"}

\* What borrow and return rely on: the connections in use are the borrowed ones, no
\* two borrowers have the same, and the counts say so.
HikariInv ==
    /\ hikari \in [state : Seq(HikariStates), idle_count : Int, active_count : Int]
    /\ Len(hikari.state) <= maximum_pool_size
    /\ borrowed \in [Borrowers -> 0 .. Len(hikari.state)]
    /\ \A b \in Holding : hikari.state[borrowed[b]] = "IN_USE"
    /\ \A b, c \in Holding : borrowed[b] = borrowed[c] => b = c
    /\ hikari.idle_count = Cardinality(Idle)
    /\ hikari.active_count = Cardinality(Holding)

\* The abstract pool counts with the same Cardinality.
LEMMA LeaseCardinality == \A S : HL!Cardinality(S) = Cardinality(S)
  BY DEF HL!Cardinality, Cardinality

LEMMA HikariInit_Inv == HikariInit => HikariInv /\ HL!LeaseInit
  <1> SUFFICES ASSUME HikariInit PROVE HikariInv /\ HL!LeaseInit
    OBVIOUS
  <1> DEFINE st == [i \in 1 .. minimum_idle |-> "IDLE"]
  <1>1. /\ hikari = [state |-> st, idle_count |-> minimum_idle, active_count |-> 0]
        /\ borrowed = [b \in Borrowers |-> 0]
    BY DEF HikariInit, hikari_pool_create, HikariPool
  <1>2. st \in Seq(HikariStates) /\ Len(st) = minimum_idle /\ DOMAIN st = 1 .. minimum_idle
    BY HikariAssumption DEF HikariStates
  <1>3. Idle = 1 .. minimum_idle /\ Holding = {}
    BY <1>1, <1>2 DEF Idle, Holding
  <1>4. Cardinality(Idle) = minimum_idle /\ Cardinality(Holding) = 0
    BY <1>3, FS_Interval, FS_EmptySet, HikariAssumption
  <1>5. HikariInv
    BY <1>1, <1>2, <1>3, <1>4, HikariAssumption DEF HikariInv
  <1>6. Cardinality(DOMAIN hikari.state) <= maximum_pool_size
    BY <1>1, <1>2, <1>3, <1>4, HikariAssumption
  <1>7. HL!LeaseInit
    BY <1>1, <1>2, <1>6, HikariAssumption, LeaseCardinality DEF HL!LeaseInit
  <1> QED
    BY <1>5, <1>7

\* The finite sets the counts are of.
LEMMA HikariFinite ==
  ASSUME HikariInv
  PROVE  /\ DOMAIN hikari.state = 1 .. Len(hikari.state) /\ Len(hikari.state) \in Nat
         /\ IsFiniteSet(Idle) /\ IsFiniteSet(Holding)
         /\ \A i \in 1 .. Len(hikari.state) : hikari.state[i] \in HikariStates
  <1>1. hikari.state \in Seq(HikariStates)
    BY DEF HikariInv
  <1>2. DOMAIN hikari.state = 1 .. Len(hikari.state) /\ Len(hikari.state) \in Nat
    BY <1>1
  <1>3. IsFiniteSet(1 .. Len(hikari.state))
    BY <1>2, FS_Interval
  <1>4. Idle \in SUBSET (1 .. Len(hikari.state)) /\ Holding \in SUBSET Borrowers
    BY <1>2 DEF Idle, Holding
  <1>5. IsFiniteSet(Idle) /\ IsFiniteSet(Holding)
    BY <1>3, <1>4, FS_Subset, HikariAssumption
  <1> QED
    BY <1>1, <1>2, <1>5

\* A connection that is idle is lent: it was nobody's.
LEMMA BorrowIdleStep ==
  ASSUME HikariInv, NEW b \in Borrowers, borrowed[b] = 0, BorrowIdle(b)
  PROVE  HikariInv' /\ \E c \in 1 .. maximum_pool_size : HL!Lend(b, c)
  <1> DEFINE st == hikari.state
  <1>1. PICK i \in Idle :
          /\ hikari' = HikariPool([st EXCEPT ![i] = "IN_USE"],
                               hikari.idle_count - 1, hikari.active_count + 1)
          /\ borrowed' = [borrowed EXCEPT ![b] = i]
    BY DEF BorrowIdle
  <1>2. st \in Seq(HikariStates) /\ i \in 1 .. Len(st) /\ st[i] = "IDLE"
    BY <1>1, HikariFinite DEF Idle, HikariInv
  <1>3. /\ hikari'.state = [st EXCEPT ![i] = "IN_USE"]
        /\ hikari'.idle_count = hikari.idle_count - 1
        /\ hikari'.active_count = hikari.active_count + 1
        /\ hikari' \in [state : Seq(HikariStates), idle_count : Int, active_count : Int]
    <2>1. [st EXCEPT ![i] = "IN_USE"] \in Seq(HikariStates)
      BY <1>2, ExceptSeq DEF HikariStates
    <2>2. hikari.idle_count \in Int /\ hikari.active_count \in Int
      BY DEF HikariInv
    <2> QED
      BY <1>1, <2>1, <2>2 DEF HikariPool
  <1>4. Len(hikari'.state) = Len(st) /\ DOMAIN hikari'.state = 1 .. Len(st)
    BY <1>2, <1>3, HikariFinite
  <1>5. borrowed' \in [Borrowers -> 0 .. Len(hikari'.state)]
    <2>1. borrowed \in [Borrowers -> 0 .. Len(st)]
      BY DEF HikariInv
    <2>2. i \in 0 .. Len(st)
      BY <1>2
    <2>3. borrowed' \in [Borrowers -> 0 .. Len(st)]
      BY <1>1, <2>1, <2>2
    <2> QED
      BY <1>4, <2>3
  <1>6. Holding' = Holding \cup {b} /\ b \notin Holding
    BY <1>1, <1>2 DEF Holding, HikariInv
  <1>7. Idle' = Idle \ {i}
    BY <1>2, <1>3, <1>4, HikariFinite DEF Idle
  <1>8. \A c \in Holding : borrowed[c] # i
    BY <1>2 DEF HikariInv
  <1>9. \A c \in Holding' : /\ hikari'.state[borrowed'[c]] = "IN_USE"
                            /\ borrowed'[c] = i => c = b
    <2> SUFFICES ASSUME NEW c \in Holding'
                 PROVE  /\ hikari'.state[borrowed'[c]] = "IN_USE"
                        /\ borrowed'[c] = i => c = b
      OBVIOUS
    <2>1. CASE c = b
      BY <2>1, <1>1, <1>2, <1>3 DEF HikariInv
    <2>2. CASE c # b
      <3>1. c \in Holding /\ borrowed'[c] = borrowed[c] /\ borrowed[c] \in 1 .. Len(st)
        BY <2>2, <1>1, <1>6, HikariFinite DEF HikariInv, Holding
      <3> QED
        BY <3>1, <1>2, <1>3, <1>8 DEF HikariInv
    <2> QED
      BY <2>1, <2>2
  <1>10. \A c, d \in Holding' : borrowed'[c] = borrowed'[d] => c = d
    BY <1>1, <1>6, <1>8, <1>9 DEF HikariInv, Holding
  <1>11. /\ Cardinality(Idle') = Cardinality(Idle) - 1
         /\ Cardinality(Holding') = Cardinality(Holding) + 1
    BY <1>1, <1>6, <1>7, HikariFinite, FS_RemoveElement, FS_AddElement
  <1>12. HikariInv'
    BY <1>3, <1>4, <1>5, <1>9, <1>10, <1>11 DEF HikariInv
  <1>13. HL!Lend(b, i)
    <2>1. i \in (1 .. maximum_pool_size) \ HL!Leased
      BY <1>2, <1>8, HikariFinite, HikariAssumption DEF HL!Leased, Holding, HikariInv
    <2>2. DOMAIN hikari'.state = DOMAIN hikari.state \cup {i}
      BY <1>2, <1>4, HikariFinite
    <2>3. Cardinality(DOMAIN hikari'.state) <= maximum_pool_size
      <3>1. Cardinality(1 .. Len(st)) = Len(st)
        BY HikariFinite, FS_Interval
      <3> QED
        BY <3>1, <1>4 DEF HikariInv
    <2> QED
      BY <1>1, <2>1, <2>2, <2>3, LeaseCardinality DEF HL!Lend
  <1> QED
    BY <1>2, <1>12, <1>13, HikariFinite, HikariAssumption DEF HikariInv

\* A connection that is new is lent: its id is the next one.
LEMMA BorrowNewStep ==
  ASSUME HikariInv, NEW b \in Borrowers, borrowed[b] = 0, BorrowNew(b)
  PROVE  HikariInv' /\ \E c \in 1 .. maximum_pool_size : HL!Lend(b, c)
  <1> DEFINE st == hikari.state
             i  == Len(st) + 1
  <1>1. /\ Len(st) < maximum_pool_size
        /\ hikari' = HikariPool(Append(st, "IN_USE"), hikari.idle_count, hikari.active_count + 1)
        /\ borrowed' = [borrowed EXCEPT ![b] = i]
    BY DEF BorrowNew
  <1>2. st \in Seq(HikariStates) /\ Len(st) \in Nat
    BY HikariFinite DEF HikariInv
  <1>3. /\ hikari'.state = Append(st, "IN_USE")
        /\ hikari'.idle_count = hikari.idle_count
        /\ hikari'.active_count = hikari.active_count + 1
        /\ hikari' \in [state : Seq(HikariStates), idle_count : Int, active_count : Int]
    BY <1>1, <1>2 DEF HikariInv, HikariStates, HikariPool
  <1>4. Len(hikari'.state) = i /\ DOMAIN hikari'.state = 1 .. i
    BY <1>2, <1>3
  <1>5. borrowed' \in [Borrowers -> 0 .. Len(hikari'.state)]
    BY <1>1, <1>2, <1>4 DEF HikariInv
  <1>6. Holding' = Holding \cup {b} /\ b \notin Holding
    BY <1>1, <1>2 DEF Holding, HikariInv
  <1>7. /\ \A j \in 1 .. Len(st) : hikari'.state[j] = st[j]
        /\ hikari'.state[i] = "IN_USE"
    BY <1>2, <1>3
  <1>8. Idle' = Idle
    BY <1>2, <1>4, <1>7, HikariFinite DEF Idle
  <1>9. \A c \in Holding : borrowed[c] \in 1 .. Len(st)
    BY <1>2 DEF HikariInv, Holding
  <1>10. \A c \in Holding' : hikari'.state[borrowed'[c]] = "IN_USE"
    BY <1>1, <1>6, <1>7, <1>9 DEF HikariInv
  <1>11. \A c, d \in Holding' : borrowed'[c] = borrowed'[d] => c = d
    BY <1>1, <1>2, <1>6, <1>9 DEF HikariInv, Holding
  <1>12. Cardinality(Holding') = Cardinality(Holding) + 1
    BY <1>6, HikariFinite, FS_AddElement
  <1>13. HikariInv'
    BY <1>1, <1>2, <1>3, <1>4, <1>5, <1>8, <1>10, <1>11, <1>12, HikariAssumption DEF HikariInv
  <1>14. HL!Lend(b, i)
    <2>1. i \in (1 .. maximum_pool_size) \ HL!Leased
      BY <1>1, <1>2, <1>9, HikariAssumption DEF HL!Leased, Holding
    <2>2. DOMAIN hikari'.state = DOMAIN hikari.state \cup {i}
      BY <1>2, <1>4, HikariFinite
    <2>3. Cardinality(1 .. i) = i
      BY <1>2, FS_Interval
    <2> QED
      BY <1>1, <1>2, <1>4, <2>1, <2>2, <2>3, HikariAssumption, LeaseCardinality DEF HL!Lend
  <1> QED
    BY <1>1, <1>2, <1>13, <1>14, HikariAssumption

\* A connection that is returned is idle, and was that borrower's only.
LEMMA ReturnStep ==
  ASSUME HikariInv, NEW b \in Borrowers, hikari_return(b)
  PROVE  HikariInv' /\ HL!GiveBack(b)
  <1> DEFINE st == hikari.state
             i  == borrowed[b]
  <1>1. /\ i # 0
        /\ hikari' = HikariPool([st EXCEPT ![i] = "IDLE"],
                               hikari.idle_count + 1, hikari.active_count - 1)
        /\ borrowed' = [borrowed EXCEPT ![b] = 0]
    BY DEF hikari_return
  <1>2. /\ st \in Seq(HikariStates) /\ Len(st) \in Nat /\ i \in 1 .. Len(st)
        /\ b \in Holding /\ st[i] = "IN_USE"
    BY <1>1, HikariFinite DEF HikariInv, Holding
  <1>3. /\ hikari'.state = [st EXCEPT ![i] = "IDLE"]
        /\ hikari'.idle_count = hikari.idle_count + 1
        /\ hikari'.active_count = hikari.active_count - 1
        /\ hikari' \in [state : Seq(HikariStates), idle_count : Int, active_count : Int]
    <2>1. [st EXCEPT ![i] = "IDLE"] \in Seq(HikariStates)
      BY <1>2, ExceptSeq DEF HikariStates
    <2>2. hikari.idle_count \in Int /\ hikari.active_count \in Int
      BY DEF HikariInv
    <2> QED
      BY <1>1, <2>1, <2>2 DEF HikariPool
  <1>4. Len(hikari'.state) = Len(st) /\ DOMAIN hikari'.state = 1 .. Len(st)
    BY <1>2, <1>3
  <1>5. borrowed' \in [Borrowers -> 0 .. Len(hikari'.state)]
    <2>1. borrowed \in [Borrowers -> 0 .. Len(st)]
      BY DEF HikariInv
    <2>2. 0 \in 0 .. Len(st)
      BY <1>2
    <2>3. borrowed' \in [Borrowers -> 0 .. Len(st)]
      BY <1>1, <2>1, <2>2
    <2> QED
      BY <1>4, <2>3
  <1>6. Holding' = Holding \ {b}
    BY <1>1, <1>2 DEF Holding, HikariInv
  <1>7. Idle' = Idle \cup {i} /\ i \notin Idle
    BY <1>2, <1>3, <1>4, HikariFinite DEF Idle
  <1>8. \A c \in Holding' : /\ c \in Holding /\ c # b /\ borrowed'[c] = borrowed[c]
                            /\ borrowed[c] # i /\ borrowed[c] \in 1 .. Len(st)
    BY <1>1, <1>2, <1>6 DEF HikariInv, Holding
  <1>9. /\ \A c \in Holding' : hikari'.state[borrowed'[c]] = "IN_USE"
        /\ \A c, d \in Holding' : borrowed'[c] = borrowed'[d] => c = d
    BY <1>2, <1>3, <1>8 DEF HikariInv
  <1>10. /\ Cardinality(Idle') = Cardinality(Idle) + 1
         /\ Cardinality(Holding') = Cardinality(Holding) - 1
    BY <1>2, <1>6, <1>7, HikariFinite, FS_RemoveElement, FS_AddElement
  <1>11. HikariInv'
    BY <1>3, <1>4, <1>5, <1>9, <1>10 DEF HikariInv
  <1>12. HL!GiveBack(b)
    BY <1>1, <1>2, <1>4, HikariFinite DEF HL!GiveBack
  <1> QED
    BY <1>11, <1>12

\* Every step of the pool keeps the invariant and is a step of the lease.
LEMMA HikariStep ==
  HikariInv /\ [HikariNext]_hikariVars => HikariInv' /\ [HL!LeaseNext]_(HL!leaseVars)
  <1> SUFFICES ASSUME HikariInv, [HikariNext]_hikariVars
               PROVE  HikariInv' /\ [HL!LeaseNext]_(HL!leaseVars)
    OBVIOUS
  <1>1. ASSUME NEW b \in Borrowers, hikari_borrow(b)
        PROVE  HikariInv' /\ [HL!LeaseNext]_(HL!leaseVars)
    BY <1>1, BorrowIdleStep, BorrowNewStep DEF hikari_borrow, HL!LeaseNext
  <1>2. ASSUME NEW b \in Borrowers, hikari_return(b)
        PROVE  HikariInv' /\ [HL!LeaseNext]_(HL!leaseVars)
    BY <1>2, ReturnStep DEF HL!LeaseNext
  <1>3. CASE UNCHANGED hikariVars
    BY <1>3 DEF hikariVars, HikariInv, Idle, Holding, HL!leaseVars
  <1> QED
    BY <1>1, <1>2, <1>3 DEF HikariNext

\* The pool of the Spring examples lends connections and keeps its counts.
THEOREM SpringPoolLends == HikariSpec => HikariLends
  <1>1. HikariInv => /\ hikari.idle_count = Cardinality(Idle)
                     /\ hikari.active_count = Cardinality({b \in Borrowers : borrowed[b] # 0})
    BY DEF HikariInv, Holding
  <1> QED
    BY HikariInit_Inv, HikariStep, <1>1, PTL DEF HikariSpec, HikariLends, HL!LeaseSpec

-----------------------------------------------------------------------------
(* The server                                                              *)

ServerStates == {"ACTIVE", "CLOSED"}

ServerConnection == [status : ServerStates, requests_processed : Int]

\* Only while it runs does a server have a connection that is not closed.
ServerInv ==
    /\ server \in [is_running : BOOLEAN, connections : Seq(ServerConnection), total_requests : Int]
    /\ \A c \in Open : server.is_running

\* What no step undoes.
ClosedForGood ==
    \A c \in DOMAIN server.connections :
       /\ c \in DOMAIN server'.connections
       /\ server.connections[c].status = "CLOSED" => server'.connections[c].status = "CLOSED"

LEMMA ServerInit_Inv == DatabaseServerInit => ServerInv
  BY DEF DatabaseServerInit, server_create, DatabaseServer, ServerInv, Open

LEMMA ServerFacts ==
  ASSUME ServerInv
  PROVE  /\ server.connections \in Seq(ServerConnection) /\ server.total_requests \in Int
         /\ server.is_running \in BOOLEAN
         /\ \A c \in DOMAIN server.connections :
               server.connections[c].status = "CLOSED" \/ server.is_running
         /\ \A c \in DOMAIN server.connections : server.connections[c] \in ServerConnection
  <1>1. server.connections \in Seq(ServerConnection) /\ server.total_requests \in Int
    BY DEF ServerInv
  <1>2. server.is_running \in BOOLEAN
    BY DEF ServerInv
  <1> QED
    BY <1>1, <1>2 DEF ServerInv, Open

\* One connection is replaced, by one that is closed if it was.
LEMMA ReplaceStep ==
  ASSUME ServerInv, NEW c \in DOMAIN server.connections, NEW conn \in ServerConnection,
         NEW requests \in Int, server' = WithConnection(c, conn, requests),
         server.connections[c].status = "CLOSED" => conn.status = "CLOSED"
  PROVE  ServerInv' /\ ClosedForGood
  <1> DEFINE cs == server.connections
  <1>1. /\ server'.is_running = server.is_running
        /\ server'.connections = [cs EXCEPT ![c] = conn]
        /\ server'.total_requests = server.total_requests + requests
    BY DEF WithConnection, DatabaseServer
  <1>2. server'.connections \in Seq(ServerConnection) /\ DOMAIN server'.connections = DOMAIN cs
    BY <1>1, ServerFacts, ExceptSeq
  <1>3. \A d \in DOMAIN cs : server'.connections[d] = IF d = c THEN conn ELSE cs[d]
    BY <1>1, ServerFacts
  <1>4. ClosedForGood
    BY <1>2, <1>3 DEF ClosedForGood
  <1>5. \A d \in Open' : server'.is_running
    BY <1>1, <1>2, <1>3, ServerFacts DEF Open
  <1>6. server' \in [is_running : BOOLEAN, connections : Seq(ServerConnection), total_requests : Int]
    BY <1>1, <1>2, ServerFacts DEF WithConnection, DatabaseServer
  <1> QED
    BY <1>4, <1>5, <1>6 DEF ServerInv

LEMMA ServerStep ==
  ServerInv /\ [DatabaseServerNext]_serverVars => ServerInv' /\ ClosedForGood
  <1> SUFFICES ASSUME ServerInv, [DatabaseServerNext]_serverVars PROVE ServerInv' /\ ClosedForGood
    OBVIOUS
  <1> DEFINE cs == server.connections
  <1>1. CASE server_start
    BY <1>1, ServerFacts DEF server_start, DatabaseServer, ServerInv, ClosedForGood, Open
  <1>2. CASE server_stop
    <2>1. CloseAll \in Seq(ServerConnection) /\ DOMAIN CloseAll = DOMAIN cs
      BY SMTT(30), ServerFacts DEF CloseAll, ClosedConnection, Connection, ServerConnection, ServerStates
    <2>2. \A c \in DOMAIN cs : CloseAll[c].status = "CLOSED"
      BY DEF CloseAll, ClosedConnection, Connection
    <2> QED
      BY <1>2, <2>1, <2>2, ServerFacts DEF server_stop, DatabaseServer, ServerInv, ClosedForGood, Open
  <1>3. CASE server_accept_connection
    <2> DEFINE conn == Connection("ACTIVE", 0)
    <2>1. conn \in ServerConnection
      BY DEF Connection, ServerConnection, ServerStates
    <2>2. server.is_running /\ server' = DatabaseServer(TRUE, Append(cs, conn), server.total_requests)
      BY <1>3 DEF server_accept_connection
    <2>3. /\ Append(cs, conn) \in Seq(ServerConnection)
          /\ \A c \in DOMAIN cs : c \in DOMAIN Append(cs, conn) /\ Append(cs, conn)[c] = cs[c]
      BY <2>1, ServerFacts
    <2> QED
      BY <2>2, <2>3, ServerFacts DEF DatabaseServer, ServerInv, ClosedForGood
  <1>4. ASSUME NEW c \in DOMAIN cs, server_close_connection(c) PROVE ServerInv' /\ ClosedForGood
    <2> DEFINE conn == ClosedConnection(cs[c])
    <2>1. conn \in ServerConnection /\ conn.status = "CLOSED"
      BY ServerFacts DEF ClosedConnection, Connection, ServerConnection, ServerStates
    <2> QED
      BY <1>4, <2>1, ReplaceStep DEF server_close_connection
  <1>5. ASSUME NEW c \in DOMAIN cs, NEW type, server_process_request(c, type)
        PROVE  ServerInv' /\ ClosedForGood
    <2> DEFINE conn(status) == Connection(status, cs[c].requests_processed + 1)
    <2>1. /\ conn(cs[c].status) \in ServerConnection /\ conn("CLOSED") \in ServerConnection
          /\ conn(cs[c].status).status = cs[c].status /\ conn("CLOSED").status = "CLOSED"
      BY ServerFacts DEF Connection, ServerConnection, ServerStates
    <2>2. CASE server' = WithConnection(c, conn(cs[c].status), 1)
      BY <2>1, <2>2, ReplaceStep
    <2>3. CASE server' = WithConnection(c, conn("CLOSED"), 1)
      BY <2>1, <2>3, ReplaceStep
    <2>4. CASE UNCHANGED server
      BY <2>4 DEF ServerInv, ClosedForGood, Open
    <2> QED
      BY <1>5, <2>2, <2>3, <2>4 DEF server_process_request
  <1>6. CASE UNCHANGED serverVars
    BY <1>6 DEF serverVars, ServerInv, ClosedForGood, Open
  <1> QED
    BY <1>1, <1>2, <1>3, <1>4, <1>5, <1>6 DEF DatabaseServerNext

\* The server keeps its account of what is open, over every stop and start.
THEOREM ServerAccount == DatabaseServerSpec => ServerKeepsAccount
  <1>1. ServerInv => (~server.is_running => Open = {})
    BY DEF ServerInv
  <1>2. ClosedForGood => \A c \in DOMAIN server.connections \ Open :
                            c \in DOMAIN server'.connections \ Open'
    BY DEF ClosedForGood, Open
  <1> QED
    BY ServerInit_Inv, ServerStep, <1>1, <1>2, PTL DEF DatabaseServerSpec, ServerKeepsAccount

-----------------------------------------------------------------------------
(* The pool of the database                                                *)

\* An element of the array has a client unless it is closed, and its own.
WellSlotted(s) ==
    /\ s \in Seq(PooledConnection)
    /\ \A i \in DOMAIN s : s[i].status = "CLOSED" <=> s[i].client = NoClient
    /\ \A i, j \in DOMAIN s : s[i].client = s[j].client /\ s[i].client # NoClient => i = j

ClientsOf(s) == {s[i].client : i \in DOMAIN s} \ {NoClient}

Having == {u \in Users : has[u] # NoClient}

\* Who has a connection has that of a lent element, and nobody else has it; the
\* client objects that are not freed are those of the array.
PoolInv ==
    /\ WellSlotted(connections) /\ Len(connections) <= max_size
    /\ now \in 0 .. MAX_TIME
    /\ allocated = ClientsOf(connections)
    /\ has \in [Users -> Clients \cup {NoClient}]
    /\ \A u \in Having : \E i \in Lent : connections[i].client = has[u]
    /\ \A u, v \in Having : has[u] = has[v] => u = v
    /\ idle_count = Cardinality(IdleSlots) /\ active_count = Cardinality(Lent)

\* There are no more clients than elements.
LEMMA ClientsCounted ==
  ASSUME NEW s \in Seq(PooledConnection)
  PROVE  /\ IsFiniteSet(ClientsOf(s)) /\ Cardinality(ClientsOf(s)) <= Len(s)
         /\ ClientsOf(s) \subseteq Clients
  <1> DEFINE f == [i \in 1 .. Len(s) |-> s[i].client]
             C == {s[i].client : i \in DOMAIN s}
  <1>1. Len(s) \in Nat /\ DOMAIN s = 1 .. Len(s) /\ \A i \in DOMAIN s : s[i] \in PooledConnection
    OBVIOUS
  <1>2. f \in Surjection(1 .. Len(s), C)
    BY <1>1 DEF Surjection
  <1>3. IsFiniteSet(1 .. Len(s)) /\ Cardinality(1 .. Len(s)) = Len(s)
    BY <1>1, FS_Interval
  <1>4. IsFiniteSet(C) /\ Cardinality(C) <= Len(s)
    <2> HIDE DEF f, C
    <2> QED
      BY <1>2, <1>3, FS_Surjection
  <1>5. ClientsOf(s) \in SUBSET C
    BY DEF ClientsOf
  <1>6. /\ IsFiniteSet(ClientsOf(s)) /\ Cardinality(ClientsOf(s)) <= Cardinality(C)
        /\ Cardinality(ClientsOf(s)) \in Nat /\ Cardinality(C) \in Nat
    <2> HIDE DEF C
    <2> QED
      BY <1>4, <1>5, FS_Subset, FS_CardinalityType
  <1>7. ClientsOf(s) \subseteq Clients
    BY <1>1 DEF ClientsOf, PooledConnection
  <1> QED
    BY <1>1, <1>4, <1>6, <1>7

\* One element of the array is replaced, by one with its client or closed.
LEMMA ReplaceSlot ==
  ASSUME NEW s, WellSlotted(s), NEW i \in DOMAIN s, NEW slot \in PooledConnection,
         slot.status = "CLOSED" <=> slot.client = NoClient,
         slot.client \in {s[i].client, NoClient}
  PROVE  LET t == [s EXCEPT ![i] = slot] IN
         /\ WellSlotted(t) /\ Len(t) = Len(s) /\ DOMAIN t = DOMAIN s
         /\ \A j \in DOMAIN s : t[j] = IF j = i THEN slot ELSE s[j]
         /\ slot.client = s[i].client => ClientsOf(t) = ClientsOf(s)
         /\ slot.client = NoClient => ClientsOf(t) = ClientsOf(s) \ {s[i].client}
  <1> DEFINE t == [s EXCEPT ![i] = slot]
  <1>1. /\ s \in Seq(PooledConnection)
        /\ \A k \in DOMAIN s : s[k].status = "CLOSED" <=> s[k].client = NoClient
        /\ \A j, k \in DOMAIN s : s[j].client = s[k].client /\ s[j].client # NoClient => j = k
    BY DEF WellSlotted
  <1>2. t \in Seq(PooledConnection) /\ Len(t) = Len(s) /\ DOMAIN t = DOMAIN s
    BY <1>1, ExceptSeq
  <1>3. \A j \in DOMAIN s : t[j] = IF j = i THEN slot ELSE s[j]
    BY <1>1
  <1> HIDE DEF t
  <1>4. WellSlotted(t)
    BY <1>1, <1>2, <1>3 DEF WellSlotted
  <1>5. slot.client = s[i].client => ClientsOf(t) = ClientsOf(s)
    BY <1>2, <1>3 DEF ClientsOf
  <1>6. slot.client = NoClient => ClientsOf(t) = ClientsOf(s) \ {s[i].client}
    BY <1>1, <1>2, <1>3 DEF ClientsOf
  <1> QED
    BY <1>2, <1>3, <1>4, <1>5, <1>6 DEF t

LEMMA PoolFacts ==
  ASSUME PoolInv
  PROVE  /\ connections \in Seq(PooledConnection) /\ Len(connections) \in Nat
         /\ DOMAIN connections = 1 .. Len(connections)
         /\ \A i \in DOMAIN connections : connections[i] \in PooledConnection
         /\ IsFiniteSet(IdleSlots) /\ IsFiniteSet(Lent)
         /\ Cardinality(IdleSlots) \in Nat /\ Cardinality(Lent) \in Nat
         /\ IsFiniteSet(allocated) /\ Cardinality(allocated) <= max_size /\ allocated \subseteq Clients
         /\ \A i \in DOMAIN connections : connections[i].status = "CLOSED" <=> connections[i].client = NoClient
         /\ \A i, j \in DOMAIN connections :
               connections[i].client = connections[j].client /\ connections[i].client # NoClient => i = j
  <1>1. connections \in Seq(PooledConnection) /\ Len(connections) <= max_size
    BY DEF PoolInv, WellSlotted
  <1>2. /\ DOMAIN connections = 1 .. Len(connections) /\ Len(connections) \in Nat
        /\ \A i \in DOMAIN connections : connections[i] \in PooledConnection
    BY <1>1
  <1>3. IsFiniteSet(1 .. Len(connections))
    BY <1>2, FS_Interval
  <1>4. IdleSlots \in SUBSET (1 .. Len(connections)) /\ Lent \in SUBSET (1 .. Len(connections))
    BY <1>2 DEF IdleSlots, Lent
  <1>5. IsFiniteSet(IdleSlots) /\ IsFiniteSet(Lent)
    BY <1>3, <1>4, FS_Subset
  <1>6. Cardinality(IdleSlots) \in Nat /\ Cardinality(Lent) \in Nat
    BY <1>5, FS_CardinalityType
  <1>7. IsFiniteSet(allocated) /\ Cardinality(allocated) <= max_size /\ allocated \subseteq Clients
    <2>1. allocated = ClientsOf(connections)
      BY DEF PoolInv
    <2>2. /\ IsFiniteSet(ClientsOf(connections)) /\ ClientsOf(connections) \subseteq Clients
          /\ Cardinality(ClientsOf(connections)) <= Len(connections)
      BY <1>1, ClientsCounted
    <2>3. Cardinality(ClientsOf(connections)) \in Nat
      BY <2>2, FS_CardinalityType
    <2> QED
      BY <1>1, <1>2, <2>1, <2>2, <2>3, PoolConstants
  <1>8. WellSlotted(connections)
    BY DEF PoolInv
  <1> QED
    BY <1>1, <1>2, <1>5, <1>6, <1>7, <1>8 DEF WellSlotted

LEMMA LeaseClients == \A S : CL!Cardinality(S) = Cardinality(S)
  BY DEF CL!Cardinality, Cardinality

LEMMA PoolInit_Inv == PoolInit => PoolInv /\ CL!LeaseInit
  <1> SUFFICES ASSUME PoolInit PROVE PoolInv /\ CL!LeaseInit
    OBVIOUS
  <1>0. PICK C \in SUBSET Clients : \E s \in SetToSeqs(C) :
          /\ Cardinality(C) <= max_size
          /\ allocated = C
          /\ connections = [i \in DOMAIN s |->
                              [client |-> s[i], status |-> "IDLE", last_used |-> 0]]
          /\ idle_count = Cardinality(C)
    BY DEF PoolInit
  <1>1. PICK s \in SetToSeqs(C) :
          /\ Cardinality(C) <= max_size
          /\ allocated = C
          /\ connections = [i \in DOMAIN s |->
                              [client |-> s[i], status |-> "IDLE", last_used |-> 0]]
          /\ idle_count = Cardinality(C)
    BY <1>0
  <1> DEFINE n == Cardinality(C)
  <1>2. IsFiniteSet(C) /\ n \in Nat
    BY PoolConstants, FS_Subset, FS_CardinalityType
  <1>3. IsFiniteSet(1 .. n) /\ Cardinality(1 .. n) = n
    BY <1>2, FS_Interval
  <1>4. s \in Injection(1 .. n, C)
    BY DEF SetToSeqs, Injection, IsInjective
  <1>5. s \in Surjection(1 .. n, C)
    BY <1>2, <1>3, <1>4, FS_Injection
  <1>6. /\ s \in [1 .. n -> C] /\ \A i, j \in 1 .. n : s[i] = s[j] => i = j
        /\ \A c \in C : \E i \in 1 .. n : s[i] = c
    BY <1>4, <1>5 DEF Injection, Surjection, IsInjective
  <1>7. /\ DOMAIN connections = 1 .. n
        /\ connections \in [1 .. n -> PooledConnection]
        /\ \A i \in 1 .. n : connections[i].client = s[i] /\ connections[i].status = "IDLE"
    BY <1>1, <1>6, PoolConstants DEF PooledConnection, Status
  <1>8. connections \in Seq(PooledConnection) /\ Len(connections) = n
    BY <1>2, <1>7
  <1>9. WellSlotted(connections) /\ ClientsOf(connections) = C
    BY <1>6, <1>7, <1>8, PoolConstants DEF WellSlotted, ClientsOf
  <1>10. IdleSlots = 1 .. n /\ Lent = {}
    BY <1>7 DEF IdleSlots, Lent
  <1>11. now = 0 /\ active_count = 0 /\ has = [u \in Users |-> NoClient]
    BY DEF PoolInit
  <1>12. Having = {}
    BY <1>11 DEF Having
  <1>13. PoolInv
    BY <1>1, <1>3, <1>8, <1>9, <1>10, <1>11, <1>12, FS_EmptySet, PoolConstants DEF PoolInv
  <1> QED
    BY <1>1, <1>11, <1>13, LeaseClients DEF CL!LeaseInit

\* An idle connection that is lent was nobody's.
LEMMA GetIdleStep ==
  ASSUME PoolInv, NEW u \in Users, get_connection_idle(u)
  PROVE  PoolInv' /\ \E c \in Clients : CL!Lend(u, c)
  <1> DEFINE cs == connections
  <1>1. PICK i \in IdleSlots :
          /\ connections' = [cs EXCEPT ![i] = Slot(cs[i].client, "ACTIVE")]
          /\ has' = [has EXCEPT ![u] = cs[i].client]
    BY DEF get_connection_idle
  <1>2. /\ has[u] = NoClient /\ UNCHANGED <<allocated, now>>
        /\ idle_count' = idle_count - 1 /\ active_count' = active_count + 1
    BY DEF get_connection_idle
  <1> DEFINE slot == Slot(cs[i].client, "ACTIVE")
             c    == cs[i].client
  <1>3. i \in DOMAIN cs /\ cs[i].status = "IDLE" /\ cs[i] \in PooledConnection
    BY PoolFacts DEF IdleSlots
  <1>4. c \in Clients /\ c # NoClient
    BY <1>3, PoolFacts, PoolConstants DEF PooledConnection
  <1>5. now \in 0 .. MAX_TIME /\ WellSlotted(cs) /\ Len(cs) <= max_size /\ allocated = ClientsOf(cs)
        /\ has \in [Users -> Clients \cup {NoClient}]
        /\ idle_count = Cardinality(IdleSlots) /\ active_count = Cardinality(Lent)
    BY DEF PoolInv
  <1>6. slot \in PooledConnection /\ slot.client = c /\ slot.status = "ACTIVE"
    BY <1>4, <1>5 DEF Slot, PooledConnection, Status
  <1>7. /\ WellSlotted(connections') /\ Len(connections') = Len(cs) /\ DOMAIN connections' = DOMAIN cs
        /\ \A j \in DOMAIN cs : connections'[j] = IF j = i THEN slot ELSE cs[j]
        /\ ClientsOf(connections') = ClientsOf(cs)
    <2> HIDE DEF slot
    <2>1. slot.status = "CLOSED" <=> slot.client = NoClient
      BY <1>4, <1>6
    <2>2. connections' = [cs EXCEPT ![i] = slot]
      BY <1>1 DEF slot
    <2>3. slot.client = cs[i].client /\ slot.client # NoClient
      BY <1>4, <1>6
    <2> QED
      BY <1>3, <1>5, <1>6, <2>1, <2>2, <2>3, ReplaceSlot
  <1> HIDE DEF slot
  <1>8. IdleSlots' = IdleSlots \ {i} /\ Lent' = Lent \cup {i} /\ i \notin Lent
    BY <1>3, <1>6, <1>7 DEF IdleSlots, Lent
  <1>9. Cardinality(IdleSlots') = Cardinality(IdleSlots) - 1 /\ Cardinality(Lent') = Cardinality(Lent) + 1
    BY <1>8, PoolFacts, FS_RemoveElement, FS_AddElement
  <1>10. Having' = Having \cup {u} /\ u \notin Having
    BY <1>1, <1>2, <1>4, <1>5 DEF Having
  <1>11. \A v \in Having : /\ has[v] # c
                            /\ \E j \in Lent : j # i /\ cs[j].client = has[v]
    <2> TAKE v \in Having
    <2>1. PICK j \in Lent : cs[j].client = has[v]
      BY DEF PoolInv
    <2>2. j \in DOMAIN cs /\ j # i
      BY <1>8, <2>1 DEF Lent
    <2> QED
      BY <1>3, <1>4, <2>1, <2>2, PoolFacts
  <1>12. \A v \in Having : has'[v] = has[v]
    BY <1>1, <1>5, <1>10 DEF Having
  <1>13. has'[u] = c
    BY <1>1, <1>5
  <1>14. \A v \in Having' : \E j \in Lent' : connections'[j].client = has'[v]
    <2> TAKE v \in Having'
    <2>1. CASE v = u
      BY <2>1, <1>3, <1>6, <1>7, <1>8, <1>13
    <2>2. CASE v # u
      <3>1. v \in Having
        BY <2>2, <1>10
      <3>2. PICK j \in Lent : j # i /\ cs[j].client = has[v]
        BY <3>1, <1>11
      <3>3. j \in DOMAIN cs
        BY <3>2 DEF Lent
      <3> QED
        BY <3>1, <3>2, <3>3, <1>7, <1>8, <1>12
    <2> QED
      BY <2>1, <2>2
  <1>15. \A v, w \in Having' : has'[v] = has'[w] => v = w
    <2>1. \A v, w \in Having : has[v] = has[w] => v = w
      BY DEF PoolInv
    <2> QED
      BY <2>1, <1>10, <1>11, <1>12, <1>13
  <1>16. has' \in [Users -> Clients \cup {NoClient}]
    BY <1>1, <1>4, <1>5
  <1>17. PoolInv'
    BY <1>2, <1>5, <1>7, <1>9, <1>14, <1>15, <1>16 DEF PoolInv
  <1>18. CL!Lend(u, c)
    <2>1. c \notin CL!Leased
      BY <1>4, <1>11 DEF CL!Leased, Having
    <2>2. allocated' = allocated \cup {c}
      BY <1>2, <1>3, <1>4, <1>5 DEF ClientsOf
    <2>3. Cardinality(allocated') <= max_size
      BY <1>2, PoolFacts
    <2> QED
      BY <1>1, <1>2, <1>4, <2>1, <2>2, <2>3, LeaseClients DEF CL!Lend
  <1> QED
    BY <1>4, <1>17, <1>18

\* A connection that is opened has an address of its own.
LEMMA GetNewStep ==
  ASSUME PoolInv, NEW u \in Users, get_connection_new(u)
  PROVE  PoolInv' /\ \E c \in Clients : CL!Lend(u, c)
  <1> DEFINE cs == connections
             n  == Len(connections) + 1
  <1>1. PICK c \in Clients \ allocated :
          /\ allocated' = allocated \cup {c}
          /\ connections' = Append(cs, Slot(c, "ACTIVE"))
          /\ has' = [has EXCEPT ![u] = c]
    BY DEF get_connection_new
  <1>2. /\ has[u] = NoClient /\ Len(cs) < max_size /\ now' = now
        /\ idle_count' = idle_count /\ active_count' = active_count + 1
    BY DEF get_connection_new, pool_size
  <1> DEFINE slot == Slot(c, "ACTIVE")
  <1>3. now \in 0 .. MAX_TIME /\ Len(cs) <= max_size /\ allocated = ClientsOf(cs)
        /\ has \in [Users -> Clients \cup {NoClient}]
        /\ idle_count = Cardinality(IdleSlots) /\ active_count = Cardinality(Lent)
    BY DEF PoolInv
  <1>4. c \in Clients /\ c # NoClient
    BY PoolConstants
  <1>5. slot \in PooledConnection /\ slot.client = c /\ slot.status = "ACTIVE"
    BY <1>3, <1>4 DEF Slot, PooledConnection, Status
  <1>6. connections' = Append(cs, slot)
    BY <1>1
  <1> HIDE DEF slot
  <1>7. /\ connections' \in Seq(PooledConnection) /\ Len(connections') = n
        /\ DOMAIN connections' = 1 .. n /\ DOMAIN cs = 1 .. Len(cs) /\ Len(cs) \in Nat
        /\ \A j \in DOMAIN cs : connections'[j] = cs[j]
        /\ connections'[n] = slot
    BY <1>5, <1>6, PoolFacts
  <1>8. \A j \in DOMAIN cs : cs[j].client # c
    BY <1>3, <1>4 DEF ClientsOf
  <1>9. WellSlotted(connections')
    <2>1. \A j \in DOMAIN connections' : j \in DOMAIN cs \/ j = n
      BY <1>7
    <2>2. \A i \in DOMAIN connections' : connections'[i].status = "CLOSED" <=> connections'[i].client = NoClient
      BY <2>1, <1>4, <1>5, <1>7, PoolFacts
    <2>3. ASSUME NEW i \in DOMAIN connections', NEW j \in DOMAIN connections',
                 connections'[i].client = connections'[j].client, connections'[i].client # NoClient
          PROVE  i = j
      BY <2>1, <2>3, <1>5, <1>7, <1>8, PoolFacts
    <2> QED
      BY <1>7, <2>2, <2>3 DEF WellSlotted
  <1>10. ClientsOf(connections') = ClientsOf(cs) \cup {c}
    BY <1>4, <1>5, <1>7 DEF ClientsOf
  <1>11. IdleSlots' = IdleSlots /\ Lent' = Lent \cup {n} /\ n \notin Lent
    BY <1>5, <1>7 DEF IdleSlots, Lent
  <1>12. Cardinality(Lent') = Cardinality(Lent) + 1
    BY <1>11, PoolFacts, FS_AddElement
  <1>13. Having' = Having \cup {u} /\ u \notin Having
    BY <1>1, <1>2, <1>3, <1>4 DEF Having
  <1>14. /\ \A v \in Having : has'[v] = has[v]
         /\ has'[u] = c
    BY <1>1, <1>3, <1>13 DEF Having
  <1>15. \A v \in Having : \E j \in Lent : j \in DOMAIN cs /\ cs[j].client = has[v]
    BY DEF PoolInv, Lent
  <1>16. \A v \in Having' : \E j \in Lent' : connections'[j].client = has'[v]
    BY <1>5, <1>7, <1>11, <1>13, <1>14, <1>15
  <1>17. \A v, w \in Having' : has'[v] = has'[w] => v = w
    <2>1. \A v, w \in Having : has[v] = has[w] => v = w
      BY DEF PoolInv
    <2> QED
      BY <2>1, <1>8, <1>13, <1>14, <1>15
  <1>18. has' \in [Users -> Clients \cup {NoClient}]
    BY <1>1, <1>3
  <1>19. Len(connections') <= max_size
    BY <1>2, <1>7, PoolConstants
  <1>20. PoolInv'
    BY <1>1, <1>2, <1>3, <1>9, <1>10, <1>11, <1>12, <1>16, <1>17, <1>18, <1>19 DEF PoolInv
  <1>21. CL!Lend(u, c)
    <2>1. c \notin CL!Leased
      BY <1>4, <1>8, <1>15 DEF CL!Leased, Having
    <2>2. Cardinality(allocated') <= max_size
      <3>1. /\ IsFiniteSet(ClientsOf(connections'))
            /\ Cardinality(ClientsOf(connections')) <= Len(connections')
        BY <1>7, ClientsCounted
      <3>2. Cardinality(ClientsOf(connections')) \in Nat
        BY <3>1, FS_CardinalityType
      <3>3. allocated' = ClientsOf(connections')
        BY <1>1, <1>3, <1>10
      <3>4. Len(connections') \in Nat
        BY <1>7
      <3> QED
        BY <1>19, <3>1, <3>2, <3>3, <3>4, PoolConstants
    <2> QED
      BY <1>1, <1>2, <1>4, <2>1, <2>2, LeaseClients DEF CL!Lend
  <1> QED
    BY <1>4, <1>20, <1>21

\* The element found for a connection that somebody has is the one lent to them.
LEMMA SlotOfHeld ==
  ASSUME PoolInv, NEW u \in Having
  PROVE  SlotOf(has[u]) \in Lent /\ connections[SlotOf(has[u])].client = has[u]
  <1>1. PICK i \in Lent : connections[i].client = has[u]
    BY DEF PoolInv
  <1>2. i \in DOMAIN connections /\ has[u] # NoClient
    BY DEF Lent, Having
  <1>3. {j \in DOMAIN connections : connections[j].client = has[u]} = {i}
    BY <1>1, <1>2, PoolFacts
  <1>4. i \in Int
    BY <1>2, PoolFacts
  <1>5. Min({i}) = i
    BY <1>4 DEF Min
  <1> QED
    BY <1>1, <1>3, <1>5 DEF SlotOf

\* Who gives a connection up had it alone: the others keep theirs, in other
\* elements of the array.
LEMMA GivingUp ==
  ASSUME PoolInv, NEW u \in Having, has' = [has EXCEPT ![u] = NoClient],
         NEW slot \in PooledConnection, slot.status # "ACTIVE",
         slot.status = "CLOSED" <=> slot.client = NoClient,
         slot.client \in {has[u], NoClient},
         connections' = [connections EXCEPT ![SlotOf(has[u])] = slot]
  PROVE  /\ has' \in [Users -> Clients \cup {NoClient}]
         /\ \A v \in Having' : \E j \in Lent' : connections'[j].client = has'[v]
         /\ \A v, w \in Having' : has'[v] = has'[w] => v = w
         /\ WellSlotted(connections') /\ Len(connections') = Len(connections)
         /\ slot.client = has[u] => ClientsOf(connections') = ClientsOf(connections)
         /\ slot.client = NoClient => ClientsOf(connections') = ClientsOf(connections) \ {has[u]}
         /\ Cardinality(Lent') = Cardinality(Lent) - 1
         /\ Cardinality(IdleSlots') = Cardinality(IdleSlots) + (IF slot.status = "IDLE" THEN 1 ELSE 0)
  <1> DEFINE cs == connections
             i  == SlotOf(has[u])
  <1>1. i \in Lent /\ cs[i].client = has[u]
    BY SlotOfHeld
  <1> HIDE DEF i
  <1>2. i \in DOMAIN cs /\ cs[i].status = "ACTIVE" /\ has[u] # NoClient /\ u \in Users
    BY <1>1 DEF Lent, Having
  <1>3. connections' = [cs EXCEPT ![i] = slot]
    BY DEF i
  <1>4. /\ WellSlotted(cs) /\ has \in [Users -> Clients \cup {NoClient}]
        /\ \A v, w \in Having : has[v] = has[w] => v = w
        /\ \A v \in Having : \E j \in Lent : cs[j].client = has[v]
    BY DEF PoolInv
  <1>5. /\ WellSlotted(connections') /\ Len(connections') = Len(cs) /\ DOMAIN connections' = DOMAIN cs
        /\ \A j \in DOMAIN cs : connections'[j] = IF j = i THEN slot ELSE cs[j]
        /\ slot.client = has[u] => ClientsOf(connections') = ClientsOf(cs)
        /\ slot.client = NoClient => ClientsOf(connections') = ClientsOf(cs) \ {has[u]}
    <2>1. slot.client \in {cs[i].client, NoClient} /\ (slot.status = "CLOSED" <=> slot.client = NoClient)
      BY <1>1
    <2>2. LET t == [cs EXCEPT ![i] = slot] IN
          /\ WellSlotted(t) /\ Len(t) = Len(cs) /\ DOMAIN t = DOMAIN cs
          /\ \A j \in DOMAIN cs : t[j] = IF j = i THEN slot ELSE cs[j]
          /\ slot.client = cs[i].client => ClientsOf(t) = ClientsOf(cs)
          /\ slot.client = NoClient => ClientsOf(t) = ClientsOf(cs) \ {cs[i].client}
      BY <1>2, <1>4, <2>1, ReplaceSlot
    <2> QED
      BY <1>1, <1>3, <2>2
  <1>6. /\ Lent' = Lent \ {i}
        /\ slot.status = "IDLE" => IdleSlots' = IdleSlots \cup {i}
        /\ slot.status # "IDLE" => IdleSlots' = IdleSlots
        /\ i \notin IdleSlots
    BY <1>2, <1>5 DEF IdleSlots, Lent
  <1>7. Having' = Having \ {u}
    BY <1>4 DEF Having
  <1>8. \A v \in Having' : v \in Having /\ v # u /\ has'[v] = has[v]
    BY <1>4, <1>7 DEF Having
  <1>9. \A v \in Having' : \E j \in Lent' : connections'[j].client = has'[v]
    <2> TAKE v \in Having'
    <2>1. PICK j \in Lent : cs[j].client = has[v]
      BY <1>4, <1>8
    <2>2. j # i /\ j \in DOMAIN cs
      BY <1>1, <1>4, <1>8, <2>1 DEF Lent
    <2> QED
      BY <1>5, <1>6, <1>8, <2>1, <2>2
  <1>10. \A v, w \in Having' : has'[v] = has'[w] => v = w
    BY <1>4, <1>8
  <1>11. has' \in [Users -> Clients \cup {NoClient}]
    BY <1>4
  <1>12. Cardinality(Lent') = Cardinality(Lent) - 1
    BY <1>1, <1>6, PoolFacts, FS_RemoveElement
  <1>13. Cardinality(IdleSlots') = Cardinality(IdleSlots) + (IF slot.status = "IDLE" THEN 1 ELSE 0)
    <2>1. CASE slot.status = "IDLE"
      BY <2>1, <1>6, PoolFacts, FS_AddElement
    <2>2. CASE slot.status # "IDLE"
      BY <2>2, <1>6, PoolFacts
    <2> QED
      BY <2>1, <2>2
  <1> QED
    BY <1>5, <1>9, <1>10, <1>11, <1>12, <1>13

LEMMA GiveBackStep ==
  ASSUME PoolInv, NEW u \in Users, connection_pool_return_connection(u)
  PROVE  PoolInv' /\ CL!GiveBack(u)
  <1> DEFINE i    == SlotOf(has[u])
             slot == Slot(connections[i].client, "IDLE")
  <1>1. /\ has[u] # NoClient /\ has' = [has EXCEPT ![u] = NoClient]
        /\ connections' = [connections EXCEPT ![i] = slot]
        /\ idle_count' = idle_count + 1 /\ active_count' = active_count - 1
        /\ allocated' = allocated /\ now' = now
    BY DEF connection_pool_return_connection
  <1>2. u \in Having
    BY <1>1 DEF Having
  <1>3. connections[i].client = has[u]
    BY <1>2, SlotOfHeld
  <1>4. /\ now \in 0 .. MAX_TIME /\ has \in [Users -> Clients \cup {NoClient}]
        /\ Len(connections) <= max_size /\ allocated = ClientsOf(connections)
        /\ idle_count = Cardinality(IdleSlots) /\ active_count = Cardinality(Lent)
    BY DEF PoolInv
  <1>5. slot \in PooledConnection /\ slot.client = has[u] /\ slot.status = "IDLE"
    BY <1>1, <1>3, <1>4 DEF Slot, PooledConnection, Status
  <1>6. connections' = [connections EXCEPT ![SlotOf(has[u])] = slot]
    BY <1>1
  <1> HIDE DEF slot, i
  <1>7. /\ has' \in [Users -> Clients \cup {NoClient}]
        /\ \A v \in Having' : \E j \in Lent' : connections'[j].client = has'[v]
        /\ \A v, w \in Having' : has'[v] = has'[w] => v = w
        /\ WellSlotted(connections') /\ Len(connections') = Len(connections)
        /\ ClientsOf(connections') = ClientsOf(connections)
        /\ Cardinality(Lent') = Cardinality(Lent) - 1
        /\ Cardinality(IdleSlots') = Cardinality(IdleSlots) + 1
    BY <1>1, <1>2, <1>5, <1>6, GivingUp
  <1>8. PoolInv'
    BY <1>1, <1>4, <1>7 DEF PoolInv
  <1> QED
    BY <1>1, <1>8 DEF CL!GiveBack

LEMMA CloseStep ==
  ASSUME PoolInv, NEW u \in Users, connection_pool_close_connection(u)
  PROVE  PoolInv' /\ CL!GiveBack(u)
  <1> DEFINE i    == SlotOf(has[u])
             slot == Closed(connections[i])
  <1>1. /\ has[u] # NoClient /\ has' = [has EXCEPT ![u] = NoClient]
        /\ connections' = [connections EXCEPT ![i] = slot]
        /\ active_count' = active_count - (IF connections[i].status = "ACTIVE" THEN 1 ELSE 0)
        /\ idle_count' = idle_count - (IF connections[i].status = "IDLE" THEN 1 ELSE 0)
        /\ allocated' = allocated \ {has[u]} /\ now' = now
    BY DEF connection_pool_close_connection
  <1>2. u \in Having
    BY <1>1 DEF Having
  <1>3. i \in DOMAIN connections /\ connections[i].status = "ACTIVE"
    BY <1>2, SlotOfHeld DEF Lent
  <1>4. /\ now \in 0 .. MAX_TIME /\ Len(connections) <= max_size /\ allocated = ClientsOf(connections)
        /\ idle_count = Cardinality(IdleSlots) /\ active_count = Cardinality(Lent)
    BY DEF PoolInv
  <1>5. slot \in PooledConnection /\ slot.client = NoClient /\ slot.status = "CLOSED"
    BY <1>3, PoolFacts DEF Closed, PooledConnection, Status
  <1>6. connections' = [connections EXCEPT ![SlotOf(has[u])] = slot]
    BY <1>1
  <1>7. active_count' = active_count - 1 /\ idle_count' = idle_count
    BY <1>1, <1>3, <1>4, PoolFacts
  <1> HIDE DEF slot, i
  <1>8. /\ has' \in [Users -> Clients \cup {NoClient}]
        /\ \A v \in Having' : \E j \in Lent' : connections'[j].client = has'[v]
        /\ \A v, w \in Having' : has'[v] = has'[w] => v = w
        /\ WellSlotted(connections') /\ Len(connections') = Len(connections)
        /\ ClientsOf(connections') = ClientsOf(connections) \ {has[u]}
        /\ Cardinality(Lent') = Cardinality(Lent) - 1
        /\ Cardinality(IdleSlots') = Cardinality(IdleSlots)
    <2>1. /\ slot.status # "ACTIVE" /\ slot.status # "IDLE"
          /\ (slot.status = "CLOSED" <=> slot.client = NoClient)
          /\ slot.client \in {has[u], NoClient}
      BY <1>5
    <2>2. /\ has' \in [Users -> Clients \cup {NoClient}]
          /\ \A v \in Having' : \E j \in Lent' : connections'[j].client = has'[v]
          /\ \A v, w \in Having' : has'[v] = has'[w] => v = w
          /\ WellSlotted(connections') /\ Len(connections') = Len(connections)
          /\ slot.client = NoClient => ClientsOf(connections') = ClientsOf(connections) \ {has[u]}
          /\ Cardinality(Lent') = Cardinality(Lent) - 1
          /\ Cardinality(IdleSlots') = Cardinality(IdleSlots) + 0
      BY <1>1, <1>2, <1>5, <1>6, <2>1, GivingUp
    <2>3. Cardinality(IdleSlots) + 0 = Cardinality(IdleSlots)
      BY PoolFacts
    <2> QED
      BY <1>5, <2>2, <2>3
  <1>9. PoolInv'
    BY <1>1, <1>4, <1>7, <1>8 DEF PoolInv
  <1> QED
    BY <1>1, <1>9 DEF CL!GiveBack

\* What expires is idle, so nobody has it.
LEMMA CleanupStep ==
  ASSUME PoolInv, connection_pool_cleanup_idle
  PROVE  PoolInv' /\ \E C \in SUBSET allocated : CL!Expire(C)
  <1> DEFINE cs  == connections
             old == {i \in DOMAIN cs : Expired(cs[i])}
             C   == {cs[i].client : i \in old}
  <1>1. /\ connections' = [i \in DOMAIN cs |-> IF i \in old THEN Closed(cs[i]) ELSE cs[i]]
        /\ allocated' = allocated \ C
        /\ idle_count' = idle_count - Cardinality(old)
        /\ active_count' = active_count /\ has' = has /\ now' = now
    BY DEF connection_pool_cleanup_idle
  <1>2. old \in SUBSET IdleSlots /\ old \subseteq DOMAIN cs
    BY DEF Expired, IdleSlots
  <1>3. /\ now \in 0 .. MAX_TIME /\ Len(cs) <= max_size /\ allocated = ClientsOf(cs)
        /\ has \in [Users -> Clients \cup {NoClient}]
        /\ \A u, v \in Having : has[u] = has[v] => u = v
        /\ \A u \in Having : \E i \in Lent : cs[i].client = has[u]
        /\ idle_count = Cardinality(IdleSlots) /\ active_count = Cardinality(Lent)
    BY DEF PoolInv
  <1> HIDE DEF old
  <1>4. /\ DOMAIN connections' = DOMAIN cs
        /\ \A i \in DOMAIN cs : connections'[i] = IF i \in old THEN Closed(cs[i]) ELSE cs[i]
    BY <1>1
  <1>5. \A i \in DOMAIN cs : /\ Closed(cs[i]) \in PooledConnection
                             /\ Closed(cs[i]).client = NoClient /\ Closed(cs[i]).status = "CLOSED"
    BY PoolFacts DEF Closed, PooledConnection, Status
  <1>6. connections' \in Seq(PooledConnection) /\ Len(connections') = Len(cs)
    BY <1>1, <1>4, <1>5, PoolFacts
  <1>7. WellSlotted(connections')
    BY <1>4, <1>5, <1>6, PoolFacts DEF WellSlotted
  <1>8. \A i \in old : cs[i].status = "IDLE" /\ cs[i].client # NoClient
    BY <1>2, PoolFacts DEF IdleSlots
  <1>9. ClientsOf(connections') = ClientsOf(cs) \ C
    <2>1. ASSUME NEW i \in DOMAIN cs \ old, cs[i].client # NoClient PROVE cs[i].client \notin C
      BY <2>1, <1>2, PoolFacts
    <2> QED
      BY <2>1, <1>4, <1>5 DEF ClientsOf
  <1>10. IdleSlots' = IdleSlots \ old /\ Lent' = Lent
    BY <1>4, <1>5, <1>8 DEF IdleSlots, Lent
  <1>11. Cardinality(IdleSlots') = Cardinality(IdleSlots) - Cardinality(old)
    <2>1. IdleSlots \cap old = old
      BY <1>2
    <2> QED
      BY ZenonT(30), <2>1, <1>10, PoolFacts, FS_Difference
  <1>12. Having' = Having
    BY <1>1 DEF Having
  <1>13. \A u \in Having : \E i \in Lent : connections'[i].client = has[u]
    BY <1>3, <1>4, <1>8 DEF Lent
  <1>14. PoolInv'
    BY <1>1, <1>3, <1>6, <1>7, <1>9, <1>10, <1>11, <1>12, <1>13 DEF PoolInv
  <1>15. C \subseteq allocated
    BY <1>2, <1>3, <1>8 DEF ClientsOf
  <1>16. C \cap CL!Leased = {}
    <2>1. ASSUME NEW u \in Having, NEW i \in old, has[u] = cs[i].client PROVE FALSE
      <3>1. PICK j \in Lent : cs[j].client = has[u]
        BY <1>3
      <3>2. j \in DOMAIN cs /\ cs[j].status = "ACTIVE"
        BY <3>1 DEF Lent
      <3>3. i \in DOMAIN cs
        BY <1>2
      <3>4. j = i
        BY <2>1, <3>1, <3>2, <3>3, <1>8, PoolFacts
      <3> QED
        BY <3>2, <3>4, <1>8
    <2> QED
      BY <2>1 DEF CL!Leased, Having
  <1> QED
    BY <1>1, <1>14, <1>15, <1>16 DEF CL!Expire

\* Every step of the pool keeps the invariant and is a step of the lease.
LEMMA PoolStep ==
  PoolInv /\ [PoolNext]_poolVars => PoolInv' /\ [CL!LeaseNext]_(CL!leaseVars)
  <1> SUFFICES ASSUME PoolInv, [PoolNext]_poolVars
               PROVE  PoolInv' /\ [CL!LeaseNext]_(CL!leaseVars)
    OBVIOUS
  <1>1. ASSUME NEW u \in Users, get_connection_idle(u)
        PROVE  PoolInv' /\ [CL!LeaseNext]_(CL!leaseVars)
    BY <1>1, GetIdleStep DEF CL!LeaseNext
  <1>2. ASSUME NEW u \in Users, get_connection_new(u)
        PROVE  PoolInv' /\ [CL!LeaseNext]_(CL!leaseVars)
    BY <1>2, GetNewStep DEF CL!LeaseNext
  <1>3. ASSUME NEW u \in Users, connection_pool_return_connection(u)
        PROVE  PoolInv' /\ [CL!LeaseNext]_(CL!leaseVars)
    BY <1>3, GiveBackStep DEF CL!LeaseNext
  <1>4. ASSUME NEW u \in Users, connection_pool_close_connection(u)
        PROVE  PoolInv' /\ [CL!LeaseNext]_(CL!leaseVars)
    BY <1>4, CloseStep DEF CL!LeaseNext
  <1>5. CASE connection_pool_cleanup_idle
    BY <1>5, CleanupStep DEF CL!LeaseNext
  <1>6. CASE Tick
    <2>1. now' \in 0 .. MAX_TIME
      BY <1>6, PoolConstants DEF Tick, PoolInv
    <2> QED
      BY <1>6, <2>1 DEF Tick, PoolInv, Having, Lent, IdleSlots, CL!leaseVars
  <1>7. CASE UNCHANGED poolVars
    BY <1>7 DEF poolVars, PoolInv, Having, Lent, IdleSlots, CL!leaseVars
  <1> QED
    BY <1>1, <1>2, <1>3, <1>4, <1>5, <1>6, <1>7 DEF PoolNext

\* The pool of the database lends connections and keeps its counts.
THEOREM DatabasePoolLends == PoolSpec => PoolLends
  <1>1. PoolInv => idle_count = Cardinality(IdleSlots) /\ active_count = Cardinality(Lent)
    BY DEF PoolInv
  <1> QED
    BY PoolInit_Inv, PoolStep, <1>1, PTL DEF PoolSpec, PoolLends, CL!LeaseSpec

\* Both pools implement the lease, for any number of users, connections and steps,
\* and the server keeps its account.
THEOREM PoolsLend == PoolSpec /\ HikariSpec /\ DatabaseServerSpec => ConnectionsAreLent
  BY DatabasePoolLends, SpringPoolLends, ServerAccount DEF ConnectionsAreLent

-----------------------------------------------------------------------------
(* The shutdown of a Spring application: the sort of its beans             *)

\* order holds each index once.
Perm(order, n) ==
    /\ order \in [1 .. n -> 1 .. n]
    /\ \A a, b \in 1 .. n : order[a] = order[b] => a = b
    /\ \A k \in 1 .. n : \E a \in 1 .. n : order[a] = k

\* The elements before i are in their places, and the one at i is none of those
\* behind it up to j does precede.
InPlace(order, keys, i, j) ==
    /\ Perm(order, Len(keys))
    /\ \A a, b \in 1 .. Len(keys) : a < i /\ a < b => keys[order[a]] <= keys[order[b]]
    /\ \A b \in i + 1 .. j : keys[order[i]] <= keys[order[b]]

Exchanged(order, i, j) == [order EXCEPT ![i] = order[j], ![j] = order[i]]

LEMMA ExchangeIs ==
    ASSUME NEW n \in Nat, NEW order, Perm(order, n), NEW i \in 1 .. n, NEW j \in 1 .. n, i # j
    PROVE  /\ Perm(Exchanged(order, i, j), n)
           /\ Exchanged(order, i, j)[i] = order[j] /\ Exchanged(order, i, j)[j] = order[i]
           /\ \A a \in 1 .. n : a # i /\ a # j => Exchanged(order, i, j)[a] = order[a]
<1> DEFINE r == Exchanged(order, i, j)
<1>1. order \in [1 .. n -> 1 .. n] /\ order[i] \in 1 .. n /\ order[j] \in 1 .. n
  BY DEF Perm
<1>3. /\ r \in [1 .. n -> 1 .. n] /\ r[i] = order[j] /\ r[j] = order[i]
      /\ \A a \in 1 .. n : a # i /\ a # j => r[a] = order[a]
  BY <1>1 DEF Exchanged
<1> HIDE DEF r
<1>4. \A a, b \in 1 .. n : r[a] = r[b] => a = b
  <2> SUFFICES ASSUME NEW a \in 1 .. n, NEW b \in 1 .. n, r[a] = r[b] PROVE a = b
    OBVIOUS
  <2> DEFINE at(k) == IF k = i THEN j ELSE IF k = j THEN i ELSE k
  <2>1. at(a) \in 1 .. n /\ at(b) \in 1 .. n /\ r[a] = order[at(a)] /\ r[b] = order[at(b)]
    BY <1>3
  <2>2. at(a) = at(b)
    BY <2>1 DEF Perm
  <2> QED
    BY <2>2
<1>5. \A k \in 1 .. n : \E a \in 1 .. n : r[a] = k
  <2> SUFFICES ASSUME NEW k \in 1 .. n PROVE \E a \in 1 .. n : r[a] = k
    OBVIOUS
  <2>1. PICK a \in 1 .. n : order[a] = k
    BY DEF Perm
  <2> QED
    BY <1>3, <2>1
<1>6. Perm(r, n)
  BY <1>3, <1>4, <1>5 DEF Perm
<1> QED
  BY <1>3, <1>6 DEF r

\* One comparison.
LEMMA ComparisonKeeps ==
    ASSUME NEW keys, NEW n \in Nat, keys \in [1 .. n -> Int], Len(keys) = n,
           NEW i \in 1 .. n, NEW j \in i + 1 .. n, NEW order, InPlace(order, keys, i, j - 1)
    PROVE  InPlace(Exchange(order, keys, i, j), keys, i, j)
<1> DEFINE r == Exchange(order, keys, i, j)
<1>0. i \in Nat /\ j \in Nat /\ i < j /\ j \in 1 .. n /\ j \in i + 1 .. j
  OBVIOUS
<1>1. /\ Perm(order, n) /\ order \in [1 .. n -> 1 .. n]
      /\ \A a, b \in 1 .. n : a < i /\ a < b => keys[order[a]] <= keys[order[b]]
      /\ \A b \in i + 1 .. j - 1 : keys[order[i]] <= keys[order[b]]
  BY DEF InPlace, Perm
<1>9. \A a \in 1 .. n : order[a] \in 1 .. n /\ keys[order[a]] \in Int
  BY <1>1
<1>2. CASE ~ keys[order[i]] > keys[order[j]]
  <2>1. r = order
    BY <1>2 DEF Exchange
  <2>2. \A b \in i + 1 .. j : b = j \/ b \in i + 1 .. j - 1
    BY <1>0
  <2>3. keys[order[i]] <= keys[order[j]]
    BY <1>0, <1>9, <1>2
  <2> QED
    BY <1>1, <2>1, <2>2, <2>3 DEF InPlace
<1>3. CASE keys[order[i]] > keys[order[j]]
  <2>1. /\ Perm(r, n) /\ r[i] = order[j] /\ r[j] = order[i]
        /\ \A a \in 1 .. n : a # i /\ a # j => r[a] = order[a]
    <3>1. r = Exchanged(order, i, j)
      BY <1>3 DEF Exchange, Exchanged
    <3>2. Perm(order, n) /\ j \in 1 .. n /\ i # j
      BY <1>0, <1>1
    <3>3. /\ Perm(Exchanged(order, i, j), n)
          /\ Exchanged(order, i, j)[i] = order[j] /\ Exchanged(order, i, j)[j] = order[i]
          /\ \A a \in 1 .. n : a # i /\ a # j => Exchanged(order, i, j)[a] = order[a]
      BY <3>2, ExchangeIs
    <3> QED
      BY <3>1, <3>3
  <2> HIDE DEF r
  <2>2. ASSUME NEW a \in 1 .. n, NEW b \in 1 .. n, a < i, a < b PROVE keys[r[a]] <= keys[r[b]]
    <3>1. r[a] = order[a]
      BY <1>1, <2>1, <2>2
    <3>2. PICK c \in 1 .. n : a < c /\ r[b] = order[c]
      <4>1. CASE b = i
        BY <1>1, <2>1, <2>2, <4>1
      <4>2. CASE b = j
        BY <1>1, <2>1, <2>2, <4>2
      <4>3. CASE b # i /\ b # j
        BY <2>1, <2>2, <4>3
      <4> QED
        BY <4>1, <4>2, <4>3
    <3> QED
      BY <1>1, <2>2, <3>1, <3>2
  <2>3. ASSUME NEW b \in i + 1 .. j PROVE keys[r[i]] <= keys[r[b]]
    <3>1. CASE b = j
      <4>1. keys[r[i]] = keys[order[j]] /\ keys[r[b]] = keys[order[i]]
        BY <2>1, <3>1
      <4> QED
        BY <1>0, <1>9, <1>3, <4>1
    <3>2. CASE b # j
      <4>1. b \in i + 1 .. j - 1 /\ b \in 1 .. n /\ b # i
        BY <1>1, <2>3, <3>2
      <4>2. r[b] = order[b] /\ keys[order[i]] <= keys[order[b]]
        BY <1>1, <2>1, <3>2, <4>1
      <4>3. keys[r[i]] = keys[order[j]] /\ keys[r[b]] = keys[order[b]]
        BY <2>1, <4>2
      <4>4. {keys[order[i]], keys[order[j]], keys[order[b]]} \subseteq Int
        BY <1>0, <1>9, <4>1
      <4> QED
        BY <1>3, <4>2, <4>3, <4>4
    <3> QED
      BY <3>1, <3>2
  <2> QED
    BY <2>1, <2>2, <2>3 DEF InPlace, r
<1> QED
  BY <1>2, <1>3

LEMMA PassEnds ==
    ASSUME NEW keys, NEW n \in Nat, keys \in [1 .. n -> Int], Len(keys) = n,
           NEW i \in 1 .. n, NEW order, InPlace(order, keys, i, n)
    PROVE  InPlace(order, keys, i + 1, i + 1)
<1>1. /\ Perm(order, n) /\ \A b \in i + 1 .. n : keys[order[i]] <= keys[order[b]]
      /\ \A a, b \in 1 .. n : a < i /\ a < b => keys[order[a]] <= keys[order[b]]
  BY DEF InPlace
<1>2. ASSUME NEW a \in 1 .. n, NEW b \in 1 .. n, a < i + 1, a < b
      PROVE  keys[order[a]] <= keys[order[b]]
  <2>1. CASE a = i
    <3>1. b \in i + 1 .. n
      BY <1>2, <2>1
    <3> QED
      BY <1>1, <2>1, <3>1
  <2>2. CASE a # i
    BY <1>1, <1>2, <2>2
  <2> QED
    BY <2>1, <2>2
<1>3. \A b \in (i + 1) + 1 .. i + 1 : FALSE
  OBVIOUS
<1> QED
  BY <1>1, <1>2, <1>3 DEF InPlace

\* f holds order[] after the comparisons of the element at i up to m.
Compares(f, order, keys, i, m) ==
    f = [j \in i .. m |-> IF j = i THEN order ELSE Exchange(f[j - 1], keys, i, j)]

LEMMA ComparesExists ==
    ASSUME NEW order, NEW keys, NEW i \in Nat, NEW m \in Nat, i <= m
    PROVE  \E f : Compares(f, order, keys, i, m)
<1> DEFINE next(o, j) == Exchange(o, keys, i, j)
           T == {k \in Nat : i <= k /\ ~ \E f : Compares(f, order, keys, i, k)}
<1>1. \A f, k : Compares(f, order, keys, i, k)
                   <=> f = [j \in i .. k |-> IF j = i THEN order ELSE next(f[j - 1], j)]
  BY DEF Compares
<1> HIDE DEF next
<1> SUFFICES ASSUME T # {} PROVE FALSE
  OBVIOUS
<1>2. PICK k \in T : \A l \in T : k <= l
  BY Least
<1>3. CASE k = i
  <2> DEFINE f == [j \in i .. i |-> order]
  <2>1. f = [j \in i .. i |-> IF j = i THEN order ELSE next(f[j - 1], j)]
    OBVIOUS
  <2>2. Compares(f, order, keys, i, i)
    BY <1>1, <2>1
  <2> QED
    BY <1>3, <2>2
<1>4. CASE k # i
  <2>1. k - 1 \in Nat /\ i <= k - 1 /\ k - 1 \notin T
    BY <1>2, <1>4
  <2>2. PICK f : Compares(f, order, keys, i, k - 1)
    BY <2>1
  <2> DEFINE g == [j \in i .. k |-> IF j < k THEN f[j] ELSE next(f[k - 1], k)]
  <2>3. ASSUME NEW j \in i .. k
        PROVE  g[j] = IF j = i THEN order ELSE next(g[j - 1], j)
    <3>1. CASE j = k
      <4>1. g[j] = next(f[k - 1], k) /\ g[k - 1] = f[k - 1]
        BY <2>1, <3>1
      <4> QED
        BY <1>4, <3>1, <4>1
    <3>2. CASE j # k
      <4>1. j \in i .. k - 1 /\ g[j] = f[j] /\ (j # i => g[j - 1] = f[j - 1])
        BY <2>1, <3>2
      <4>2. f[j] = IF j = i THEN order ELSE next(f[j - 1], j)
        BY <1>1, <2>2, <4>1
      <4> QED
        BY <4>1, <4>2
    <3> QED
      BY <3>1, <3>2
  <2>4. Compares(g, order, keys, i, k)
    BY <1>1, <2>3
  <2> QED
    BY <2>4
<1> QED
  BY <1>3, <1>4

LEMMA PassIs ==
    ASSUME NEW keys, NEW n \in Nat, keys \in [1 .. n -> Int], Len(keys) = n,
           NEW i \in 1 .. n, NEW order, InPlace(order, keys, i, i)
    PROVE  InPlace(Pass(order, keys, i), keys, i + 1, i + 1)
<1> DEFINE f == CHOOSE f : Compares(f, order, keys, i, n)
<1>0. i \in Nat /\ i <= n
  OBVIOUS
<1>1. Compares(f, order, keys, i, n)
  BY <1>0, ComparesExists
<1>2. Pass(order, keys, i) = f[n]
  BY DEF Pass, Compares
<1> HIDE DEF f
<1>3. f[i] = order
  BY <1>1 DEF Compares
<1>4. \A j \in i + 1 .. n : f[j] = Exchange(f[j - 1], keys, i, j)
  BY <1>1 DEF Compares
<1> DEFINE T == {j \in i .. n : ~ InPlace(f[j], keys, i, j)}
<1>5. T = {}
  <2> SUFFICES ASSUME T # {} PROVE FALSE
    OBVIOUS
  <2>1. T \subseteq Nat
    OBVIOUS
  <2>2. PICK j \in T : \A k \in T : j <= k
    BY <2>1, Least
  <2>3. CASE j = i
    BY <1>3, <2>3
  <2>4. CASE j # i
    <3>1. j \in i + 1 .. n /\ j - 1 \in i .. n /\ j - 1 \notin T
      BY <2>2, <2>4
    <3>2. InPlace(f[j - 1], keys, i, j - 1)
      BY <3>1
    <3>3. InPlace(Exchange(f[j - 1], keys, i, j), keys, i, j)
      BY <3>1, <3>2, ComparisonKeeps
    <3>4. InPlace(f[j], keys, i, j)
      BY <1>4, <3>1, <3>3
    <3> QED
      BY <3>4
  <2> QED
    BY <2>3, <2>4
<1>6. InPlace(f[n], keys, i, n)
  BY <1>5
<1> QED
  BY <1>2, <1>6, PassEnds

\* f holds order[] after the first i passes.
Passes(f, keys, m) ==
    f = [i \in 0 .. m |-> IF i = 0 THEN [k \in 1 .. Len(keys) |-> k] ELSE Pass(f[i - 1], keys, i)]

LEMMA PassesExists ==
    ASSUME NEW keys, NEW m \in Nat
    PROVE  \E f : Passes(f, keys, m)
<1> DEFINE id == [k \in 1 .. Len(keys) |-> k]
           next(o, i) == Pass(o, keys, i)
           T == {k \in Nat : ~ \E f : Passes(f, keys, k)}
<1>1. \A f, k : Passes(f, keys, k) <=> f = [i \in 0 .. k |-> IF i = 0 THEN id ELSE next(f[i - 1], i)]
  BY DEF Passes
<1> HIDE DEF next, id
<1> SUFFICES ASSUME T # {} PROVE FALSE
  OBVIOUS
<1>2. PICK k \in T : \A l \in T : k <= l
  BY Least
<1>3. CASE k = 0
  <2> DEFINE f == [j \in 0 .. 0 |-> id]
  <2>1. f = [j \in 0 .. 0 |-> IF j = 0 THEN id ELSE next(f[j - 1], j)]
    OBVIOUS
  <2>2. Passes(f, keys, 0)
    BY <1>1, <2>1
  <2> QED
    BY <1>3, <2>2
<1>4. CASE k # 0
  <2>1. k - 1 \in Nat /\ k - 1 \notin T
    BY <1>2, <1>4
  <2>2. PICK f : Passes(f, keys, k - 1)
    BY <2>1
  <2> DEFINE g == [j \in 0 .. k |-> IF j < k THEN f[j] ELSE next(f[k - 1], k)]
  <2>3. ASSUME NEW j \in 0 .. k
        PROVE  g[j] = IF j = 0 THEN id ELSE next(g[j - 1], j)
    <3>1. CASE j = k
      <4>1. g[j] = next(f[k - 1], k) /\ g[k - 1] = f[k - 1]
        BY <2>1, <3>1
      <4> QED
        BY <1>4, <3>1, <4>1
    <3>2. CASE j # k
      <4>1. j \in 0 .. k - 1 /\ g[j] = f[j] /\ (j # 0 => g[j - 1] = f[j - 1])
        BY <2>1, <3>2
      <4>2. f[j] = IF j = 0 THEN id ELSE next(f[j - 1], j)
        BY <1>1, <2>2, <4>1
      <4> QED
        BY <4>1, <4>2
    <3> QED
      BY <3>1, <3>2
  <2>4. Passes(g, keys, k)
    BY <1>1, <2>3
  <2> QED
    BY <2>4
<1> QED
  BY <1>3, <1>4

\* The exchange sort sorts: each index once, and no key before a smaller one.
LEMMA SortedIs ==
    ASSUME NEW keys, NEW n \in Nat, keys \in [1 .. n -> Int], Len(keys) = n
    PROVE  /\ Perm(Sorted(keys), n)
           /\ \A a, b \in 1 .. n : a < b => keys[Sorted(keys)[a]] <= keys[Sorted(keys)[b]]
<1> DEFINE f == CHOOSE f : Passes(f, keys, n)
<1>1. Passes(f, keys, n)
  BY PassesExists
<1>2. Sorted(keys) = f[n]
  BY DEF Sorted, Passes
<1> HIDE DEF f
<1>3. f[0] = [k \in 1 .. n |-> k]
  BY <1>1 DEF Passes
<1>4. ASSUME NEW i \in 1 .. n PROVE f[i] = Pass(f[i - 1], keys, i)
  <2>1. i \in 0 .. n /\ i # 0
    OBVIOUS
  <2> QED
    BY <1>1, <2>1 DEF Passes
<1> DEFINE T == {i \in 0 .. n : ~ InPlace(f[i], keys, i + 1, i + 1)}
<1>5. T = {}
  <2> SUFFICES ASSUME T # {} PROVE FALSE
    OBVIOUS
  <2>1. T \subseteq Nat
    OBVIOUS
  <2>2. PICK i \in T : \A k \in T : i <= k
    BY <2>1, Least
  <2>3. CASE i = 0
    <3>1. Perm(f[0], n)
      BY <1>3 DEF Perm
    <3>2. InPlace(f[0], keys, 1, 1)
      BY <3>1 DEF InPlace
    <3> QED
      BY <2>3, <3>2
  <2>4. CASE i # 0
    <3>1. i \in 1 .. n /\ i - 1 \in 0 .. n /\ i - 1 \notin T /\ (i - 1) + 1 = i
      BY <2>2, <2>4
    <3>2. InPlace(f[i - 1], keys, i, i)
      BY <3>1
    <3>3. InPlace(Pass(f[i - 1], keys, i), keys, i + 1, i + 1)
      BY <3>1, <3>2, PassIs
    <3>4. InPlace(f[i], keys, i + 1, i + 1)
      BY <1>4, <3>1, <3>3
    <3> QED
      BY <3>4
  <2> QED
    BY <2>3, <2>4
<1>6. InPlace(f[n], keys, n + 1, n + 1)
  BY <1>5
<1> QED
  BY <1>2, <1>6 DEF InPlace

-----------------------------------------------------------------------------
(* The order of the shutdown                                               *)

\* s holds indexes of keys, none twice, with keys that do not fall.
Orders(s, keys) ==
    /\ s \in Seq(Nat) /\ ToSet(s) \subseteq DOMAIN keys
    /\ \A i, j \in DOMAIN s : s[i] = s[j] => i = j
    /\ \A i, j \in DOMAIN s : i < j => keys[s[i]] <= keys[s[j]]

StartKeys   == [b \in DOMAIN lifecycle |-> PhaseOf(b)]
StopKeys    == [b \in DOMAIN lifecycle |-> - PhaseOf(b)]
DestroyKeys == [d \in DOMAIN destroyables |-> - destroyables[d]]

\* The beans that run are those that were started, until they are stopped.
StartedRun ==
    hook \in {"serving", "drain", "stop"} =>
        \A b \in DOMAIN lifecycle : lifecycle[b].running <=> b \in ToSet(log.started)

GraceIsGiven ==
    hook \in {"stop", "destroy", "done"} => (tracker.active_count > 0 => waited = GRACE_PERIODS)

StartedStop ==
    hook \in {"destroy", "done"} =>
        Orders(log.stopped, StopKeys) /\ ToSet(log.stopped) = ToSet(log.started)

AllDestroyed ==
    hook = "done" =>
        Orders(log.destroyed, DestroyKeys) /\ ToSet(log.destroyed) = DOMAIN destroyables

ShutdownInv ==
    /\ ShutdownTypeOK /\ Orders(log.started, StartKeys)
    /\ StartedRun /\ GraceIsGiven /\ StartedStop /\ AllDestroyed

LEMMA SortedOrders ==
    ASSUME NEW n \in Nat, NEW keys \in [1 .. n -> Int]
    PROVE  Orders(Sorted(keys), keys) /\ ToSet(Sorted(keys)) = 1 .. n
<1> DEFINE s == Sorted(keys)
<1>1. Len(keys) = n
  OBVIOUS
<1>2. Perm(s, n) /\ \A a, b \in 1 .. n : a < b => keys[s[a]] <= keys[s[b]]
  BY <1>1, SortedIs
<1> HIDE DEF s
<1>3. s \in [1 .. n -> 1 .. n] /\ DOMAIN s = 1 .. n /\ DOMAIN keys = 1 .. n
  BY <1>2 DEF Perm
<1>4. s \in Seq(Nat)
  BY <1>3
<1>5. ToSet(s) = 1 .. n
  BY <1>2, <1>3 DEF Perm, ToSet
<1>6. Orders(s, keys)
  BY <1>2, <1>3, <1>4, <1>5 DEF Perm, Orders
<1> QED
  BY <1>5, <1>6 DEF s

LEMMA SelectionOrders ==
    ASSUME NEW keys, NEW s, Orders(s, keys), NEW I
    PROVE  /\ Orders(Selection(s, I), keys)
           /\ \A x : x \in ToSet(Selection(s, I)) <=> \E i \in DOMAIN s : i \in I /\ x = s[i]
<1> DEFINE t == Selection(s, I)
<1>1. s \in Seq(Nat)
  BY DEF Orders
<1>2. t \in Seq(Nat) /\ \E at : Picks(at, t, s, I, Len(s))
  BY <1>1, SelectionIs
<1> HIDE DEF t
<1>3. PICK at : Picks(at, t, s, I, Len(s))
  BY <1>2
<1>4. /\ DOMAIN s = 1 .. Len(s) /\ DOMAIN t = 1 .. Len(t) /\ Len(s) \in Nat /\ Len(t) \in Nat
  BY <1>1, <1>2, LenProperties
<1>5. /\ \A k \in DOMAIN t : at[k] \in DOMAIN s /\ at[k] \in I /\ t[k] = s[at[k]]
      /\ \A j, k \in DOMAIN t : j < k => at[j] < at[k]
      /\ \A i \in DOMAIN s : i \in I => \E k \in DOMAIN t : at[k] = i
  BY <1>3, <1>4 DEF Picks
<1>6. \A x : x \in ToSet(t) <=> \E i \in DOMAIN s : i \in I /\ x = s[i]
  BY <1>5 DEF ToSet
<1>7. ToSet(t) \subseteq DOMAIN keys
  BY <1>6 DEF Orders, ToSet
<1>8. ASSUME NEW j \in DOMAIN t, NEW k \in DOMAIN t, t[j] = t[k], j # k PROVE FALSE
  <2>1. at[j] = at[k]
    BY <1>5, <1>8 DEF Orders
  <2>2. j < k \/ k < j
    BY <1>4, <1>8
  <2>3. at[j] \in Nat /\ at[k] \in Nat
    BY <1>4, <1>5
  <2> QED
    BY <1>5, <2>1, <2>2, <2>3
<1>9. ASSUME NEW j \in DOMAIN t, NEW k \in DOMAIN t, j < k PROVE keys[t[j]] <= keys[t[k]]
  BY <1>5, <1>9 DEF Orders
<1>10. Orders(t, keys)
  BY <1>2, <1>7, <1>8, <1>9 DEF Orders
<1> QED
  BY <1>6, <1>10 DEF t

\* Where the keys differ they say what is before what.
LEMMA BeforeIs ==
    ASSUME NEW s, NEW keys, Orders(s, keys), NEW a \in ToSet(s), NEW b \in ToSet(s),
           keys[a] \in Int, keys[b] \in Int, keys[a] # keys[b]
    PROVE  Before(s, a, b) <=> keys[a] < keys[b]
<1>1. s \in Seq(Nat) /\ DOMAIN s = 1 .. Len(s) /\ Len(s) \in Nat
  BY LenProperties DEF Orders
<1>2. ASSUME Before(s, a, b) PROVE keys[a] < keys[b]
  <2>1. PICK i \in DOMAIN s, j \in DOMAIN s : i < j /\ s[i] = a /\ s[j] = b
    BY <1>2 DEF Before
  <2>2. keys[a] <= keys[b]
    BY <2>1 DEF Orders
  <2> QED
    BY <2>2
<1>3. ASSUME keys[a] < keys[b] PROVE Before(s, a, b)
  <2>1. PICK i \in DOMAIN s, j \in DOMAIN s : s[i] = a /\ s[j] = b
    BY DEF ToSet
  <2>2. ~ (j < i)
    <3> SUFFICES ASSUME j < i PROVE FALSE
      OBVIOUS
    <3>1. keys[b] <= keys[a]
      BY <2>1 DEF Orders
    <3> QED
      BY <1>3, <3>1
  <2>3. i # j
    BY <2>1
  <2>4. i < j
    BY <1>1, <2>2, <2>3
  <2> QED
    BY <2>1, <2>4 DEF Before
<1> QED
  BY <1>2, <1>3

\* What is listed once is counted by its list.
LEMMA OrdersCount ==
    ASSUME NEW s, NEW keys, Orders(s, keys)
    PROVE  Len(s) = Cardinality(ToSet(s))
<1>1. s \in Seq(Nat) /\ DOMAIN s = 1 .. Len(s) /\ Len(s) \in Nat
  BY LenProperties DEF Orders
<1>2. s \in [1 .. Len(s) -> ToSet(s)]
  BY <1>1 DEF ToSet
<1>3. s \in Bijection(1 .. Len(s), ToSet(s))
  <2>1. \A i, j \in 1 .. Len(s) : s[i] = s[j] => i = j
    BY <1>1 DEF Orders
  <2>2. \A x \in ToSet(s) : \E i \in 1 .. Len(s) : s[i] = x
    BY <1>1 DEF ToSet
  <2> QED
    BY <1>2, <2>1, <2>2, Fun_IsBij
<1>4. ExistsBijection(1 .. Len(s), ToSet(s))
  BY <1>3, Fun_ExistsBij
<1> QED
  BY <1>1, <1>4, FS_CountingElements

-----------------------------------------------------------------------------
(* The steps                                                               *)

LEMMA KeysAre ==
    ASSUME ShutdownTypeOK
    PROVE  /\ Len(lifecycle) \in Nat /\ DOMAIN lifecycle = 1 .. Len(lifecycle)
           /\ StartKeys \in [DOMAIN lifecycle -> Int] /\ StopKeys \in [DOMAIN lifecycle -> Int]
           /\ \A b \in DOMAIN lifecycle : /\ PhaseOf(b) \in Phases /\ PhaseOf(b) \in Int
                                          /\ StartKeys[b] = PhaseOf(b) /\ StopKeys[b] = - PhaseOf(b)
           /\ Len(destroyables) \in Nat /\ DOMAIN destroyables = 1 .. Len(destroyables)
           /\ DestroyKeys \in [DOMAIN destroyables -> Int]
           /\ \A d \in DOMAIN destroyables : destroyables[d] \in Nat /\ DestroyKeys[d] = - destroyables[d]
<1>1. lifecycle \in Seq([phase : Phases, running : BOOLEAN]) /\ destroyables \in Seq(Nat)
  BY DEF ShutdownTypeOK
<1>2. /\ Len(lifecycle) \in Nat /\ DOMAIN lifecycle = 1 .. Len(lifecycle)
      /\ Len(destroyables) \in Nat /\ DOMAIN destroyables = 1 .. Len(destroyables)
  BY <1>1, LenProperties
<1>3. ASSUME NEW b \in DOMAIN lifecycle PROVE PhaseOf(b) \in Phases /\ PhaseOf(b) \in Int
  <2>1. lifecycle[b] \in [phase : Phases, running : BOOLEAN]
    BY <1>1, <1>2, ElementOfSeq
  <2> QED
    BY <2>1, ShutdownConstants DEF PhaseOf
<1>4. \A d \in DOMAIN destroyables : destroyables[d] \in Nat
  BY <1>1, <1>2, ElementOfSeq
<1>5. /\ StartKeys \in [DOMAIN lifecycle -> Int] /\ StopKeys \in [DOMAIN lifecycle -> Int]
      /\ \A b \in DOMAIN lifecycle : StartKeys[b] = PhaseOf(b) /\ StopKeys[b] = - PhaseOf(b)
  BY <1>3 DEF StartKeys, StopKeys
<1>6. /\ DestroyKeys \in [DOMAIN destroyables -> Int]
      /\ \A d \in DOMAIN destroyables : DestroyKeys[d] = - destroyables[d]
  BY <1>4 DEF DestroyKeys
<1> QED
  BY <1>2, <1>3, <1>4, <1>5, <1>6

\* An order stands when the keys of what it lists do.
LEMMA OrdersStand ==
    ASSUME NEW s, NEW keys, NEW new, Orders(s, keys), DOMAIN keys \subseteq DOMAIN new,
           \A b \in DOMAIN keys : new[b] = keys[b]
    PROVE  Orders(s, new)
<1>1. \A i \in DOMAIN s : s[i] \in DOMAIN keys
  BY DEF Orders, ToSet
<1> QED
  BY <1>1 DEF Orders

\* The phases of the beans are theirs for good.
LEMMA KeysStand ==
    ASSUME ShutdownTypeOK, DOMAIN lifecycle' = DOMAIN lifecycle,
           \A b \in DOMAIN lifecycle : lifecycle'[b].phase = lifecycle[b].phase
    PROVE  StartKeys' = StartKeys /\ StopKeys' = StopKeys
BY DEF StartKeys, StopKeys, PhaseOf

LEMMA SetRunning ==
    ASSUME ShutdownTypeOK, NEW on \in BOOLEAN,
           lifecycle' = [b \in DOMAIN lifecycle |-> [lifecycle[b] EXCEPT !.running = on]]
    PROVE  /\ lifecycle' \in Seq([phase : Phases, running : BOOLEAN])
           /\ DOMAIN lifecycle' = DOMAIN lifecycle
           /\ \A b \in DOMAIN lifecycle : lifecycle'[b].running = on
           /\ StartKeys' = StartKeys /\ StopKeys' = StopKeys
<1>1. /\ Len(lifecycle) \in Nat /\ DOMAIN lifecycle = 1 .. Len(lifecycle)
      /\ lifecycle \in Seq([phase : Phases, running : BOOLEAN])
  BY KeysAre DEF ShutdownTypeOK
<1>2. ASSUME NEW b \in DOMAIN lifecycle
      PROVE  /\ lifecycle'[b] \in [phase : Phases, running : BOOLEAN]
             /\ lifecycle'[b].phase = lifecycle[b].phase /\ lifecycle'[b].running = on
  <2>1. lifecycle[b] \in [phase : Phases, running : BOOLEAN]
    BY <1>1, ElementOfSeq
  <2>2. lifecycle'[b] = [lifecycle[b] EXCEPT !.running = on]
    OBVIOUS
  <2> QED
    BY <2>1, <2>2
<1>3. lifecycle' \in [1 .. Len(lifecycle) -> [phase : Phases, running : BOOLEAN]]
  BY <1>1, <1>2
<1>4. DOMAIN lifecycle' = DOMAIN lifecycle
  OBVIOUS
<1>5. StartKeys' = StartKeys /\ StopKeys' = StopKeys
  BY <1>2, <1>4, KeysStand
<1>6. lifecycle' \in Seq([phase : Phases, running : BOOLEAN])
  BY <1>1, <1>3
<1> QED
  BY <1>2, <1>4, <1>5, <1>6

LEMMA ShutdownInitInv == ShutdownInit => ShutdownInv
<1> SUFFICES ASSUME ShutdownInit PROVE ShutdownInv
  OBVIOUS
<1>1. lifecycle = << >> /\ destroyables = << >> /\ hook = "serving" /\ log.started = << >>
  BY DEF ShutdownInit
<1>2. ShutdownTypeOK
  BY <1>1, ShutdownConstants DEF ShutdownInit, ShutdownTypeOK
<1>3. Orders(log.started, StartKeys)
  <2>1. << >> \in Seq(Nat) /\ DOMAIN << >> = {} /\ ToSet(<< >>) = {}
    BY DEF ToSet
  <2> QED
    BY <1>1, <2>1 DEF Orders
<1>4. StartedRun
  BY <1>1 DEF StartedRun
<1> QED
  BY <1>1, <1>2, <1>3, <1>4 DEF ShutdownInv, GraceIsGiven, StartedStop, AllDestroyed

\* Requests come and go, and the hook waits for them.
LEMMA RequestsInv ==
    ASSUME ShutdownInv, request_accept \/ request_complete \/ Pause \/ Drain
    PROVE  ShutdownInv'
<1>1. /\ ShutdownTypeOK /\ UNCHANGED <<lifecycle, destroyables, log>>
      /\ Orders(log.started, StartKeys) /\ StartedRun
      /\ tracker \in [active_count : Nat, total_received : Nat, accepting : BOOLEAN]
      /\ waited \in 0 .. GRACE_PERIODS
  BY DEF ShutdownInv, ShutdownTypeOK, request_accept, request_complete, Pause, Drain
<1>2. StartKeys' = StartKeys
  BY <1>1 DEF StartKeys, PhaseOf
<1>3. Orders(log'.started, StartKeys')
  BY <1>1, <1>2
<1>4. /\ hook \in {"serving", "drain"} /\ hook' \in {"serving", "drain", "stop"}
      /\ hook' = "stop" => hook = "drain"
  BY DEF request_accept, request_complete, Pause, Drain
<1>5. StartedRun'
  BY <1>1, <1>4 DEF StartedRun
<1>6. StartedStop' /\ AllDestroyed'
  BY <1>4 DEF StartedStop, AllDestroyed
<1>7. /\ tracker' \in [active_count : Nat, total_received : Nat, accepting : BOOLEAN]
      /\ waited' \in 0 .. GRACE_PERIODS
      /\ hook' = "stop" => (tracker'.active_count > 0 => waited' = GRACE_PERIODS)
  <2>0. GRACE_PERIODS \in Nat
    BY ShutdownConstants
  <2>1. CASE request_accept
    <3>1. /\ tracker' = [tracker EXCEPT !.active_count = @ + 1, !.total_received = @ + 1]
          /\ waited' = waited /\ hook' = "serving"
      BY <2>1 DEF request_accept
    <3>2. tracker' \in [active_count : Nat, total_received : Nat, accepting : BOOLEAN]
      <4>1. /\ DOMAIN tracker = {"active_count", "total_received", "accepting"}
            /\ tracker.active_count + 1 \in Nat /\ tracker.total_received + 1 \in Nat
        BY <1>1
      <4>2. tracker' = [active_count |-> tracker.active_count + 1,
                        total_received |-> tracker.total_received + 1,
                        accepting |-> tracker.accepting]
        BY <1>1, <3>1, <4>1
      <4> QED
        BY <1>1, <4>1, <4>2
    <3> QED
      BY <1>1, <3>1, <3>2
  <2>2. CASE request_complete
    BY <1>1, <2>2 DEF request_complete
  <2>3. CASE Pause
    BY <1>1, <2>3 DEF Pause
  <2>4. CASE Drain
    <3>1. CASE tracker.active_count > 0 /\ waited < GRACE_PERIODS
      BY <1>1, <2>0, <2>4, <3>1 DEF Drain
    <3>2. CASE ~ (tracker.active_count > 0 /\ waited < GRACE_PERIODS)
      BY <1>1, <2>0, <2>4, <3>2 DEF Drain
    <3> QED
      BY <3>1, <3>2
  <2> QED
    BY <2>1, <2>2, <2>3, <2>4
<1>8. GraceIsGiven'
  BY <1>4, <1>7 DEF GraceIsGiven
<1>9. ShutdownTypeOK'
  BY <1>1, <1>4, <1>7 DEF ShutdownTypeOK
<1> QED
  BY <1>3, <1>5, <1>6, <1>8, <1>9 DEF ShutdownInv

LEMMA RegisterInv ==
    ASSUME ShutdownInv, NEW p \in Phases, lifecycle_register(p)
    PROVE  ShutdownInv'
<1> DEFINE n == Len(lifecycle)
           added == [phase |-> p, running |-> FALSE]
<1>1. /\ ShutdownTypeOK /\ Orders(log.started, StartKeys) /\ StartedRun
      /\ lifecycle \in Seq([phase : Phases, running : BOOLEAN])
      /\ added \in [phase : Phases, running : BOOLEAN] /\ added.running = FALSE
      /\ lifecycle' = Append(lifecycle, added) /\ hook = "serving"
      /\ UNCHANGED <<tracker, destroyables, hook, waited, log>>
  BY DEF ShutdownInv, ShutdownTypeOK, lifecycle_register
<1> HIDE DEF added
<1>2. /\ n \in Nat /\ DOMAIN lifecycle = 1 .. n /\ DOMAIN lifecycle' = 1 .. n + 1
      /\ lifecycle' \in Seq([phase : Phases, running : BOOLEAN])
      /\ \A b \in 1 .. n : lifecycle'[b] = lifecycle[b]
      /\ lifecycle'[n + 1] = added
  BY <1>1, LenProperties, AppendProperties
<1>3. ShutdownTypeOK'
  BY <1>1, <1>2 DEF ShutdownTypeOK
<1>4. Orders(log.started, StartKeys')
  <2>1. DOMAIN StartKeys = 1 .. n /\ DOMAIN StartKeys' = 1 .. n + 1
    BY <1>2 DEF StartKeys
  <2>2. \A b \in 1 .. n : StartKeys'[b] = StartKeys[b]
    BY <1>2 DEF StartKeys, PhaseOf
  <2> QED
    BY <1>1, <1>2, <2>1, <2>2, OrdersStand
<1>5. StartedRun'
  <2>1. \A b \in ToSet(log.started) : b \in 1 .. n
    BY <1>1, <1>2 DEF Orders, StartKeys
  <2>2. n + 1 \notin ToSet(log.started)
    BY <1>2, <2>1
  <2>3. \A b \in 1 .. n + 1 : b \in 1 .. n \/ b = n + 1
    BY <1>2
  <2>4. \A b \in 1 .. n + 1 : lifecycle'[b].running <=> b \in ToSet(log.started)
    <3>1. \A b \in 1 .. n : lifecycle'[b].running <=> b \in ToSet(log.started)
      BY <1>1, <1>2 DEF StartedRun
    <3>2. lifecycle'[n + 1].running = FALSE
      BY <1>1, <1>2
    <3> QED
      BY <2>2, <2>3, <3>1, <3>2
  <2> QED
    BY <1>1, <1>2, <2>4 DEF StartedRun
<1>6. Orders(log.started, StartKeys)'
  BY <1>1, <1>4
<1> QED
  BY <1>1, <1>3, <1>5, <1>6 DEF ShutdownInv, GraceIsGiven, StartedStop, AllDestroyed

LEMMA DestroyRegisterInv ==
    ASSUME ShutdownInv, NEW order \in 1 .. MAX_DESTROYABLE, destroy_register(order)
    PROVE  ShutdownInv'
<1>1. /\ ShutdownTypeOK /\ Orders(log.started, StartKeys) /\ StartedRun
      /\ destroyables \in Seq(Nat) /\ order \in Nat /\ hook = "serving"
      /\ destroyables' = Append(destroyables, order)
      /\ UNCHANGED <<tracker, lifecycle, hook, waited, log>>
  BY DEF ShutdownInv, ShutdownTypeOK, destroy_register
<1>2. destroyables' \in Seq(Nat)
  BY <1>1, AppendProperties
<1>3. ShutdownTypeOK'
  BY <1>1, <1>2 DEF ShutdownTypeOK
<1>4. Orders(log.started, StartKeys)'
  <2>1. StartKeys' = StartKeys
    BY <1>1 DEF StartKeys, PhaseOf
  <2> QED
    BY <1>1, <2>1
<1>5. StartedRun'
  BY <1>1 DEF StartedRun
<1> QED
  BY <1>1, <1>3, <1>4, <1>5 DEF ShutdownInv, GraceIsGiven, StartedStop, AllDestroyed

LEMMA StartInv ==
    ASSUME ShutdownInv, lifecycle_start_all
    PROVE  ShutdownInv'
<1>1. /\ ShutdownTypeOK /\ hook = "serving"
      /\ lifecycle' = [b \in DOMAIN lifecycle |-> [lifecycle[b] EXCEPT !.running = TRUE]]
      /\ log \in [started : Seq(Nat), stopped : Seq(Nat), destroyed : Seq(Nat)]
      /\ log' = [log EXCEPT !.started = LowestFirst]
      /\ UNCHANGED <<tracker, destroyables, hook, waited>>
  BY DEF ShutdownInv, ShutdownTypeOK, lifecycle_start_all
<1>2. /\ lifecycle' \in Seq([phase : Phases, running : BOOLEAN])
      /\ DOMAIN lifecycle' = DOMAIN lifecycle
      /\ \A b \in DOMAIN lifecycle : lifecycle'[b].running = TRUE
      /\ StartKeys' = StartKeys
  BY <1>1, SetRunning
<1>3. LowestFirst = Sorted(StartKeys)
  BY DEF LowestFirst, StartKeys
<1>4. Orders(LowestFirst, StartKeys) /\ ToSet(LowestFirst) = DOMAIN lifecycle
  BY <1>1, <1>3, KeysAre, SortedOrders
<1>5. /\ log' \in [started : Seq(Nat), stopped : Seq(Nat), destroyed : Seq(Nat)]
      /\ log'.started = LowestFirst
  <2>1. LowestFirst \in Seq(Nat)
    BY <1>4 DEF Orders
  <2> QED
    BY <1>1, <2>1
<1>6. ShutdownTypeOK'
  BY <1>1, <1>2, <1>5 DEF ShutdownTypeOK
<1>7. Orders(log'.started, StartKeys')
  BY <1>2, <1>4, <1>5
<1>8. StartedRun'
  BY <1>2, <1>4, <1>5 DEF StartedRun
<1> QED
  BY <1>1, <1>6, <1>7, <1>8 DEF ShutdownInv, GraceIsGiven, StartedStop, AllDestroyed

LEMMA StopInv ==
    ASSUME ShutdownInv, lifecycle_stop_all
    PROVE  ShutdownInv'
<1>1. /\ ShutdownTypeOK /\ hook = "stop" /\ hook' = "destroy"
      /\ Orders(log.started, StartKeys) /\ StartedRun /\ GraceIsGiven
      /\ lifecycle' = [b \in DOMAIN lifecycle |-> [lifecycle[b] EXCEPT !.running = FALSE]]
      /\ log \in [started : Seq(Nat), stopped : Seq(Nat), destroyed : Seq(Nat)]
      /\ log' = [log EXCEPT !.stopped = Running(HighestFirst)]
      /\ UNCHANGED <<tracker, destroyables, waited>>
  BY DEF ShutdownInv, ShutdownTypeOK, lifecycle_stop_all
<1>2. /\ lifecycle' \in Seq([phase : Phases, running : BOOLEAN])
      /\ StartKeys' = StartKeys /\ StopKeys' = StopKeys
  BY <1>1, SetRunning
<1>3. HighestFirst = Sorted(StopKeys)
  BY DEF HighestFirst, StopKeys
<1>4. Orders(HighestFirst, StopKeys) /\ ToSet(HighestFirst) = DOMAIN lifecycle
  BY <1>1, <1>3, KeysAre, SortedOrders
<1> DEFINE s == HighestFirst
           I == {k \in DOMAIN s : lifecycle[s[k]].running}
<1>5. Running(s) = Selection(s, I)
  BY DEF Running
<1>6. /\ Orders(Running(s), StopKeys)
      /\ \A x : x \in ToSet(Running(s)) <=> \E i \in DOMAIN s : i \in I /\ x = s[i]
  BY <1>4, <1>5, SelectionOrders
<1>7. ToSet(Running(s)) = ToSet(log.started)
  <2>1. \A b \in DOMAIN lifecycle : lifecycle[b].running <=> b \in ToSet(log.started)
    BY <1>1 DEF StartedRun
  <2>2. ToSet(log.started) \subseteq DOMAIN lifecycle
    BY <1>1 DEF Orders, StartKeys
  <2>3. \A b : b \in DOMAIN lifecycle <=> \E i \in DOMAIN s : s[i] = b
    BY <1>4 DEF ToSet
  <2> HIDE DEF s
  <2>4. \A x : x \in ToSet(Running(s)) <=> x \in DOMAIN lifecycle /\ x \in ToSet(log.started)
    BY <1>6, <2>1, <2>3
  <2> QED
    BY <2>2, <2>4
<1>8. /\ log' \in [started : Seq(Nat), stopped : Seq(Nat), destroyed : Seq(Nat)]
      /\ log'.started = log.started /\ log'.stopped = Running(s)
  <2>1. Running(s) \in Seq(Nat)
    BY <1>6 DEF Orders
  <2> QED
    BY <1>1, <2>1
<1>9. ShutdownTypeOK'
  BY <1>1, <1>2, <1>8 DEF ShutdownTypeOK
<1>10. Orders(log'.started, StartKeys')
  BY <1>1, <1>2, <1>8
<1>11. StartedStop'
  BY <1>1, <1>2, <1>6, <1>7, <1>8 DEF StartedStop
<1>12. GraceIsGiven'
  BY <1>1 DEF GraceIsGiven
<1> QED
  BY <1>1, <1>9, <1>10, <1>11, <1>12 DEF ShutdownInv, StartedRun, AllDestroyed

LEMMA DestroyInv ==
    ASSUME ShutdownInv, destroy_all
    PROVE  ShutdownInv'
<1>1. /\ ShutdownTypeOK /\ hook = "destroy" /\ hook' = "done"
      /\ Orders(log.started, StartKeys) /\ GraceIsGiven /\ StartedStop
      /\ log \in [started : Seq(Nat), stopped : Seq(Nat), destroyed : Seq(Nat)]
      /\ log' = [log EXCEPT !.destroyed = Sorted([d \in DOMAIN destroyables |-> - destroyables[d]])]
      /\ UNCHANGED <<tracker, lifecycle, destroyables, waited>>
  BY DEF ShutdownInv, ShutdownTypeOK, destroy_all
<1>2. StartKeys' = StartKeys /\ StopKeys' = StopKeys /\ DestroyKeys' = DestroyKeys
  BY <1>1 DEF StartKeys, StopKeys, DestroyKeys, PhaseOf
<1>3. log' = [log EXCEPT !.destroyed = Sorted(DestroyKeys)]
  BY <1>1 DEF DestroyKeys
<1>4. Orders(Sorted(DestroyKeys), DestroyKeys) /\ ToSet(Sorted(DestroyKeys)) = DOMAIN destroyables
  BY <1>1, KeysAre, SortedOrders
<1>5. /\ log' \in [started : Seq(Nat), stopped : Seq(Nat), destroyed : Seq(Nat)]
      /\ log'.started = log.started /\ log'.stopped = log.stopped
      /\ log'.destroyed = Sorted(DestroyKeys)
  <2>1. Sorted(DestroyKeys) \in Seq(Nat)
    BY <1>4 DEF Orders
  <2> QED
    BY <1>1, <1>3, <2>1
<1>6. ShutdownTypeOK'
  BY <1>1, <1>5 DEF ShutdownTypeOK
<1>7. Orders(log'.started, StartKeys')
  BY <1>1, <1>2, <1>5
<1>8. StartedStop'
  BY <1>1, <1>2, <1>5 DEF StartedStop
<1>9. AllDestroyed'
  BY <1>1, <1>2, <1>4, <1>5 DEF AllDestroyed
<1>10. GraceIsGiven'
  BY <1>1 DEF GraceIsGiven
<1> QED
  BY <1>1, <1>6, <1>7, <1>8, <1>9, <1>10 DEF ShutdownInv, StartedRun

LEMMA ShutdownNextInv == ShutdownInv /\ [ShutdownNext]_shutdownVars => ShutdownInv'
<1> SUFFICES ASSUME ShutdownInv, [ShutdownNext]_shutdownVars PROVE ShutdownInv'
  OBVIOUS
<1>1. CASE request_accept \/ request_complete \/ Pause \/ Drain
  BY <1>1, RequestsInv
<1>2. ASSUME NEW p \in Phases, lifecycle_register(p) PROVE ShutdownInv'
  BY <1>2, RegisterInv
<1>3. ASSUME NEW order \in 1 .. MAX_DESTROYABLE, destroy_register(order) PROVE ShutdownInv'
  BY <1>3, DestroyRegisterInv
<1>4. CASE lifecycle_start_all
  BY <1>4, StartInv
<1>5. CASE lifecycle_stop_all
  BY <1>5, StopInv
<1>6. CASE destroy_all
  BY <1>6, DestroyInv
<1>7. CASE UNCHANGED shutdownVars
  BY <1>7 DEF shutdownVars, ShutdownInv, ShutdownTypeOK, StartedRun, GraceIsGiven, StartedStop,
              AllDestroyed, StartKeys, StopKeys, DestroyKeys, PhaseOf
<1> QED
  BY <1>1, <1>2, <1>3, <1>4, <1>5, <1>6, <1>7 DEF ShutdownNext, graceful_shutdown_run

LEMMA ShutdownInvMirrors == ShutdownInv => ShutdownMirrorsStartup
<1> SUFFICES ASSUME ShutdownInv PROVE ShutdownMirrorsStartup
  OBVIOUS
<1>1. ShutdownTypeOK /\ Orders(log.started, StartKeys)
  BY DEF ShutdownInv
<1>2. ASSUME hook \in {"destroy", "done"}
      PROVE  /\ ToSet(log.stopped) = ToSet(log.started)
             /\ Len(log.stopped) = Len(log.started)
             /\ \A a, b \in ToSet(log.started) : PhaseOf(a) # PhaseOf(b) =>
                   (Before(log.started, a, b) <=> Before(log.stopped, b, a))
             /\ tracker.active_count > 0 => waited = GRACE_PERIODS
  <2>1. Orders(log.stopped, StopKeys) /\ ToSet(log.stopped) = ToSet(log.started)
    BY <1>2 DEF ShutdownInv, StartedStop
  <2>2. Len(log.stopped) = Len(log.started)
    BY <1>1, <2>1, OrdersCount
  <2>3. ASSUME NEW a \in ToSet(log.started), NEW b \in ToSet(log.started), PhaseOf(a) # PhaseOf(b)
        PROVE  Before(log.started, a, b) <=> Before(log.stopped, b, a)
    <3>1. a \in DOMAIN lifecycle /\ b \in DOMAIN lifecycle
      BY <1>1, KeysAre DEF Orders
    <3>2. /\ PhaseOf(a) \in Int /\ StartKeys[a] = PhaseOf(a) /\ StopKeys[a] = - PhaseOf(a)
          /\ PhaseOf(b) \in Int /\ StartKeys[b] = PhaseOf(b) /\ StopKeys[b] = - PhaseOf(b)
      BY <1>1, <3>1, KeysAre
    <3>3. Before(log.started, a, b) <=> StartKeys[a] < StartKeys[b]
      BY <1>1, <2>3, <3>2, BeforeIs
    <3>4. Before(log.stopped, b, a) <=> StopKeys[b] < StopKeys[a]
      <4>1. StopKeys[a] \in Int /\ StopKeys[b] \in Int /\ StopKeys[a] # StopKeys[b]
        BY <2>3, <3>2
      <4> QED
        BY <2>1, <4>1, BeforeIs
    <3>5. StartKeys[a] < StartKeys[b] <=> StopKeys[b] < StopKeys[a]
      BY <3>2
    <3> QED
      BY <3>3, <3>4, <3>5
  <2> QED
    BY <1>2, <2>1, <2>2, <2>3 DEF ShutdownInv, GraceIsGiven
<1>3. ASSUME hook = "done"
      PROVE  /\ ToSet(log.destroyed) = DOMAIN destroyables
             /\ \A a, b \in DOMAIN destroyables :
                   destroyables[a] < destroyables[b] => Before(log.destroyed, b, a)
  <2>1. Orders(log.destroyed, DestroyKeys) /\ ToSet(log.destroyed) = DOMAIN destroyables
    BY <1>3 DEF ShutdownInv, AllDestroyed
  <2>2. ASSUME NEW a \in DOMAIN destroyables, NEW b \in DOMAIN destroyables,
               destroyables[a] < destroyables[b]
        PROVE  Before(log.destroyed, b, a)
    <3>1. /\ destroyables[a] \in Nat /\ DestroyKeys[a] = - destroyables[a]
          /\ destroyables[b] \in Nat /\ DestroyKeys[b] = - destroyables[b]
      BY <1>1, KeysAre
    <3>2. /\ DestroyKeys[a] \in Int /\ DestroyKeys[b] \in Int
          /\ DestroyKeys[b] < DestroyKeys[a] /\ DestroyKeys[b] # DestroyKeys[a]
      BY <2>2, <3>1
    <3> QED
      BY <2>1, <3>2, BeforeIs
  <2> QED
    BY <2>1, <2>2
<1> QED
  BY <1>2, <1>3 DEF ShutdownMirrorsStartup

\* The shutdown is the mirror of the startup, for any number of beans, phases and
\* requests: lifecycle_start_all, lifecycle_stop_all, destroy_all and
\* graceful_shutdown_run of shutdown_hook.c.
THEOREM ShutdownIsMirrored == ShutdownSpec => []ShutdownMirrorsStartup
<1>1. ShutdownSpec => []ShutdownInv
  BY ShutdownInitInv, ShutdownNextInv, PTL DEF ShutdownSpec
<1> QED
  BY <1>1, ShutdownInvMirrors, PTL

-----------------------------------------------------------------------------
(* The latch                                                               *)

Starting == {s \in Services : service[s] = "starting"}

\* Whoever sleeps has been seen by a service that has yet to wake it.
NoWakeUpIsLost ==
    cond # {} => \E s \in Services : service[s] \in {"starting", "broadcast"}

LatchInv ==
    /\ LatchTypeOK
    /\ count = Cardinality(Starting)
    /\ \A w \in Waiters : waiter[w] = "released" => count = 0
    /\ cond # {} => count > 0 \/ \E s \in Services : service[s] = "broadcast"

LEMMA StartingIsFinite ==
    IsFiniteSet(Starting) /\ Cardinality(Starting) \in Nat
    /\ (Cardinality(Starting) = 0 <=> Starting = {})
<1>1. IsFiniteSet(Services) /\ Starting \subseteq Services
  BY LatchConstants DEF Starting
<1>2. IsFiniteSet(Starting)
  BY <1>1, FS_Subset
<1> QED
  BY <1>2, FS_CardinalityType, FS_EmptySet

LEMMA CountDownStep ==
    ASSUME LatchInv, NEW s \in Services, latch_count_down(s)
    PROVE  LatchInv'
<1> DEFINE to == IF count - 1 = 0 THEN "broadcast" ELSE "ended"
<1>1. /\ service[s] = "starting" /\ count' = count - 1 /\ service' = [service EXCEPT ![s] = to]
      /\ waiter' = waiter /\ cond' = cond
  BY DEF latch_count_down
<1>2. /\ service \in [Services -> {"starting", "broadcast", "ended"}] /\ s \in Starting
      /\ count = Cardinality(Starting)
  BY <1>1 DEF LatchInv, LatchTypeOK, Starting
<1>3. Starting' = Starting \ {s}
  BY <1>1, <1>2 DEF Starting
<1>4. Cardinality(Starting \ {s}) = count - 1 /\ count \in Nat /\ count > 0
  BY <1>2, StartingIsFinite, FS_RemoveElement, FS_EmptySet
<1>5. count' = Cardinality(Starting')
  BY <1>1, <1>3, <1>4
<1>6. LatchTypeOK'
  BY <1>1, <1>4 DEF LatchInv, LatchTypeOK
<1>7. \A w \in Waiters : waiter'[w] = "released" => count' = 0
  BY <1>1, <1>4 DEF LatchInv
<1>8. cond' # {} => count' > 0 \/ \E x \in Services : service'[x] = "broadcast"
  <2>1. CASE count - 1 = 0
    BY <1>1, <1>2, <2>1
  <2>2. CASE count - 1 # 0
    BY <1>1, <1>4, <2>2
  <2> QED
    BY <2>1, <2>2
<1> QED
  BY <1>5, <1>6, <1>7, <1>8 DEF LatchInv

LEMMA LatchStep == LatchInv /\ [LatchNext]_latchVars => LatchInv'
<1> SUFFICES ASSUME LatchInv, [LatchNext]_latchVars PROVE LatchInv'
  OBVIOUS
<1>1. ASSUME NEW s \in Services, latch_count_down(s) PROVE LatchInv'
  BY <1>1, CountDownStep
<1>2. ASSUME NEW s \in Services, Broadcast(s) PROVE LatchInv'
  <2>1. /\ service[s] = "broadcast" /\ cond' = {} /\ service' = [service EXCEPT ![s] = "ended"]
        /\ count' = count /\ waiter' = waiter
    BY <1>2 DEF Broadcast
  <2>2. Starting' = Starting
    BY <2>1 DEF Starting, LatchInv, LatchTypeOK
  <2> QED
    BY <2>1, <2>2 DEF LatchInv, LatchTypeOK
<1>3. ASSUME NEW w \in Waiters, latch_await(w) PROVE LatchInv'
  <2>1. count' = count /\ service' = service
    BY <1>3 DEF latch_await
  <2>2. Starting' = Starting /\ count \in Nat
    BY <2>1, StartingIsFinite DEF Starting, LatchInv
  <2>3. CASE count > 0
    BY <1>3, <2>1, <2>2, <2>3 DEF latch_await, LatchInv, LatchTypeOK
  <2>4. CASE ~ (count > 0)
    BY <1>3, <2>1, <2>2, <2>4 DEF latch_await, LatchInv, LatchTypeOK
  <2> QED
    BY <2>3, <2>4
<1>4. ASSUME SpuriousWakeUp PROVE LatchInv'
  <2>1. count' = count /\ service' = service /\ waiter' = waiter /\ cond' \subseteq cond
    BY <1>4 DEF SpuriousWakeUp
  <2>2. Starting' = Starting
    BY <2>1 DEF Starting
  <2> QED
    BY <2>1, <2>2 DEF LatchInv, LatchTypeOK
<1>5. CASE UNCHANGED latchVars
  BY <1>5 DEF latchVars, LatchInv, LatchTypeOK, Starting
<1> QED
  BY <1>1, <1>2, <1>3, <1>4, <1>5 DEF LatchNext, start_service

LEMMA LatchStart == LatchInit => LatchInv
<1> SUFFICES ASSUME LatchInit PROVE LatchInv
  OBVIOUS
<1>1. Starting = Services
  BY DEF LatchInit, Starting
<1>2. Cardinality(Starting) \in Nat
  BY StartingIsFinite
<1> QED
  BY <1>1, <1>2 DEF LatchInit, LatchInv, LatchTypeOK

\* For any number of services and of waiters: nobody passes the latch before every
\* service has counted down, and who sleeps is still to be woken
\* (atomic_operations.c:224-252).
THEOREM LatchKeeps == LatchSpec => [](LatchTypeOK /\ NobodyPassesEarly /\ NoWakeUpIsLost)
<1>1. LatchInv => LatchTypeOK /\ NobodyPassesEarly /\ NoWakeUpIsLost
  <2> SUFFICES ASSUME LatchInv PROVE NobodyPassesEarly /\ NoWakeUpIsLost
    BY DEF LatchInv
  <2>1. NobodyPassesEarly
    <3>1. count = 0 => Starting = {}
      BY StartingIsFinite DEF LatchInv
    <3> QED
      BY <3>1 DEF LatchInv, NobodyPassesEarly, Starting
  <2>2. NoWakeUpIsLost
    <3>1. count > 0 => Starting # {}
      BY StartingIsFinite, FS_EmptySet DEF LatchInv
    <3> QED
      BY <3>1 DEF LatchInv, NoWakeUpIsLost, Starting
  <2> QED
    BY <2>1, <2>2
<1> QED
  BY <1>1, LatchStart, LatchStep, PTL DEF LatchSpec

-----------------------------------------------------------------------------
(* The competition for connections                                         *)

Waited == {t \in RequestThreads : has_waited[t]}

GateInv ==
    /\ GateTypeOK
    /\ ConnectionsAreCounted
    /\ In("asleep") \subseteq Waited

LEMMA GateSetsAreFinite ==
    ASSUME NEW S, S \subseteq RequestThreads
    PROVE  IsFiniteSet(S) /\ Cardinality(S) \in Nat
BY StarvationConstants, FS_Subset, FS_CardinalityType

LEMMA OneMore ==
    ASSUME NEW S, S \subseteq RequestThreads, NEW t \in RequestThreads, t \notin S
    PROVE  Cardinality(S \cup {t}) = Cardinality(S) + 1
BY GateSetsAreFinite, FS_AddElement

LEMMA OneLess ==
    ASSUME NEW S, S \subseteq RequestThreads, NEW t \in S
    PROVE  Cardinality(S \ {t}) = Cardinality(S) - 1 /\ Cardinality(S) > 0
<1>1. IsFiniteSet(S) /\ Cardinality(S) \in Nat /\ IsFiniteSet(S \ {t}) /\ Cardinality(S \ {t}) \in Nat
  BY GateSetsAreFinite
<1>2. Cardinality(S \ {t}) = Cardinality(S) - 1
  BY <1>1, FS_RemoveElement
<1> QED
  BY <1>1, <1>2

HoldingWaited == {t \in In("holding") \cup In("served") : has_waited[t]}
Coming == In("acquiring") \cap {t \in RequestThreads : has_waited[t]}

LEMMA GateAcquireStep ==
    ASSUME GateInv, NEW t \in RequestThreads, pool_acquire(t)
    PROVE  GateInv'
<1>1. /\ db_thread \in [RequestThreads -> {"acquiring", "asleep", "timed_out", "holding", "served", "refused"}]
      /\ has_waited \in [RequestThreads -> BOOLEAN]
      /\ g_conn_pool.connections_free \in 0 .. POOL_CONNECTIONS
      /\ g_conn_pool.total_waited \in Nat /\ g_conn_pool.timeouts \in Nat
      /\ g_conn_pool \in [connections_free : 0 .. POOL_CONNECTIONS, total_waited : Nat, timeouts : Nat]
  BY DEF GateInv, GateTypeOK
<1>2. db_thread[t] = "acquiring"
  BY DEF pool_acquire, In
<1>3. CASE g_conn_pool.connections_free = 0
  <2>1. /\ has_waited' = [has_waited EXCEPT ![t] = TRUE] /\ g_conn_pool' = g_conn_pool
        /\ db_thread' = [db_thread EXCEPT ![t] = "asleep"]
    BY <1>3 DEF pool_acquire
  <2>2. /\ In("holding")' = In("holding") /\ In("refused")' = In("refused")
        /\ HoldingWaited' = HoldingWaited /\ In("asleep")' \subseteq Waited'
    BY <1>1, <1>2, <2>1 DEF In, HoldingWaited, Waited, GateInv
  <2>3. Cardinality(Coming') \in Nat
    BY GateSetsAreFinite DEF Coming, In
  <2> QED
    BY <1>1, <1>3, <2>1, <2>2, <2>3 DEF GateInv, GateTypeOK, ConnectionsAreCounted, HoldingWaited, Coming
<1>4. CASE g_conn_pool.connections_free # 0
  <2>1. /\ g_conn_pool' = [g_conn_pool EXCEPT !.connections_free = @ - 1,
                                              !.total_waited = IF has_waited[t] THEN @ + 1 ELSE @]
        /\ db_thread' = [db_thread EXCEPT ![t] = "holding"] /\ has_waited' = has_waited
    BY <1>4 DEF pool_acquire
  <2>2. /\ In("holding")' = In("holding") \cup {t} /\ t \notin In("holding")
        /\ In("refused")' = In("refused") /\ In("asleep")' = In("asleep") /\ Waited' = Waited
        /\ HoldingWaited' = (IF has_waited[t] THEN HoldingWaited \cup {t} ELSE HoldingWaited)
        /\ t \notin HoldingWaited
        /\ Coming' = Coming \ {t} /\ (t \in Coming <=> has_waited[t])
    BY <1>1, <1>2, <2>1 DEF In, HoldingWaited, Waited, Coming
  <2>3. /\ Cardinality(In("holding")') = Cardinality(In("holding")) + 1
        /\ Cardinality(HoldingWaited') = Cardinality(HoldingWaited) + (IF has_waited[t] THEN 1 ELSE 0)
        /\ Cardinality(Coming') = Cardinality(Coming) - (IF has_waited[t] THEN 1 ELSE 0)
    <3>1. In("holding") \subseteq RequestThreads /\ HoldingWaited \subseteq RequestThreads /\ Coming \subseteq RequestThreads
      BY DEF In, HoldingWaited, Coming
    <3>2. Cardinality(In("holding")') = Cardinality(In("holding")) + 1
      BY <2>2, <3>1, OneMore
    <3>3. CASE has_waited[t]
      <4>1. Cardinality(HoldingWaited \cup {t}) = Cardinality(HoldingWaited) + 1
        BY <2>2, <3>1, OneMore
      <4>2. Cardinality(Coming \ {t}) = Cardinality(Coming) - 1
        BY <2>2, <3>1, <3>3, OneLess
      <4> QED
        BY <2>2, <3>2, <3>3, <4>1, <4>2
    <3>4. CASE ~ has_waited[t]
      <4>1. HoldingWaited' = HoldingWaited /\ Coming' = Coming
        BY <2>2, <3>4
      <4>2. Cardinality(HoldingWaited) \in Nat /\ Cardinality(Coming) \in Nat
        BY <3>1, GateSetsAreFinite
      <4> QED
        BY <3>2, <3>4, <4>1, <4>2
    <3> QED
      BY <3>3, <3>4
  <2>4. /\ g_conn_pool'.connections_free = g_conn_pool.connections_free - 1
        /\ g_conn_pool'.total_waited = g_conn_pool.total_waited + (IF has_waited[t] THEN 1 ELSE 0)
        /\ g_conn_pool'.timeouts = g_conn_pool.timeouts
        /\ g_conn_pool' \in [connections_free : 0 .. POOL_CONNECTIONS, total_waited : Nat, timeouts : Nat]
    <3> DEFINE more == IF has_waited[t] THEN g_conn_pool.total_waited + 1 ELSE g_conn_pool.total_waited
               p    == [g_conn_pool EXCEPT !.connections_free = @ - 1]
    <3>1. g_conn_pool.connections_free - 1 \in 0 .. POOL_CONNECTIONS
      BY <1>1, <1>4, StarvationConstants
    <3>2. more \in Nat /\ more = g_conn_pool.total_waited + (IF has_waited[t] THEN 1 ELSE 0)
      BY <1>1
    <3>3. g_conn_pool' = [p EXCEPT !.total_waited = more]
      BY <1>1, <2>1
    <3> HIDE DEF more
    <3>4. /\ p \in [connections_free : 0 .. POOL_CONNECTIONS, total_waited : Nat, timeouts : Nat]
          /\ p.connections_free = g_conn_pool.connections_free - 1
          /\ p.timeouts = g_conn_pool.timeouts
      BY <1>1, <3>1
    <3> HIDE DEF p
    <3> QED
      BY <3>2, <3>3, <3>4
  <2>5. /\ Cardinality(In("holding")) \in Nat /\ Cardinality(HoldingWaited) \in Nat /\ Cardinality(Coming) \in Nat
    BY GateSetsAreFinite DEF In, HoldingWaited, Coming
  <2>6. GateTypeOK'
    BY <1>1, <2>1, <2>4 DEF GateTypeOK
  <2>7. /\ g_conn_pool.connections_free + Cardinality(In("holding")) = POOL_CONNECTIONS
        /\ In("asleep") # {} => g_conn_pool.connections_free <= Cardinality(Coming)
        /\ g_conn_pool.timeouts = Cardinality(In("refused"))
        /\ g_conn_pool.total_waited = Cardinality(HoldingWaited)
    BY DEF GateInv, ConnectionsAreCounted, Coming, HoldingWaited
  <2>8. /\ g_conn_pool'.connections_free + Cardinality(In("holding")') = POOL_CONNECTIONS
        /\ In("asleep")' # {} => g_conn_pool'.connections_free <= Cardinality(Coming')
        /\ g_conn_pool'.timeouts = Cardinality(In("refused")')
        /\ g_conn_pool'.total_waited = Cardinality(HoldingWaited')
    BY <1>1, <2>2, <2>3, <2>4, <2>5, <2>7, StarvationConstants
  <2>9. ConnectionsAreCounted'
    BY <2>8 DEF ConnectionsAreCounted, Coming, HoldingWaited
  <2> QED
    BY <2>2, <2>6, <2>9 DEF GateInv
<1> QED
  BY <1>3, <1>4

LEMMA GateReleaseStep ==
    ASSUME GateInv, NEW t \in RequestThreads, pool_release(t)
    PROVE  GateInv'
<1>1. /\ db_thread \in [RequestThreads -> {"acquiring", "asleep", "timed_out", "holding", "served", "refused"}]
      /\ has_waited \in [RequestThreads -> BOOLEAN]
      /\ g_conn_pool.connections_free \in 0 .. POOL_CONNECTIONS
      /\ g_conn_pool \in [connections_free : 0 .. POOL_CONNECTIONS, total_waited : Nat, timeouts : Nat]
  BY DEF GateInv, GateTypeOK
<1>2. /\ t \in In("holding") /\ has_waited' = has_waited
      /\ g_conn_pool' = [g_conn_pool EXCEPT !.connections_free = @ + 1]
  BY DEF pool_release
<1>3. db_thread[t] = "holding" /\ In("holding") \subseteq RequestThreads /\ Coming \subseteq RequestThreads
  BY <1>2 DEF In, Coming
<1>4. /\ Cardinality(In("holding") \ {t}) = Cardinality(In("holding")) - 1
      /\ Cardinality(In("holding")) > 0 /\ Cardinality(In("holding")) \in Nat
      /\ Cardinality(Coming) \in Nat
  BY <1>2, <1>3, OneLess, GateSetsAreFinite
<1>5. /\ g_conn_pool.connections_free + Cardinality(In("holding")) = POOL_CONNECTIONS
      /\ In("asleep") # {} => g_conn_pool.connections_free <= Cardinality(Coming)
      /\ g_conn_pool.timeouts = Cardinality(In("refused"))
      /\ g_conn_pool.total_waited = Cardinality(HoldingWaited)
  BY DEF GateInv, ConnectionsAreCounted, Coming, HoldingWaited
<1>6. /\ g_conn_pool' \in [connections_free : 0 .. POOL_CONNECTIONS, total_waited : Nat, timeouts : Nat]
      /\ g_conn_pool'.connections_free = g_conn_pool.connections_free + 1
      /\ g_conn_pool'.total_waited = g_conn_pool.total_waited
      /\ g_conn_pool'.timeouts = g_conn_pool.timeouts
  <2>1. g_conn_pool.connections_free + 1 \in 0 .. POOL_CONNECTIONS
    BY <1>1, <1>4, <1>5, StarvationConstants
  <2> QED
    BY <1>1, <1>2, <2>1
<1>7. SUFFICES /\ db_thread' \in [RequestThreads -> {"acquiring", "asleep", "timed_out", "holding", "served", "refused"}]
               /\ In("holding")' = In("holding") \ {t} /\ In("refused")' = In("refused")
               /\ HoldingWaited' = HoldingWaited /\ In("asleep")' \subseteq In("asleep")
               /\ In("asleep")' # {} => Cardinality(Coming') = Cardinality(Coming) + 1
  <2>1. ConnectionsAreCounted'
    <3>1. /\ g_conn_pool'.connections_free + Cardinality(In("holding")') = POOL_CONNECTIONS
          /\ In("asleep")' # {} => g_conn_pool'.connections_free <= Cardinality(Coming')
          /\ g_conn_pool'.timeouts = Cardinality(In("refused")')
          /\ g_conn_pool'.total_waited = Cardinality(HoldingWaited')
      <4> DEFINE free == g_conn_pool.connections_free
                 rest == g_conn_pool'.connections_free
      <4>1. free \in Nat /\ rest = free + 1
        BY <1>1, <1>6, StarvationConstants
      <4>2. Cardinality(In("holding")') = Cardinality(In("holding")) - 1
        BY <1>4, <1>7
      <4>3. rest + Cardinality(In("holding")') = POOL_CONNECTIONS
        BY <1>4, <1>5, <4>1, <4>2, StarvationConstants
      <4>4. In("asleep")' # {} => In("asleep") # {}
        BY <1>7
      <4>5. In("asleep")' # {} => rest <= Cardinality(Coming')
        BY <1>4, <1>5, <1>7, <4>1, <4>4
      <4> QED
        BY <1>5, <1>6, <1>7, <4>3, <4>5
    <3> QED
      BY <3>1 DEF ConnectionsAreCounted, Coming, HoldingWaited
  <2>2. In("asleep")' \subseteq Waited'
    BY <1>2, <1>7 DEF GateInv, Waited
  <2> QED
    BY <1>1, <1>2, <1>6, <1>7, <2>1, <2>2 DEF GateInv, GateTypeOK
<1>8. CASE In("asleep") = {}
  <2>1. db_thread' = [db_thread EXCEPT ![t] = "served"]
    BY <1>8 DEF pool_release
  <2> QED
    BY <1>1, <1>2, <1>3, <1>8, <2>1 DEF In, HoldingWaited
<1>9. CASE In("asleep") # {}
  <2> DEFINE freed == [db_thread EXCEPT ![t] = "served"]
  <2>1. PICK w \in In("asleep") : db_thread' = [freed EXCEPT ![w] = "acquiring"]
    BY <1>9 DEF pool_release
  <2>2. /\ w \in RequestThreads /\ db_thread[w] = "asleep" /\ has_waited[w] /\ w # t
    BY <1>3, <2>1 DEF In, GateInv, Waited
  <2>3. /\ freed \in [RequestThreads -> {"acquiring", "asleep", "timed_out", "holding", "served", "refused"}]
        /\ freed[t] = "served" /\ \A u \in RequestThreads : u # t => freed[u] = db_thread[u]
    BY <1>1
  <2> HIDE DEF freed
  <2>4. /\ db_thread' \in [RequestThreads -> {"acquiring", "asleep", "timed_out", "holding", "served", "refused"}]
        /\ db_thread'[t] = "served" /\ db_thread'[w] = "acquiring"
        /\ \A u \in RequestThreads : u # t /\ u # w => db_thread'[u] = db_thread[u]
    BY <2>1, <2>2, <2>3
  <2>5. Coming' = Coming \cup {w} /\ w \notin Coming
    BY <1>2, <1>3, <2>2, <2>4 DEF In, Coming
  <2>6. Cardinality(Coming') = Cardinality(Coming) + 1
    BY <1>3, <2>2, <2>5, OneMore
  <2> QED
    BY <1>2, <1>3, <2>2, <2>4, <2>6 DEF In, HoldingWaited
<1> QED
  BY <1>8, <1>9

LEMMA GateDeadlineStep ==
    ASSUME GateInv, NEW t \in RequestThreads, Deadline(t)
    PROVE  GateInv'
<1>1. /\ db_thread[t] = "asleep" /\ db_thread' = [db_thread EXCEPT ![t] = "timed_out"]
      /\ g_conn_pool' = g_conn_pool /\ has_waited' = has_waited
  BY DEF Deadline, In
<1>2. /\ In("holding")' = In("holding") /\ In("refused")' = In("refused") /\ Coming' = Coming
      /\ HoldingWaited' = HoldingWaited /\ In("asleep")' \subseteq In("asleep")
  BY <1>1 DEF In, HoldingWaited, Coming, GateInv, GateTypeOK
<1> QED
  BY <1>1, <1>2 DEF GateInv, GateTypeOK, ConnectionsAreCounted, HoldingWaited, Coming, Waited

LEMMA GateGiveUpStep ==
    ASSUME GateInv, NEW t \in RequestThreads, GiveUp(t)
    PROVE  GateInv'
<1>1. /\ db_thread[t] = "timed_out" /\ db_thread' = [db_thread EXCEPT ![t] = "refused"]
      /\ g_conn_pool' = [g_conn_pool EXCEPT !.timeouts = @ + 1] /\ has_waited' = has_waited
  BY DEF GiveUp, In
<1>2. /\ In("holding")' = In("holding") /\ In("refused")' = In("refused") \cup {t} /\ Coming' = Coming
      /\ HoldingWaited' = HoldingWaited /\ In("asleep")' = In("asleep")
      /\ In("refused") \subseteq RequestThreads /\ t \notin In("refused")
  BY <1>1 DEF In, HoldingWaited, Coming, GateInv, GateTypeOK
<1>3. Cardinality(In("refused")') = Cardinality(In("refused")) + 1
  BY <1>2, OneMore
<1>4. /\ g_conn_pool' \in [connections_free : 0 .. POOL_CONNECTIONS, total_waited : Nat, timeouts : Nat]
      /\ g_conn_pool'.connections_free = g_conn_pool.connections_free
      /\ g_conn_pool'.total_waited = g_conn_pool.total_waited
      /\ g_conn_pool'.timeouts = g_conn_pool.timeouts + 1
  BY <1>1 DEF GateInv, GateTypeOK
<1> QED
  BY <1>1, <1>2, <1>3, <1>4
     DEF GateInv, GateTypeOK, ConnectionsAreCounted, HoldingWaited, Coming, Waited

LEMMA GateSpuriousStep ==
    ASSUME GateInv, NEW t \in RequestThreads, Spurious(t)
    PROVE  GateInv'
<1>1. /\ db_thread[t] = "asleep" /\ db_thread' = [db_thread EXCEPT ![t] = "acquiring"]
      /\ g_conn_pool' = g_conn_pool /\ has_waited' = has_waited /\ has_waited[t]
  BY DEF Spurious, In, GateInv, Waited
<1>2. /\ In("holding")' = In("holding") /\ In("refused")' = In("refused")
      /\ Coming' = Coming \cup {t} /\ t \notin Coming /\ Coming \subseteq RequestThreads
      /\ HoldingWaited' = HoldingWaited /\ In("asleep")' \subseteq In("asleep")
  BY <1>1 DEF In, HoldingWaited, Coming, GateInv, GateTypeOK
<1>3. Cardinality(Coming') = Cardinality(Coming) + 1 /\ Cardinality(Coming) \in Nat
  BY <1>2, OneMore, GateSetsAreFinite
<1>4. g_conn_pool.connections_free \in Nat
  BY StarvationConstants DEF GateInv, GateTypeOK
<1>5. In("asleep")' # {} => g_conn_pool'.connections_free <= Cardinality(Coming')
  <2>1. In("asleep") # {} => g_conn_pool.connections_free <= Cardinality(Coming)
    BY DEF GateInv, ConnectionsAreCounted, Coming
  <2> QED
    BY <1>1, <1>2, <1>3, <1>4, <2>1
<1>6. ConnectionsAreCounted'
  BY <1>1, <1>2, <1>5 DEF GateInv, ConnectionsAreCounted, HoldingWaited, Coming
<1> QED
  BY <1>1, <1>2, <1>6 DEF GateInv, GateTypeOK, Waited

LEMMA GateStep == GateInv /\ [GateNext]_gateVars => GateInv'
<1> SUFFICES ASSUME GateInv, [GateNext]_gateVars PROVE GateInv'
  OBVIOUS
<1>1. CASE UNCHANGED gateVars
  BY <1>1 DEF gateVars, GateInv, GateTypeOK, ConnectionsAreCounted, Waited, In
<1> QED
  BY <1>1, GateAcquireStep, GateReleaseStep, GateDeadlineStep, GateGiveUpStep, GateSpuriousStep
     DEF GateNext, db_worker

LEMMA GateStart == GateInit => GateInv
<1> SUFFICES ASSUME GateInit PROVE GateInv
  OBVIOUS
<1>1. /\ In("holding") = {} /\ In("refused") = {} /\ In("asleep") = {}
      /\ HoldingWaited = {}
  BY DEF GateInit, In, HoldingWaited
<1>2. Cardinality({}) = 0
  BY FS_EmptySet
<1>3. ConnectionsAreCounted
  <2>1. g_conn_pool = [connections_free |-> POOL_CONNECTIONS, total_waited |-> 0, timeouts |-> 0]
    BY DEF GateInit
  <2>2. g_conn_pool.total_waited = Cardinality(HoldingWaited)
    BY <1>1, <1>2, <2>1
  <2>3. g_conn_pool.connections_free + Cardinality(In("holding")) = POOL_CONNECTIONS
    BY <1>1, <1>2, <2>1, StarvationConstants
  <2> QED
    BY <1>1, <1>2, <2>1, <2>2, <2>3 DEF ConnectionsAreCounted, HoldingWaited
<1> QED
  BY <1>1, <1>3, StarvationConstants DEF GateInit, GateInv, GateTypeOK

\* For any number of threads and connections: whoever is overtaken, times out or wakes
\* for no reason, the connections add up, the counters are true, and nobody sleeps
\* beside a free connection that no other thread is on its way to take
\* (singleton_race_condition.c:289-332).
THEOREM ConnectionsAddUp == GateSpec => [](GateTypeOK /\ ConnectionsAreCounted)
<1>1. GateInv => GateTypeOK /\ ConnectionsAreCounted
  BY DEF GateInv
<1> QED
  BY <1>1, GateStart, GateStep, PTL DEF GateSpec

-----------------------------------------------------------------------------
(* The bounded queue                                                       *)

\* The slot that is k after slot h of the ring.
Ahead(h, k) == (h + k) % QUEUE_CAPACITY

LEMMA AheadIs ==
    ASSUME NEW h \in 0 .. QUEUE_CAPACITY - 1, NEW k \in 0 .. QUEUE_CAPACITY
    PROVE  /\ Ahead(h, k) = IF h + k < QUEUE_CAPACITY THEN h + k ELSE h + k - QUEUE_CAPACITY
           /\ Ahead(h, k) \in 0 .. QUEUE_CAPACITY - 1
<1>1. QUEUE_CAPACITY \in Nat /\ QUEUE_CAPACITY > 0
  BY QueueConstants
<1> DEFINE C == QUEUE_CAPACITY
           n == h + k
<1>2. n \in Nat /\ n < 2 * C
  BY <1>1
<1>3. CASE n < C
  BY <1>1, <1>2, <1>3 DEF Ahead
<1>4. CASE n >= C
  <2>1. n - C \in 0 .. C - 1
    BY <1>1, <1>2, <1>4
  <2>2. n = C * 1 + (n - C)
    BY <1>1, <1>2
  <2>3. n % C = n - C
    BY <1>1, <1>2, <2>1, <2>2
  <2> QED
    BY <1>1, <1>4, <2>1, <2>3 DEF Ahead
<1> QED
  BY <1>1, <1>2, <1>3, <1>4

LEMMA AheadTwice ==
    ASSUME NEW h \in 0 .. QUEUE_CAPACITY - 1, NEW j \in 0 .. QUEUE_CAPACITY,
           NEW k \in 0 .. QUEUE_CAPACITY - j
    PROVE  Ahead(Ahead(h, j), k) = Ahead(h, j + k)
<1>1. QUEUE_CAPACITY \in Nat /\ QUEUE_CAPACITY > 0
  BY QueueConstants
<1>2. k \in 0 .. QUEUE_CAPACITY /\ j + k \in 0 .. QUEUE_CAPACITY
  BY <1>1
<1> DEFINE a == Ahead(h, j)
           b == Ahead(a, k)
           c == Ahead(h, j + k)
<1>3. /\ a = IF h + j < QUEUE_CAPACITY THEN h + j ELSE h + j - QUEUE_CAPACITY
      /\ a \in 0 .. QUEUE_CAPACITY - 1
  BY AheadIs
<1>4. c = IF h + (j + k) < QUEUE_CAPACITY THEN h + (j + k) ELSE h + (j + k) - QUEUE_CAPACITY
  BY <1>2, AheadIs
<1> HIDE DEF a, c
<1>5. b = IF a + k < QUEUE_CAPACITY THEN a + k ELSE a + k - QUEUE_CAPACITY
  BY <1>2, <1>3, AheadIs
<1> HIDE DEF b
<1>6. b = c
  BY <1>1, <1>2, <1>3, <1>4, <1>5
<1> QED
  BY <1>6 DEF a, b, c

\* Of the first n items of f, how many are p's.
Number(f, p, n) == Cardinality({k \in 1 .. n : f[k][1] = p})

LEMMA NumberGrows ==
    ASSUME NEW f, NEW p, NEW n \in Nat
    PROVE  /\ Number(f, p, n) \in Nat
           /\ Number(f, p, n + 1) = IF f[n + 1][1] = p THEN Number(f, p, n) + 1 ELSE Number(f, p, n)
<1> DEFINE S == {k \in 1 .. n : f[k][1] = p}
           T == {k \in 1 .. n + 1 : f[k][1] = p}
<1>1. IsFiniteSet(S)
  <2>1. 1 \in Int /\ n \in Int
    OBVIOUS
  <2>2. IsFiniteSet(1 .. n)
    BY <2>1, FS_Interval
  <2> QED
    BY <2>2, FS_Subset
<1>2. Cardinality(S) \in Nat
  BY <1>1, FS_CardinalityType
<1>3. CASE f[n + 1][1] = p
  <2>1. T = S \cup {n + 1} /\ n + 1 \notin S
    BY <1>3
  <2>2. Cardinality(T) = Cardinality(S) + 1
    BY <1>1, <2>1, FS_AddElement
  <2> QED
    BY <1>2, <1>3, <2>2 DEF Number
<1>4. CASE f[n + 1][1] # p
  <2>1. T = S
    BY <1>4
  <2> QED
    BY <1>2, <1>4, <2>1 DEF Number
<1> QED
  BY <1>3, <1>4

LEMMA NumberIsLocal ==
    ASSUME NEW f, NEW g, NEW p, NEW n \in Nat, \A k \in 1 .. n : f[k] = g[k]
    PROVE  Number(f, p, n) = Number(g, p, n)
<1>1. {k \in 1 .. n : f[k][1] = p} = {k \in 1 .. n : g[k][1] = p}
  OBVIOUS
<1> QED
  BY <1>1 DEF Number

\* All that was put so far: what was taken, and then what is in the ring.
PutTotal == Len(taken) + bq.size

Put(i) == IF i <= Len(taken) THEN taken[i] ELSE bq.items[Ahead(bq.head, i - Len(taken) - 1)]

AllPut == [i \in 1 .. PutTotal |-> Put(i)]

BqInv ==
    /\ BqTypeOK
    /\ bq.tail = Ahead(bq.head, bq.size)
    /\ \A i \in 1 .. PutTotal : AllPut[i] \in QueueItem /\ AllPut[i][2] = Number(AllPut, AllPut[i][1], i)
    /\ \A p \in Producers : produced[p] = Number(AllPut, p, PutTotal)
    /\ bq.closed => \A p \in Producers : produced[p] = ITEMS

\* A step after which the same has been put.
LEMMA NothingNew ==
    ASSUME BqInv, BqTypeOK', (bq.tail = Ahead(bq.head, bq.size))', PutTotal' = PutTotal,
           \A i \in 1 .. PutTotal : Put(i)' = Put(i), produced' = produced,
           (bq.closed => \A p \in Producers : produced[p] = ITEMS)'
    PROVE  BqInv'
<1>1. AllPut' = AllPut
  BY DEF AllPut
<1> HIDE DEF AllPut
<1> QED
  BY <1>1 DEF BqInv

BqRecord == [items : [0 .. QUEUE_CAPACITY - 1 -> QueueItem \cup {NoItem}],
             head : 0 .. QUEUE_CAPACITY - 1, tail : 0 .. QUEUE_CAPACITY - 1,
             size : 0 .. QUEUE_CAPACITY, closed : BOOLEAN]

LEMMA BqTyped ==
    ASSUME BqInv
    PROVE  /\ QUEUE_CAPACITY \in Nat /\ QUEUE_CAPACITY > 0
           /\ bq \in BqRecord /\ bq.items \in [0 .. QUEUE_CAPACITY - 1 -> QueueItem \cup {NoItem}]
           /\ bq.head \in 0 .. QUEUE_CAPACITY - 1 /\ bq.tail \in 0 .. QUEUE_CAPACITY - 1
           /\ bq.size \in 0 .. QUEUE_CAPACITY /\ bq.closed \in BOOLEAN
           /\ taken \in Seq(QueueItem) /\ Len(taken) \in Nat /\ PutTotal \in Nat
           /\ PutTotal = Len(taken) + bq.size
<1>1. QUEUE_CAPACITY \in Nat /\ QUEUE_CAPACITY > 0
  BY QueueConstants
<1>2. bq \in BqRecord /\ taken \in Seq(QueueItem)
  BY DEF BqInv, BqTypeOK, BqRecord
<1>3. /\ bq.items \in [0 .. QUEUE_CAPACITY - 1 -> QueueItem \cup {NoItem}]
      /\ bq.head \in 0 .. QUEUE_CAPACITY - 1 /\ bq.tail \in 0 .. QUEUE_CAPACITY - 1
      /\ bq.size \in 0 .. QUEUE_CAPACITY /\ bq.closed \in BOOLEAN
  BY <1>2 DEF BqRecord
<1>4. Len(taken) \in Nat
  BY <1>2
<1>5. PutTotal \in Nat /\ PutTotal = Len(taken) + bq.size
  BY <1>1, <1>3, <1>4 DEF PutTotal
<1> QED
  BY <1>1, <1>2, <1>3, <1>4, <1>5

\* What enters the ring.
Stowed(q, x) == [q EXCEPT !.items[q.tail] = x, !.tail = (@ + 1) % QUEUE_CAPACITY, !.size = @ + 1]

LEMMA StowedIs ==
    ASSUME NEW q \in BqRecord, NEW x \in QueueItem, q.size < QUEUE_CAPACITY, q.tail = Ahead(q.head, q.size)
    PROVE  /\ Stowed(q, x) \in BqRecord
           /\ Stowed(q, x).head = q.head /\ Stowed(q, x).size = q.size + 1
           /\ Stowed(q, x).closed = q.closed
           /\ Stowed(q, x).tail = Ahead(q.head, q.size + 1)
           /\ Stowed(q, x).items[Ahead(q.head, q.size)] = x
           /\ \A k \in 0 .. q.size - 1 :
                  Stowed(q, x).items[Ahead(q.head, k)] = q.items[Ahead(q.head, k)]
<1> DEFINE its == [q.items EXCEPT ![q.tail] = x]
           nxt == (q.tail + 1) % QUEUE_CAPACITY
           sz  == q.size + 1
<1>1. QUEUE_CAPACITY \in Nat /\ QUEUE_CAPACITY > 0
  BY QueueConstants
<1>2. /\ q.items \in [0 .. QUEUE_CAPACITY - 1 -> QueueItem \cup {NoItem}]
      /\ q.head \in 0 .. QUEUE_CAPACITY - 1 /\ q.tail \in 0 .. QUEUE_CAPACITY - 1
      /\ q.size \in 0 .. QUEUE_CAPACITY /\ q.closed \in BOOLEAN
  BY DEF BqRecord
<1>3. its \in [0 .. QUEUE_CAPACITY - 1 -> QueueItem \cup {NoItem}] /\ its[q.tail] = x
      /\ \A k \in 0 .. QUEUE_CAPACITY - 1 : k # q.tail => its[k] = q.items[k]
  BY <1>2
<1>4. nxt = Ahead(q.head, q.size + 1) /\ nxt \in 0 .. QUEUE_CAPACITY - 1
  <2>1. 1 \in 0 .. QUEUE_CAPACITY - q.size /\ q.size + 1 \in 0 .. QUEUE_CAPACITY
    BY <1>1, <1>2
  <2>2. nxt = Ahead(q.tail, 1)
    BY DEF Ahead
  <2>3. Ahead(q.tail, 1) = Ahead(q.head, q.size + 1)
    BY <1>2, <2>1, AheadTwice
  <2>4. Ahead(q.head, q.size + 1) \in 0 .. QUEUE_CAPACITY - 1
    BY <1>2, <2>1, AheadIs
  <2> QED
    BY <2>2, <2>3, <2>4
<1>5. sz \in 0 .. QUEUE_CAPACITY
  BY <1>1, <1>2
<1>6. Stowed(q, x) = [items |-> its, head |-> q.head, tail |-> nxt, size |-> sz, closed |-> q.closed]
  <2>1. Stowed(q, x) = [q EXCEPT !.items = its, !.tail = nxt, !.size = sz]
    BY <1>2 DEF Stowed, BqRecord
  <2> HIDE DEF its, nxt, sz
  <2> QED
    BY <1>2, <2>1 DEF BqRecord
<1>7. \A k \in 0 .. q.size - 1 :
          Ahead(q.head, k) # q.tail /\ Ahead(q.head, k) \in 0 .. QUEUE_CAPACITY - 1
  <2> SUFFICES ASSUME NEW k \in 0 .. q.size - 1
               PROVE  Ahead(q.head, k) # q.tail /\ Ahead(q.head, k) \in 0 .. QUEUE_CAPACITY - 1
    OBVIOUS
  <2>1. k \in 0 .. QUEUE_CAPACITY
    BY <1>1, <1>2
  <2>2. /\ Ahead(q.head, k) = IF q.head + k < QUEUE_CAPACITY THEN q.head + k ELSE q.head + k - QUEUE_CAPACITY
        /\ Ahead(q.head, k) \in 0 .. QUEUE_CAPACITY - 1
    BY <1>2, <2>1, AheadIs
  <2>3. q.tail = IF q.head + q.size < QUEUE_CAPACITY THEN q.head + q.size ELSE q.head + q.size - QUEUE_CAPACITY
    BY <1>2, AheadIs
  <2>4. k < q.size /\ k \in Nat /\ q.head \in Nat /\ q.size \in Nat /\ q.size <= QUEUE_CAPACITY
    BY <1>1, <1>2
  <2>5. q.head + k < q.head + q.size /\ q.head + q.size - QUEUE_CAPACITY <= q.head
    BY <1>1, <2>4
  <2> QED
    BY <1>1, <1>2, <2>2, <2>3, <2>4, <2>5, SMTT(30)
<1> HIDE DEF its, nxt, sz
<1>8. Stowed(q, x) \in BqRecord
  BY <1>2, <1>3, <1>4, <1>5, <1>6 DEF BqRecord
<1> QED
  BY <1>3, <1>4, <1>6, <1>7, <1>8 DEF sz

\* What leaves the ring.
Drawn(q) == [q EXCEPT !.head = (@ + 1) % QUEUE_CAPACITY, !.size = @ - 1]

LEMMA DrawnIs ==
    ASSUME NEW q \in BqRecord, q.size > 0
    PROVE  /\ Drawn(q) \in BqRecord
           /\ Drawn(q).items = q.items /\ Drawn(q).tail = q.tail /\ Drawn(q).closed = q.closed
           /\ Drawn(q).head = Ahead(q.head, 1) /\ Drawn(q).size = q.size - 1
<1> DEFINE hd == (q.head + 1) % QUEUE_CAPACITY
           sz == q.size - 1
<1>1. QUEUE_CAPACITY \in Nat /\ QUEUE_CAPACITY > 0
  BY QueueConstants
<1>2. /\ q.items \in [0 .. QUEUE_CAPACITY - 1 -> QueueItem \cup {NoItem}]
      /\ q.head \in 0 .. QUEUE_CAPACITY - 1 /\ q.tail \in 0 .. QUEUE_CAPACITY - 1
      /\ q.size \in 0 .. QUEUE_CAPACITY /\ q.closed \in BOOLEAN
  BY DEF BqRecord
<1>3. hd = Ahead(q.head, 1) /\ hd \in 0 .. QUEUE_CAPACITY - 1
  <2>1. 1 \in 0 .. QUEUE_CAPACITY
    BY <1>1
  <2>2. hd = Ahead(q.head, 1)
    BY DEF Ahead
  <2> QED
    BY <1>2, <2>1, <2>2, AheadIs
<1>4. sz \in 0 .. QUEUE_CAPACITY
  BY <1>1, <1>2
<1>5. Drawn(q) = [q EXCEPT !.head = hd, !.size = sz]
  BY <1>2 DEF Drawn, BqRecord
<1> HIDE DEF hd, sz
<1>6. Drawn(q) = [items |-> q.items, head |-> hd, tail |-> q.tail, size |-> sz, closed |-> q.closed]
  BY <1>2, <1>5 DEF BqRecord
<1> QED
  BY <1>2, <1>3, <1>4, <1>6 DEF BqRecord, sz

LEMMA BqPutStep ==
    ASSUME BqInv, NEW p \in Producers, bq_put(p)
    PROVE  BqInv'
<1>1. produced[p] < ITEMS /\ ~ bq.closed /\ consumer' = consumer /\ taken' = taken
  <2>1. produced[p] < ITEMS /\ consumer' = consumer /\ taken' = taken
    BY DEF bq_put
  <2>2. ITEMS \in Nat /\ produced[p] \in Nat
    BY QueueConstants DEF BqInv, BqTypeOK
  <2> QED
    BY <2>1, <2>2 DEF BqInv
<1>2. CASE bq.size >= QUEUE_CAPACITY
  <2>1. bq' = bq /\ produced' = produced /\ asleep' = asleep \cup {p}
    BY <1>1, <1>2 DEF bq_put, monitor_wait
  <2>2. BqTypeOK'
    BY <1>1, <2>1 DEF BqInv, BqTypeOK
  <2>3. PutTotal' = PutTotal /\ \A i \in 1 .. PutTotal : Put(i)' = Put(i)
    BY <1>1, <2>1 DEF PutTotal, Put
  <2>4. (bq.tail = Ahead(bq.head, bq.size))' /\ (bq.closed => \A u \in Producers : produced[u] = ITEMS)'
    BY <1>1, <2>1 DEF BqInv
  <2> QED
    BY <2>1, <2>2, <2>3, <2>4, NothingNew
<1>3. CASE ~ (bq.size >= QUEUE_CAPACITY)
  <2> DEFINE x == <<p, produced[p] + 1>>
             n == PutTotal
             f == AllPut
             g == AllPut'
  <2>1. bq' = Stowed(bq, x) /\ produced' = [produced EXCEPT ![p] = @ + 1] /\ asleep' = {}
    BY <1>1, <1>3 DEF bq_put, monitor_notify_all, Stowed
  <2>2. /\ QUEUE_CAPACITY \in Nat /\ QUEUE_CAPACITY > 0 /\ bq \in BqRecord
        /\ bq.head \in 0 .. QUEUE_CAPACITY - 1 /\ bq.size \in 0 .. QUEUE_CAPACITY
        /\ Len(taken) \in Nat /\ n \in Nat /\ n = Len(taken) + bq.size
    BY BqTyped
  <2>3. bq.size < QUEUE_CAPACITY /\ bq.tail = Ahead(bq.head, bq.size)
    BY <1>3, <2>2 DEF BqInv
  <2>4. /\ produced \in [Producers -> 0 .. ITEMS] /\ ITEMS \in Nat /\ produced[p] + 1 \in 1 .. ITEMS
        /\ produced[p] \in Nat
    BY <1>1, QueueConstants DEF BqInv, BqTypeOK
  <2>5. x \in QueueItem /\ x[1] = p /\ x[2] = produced[p] + 1
    BY <2>4 DEF QueueItem
  <2> HIDE DEF x
  <2>6. /\ bq' \in BqRecord /\ bq'.head = bq.head /\ bq'.size = bq.size + 1 /\ bq'.closed = bq.closed
        /\ bq'.tail = Ahead(bq.head, bq.size + 1)
        /\ bq'.items[Ahead(bq.head, bq.size)] = x
        /\ \A k \in 0 .. bq.size - 1 : bq'.items[Ahead(bq.head, k)] = bq.items[Ahead(bq.head, k)]
    BY <2>1, <2>2, <2>3, <2>5, StowedIs
  <2>7. PutTotal' = n + 1
    BY <1>1, <2>2, <2>6 DEF PutTotal
  <2>8. \A i \in 1 .. n : Put(i)' = Put(i)
    <3> SUFFICES ASSUME NEW i \in 1 .. n PROVE Put(i)' = Put(i)
      OBVIOUS
    <3>1. CASE i <= Len(taken)
      BY <1>1, <3>1 DEF Put
    <3>2. CASE ~ (i <= Len(taken))
      <4>1. i - Len(taken) - 1 \in 0 .. bq.size - 1
        BY <2>2, <3>2
      <4> QED
        BY <1>1, <2>6, <3>2, <4>1 DEF Put
    <3> QED
      BY <3>1, <3>2
  <2>9. ASSUME NEW i \in Nat, i = n + 1 PROVE Put(i)' = x
    <3>1. ~ (i <= Len(taken)) /\ i - Len(taken) - 1 = bq.size
      BY <2>2, <2>9
    <3> QED
      BY <1>1, <2>6, <3>1 DEF Put
  <2>10. /\ \A i \in 1 .. n : g[i] = f[i]
         /\ g[n + 1] = x
    <3>1. n + 1 \in Nat /\ n + 1 \in 1 .. n + 1 /\ \A i \in 1 .. n : i \in 1 .. n + 1
      BY <2>2
    <3>2. g = [i \in 1 .. n + 1 |-> Put(i)']
      BY <2>7 DEF AllPut
    <3>3. f = [i \in 1 .. n |-> Put(i)]
      BY DEF AllPut
    <3>4. g[n + 1] = x
      BY <2>9, <3>1, <3>2
    <3>5. \A i \in 1 .. n : g[i] = f[i]
      BY <2>8, <3>1, <3>2, <3>3
    <3> QED
      BY <3>4, <3>5
  <2>11. /\ \A i \in 1 .. n : f[i] \in QueueItem /\ f[i][2] = Number(f, f[i][1], i)
         /\ \A u \in Producers : produced[u] = Number(f, u, n)
    BY DEF BqInv
  <2> HIDE DEF f, g, n
  <2>12. \A u, i : i \in Nat /\ i <= n => Number(g, u, i) = Number(f, u, i)
    <3> SUFFICES ASSUME NEW u, NEW i \in Nat, i <= n PROVE Number(g, u, i) = Number(f, u, i)
      OBVIOUS
    <3>1. \A k \in 1 .. i : g[k] = f[k]
      BY <2>2, <2>10
    <3> QED
      BY <3>1, NumberIsLocal
  <2>13. \A u \in Producers : Number(g, u, n + 1) = IF u = p THEN produced[u] + 1 ELSE produced[u]
    <3> SUFFICES ASSUME NEW u \in Producers
                 PROVE  Number(g, u, n + 1) = IF u = p THEN produced[u] + 1 ELSE produced[u]
      OBVIOUS
    <3>1. Number(g, u, n) = produced[u]
      BY <2>2, <2>11, <2>12
    <3>2. Number(g, u, n + 1) = IF g[n + 1][1] = u THEN Number(g, u, n) + 1 ELSE Number(g, u, n)
      <4>1. n \in Nat
        BY <2>2
      <4> QED
        BY <4>1, NumberGrows
    <3> QED
      BY <2>5, <2>10, <3>1, <3>2
  <2>14. \A u \in Producers : produced'[u] = Number(g, u, n + 1)
    BY <2>1, <2>4, <2>13
  <2>15. ASSUME NEW i \in 1 .. n + 1
         PROVE  g[i] \in QueueItem /\ g[i][2] = Number(g, g[i][1], i)
    <3>1. CASE i \in 1 .. n
      <4>1. i \in Nat /\ i <= n /\ g[i] = f[i]
        BY <2>2, <2>10, <3>1
      <4> QED
        BY <2>11, <2>12, <3>1, <4>1
    <3>2. CASE i = n + 1
      <4>1. Number(g, p, n + 1) = produced[p] + 1
        BY <2>13
      <4> QED
        BY <2>5, <2>10, <3>2, <4>1
    <3> QED
      BY <2>2, <3>1, <3>2
  <2>16. BqTypeOK'
    BY <1>1, <2>1, <2>4, <2>6 DEF BqInv, BqTypeOK, BqRecord
  <2> QED
    BY <1>1, <2>6, <2>7, <2>14, <2>15, <2>16 DEF BqInv, g
<1> QED
  BY <1>2, <1>3

LEMMA BqTakeStep ==
    ASSUME BqInv, NEW c \in Consumers, bq_take(c)
    PROVE  BqInv'
<1>1. produced' = produced /\ bq.tail = Ahead(bq.head, bq.size)
  BY DEF bq_take, BqInv
<1>2. CASE bq.size > 0
  <2> DEFINE x == bq.items[bq.head]
  <2>1. /\ bq' = Drawn(bq) /\ taken' = Append(taken, x) /\ asleep' = {} /\ consumer' = consumer
    BY <1>2 DEF bq_take, monitor_notify_all, Drawn
  <2>2. /\ QUEUE_CAPACITY \in Nat /\ QUEUE_CAPACITY > 0 /\ bq \in BqRecord
        /\ bq.head \in 0 .. QUEUE_CAPACITY - 1 /\ bq.size \in 0 .. QUEUE_CAPACITY
        /\ taken \in Seq(QueueItem) /\ Len(taken) \in Nat
        /\ PutTotal \in Nat /\ PutTotal = Len(taken) + bq.size
    BY BqTyped
  <2>3. /\ bq' \in BqRecord /\ bq'.items = bq.items /\ bq'.tail = bq.tail /\ bq'.closed = bq.closed
        /\ bq'.head = Ahead(bq.head, 1) /\ bq'.size = bq.size - 1
    BY <1>2, <2>1, <2>2, DrawnIs
  <2>4. Ahead(bq.head, 0) = bq.head
    <3>1. 0 \in 0 .. QUEUE_CAPACITY /\ bq.head + 0 = bq.head /\ bq.head < QUEUE_CAPACITY
      BY <2>2
    <3>2. Ahead(bq.head, 0) = IF bq.head + 0 < QUEUE_CAPACITY THEN bq.head + 0 ELSE bq.head + 0 - QUEUE_CAPACITY
      BY <2>2, <3>1, AheadIs
    <3> QED
      BY <3>1, <3>2
  <2>5. Put(Len(taken) + 1) = x /\ Len(taken) + 1 \in 1 .. PutTotal
    <3>1. ~ (Len(taken) + 1 <= Len(taken)) /\ (Len(taken) + 1) - Len(taken) - 1 = 0
      BY <2>2
    <3>2. Len(taken) + 1 \in 1 .. PutTotal
      BY <1>2, <2>2
    <3> QED
      BY <2>4, <3>1, <3>2 DEF Put
  <2>6. x \in QueueItem
    <3>1. \A i \in 1 .. PutTotal : Put(i) \in QueueItem
      BY DEF BqInv, AllPut
    <3> QED
      BY <2>5, <3>1
  <2> HIDE DEF x
  <2>7. /\ taken' \in Seq(QueueItem) /\ Len(taken') = Len(taken) + 1 /\ taken'[Len(taken) + 1] = x
        /\ \A i \in 1 .. Len(taken) : taken'[i] = taken[i]
    BY <2>1, <2>2, <2>6, AppendProperties
  <2>8. PutTotal' = PutTotal
    <3>1. PutTotal' = (Len(taken) + 1) + (bq.size - 1)
      BY <2>3, <2>7 DEF PutTotal
    <3>2. bq.size \in Nat
      BY <2>2
    <3> QED
      BY <2>2, <3>1, <3>2
  <2>9. ASSUME NEW i \in 1 .. PutTotal PROVE Put(i)' = Put(i)
    <3>1. CASE i <= Len(taken)
      <4>1. i \in 1 .. Len(taken) /\ i <= Len(taken')
        BY <2>2, <2>7, <3>1
      <4> QED
        BY <2>7, <3>1, <4>1 DEF Put
    <3>2. CASE i = Len(taken) + 1
      <4>1. i <= Len(taken')
        BY <2>2, <2>7, <3>2
      <4> QED
        BY <2>5, <2>7, <3>2, <4>1 DEF Put
    <3>3. CASE i > Len(taken) + 1
      <4> DEFINE k == i - Len(taken) - 2
      <4>1. /\ ~ (i <= Len(taken)) /\ ~ (i <= Len(taken'))
            /\ i - Len(taken') - 1 = k /\ i - Len(taken) - 1 = 1 + k
        BY <2>2, <2>7, <3>3
      <4>2. 1 \in 0 .. QUEUE_CAPACITY /\ k \in 0 .. QUEUE_CAPACITY - 1
        BY <2>2, <3>3
      <4> HIDE DEF k
      <4>3. Ahead(Ahead(bq.head, 1), k) = Ahead(bq.head, 1 + k)
        BY <2>2, <4>2, AheadTwice
      <4>4. Put(i)' = bq'.items[Ahead(bq'.head, k)]
        BY <4>1 DEF Put
      <4>5. Put(i) = bq.items[Ahead(bq.head, 1 + k)]
        BY <4>1 DEF Put
      <4> QED
        BY <2>3, <4>3, <4>4, <4>5
    <3> QED
      BY <2>2, <3>1, <3>2, <3>3
  <2>10. BqTypeOK'
    BY <1>1, <2>1, <2>3, <2>7 DEF BqInv, BqTypeOK, BqRecord
  <2>11. (bq.tail = Ahead(bq.head, bq.size))'
    <3>1. 1 \in 0 .. QUEUE_CAPACITY /\ bq.size - 1 \in 0 .. QUEUE_CAPACITY - 1 /\ 1 + (bq.size - 1) = bq.size
      BY <1>2, <2>2
    <3>2. Ahead(Ahead(bq.head, 1), bq.size - 1) = Ahead(bq.head, bq.size)
      BY <2>2, <3>1, AheadTwice
    <3> QED
      BY <1>1, <2>3, <3>2
  <2>12. (bq.closed => \A u \in Producers : produced[u] = ITEMS)'
    BY <1>1, <2>3 DEF BqInv
  <2> QED
    BY <1>1, <2>8, <2>9, <2>10, <2>11, <2>12, NothingNew
<1>3. CASE ~ (bq.size > 0)
  <2>1. bq' = bq /\ taken' = taken
    BY <1>3 DEF bq_take
  <2>2. BqTypeOK'
    BY <1>1, <1>3, <2>1 DEF bq_take, monitor_wait, BqInv, BqTypeOK
  <2>3. PutTotal' = PutTotal /\ \A i \in 1 .. PutTotal : Put(i)' = Put(i)
    BY <2>1 DEF PutTotal, Put
  <2>4. (bq.tail = Ahead(bq.head, bq.size))' /\ (bq.closed => \A u \in Producers : produced[u] = ITEMS)'
    BY <1>1, <2>1 DEF BqInv
  <2> QED
    BY <1>1, <2>2, <2>3, <2>4, NothingNew
<1> QED
  BY <1>2, <1>3

LEMMA BqStep == BqInv /\ [BqNext]_bqVars => BqInv'
<1> SUFFICES ASSUME BqInv, [BqNext]_bqVars PROVE BqInv'
  OBVIOUS
<1>1. ASSUME bq_close PROVE BqInv'
  <2>1. /\ bq' = [bq EXCEPT !.closed = TRUE] /\ asleep' = {} /\ produced' = produced
        /\ consumer' = consumer /\ taken' = taken /\ \A p \in Producers : produced[p] = ITEMS
    BY <1>1 DEF bq_close, monitor_notify_all
  <2>2. /\ bq' \in BqRecord /\ bq'.items = bq.items /\ bq'.head = bq.head /\ bq'.tail = bq.tail
        /\ bq'.size = bq.size
    BY <2>1, BqTyped DEF BqRecord
  <2>3. BqTypeOK'
    BY <2>1, <2>2 DEF BqInv, BqTypeOK, BqRecord
  <2>4. PutTotal' = PutTotal /\ \A i \in 1 .. PutTotal : Put(i)' = Put(i)
    BY <2>1, <2>2 DEF PutTotal, Put
  <2>5. (bq.tail = Ahead(bq.head, bq.size))' /\ (bq.closed => \A u \in Producers : produced[u] = ITEMS)'
    BY <2>1, <2>2 DEF BqInv
  <2> QED
    BY <2>1, <2>3, <2>4, <2>5, NothingNew
<1>2. ASSUME BqSpuriousWakeUp PROVE BqInv'
  <2>1. /\ asleep' \subseteq asleep /\ bq' = bq /\ produced' = produced
        /\ consumer' = consumer /\ taken' = taken
    BY <1>2 DEF BqSpuriousWakeUp
  <2>2. BqTypeOK'
    BY <2>1 DEF BqInv, BqTypeOK
  <2>3. PutTotal' = PutTotal /\ \A i \in 1 .. PutTotal : Put(i)' = Put(i)
    BY <2>1 DEF PutTotal, Put
  <2>4. (bq.tail = Ahead(bq.head, bq.size))' /\ (bq.closed => \A u \in Producers : produced[u] = ITEMS)'
    BY <2>1 DEF BqInv
  <2> QED
    BY <2>1, <2>2, <2>3, <2>4, NothingNew
<1>3. CASE UNCHANGED bqVars
  <2>1. bq' = bq /\ asleep' = asleep /\ produced' = produced /\ consumer' = consumer /\ taken' = taken
    BY <1>3 DEF bqVars
  <2>2. BqTypeOK'
    BY <2>1 DEF BqInv, BqTypeOK
  <2>3. PutTotal' = PutTotal /\ \A i \in 1 .. PutTotal : Put(i)' = Put(i)
    BY <2>1 DEF PutTotal, Put
  <2>4. (bq.tail = Ahead(bq.head, bq.size))' /\ (bq.closed => \A u \in Producers : produced[u] = ITEMS)'
    BY <2>1 DEF BqInv
  <2> QED
    BY <2>1, <2>2, <2>3, <2>4, NothingNew
<1> QED
  BY <1>1, <1>2, <1>3, BqPutStep, BqTakeStep DEF BqNext

LEMMA BqStart == BqInit => BqInv
<1> SUFFICES ASSUME BqInit PROVE BqInv
  OBVIOUS
<1>1. QUEUE_CAPACITY \in Nat /\ QUEUE_CAPACITY > 0 /\ ITEMS \in Nat
  BY QueueConstants
<1>2. /\ bq = [items |-> [i \in 0 .. QUEUE_CAPACITY - 1 |-> NoItem],
                head |-> 0, tail |-> 0, size |-> 0, closed |-> FALSE]
      /\ taken = << >> /\ asleep = {} /\ produced = [p \in Producers |-> 0]
      /\ consumer = [c \in Consumers |-> "running"]
  BY DEF BqInit
<1>3. BqTypeOK
  BY <1>1, <1>2 DEF BqTypeOK
<1>4. Ahead(0, 0) = 0
  <2>1. 0 \in 0 .. QUEUE_CAPACITY - 1 /\ 0 \in 0 .. QUEUE_CAPACITY
    BY <1>1
  <2> QED
    BY <1>1, <2>1, AheadIs
<1>5. PutTotal = 0
  BY <1>2 DEF PutTotal
<1>6. \A p \in Producers : Number(AllPut, p, 0) = 0
  BY FS_EmptySet DEF Number
<1> QED
  BY <1>2, <1>3, <1>4, <1>5, <1>6 DEF BqInv

\* For any numbers of producers, consumers and items and any capacity: what is taken
\* n-th of a producer's items is its item n, so nothing is lost, taken twice or taken
\* out of order, although the ring wraps (mutex_monitor.c:127-180).
THEOREM ItemsKeepTheirOrder == BqSpec => [](BqTypeOK /\ TakenInOrder)
<1>1. BqInv => BqTypeOK /\ TakenInOrder
  <2> SUFFICES ASSUME BqInv PROVE TakenInOrder
    BY DEF BqInv
  <2> SUFFICES ASSUME NEW i \in 1 .. Len(taken)
               PROVE  taken[i][2] = Number(taken, taken[i][1], i)
    BY DEF TakenInOrder, Number
  <2>1. Len(taken) \in Nat /\ PutTotal \in Nat /\ Len(taken) <= PutTotal
    BY BqTyped
  <2>2. \A k \in 1 .. i : k \in 1 .. Len(taken) /\ k \in 1 .. PutTotal
    BY <2>1
  <2>3. \A k \in 1 .. i : AllPut[k] = taken[k]
    BY <2>2 DEF AllPut, Put
  <2>4. AllPut[i][2] = Number(AllPut, AllPut[i][1], i) /\ AllPut[i] = taken[i]
    BY <2>1, <2>2, <2>3 DEF BqInv
  <2>5. i \in Nat
    BY <2>1
  <2>6. Number(AllPut, taken[i][1], i) = Number(taken, taken[i][1], i)
    BY <2>3, <2>5, NumberIsLocal
  <2> QED
    BY <2>4, <2>6
<1> QED
  BY <1>1, BqStart, BqStep, PTL DEF BqSpec

-----------------------------------------------------------------------------
(* The pool of asynchronous requests                                       *)

Queued(r) == \E i \in 1 .. Len(pool.tasks) : pool.tasks[i] = r
Carried(r) == \E w \in Workers : worker[w] = r

\* A request that runs has left no email behind; the email of one that has ended is
\* in one place only, in the queue, with a worker, or sent.
EmailPlaced ==
    /\ \A i, j \in 1 .. Len(pool.tasks) : pool.tasks[i] = pool.tasks[j] => i = j
    /\ \A v, w \in Workers : worker[v] = worker[w] /\ worker[w] \in Requests => v = w
    /\ \A r \in Requests :
          /\ mailed[r] \in {0, 1}
          /\ Queued(r) => request[r] = "ended" /\ mailed[r] = 0 /\ ~ Carried(r)
          /\ Carried(r) => request[r] = "ended" /\ mailed[r] = 0
          /\ mailed[r] = 1 => request[r] = "ended"
          /\ request[r] = "ended" => Queued(r) \/ Carried(r) \/ mailed[r] = 1

AsyncClosing ==
    /\ pool.closed => \A r \in Requests : request[r] = "ended"
    /\ \A w \in Workers : worker[w] = "ended" => pool.closed /\ pool.tasks = << >>
    /\ pool.freed => pool.closed /\ \A w \in Workers : worker[w] = "ended"

AsyncInv == AsyncTypeOK /\ EmailPlaced /\ AsyncClosing

PoolRecord == [tasks : Seq(Requests), closed : BOOLEAN, freed : BOOLEAN]

LEMMA AsyncTyped ==
    ASSUME AsyncInv
    PROVE  /\ pool \in PoolRecord /\ pool.tasks \in Seq(Requests) /\ Len(pool.tasks) \in Nat
           /\ pool.closed \in BOOLEAN /\ pool.freed \in BOOLEAN
           /\ worker \in [Workers -> Requests \cup {NoTask, "ended"}]
           /\ request \in [Requests -> {"running", "ended"}]
           /\ mailed \in [Requests -> Nat]
           /\ asleep_workers \subseteq Workers
           /\ "ended" \notin Requests /\ NoTask \notin Requests /\ NoTask # "ended"
BY AsyncConstants DEF AsyncInv, AsyncTypeOK, PoolRecord

LEMMA SubmitStep ==
    ASSUME AsyncInv, NEW r \in Requests, async_submit(r)
    PROVE  AsyncInv' /\ Executor!Accept(r)
<1> DEFINE s == pool.tasks
           z == Append(s, r)
<1>1. /\ request[r] = "running" /\ pool' = [pool EXCEPT !.tasks = z] /\ not_empty_signal
      /\ request' = [request EXCEPT ![r] = "ended"] /\ worker' = worker /\ mailed' = mailed
  BY DEF async_submit
<1>2. /\ pool \in PoolRecord /\ s \in Seq(Requests) /\ Len(s) \in Nat /\ pool.closed \in BOOLEAN
      /\ worker \in [Workers -> Requests \cup {NoTask, "ended"}]
      /\ request \in [Requests -> {"running", "ended"}] /\ mailed \in [Requests -> Nat]
      /\ asleep_workers \subseteq Workers
  BY AsyncTyped
<1>3. /\ z \in Seq(Requests) /\ Len(z) = Len(s) + 1 /\ z[Len(s) + 1] = r
      /\ \A i \in 1 .. Len(s) : z[i] = s[i]
  BY <1>2, AppendProperties
<1>4. ~ pool.closed
  BY <1>1 DEF AsyncInv, AsyncClosing
<1> HIDE DEF z
<1>5. /\ pool' \in PoolRecord /\ pool'.tasks = z /\ pool'.closed = pool.closed /\ pool'.freed = pool.freed
  BY <1>1, <1>2, <1>3 DEF PoolRecord
<1>6. asleep_workers' \subseteq asleep_workers
  BY <1>1 DEF not_empty_signal
<1>7. AsyncTypeOK'
  BY <1>1, <1>2, <1>5, <1>6 DEF AsyncTypeOK, PoolRecord
<1>8. ~ Queued(r) /\ ~ Carried(r) /\ mailed[r] = 0
  BY <1>1 DEF AsyncInv, EmailPlaced
<1>9. AsyncClosing'
  <2>1. ~ pool'.closed /\ ~ pool'.freed
    BY <1>4, <1>5 DEF AsyncInv, AsyncClosing
  <2>2. \A w \in Workers : worker'[w] # "ended"
    BY <1>1, <1>4 DEF AsyncInv, AsyncClosing
  <2> QED
    BY <2>1, <2>2 DEF AsyncClosing
<1>10. \A u \in Requests : Queued(u)' <=> (u = r \/ Queued(u))
  <2> SUFFICES ASSUME NEW u \in Requests PROVE Queued(u)' <=> (u = r \/ Queued(u))
    OBVIOUS
  <2>1. ASSUME NEW i \in 1 .. Len(z), z[i] = u PROVE u = r \/ Queued(u)
    <3>1. CASE i = Len(s) + 1
      BY <1>3, <2>1, <3>1
    <3>2. CASE i # Len(s) + 1
      <4>1. i \in 1 .. Len(s)
        BY <1>2, <1>3, <3>2, SMTT(30)
      <4> QED
        BY <1>3, <2>1, <4>1 DEF Queued
    <3> QED
      BY <3>1, <3>2
  <2>2. u = r => Queued(u)'
    <3>1. Len(s) + 1 \in 1 .. Len(z)
      BY <1>2, <1>3
    <3> QED
      BY <1>3, <1>5, <3>1 DEF Queued
  <2>3. ASSUME NEW i \in 1 .. Len(s), s[i] = u PROVE Queued(u)'
    <3>1. i \in 1 .. Len(z)
      BY <1>2, <1>3
    <3>2. z[i] = u
      BY <1>3, <2>3
    <3> QED
      BY <1>5, <3>1, <3>2 DEF Queued
  <2> QED
    BY <1>5, <2>1, <2>2, <2>3 DEF Queued
<1>11. \A u \in Requests : Carried(u)' <=> Carried(u)
  BY <1>1 DEF Carried
<1>12. EmailPlaced'
  <2>1. ASSUME NEW i \in 1 .. Len(z), NEW j \in 1 .. Len(z), z[i] = z[j] PROVE i = j
    <3>1. ASSUME NEW k \in 1 .. Len(z), k # Len(s) + 1 PROVE k \in 1 .. Len(s) /\ z[k] = s[k] /\ s[k] # r
      <4>1. k \in 1 .. Len(s)
        BY <1>2, <1>3, <3>1, SMTT(30)
      <4>2. z[k] = s[k]
        BY <1>3, <4>1
      <4> QED
        BY <1>8, <4>1, <4>2 DEF Queued
    <3>2. CASE i = Len(s) + 1 \/ j = Len(s) + 1
      BY <1>3, <2>1, <3>1, <3>2
    <3>3. CASE i # Len(s) + 1 /\ j # Len(s) + 1
      BY <2>1, <3>1, <3>3 DEF AsyncInv, EmailPlaced
    <3> QED
      BY <3>2, <3>3
  <2>2. \A v, w \in Workers : worker'[v] = worker'[w] /\ worker'[w] \in Requests => v = w
    BY <1>1 DEF AsyncInv, EmailPlaced
  <2>3. ASSUME NEW u \in Requests
        PROVE  /\ mailed'[u] \in {0, 1}
               /\ Queued(u)' => request'[u] = "ended" /\ mailed'[u] = 0 /\ ~ Carried(u)'
               /\ Carried(u)' => request'[u] = "ended" /\ mailed'[u] = 0
               /\ mailed'[u] = 1 => request'[u] = "ended"
               /\ request'[u] = "ended" => Queued(u)' \/ Carried(u)' \/ mailed'[u] = 1
    <3>1. CASE u = r
      BY <1>1, <1>2, <1>8, <1>10, <1>11, <3>1
    <3>2. CASE u # r
      BY <1>1, <1>2, <1>10, <1>11, <3>2 DEF AsyncInv, EmailPlaced
    <3> QED
      BY <3>1, <3>2
  <2> QED
    BY <1>5, <2>1, <2>2, <2>3 DEF EmailPlaced
<1>13. Executor!Accept(r)
  <2>1. EmailFate(r) = "new" /\ ~ pool'.closed
    BY <1>1, <1>4, <1>5, <1>8 DEF EmailFate
  <2>2. \A u \in Requests : EmailFate(u)' = IF u = r THEN "accepted" ELSE EmailFate(u)
    BY <1>1, <1>2, <1>8 DEF EmailFate
  <2> QED
    BY <1>4, <2>1, <2>2 DEF Executor!Accept
<1> QED
  BY <1>7, <1>9, <1>12, <1>13 DEF AsyncInv

LEMMA WorkStep ==
    ASSUME AsyncInv, NEW w \in Workers, async_worker(w)
    PROVE  AsyncInv' /\ UNCHANGED Executor!executorVars
<1> DEFINE s == pool.tasks
<1>1. /\ worker[w] = NoTask /\ w \notin asleep_workers /\ request' = request /\ mailed' = mailed
  BY DEF async_worker
<1>2. /\ pool \in PoolRecord /\ s \in Seq(Requests) /\ Len(s) \in Nat /\ pool.closed \in BOOLEAN
      /\ worker \in [Workers -> Requests \cup {NoTask, "ended"}]
      /\ request \in [Requests -> {"running", "ended"}] /\ mailed \in [Requests -> Nat]
      /\ asleep_workers \subseteq Workers
      /\ "ended" \notin Requests /\ NoTask \notin Requests /\ NoTask # "ended"
  BY AsyncTyped
<1>3. pool'.closed = pool.closed => UNCHANGED Executor!executorVars
  BY <1>1 DEF Executor!executorVars, EmailFate
<1>4. CASE s # << >>
  <2> DEFINE r == Head(s)
             z == Tail(s)
  <2>1. /\ worker' = [worker EXCEPT ![w] = r] /\ pool' = [pool EXCEPT !.tasks = z]
        /\ asleep_workers' = asleep_workers
    BY <1>4 DEF async_worker
  <2>2. /\ Len(s) > 0 /\ r = s[1] /\ z \in Seq(Requests) /\ Len(z) = Len(s) - 1
        /\ \A i \in 1 .. Len(s) - 1 : z[i] = s[i + 1]
    BY <1>2, <1>4, HeadTailProperties, EmptySeq
  <2>3. r \in Requests /\ 1 \in 1 .. Len(s)
    BY <1>2, <2>2, ElementOfSeq
  <2> HIDE DEF r, z
  <2>4. pool' \in PoolRecord /\ pool'.tasks = z /\ pool'.closed = pool.closed /\ pool'.freed = pool.freed
    BY <1>2, <2>1, <2>2 DEF PoolRecord
  <2>5. /\ worker' \in [Workers -> Requests \cup {NoTask, "ended"}] /\ worker'[w] = r
        /\ \A v \in Workers : v # w => worker'[v] = worker[v]
    BY <1>2, <2>1, <2>3
  <2>6. AsyncTypeOK'
    BY <1>1, <1>2, <2>1, <2>4, <2>5 DEF AsyncTypeOK, PoolRecord
  <2>7. Queued(r) /\ ~ Carried(r) /\ mailed[r] = 0 /\ request[r] = "ended"
    <3>1. Queued(r)
      BY <2>2, <2>3 DEF Queued
    <3> QED
      BY <2>3, <3>1 DEF AsyncInv, EmailPlaced
  <2>8. \A u \in Requests : Queued(u)' <=> u # r /\ Queued(u)
    <3> SUFFICES ASSUME NEW u \in Requests PROVE Queued(u)' <=> u # r /\ Queued(u)
      OBVIOUS
    <3>1. ASSUME NEW i \in 1 .. Len(z), z[i] = u PROVE u # r /\ Queued(u)
      <4>1. i + 1 \in 1 .. Len(s) /\ i \in 1 .. Len(s) - 1 /\ i + 1 # 1
        BY <1>2, <2>2
      <4>2. s[i + 1] = u
        BY <2>2, <3>1, <4>1
      <4>3. s[i + 1] # s[1]
        BY <2>3, <4>1 DEF AsyncInv, EmailPlaced
      <4> QED
        BY <2>2, <4>1, <4>2, <4>3 DEF Queued
    <3>2. ASSUME NEW i \in 1 .. Len(s), s[i] = u, u # r PROVE Queued(u)'
      <4>0. i # 1 /\ Len(s) \in Nat
        BY <1>2, <2>2, <3>2
      <4>1. i - 1 \in 1 .. Len(z) /\ i - 1 \in 1 .. Len(s) - 1 /\ (i - 1) + 1 = i
        BY <2>2, <3>2, <4>0
      <4>2. z[i - 1] = u
        BY <2>2, <3>2, <4>1
      <4> QED
        BY <2>4, <4>1, <4>2 DEF Queued
    <3> QED
      BY <2>4, <3>1, <3>2 DEF Queued
  <2>9. \A u \in Requests : Carried(u)' <=> u = r \/ Carried(u)
    BY <1>1, <1>2, <2>3, <2>5 DEF Carried
  <2>10. EmailPlaced'
    <3>1. ASSUME NEW i \in 1 .. Len(z), NEW j \in 1 .. Len(z), z[i] = z[j] PROVE i = j
      <4>0. ASSUME NEW k \in 1 .. Len(z) PROVE k + 1 \in 1 .. Len(s) /\ k \in 1 .. Len(s) - 1
        <5> DEFINE m == Len(s)
        <5>1. m \in Nat /\ Len(z) = m - 1
          BY <1>2, <2>2
        <5> HIDE DEF m
        <5>2. k \in 1 .. m - 1 /\ k + 1 \in 1 .. m
          BY <5>1
        <5> QED
          BY <5>2 DEF m
      <4>1. /\ i + 1 \in 1 .. Len(s) /\ i \in 1 .. Len(s) - 1
            /\ j + 1 \in 1 .. Len(s) /\ j \in 1 .. Len(s) - 1
        BY <4>0
      <4>2. s[i + 1] = s[j + 1]
        BY <2>2, <3>1, <4>1
      <4>3. i + 1 = j + 1
        BY <4>1, <4>2 DEF AsyncInv, EmailPlaced
      <4> QED
        BY <4>3
    <3>2. \A v, u \in Workers : worker'[v] = worker'[u] /\ worker'[u] \in Requests => v = u
      <4>1. \A v \in Workers : worker[v] # r
        BY <2>7 DEF Carried
      <4> QED
        BY <2>5, <4>1 DEF AsyncInv, EmailPlaced
    <3>3. ASSUME NEW u \in Requests
          PROVE  /\ mailed'[u] \in {0, 1}
                 /\ Queued(u)' => request'[u] = "ended" /\ mailed'[u] = 0 /\ ~ Carried(u)'
                 /\ Carried(u)' => request'[u] = "ended" /\ mailed'[u] = 0
                 /\ mailed'[u] = 1 => request'[u] = "ended"
                 /\ request'[u] = "ended" => Queued(u)' \/ Carried(u)' \/ mailed'[u] = 1
      <4>1. CASE u = r
        BY <1>1, <2>7, <2>8, <2>9, <4>1
      <4>2. CASE u # r
        BY <1>1, <2>8, <2>9, <4>2 DEF AsyncInv, EmailPlaced
      <4> QED
        BY <4>1, <4>2
    <3> QED
      BY <2>4, <3>1, <3>2, <3>3 DEF EmailPlaced
  <2>11. AsyncClosing'
    <3>1. \A v \in Workers : worker[v] # "ended"
      BY <1>4 DEF AsyncInv, AsyncClosing
    <3>2. \A v \in Workers : worker'[v] # "ended"
      BY <1>2, <2>3, <2>5, <3>1
    <3>3. ~ pool.freed
      BY <3>1, AsyncConstants DEF AsyncInv, AsyncClosing
    <3> QED
      BY <1>1, <2>4, <3>2, <3>3 DEF AsyncInv, AsyncClosing
  <2> QED
    BY <1>3, <2>4, <2>6, <2>10, <2>11 DEF AsyncInv
<1>5. CASE s = << >>
  <2>1. pool' = pool
    BY <1>5 DEF async_worker
  <2>2. CASE pool.closed
    <3>1. worker' = [worker EXCEPT ![w] = "ended"] /\ asleep_workers' = asleep_workers
      BY <1>5, <2>2 DEF async_worker
    <3>2. /\ worker' \in [Workers -> Requests \cup {NoTask, "ended"}] /\ worker'[w] = "ended"
          /\ \A v \in Workers : v # w => worker'[v] = worker[v]
      BY <1>2, <3>1
    <3>3. AsyncTypeOK'
      BY <1>1, <1>2, <2>1, <3>1, <3>2 DEF AsyncTypeOK, PoolRecord
    <3>4. \A u \in Requests : (Queued(u)' <=> Queued(u)) /\ (Carried(u)' <=> Carried(u))
      BY <1>1, <1>2, <2>1, <3>2 DEF Queued, Carried
    <3>5. EmailPlaced'
      <4>1. \A v, u \in Workers : worker'[v] = worker'[u] /\ worker'[u] \in Requests => v = u
        BY <1>2, <3>2 DEF AsyncInv, EmailPlaced
      <4> QED
        BY <1>1, <2>1, <3>4, <4>1 DEF AsyncInv, EmailPlaced
    <3>6. AsyncClosing'
      BY <1>1, <1>5, <2>1, <2>2, <3>2 DEF AsyncInv, AsyncClosing
    <3> QED
      BY <1>3, <2>1, <3>3, <3>5, <3>6 DEF AsyncInv
  <2>3. CASE ~ pool.closed
    <3>1. worker' = worker /\ asleep_workers' = asleep_workers \cup {w}
      BY <1>5, <2>3 DEF async_worker
    <3>2. AsyncTypeOK'
      BY <1>1, <2>1, <3>1 DEF AsyncInv, AsyncTypeOK
    <3>3. \A u \in Requests : (Queued(u)' <=> Queued(u)) /\ (Carried(u)' <=> Carried(u))
      BY <2>1, <3>1 DEF Queued, Carried
    <3>4. EmailPlaced'
      BY <1>1, <2>1, <3>1, <3>3 DEF AsyncInv, EmailPlaced
    <3>5. AsyncClosing'
      BY <1>1, <2>1, <3>1 DEF AsyncInv, AsyncClosing
    <3> QED
      BY <1>3, <2>1, <3>2, <3>4, <3>5 DEF AsyncInv
  <2> QED
    BY <2>2, <2>3
<1> QED
  BY <1>4, <1>5

LEMMA SendStep ==
    ASSUME AsyncInv, NEW w \in Workers, async_send_email(w)
    PROVE  AsyncInv' /\ Executor!Execute(worker[w])
<1> DEFINE r == worker[w]
<1>1. /\ r \in Requests /\ mailed' = [mailed EXCEPT ![r] = @ + 1]
      /\ worker' = [worker EXCEPT ![w] = NoTask]
      /\ pool' = pool /\ asleep_workers' = asleep_workers /\ request' = request
  BY DEF async_send_email
<1>2. /\ worker \in [Workers -> Requests \cup {NoTask, "ended"}]
      /\ request \in [Requests -> {"running", "ended"}] /\ mailed \in [Requests -> Nat]
      /\ "ended" \notin Requests /\ NoTask \notin Requests /\ NoTask # "ended"
  BY AsyncTyped
<1>3. Carried(r) /\ ~ Queued(r) /\ mailed[r] = 0 /\ request[r] = "ended"
  <2>1. Carried(r)
    BY DEF Carried
  <2> QED
    BY <1>1, <2>1 DEF AsyncInv, EmailPlaced
<1>4. \A v \in Workers : v # w => worker[v] # r
  BY <1>1 DEF AsyncInv, EmailPlaced
<1>5. /\ mailed' \in [Requests -> Nat] /\ mailed'[r] = 1
      /\ \A u \in Requests : u # r => mailed'[u] = mailed[u]
  BY <1>1, <1>2, <1>3
<1>6. /\ worker' \in [Workers -> Requests \cup {NoTask, "ended"}] /\ worker'[w] = NoTask
      /\ \A v \in Workers : v # w => worker'[v] = worker[v]
  BY <1>1, <1>2
<1> HIDE DEF r
<1>7. \A u \in Requests : (Queued(u)' <=> Queued(u)) /\ (Carried(u)' <=> u # r /\ Carried(u))
  BY <1>1, <1>2, <1>4, <1>6 DEF Queued, Carried, r
<1>8. AsyncTypeOK'
  BY <1>1, <1>5, <1>6 DEF AsyncInv, AsyncTypeOK
<1>9. EmailPlaced'
  <2>1. \A v, u \in Workers : worker'[v] = worker'[u] /\ worker'[u] \in Requests => v = u
    BY <1>2, <1>6 DEF AsyncInv, EmailPlaced
  <2>2. ASSUME NEW u \in Requests
        PROVE  /\ mailed'[u] \in {0, 1}
               /\ Queued(u)' => request'[u] = "ended" /\ mailed'[u] = 0 /\ ~ Carried(u)'
               /\ Carried(u)' => request'[u] = "ended" /\ mailed'[u] = 0
               /\ mailed'[u] = 1 => request'[u] = "ended"
               /\ request'[u] = "ended" => Queued(u)' \/ Carried(u)' \/ mailed'[u] = 1
    <3>1. CASE u = r
      BY <1>1, <1>3, <1>5, <1>7, <3>1
    <3>2. CASE u # r
      BY <1>1, <1>5, <1>7, <3>2 DEF AsyncInv, EmailPlaced
    <3> QED
      BY <3>1, <3>2
  <2> QED
    BY <1>1, <2>1, <2>2 DEF AsyncInv, EmailPlaced
<1>10. AsyncClosing'
  <2>1. \A v \in Workers : worker'[v] = "ended" => worker[v] = "ended"
    BY <1>2, <1>6
  <2>2. ~ pool.freed
    <3>1. worker[w] # "ended"
      BY <1>1, <1>2 DEF r
    <3> QED
      BY <3>1 DEF AsyncInv, AsyncClosing
  <2> QED
    BY <1>1, <2>1, <2>2 DEF AsyncInv, AsyncClosing
<1>11. Executor!Execute(r)
  <2>1. EmailFate(r) = "accepted"
    BY <1>3 DEF EmailFate
  <2>2. \A u \in Requests : EmailFate(u)' = IF u = r THEN "executed" ELSE EmailFate(u)
    BY <1>1, <1>5 DEF EmailFate
  <2> QED
    BY <1>1, <2>1, <2>2 DEF Executor!Execute
<1> QED
  BY <1>8, <1>9, <1>10, <1>11 DEF AsyncInv, r

LEMMA AsyncStep ==
    AsyncInv /\ [AsyncNext]_asyncVars => AsyncInv' /\ [Executor!ExecutorNext]_Executor!executorVars
<1> SUFFICES ASSUME AsyncInv, [AsyncNext]_asyncVars
             PROVE  AsyncInv' /\ [Executor!ExecutorNext]_Executor!executorVars
  OBVIOUS
<1>1. ASSUME NEW r \in Requests, async_submit(r)
      PROVE  AsyncInv' /\ [Executor!ExecutorNext]_Executor!executorVars
  BY <1>1, SubmitStep DEF Executor!ExecutorNext
<1>2. ASSUME NEW w \in Workers, async_worker(w)
      PROVE  AsyncInv' /\ [Executor!ExecutorNext]_Executor!executorVars
  BY <1>2, WorkStep
<1>3. ASSUME NEW w \in Workers, async_send_email(w)
      PROVE  AsyncInv' /\ [Executor!ExecutorNext]_Executor!executorVars
  <2>1. worker[w] \in Requests
    BY <1>3 DEF async_send_email
  <2> QED
    BY <1>3, <2>1, SendStep DEF Executor!ExecutorNext
<1>4. ASSUME SpuriousWake
      PROVE  AsyncInv' /\ [Executor!ExecutorNext]_Executor!executorVars
  <2>1. /\ asleep_workers' \subseteq asleep_workers /\ pool' = pool /\ worker' = worker
        /\ request' = request /\ mailed' = mailed
    BY <1>4 DEF SpuriousWake
  <2>2. AsyncInv'
    BY <2>1 DEF AsyncInv, AsyncTypeOK, EmailPlaced, AsyncClosing, Queued, Carried
  <2> QED
    BY <2>1, <2>2 DEF Executor!executorVars, EmailFate
<1>5. ASSUME async_pool_shutdown
      PROVE  AsyncInv' /\ [Executor!ExecutorNext]_Executor!executorVars
  <2>1. /\ pool' = [pool EXCEPT !.closed = TRUE] /\ asleep_workers' = {} /\ worker' = worker
        /\ request' = request /\ mailed' = mailed /\ \A r \in Requests : request[r] = "ended"
    BY <1>5 DEF async_pool_shutdown
  <2>2. /\ pool' \in PoolRecord /\ pool'.tasks = pool.tasks /\ pool'.closed = TRUE
        /\ pool'.freed = pool.freed
    BY <2>1, AsyncTyped DEF PoolRecord
  <2>3. AsyncTypeOK'
    BY <2>1, <2>2 DEF AsyncInv, AsyncTypeOK, PoolRecord
  <2>4. EmailPlaced' /\ AsyncClosing'
    BY <2>1, <2>2 DEF AsyncInv, EmailPlaced, AsyncClosing, Queued, Carried
  <2>5. Executor!Shut
    BY <2>1, <2>2 DEF Executor!Shut, EmailFate
  <2> QED
    BY <2>3, <2>4, <2>5 DEF AsyncInv, Executor!ExecutorNext
<1>6. ASSUME async_pool_destroy
      PROVE  AsyncInv' /\ [Executor!ExecutorNext]_Executor!executorVars
  <2>1. /\ pool' = [pool EXCEPT !.freed = TRUE] /\ asleep_workers' = asleep_workers
        /\ worker' = worker /\ request' = request /\ mailed' = mailed
        /\ pool.closed /\ \A w \in Workers : worker[w] = "ended"
    BY <1>6 DEF async_pool_destroy
  <2>2. /\ pool' \in PoolRecord /\ pool'.tasks = pool.tasks /\ pool'.closed = pool.closed
    BY <2>1, AsyncTyped DEF PoolRecord
  <2>3. AsyncTypeOK'
    BY <2>1, <2>2 DEF AsyncInv, AsyncTypeOK, PoolRecord
  <2>4. EmailPlaced' /\ AsyncClosing'
    BY <2>1, <2>2 DEF AsyncInv, EmailPlaced, AsyncClosing, Queued, Carried
  <2>5. UNCHANGED Executor!executorVars
    BY <2>1, <2>2 DEF Executor!executorVars, EmailFate
  <2> QED
    BY <2>3, <2>4, <2>5 DEF AsyncInv
<1>7. CASE UNCHANGED asyncVars
  <2>1. AsyncInv'
    BY <1>7 DEF asyncVars, AsyncInv, AsyncTypeOK, EmailPlaced, AsyncClosing, Queued, Carried
  <2>2. UNCHANGED Executor!executorVars
    BY <1>7 DEF asyncVars, Executor!executorVars, EmailFate
  <2> QED
    BY <2>1, <2>2
<1> QED
  BY <1>1, <1>2, <1>3, <1>4, <1>5, <1>6, <1>7 DEF AsyncNext

LEMMA AsyncStart == AsyncInit => AsyncInv /\ Executor!ExecutorInit
<1> SUFFICES ASSUME AsyncInit PROVE AsyncInv /\ Executor!ExecutorInit
  OBVIOUS
<1>1. /\ pool = [tasks |-> << >>, closed |-> FALSE, freed |-> FALSE] /\ asleep_workers = {}
      /\ worker = [w \in Workers |-> NoTask] /\ request = [r \in Requests |-> "running"]
      /\ mailed = [r \in Requests |-> 0]
  BY DEF AsyncInit
<1>2. AsyncTypeOK
  BY <1>1 DEF AsyncTypeOK
<1>3. Len(pool.tasks) = 0 /\ \A r \in Requests : ~ Carried(r)
  BY <1>1, AsyncConstants DEF Carried
<1>4. EmailPlaced /\ AsyncClosing
  BY <1>1, <1>3, AsyncConstants DEF EmailPlaced, AsyncClosing, Queued
<1>5. Executor!ExecutorInit
  BY <1>1 DEF Executor!ExecutorInit, EmailFate
<1> QED
  BY <1>2, <1>4, <1>5 DEF AsyncInv

\* For any number of requests and of workers: the pool implements an executor,
\* every email is sent at most once, and the pool is freed only after all of them were
\* sent (async_execution.c:119-178).
THEOREM EmailsAreExecuted ==
    AsyncSpec => /\ Executor!ExecutorInit /\ [][Executor!ExecutorNext]_Executor!executorVars
                 /\ [](AsyncTypeOK /\ MailedOnce)
<1>1. AsyncInv => AsyncTypeOK /\ MailedOnce
  <2> SUFFICES ASSUME AsyncInv PROVE MailedOnce
    BY DEF AsyncInv
  <2>1. \A r \in Requests : mailed[r] <= 1
    BY DEF AsyncInv, EmailPlaced
  <2>2. ASSUME pool.freed, NEW r \in Requests PROVE mailed[r] = 1
    <3>1. pool.tasks = << >> /\ \A w \in Workers : worker[w] = "ended"
      BY <2>2, AsyncConstants DEF AsyncInv, AsyncClosing
    <3>2. ~ Queued(r) /\ ~ Carried(r) /\ request[r] = "ended"
      BY <2>2, <3>1, AsyncConstants DEF AsyncInv, AsyncClosing, Queued, Carried
    <3> QED
      BY <3>2 DEF AsyncInv, EmailPlaced
  <2> QED
    BY <2>1, <2>2 DEF MailedOnce
<1> QED
  BY <1>1, AsyncStart, AsyncStep, PTL DEF AsyncSpec

-----------------------------------------------------------------------------
(* Beans that live once (SpringContainers, phase 1)                          *)

BeanEntry == [name : BeanNames, scope : {"singleton", "prototype"},
              lifecycle : {"registered", "initialized"}, instance : Nat, destroyable : BOOLEAN]

BeanTypeOK ==
    /\ beans \in Seq(BeanEntry)
    /\ initialized \in BOOLEAN /\ closed \in BOOLEAN
    /\ created \in Nat /\ alive \subseteq 1 .. created
    /\ destroyed \in Seq(Nat)
    /\ handed \subseteq [name : BeanNames, bean : Nat]

\* The first entry of a name.
Decides(i, name) ==
    /\ i \in 1 .. Len(beans) /\ beans[i].name = name
    /\ \A j \in 1 .. Len(beans) : beans[j].name = name => i <= j

\* Instances rise with the places of their entries, and whoever was handed one
\* finds it in the entry that decides.
BeanInv ==
    /\ BeanTypeOK
    /\ ~ initialized => /\ created = 0 /\ handed = {} /\ ~ closed
                        /\ \A i \in 1 .. Len(beans) : beans[i].instance = NULL_BEAN
    /\ \A i \in 1 .. Len(beans) : beans[i].instance # NULL_BEAN => beans[i].instance \in alive
    /\ \A i, j \in 1 .. Len(beans) :
          i < j /\ beans[i].instance # NULL_BEAN /\ beans[j].instance # NULL_BEAN
              => beans[i].instance < beans[j].instance
    /\ ~ closed => \A h \in handed : \E i \in 1 .. Len(beans) :
                       Decides(i, h.name) /\ beans[i].instance = h.bean /\ h.bean # NULL_BEAN
    /\ \A g, h \in handed : g.name = h.name => g.bean = h.bean
    /\ \A i, j \in 1 .. Len(destroyed) : i < j => destroyed[i] > destroyed[j]
    /\ alive \cap ToSet(destroyed) = {}
    /\ ~ closed => destroyed = << >>

LEMMA BeansTyped ==
    ASSUME BeanInv
    PROVE  /\ beans \in Seq(BeanEntry) /\ Len(beans) \in Nat /\ DOMAIN beans = 1 .. Len(beans)
           /\ \A i \in 1 .. Len(beans) : beans[i] \in BeanEntry /\ beans[i].instance \in Nat
           /\ initialized \in BOOLEAN /\ closed \in BOOLEAN
           /\ created \in Nat /\ alive \subseteq 1 .. created
           /\ destroyed \in Seq(Nat) /\ Len(destroyed) \in Nat /\ DOMAIN destroyed = 1 .. Len(destroyed)
           /\ handed \subseteq [name : BeanNames, bean : Nat]
<1>1. beans \in Seq(BeanEntry) /\ destroyed \in Seq(Nat)
  BY DEF BeanInv, BeanTypeOK
<1>2. \A i \in 1 .. Len(beans) : beans[i] \in BeanEntry
  BY <1>1, ElementOfSeq
<1> QED
  BY <1>1, <1>2, LenProperties DEF BeanInv, BeanTypeOK, BeanEntry

LEMMA EntryDecides ==
    ASSUME BeanInv, NEW name, Entry(name) # 0
    PROVE  Decides(Entry(name), name)
<1> DEFINE of == {i \in DOMAIN beans : beans[i].name = name}
<1>1. of # {} /\ Entry(name) = CHOOSE i \in of : \A j \in of : i <= j
  BY DEF Entry, Min
<1>2. DOMAIN beans = 1 .. Len(beans) /\ of \subseteq Nat
  BY BeansTyped
<1>3. \E i \in of : \A j \in of : i <= j
  BY <1>1, <1>2, Least
<1>4. Entry(name) \in of /\ \A j \in of : Entry(name) <= j
  BY <1>1, <1>3
<1> QED
  BY <1>2, <1>4 DEF Decides

LEMMA BeanStart ==
    BeanFactoryInit => BeanInv
<1> SUFFICES ASSUME BeanFactoryInit PROVE BeanInv
  OBVIOUS
<1>1. /\ beans = << >> /\ initialized = FALSE /\ closed = FALSE
      /\ created = 0 /\ alive = {} /\ destroyed = << >> /\ handed = {}
  BY DEF BeanFactoryInit
<1>2. /\ beans \in Seq(BeanEntry) /\ Len(beans) = 0
      /\ destroyed \in Seq(Nat) /\ Len(destroyed) = 0
  BY <1>1
<1>3. BeanTypeOK
  BY <1>1, <1>2 DEF BeanTypeOK
<1>4. \A i : i \notin 1 .. 0
  OBVIOUS
<1> QED
  BY <1>1, <1>2, <1>3, <1>4 DEF BeanInv

LEMMA Register ==
    ASSUME BeanInv, NEW name \in BeanNames, NEW scope \in {"singleton", "prototype"}, NEW d \in BOOLEAN,
           ~ closed, context_register_bean(name, scope, d)
    PROVE  BeanInv'
<1> DEFINE new == [name |-> name, scope |-> scope, lifecycle |-> "registered",
                   instance |-> NULL_BEAN, destroyable |-> d]
           n == Len(beans)
<1>0. /\ beans \in Seq(BeanEntry) /\ n \in Nat
      /\ \A i \in 1 .. n : beans[i] \in BeanEntry /\ beans[i].instance \in Nat
  BY BeansTyped
<1>1. /\ beans' = beans \/ beans' = Append(beans, new)
      /\ initialized' = initialized /\ closed' = closed /\ created' = created
      /\ alive' = alive /\ destroyed' = destroyed /\ handed' = handed
  BY DEF context_register_bean
<1>2. CASE beans' = beans
  BY <1>1, <1>2 DEF BeanInv, BeanTypeOK, Decides
<1>3. CASE beans' = Append(beans, new)
  <2>1. new \in BeanEntry /\ new.instance = NULL_BEAN
    BY DEF BeanEntry, NULL_BEAN
  <2> HIDE DEF new
  <2>2. /\ beans' \in Seq(BeanEntry) /\ Len(beans') = n + 1
        /\ \A i \in 1 .. n : beans'[i] = beans[i]
        /\ beans'[n + 1] = new
    BY <1>0, <1>3, <2>1, AppendProperties
  <2> HIDE DEF n
  <2>3. \A i \in 1 .. n + 1 : i = n + 1 \/ i \in 1 .. n
    BY <1>0 DEF n
  <2>4. \A i \in 1 .. Len(beans') : beans'[i].instance # NULL_BEAN => i \in 1 .. n /\ beans'[i] = beans[i]
    BY <2>1, <2>2, <2>3
  <2>5. ASSUME NEW i \in 1 .. n, NEW nm, Decides(i, nm)
        PROVE  Decides(i, nm)'
    <3>1. i \in 1 .. Len(beans') /\ beans'[i].name = nm
      BY <1>0, <2>2, <2>5 DEF Decides, n
    <3>2. ASSUME NEW j \in 1 .. Len(beans'), beans'[j].name = nm PROVE i <= j
      <4>1. CASE j = n + 1
        BY <1>0, <4>1 DEF n
      <4>2. CASE j # n + 1
        <5>1. j \in 1 .. n
          BY <2>2, <2>3, <4>2
        <5> QED
          BY <2>2, <2>5, <3>2, <5>1 DEF Decides, n
      <4> QED
        BY <4>1, <4>2
    <3> QED
      BY <3>1, <3>2 DEF Decides
  <2>6. ASSUME NEW h \in handed
        PROVE  \E i \in 1 .. Len(beans') : Decides(i, h.name)' /\ beans'[i].instance = h.bean /\ h.bean # NULL_BEAN
    <3>1. PICK i \in 1 .. n : Decides(i, h.name) /\ beans[i].instance = h.bean /\ h.bean # NULL_BEAN
      BY DEF BeanInv, n
    <3>2. PICK nm : nm = h.name
      OBVIOUS
    <3>3. Decides(i, nm)'
      BY <2>5, <3>1, <3>2
    <3>4. i \in 1 .. Len(beans')
      BY <1>0, <2>2 DEF n
    <3> QED
      BY <2>2, <3>1, <3>2, <3>3, <3>4
  <2>7. BeanTypeOK'
    BY <1>1, <2>2 DEF BeanInv, BeanTypeOK
  <2>8. /\ \A i \in 1 .. Len(beans') : beans'[i].instance # NULL_BEAN => beans'[i].instance \in alive
        /\ \A i, j \in 1 .. Len(beans') :
              i < j /\ beans'[i].instance # NULL_BEAN /\ beans'[j].instance # NULL_BEAN
                  => beans'[i].instance < beans'[j].instance
        /\ ~ initialized => \A i \in 1 .. Len(beans') : beans'[i].instance = NULL_BEAN
    BY <2>4 DEF BeanInv, n
  <2>9. ~ closed' => \A h \in handed' : \E i \in 1 .. Len(beans') :
                       Decides(i, h.name)' /\ beans'[i].instance = h.bean /\ h.bean # NULL_BEAN
    BY <1>1, <2>6
  <2> QED
    BY <1>1, <2>7, <2>8, <2>9 DEF BeanInv
<1> QED
  BY <1>1, <1>2, <1>3

\* The n-th singleton gets number n.
LEMMA Refresh ==
    ASSUME BeanInv, ~ closed, ~ initialized, context_refresh
    PROVE  BeanInv'
<1> DEFINE n == Len(beans)
           upTo(i) == {j \in Singletons : j <= i}
           nth(i) == created + Cardinality(upTo(i))
           b == [i \in DOMAIN beans |->
                        IF i \in Singletons
                        THEN [beans[i] EXCEPT !.instance = nth(i), !.lifecycle = "initialized"]
                        ELSE beans[i]]
<1>0. /\ beans \in Seq(BeanEntry) /\ n \in Nat /\ DOMAIN beans = 1 .. n
      /\ \A i \in 1 .. n : beans[i] \in BeanEntry /\ beans[i].instance = NULL_BEAN
      /\ created = 0 /\ handed = {} /\ alive = {} /\ destroyed = << >>
  <2>1. alive \subseteq 1 .. created /\ created = 0
    BY BeansTyped DEF BeanInv
  <2>2. alive = {}
    BY <2>1
  <2> QED
    BY <2>1, <2>2, BeansTyped DEF BeanInv
<1>1. /\ beans' = b
      /\ created' = created + Cardinality(Singletons)
      /\ alive' = alive \cup {nth(i) : i \in Singletons}
      /\ initialized' = TRUE
      /\ closed' = closed /\ destroyed' = destroyed /\ handed' = handed
  BY DEF context_refresh
<1>2. Singletons \subseteq 1 .. n
  BY <1>0 DEF Singletons
<1>3. IsFiniteSet(Singletons) /\ Cardinality(Singletons) \in Nat
  <2>1. IsFiniteSet(1 .. n)
    BY <1>0, FS_Interval
  <2> QED
    BY <1>2, <2>1, FS_Subset, FS_CardinalityType
<1>4. ASSUME NEW i \in Singletons
      PROVE  nth(i) \in 1 .. Cardinality(Singletons)
  <2>1. upTo(i) \in SUBSET Singletons /\ i \in upTo(i)
    BY <1>2
  <2>2. /\ IsFiniteSet(upTo(i)) /\ Cardinality(upTo(i)) <= Cardinality(Singletons)
        /\ Cardinality(upTo(i)) \in Nat
    BY <1>3, <2>1, FS_Subset, FS_CardinalityType
  <2>3. Cardinality(upTo(i)) # 0
    BY <2>1, <2>2, FS_EmptySet
  <2> QED
    BY <1>0, <1>3, <2>2, <2>3
<1>5. ASSUME NEW i \in Singletons, NEW j \in Singletons, i < j
      PROVE  nth(i) < nth(j)
  <2>0. i \in Nat /\ j \in Nat
    BY <1>0, <1>2
  <2>1. upTo(i) \in SUBSET upTo(j) /\ j \in upTo(j) /\ j \notin upTo(i)
    <3>1. \A x \in Singletons : x \in Nat
      BY <1>0, <1>2
    <3>2. ASSUME NEW x \in upTo(i) PROVE x \in upTo(j)
      <4>1. x \in Nat /\ x <= i /\ x \in Singletons
        BY <3>1
      <4>2. x <= j
        BY <1>5, <2>0, <4>1
      <4> QED
        BY <4>1, <4>2
    <3>3. j <= j /\ ~ j <= i
      BY <1>5, <2>0
    <3> QED
      BY <3>2, <3>3
  <2>2. upTo(j) \in SUBSET Singletons
    OBVIOUS
  <2>3. IsFiniteSet(upTo(j)) /\ Cardinality(upTo(j)) \in Nat
    BY <1>3, <2>2, FS_Subset, FS_CardinalityType
  <2>4. /\ Cardinality(upTo(i)) <= Cardinality(upTo(j)) /\ Cardinality(upTo(i)) \in Nat
        /\ Cardinality(upTo(j)) # Cardinality(upTo(i))
    BY <2>1, <2>3, FS_Subset, FS_CardinalityType
  <2> QED
    BY <1>0, <2>3, <2>4
<1> HIDE DEF nth
<1>6. /\ \A i \in 1 .. n : b[i].instance = IF i \in Singletons THEN nth(i) ELSE NULL_BEAN
      /\ \A i \in 1 .. n : b[i] \in BeanEntry
  <2> SUFFICES ASSUME NEW i \in 1 .. n
               PROVE  b[i].instance = (IF i \in Singletons THEN nth(i) ELSE NULL_BEAN) /\ b[i] \in BeanEntry
    OBVIOUS
  <2>1. CASE i \in Singletons
    <3>1. b[i] = [beans[i] EXCEPT !.instance = nth(i), !.lifecycle = "initialized"]
      BY <1>0, <2>1
    <3>2. nth(i) \in Nat
      BY <1>3, <1>4, <2>1
    <3>3. PICK e \in BeanEntry : e = beans[i]
      BY <1>0
    <3>4. PICK k \in Nat : k = nth(i)
      BY <3>2
    <3>5. [e EXCEPT !.instance = k] \in BeanEntry /\ [e EXCEPT !.instance = k].instance = k
      BY DEF BeanEntry
    <3>6. PICK d \in BeanEntry : d = [e EXCEPT !.instance = k]
      BY <3>5
    <3>7. [d EXCEPT !.lifecycle = "initialized"] \in BeanEntry
      BY DEF BeanEntry
    <3>8. [d EXCEPT !.lifecycle = "initialized"].instance = d.instance
      BY DEF BeanEntry
    <3>9. b[i] = [d EXCEPT !.lifecycle = "initialized"]
      BY <3>1, <3>3, <3>4, <3>6
    <3> QED
      BY <2>1, <3>4, <3>5, <3>6, <3>7, <3>8, <3>9
  <2>2. CASE i \notin Singletons
    BY <1>0, <2>2
  <2> QED
    BY <2>1, <2>2
<1>7. beans' \in Seq(BeanEntry) /\ Len(beans') = n
  <2>1. DOMAIN b = 1 .. n /\ b \in [1 .. n -> BeanEntry]
    BY <1>0, <1>6
  <2> HIDE DEF b
  <2>2. b \in Seq(BeanEntry)
    BY <1>0, <2>1, SeqDef
  <2>3. Len(b) \in Nat /\ 1 .. Len(b) = 1 .. n
    BY <2>1, <2>2, LenProperties
  <2> QED
    BY <1>0, <1>1, <2>2, <2>3
<1>8. created' = Cardinality(Singletons) /\ alive' = {nth(i) : i \in Singletons}
  <2>1. created' = Cardinality(Singletons)
    <3>1. created' = 0 + Cardinality(Singletons)
      BY <1>0, <1>1
    <3> QED
      BY <1>3, <3>1
  <2>2. alive' = {} \cup {nth(i) : i \in Singletons}
    BY <1>0, <1>1
  <2> QED
    BY <2>1, <2>2
<1>9. BeanTypeOK'
  <2>1. alive' \subseteq 1 .. created'
    BY <1>4, <1>8
  <2>2. handed' \subseteq [name : BeanNames, bean : Nat] /\ destroyed' \in Seq(Nat) /\ closed' \in BOOLEAN
    BY <1>1, BeansTyped
  <2> QED
    BY <1>1, <1>3, <1>7, <1>8, <2>1, <2>2 DEF BeanTypeOK
<1>10. \A i \in 1 .. Len(beans') : beans'[i].instance # NULL_BEAN => i \in Singletons /\ beans'[i].instance = nth(i)
  BY <1>1, <1>6, <1>7
<1>11. /\ \A i \in 1 .. Len(beans') : beans'[i].instance # NULL_BEAN => beans'[i].instance \in alive'
       /\ \A i, j \in 1 .. Len(beans') :
             i < j /\ beans'[i].instance # NULL_BEAN /\ beans'[j].instance # NULL_BEAN
                 => beans'[i].instance < beans'[j].instance
  BY <1>5, <1>8, <1>10
<1>12. handed' = {} /\ destroyed' = << >> /\ Len(destroyed') = 0 /\ ToSet(destroyed') = {}
  <2>1. destroyed' = << >>
    BY <1>0, <1>1
  <2>2. DOMAIN destroyed' = {}
    BY <2>1
  <2> QED
    BY <1>0, <1>1, <2>1, <2>2 DEF ToSet
<1> QED
  BY <1>1, <1>9, <1>11, <1>12 DEF BeanInv

LEMMA GetOne ==
    ASSUME BeanInv, NEW name \in BeanNames, ~ closed, GetSingleton(name)
    PROVE  BeanInv'
<1> DEFINE e == Entry(name)
           got == [name |-> name, bean |-> beans[e].instance]
<1>1. /\ initialized /\ e # 0
      /\ handed' = IF beans[e].instance = NULL_BEAN THEN handed ELSE handed \cup {got}
      /\ beans' = beans /\ initialized' = initialized /\ closed' = closed /\ created' = created
      /\ alive' = alive /\ destroyed' = destroyed
  BY DEF GetSingleton
<1>2. Decides(e, name)
  BY <1>1, EntryDecides
<1> HIDE DEF e
<1>3. e \in 1 .. Len(beans) /\ beans[e].instance \in Nat
  BY <1>2, BeansTyped DEF Decides
<1>4. CASE beans[e].instance = NULL_BEAN
  BY <1>1, <1>4 DEF BeanInv, BeanTypeOK, Decides
<1>5. CASE beans[e].instance # NULL_BEAN
  <2>1. handed' = handed \cup {got}
    BY <1>1, <1>5
  <2>2. got \in [name : BeanNames, bean : Nat] /\ got.name = name /\ got.bean = beans[e].instance
    BY <1>3
  <2> HIDE DEF got
  <2>3. \A h \in handed' : \E i \in 1 .. Len(beans) :
            Decides(i, h.name) /\ beans[i].instance = h.bean /\ h.bean # NULL_BEAN
    <3> TAKE h \in handed'
    <3>1. CASE h \in handed
      BY <3>1 DEF BeanInv
    <3>2. CASE h = got
      BY <1>2, <1>3, <1>5, <2>2, <3>2
    <3> QED
      BY <2>1, <3>1, <3>2
  <2>4. ASSUME NEW g \in handed', NEW h \in handed', g.name = h.name
        PROVE  g.bean = h.bean
    <3>1. PICK i \in 1 .. Len(beans) : Decides(i, g.name) /\ beans[i].instance = g.bean
      BY <2>3
    <3>2. PICK j \in 1 .. Len(beans) : Decides(j, h.name) /\ beans[j].instance = h.bean
      BY <2>3
    <3>3. i <= j /\ j <= i
      BY <2>4, <3>1, <3>2 DEF Decides
    <3>4. i = j
      BY <3>3, BeansTyped
    <3> QED
      BY <3>1, <3>2, <3>4
  <2>5. BeanTypeOK'
    BY <1>1, <2>1, <2>2 DEF BeanInv, BeanTypeOK
  <2>6. \A h \in handed' : \E i \in 1 .. Len(beans') :
            Decides(i, h.name)' /\ beans'[i].instance = h.bean /\ h.bean # NULL_BEAN
    BY <1>1, <2>3 DEF Decides
  <2> QED
    BY <1>1, <2>4, <2>5, <2>6 DEF BeanInv
<1> QED
  BY <1>4, <1>5

\* What lives besides the singletons does not touch them.
LEMMA Others ==
    ASSUME BeanInv, ~ closed, initialized, created' \in Nat, created <= created',
           alive' \subseteq 1 .. created', alive \cap Instances \subseteq alive',
           UNCHANGED <<beans, initialized, closed, destroyed, handed>>
    PROVE  BeanInv'
<1>0. /\ beans' = beans /\ initialized' = initialized /\ closed' = closed
      /\ destroyed' = destroyed /\ handed' = handed /\ destroyed = << >>
  BY DEF BeanInv
<1>1. BeanTypeOK'
  BY <1>0 DEF BeanInv, BeanTypeOK
<1>2. \A i \in 1 .. Len(beans) : beans[i].instance # NULL_BEAN => beans[i].instance \in alive'
  <2>1. \A i \in 1 .. Len(beans) : beans[i].instance \in Instances
    BY BeansTyped DEF Instances
  <2> QED
    BY <2>1 DEF BeanInv
<1>3. ToSet(destroyed') = {}
  BY <1>0 DEF ToSet
<1>4. ~ closed' => \A h \in handed' : \E i \in 1 .. Len(beans') :
          Decides(i, h.name)' /\ beans'[i].instance = h.bean /\ h.bean # NULL_BEAN
  BY <1>0 DEF BeanInv, Decides
<1> QED
  BY <1>0, <1>1, <1>2, <1>3, <1>4 DEF BeanInv

\* The entries that are destroyed have rising instances; they are called backwards.
LEMMA Close ==
    ASSUME BeanInv, ~ closed, initialized, context_close
    PROVE  BeanInv'
<1> DEFINE I == {i \in Singletons : beans[i].instance # NULL_BEAN /\ beans[i].destroyable}
           calls == Selection(beans, I)
           m == Len(calls)
           ids == [i \in DOMAIN calls |-> calls[i].instance]
<1>0. /\ beans \in Seq(BeanEntry) /\ Len(beans) \in Nat
      /\ \A i \in 1 .. Len(beans) : beans[i].instance \in Nat
  BY BeansTyped
<1>1. /\ destroyed' = Reverse(ids) /\ alive' = alive \ ToSet(destroyed')
      /\ beans' = << >> /\ closed' = TRUE
      /\ initialized' = initialized /\ created' = created /\ handed' = handed
  BY DEF context_close, Destroyed
<1>2. calls \in Seq(BeanEntry) /\ \E at : Picks(at, calls, beans, I, Len(beans))
  BY <1>0, SelectionIs
<1>3. m \in Nat /\ DOMAIN calls = 1 .. m
  BY <1>2, LenProperties
<1>4. PICK at : Picks(at, calls, beans, I, Len(beans))
  BY <1>2
<1> HIDE DEF calls, I
<1>5. /\ \A k \in 1 .. m : /\ at[k] \in 1 .. Len(beans) /\ at[k] \in I /\ calls[k] = beans[at[k]]
      /\ \A j, k \in 1 .. m : j < k => at[j] < at[k]
  BY <1>4 DEF Picks
<1>6. \A k \in 1 .. m : calls[k].instance \in Nat /\ calls[k].instance # NULL_BEAN
  BY <1>0, <1>5 DEF I
<1>7. \A j, k \in 1 .. m : j < k => calls[j].instance < calls[k].instance
  <2> SUFFICES ASSUME NEW j \in 1 .. m, NEW k \in 1 .. m, j < k PROVE calls[j].instance < calls[k].instance
    OBVIOUS
  <2>1. at[j] < at[k] /\ at[j] \in 1 .. Len(beans) /\ at[k] \in 1 .. Len(beans)
    BY <1>5
  <2>2. calls[j] = beans[at[j]] /\ calls[k] = beans[at[k]]
    BY <1>5
  <2>3. beans[at[j]].instance # NULL_BEAN /\ beans[at[k]].instance # NULL_BEAN
    BY <1>6, <2>2
  <2> QED
    BY <2>1, <2>2, <2>3 DEF BeanInv
<1> HIDE DEF m
<1>8. ids \in Seq(Nat) /\ Len(ids) = m /\ \A k \in 1 .. m : ids[k] = calls[k].instance
  <2>1. DOMAIN ids = 1 .. m /\ \A k \in 1 .. m : ids[k] = calls[k].instance
    BY <1>3
  <2>2. ids \in [1 .. m -> Nat]
    BY <1>3, <1>6
  <2> HIDE DEF ids
  <2>3. ids \in Seq(Nat)
    BY <1>3, <2>2, SeqDef
  <2>4. Len(ids) \in Nat /\ 1 .. Len(ids) = 1 .. m
    BY <2>1, <2>3, LenProperties
  <2> QED
    BY <1>3, <2>1, <2>3, <2>4
<1> HIDE DEF ids
<1>9. /\ destroyed' \in Seq(Nat) /\ Len(destroyed') = m
      /\ \A i \in 1 .. m : destroyed'[i] = ids[m - i + 1]
  <2>1. destroyed' = [i \in 1 .. m |-> ids[m - i + 1]]
    BY <1>1, <1>8 DEF Reverse
  <2>2. \A i \in 1 .. m : m - i + 1 \in 1 .. m
    BY <1>3 DEF m
  <2>3. destroyed' \in [1 .. m -> Nat]
    BY <1>6, <1>8, <2>1, <2>2
  <2>4. destroyed' \in Seq(Nat)
    BY <1>3, <2>3, SeqDef DEF m
  <2>5. Len(destroyed') \in Nat /\ 1 .. Len(destroyed') = 1 .. m
    BY <2>3, <2>4, LenProperties
  <2> QED
    BY <1>3, <2>1, <2>4, <2>5 DEF m
<1>10. \A i, j \in 1 .. Len(destroyed') : i < j => destroyed'[i] > destroyed'[j]
  <2> SUFFICES ASSUME NEW i \in 1 .. m, NEW j \in 1 .. m, i < j PROVE destroyed'[i] > destroyed'[j]
    BY <1>9
  <2>1. m - i + 1 \in 1 .. m /\ m - j + 1 \in 1 .. m /\ m - j + 1 < m - i + 1
    BY <1>3 DEF m
  <2>2. calls[m - j + 1].instance < calls[m - i + 1].instance
    BY <1>7, <2>1
  <2>3. destroyed'[i] = calls[m - i + 1].instance /\ destroyed'[j] = calls[m - j + 1].instance
    BY <1>8, <1>9, <2>1
  <2>4. calls[m - i + 1].instance \in Nat /\ calls[m - j + 1].instance \in Nat
    BY <1>6, <2>1
  <2> QED
    BY <2>2, <2>3, <2>4
<1>11. alive' \cap ToSet(destroyed') = {}
  BY <1>1
<1>12. Len(beans') = 0 /\ beans' \in Seq(BeanEntry)
  BY <1>1
<1>13. BeanTypeOK'
  BY <1>1, <1>9, <1>12 DEF BeanInv, BeanTypeOK
<1>14. \A i : i \notin 1 .. Len(beans')
  BY <1>12
<1> QED
  BY <1>1, <1>10, <1>11, <1>13, <1>14 DEF BeanInv

LEMMA BeanStep ==
    BeanInv /\ [BeanFactoryNext]_beanVars => BeanInv'
<1> SUFFICES ASSUME BeanInv, [BeanFactoryNext]_beanVars PROVE BeanInv'
  OBVIOUS
<1>0. created \in Nat /\ alive \subseteq 1 .. created
  BY BeansTyped
<1>1. ASSUME NEW name \in BeanNames, ~ closed, GetPrototype(name) PROVE BeanInv'
  <2>1. /\ initialized /\ created' = created + 1 /\ alive' = alive \cup {created + 1}
        /\ UNCHANGED <<beans, initialized, closed, destroyed, handed>>
    BY <1>1 DEF GetPrototype
  <2>2. created' \in Nat /\ created <= created' /\ alive' \subseteq 1 .. created'
    BY <1>0, <2>1
  <2> QED
    BY <1>1, <2>1, <2>2, Others
<1>2. ASSUME initialized, ~ closed, DestroyPrototype PROVE BeanInv'
  <2>1. /\ \E x \in alive \ Instances : alive' = alive \ {x}
        /\ created' = created /\ UNCHANGED <<beans, initialized, closed, destroyed, handed>>
    BY <1>2 DEF DestroyPrototype
  <2>2. created' \in Nat /\ created <= created' /\ alive' \subseteq 1 .. created' /\ alive \cap Instances \subseteq alive'
    BY <1>0, <2>1
  <2> QED
    BY <1>2, <2>1, <2>2, Others
<1>3. CASE UNCHANGED beanVars
  BY <1>3 DEF beanVars, BeanInv, BeanTypeOK, Decides
<1> QED
  BY <1>1, <1>2, <1>3, Register, Refresh, GetOne, Close DEF BeanFactoryNext, context_get_bean

LEMMA BeansOnce ==
    BeanInv => BeansLiveOnce
<1> SUFFICES ASSUME BeanInv PROVE BeansLiveOnce
  OBVIOUS
<1>1. ~ closed => \A h \in handed : h.bean \in alive
  BY DEF BeanInv
<1>2. DOMAIN destroyed = 1 .. Len(destroyed)
  BY BeansTyped
<1> QED
  BY <1>1, <1>2 DEF BeanInv, BeansLiveOnce

-----------------------------------------------------------------------------
(* Injection by type (SpringContainers, phase 2)                           *)

FieldsOf(type) == DOMAIN Metadata(type)

Placed == {container[i] : i \in DOMAIN container}

InjectionTypeOK ==
    /\ types \in Seq(BeanTypes)
    /\ container \in Seq(1 .. Len(types))
    /\ Len(fields) = Len(types)
    /\ \E S : fields \in Seq(S)
    /\ \A b \in 1 .. Len(types) :
          fields[b] \in [FieldsOf(types[b]) -> 0 .. Len(types)]

\* What a field points to is what the container still gives for its type.
InjectionInv ==
    /\ InjectionTypeOK
    /\ \A b \in 1 .. Len(types) : \A f \in FieldsOf(types[b]) :
          fields[b][f] # NoBean => fields[b][f] = container_get_by_type(Metadata(types[b])[f].dep_type)

LEMMA InjectionTyped ==
    ASSUME InjectionTypeOK
    PROVE  /\ Len(types) \in Nat /\ DOMAIN types = 1 .. Len(types)
           /\ Len(container) \in Nat /\ DOMAIN container = 1 .. Len(container)
           /\ \A i \in 1 .. Len(container) : container[i] \in 1 .. Len(types)
BY LenProperties, ElementOfSeq DEF InjectionTypeOK

\* The first bean of the type, if there is one.
LEMMA FirstOfType ==
    ASSUME InjectionTypeOK, NEW type
    PROVE  \/ /\ container_get_by_type(type) = NoBean
              /\ \A i \in 1 .. Len(container) : types[container[i]] # type
           \/ \E i \in 1 .. Len(container) :
                 /\ container_get_by_type(type) = container[i] /\ types[container[i]] = type
                 /\ \A j \in 1 .. Len(container) : types[container[j]] = type => i <= j
<1> DEFINE of == {i \in DOMAIN container : types[container[i]] = type}
<1>1. Len(container) \in Nat /\ DOMAIN container = 1 .. Len(container)
  BY InjectionTyped
<1>2. CASE of = {}
  BY <1>1, <1>2 DEF container_get_by_type
<1>3. CASE of # {}
  <2>1. of \subseteq Nat
    BY <1>1
  <2>2. \E i \in of : \A j \in of : i <= j
    BY <1>3, <2>1, Least
  <2> DEFINE i == CHOOSE i \in of : \A j \in of : i <= j
  <2>3. i \in of /\ \A j \in of : i <= j
    BY <2>2
  <2>4. container_get_by_type(type) = container[i]
    BY <1>3 DEF container_get_by_type
  <2> HIDE DEF i
  <2> QED
    BY <1>1, <2>3, <2>4
<1> QED
  BY <1>2, <1>3

\* What is given is a bean of the type in the container, one for all who ask.
LEMMA GivenIs ==
    ASSUME InjectionTypeOK, NEW type, container_get_by_type(type) # NoBean
    PROVE  /\ container_get_by_type(type) \in Placed
           /\ container_get_by_type(type) \in 1 .. Len(types)
           /\ types[container_get_by_type(type)] = type
BY FirstOfType, InjectionTyped DEF Placed

\* It is given for ever: beans are only added behind it, and types do not change.
LEMMA StillGiven ==
    ASSUME InjectionTypeOK, InjectionTypeOK', NEW type, container_get_by_type(type) # NoBean,
           Len(container) <= Len(container'), Len(types) <= Len(types'),
           \A i \in 1 .. Len(container) : container'[i] = container[i],
           \A b \in 1 .. Len(types) : types'[b] = types[b]
    PROVE  container_get_by_type(type)' = container_get_by_type(type)
<1>0. /\ Len(container) \in Nat /\ \A i \in 1 .. Len(container) : container[i] \in 1 .. Len(types)
      /\ Len(container') \in Nat /\ DOMAIN container' = 1 .. Len(container')
  BY InjectionTyped, LenProperties DEF InjectionTypeOK
<1>1. PICK i \in 1 .. Len(container) :
          /\ container_get_by_type(type) = container[i] /\ types[container[i]] = type
          /\ \A j \in 1 .. Len(container) : types[container[j]] = type => i <= j
  BY FirstOfType
<1> DEFINE of == {k \in DOMAIN container' : types'[container'[k]] = type}
<1>2. i \in of /\ \A j \in of : i <= j
  <2>1. i \in 1 .. Len(container') /\ types'[container'[i]] = type
    BY <1>0, <1>1
  <2>2. ASSUME NEW j \in of PROVE i <= j
    <3>1. CASE j \in 1 .. Len(container)
      BY <1>0, <1>1, <2>2, <3>1
    <3>2. CASE j \notin 1 .. Len(container)
      BY <1>0, <1>1, <2>2, <3>2
    <3> QED
      BY <3>1, <3>2
  <2> QED
    BY <1>0, <2>1, <2>2
<1>3. of \subseteq Nat
  BY <1>0
<1> DEFINE first == CHOOSE k \in of : \A j \in of : k <= j
<1>4. first \in of /\ \A j \in of : first <= j
  BY <1>2
<1>5. first = i
  <2> HIDE DEF first, of
  <2> QED
    BY <1>2, <1>3, <1>4
<1>6. container_get_by_type(type)' = container'[first]
  BY <1>2 DEF container_get_by_type
<1> QED
  BY <1>1, <1>5, <1>6

LEMMA InjectionStart ==
    InjectionInit => InjectionInv
<1> SUFFICES ASSUME InjectionInit PROVE InjectionInv
  OBVIOUS
<1>1. types = << >> /\ container = << >> /\ fields = << >>
  BY DEF InjectionInit
<1>2. fields \in Seq({})
  BY <1>1
<1> QED
  BY <1>1, <1>2 DEF InjectionInv, InjectionTypeOK

LEMMA AllocateStep ==
    ASSUME InjectionInv, NEW type \in BeanTypes, Allocate(type)
    PROVE  InjectionInv'
<1> DEFINE n == Len(types)
           blank == [f \in FieldsOf(type) |-> NoBean]
<1>0. /\ types \in Seq(BeanTypes) /\ n \in Nat
      /\ container \in Seq(1 .. n) /\ Len(container) \in Nat /\ Len(fields) = n
      /\ InjectionTypeOK
  BY InjectionTyped, LenProperties DEF InjectionInv, InjectionTypeOK
<1>1. types' = Append(types, type) /\ fields' = Append(fields, blank) /\ container' = container
  BY DEF Allocate, FieldsOf
<1>2. /\ types' \in Seq(BeanTypes) /\ Len(types') = n + 1
      /\ \A b \in 1 .. n : types'[b] = types[b]
      /\ types'[n + 1] = type
  BY <1>0, <1>1, AppendProperties
<1>3. PICK S : fields \in Seq(S)
  BY <1>0 DEF InjectionTypeOK
<1>4. /\ fields' \in Seq(S \cup {blank}) /\ Len(fields') = n + 1
      /\ \A b \in 1 .. n : fields'[b] = fields[b]
      /\ fields'[n + 1] = blank
  <2> DEFINE T == S \cup {blank}
  <2>1. fields \in Seq(T)
    <3>1. fields \in [1 .. n -> S]
      BY <1>0, <1>3, LenProperties
    <3>2. fields \in [1 .. n -> T]
      BY <3>1
    <3> QED
      BY <1>0, <3>2, SeqDef
  <2>2. blank \in T
    OBVIOUS
  <2> HIDE DEF T, blank
  <2> QED
    BY <1>0, <1>1, <2>1, <2>2, AppendProperties DEF T
<1>5. \A b \in 1 .. n : b \in 1 .. n + 1
  BY <1>0
<1>6. container' \in Seq(1 .. Len(types'))
  <2>1. container \in [1 .. Len(container) -> 1 .. n]
    BY <1>0, LenProperties
  <2>2. container \in [1 .. Len(container) -> 1 .. n + 1]
    BY <1>5, <2>1
  <2> QED
    BY <1>0, <1>1, <1>2, <2>2, SeqDef
<1>7. ASSUME NEW b \in 1 .. Len(types') PROVE fields'[b] \in [FieldsOf(types'[b]) -> 0 .. Len(types')]
  <2>1. CASE b = n + 1
    <3>1. blank \in [FieldsOf(type) -> 0 .. n + 1]
      BY <1>0 DEF NoBean
    <3> QED
      BY <1>2, <1>4, <2>1, <3>1
  <2>2. CASE b # n + 1
    <3>1. b \in 1 .. n
      BY <1>0, <1>2, <2>2
    <3>2. fields[b] \in [FieldsOf(types[b]) -> 0 .. n]
      BY <1>0, <3>1 DEF InjectionTypeOK
    <3>3. \A x \in 0 .. n : x \in 0 .. n + 1
      BY <1>0
    <3>4. fields[b] \in [FieldsOf(types[b]) -> 0 .. n + 1]
      BY <3>2, <3>3
    <3> QED
      BY <1>2, <1>4, <3>1, <3>4
  <2> QED
    BY <2>1, <2>2
<1>8. InjectionTypeOK'
  BY <1>2, <1>4, <1>6, <1>7 DEF InjectionTypeOK
<1>9. ASSUME NEW b \in 1 .. Len(types'), NEW f \in FieldsOf(types'[b]), fields'[b][f] # NoBean
      PROVE  fields'[b][f] = container_get_by_type(Metadata(types[b])[f].dep_type)' /\ types'[b] = types[b]
  <2>1. b # n + 1
    BY <1>2, <1>4, <1>9
  <2>2. b \in 1 .. n
    BY <1>0, <1>2, <2>1
  <2> DEFINE type2 == Metadata(types[b])[f].dep_type
  <2>3. fields[b][f] # NoBean /\ fields'[b] = fields[b] /\ types'[b] = types[b] /\ f \in FieldsOf(types[b])
    BY <1>2, <1>4, <1>9, <2>2
  <2>4. fields[b][f] = container_get_by_type(type2)
    BY <2>2, <2>3 DEF InjectionInv
  <2>5. PICK ty : ty = type2
    OBVIOUS
  <2>6. container_get_by_type(ty)' = container_get_by_type(ty)
    BY <1>0, <1>1, <1>2, <1>8, <2>3, <2>4, <2>5, StillGiven
  <2> QED
    BY <2>3, <2>4, <2>5, <2>6 DEF container_get_by_type
<1> QED
  BY <1>8, <1>9 DEF InjectionInv

LEMMA PutStep ==
    ASSUME InjectionInv, NEW b \in 1 .. Len(types), container_put(b)
    PROVE  InjectionInv'
<1>0. InjectionTypeOK /\ container \in Seq(1 .. Len(types)) /\ Len(container) \in Nat /\ Len(types) \in Nat
  BY InjectionTyped DEF InjectionInv, InjectionTypeOK
<1>1. types' = types /\ fields' = fields /\ (container' = container \/ container' = Append(container, b))
  BY DEF container_put
<1>2. /\ container' \in Seq(1 .. Len(types)) /\ Len(container) <= Len(container')
      /\ \A i \in 1 .. Len(container) : container'[i] = container[i]
  <2>1. CASE container' = container
    BY <1>0, <2>1
  <2>2. CASE container' = Append(container, b)
    <3> DEFINE T == 1 .. Len(types)
    <3>1. container \in Seq(T) /\ b \in T
      BY <1>0
    <3> HIDE DEF T
    <3>2. /\ container' \in Seq(T) /\ Len(container') = Len(container) + 1
          /\ \A i \in 1 .. Len(container) : container'[i] = container[i]
      BY <2>2, <3>1, AppendProperties
    <3> QED
      BY <1>0, <3>2 DEF T
  <2> QED
    BY <1>1, <2>1, <2>2
<1>3. InjectionTypeOK'
  BY <1>0, <1>1, <1>2 DEF InjectionTypeOK
<1>4. ASSUME NEW c \in 1 .. Len(types), NEW f \in FieldsOf(types[c]), fields[c][f] # NoBean
      PROVE  fields[c][f] = container_get_by_type(Metadata(types[c])[f].dep_type)'
  <2>1. fields[c][f] = container_get_by_type(Metadata(types[c])[f].dep_type)
    BY <1>4 DEF InjectionInv
  <2>2. PICK ty : ty = Metadata(types[c])[f].dep_type
    OBVIOUS
  <2>3. container_get_by_type(ty)' = container_get_by_type(ty)
    BY <1>0, <1>1, <1>2, <1>3, <1>4, <2>1, <2>2, StillGiven
  <2> QED
    BY <1>1, <2>1, <2>2, <2>3 DEF container_get_by_type
<1> QED
  BY <1>1, <1>3, <1>4 DEF InjectionInv

LEMMA InjectStep ==
    ASSUME InjectionInv, NEW b \in 1 .. Len(types), inject_dependencies(b)
    PROVE  InjectionInv'
<1> DEFINE n == Len(types)
           given(f) == container_get_by_type(Metadata(types[b])[f].dep_type)
           wired == [f \in FieldsOf(types[b]) |-> IF given(f) = NoBean THEN fields[b][f] ELSE given(f)]
<1>0. /\ InjectionTypeOK /\ n \in Nat /\ Len(fields) = n /\ \A c \in 1 .. n : fields[c] \in [FieldsOf(types[c]) -> 0 .. n]
  BY InjectionTyped DEF InjectionInv, InjectionTypeOK
<1>1. PICK S : fields \in Seq(S)
  BY <1>0 DEF InjectionTypeOK
<1>2. /\ types' = types /\ container' = container
      /\ fields' = [fields EXCEPT ![b] = wired]
  <2>1. DOMAIN fields[b] = FieldsOf(types[b])
    BY <1>0
  <2>2. fields' = [fields EXCEPT ![b] = [f \in DOMAIN fields[b] |->
                     LET dep == container_get_by_type(Metadata(types[b])[f].dep_type)
                     IN  IF dep = NoBean THEN fields[b][f] ELSE dep]]
    BY DEF inject_dependencies
  <2> QED
    BY <2>1, <2>2 DEF inject_dependencies
<1>3. wired \in [FieldsOf(types[b]) -> 0 .. n]
  <2> SUFFICES ASSUME NEW f \in FieldsOf(types[b]) PROVE wired[f] \in 0 .. n
    OBVIOUS
  <2>1. CASE given(f) = NoBean
    BY <1>0, <2>1
  <2>2. CASE given(f) # NoBean
    <3> DEFINE ty == Metadata(types[b])[f].dep_type
    <3>1. container_get_by_type(ty) \in 1 .. n
      BY <1>0, <2>2, GivenIs
    <3> QED
      BY <1>0, <2>2, <3>1
  <2> QED
    BY <2>1, <2>2
<1>4. /\ fields' \in Seq(S \cup {wired}) /\ Len(fields') = n
      /\ \A c \in 1 .. n : fields'[c] = IF c = b THEN wired ELSE fields[c]
  <2> DEFINE T == S \cup {wired}
  <2> HIDE DEF wired
  <2>1. fields \in Seq(T)
    <3>1. fields \in [1 .. n -> S]
      BY <1>0, <1>1, LenProperties
    <3>2. fields \in [1 .. n -> T]
      BY <3>1
    <3> QED
      BY <1>0, <3>2, SeqDef
  <2>2. wired \in T
    OBVIOUS
  <2> HIDE DEF T
  <2>3. b \in 1 .. Len(fields)
    BY <1>0
  <2> QED
    BY <1>0, <1>2, <2>1, <2>2, <2>3, ExceptSeq DEF T
<1>5. InjectionTypeOK'
  <2>1. \A c \in 1 .. n : fields'[c] \in [FieldsOf(types[c]) -> 0 .. n]
    <3> HIDE DEF wired
    <3> QED
      BY <1>0, <1>3, <1>4
  <2>2. \E Z : fields' \in Seq(Z)
    BY <1>4
  <2> QED
    BY <1>0, <1>2, <1>4, <2>1, <2>2 DEF InjectionTypeOK
<1>6. ASSUME NEW c \in 1 .. n, NEW f \in FieldsOf(types[c]), fields'[c][f] # NoBean
      PROVE  fields'[c][f] = container_get_by_type(Metadata(types[c])[f].dep_type)
  <2>1. CASE c # b
    BY <1>4, <1>6, <2>1 DEF InjectionInv
  <2>2. CASE c = b
    <3>1. fields'[c] = wired
      BY <1>4, <2>2
    <3>2. fields'[c][f] = IF given(f) = NoBean THEN fields[b][f] ELSE given(f)
      BY <1>6, <2>2, <3>1
    <3>3. CASE given(f) # NoBean
      BY <2>2, <3>2, <3>3
    <3>4. CASE given(f) = NoBean
      <4>1. fields[b][f] # NoBean
        BY <1>6, <3>2, <3>4
      <4>2. fields[b][f] = given(f)
        BY <1>6, <2>2, <4>1 DEF InjectionInv
      <4> QED
        BY <3>4, <4>1, <4>2
    <3> QED
      BY <3>3, <3>4
  <2> QED
    BY <2>1, <2>2
<1>8. \A c \in 1 .. n : \A f \in FieldsOf(types[c]) : fields'[c][f] # NoBean =>
          fields'[c][f] = container_get_by_type(Metadata(types[c])[f].dep_type)'
  <2> SUFFICES ASSUME NEW c \in 1 .. n, NEW f \in FieldsOf(types[c]), fields'[c][f] # NoBean
               PROVE  fields'[c][f] = container_get_by_type(Metadata(types[c])[f].dep_type)'
    OBVIOUS
  <2>1. PICK ty : ty = Metadata(types[c])[f].dep_type
    OBVIOUS
  <2>2. fields'[c][f] = container_get_by_type(ty)
    BY <1>6, <2>1
  <2>3. types' = types /\ container_get_by_type(ty)' = container_get_by_type(ty)
    BY <1>2 DEF container_get_by_type
  <2> QED
    BY <2>1, <2>2, <2>3 DEF container_get_by_type
<1> QED
  BY <1>2, <1>5, <1>8 DEF InjectionInv

LEMMA InjectionStep ==
    InjectionInv /\ [InjectionNext]_injectionVars => InjectionInv'
<1> SUFFICES ASSUME InjectionInv, [InjectionNext]_injectionVars PROVE InjectionInv'
  OBVIOUS
<1>1. DOMAIN types = 1 .. Len(types)
  BY InjectionTyped DEF InjectionInv
<1>2. CASE InjectionNext
  BY <1>1, <1>2, AllocateStep, PutStep, InjectStep DEF InjectionNext
<1>3. CASE UNCHANGED injectionVars
  <2>1. types' = types /\ container' = container /\ fields' = fields
    BY <1>3 DEF injectionVars
  <2>2. InjectionTypeOK'
    BY <2>1 DEF InjectionInv, InjectionTypeOK
  <2>3. \A b \in 1 .. Len(types) : \A f \in FieldsOf(types[b]) : fields[b][f] # NoBean =>
          fields[b][f] = container_get_by_type(Metadata(types[b])[f].dep_type)'
    <3> SUFFICES ASSUME NEW b \in 1 .. Len(types), NEW f \in FieldsOf(types[b]), fields[b][f] # NoBean
                 PROVE  fields[b][f] = container_get_by_type(Metadata(types[b])[f].dep_type)'
      OBVIOUS
    <3>1. PICK ty : ty = Metadata(types[b])[f].dep_type
      OBVIOUS
    <3>2. fields[b][f] = container_get_by_type(ty)
      BY <3>1 DEF InjectionInv
    <3>3. container_get_by_type(ty)' = container_get_by_type(ty)
      BY <2>1 DEF container_get_by_type
    <3> QED
      BY <2>1, <3>1, <3>2, <3>3 DEF container_get_by_type
  <2> QED
    BY <2>1, <2>2, <2>3 DEF InjectionInv
<1> QED
  BY <1>2, <1>3

LEMMA WiredAlike ==
    InjectionInv => DependenciesAreShared
<1> SUFFICES ASSUME InjectionInv, NEW b \in DOMAIN types, NEW f \in DOMAIN fields[b], fields[b][f] # NoBean
             PROVE  /\ fields[b][f] \in {container[i] : i \in DOMAIN container}
                    /\ types[fields[b][f]] = Metadata(types[b])[f].dep_type
                    /\ \A c \in DOMAIN types :
                          types[c] = types[b] /\ fields[c][f] # NoBean => fields[c][f] = fields[b][f]
  BY DEF DependenciesAreShared
<1>1. InjectionTypeOK /\ DOMAIN types = 1 .. Len(types)
  BY InjectionTyped DEF InjectionInv
<1>2. f \in FieldsOf(types[b])
  BY <1>1 DEF InjectionTypeOK
<1>3. fields[b][f] = container_get_by_type(Metadata(types[b])[f].dep_type)
  BY <1>1, <1>2 DEF InjectionInv
<1>4. fields[b][f] \in Placed /\ types[fields[b][f]] = Metadata(types[b])[f].dep_type
  BY <1>1, <1>3, GivenIs
<1>5. ASSUME NEW c \in DOMAIN types, types[c] = types[b], fields[c][f] # NoBean
      PROVE  fields[c][f] = fields[b][f]
  BY <1>1, <1>2, <1>3, <1>5 DEF InjectionInv
<1> QED
  BY <1>4, <1>5 DEF Placed

-----------------------------------------------------------------------------
(* The proxy chain (SpringContainers, phase 5)                             *)

WhatHappens == {"enter", "hit", "call", "leave", "commit", "rollback", "store"}

EventType == [what : WhatHappens, who : Interceptors \cup {"cache", "target"}]

ProxyTypeOK ==
    /\ mi \in [arg : Args, chain : Seq(Interceptors), chain_index : Nat, has_exception : BOOLEAN]
    /\ control \in {"caller", "proceed", "return"}
    /\ frames \in Seq(Interceptors) /\ events \in Seq(EventType)

\* The first m interceptors were entered.
EnteredFirst(m) == \A k \in 1 .. m : events[k] = Event("enter", mi.chain[k])

\* The frames are those of the first d interceptors, the last one on top.
FramesOf(d) == Len(frames) = d /\ \A j \in 1 .. d : frames[j] = mi.chain[d - j + 1]

\* After m interceptors came the call, and r of them have been left.
Turned(m, r) ==
    /\ m <= Len(mi.chain) /\ r <= m /\ Len(events) = m + 1 + r
    /\ EnteredFirst(m)
    /\ \/ events[m + 1] = Event("hit", "cache") /\ mi.arg = "1" /\ mi.has_exception = FALSE
       \/ events[m + 1] = Event("call", "target") /\ m = Len(mi.chain) /\ mi.has_exception = (mi.arg = "999")
    /\ \A j \in 1 .. r : events[m + 1 + j] = Leave(mi.chain[m - j + 1])
    /\ FramesOf(m - r)

ProxyInv ==
    /\ ProxyTypeOK
    /\ control = "caller" => /\ events = << >> /\ frames = << >>
                             /\ mi.chain_index = 0 /\ mi.has_exception = FALSE
    /\ control = "proceed" => /\ mi.chain_index <= Len(mi.chain) /\ Len(events) = mi.chain_index
                              /\ mi.has_exception = FALSE
                              /\ EnteredFirst(mi.chain_index) /\ FramesOf(mi.chain_index)
    /\ control = "return" => \E m, r \in Nat : Turned(m, r)

LEMMA ProxyTyped ==
    ASSUME ProxyTypeOK
    PROVE  /\ mi.arg \in Args /\ mi.chain \in Seq(Interceptors) /\ mi.chain_index \in Nat /\ mi.has_exception \in BOOLEAN
           /\ Len(mi.chain) \in Nat /\ \A k \in 1 .. Len(mi.chain) : mi.chain[k] \in Interceptors
           /\ frames \in Seq(Interceptors) /\ Len(frames) \in Nat
           /\ events \in Seq(EventType) /\ Len(events) \in Nat /\ DOMAIN events = 1 .. Len(events)
           /\ \A k \in 1 .. Len(frames) : frames[k] \in Interceptors
<1>1. mi.arg \in Args /\ mi.chain \in Seq(Interceptors) /\ mi.chain_index \in Nat /\ mi.has_exception \in BOOLEAN
  BY DEF ProxyTypeOK
<1>2. frames \in Seq(Interceptors) /\ events \in Seq(EventType)
  BY DEF ProxyTypeOK
<1> QED
  BY <1>1, <1>2, LenProperties, ElementOfSeq

LEMMA ProxyStart ==
    ProxyInit => ProxyInv
<1> SUFFICES ASSUME ProxyInit PROVE ProxyInv
  OBVIOUS
<1>1. /\ mi = [arg |-> "2", chain |-> << >>, chain_index |-> 0, has_exception |-> FALSE]
      /\ control = "caller" /\ frames = << >> /\ events = << >>
  BY DEF ProxyInit
<1>2. << >> \in Seq(Interceptors) /\ << >> \in Seq(EventType)
  OBVIOUS
<1>3. mi \in [arg : Args, chain : Seq(Interceptors), chain_index : Nat, has_exception : BOOLEAN]
  BY <1>1, <1>2 DEF Args
<1>4. ProxyTypeOK
  BY <1>1, <1>2, <1>3 DEF ProxyTypeOK
<1>5. mi.chain_index = 0 /\ mi.has_exception = FALSE
  BY <1>1
<1> QED
  BY <1>1, <1>4, <1>5 DEF ProxyInv

LEMMA EventTyped ==
    ASSUME ProxyTypeOK, NEW i \in Interceptors
    PROVE  Leave(i) \in EventType /\ Event("enter", i) \in EventType
BY DEF Leave, Event, EventType, WhatHappens

\* What the caller does before the call, and the call.
LEMMA CallerStep ==
    ASSUME ProxyInv, control = "caller",
           \/ \E a \in Args : build_invocation(a)
           \/ \E i \in Interceptors : add_interceptor(i)
           \/ Invoke
    PROVE  ProxyInv'
<1>0. /\ events = << >> /\ frames = << >> /\ mi.chain_index = 0 /\ mi.has_exception = FALSE
      /\ mi \in [arg : Args, chain : Seq(Interceptors), chain_index : Nat, has_exception : BOOLEAN]
      /\ mi.chain \in Seq(Interceptors) /\ Len(mi.chain) \in Nat /\ frames \in Seq(Interceptors) /\ events \in Seq(EventType)
  BY ProxyTyped DEF ProxyInv, ProxyTypeOK
<1>1. ASSUME NEW a \in Args, build_invocation(a) PROVE ProxyInv'
  <2>1. /\ mi' = [mi EXCEPT !.arg = a] /\ control' = control /\ frames' = frames /\ events' = events
    BY <1>1 DEF build_invocation
  <2>2. /\ mi' \in [arg : Args, chain : Seq(Interceptors), chain_index : Nat, has_exception : BOOLEAN]
        /\ mi'.chain_index = 0 /\ mi'.has_exception = FALSE
    BY <1>0, <2>1
  <2>3. ProxyTypeOK'
    BY <1>0, <2>1, <2>2 DEF ProxyInv, ProxyTypeOK
  <2> QED
    BY <1>0, <2>1, <2>2, <2>3 DEF ProxyInv
<1>2. ASSUME NEW i \in Interceptors, add_interceptor(i) PROVE ProxyInv'
  <2> DEFINE longer == IF Len(mi.chain) < MAX_CHAIN_LEN THEN Append(mi.chain, i) ELSE mi.chain
  <2>1. /\ mi' = [mi EXCEPT !.chain = longer] /\ control' = control /\ frames' = frames /\ events' = events
    BY <1>2 DEF add_interceptor
  <2>2. longer \in Seq(Interceptors)
    BY <1>0, AppendProperties
  <2> HIDE DEF longer
  <2>3. /\ mi' \in [arg : Args, chain : Seq(Interceptors), chain_index : Nat, has_exception : BOOLEAN]
        /\ mi'.chain_index = 0 /\ mi'.has_exception = FALSE
    BY <1>0, <2>1, <2>2
  <2>4. ProxyTypeOK'
    BY <1>0, <2>1, <2>3 DEF ProxyInv, ProxyTypeOK
  <2> QED
    BY <1>0, <2>1, <2>3, <2>4 DEF ProxyInv
<1>3. ASSUME Invoke PROVE ProxyInv'
  <2>1. mi' = mi /\ control' = "proceed" /\ frames' = frames /\ events' = events
    BY <1>3 DEF Invoke
  <2>2. Len(events) = 0 /\ Len(frames) = 0 /\ \A k : k \notin 1 .. 0
    BY <1>0
  <2>3. ProxyTypeOK'
    BY <1>0, <2>1 DEF ProxyTypeOK
  <2>4. EnteredFirst(0)' /\ FramesOf(0)'
    BY <2>1, <2>2 DEF EnteredFirst, FramesOf
  <2>5. 0 <= Len(mi.chain)
    BY <1>0
  <2> QED
    BY <1>0, <2>1, <2>2, <2>3, <2>4, <2>5 DEF ProxyInv
<1> QED
  BY <1>1, <1>2, <1>3

\* One interceptor deeper.
LEMMA EnterStep ==
    ASSUME ProxyInv, Enter
    PROVE  ProxyInv'
<1> DEFINE i == Next_in_chain
           e == Event("enter", i)
<1> PICK m : m = mi.chain_index
  OBVIOUS
<1>0. /\ control = "proceed" /\ m < Len(mi.chain) /\ ProxyTypeOK
      /\ mi' = [mi EXCEPT !.chain_index = m + 1]
      /\ frames' = <<i>> \o frames
      /\ events' = Append(events, e) /\ control' = control
  BY DEF Enter, More, ProxyInv
<1>1. /\ Len(events) = m /\ mi.has_exception = FALSE /\ EnteredFirst(m) /\ FramesOf(m)
  BY <1>0 DEF ProxyInv
<1>2. /\ m \in Nat /\ Len(mi.chain) \in Nat /\ frames \in Seq(Interceptors) /\ Len(frames) = m
      /\ mi.chain \in Seq(Interceptors) /\ events \in Seq(EventType)
      /\ mi \in [arg : Args, chain : Seq(Interceptors), chain_index : Nat, has_exception : BOOLEAN]
  BY <1>0, <1>1, ProxyTyped DEF FramesOf, ProxyTypeOK
<1>3. i \in Interceptors /\ i = mi.chain[m + 1]
  <2>1. m + 1 \in 1 .. Len(mi.chain)
    BY <1>0, <1>2
  <2> QED
    BY <1>0, <2>1, ProxyTyped DEF Next_in_chain
<1>4. e \in EventType
  BY <1>0, <1>3, EventTyped
<1> HIDE DEF i, e
<1>5. /\ mi'.chain = mi.chain /\ mi'.chain_index = m + 1 /\ mi'.has_exception = FALSE
      /\ mi' \in [arg : Args, chain : Seq(Interceptors), chain_index : Nat, has_exception : BOOLEAN]
  <2>1. m + 1 \in Nat
    BY <1>2
  <2> QED
    BY <1>0, <1>1, <1>2, <2>1
<1>6. /\ events' \in Seq(EventType) /\ Len(events') = m + 1
      /\ \A k \in 1 .. m : events'[k] = events[k]
      /\ events'[m + 1] = e
  BY <1>0, <1>1, <1>2, <1>4, AppendProperties
<1>7. /\ frames' \in Seq(Interceptors) /\ Len(frames') = m + 1
      /\ frames'[1] = i
      /\ \A j \in 2 .. m + 1 : frames'[j] = frames[j - 1]
  <2>1. <<i>> \in Seq(Interceptors) /\ Len(<<i>>) = 1 /\ <<i>>[1] = i
    BY <1>3
  <2> DEFINE one == <<i>>
  <2> HIDE DEF one
  <2>2. /\ one \o frames \in Seq(Interceptors)
        /\ Len(one \o frames) = Len(one) + Len(frames)
        /\ \A j \in 1 .. Len(one) + Len(frames) :
              (one \o frames)[j] = IF j <= Len(one) THEN one[j] ELSE frames[j - Len(one)]
    BY <1>2, <2>1, ConcatProperties DEF one
  <2>3. frames' = one \o frames /\ Len(one) = 1 /\ one[1] = i
    BY <1>0, <2>1 DEF one
  <2> QED
    BY <1>2, <2>2, <2>3
<1>8. EnteredFirst(m + 1)'
  <2> SUFFICES ASSUME NEW k \in 1 .. m + 1 PROVE events'[k] = Event("enter", mi.chain[k])
    BY <1>5 DEF EnteredFirst
  <2>1. CASE k = m + 1
    BY <1>3, <1>6, <2>1 DEF e
  <2>2. CASE k # m + 1
    <3>1. k \in 1 .. m
      BY <1>2, <2>2
    <3> QED
      BY <1>1, <1>6, <3>1 DEF EnteredFirst
  <2> QED
    BY <2>1, <2>2
<1>9. ASSUME NEW j \in 1 .. m + 1
      PROVE  frames'[j] = mi.chain[(m + 1) - j + 1]
  <2>1. CASE j = 1
    <3>1. (m + 1) - j + 1 = m + 1
      BY <1>2, <2>1
    <3> QED
      BY <1>3, <1>7, <2>1, <3>1
  <2>2. CASE j # 1
    <3>1. j \in 2 .. m + 1 /\ j - 1 \in 1 .. m /\ m - (j - 1) + 1 = (m + 1) - j + 1
      BY <1>2, <2>2
    <3>2. frames[j - 1] = mi.chain[m - (j - 1) + 1]
      BY <1>1, <3>1 DEF FramesOf
    <3> QED
      BY <1>7, <3>1, <3>2
  <2> QED
    BY <2>1, <2>2
<1>12. FramesOf(m + 1)'
  <2>1. PICK d : d = m + 1
    OBVIOUS
  <2>2. PICK c : c = mi.chain
    OBVIOUS
  <2>3. Len(frames') = d /\ c = mi'.chain
    BY <1>5, <1>7, <2>1, <2>2
  <2>4. \A j \in 1 .. d : frames'[j] = c[d - j + 1]
    BY <1>9, <2>1, <2>2
  <2>5. FramesOf(d)'
    BY <2>3, <2>4 DEF FramesOf
  <2> QED
    BY <2>1, <2>5
<1>10. ProxyTypeOK'
  BY <1>0, <1>5, <1>6, <1>7 DEF ProxyTypeOK
<1>11. m + 1 <= Len(mi'.chain)
  BY <1>0, <1>2, <1>5
<1> QED
  BY <1>0, <1>5, <1>6, <1>8, <1>10, <1>11, <1>12 DEF ProxyInv

\* The cache answers, or the target is called: the way back begins.
LEMMA TurnStep ==
    ASSUME ProxyInv, AnswerFromCache \/ target_get_user_by_id
    PROVE  ProxyInv'
<1> PICK m : m = mi.chain_index
  OBVIOUS
<1> DEFINE e == IF AnswerFromCache THEN Event("hit", "cache") ELSE Event("call", "target")
<1>0. /\ control = "proceed" /\ ProxyTypeOK /\ frames' = frames /\ control' = "return"
  BY DEF AnswerFromCache, target_get_user_by_id, ProxyInv
<1>1. /\ Len(events) = m /\ mi.has_exception = FALSE /\ EnteredFirst(m) /\ FramesOf(m) /\ m <= Len(mi.chain)
  BY <1>0 DEF ProxyInv
<1>2. /\ m \in Nat /\ Len(mi.chain) \in Nat /\ frames \in Seq(Interceptors)
      /\ mi.chain \in Seq(Interceptors) /\ events \in Seq(EventType)
      /\ mi \in [arg : Args, chain : Seq(Interceptors), chain_index : Nat, has_exception : BOOLEAN]
  BY <1>0, ProxyTyped DEF ProxyTypeOK
<1>3. /\ events' = Append(events, e) /\ e \in EventType
      /\ mi'.chain = mi.chain
      /\ mi' \in [arg : Args, chain : Seq(Interceptors), chain_index : Nat, has_exception : BOOLEAN]
      /\ \/ e = Event("hit", "cache") /\ mi'.arg = "1" /\ mi'.has_exception = FALSE
         \/ e = Event("call", "target") /\ m = Len(mi.chain) /\ mi'.has_exception = (mi'.arg = "999")
  <2>1. CASE AnswerFromCache
    <3>1. mi' = [mi EXCEPT !.chain_index = m + 1] /\ mi.arg = "1" /\ events' = Append(events, Event("hit", "cache"))
      BY <2>1 DEF AnswerFromCache, Hit
    <3>2. m + 1 \in Nat
      BY <1>2
    <3>3. /\ mi'.chain = mi.chain /\ mi'.arg = "1" /\ mi'.has_exception = FALSE
          /\ mi' \in [arg : Args, chain : Seq(Interceptors), chain_index : Nat, has_exception : BOOLEAN]
      BY <1>1, <1>2, <3>1, <3>2
    <3>4. Event("hit", "cache") \in EventType
      BY DEF Event, EventType, WhatHappens
    <3> QED
      BY <2>1, <3>1, <3>3, <3>4
  <2>2. CASE ~ AnswerFromCache
    <3>1. /\ mi' = [mi EXCEPT !.has_exception = (mi.arg = "999")] /\ ~ m < Len(mi.chain)
          /\ events' = Append(events, Event("call", "target"))
      BY <2>2 DEF target_get_user_by_id, More
    <3>2. m = Len(mi.chain)
      BY <1>1, <1>2, <3>1
    <3>3. PICK thrown \in BOOLEAN : thrown = (mi.arg = "999")
      OBVIOUS
    <3>4. mi' = [mi EXCEPT !.has_exception = thrown]
      BY <3>1, <3>3
    <3>5. /\ mi'.chain = mi.chain /\ mi'.arg = mi.arg /\ mi'.has_exception = thrown
          /\ mi' \in [arg : Args, chain : Seq(Interceptors), chain_index : Nat, has_exception : BOOLEAN]
      BY <1>2, <3>4
    <3>6. Event("call", "target") \in EventType
      BY DEF Event, EventType, WhatHappens
    <3>7. mi'.has_exception = (mi'.arg = "999")
      BY <3>3, <3>5
    <3> QED
      BY <2>2, <3>1, <3>2, <3>5, <3>6, <3>7
  <2> QED
    BY <2>1, <2>2
<1> HIDE DEF e
<1>4. /\ events' \in Seq(EventType) /\ Len(events') = m + 1
      /\ \A k \in 1 .. m : events'[k] = events[k]
      /\ events'[m + 1] = e
  BY <1>1, <1>2, <1>3, AppendProperties
<1>5. EnteredFirst(m)' /\ FramesOf(m)'
  BY <1>0, <1>1, <1>3, <1>4 DEF EnteredFirst, FramesOf
<1>6. Turned(m, 0)'
  <2>1. m + 1 + 0 = m + 1 /\ m - 0 = m /\ 0 <= m /\ \A j : j \notin 1 .. 0
    BY <1>2
  <2>2. FramesOf(m - 0)'
    BY <1>5, <2>1
  <2> QED
    BY <1>1, <1>3, <1>4, <1>5, <2>1, <2>2 DEF Turned
<1>7. ProxyTypeOK'
  BY <1>0, <1>2, <1>3, <1>4 DEF ProxyTypeOK
<1>8. \E c, r \in Nat : Turned(c, r)'
  BY <1>2, <1>6
<1> QED
  BY <1>0, <1>7, <1>8 DEF ProxyInv

\* One interceptor is left.
LEMMA UnwindStep ==
    ASSUME ProxyInv, Unwind
    PROVE  ProxyInv'
<1> DEFINE i == Head(frames)
           e == Leave(i)
<1>0. /\ control = "return" /\ ProxyTypeOK /\ frames # << >>
      /\ events' = Append(events, e) /\ frames' = Tail(frames) /\ mi' = mi /\ control' = control
  BY DEF Unwind, ProxyInv
<1>1. PICK m \in Nat, r \in Nat : Turned(m, r)
  BY <1>0 DEF ProxyInv
<1>2. /\ Len(mi.chain) \in Nat /\ frames \in Seq(Interceptors) /\ events \in Seq(EventType)
      /\ Len(frames) \in Nat /\ \A k \in 1 .. Len(frames) : frames[k] \in Interceptors
  BY <1>0, ProxyTyped
<1>3. /\ m <= Len(mi.chain) /\ r <= m /\ Len(events) = m + 1 + r /\ Len(frames) = m - r
      /\ \A j \in 1 .. m - r : frames[j] = mi.chain[(m - r) - j + 1]
  BY <1>1 DEF Turned, FramesOf
<1>4. Len(frames) # 0
  BY <1>0, <1>2, EmptySeq
<1>5. r < m /\ r + 1 \in Nat /\ m - r \in Nat /\ 1 \in 1 .. m - r
  BY <1>2, <1>3, <1>4
<1>6. i = frames[1] /\ i = mi.chain[m - r] /\ i \in Interceptors
  <2>1. (m - r) - 1 + 1 = m - r
    BY <1>5
  <2>2. i = frames[1]
    BY <1>0, <1>2, HeadTailProperties
  <2>3. frames[1] = mi.chain[m - r]
    BY <1>3, <1>5, <2>1
  <2>4. 1 \in 1 .. Len(frames)
    BY <1>3, <1>5
  <2>5. i \in Interceptors
    BY <1>2, <2>2, <2>4
  <2> QED
    BY <2>2, <2>3, <2>5
<1>7. e \in EventType
  BY <1>0, <1>6, EventTyped
<1> HIDE DEF i, e
<1>8. /\ frames' \in Seq(Interceptors) /\ Len(frames') = m - r - 1
      /\ \A j \in 1 .. m - r - 1 : frames'[j] = frames[j + 1]
  <2>1. /\ Tail(frames) \in Seq(Interceptors) /\ Len(Tail(frames)) = Len(frames) - 1
        /\ \A j \in 1 .. Len(Tail(frames)) : Tail(frames)[j] = frames[j + 1]
    BY <1>0, <1>2, HeadTailProperties
  <2> QED
    BY <1>0, <1>3, <2>1
<1>9. /\ events' \in Seq(EventType) /\ Len(events') = m + 1 + r + 1
      /\ \A k \in 1 .. m + 1 + r : events'[k] = events[k]
      /\ events'[m + 1 + r + 1] = e
  <2>1. /\ Append(events, e) \in Seq(EventType) /\ Len(Append(events, e)) = Len(events) + 1
        /\ \A k \in 1 .. Len(events) : Append(events, e)[k] = events[k]
        /\ Append(events, e)[Len(events) + 1] = e
    BY <1>2, <1>7, AppendProperties
  <2> QED
    BY <1>0, <1>3, <2>1
<1>10. FramesOf(m - (r + 1))'
  <2>0. m - (r + 1) = m - r - 1
    BY <1>5
  <2> SUFFICES ASSUME NEW j \in 1 .. m - (r + 1) PROVE frames'[j] = mi.chain[m - (r + 1) - j + 1]
    BY <1>0, <1>8, <2>0 DEF FramesOf
  <2>1. j \in 1 .. m - r - 1 /\ j + 1 \in 1 .. m - r /\ (m - r) - (j + 1) + 1 = m - (r + 1) - j + 1
    BY <1>5
  <2>2. frames'[j] = frames[j + 1]
    BY <1>8, <2>1
  <2>3. frames[j + 1] = mi.chain[(m - r) - (j + 1) + 1]
    BY <1>3, <2>1
  <2> QED
    BY <2>1, <2>2, <2>3
<1>11. EnteredFirst(m)'
  <2>1. \A k \in 1 .. m : k \in 1 .. m + 1 + r
    BY <1>5
  <2>2. EnteredFirst(m)
    BY <1>1 DEF Turned
  <2> QED
    BY <1>0, <1>9, <2>1, <2>2 DEF EnteredFirst
<1>12. ASSUME NEW j \in 1 .. r + 1 PROVE events'[m + 1 + j] = Leave(mi.chain[m - j + 1])
  <2>1. CASE j = r + 1
    <3>1. m + 1 + j = m + 1 + r + 1 /\ m - j + 1 = m - r
      BY <1>5, <2>1
    <3> QED
      BY <1>6, <1>9, <3>1 DEF e
  <2>2. CASE j # r + 1
    <3>1. j \in 1 .. r /\ m + 1 + j \in 1 .. m + 1 + r
      BY <1>5, <2>2
    <3>2. events[m + 1 + j] = Leave(mi.chain[m - j + 1])
      BY <1>1, <3>1 DEF Turned
    <3> QED
      BY <1>9, <3>1, <3>2
  <2> QED
    BY <2>1, <2>2
<1>13. events'[m + 1] = events[m + 1]
  <2>1. m + 1 \in 1 .. m + 1 + r
    BY <1>5
  <2> QED
    BY <1>9, <2>1
<1>14. Turned(m, r + 1)'
  <2>1. m <= Len(mi'.chain) /\ r + 1 <= m /\ Len(events') = m + 1 + (r + 1)
    BY <1>0, <1>3, <1>5, <1>9
  <2>2. \/ events'[m + 1] = Event("hit", "cache") /\ mi'.arg = "1" /\ mi'.has_exception = FALSE
        \/ events'[m + 1] = Event("call", "target") /\ m = Len(mi'.chain) /\ mi'.has_exception = (mi'.arg = "999")
    BY <1>0, <1>1, <1>13 DEF Turned
  <2>3. \A j \in 1 .. r + 1 : events'[m + 1 + j] = Leave(mi.chain[m - j + 1])'
    BY <1>0, <1>12 DEF Leave
  <2> QED
    BY <1>10, <1>11, <2>1, <2>2, <2>3 DEF Turned
<1>15. ProxyTypeOK'
  BY <1>0, <1>8, <1>9 DEF ProxyTypeOK
<1>16. \E c, d \in Nat : Turned(c, d)'
  BY <1>5, <1>14
<1> QED
  BY <1>0, <1>15, <1>16 DEF ProxyInv

LEMMA ProxyStep ==
    ProxyInv /\ [ProxyNext]_proxyVars => ProxyInv'
<1> SUFFICES ASSUME ProxyInv, [ProxyNext]_proxyVars PROVE ProxyInv'
  OBVIOUS
<1>1. ASSUME (\E a \in Args : build_invocation(a)) \/ (\E i \in Interceptors : add_interceptor(i)) \/ Invoke
      PROVE  ProxyInv'
  <2>1. control = "caller"
    BY <1>1 DEF build_invocation, add_interceptor, Invoke
  <2> QED
    BY <1>1, <2>1, CallerStep
<1>2. CASE UNCHANGED proxyVars
  <2>1. mi' = mi /\ control' = control /\ frames' = frames /\ events' = events
    BY <1>2 DEF proxyVars
  <2> QED
    BY <2>1 DEF ProxyInv, ProxyTypeOK, EnteredFirst, FramesOf, Turned, Leave
<1> QED
  BY <1>1, <1>2, EnterStep, TurnStep, UnwindStep DEF ProxyNext

\* What AdviceNests selects, when m were entered, c calls made and r left.
LEMMA SelectedAre ==
    ASSUME ProxyTypeOK, NEW m \in Nat, NEW c \in Nat, NEW r \in Nat, Len(events) = m + c + r,
           EnteredFirst(m),
           \A k \in m + 1 .. m + c : events[k].what \in {"hit", "call"},
           \A k \in m + c + 1 .. m + c + r : events[k].what \in {"leave", "commit", "rollback", "store"}
    PROVE  /\ Len(Entered) = m /\ DOMAIN Entered = 1 .. m
           /\ \A k \in 1 .. m : Entered[k].who = mi.chain[k]
           /\ Len(Calls) = c /\ \A k \in 1 .. c : Calls[k] = events[m + k]
           /\ Len(Left) = r /\ DOMAIN Left = 1 .. r /\ \A k \in 1 .. r : Left[k] = events[m + c + k]
<1> DEFINE At(whats) == {k \in DOMAIN events : events[k].what \in whats}
<1>0. events \in Seq(EventType) /\ DOMAIN events = 1 .. m + c + r
  BY ProxyTyped
<1>1. \A k \in 1 .. m : events[k].what = "enter" /\ events[k].who = mi.chain[k]
  <2> SUFFICES ASSUME NEW k \in 1 .. m PROVE events[k].what = "enter" /\ events[k].who = mi.chain[k]
    OBVIOUS
  <2>1. events[k] = [what |-> "enter", who |-> mi.chain[k]]
    BY DEF EnteredFirst, Event
  <2> QED
    BY <2>1
<1>2. \A k \in 1 .. m + c + r : k \in 1 .. m \/ k \in m + 1 .. m + c \/ k \in m + c + 1 .. m + c + r
  OBVIOUS
<1>3. /\ 1 .. m \subseteq 1 .. m + c + r /\ m + 1 .. m + c \subseteq 1 .. m + c + r
      /\ m + c + 1 .. m + c + r \subseteq 1 .. m + c + r
  OBVIOUS
<1>4. At({"enter"}) = 1 .. m
  BY <1>0, <1>1, <1>2, <1>3
<1>5. At({"hit", "call"}) = m + 1 .. m + c
  BY <1>0, <1>1, <1>2, <1>3
<1>6. At({"leave", "commit", "rollback", "store"}) = m + c + 1 .. m + c + r
  BY <1>0, <1>1, <1>2, <1>3
<1>7. \A lo \in Nat \ {0}, hi \in Nat : lo <= hi + 1 /\ hi <= Len(events) =>
          /\ Selection(events, lo .. hi) \in Seq(EventType)
          /\ Len(Selection(events, lo .. hi)) = hi - lo + 1
          /\ \A k \in 1 .. hi - lo + 1 : Selection(events, lo .. hi)[k] = events[lo + k - 1]
  <2> SUFFICES ASSUME NEW lo \in Nat \ {0}, NEW hi \in Nat, lo <= hi + 1, hi <= Len(events)
               PROVE  /\ Selection(events, lo .. hi) \in Seq(EventType)
                      /\ Len(Selection(events, lo .. hi)) = hi - lo + 1
                      /\ \A k \in 1 .. hi - lo + 1 : Selection(events, lo .. hi)[k] = events[lo + k - 1]
    OBVIOUS
  <2>1. Selection(events, lo .. hi) \in Seq(EventType)
    BY <1>0, SelectionIs
  <2>2. /\ Len(Selection(events, lo .. hi)) = hi - lo + 1
        /\ \A k \in 1 .. hi - lo + 1 : Selection(events, lo .. hi)[k] = events[lo + k - 1]
    <3> DEFINE T == EventType
    <3>1. events \in Seq(T)
      BY <1>0
    <3> HIDE DEF T
    <3> QED
      BY <3>1, SelectionOfInterval
  <2> QED
    BY <2>1, <2>2
<1>8. /\ Entered \in Seq(EventType) /\ Len(Entered) = m /\ \A k \in 1 .. m : Entered[k] = events[k]
  <2>1. Entered = Selection(events, 1 .. m)
    BY <1>4 DEF Entered, EventsOf
  <2>2. 1 \in Nat \ {0} /\ 1 <= m + 1 /\ m <= Len(events) /\ m - 1 + 1 = m /\ \A k \in 1 .. m : 1 + k - 1 = k
    OBVIOUS
  <2>3. /\ Entered \in Seq(EventType) /\ Len(Entered) = m - 1 + 1
        /\ \A k \in 1 .. m - 1 + 1 : Entered[k] = events[1 + k - 1]
    BY <1>7, <2>1, <2>2
  <2> QED
    BY <2>2, <2>3
<1>9. /\ Calls \in Seq(EventType) /\ Len(Calls) = c /\ \A k \in 1 .. c : Calls[k] = events[m + k]
  <2>1. Calls = Selection(events, m + 1 .. m + c)
    BY <1>5 DEF Calls, EventsOf
  <2>2. PICK lo \in Nat \ {0}, hi \in Nat : lo = m + 1 /\ hi = m + c
    OBVIOUS
  <2>3. lo <= hi + 1 /\ hi <= Len(events) /\ hi - lo + 1 = c /\ \A k \in 1 .. c : lo + k - 1 = m + k
    BY <2>2
  <2>4. /\ Calls \in Seq(EventType) /\ Len(Calls) = hi - lo + 1
        /\ \A k \in 1 .. hi - lo + 1 : Calls[k] = events[lo + k - 1]
    BY <1>7, <2>1, <2>2, <2>3
  <2> HIDE DEF Calls
  <2> QED
    BY <2>3, <2>4
<1>10. /\ Left \in Seq(EventType) /\ Len(Left) = r /\ \A k \in 1 .. r : Left[k] = events[m + c + k]
  <2>1. Left = Selection(events, m + c + 1 .. m + c + r)
    BY <1>6 DEF Left, EventsOf
  <2>2. PICK lo \in Nat \ {0}, hi \in Nat : lo = m + c + 1 /\ hi = m + c + r
    OBVIOUS
  <2>3. lo <= hi + 1 /\ hi <= Len(events) /\ hi - lo + 1 = r /\ \A k \in 1 .. r : lo + k - 1 = m + c + k
    BY <2>2
  <2>4. /\ Left \in Seq(EventType) /\ Len(Left) = hi - lo + 1
        /\ \A k \in 1 .. hi - lo + 1 : Left[k] = events[lo + k - 1]
    BY <1>7, <2>1, <2>2, <2>3
  <2> HIDE DEF Left
  <2> QED
    BY <2>3, <2>4
<1> HIDE DEF Entered, Left, Calls
<1>11. DOMAIN Entered = 1 .. m /\ DOMAIN Left = 1 .. r
  BY <1>8, <1>10, LenProperties
<1>12. \A k \in 1 .. m : Entered[k].who = mi.chain[k]
  BY <1>1, <1>8
<1> QED
  BY <1>8, <1>9, <1>10, <1>11, <1>12

LEMMA ProxiesNest ==
    ProxyInv => AdviceNests
<1> SUFFICES ASSUME ProxyInv PROVE AdviceNests
  OBVIOUS
<1>0. /\ ProxyTypeOK /\ mi.chain \in Seq(Interceptors) /\ Len(mi.chain) \in Nat /\ mi.chain_index \in Nat
      /\ control \in {"caller", "proceed", "return"} /\ frames \in Seq(Interceptors)
  BY ProxyTyped DEF ProxyInv, ProxyTypeOK
<1>1. ASSUME NEW m \in Nat, m <= Len(mi.chain), DOMAIN Entered = 1 .. m, Len(Entered) = m,
             \A k \in 1 .. m : Entered[k].who = mi.chain[k]
      PROVE  /\ IsPrefix(Names_of(Entered), mi.chain)
             /\ Names_of(Entered) = [k \in 1 .. m |-> mi.chain[k]]
  <2>1. Names_of(Entered) = [k \in 1 .. m |-> mi.chain[k]]
    BY <1>1 DEF Names_of
  <2> DEFINE names == [k \in 1 .. m |-> mi.chain[k]]
  <2>2. names \in Seq(Interceptors) /\ Len(names) = m
    <3>1. \A k \in 1 .. m : mi.chain[k] \in Interceptors
      BY <1>0, <1>1, ProxyTyped
    <3>2. names \in [1 .. m -> Interceptors] /\ DOMAIN names = 1 .. m
      BY <3>1
    <3> HIDE DEF names
    <3>3. names \in Seq(Interceptors)
      BY <3>2, SeqDef
    <3>4. Len(names) \in Nat /\ 1 .. Len(names) = 1 .. m
      BY <3>2, <3>3, LenProperties
    <3> QED
      BY <3>3, <3>4
  <2>3. SubSeq(names, 1, m) = SubSeq(mi.chain, 1, m)
    <3>1. \A k \in 1 .. m : names[k] \in Interceptors /\ mi.chain[k] \in Interceptors /\ names[k] = mi.chain[k]
      BY <1>0, <1>1, ProxyTyped
    <3>2. /\ SubSeq(names, 1, m) \in Seq(Interceptors)
          /\ Len(SubSeq(names, 1, m)) = IF 1 <= m THEN m - 1 + 1 ELSE 0
          /\ \A k \in 1 .. m - 1 + 1 : SubSeq(names, 1, m)[k] = names[1 + k - 1]
      <4> HIDE DEF names
      <4> QED
        BY <3>1, SubSeqProperties
    <3>3. /\ SubSeq(mi.chain, 1, m) \in Seq(Interceptors)
          /\ Len(SubSeq(mi.chain, 1, m)) = IF 1 <= m THEN m - 1 + 1 ELSE 0
          /\ \A k \in 1 .. m - 1 + 1 : SubSeq(mi.chain, 1, m)[k] = mi.chain[1 + k - 1]
      BY <3>1, SubSeqProperties
    <3>4. Len(SubSeq(names, 1, m)) = m /\ Len(SubSeq(mi.chain, 1, m)) = m
      BY <3>2, <3>3
    <3>5. \A k \in 1 .. m : SubSeq(names, 1, m)[k] = SubSeq(mi.chain, 1, m)[k]
      <4>1. \A k \in 1 .. m : k \in 1 .. m - 1 + 1 /\ 1 + k - 1 = k
        OBVIOUS
      <4> HIDE DEF names
      <4> QED
        BY <3>1, <3>2, <3>3, <4>1
    <3> HIDE DEF names
    <3> QED
      BY <3>2, <3>3, <3>4, <3>5, SeqEqual
  <2> HIDE DEF names
  <2>4. IsPrefix(names, mi.chain)
    BY <1>1, <2>2, <2>3 DEF IsPrefix
  <2> QED
    BY <2>1, <2>4 DEF names
<1>2. ASSUME NEW m \in Nat, m <= Len(mi.chain), Len(events) = m, EnteredFirst(m), control # "return"
      PROVE  AdviceNests
  <2>1. Len(events) = m + 0 + 0 /\ (\A k : k \notin m + 1 .. m + 0) /\ (\A k : k \notin m + 0 + 1 .. m + 0 + 0)
    BY <1>2
  <2>2. /\ Len(Entered) = m /\ DOMAIN Entered = 1 .. m
        /\ \A k \in 1 .. m : Entered[k].who = mi.chain[k]
        /\ DOMAIN Left = 1 .. 0
    <3> HIDE DEF Entered, Left
    <3> QED
      BY <1>0, <1>2, <2>1, SelectedAre
  <2>3. IsPrefix(Names_of(Entered), mi.chain)
    BY <1>1, <1>2, <2>2
  <2>4. DOMAIN Left = {}
    BY <2>2
  <2> QED
    BY <1>2, <2>3, <2>4 DEF AdviceNests
<1>3. CASE control = "caller"
  <2>1. Len(events) = 0 /\ EnteredFirst(0) /\ 0 <= Len(mi.chain)
    <3>1. events = << >> /\ \A k : k \notin 1 .. 0
      BY <1>3 DEF ProxyInv
    <3> QED
      BY <1>0, <3>1 DEF EnteredFirst
  <2> QED
    BY <1>2, <1>3, <2>1
<1>4. CASE control = "proceed"
  BY <1>0, <1>2, <1>4 DEF ProxyInv
<1>5. CASE control = "return"
  <2>1. PICK m \in Nat, r \in Nat : Turned(m, r)
    BY <1>5 DEF ProxyInv
  <2>2. /\ m <= Len(mi.chain) /\ r <= m /\ Len(events) = m + 1 + r /\ EnteredFirst(m) /\ Len(frames) = m - r
        /\ \A j \in 1 .. r : events[m + 1 + j] = Leave(mi.chain[m - j + 1])
    BY <2>1 DEF Turned, FramesOf
  <2>3. /\ events[m + 1].what \in {"hit", "call"}
        /\ events[m + 1].what = "hit" => mi.arg = "1" /\ mi.has_exception = FALSE
        /\ events[m + 1].what = "call" => m = Len(mi.chain) /\ mi.has_exception = (mi.arg = "999")
    BY <2>1 DEF Turned, Event
  <2>4. ASSUME NEW j \in 1 .. r
        PROVE  /\ events[m + 1 + j].who = mi.chain[m - j + 1]
               /\ events[m + 1 + j].what \in {"leave", "commit", "rollback", "store"}
               /\ events[m + 1 + j].what = "rollback" <=> mi.chain[m - j + 1] = "transaction" /\ mi.has_exception
               /\ events[m + 1 + j].what = "store" => ~ mi.has_exception
    <3>1. events[m + 1 + j] = Leave(mi.chain[m - j + 1])
      BY <2>2
    <3> QED
      BY <3>1 DEF Leave, Event
  <2>5. /\ \A k \in m + 1 .. m + 1 : k = m + 1
        /\ \A k \in m + 1 + 1 .. m + 1 + r : k - (m + 1) \in 1 .. r /\ m + 1 + (k - (m + 1)) = k
    OBVIOUS
  <2>6. /\ \A k \in m + 1 .. m + 1 : events[k].what \in {"hit", "call"}
        /\ \A k \in m + 1 + 1 .. m + 1 + r : events[k].what \in {"leave", "commit", "rollback", "store"}
    BY <2>3, <2>4, <2>5
  <2>7. /\ Len(Entered) = m /\ DOMAIN Entered = 1 .. m
        /\ \A k \in 1 .. m : Entered[k].who = mi.chain[k]
        /\ Len(Calls) = 1 /\ \A k \in 1 .. 1 : Calls[k] = events[m + k]
        /\ Len(Left) = r /\ DOMAIN Left = 1 .. r /\ \A k \in 1 .. r : Left[k] = events[m + 1 + k]
    <3> HIDE DEF Entered, Left, Calls
    <3>1. PICK c \in Nat : c = 1
      OBVIOUS
    <3>2. /\ Len(events) = m + c + r
          /\ \A k \in m + 1 .. m + c : events[k].what \in {"hit", "call"}
          /\ \A k \in m + c + 1 .. m + c + r : events[k].what \in {"leave", "commit", "rollback", "store"}
      BY <2>2, <2>6, <3>1
    <3>3. /\ Len(Entered) = m /\ DOMAIN Entered = 1 .. m
          /\ \A k \in 1 .. m : Entered[k].who = mi.chain[k]
          /\ Len(Calls) = c /\ \A k \in 1 .. c : Calls[k] = events[m + k]
          /\ Len(Left) = r /\ DOMAIN Left = 1 .. r /\ \A k \in 1 .. r : Left[k] = events[m + c + k]
      <4>1. ProxyTypeOK /\ EnteredFirst(m)
        BY <1>0, <2>2
      <4> QED
        BY ZenonT(30), <3>2, <4>1, SelectedAre
    <3> QED
      BY <3>1, <3>3
  <2> HIDE DEF Entered, Left, Calls
  <2>8. IsPrefix(Names_of(Entered), mi.chain) /\ Names_of(Entered) = [k \in 1 .. m |-> mi.chain[k]]
    BY <1>1, <2>2, <2>7
  <2>9. Calls[1] = events[m + 1]
    BY <2>7
  <2>10. ASSUME NEW k \in DOMAIN Left
         PROVE  Left[k].who = mi.chain[m - k + 1] /\ Left[k].who = Entered[Len(Entered) - k + 1].who
    <3>1. k \in 1 .. r /\ m - k + 1 \in 1 .. m
      BY <2>2, <2>7
    <3>2. Left[k].who = mi.chain[m - k + 1]
      <4>1. Left[k] = events[m + 1 + k]
        BY <2>7, <3>1
      <4>2. events[m + 1 + k].who = mi.chain[m - k + 1]
        BY <2>4, <3>1
      <4> QED
        BY <4>1, <4>2
    <3>3. Entered[m - k + 1].who = mi.chain[m - k + 1]
      BY <2>7, <3>1
    <3> QED
      BY <2>7, <3>2, <3>3
  <2>11. Names_of(Entered) = Names_of(Reverse(Left)) \/ frames # << >>
    <3> SUFFICES ASSUME frames = << >> PROVE Names_of(Entered) = Names_of(Reverse(Left))
      OBVIOUS
    <3>1. r = m
      <4>1. m - r = 0
        BY <2>2
      <4> QED
        BY <4>1
    <3>2. \A k \in 1 .. m : (r - k) + 1 \in 1 .. r /\ m - ((r - k) + 1) + 1 = k
      BY <3>1
    <3>3. Reverse(Left) = [k \in 1 .. m |-> Left[(r - k) + 1]]
      BY <2>7, <3>1 DEF Reverse
    <3>4. \A k \in 1 .. m : Left[(r - k) + 1].who = mi.chain[k]
      <4> SUFFICES ASSUME NEW k \in 1 .. m PROVE Left[(r - k) + 1].who = mi.chain[k]
        OBVIOUS
      <4>1. (r - k) + 1 \in DOMAIN Left /\ m - ((r - k) + 1) + 1 = k
        BY <2>7, <3>2
      <4>2. Left[(r - k) + 1].who = mi.chain[m - ((r - k) + 1) + 1]
        BY <2>10, <4>1
      <4> QED
        BY <4>1, <4>2
    <3>5. Names_of(Reverse(Left)) = [k \in 1 .. m |-> Left[(r - k) + 1].who]
      BY <3>3 DEF Names_of
    <3> QED
      BY <2>8, <3>4, <3>5
  <2>12. Calls[1].what = "call" => Len(Entered) = Len(mi.chain)
    BY <2>3, <2>7, <2>9
  <2>13. ASSUME NEW k \in DOMAIN Left
         PROVE  /\ Left[k].what = "rollback" <=> Left[k].who = "transaction" /\ mi.arg = "999" /\ Calls[1].what = "call"
                /\ Left[k].what = "store" => mi.arg # "999"
    <3>1. k \in 1 .. r /\ Left[k] = events[m + 1 + k] /\ Left[k].who = mi.chain[m - k + 1]
      BY <2>7, <2>10
    <3>2. mi.has_exception <=> mi.arg = "999" /\ Calls[1].what = "call"
      BY <2>3, <2>9
    <3>3. mi.has_exception \/ mi.arg # "999"
      BY <2>3
    <3>4. /\ Left[k].what = "rollback" <=> Left[k].who = "transaction" /\ mi.has_exception
          /\ Left[k].what = "store" => ~ mi.has_exception
      BY <2>4, <3>1
    <3> QED
      BY <3>2, <3>3, <3>4
  <2> QED
    BY <1>5, <2>7, <2>8, <2>10, <2>11, <2>12, <2>13 DEF AdviceNests
<1> QED
  BY <1>0, <1>3, <1>4, <1>5

-----------------------------------------------------------------------------
\* For any names, capacities, interceptors and numbers of beans: a singleton is one
\* bean that lives while its context is open, and closing destroys nothing twice;
\* all beans of a type share their dependencies; and interceptors nest around one
\* call (bean_factory.c:328-447, field_injection.c:148-226, proxy_chain.c:114-265).
THEOREM ContainersNest ==
    BeanFactorySpec /\ InjectionSpec /\ ProxySpec => []BeansAndProxiesNest
<1>1. BeanFactorySpec => []BeansLiveOnce
  BY BeanStart, BeanStep, BeansOnce, PTL DEF BeanFactorySpec
<1>2. InjectionSpec => []DependenciesAreShared
  BY InjectionStart, InjectionStep, WiredAlike, PTL DEF InjectionSpec
<1>3. ProxySpec => []AdviceNests
  BY ProxyStart, ProxyStep, ProxiesNest, PTL DEF ProxySpec
<1>4. BeansLiveOnce /\ DependenciesAreShared /\ AdviceNests => BeansAndProxiesNest
  BY DEF BeansAndProxiesNest
<1> QED
  BY <1>1, <1>2, <1>3, <1>4, PTL

-----------------------------------------------------------------------------
(* The embedded server (SpringRuntime, phase 4)                              *)

TomcatStates == {"NEW", "INITIALIZED", "STARTED", "STOPPED", "FAILED"}

Servers == [state : TomcatStates, port : Ports \cup {8080}, max_threads : Nat,
            min_spare_threads : Nat, accept_count : Nat, active_threads : Nat,
            queued_requests : Nat, total_requests : Nat, in_flight_requests : Nat,
            servlets : Nat, filters : Nat]

TomcatTypeOK ==
    /\ tomcat \in Servers
    /\ submitted \in [all : Nat, refused : Nat]
    /\ configured \in Seq(ThreadCounts)

\* The threads are those of the last configuration, or what tomcat_create sets.
ThreadsAsConfigured ==
    IF configured = << >> THEN tomcat.max_threads = 200 /\ tomcat.min_spare_threads = 10
    ELSE /\ tomcat.max_threads = configured[Len(configured)].max
         /\ tomcat.min_spare_threads = configured[Len(configured)].spare

TomcatInv == TomcatTypeOK /\ ThreadsAsConfigured /\ StartedMeansReady

LEMMA TomcatInitInv == TomcatInit => TomcatInv
<1> SUFFICES ASSUME TomcatInit PROVE TomcatInv
  OBVIOUS
<1>1. << >> \in Seq(ThreadCounts)
  OBVIOUS
<1>2. tomcat = tomcat_create /\ submitted = [all |-> 0, refused |-> 0] /\ configured = << >>
  BY DEF TomcatInit
<1>3. tomcat.state = "NEW" /\ tomcat.max_threads = 200 /\ tomcat.min_spare_threads = 10
      /\ tomcat.queued_requests = 0 /\ tomcat.accept_count = 100 /\ tomcat.total_requests = 0
  BY <1>2 DEF tomcat_create
<1>4. tomcat \in Servers
  BY <1>2 DEF tomcat_create, Servers, TomcatStates
<1>5. submitted \in [all : Nat, refused : Nat] /\ submitted.all = 0 /\ submitted.refused = 0
  BY <1>2
<1> QED
  BY <1>1, <1>2, <1>3, <1>4, <1>5 DEF TomcatInv, TomcatTypeOK, ThreadsAsConfigured, StartedMeansReady

\* What may be assigned to the fields.
LEMMA Assigned ==
    ASSUME NEW s \in Servers
    PROVE  /\ \A n \in Nat :
              /\ [s EXCEPT !.max_threads = n] \in Servers /\ [s EXCEPT !.min_spare_threads = n] \in Servers
              /\ [s EXCEPT !.accept_count = n] \in Servers /\ [s EXCEPT !.active_threads = n] \in Servers
              /\ [s EXCEPT !.queued_requests = n] \in Servers /\ [s EXCEPT !.total_requests = n] \in Servers
              /\ [s EXCEPT !.in_flight_requests = n] \in Servers
              /\ [s EXCEPT !.servlets = n] \in Servers /\ [s EXCEPT !.filters = n] \in Servers
           /\ \A p \in Ports : [s EXCEPT !.port = p] \in Servers
           /\ \A t \in TomcatStates : [s EXCEPT !.state = t] \in Servers
BY DEF Servers


LEMMA StopKeeps ==
    ASSUME TomcatInv, tomcat_stop
    PROVE  TomcatInv'
<1>0. tomcat \in Servers /\ submitted \in [all : Nat, refused : Nat] /\ configured \in Seq(ThreadCounts)
      /\ {"INITIALIZED", "STARTED", "STOPPED", "FAILED"} \subseteq TomcatStates
  BY DEF TomcatInv, TomcatTypeOK, TomcatStates
<1> DEFINE calm == [tomcat EXCEPT !.in_flight_requests = 0]
<1> DEFINE stopped == [calm EXCEPT !.state = "STOPPED"]
<1>1. tomcat' = stopped
  BY Zenon DEF tomcat_stop
<1>2. calm \in Servers
  BY <1>0, Assigned
<1>3. /\ calm.in_flight_requests = 0 /\ calm.state = tomcat.state /\ calm.port = tomcat.port
     /\ calm.max_threads = tomcat.max_threads
     /\ calm.min_spare_threads = tomcat.min_spare_threads
     /\ calm.accept_count = tomcat.accept_count /\ calm.active_threads = tomcat.active_threads
     /\ calm.queued_requests = tomcat.queued_requests
     /\ calm.total_requests = tomcat.total_requests
  BY <1>0 DEF Servers
<1> HIDE DEF calm
<1>4. stopped \in Servers
  BY <1>0, <1>2, <1>3, Assigned
<1>5. /\ stopped.in_flight_requests = 0 /\ stopped.state = "STOPPED"
     /\ stopped.port = tomcat.port /\ stopped.max_threads = tomcat.max_threads
     /\ stopped.min_spare_threads = tomcat.min_spare_threads
     /\ stopped.accept_count = tomcat.accept_count
     /\ stopped.active_threads = tomcat.active_threads
     /\ stopped.queued_requests = tomcat.queued_requests
     /\ stopped.total_requests = tomcat.total_requests
  BY <1>0, <1>2, <1>3 DEF Servers
<1> HIDE DEF stopped
<1>6. tomcat' \in Servers
  BY <1>1, <1>4
<1>7. /\ tomcat'.in_flight_requests = 0 /\ tomcat'.state = "STOPPED"
     /\ tomcat'.port = tomcat.port /\ tomcat'.max_threads = tomcat.max_threads
     /\ tomcat'.min_spare_threads = tomcat.min_spare_threads
     /\ tomcat'.accept_count = tomcat.accept_count
     /\ tomcat'.active_threads = tomcat.active_threads
     /\ tomcat'.queued_requests = tomcat.queued_requests
     /\ tomcat'.total_requests = tomcat.total_requests
  BY <1>1, <1>5, Zenon
<1> QED
  BY <1>0, <1>6, <1>7 DEF tomcat_stop, TomcatInv, TomcatTypeOK, ThreadsAsConfigured,
                          StartedMeansReady, port_is_available

LEMMA FlightKeeps ==
    ASSUME TomcatInv, SimulateInFlight
    PROVE  TomcatInv'
<1>0. tomcat \in Servers /\ submitted \in [all : Nat, refused : Nat] /\ configured \in Seq(ThreadCounts)
      /\ {"INITIALIZED", "STARTED", "STOPPED", "FAILED"} \subseteq TomcatStates
  BY DEF TomcatInv, TomcatTypeOK, TomcatStates
<1> DEFINE after == [tomcat EXCEPT !.in_flight_requests = 2]
<1>1. tomcat' = after
  BY Zenon DEF SimulateInFlight
<1>2. after \in Servers
  BY <1>0, Assigned
<1>3. /\ after.in_flight_requests = 2 /\ after.state = tomcat.state /\ after.port = tomcat.port
     /\ after.max_threads = tomcat.max_threads
     /\ after.min_spare_threads = tomcat.min_spare_threads
     /\ after.accept_count = tomcat.accept_count /\ after.active_threads = tomcat.active_threads
     /\ after.queued_requests = tomcat.queued_requests
     /\ after.total_requests = tomcat.total_requests
  BY <1>0 DEF Servers
<1> HIDE DEF after
<1>4. tomcat' \in Servers
  BY <1>1, <1>2
<1>5. /\ tomcat'.in_flight_requests = 2 /\ tomcat'.state = tomcat.state
     /\ tomcat'.port = tomcat.port /\ tomcat'.max_threads = tomcat.max_threads
     /\ tomcat'.min_spare_threads = tomcat.min_spare_threads
     /\ tomcat'.accept_count = tomcat.accept_count
     /\ tomcat'.active_threads = tomcat.active_threads
     /\ tomcat'.queued_requests = tomcat.queued_requests
     /\ tomcat'.total_requests = tomcat.total_requests
  BY <1>1, <1>3, Zenon
<1> QED
  BY <1>0, <1>4, <1>5 DEF SimulateInFlight, TomcatInv, TomcatTypeOK, ThreadsAsConfigured,
                          StartedMeansReady, port_is_available

LEMMA AcceptKeeps ==
    ASSUME TomcatInv, NEW n \in AcceptCounts, SetAcceptCount(n)
    PROVE  TomcatInv'
<1>0. tomcat \in Servers /\ submitted \in [all : Nat, refused : Nat] /\ configured \in Seq(ThreadCounts)
      /\ {"INITIALIZED", "STARTED", "STOPPED", "FAILED"} \subseteq TomcatStates
  BY DEF TomcatInv, TomcatTypeOK, TomcatStates
<1> DEFINE after == [tomcat EXCEPT !.accept_count = n]
<1>1. tomcat' = after
  BY Zenon DEF SetAcceptCount
<1>2. after \in Servers
  BY <1>0, ServerConstants, Assigned
<1>3. /\ after.accept_count = n /\ after.state = tomcat.state /\ after.port = tomcat.port
     /\ after.max_threads = tomcat.max_threads
     /\ after.min_spare_threads = tomcat.min_spare_threads
     /\ after.active_threads = tomcat.active_threads
     /\ after.queued_requests = tomcat.queued_requests
     /\ after.total_requests = tomcat.total_requests
     /\ after.in_flight_requests = tomcat.in_flight_requests
  BY <1>0 DEF Servers
<1> HIDE DEF after
<1>4. tomcat' \in Servers
  BY <1>1, <1>2
<1>5. /\ tomcat'.accept_count = n /\ tomcat'.state = tomcat.state /\ tomcat'.port = tomcat.port
     /\ tomcat'.max_threads = tomcat.max_threads
     /\ tomcat'.min_spare_threads = tomcat.min_spare_threads
     /\ tomcat'.active_threads = tomcat.active_threads
     /\ tomcat'.queued_requests = tomcat.queued_requests
     /\ tomcat'.total_requests = tomcat.total_requests
     /\ tomcat'.in_flight_requests = tomcat.in_flight_requests
  BY <1>1, <1>3, Zenon
<1> QED
  BY <1>0, <1>4, <1>5, ServerConstants DEF SetAcceptCount, TomcatInv, TomcatTypeOK,
                                           ThreadsAsConfigured, StartedMeansReady, port_is_available

LEMMA ServletKeeps ==
    ASSUME TomcatInv, tomcat_add_servlet
    PROVE  TomcatInv'
<1>0. tomcat \in Servers /\ submitted \in [all : Nat, refused : Nat] /\ configured \in Seq(ThreadCounts)
      /\ {"INITIALIZED", "STARTED", "STOPPED", "FAILED"} \subseteq TomcatStates
  BY DEF TomcatInv, TomcatTypeOK, TomcatStates
<1>a. tomcat.servlets + 1 \in Nat
  BY <1>0 DEF Servers
<1> DEFINE after == [tomcat EXCEPT !.servlets = tomcat.servlets + 1]
<1>1. tomcat' = after
  BY Zenon DEF tomcat_add_servlet
<1>2. after \in Servers
  BY <1>0, <1>a, Assigned
<1>3. /\ after.servlets = tomcat.servlets + 1 /\ after.state = tomcat.state
     /\ after.port = tomcat.port /\ after.max_threads = tomcat.max_threads
     /\ after.min_spare_threads = tomcat.min_spare_threads
     /\ after.accept_count = tomcat.accept_count /\ after.active_threads = tomcat.active_threads
     /\ after.queued_requests = tomcat.queued_requests
     /\ after.total_requests = tomcat.total_requests
     /\ after.in_flight_requests = tomcat.in_flight_requests
  BY <1>0 DEF Servers
<1> HIDE DEF after
<1>4. tomcat' \in Servers
  BY <1>1, <1>2
<1>5. /\ tomcat'.servlets = tomcat.servlets + 1 /\ tomcat'.state = tomcat.state
     /\ tomcat'.port = tomcat.port /\ tomcat'.max_threads = tomcat.max_threads
     /\ tomcat'.min_spare_threads = tomcat.min_spare_threads
     /\ tomcat'.accept_count = tomcat.accept_count
     /\ tomcat'.active_threads = tomcat.active_threads
     /\ tomcat'.queued_requests = tomcat.queued_requests
     /\ tomcat'.total_requests = tomcat.total_requests
     /\ tomcat'.in_flight_requests = tomcat.in_flight_requests
  BY <1>1, <1>3, Zenon
<1> QED
  BY <1>0, <1>4, <1>5 DEF tomcat_add_servlet, TomcatInv, TomcatTypeOK, ThreadsAsConfigured,
                          StartedMeansReady, port_is_available

LEMMA FilterKeeps ==
    ASSUME TomcatInv, tomcat_add_filter
    PROVE  TomcatInv'
<1>0. tomcat \in Servers /\ submitted \in [all : Nat, refused : Nat] /\ configured \in Seq(ThreadCounts)
      /\ {"INITIALIZED", "STARTED", "STOPPED", "FAILED"} \subseteq TomcatStates
  BY DEF TomcatInv, TomcatTypeOK, TomcatStates
<1>a. tomcat.filters + 1 \in Nat
  BY <1>0 DEF Servers
<1> DEFINE after == [tomcat EXCEPT !.filters = tomcat.filters + 1]
<1>1. tomcat' = after
  BY Zenon DEF tomcat_add_filter
<1>2. after \in Servers
  BY <1>0, <1>a, Assigned
<1>3. /\ after.filters = tomcat.filters + 1 /\ after.state = tomcat.state
     /\ after.port = tomcat.port /\ after.max_threads = tomcat.max_threads
     /\ after.min_spare_threads = tomcat.min_spare_threads
     /\ after.accept_count = tomcat.accept_count /\ after.active_threads = tomcat.active_threads
     /\ after.queued_requests = tomcat.queued_requests
     /\ after.total_requests = tomcat.total_requests
     /\ after.in_flight_requests = tomcat.in_flight_requests
  BY <1>0 DEF Servers
<1> HIDE DEF after
<1>4. tomcat' \in Servers
  BY <1>1, <1>2
<1>5. /\ tomcat'.filters = tomcat.filters + 1 /\ tomcat'.state = tomcat.state
     /\ tomcat'.port = tomcat.port /\ tomcat'.max_threads = tomcat.max_threads
     /\ tomcat'.min_spare_threads = tomcat.min_spare_threads
     /\ tomcat'.accept_count = tomcat.accept_count
     /\ tomcat'.active_threads = tomcat.active_threads
     /\ tomcat'.queued_requests = tomcat.queued_requests
     /\ tomcat'.total_requests = tomcat.total_requests
     /\ tomcat'.in_flight_requests = tomcat.in_flight_requests
  BY <1>1, <1>3, Zenon
<1> QED
  BY <1>0, <1>4, <1>5 DEF tomcat_add_filter, TomcatInv, TomcatTypeOK, ThreadsAsConfigured,
                          StartedMeansReady, port_is_available

LEMMA ConfigureKeeps ==
    ASSUME TomcatInv, NEW port \in Ports, NEW threads \in ThreadCounts, tomcat_configure(port, threads)
    PROVE  TomcatInv'
<1>0. tomcat \in Servers /\ submitted \in [all : Nat, refused : Nat] /\ configured \in Seq(ThreadCounts)
      /\ {"INITIALIZED", "STARTED", "STOPPED", "FAILED"} \subseteq TomcatStates
  BY DEF TomcatInv, TomcatTypeOK, TomcatStates
<1>a. threads.max \in Nat /\ threads.spare \in Nat
  BY ServerConstants
<1> DEFINE moved == [tomcat EXCEPT !.port = port]
<1> DEFINE wide == [moved EXCEPT !.max_threads = threads.max]
<1> DEFINE spared == [wide EXCEPT !.min_spare_threads = threads.spare]
<1> DEFINE after == [spared EXCEPT !.state = "INITIALIZED"]
<1>1. tomcat' = after
  BY Zenon DEF tomcat_configure
<1>2. moved \in Servers
  BY <1>0, <1>a, Assigned
<1>3. /\ moved.port = port /\ moved.state = tomcat.state
     /\ moved.max_threads = tomcat.max_threads
     /\ moved.min_spare_threads = tomcat.min_spare_threads
     /\ moved.accept_count = tomcat.accept_count /\ moved.active_threads = tomcat.active_threads
     /\ moved.queued_requests = tomcat.queued_requests
     /\ moved.total_requests = tomcat.total_requests
     /\ moved.in_flight_requests = tomcat.in_flight_requests
  BY <1>0 DEF Servers
<1> HIDE DEF moved
<1>4. wide \in Servers
  BY <1>0, <1>2, <1>3, <1>a, Assigned
<1>5. /\ wide.port = port /\ wide.max_threads = threads.max /\ wide.state = tomcat.state
     /\ wide.min_spare_threads = tomcat.min_spare_threads
     /\ wide.accept_count = tomcat.accept_count /\ wide.active_threads = tomcat.active_threads
     /\ wide.queued_requests = tomcat.queued_requests
     /\ wide.total_requests = tomcat.total_requests
     /\ wide.in_flight_requests = tomcat.in_flight_requests
  BY <1>0, <1>2, <1>3 DEF Servers
<1> HIDE DEF wide
<1>6. spared \in Servers
  BY <1>0, <1>4, <1>5, <1>a, Assigned
<1>7. /\ spared.port = port /\ spared.max_threads = threads.max
     /\ spared.min_spare_threads = threads.spare /\ spared.state = tomcat.state
     /\ spared.accept_count = tomcat.accept_count
     /\ spared.active_threads = tomcat.active_threads
     /\ spared.queued_requests = tomcat.queued_requests
     /\ spared.total_requests = tomcat.total_requests
     /\ spared.in_flight_requests = tomcat.in_flight_requests
  BY <1>0, <1>4, <1>5 DEF Servers
<1> HIDE DEF spared
<1>8. after \in Servers
  BY <1>0, <1>6, <1>7, <1>a, Assigned
<1>9. /\ after.port = port /\ after.max_threads = threads.max
     /\ after.min_spare_threads = threads.spare /\ after.state = "INITIALIZED"
     /\ after.accept_count = tomcat.accept_count /\ after.active_threads = tomcat.active_threads
     /\ after.queued_requests = tomcat.queued_requests
     /\ after.total_requests = tomcat.total_requests
     /\ after.in_flight_requests = tomcat.in_flight_requests
  BY <1>0, <1>6, <1>7 DEF Servers
<1> HIDE DEF after
<1>10. tomcat' \in Servers
  BY <1>1, <1>8
<1>11. /\ tomcat'.port = port /\ tomcat'.max_threads = threads.max
     /\ tomcat'.min_spare_threads = threads.spare /\ tomcat'.state = "INITIALIZED"
     /\ tomcat'.accept_count = tomcat.accept_count
     /\ tomcat'.active_threads = tomcat.active_threads
     /\ tomcat'.queued_requests = tomcat.queued_requests
     /\ tomcat'.total_requests = tomcat.total_requests
     /\ tomcat'.in_flight_requests = tomcat.in_flight_requests
  BY <1>1, <1>9, Zenon
<1>20. configured' = Append(configured, threads) /\ submitted' = submitted
  BY DEF tomcat_configure
<1>21. /\ configured' \in Seq(ThreadCounts) /\ Len(configured') = Len(configured) + 1
       /\ configured'[Len(configured')] = threads /\ configured' # << >>
       /\ \A i \in 1 .. Len(configured) : configured'[i] = configured[i]
  BY <1>0, <1>20, AppendProperties
<1>22. ToSet(configured) \subseteq ToSet(configured')
  BY <1>0, <1>21, LenProperties DEF ToSet
<1>23. ThreadsAsConfigured'
  BY <1>11, <1>21 DEF ThreadsAsConfigured
<1>24. StartedMeansReady'
  BY <1>11, <1>20, <1>22 DEF StartedMeansReady, TomcatInv
<1> QED
  BY <1>0, <1>10, <1>20, <1>21, <1>23, <1>24 DEF TomcatInv, TomcatTypeOK

LEMMA StartKeeps ==
    ASSUME TomcatInv, tomcat_start
    PROVE  TomcatInv'
<1>0. tomcat \in Servers /\ submitted \in [all : Nat, refused : Nat] /\ configured \in Seq(ThreadCounts)
      /\ {"INITIALIZED", "STARTED", "STOPPED", "FAILED"} \subseteq TomcatStates
  BY DEF TomcatInv, TomcatTypeOK, TomcatStates
<1>a. tomcat.min_spare_threads \in Nat
  BY <1>0 DEF Servers
<1>1. CASE port_is_available(tomcat.port)
  <2> DEFINE spared == [tomcat EXCEPT !.active_threads = tomcat.min_spare_threads]
  <2> DEFINE after == [spared EXCEPT !.state = "STARTED"]
  <2>1. tomcat' = after
    BY <1>1, Zenon DEF tomcat_start
  <2>2. spared \in Servers
    BY <1>0, <1>a, Assigned
  <2>3. /\ spared.active_threads = tomcat.min_spare_threads /\ spared.state = tomcat.state
       /\ spared.port = tomcat.port /\ spared.max_threads = tomcat.max_threads
       /\ spared.min_spare_threads = tomcat.min_spare_threads
       /\ spared.accept_count = tomcat.accept_count
       /\ spared.queued_requests = tomcat.queued_requests
       /\ spared.total_requests = tomcat.total_requests
       /\ spared.in_flight_requests = tomcat.in_flight_requests
    BY <1>0 DEF Servers
  <2> HIDE DEF spared
  <2>4. after \in Servers
    BY <1>0, <2>2, <2>3, Assigned
  <2>5. /\ after.active_threads = tomcat.min_spare_threads /\ after.state = "STARTED"
       /\ after.port = tomcat.port /\ after.max_threads = tomcat.max_threads
       /\ after.min_spare_threads = tomcat.min_spare_threads
       /\ after.accept_count = tomcat.accept_count
       /\ after.queued_requests = tomcat.queued_requests
       /\ after.total_requests = tomcat.total_requests
       /\ after.in_flight_requests = tomcat.in_flight_requests
    BY <1>0, <2>2, <2>3 DEF Servers
  <2> HIDE DEF after
  <2>6. tomcat' \in Servers
    BY <2>1, <2>4
  <2>7. /\ tomcat'.active_threads = tomcat.min_spare_threads /\ tomcat'.state = "STARTED"
       /\ tomcat'.port = tomcat.port /\ tomcat'.max_threads = tomcat.max_threads
       /\ tomcat'.min_spare_threads = tomcat.min_spare_threads
       /\ tomcat'.accept_count = tomcat.accept_count
       /\ tomcat'.queued_requests = tomcat.queued_requests
       /\ tomcat'.total_requests = tomcat.total_requests
       /\ tomcat'.in_flight_requests = tomcat.in_flight_requests
    BY <2>1, <2>5, Zenon
  <2> QED
    BY <1>0, <1>1, <2>6, <2>7 DEF tomcat_start, TomcatInv, TomcatTypeOK, ThreadsAsConfigured,
                                  StartedMeansReady, port_is_available
<1>2. CASE ~ port_is_available(tomcat.port)
  <2> DEFINE after == [tomcat EXCEPT !.state = "FAILED"]
  <2>1. tomcat' = after
    BY <1>2, Zenon DEF tomcat_start
  <2>2. after \in Servers
    BY <1>0, Assigned
  <2>3. /\ after.state = "FAILED" /\ after.port = tomcat.port
       /\ after.max_threads = tomcat.max_threads
       /\ after.min_spare_threads = tomcat.min_spare_threads
       /\ after.accept_count = tomcat.accept_count /\ after.active_threads = tomcat.active_threads
       /\ after.queued_requests = tomcat.queued_requests
       /\ after.total_requests = tomcat.total_requests
       /\ after.in_flight_requests = tomcat.in_flight_requests
    BY <1>0 DEF Servers
  <2> HIDE DEF after
  <2>4. tomcat' \in Servers
    BY <2>1, <2>2
  <2>5. /\ tomcat'.state = "FAILED" /\ tomcat'.port = tomcat.port
       /\ tomcat'.max_threads = tomcat.max_threads
       /\ tomcat'.min_spare_threads = tomcat.min_spare_threads
       /\ tomcat'.accept_count = tomcat.accept_count
       /\ tomcat'.active_threads = tomcat.active_threads
       /\ tomcat'.queued_requests = tomcat.queued_requests
       /\ tomcat'.total_requests = tomcat.total_requests
       /\ tomcat'.in_flight_requests = tomcat.in_flight_requests
    BY <2>1, <2>3, Zenon
  <2> QED
    BY <1>0, <1>2, <2>4, <2>5 DEF tomcat_start, TomcatInv, TomcatTypeOK, ThreadsAsConfigured,
                                  StartedMeansReady, port_is_available
<1> QED
  BY <1>1, <1>2

LEMMA HandledIs ==
    ASSUME NEW s \in Servers
    PROVE  /\ Handled(s) \in Servers
           /\ Handled(s).total_requests = s.total_requests + (IF s.state = "STARTED" THEN 1 ELSE 0)
           /\ Handled(s).state = s.state /\ Handled(s).port = s.port
           /\ Handled(s).max_threads = s.max_threads
           /\ Handled(s).min_spare_threads = s.min_spare_threads
           /\ Handled(s).accept_count = s.accept_count /\ Handled(s).active_threads = s.active_threads
           /\ Handled(s).queued_requests = s.queued_requests
           /\ Handled(s).in_flight_requests = s.in_flight_requests
<1>0. s.total_requests + 1 \in Nat /\ s.total_requests + 0 = s.total_requests
  BY DEF Servers
<1>1. CASE s.state = "STARTED"
  <2> DEFINE more == [s EXCEPT !.total_requests = s.total_requests + 1]
  <2>1. Handled(s) = more
    BY <1>1 DEF Handled
  <2>2. more \in Servers
    BY <1>0, Assigned
  <2>3. /\ more.total_requests = s.total_requests + 1 /\ more.state = s.state /\ more.port = s.port
        /\ more.max_threads = s.max_threads /\ more.min_spare_threads = s.min_spare_threads
        /\ more.accept_count = s.accept_count /\ more.active_threads = s.active_threads
        /\ more.queued_requests = s.queued_requests
        /\ more.in_flight_requests = s.in_flight_requests
    BY DEF Servers
  <2> HIDE DEF more
  <2> QED
    BY <1>1, <2>1, <2>2, <2>3
<1>2. CASE s.state # "STARTED"
  BY <1>0, <1>2 DEF Handled
<1> QED
  BY <1>1, <1>2

LEMMA RequestKeeps ==
    ASSUME TomcatInv, tomcat_handle_request
    PROVE  TomcatInv'
<1>0. tomcat \in Servers /\ submitted \in [all : Nat, refused : Nat] /\ configured \in Seq(ThreadCounts)
      /\ {"INITIALIZED", "STARTED", "STOPPED", "FAILED"} \subseteq TomcatStates
  BY DEF TomcatInv, TomcatTypeOK, TomcatStates
<1>1. tomcat' = Handled(tomcat)
  BY DEF tomcat_handle_request
<1> DEFINE after == Handled(tomcat)
<1>2. /\ after \in Servers
      /\ after.total_requests = tomcat.total_requests + (IF tomcat.state = "STARTED" THEN 1 ELSE 0)
      /\ after.state = tomcat.state /\ after.port = tomcat.port
      /\ after.max_threads = tomcat.max_threads
      /\ after.min_spare_threads = tomcat.min_spare_threads
      /\ after.accept_count = tomcat.accept_count /\ after.active_threads = tomcat.active_threads
      /\ after.queued_requests = tomcat.queued_requests
      /\ after.in_flight_requests = tomcat.in_flight_requests
  BY <1>0, HandledIs
<1> HIDE DEF after
<1>3. tomcat' = after
  BY <1>1 DEF after
<1>4. /\ submitted' \in [all : Nat, refused : Nat] /\ submitted'.all = submitted.all + 1
      /\ submitted'.refused = submitted.refused + (IF tomcat.state = "STARTED" THEN 0 ELSE 1)
      /\ configured' = configured
  BY <1>0 DEF tomcat_handle_request
<1>5. tomcat.total_requests \in Nat /\ tomcat.queued_requests \in Nat /\ submitted.refused \in Nat /\ submitted.all \in Nat
  BY <1>0 DEF Servers
<1>6. StartedMeansReady'
  BY <1>2, <1>3, <1>4, <1>5 DEF TomcatInv, StartedMeansReady, port_is_available
<1>7. ThreadsAsConfigured'
  BY <1>2, <1>3, <1>4 DEF TomcatInv, ThreadsAsConfigured
<1> QED
  BY <1>0, <1>2, <1>3, <1>4, <1>6, <1>7 DEF TomcatInv, TomcatTypeOK

LEMMA LoadKeeps ==
    ASSUME TomcatInv, SubmitUnderLoad
    PROVE  TomcatInv'
<1>0. tomcat \in Servers /\ submitted \in [all : Nat, refused : Nat] /\ configured \in Seq(ThreadCounts)
      /\ {"INITIALIZED", "STARTED", "STOPPED", "FAILED"} \subseteq TomcatStates
  BY DEF TomcatInv, TomcatTypeOK, TomcatStates
<1>1. /\ tomcat.total_requests \in Nat /\ tomcat.queued_requests \in Nat /\ tomcat.accept_count \in Nat
      /\ tomcat.active_threads \in Nat /\ tomcat.max_threads \in Nat /\ tomcat.min_spare_threads \in Nat
      /\ submitted.refused \in Nat /\ submitted.all \in Nat
  BY <1>0 DEF Servers
<1> DEFINE handled == tomcat.active_threads < tomcat.max_threads
           queued == ~ handled /\ tomcat.queued_requests < tomcat.accept_count
<1>2. /\ submitted' \in [all : Nat, refused : Nat] /\ submitted'.all = submitted.all + 1
      /\ submitted'.refused = submitted.refused + (IF handled \/ queued THEN 0 ELSE 1)
      /\ configured' = configured /\ tomcat.state = "STARTED"
  BY <1>0, <1>1 DEF SubmitUnderLoad
<1>3. CASE handled
  <2> DEFINE after == Handled(tomcat)
  <2>1. /\ after \in Servers
        /\ after.total_requests = tomcat.total_requests + 1 /\ after.state = tomcat.state
        /\ after.port = tomcat.port /\ after.max_threads = tomcat.max_threads
        /\ after.min_spare_threads = tomcat.min_spare_threads
        /\ after.accept_count = tomcat.accept_count /\ after.active_threads = tomcat.active_threads
        /\ after.queued_requests = tomcat.queued_requests
        /\ after.in_flight_requests = tomcat.in_flight_requests
    BY <1>0, <1>2, HandledIs
  <2>2. tomcat' = after
    BY <1>3 DEF SubmitUnderLoad
  <2> HIDE DEF after
  <2>3. StartedMeansReady'
    BY <1>1, <1>2, <1>3, <2>1, <2>2 DEF TomcatInv, StartedMeansReady, port_is_available
  <2>4. ThreadsAsConfigured'
    BY <1>2, <2>1, <2>2 DEF TomcatInv, ThreadsAsConfigured
  <2> QED
    BY <1>0, <1>2, <2>1, <2>2, <2>3, <2>4 DEF TomcatInv, TomcatTypeOK
<1>4. CASE ~ handled
  <2> DEFINE n == tomcat.queued_requests + (IF queued THEN 1 ELSE 0)
             after == [tomcat EXCEPT !.queued_requests = n]
  <2>1. tomcat' = after
    BY <1>4 DEF SubmitUnderLoad
  <2>2. n \in Nat /\ (queued => n = tomcat.queued_requests + 1) /\ (~ queued => n = tomcat.queued_requests)
    BY <1>1
  <2>3. after \in Servers
    <3> HIDE DEF n
    <3> QED
      BY <1>0, <2>2, Assigned
  <2>4. /\ after.queued_requests = n /\ after.state = tomcat.state /\ after.port = tomcat.port
        /\ after.max_threads = tomcat.max_threads
        /\ after.min_spare_threads = tomcat.min_spare_threads
        /\ after.accept_count = tomcat.accept_count /\ after.active_threads = tomcat.active_threads
        /\ after.total_requests = tomcat.total_requests
        /\ after.in_flight_requests = tomcat.in_flight_requests
    <3> HIDE DEF n
    <3> QED
      BY <1>0 DEF Servers
  <2>5. tomcat.min_spare_threads >= tomcat.max_threads
    BY <1>1, <1>2, <1>4 DEF TomcatInv, StartedMeansReady
  <2>6. configured # << >>
    BY <2>5 DEF TomcatInv, ThreadsAsConfigured
  <2>7. Len(configured) \in DOMAIN configured
    BY <1>0, <2>6, EmptySeq, LenProperties
  <2>8. \E threads \in ToSet(configured) : threads.spare >= threads.max
    BY <2>5, <2>6, <2>7 DEF TomcatInv, ThreadsAsConfigured, ToSet
  <2> HIDE DEF after, n
  <2>9. StartedMeansReady'
    BY <1>1, <1>2, <1>4, <2>1, <2>2, <2>4, <2>8 DEF TomcatInv, StartedMeansReady, port_is_available
  <2>10. ThreadsAsConfigured'
    BY <1>2, <2>1, <2>4 DEF TomcatInv, ThreadsAsConfigured
  <2> QED
    BY <1>0, <1>2, <2>1, <2>3, <2>9, <2>10 DEF TomcatInv, TomcatTypeOK
<1> QED
  BY <1>3, <1>4

\* However it is configured, started, loaded and stopped, a server that says it is
\* started has its port and its threads, its queue keeps to its limit, and every
\* request that was submitted was handled, is queued, or was refused.
\* embedded_tomcat.c:202-402, 547-603.
THEOREM ServerStandsReady == TomcatSpec => [](TomcatTypeOK /\ StartedMeansReady)
<1>1. TomcatInv /\ [TomcatNext]_tomcatVars => TomcatInv'
  <2> SUFFICES ASSUME TomcatInv, [TomcatNext]_tomcatVars PROVE TomcatInv'
    OBVIOUS
  <2>1. ASSUME NEW port \in Ports, NEW threads \in ThreadCounts, tomcat_configure(port, threads)
        PROVE  TomcatInv'
    BY <2>1, ConfigureKeeps
  <2>2. ASSUME NEW n \in AcceptCounts, SetAcceptCount(n) PROVE TomcatInv'
    BY <2>2, AcceptKeeps
  <2>3. CASE tomcat_add_servlet \/ tomcat_add_filter
    BY <2>3, ServletKeeps, FilterKeeps
  <2>4. CASE tomcat_start \/ tomcat_stop
    BY <2>4, StartKeeps, StopKeeps
  <2>5. CASE tomcat_handle_request \/ SubmitUnderLoad \/ SimulateInFlight
    BY <2>5, RequestKeeps, LoadKeeps, FlightKeeps
  <2>6. CASE UNCHANGED tomcatVars
    BY <2>6 DEF tomcatVars, TomcatInv, TomcatTypeOK, ThreadsAsConfigured, StartedMeansReady,
                port_is_available
  <2> QED
    BY <2>1, <2>2, <2>3, <2>4, <2>5, <2>6 DEF TomcatNext
<1>2. TomcatInv => TomcatTypeOK /\ StartedMeansReady
  BY DEF TomcatInv
<1> QED
  BY <1>1, <1>2, TomcatInitInv, PTL DEF TomcatSpec

-----------------------------------------------------------------------------
(* Traces (SpringRuntime, phase 10)                                          *)

TagNames ==
    {"tag", "error", "order.id", "db.system", "db.statement", "db.operation",
     "peer.service", "http.method", "http.url"}

Spans == [trace_id : Nat, parent_span_id : Nat, sampled : BOOLEAN, tags : Seq(TagNames),
          event_count : Nat, is_error : BOOLEAN, ended : BOOLEAN]

\* A span that has its tags, and shows its error among them if there was room.
Tagged(s) ==
    /\ s \in Spans /\ Len(s.tags) <= MAX_SPAN_TAGS
    /\ s.is_error => "error" \in ToSet(s.tags) \/ Len(s.tags) = MAX_SPAN_TAGS

\* Where a span is in its trace.
SamePlace(s, t) ==
    t.trace_id = s.trace_id /\ t.parent_span_id = s.parent_span_id /\ t.sampled = s.sampled

\* A span's trace is named by its root, which comes before it.
Hangs(reg, i) ==
    /\ reg[i].parent_span_id < i /\ reg[i].trace_id <= i
    /\ reg[i].parent_span_id = NoParent <=> reg[i].trace_id = i
    /\ reg[i].parent_span_id # NoParent =>
          /\ reg[reg[i].parent_span_id].trace_id = reg[i].trace_id
          /\ reg[reg[i].parent_span_id].sampled = reg[i].sampled

Forest(reg) ==
    /\ reg \in Seq(Spans)
    /\ \A i \in 1 .. Len(reg) : Tagged(reg[i]) /\ Hangs(reg, i)

\* A tag is added unless the span is full of them; nothing else changes.
LEMMA TagIs ==
    ASSUME NEW s \in Spans, Len(s.tags) <= MAX_SPAN_TAGS, NEW tag \in TagNames
    PROVE  /\ span_tag(s, tag) \in Spans /\ Len(span_tag(s, tag).tags) <= MAX_SPAN_TAGS
           /\ ToSet(s.tags) \subseteq ToSet(span_tag(s, tag).tags)
           /\ tag \in ToSet(span_tag(s, tag).tags) \/ Len(span_tag(s, tag).tags) = MAX_SPAN_TAGS
           /\ Len(s.tags) = MAX_SPAN_TAGS => Len(span_tag(s, tag).tags) = MAX_SPAN_TAGS
           /\ span_tag(s, tag).is_error = s.is_error /\ SamePlace(s, span_tag(s, tag))
<1>1. s.tags \in Seq(TagNames) /\ Len(s.tags) \in Nat
  BY LenProperties DEF Spans
<1> DEFINE tags == IF Len(s.tags) < MAX_SPAN_TAGS THEN Append(s.tags, tag) ELSE s.tags
           t == [s EXCEPT !.tags = tags]
<1>2. span_tag(s, tag) = t
  BY DEF span_tag
<1>3. /\ tags \in Seq(TagNames) /\ Len(tags) <= MAX_SPAN_TAGS /\ Len(s.tags) <= Len(tags)
      /\ \A i \in 1 .. Len(s.tags) : tags[i] = s.tags[i]
      /\ (Len(tags) = Len(s.tags) + 1 /\ tags[Len(s.tags) + 1] = tag) \/ Len(tags) = MAX_SPAN_TAGS
      /\ Len(s.tags) = MAX_SPAN_TAGS => Len(tags) = MAX_SPAN_TAGS
  <2>1. CASE Len(s.tags) < MAX_SPAN_TAGS
    <3>1. tags = Append(s.tags, tag)
      BY <2>1
    <3> HIDE DEF tags
    <3>2. PICK old \in Seq(TagNames) : old = s.tags
      BY <1>1
    <3>3. /\ Append(old, tag) \in Seq(TagNames) /\ Len(Append(old, tag)) = Len(old) + 1
          /\ Append(old, tag)[Len(old) + 1] = tag
          /\ \A i \in 1 .. Len(old) : Append(old, tag)[i] = old[i]
      BY AppendProperties
    <3> QED
      BY <1>1, <2>1, <3>1, <3>2, <3>3, TracingConstants
  <2>2. CASE ~ Len(s.tags) < MAX_SPAN_TAGS
    <3>1. tags = s.tags
      BY <2>2
    <3> HIDE DEF tags
    <3> QED
      BY <1>1, <2>2, <3>1, TracingConstants
  <2> QED
    BY <2>1, <2>2
<1> HIDE DEF tags
<1>4. Len(tags) \in Nat /\ DOMAIN tags = 1 .. Len(tags) /\ DOMAIN s.tags = 1 .. Len(s.tags)
  BY <1>1, <1>3, LenProperties
<1>5. ToSet(s.tags) \subseteq ToSet(tags)
  <2>1. \A i \in DOMAIN s.tags : i \in DOMAIN tags /\ tags[i] = s.tags[i]
    <3>1. PICK m \in Nat, n \in Nat : m = Len(s.tags) /\ n = Len(tags)
      BY <1>1, <1>4
    <3>2. m <= n /\ DOMAIN s.tags = 1 .. m /\ DOMAIN tags = 1 .. n /\ \A i \in 1 .. m : tags[i] = s.tags[i]
      BY <1>3, <1>4, <3>1
    <3>3. \A i \in 1 .. m : i \in 1 .. n
      BY <3>2
    <3> QED
      BY <3>2, <3>3
  <2> QED
    BY <2>1 DEF ToSet
<1>6. tag \in ToSet(tags) \/ Len(tags) = MAX_SPAN_TAGS
  <2>1. Len(tags) = Len(s.tags) + 1 => Len(s.tags) + 1 \in DOMAIN tags
    BY <1>1, <1>4
  <2> QED
    BY <1>3, <2>1 DEF ToSet
<1>7. t \in Spans
  BY <1>1, <1>3 DEF Spans
<1>8. t.tags = tags /\ t.is_error = s.is_error /\ SamePlace(s, t)
  BY <1>1 DEF Spans, SamePlace
<1> HIDE DEF t
<1> QED
  BY <1>2, <1>3, <1>5, <1>6, <1>7, <1>8

LEMMA TagKeeps ==
    ASSUME NEW s, Tagged(s), NEW tag \in TagNames
    PROVE  Tagged(span_tag(s, tag)) /\ SamePlace(s, span_tag(s, tag))
<1>1. s \in Spans /\ Len(s.tags) <= MAX_SPAN_TAGS
  BY DEF Tagged
<1> QED
  BY <1>1, TagIs DEF Tagged

LEMMA EventKeeps ==
    ASSUME NEW s, Tagged(s)
    PROVE  Tagged(span_event(s)) /\ SamePlace(s, span_event(s))
<1>1. s \in Spans /\ s.event_count \in Nat
  BY DEF Tagged, Spans
<1> DEFINE n == IF s.event_count < MAX_SPAN_EVENTS THEN s.event_count + 1 ELSE s.event_count
           t == [s EXCEPT !.event_count = n]
<1>2. span_event(s) = t
  BY DEF span_event
<1>3. n \in Nat
  BY <1>1
<1> HIDE DEF n
<1>4. t \in Spans
  BY <1>1, <1>3 DEF Spans
<1>5. t.tags = s.tags /\ t.is_error = s.is_error /\ SamePlace(s, t)
  BY <1>1 DEF Spans, SamePlace
<1> HIDE DEF t
<1> QED
  BY <1>2, <1>4, <1>5 DEF Tagged

LEMMA EndKeeps ==
    ASSUME NEW s, Tagged(s)
    PROVE  Tagged(span_end(s)) /\ SamePlace(s, span_end(s))
<1>1. s \in Spans
  BY DEF Tagged
<1> DEFINE t == [s EXCEPT !.ended = TRUE]
<1>2. span_end(s) = t
  BY DEF span_end
<1>3. t \in Spans
  BY <1>1 DEF Spans
<1>4. t.tags = s.tags /\ t.is_error = s.is_error /\ SamePlace(s, t)
  BY <1>1 DEF Spans, SamePlace
<1> HIDE DEF t
<1> QED
  BY <1>2, <1>3, <1>4 DEF Tagged

\* The error is set before its tag, and in between no tag need show it.
LEMMA ErrorKeeps ==
    ASSUME NEW s, Tagged(s)
    PROVE  Tagged(span_error(s)) /\ SamePlace(s, span_error(s))
<1>1. s \in Spans
  BY DEF Tagged
<1> DEFINE marked == [s EXCEPT !.is_error = TRUE]
<1>2. span_error(s) = span_tag(marked, "error")
  BY DEF span_error
<1>3. marked \in Spans
  BY <1>1 DEF Spans
<1>4. marked.tags = s.tags /\ SamePlace(s, marked)
  BY <1>1 DEF Spans, SamePlace
<1> HIDE DEF marked
<1>5. Len(marked.tags) <= MAX_SPAN_TAGS
  BY <1>4 DEF Tagged
<1> DEFINE t == span_tag(marked, "error")
<1>9. "error" \in TagNames
  BY DEF TagNames
<1>6. /\ t \in Spans /\ Len(t.tags) <= MAX_SPAN_TAGS /\ SamePlace(marked, t)
      /\ "error" \in ToSet(t.tags) \/ Len(t.tags) = MAX_SPAN_TAGS
  BY <1>3, <1>5, <1>9, TagIs
<1> HIDE DEF t
<1>7. Tagged(t) /\ SamePlace(s, t)
  BY <1>4, <1>6 DEF Tagged, SamePlace
<1> QED
  BY <1>2, <1>7 DEF t

LEMMA ParentBefore ==
    ASSUME NEW reg, Forest(reg), NEW i \in 1 .. Len(reg), reg[i].parent_span_id # NoParent
    PROVE  reg[i].parent_span_id \in 1 .. i - 1 /\ reg[i].parent_span_id \in 1 .. Len(reg)
<1>1. reg \in Seq(Spans) /\ Len(reg) \in Nat /\ Hangs(reg, i)
  BY LenProperties DEF Forest
<1>2. reg[i] \in Spans
  BY <1>1, ElementOfSeq
<1>3. PICK p : p = reg[i].parent_span_id
  OBVIOUS
<1>4. p \in Nat
  BY <1>2, <1>3 DEF Spans
<1>5. p < i /\ p # 0
  BY <1>1, <1>3 DEF Hangs, NoParent
<1> QED
  BY <1>1, <1>3, <1>4, <1>5

\* A child of a span of the registry.
LEMMA ChildKeeps ==
    ASSUME NEW reg, Forest(reg), NEW p \in 1 .. Len(reg)
    PROVE  Forest(span_start_child(reg, p)) /\ Len(span_start_child(reg, p)) = Len(reg) + 1
<1> DEFINE child == NewSpan(reg[p].trace_id, p, reg[p].sampled)
           more == span_start_child(reg, p)
<1>1. reg \in Seq(Spans) /\ Len(reg) \in Nat /\ reg[p] \in Spans /\ p \in Nat /\ Hangs(reg, p)
  BY LenProperties, ElementOfSeq DEF Forest
<1>2. child \in Spans /\ Tagged(child)
  <2>1. << >> \in Seq(TagNames) /\ Len(<< >>) = 0
    OBVIOUS
  <2>2. child \in Spans
    BY <1>1, <2>1 DEF NewSpan, Spans, NoParent
  <2>3. child.tags = << >> /\ child.is_error = FALSE
    BY DEF NewSpan
  <2> HIDE DEF child
  <2> QED
    BY <2>1, <2>2, <2>3, TracingConstants DEF Tagged
<1>3. child.trace_id = reg[p].trace_id /\ child.parent_span_id = p /\ child.sampled = reg[p].sampled
  BY DEF NewSpan
<1>4. more = Append(reg, child)
  BY DEF span_start_child
<1> HIDE DEF child, more
<1>5. /\ more \in Seq(Spans) /\ Len(more) = Len(reg) + 1 /\ more[Len(reg) + 1] = child
      /\ \A i \in 1 .. Len(reg) : more[i] = reg[i]
  BY <1>1, <1>2, <1>4, AppendProperties
<1>6. ASSUME NEW i \in 1 .. Len(more) PROVE Tagged(more[i]) /\ Hangs(more, i)
  <2>1. CASE i <= Len(reg)
    <3>1. i \in 1 .. Len(reg) /\ Tagged(reg[i]) /\ Hangs(reg, i) /\ more[i] = reg[i] /\ reg[i] \in Spans
      BY <1>1, <1>5, <2>1, ElementOfSeq DEF Forest
    <3>2. reg[i].parent_span_id # NoParent => reg[i].parent_span_id \in 1 .. Len(reg)
      BY <1>1, <3>1, ParentBefore DEF Forest
    <3> QED
      BY <1>5, <3>1, <3>2 DEF Hangs
  <2>2. CASE i = Len(reg) + 1
    <3>1. more[i] = child /\ more[p] = reg[p]
      BY <1>5, <2>2
    <3>2. reg[p].trace_id <= p /\ reg[p].trace_id \in Nat
      BY <1>1 DEF Hangs, Spans
    <3> QED
      BY <1>1, <1>2, <1>3, <2>2, <3>1, <3>2 DEF Hangs, NoParent
  <2> QED
    BY <1>1, <1>5, <2>1, <2>2
<1>7. Forest(more)
  BY <1>5, <1>6 DEF Forest
<1> QED
  BY <1>5, <1>7 DEF more

\* A span that is changed in its place.
LEMMA ChangeKeeps ==
    ASSUME NEW reg, Forest(reg), NEW k \in 1 .. Len(reg), NEW s, Tagged(s), SamePlace(reg[k], s)
    PROVE  Forest([reg EXCEPT ![k] = s]) /\ Len([reg EXCEPT ![k] = s]) = Len(reg)
<1> DEFINE less == [reg EXCEPT ![k] = s]
<1>1. reg \in Seq(Spans) /\ Len(reg) \in Nat /\ s \in Spans /\ reg \in [1 .. Len(reg) -> Spans]
  BY LenProperties DEF Forest, Tagged
<1>2. /\ less \in Seq(Spans) /\ Len(less) = Len(reg)
      /\ \A i \in 1 .. Len(reg) : less[i] = IF i = k THEN s ELSE reg[i]
  BY <1>1, ExceptSeq
<1> HIDE DEF less
<1>3. \A i \in 1 .. Len(reg) : SamePlace(reg[i], less[i]) /\ Tagged(less[i])
  BY <1>2 DEF SamePlace, Forest
<1>4. ASSUME NEW i \in 1 .. Len(reg) PROVE Hangs(less, i)
  <2>1. Hangs(reg, i) /\ reg[i] \in Spans /\ SamePlace(reg[i], less[i])
    BY <1>1, <1>3, ElementOfSeq DEF Forest
  <2>2. reg[i].parent_span_id # NoParent => reg[i].parent_span_id \in 1 .. Len(reg)
    BY ParentBefore
  <2>3. reg[i].parent_span_id # NoParent =>
           SamePlace(reg[reg[i].parent_span_id], less[reg[i].parent_span_id])
    BY <1>3, <2>2
  <2> QED
    BY <2>1, <2>3 DEF Hangs, SamePlace
<1> QED
  BY <1>2, <1>3, <1>4 DEF Forest, less

\* What db_query and the calls do to a span before it ends.
LEMMA TwoTagsKeep ==
    ASSUME NEW s, Tagged(s), NEW a \in TagNames, NEW b \in TagNames
    PROVE  Tagged(span_tag(span_tag(s, a), b)) /\ SamePlace(s, span_tag(span_tag(s, a), b))
<1> DEFINE t == span_tag(s, a)
<1>1. Tagged(t) /\ SamePlace(s, t)
  BY TagKeeps
<1> HIDE DEF t
<1>2. Tagged(span_tag(t, b)) /\ SamePlace(t, span_tag(t, b))
  BY <1>1, TagKeeps
<1> QED
  BY <1>1, <1>2 DEF t, SamePlace

LEMMA EndsKeep ==
    ASSUME NEW s, NEW t, Tagged(t), SamePlace(s, t)
    PROVE  /\ Tagged(span_end(t)) /\ SamePlace(s, span_end(t))
           /\ Tagged(span_end(span_event(t))) /\ SamePlace(s, span_end(span_event(t)))
<1> DEFINE u == span_event(t)
<1>1. Tagged(u) /\ SamePlace(t, u)
  BY EventKeeps
<1> HIDE DEF u
<1>2. Tagged(span_end(u)) /\ SamePlace(u, span_end(u)) /\ Tagged(span_end(t)) /\ SamePlace(t, span_end(t))
  BY <1>1, EndKeeps
<1> QED
  BY <1>1, <1>2 DEF u, SamePlace

LEMMA QueryKeeps ==
    ASSUME NEW reg, Forest(reg), NEW p \in 1 .. Len(reg)
    PROVE  Forest(db_query(reg, p)) /\ Len(db_query(reg, p)) = Len(reg) + 1
<1> DEFINE new == Len(reg) + 1
           more == span_start_child(reg, p)
           tagged == span_tag(span_tag(more[new], "db.system"), "db.statement")
           s == span_end(tagged)
<1>1. Forest(more) /\ Len(more) = new
  BY ChildKeeps
<1>2. db_query(reg, p) = [more EXCEPT ![new] = s]
  BY DEF db_query
<1>3. new \in 1 .. Len(more)
  <2>1. Len(reg) \in Nat
    BY LenProperties DEF Forest
  <2> QED
    BY <1>1, <2>1
<1> HIDE DEF more, new
<1>4. Tagged(more[new])
  BY <1>1, <1>3 DEF Forest
<1>5. Tagged(tagged) /\ SamePlace(more[new], tagged)
  BY <1>4, TwoTagsKeep DEF TagNames
<1> HIDE DEF tagged
<1>6. Tagged(s) /\ SamePlace(more[new], s)
  BY <1>5, EndsKeep
<1> HIDE DEF s
<1>7. Forest([more EXCEPT ![new] = s]) /\ Len([more EXCEPT ![new] = s]) = Len(more)
  BY <1>1, <1>3, <1>6, ChangeKeeps
<1> QED
  BY <1>1, <1>2, <1>7 DEF new

LEMMA CallKeeps ==
    ASSUME NEW reg, Forest(reg), NEW p \in 1 .. Len(reg)
    PROVE  /\ Forest(inventory_service_call(reg, p))
           /\ Len(inventory_service_call(reg, p)) = Len(reg) + 2
<1> DEFINE new == Len(reg) + 1
           called == span_start_child(reg, p)
           three == span_tag(span_tag(span_tag(called[new], "peer.service"), "http.method"), "http.url")
           tagged == [called EXCEPT ![new] = three]
           under == span_start_child(tagged, new)
           cached == span_end(span_tag(span_tag(under[new + 1], "db.system"), "db.operation"))
           looked == [under EXCEPT ![new + 1] = cached]
           done == span_end(span_event(looked[new]))
<1>0. inventory_service_call(reg, p) = [looked EXCEPT ![new] = done]
  BY DEF inventory_service_call
<1>1. Forest(called) /\ Len(called) = new
  BY ChildKeeps
<1>2. new \in Nat /\ new \in 1 .. new /\ new + 1 \in 1 .. new + 1 /\ new \in 1 .. new + 1 /\ new + 1 = Len(reg) + 2
  <2>1. Len(reg) \in Nat
    BY LenProperties DEF Forest
  <2> QED
    BY <2>1
<1> HIDE DEF called, new
<1>3. Tagged(called[new])
  BY <1>1, <1>2 DEF Forest
<1>4. Tagged(three) /\ SamePlace(called[new], three)
  <2> DEFINE two == span_tag(span_tag(called[new], "peer.service"), "http.method")
  <2>1. Tagged(two) /\ SamePlace(called[new], two)
    BY <1>3, TwoTagsKeep DEF TagNames
  <2> HIDE DEF two
  <2>2. Tagged(span_tag(two, "http.url")) /\ SamePlace(two, span_tag(two, "http.url"))
    BY <2>1, TagKeeps DEF TagNames
  <2> QED
    BY <2>1, <2>2 DEF two, SamePlace
<1> HIDE DEF three
<1>5. Forest(tagged) /\ Len(tagged) = new
  BY <1>1, <1>2, <1>4, ChangeKeeps
<1> HIDE DEF tagged
<1>6. Forest(under) /\ Len(under) = new + 1
  BY <1>2, <1>5, ChildKeeps
<1> HIDE DEF under
<1>7. Tagged(under[new + 1])
  BY <1>2, <1>6 DEF Forest
<1>8. Tagged(cached) /\ SamePlace(under[new + 1], cached)
  BY <1>7, TwoTagsKeep, EndsKeep DEF TagNames
<1> HIDE DEF cached
<1>9. Forest(looked) /\ Len(looked) = new + 1
  BY <1>2, <1>6, <1>8, ChangeKeeps
<1> HIDE DEF looked
<1>10. Tagged(looked[new])
  BY <1>2, <1>9 DEF Forest
<1>11. Tagged(done) /\ SamePlace(looked[new], done)
  BY <1>10, EndsKeep DEF SamePlace
<1> HIDE DEF done
<1>12. Forest([looked EXCEPT ![new] = done]) /\ Len([looked EXCEPT ![new] = done]) = new + 1
  BY <1>2, <1>9, <1>11, ChangeKeeps
<1> QED
  BY <1>0, <1>2, <1>12

LEMMA OrderKeeps ==
    ASSUME Forest(spans), NEW p \in 1 .. Len(spans), order_service_create(p)
    PROVE  Forest(spans')
<1> DEFINE new == Len(spans) + 1
           child == span_start_child(spans, p)
           named == span_tag(child[new], "order.id")
           started == [child EXCEPT ![new] = named]
           first == db_query(started, new)
           second == inventory_service_call(first, new)
           called == db_query(second, new)
           done == span_end(span_event(called[new]))
<1>0. spans' = [called EXCEPT ![new] = done]
  BY DEF order_service_create
<1>1. Forest(child) /\ Len(child) = new
  BY ChildKeeps
<1>2. new \in Nat /\ new >= 1
  <2>1. Len(spans) \in Nat
    BY LenProperties DEF Forest
  <2> QED
    BY <2>1
<1> HIDE DEF child, new
<1>3. new \in 1 .. new /\ new \in 1 .. new + 1 /\ new \in 1 .. new + 1 + 2 /\ new \in 1 .. new + 1 + 2 + 1
  BY <1>2
<1>4. Tagged(child[new])
  BY <1>1, <1>3 DEF Forest
<1>5. Tagged(named) /\ SamePlace(child[new], named)
  BY <1>4, TagKeeps DEF TagNames
<1> HIDE DEF named
<1>6. Forest(started) /\ Len(started) = new
  BY <1>1, <1>3, <1>5, ChangeKeeps
<1> HIDE DEF started
<1>7. Forest(first) /\ Len(first) = new + 1
  BY <1>3, <1>6, QueryKeeps
<1> HIDE DEF first
<1>8. Forest(second) /\ Len(second) = new + 1 + 2
  BY <1>3, <1>7, CallKeeps
<1> HIDE DEF second
<1>9. Forest(called) /\ Len(called) = new + 1 + 2 + 1
  BY <1>3, <1>8, QueryKeeps
<1> HIDE DEF called
<1>10. Tagged(called[new])
  BY <1>3, <1>9 DEF Forest
<1>11. Tagged(done) /\ SamePlace(called[new], done)
  BY <1>10, EndsKeep DEF SamePlace
<1> HIDE DEF done
<1>12. Forest([called EXCEPT ![new] = done])
  BY <1>3, <1>9, <1>11, ChangeKeeps
<1> QED
  BY <1>0, <1>12

LEMMA RootKeeps ==
    ASSUME Forest(spans), span_start_root
    PROVE  Forest(spans')
<1> DEFINE n == Len(spans) + 1
           root == NewSpan(n, NoParent, TRUE)
<1>1. spans' = Append(spans, root)
  BY DEF span_start_root
<1>2. spans \in Seq(Spans) /\ Len(spans) \in Nat
  BY LenProperties DEF Forest
<1>3. root \in Spans /\ Tagged(root)
  <2>1. << >> \in Seq(TagNames) /\ Len(<< >>) = 0
    OBVIOUS
  <2>2. root \in Spans
    BY <1>2, <2>1 DEF NewSpan, Spans, NoParent
  <2>3. root.tags = << >> /\ root.is_error = FALSE
    BY DEF NewSpan
  <2> HIDE DEF root
  <2> QED
    BY <2>1, <2>2, <2>3, TracingConstants DEF Tagged
<1>4. root.trace_id = n /\ root.parent_span_id = 0
  BY DEF NewSpan, NoParent
<1> HIDE DEF root
<1> DEFINE more == Append(spans, root)
<1>5. /\ more \in Seq(Spans) /\ Len(more) = n /\ more[n] = root
      /\ \A i \in 1 .. Len(spans) : more[i] = spans[i]
  BY <1>2, <1>3, AppendProperties
<1> HIDE DEF more
<1>6. ASSUME NEW i \in 1 .. n PROVE Tagged(more[i]) /\ Hangs(more, i)
  <2>1. CASE i \in 1 .. Len(spans)
    <3>1. Tagged(spans[i]) /\ Hangs(spans, i) /\ more[i] = spans[i]
      BY <1>5, <2>1 DEF Forest
    <3>2. spans[i].parent_span_id # NoParent => spans[i].parent_span_id \in 1 .. Len(spans)
      BY <2>1, ParentBefore
    <3> QED
      BY <1>5, <3>1, <3>2 DEF Hangs
  <2>2. CASE i = n
    BY <1>2, <1>3, <1>4, <1>5, <2>2 DEF Hangs, NoParent
  <2> QED
    BY <1>2, <2>1, <2>2
<1> QED
  BY <1>1, <1>5, <1>6 DEF Forest, more

LEMMA TracingInductive == TracingSpec => []Forest(spans)
<1>1. TracingInit => Forest(spans)
  <2>1. << >> \in Seq(Spans) /\ 1 .. Len(<< >>) = {}
    OBVIOUS
  <2> QED
    BY <2>1 DEF TracingInit, Forest
<1>2. Forest(spans) /\ [TracingNext]_tracingVars => Forest(spans)'
  <2> SUFFICES ASSUME Forest(spans), [TracingNext]_tracingVars PROVE Forest(spans)'
    OBVIOUS
  <2>1. spans \in Seq(Spans) /\ DOMAIN spans = 1 .. Len(spans)
    BY LenProperties DEF Forest
  <2>2. CASE span_start_root
    BY <2>2, RootKeeps
  <2>3. ASSUME NEW i \in DOMAIN spans,
               \/ spans' = span_start_child(spans, i) \/ spans' = db_query(spans, i) \/ order_service_create(i)
        PROVE  Forest(spans)'
    BY <2>1, <2>3, ChildKeeps, QueryKeeps, OrderKeeps
  <2>4. ASSUME NEW i \in DOMAIN spans,
               \/ spans' = [spans EXCEPT ![i] = span_tag(@, "tag")]
               \/ spans' = [spans EXCEPT ![i] = span_error(@)]
               \/ spans' = [spans EXCEPT ![i] = span_end(@)]
        PROVE  Forest(spans)'
    <3>1. Tagged(spans[i]) /\ "tag" \in TagNames
      BY <2>1 DEF Forest, TagNames
    <3>2. PICK s : /\ s \in {span_tag(spans[i], "tag"), span_error(spans[i]), span_end(spans[i])}
                   /\ spans' = [spans EXCEPT ![i] = s]
      BY <2>4
    <3>3. Tagged(s) /\ SamePlace(spans[i], s)
      BY <3>1, <3>2, TagKeeps, ErrorKeeps, EndKeeps
    <3> QED
      BY <2>1, <3>2, <3>3, ChangeKeeps
  <2>5. CASE spans' = << >>
    <3>1. << >> \in Seq(Spans) /\ 1 .. Len(<< >>) = {}
      OBVIOUS
    <3> QED
      BY <2>5, <3>1 DEF Forest
  <2>6. CASE UNCHANGED tracingVars
    BY <2>6 DEF tracingVars
  <2> QED
    BY <2>2, <2>3, <2>4, <2>5, <2>6 DEF TracingNext
<1> QED
  BY <1>1, <1>2, PTL DEF TracingSpec

\* The function that Indent is, for at most n steps.
IndentsTo(f, n) ==
    f = [k \in 0 .. n |-> [i \in DOMAIN spans |->
            IF spans[i].parent_span_id = NoParent \/ k = 0 THEN 0
            ELSE 1 + f[k - 1][spans[i].parent_span_id]]]

LEMMA IndentsExist ==
    ASSUME NEW n \in Nat
    PROVE  \E f : IndentsTo(f, n)
<1> DEFINE T == {m \in Nat : ~ \E f : IndentsTo(f, m)}
           Level(k, below) == [i \in DOMAIN spans |->
              IF spans[i].parent_span_id = NoParent \/ k = 0 THEN 0 ELSE 1 + below[spans[i].parent_span_id]]
<1> SUFFICES ASSUME T # {} PROVE FALSE
  OBVIOUS
<1>0. \A f, m : IndentsTo(f, m) <=> f = [k \in 0 .. m |-> Level(k, f[k - 1])]
  BY DEF IndentsTo
<1>1. PICK m \in T : \A k \in T : m <= k
  <2>1. T \subseteq Nat
    OBVIOUS
  <2> QED
    BY <2>1, Least, Zenon
<1>2. \A below : Level(0, below) = [i \in DOMAIN spans |-> 0]
  OBVIOUS
<1> HIDE DEF Level
<1>3. CASE m = 0
  <2> DEFINE f == [k \in 0 .. 0 |-> [i \in DOMAIN spans |-> 0]]
  <2>1. f = [k \in 0 .. 0 |-> Level(k, f[k - 1])]
    BY <1>2
  <2> HIDE DEF f
  <2> QED
    BY <1>0, <1>1, <1>3, <2>1
<1>4. CASE m # 0
  <2>1. m - 1 \in Nat /\ m - 1 \notin T
    BY <1>1, <1>4
  <2>2. PICK f : f = [k \in 0 .. m - 1 |-> Level(k, f[k - 1])]
    BY <1>0, <2>1
  <2> DEFINE g == [k \in 0 .. m |-> IF k < m THEN f[k] ELSE Level(m, f[m - 1])]
  <2>3. ASSUME NEW k \in 0 .. m PROVE g[k] = Level(k, g[k - 1])
    <3>1. CASE k = m
      BY <2>1, <3>1
    <3>2. CASE k # m /\ k # 0
      <4>1. k \in 0 .. m - 1 /\ g[k] = f[k] /\ g[k - 1] = f[k - 1]
        BY <2>1, <3>2
      <4>2. f[k] = Level(k, f[k - 1])
        BY <2>2, <4>1
      <4> QED
        BY <4>1, <4>2
    <3>3. CASE k = 0
      <4>1. 0 \in 0 .. m - 1 /\ g[0] = f[0]
        BY <1>4, <2>1
      <4>2. f[0] = Level(0, f[0 - 1])
        BY <2>2, <4>1
      <4> QED
        BY <1>2, <3>3, <4>1, <4>2
    <3> QED
      BY <1>4, <3>1, <3>2, <3>3
  <2>4. g = [k \in 0 .. m |-> Level(k, g[k - 1])]
    <3>1. g = [k \in 0 .. m |-> g[k]]
      OBVIOUS
    <3> HIDE DEF g
    <3> QED
      BY <2>3, <3>1
  <2> HIDE DEF g
  <2> QED
    BY <1>0, <1>1, <2>4
<1> QED
  BY <1>3, <1>4

\* A span is indented one step more than its parent, with one step less to climb.
LEMMA IndentIs ==
    ASSUME NEW k \in 0 .. DEEPEST, NEW i \in DOMAIN spans
    PROVE  Indent[k][i] = IF spans[i].parent_span_id = NoParent \/ k = 0 THEN 0
                          ELSE 1 + Indent[k - 1][spans[i].parent_span_id]
<1> DEFINE f == CHOOSE f : IndentsTo(f, DEEPEST)
<1>1. IndentsTo(f, DEEPEST)
  BY IndentsExist DEF DEEPEST
<1>2. Indent = f
  BY DEF Indent, IndentsTo
<1> HIDE DEF f
<1>3. f[k] = [j \in DOMAIN spans |->
                 IF spans[j].parent_span_id = NoParent \/ k = 0 THEN 0 ELSE 1 + f[k - 1][spans[j].parent_span_id]]
  BY <1>1 DEF IndentsTo
<1> QED
  BY <1>2, <1>3

\* That whoever may climb one step less gets as far, unless there is further to go.
LEMMA IndentCut ==
    ASSUME Forest(spans)
    PROVE  \A k \in 0 .. DEEPEST - 1 : \A i \in 1 .. Len(spans) :
              /\ Indent[k][i] \in Nat /\ Indent[k + 1][i] \in Nat
              /\ Indent[k][i] = IF Indent[k + 1][i] <= k THEN Indent[k + 1][i] ELSE k
<1> DEFINE CutAt(k) == \A i \in 1 .. Len(spans) :
              /\ Indent[k][i] \in Nat /\ Indent[k + 1][i] \in Nat
              /\ Indent[k][i] = IF Indent[k + 1][i] <= k THEN Indent[k + 1][i] ELSE k
           T == {k \in 0 .. DEEPEST - 1 : ~ CutAt(k)}
<1> SUFFICES ASSUME T # {} PROVE FALSE
  OBVIOUS
<1>1. PICK k \in T : \A j \in T : k <= j
  <2>1. T \subseteq Nat
    OBVIOUS
  <2> HIDE DEF T
  <2> QED
    BY <2>1, Least, Zenon
<1>2. k \in 0 .. 10 /\ k \in 0 .. DEEPEST /\ k + 1 \in 0 .. DEEPEST /\ (k + 1) - 1 = k
  BY DEF DEEPEST
<1>3. ASSUME NEW i \in 1 .. Len(spans)
      PROVE  /\ Indent[k][i] \in Nat /\ Indent[k + 1][i] \in Nat
             /\ Indent[k][i] = IF Indent[k + 1][i] <= k THEN Indent[k + 1][i] ELSE k
  <2>1. i \in DOMAIN spans
    BY LenProperties DEF Forest
  <2>2. CASE spans[i].parent_span_id = NoParent
    <3>1. Indent[k][i] = 0 /\ Indent[k + 1][i] = 0
      BY <1>2, <2>1, <2>2, IndentIs
    <3> QED
      BY <1>2, <3>1
  <2>3. CASE spans[i].parent_span_id # NoParent
    <3>1. PICK p \in 1 .. Len(spans) : p = spans[i].parent_span_id
      BY <2>3, ParentBefore
    <3>2. p \in DOMAIN spans
      BY LenProperties DEF Forest
    <3>3. Indent[k + 1][i] = 1 + Indent[k][p]
      BY <1>2, <2>1, <2>3, <3>1, IndentIs
    <3>4. CASE k = 0
      <4>1. Indent[k][i] = 0 /\ Indent[k][p] = 0
        BY <1>2, <2>1, <3>2, <3>4, IndentIs
      <4> QED
        BY <3>3, <3>4, <4>1
    <3>5. CASE k # 0
      <4>1. k - 1 \in 0 .. DEEPEST - 1 /\ (k - 1) + 1 = k /\ ~ k <= k - 1
        BY <1>2, <3>5 DEF DEEPEST
      <4>2. CutAt(k - 1)
        <5>1. k - 1 \notin T
          <6> HIDE DEF T
          <6> QED
            BY <1>1, <4>1
        <5> QED
          BY <4>1, <5>1
      <4>3. PICK a, b : a = Indent[k - 1][p] /\ b = Indent[k][p]
        OBVIOUS
      <4>4. a \in Nat /\ b \in Nat /\ a = IF b <= k - 1 THEN b ELSE k - 1
        BY <4>1, <4>2, <4>3
      <4>5. Indent[k][i] = 1 + a
        BY <1>2, <2>1, <2>3, <3>1, <3>5, <4>3, IndentIs
      <4>6. PICK c, d : c = Indent[k][i] /\ d = Indent[k + 1][i]
        OBVIOUS
      <4> HIDE DEF T
      <4>7. c = 1 + a /\ d = 1 + b
        BY <3>3, <4>3, <4>5, <4>6
      <4>8. c \in Nat /\ d \in Nat /\ c = IF d <= k THEN d ELSE k
        BY <1>2, <3>5, <4>4, <4>7
      <4> QED
        BY <4>6, <4>8
    <3> QED
      BY <3>4, <3>5
  <2> QED
    BY <2>2, <2>3
<1> QED
  BY <1>1, <1>3

LEMMA DepthIs ==
    ASSUME Forest(spans), NEW i \in 1 .. Len(spans), spans[i].parent_span_id # NoParent
    PROVE  SpanDepth(i) = Min({SpanDepth(spans[i].parent_span_id) + 1, DEEPEST})
<1>1. PICK p \in 1 .. Len(spans) : p = spans[i].parent_span_id
  BY ParentBefore
<1>2. i \in DOMAIN spans
  BY LenProperties DEF Forest
<1>3. 11 \in 0 .. DEEPEST /\ 10 \in 0 .. DEEPEST - 1 /\ 11 - 1 = 10 /\ 10 + 1 = 11 /\ DEEPEST = 11
  BY DEF DEEPEST
<1>4. Indent[11][i] = 1 + Indent[10][p]
  BY <1>1, <1>2, <1>3, IndentIs DEF NoParent
<1>5. PICK a, b : a = Indent[10][p] /\ b = Indent[11][p]
  OBVIOUS
<1>6. a \in Nat /\ b \in Nat /\ a = IF b <= 10 THEN b ELSE 10
  BY <1>3, <1>5, IndentCut
<1>7. Min({b + 1, 11}) = IF b + 1 <= 11 THEN b + 1 ELSE 11
  <2> DEFINE m == IF b + 1 <= 11 THEN b + 1 ELSE 11
             S == {b + 1, 11}
  <2>1. m \in S /\ (\A y \in S : m <= y) /\ \A x \in S : (\A y \in S : x <= y) => x = m
    BY <1>6
  <2> HIDE DEF m, S
  <2>2. Min(S) = m
    BY <2>1 DEF Min
  <2> QED
    BY <2>2 DEF m, S
<1> QED
  BY <1>1, <1>3, <1>4, <1>5, <1>6, <1>7 DEF SpanDepth

\* However calls nest and in whatever order spans end, those of a trace are a tree
\* with one root, each printed one step deeper than its parent, and what went wrong
\* shows among the tags of its span unless they were full.
\* tracing_context.c:110-317.
THEOREM SpansAreTrees == TracingSpec => [](Forest(spans) /\ TracesAreTrees)
<1>1. Forest(spans) => TracesAreTrees
  <2> SUFFICES ASSUME Forest(spans), NEW i \in DOMAIN spans
               PROVE  LET s == spans[i] IN
                         /\ s.parent_span_id < i
                         /\ s.parent_span_id = NoParent <=> s.trace_id = i
                         /\ s.parent_span_id # NoParent =>
                               LET p == spans[s.parent_span_id]
                               IN  /\ p.trace_id = s.trace_id /\ p.sampled = s.sampled
                                   /\ SpanDepth(i) = Min({SpanDepth(s.parent_span_id) + 1, DEEPEST})
                         /\ s.is_error => "error" \in ToSet(s.tags) \/ Len(s.tags) = MAX_SPAN_TAGS
    BY DEF TracesAreTrees
  <2>1. i \in 1 .. Len(spans)
    BY LenProperties DEF Forest
  <2>2. Tagged(spans[i]) /\ Hangs(spans, i)
    BY <2>1 DEF Forest
  <2> QED
    BY <2>1, <2>2, DepthIs DEF Tagged, Hangs
<1> QED
  BY <1>1, TracingInductive, PTL
=============================================================================
