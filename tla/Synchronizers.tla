--------------------------- MODULE Synchronizers ----------------------------
(***************************************************************************)
(* Four ways of waiting of the memory management examples: the count-down  *)
(* latch (phase 6), the queue on a monitor (phase 5), the pool that runs   *)
(* what requests leave behind (phase 9) and the competition for too few    *)
(* connections (phase 10).                                                 *)
(***************************************************************************)
EXTENDS Integers, FiniteSets, Sequences, SequencesExt

-----------------------------------------------------------------------------
(***************************************************************************)
(* The count-down latch of atomic_operations.c (memory management, phase   *)
(* 6) with the services that start and the threads that wait for them.     *)
(* The count is decremented without the mutex; the last one to do so takes *)
(* it to wake the waiters.  A step is one atomic operation or one critical *)
(* section, from the lock or the wake-up to the unlock or the wait.        *)
(***************************************************************************)

CONSTANTS Services, Waiters

ASSUME LatchConstants == IsFiniteSet(Services) /\ Services # {}

VARIABLES
    count,        \* CountDownLatch.count
    service,      \* where each service is
    waiter,       \* where each waiting thread is
    cond          \* the waiters asleep on the condition

latchVars == <<count, service, waiter, cond>>

LatchTypeOK ==
    /\ count \in Int
    /\ service \in [Services -> {"starting", "broadcast", "ended"}]
    /\ waiter \in [Waiters -> {"await", "released"}]
    /\ cond \subseteq Waiters

\* latch_init
LatchInit ==
    /\ count = Cardinality(Services)
    /\ service = [s \in Services |-> "starting"]
    /\ waiter = [w \in Waiters |-> "await"]
    /\ cond = {}

latch_count_down(s) ==
    /\ service[s] = "starting"
    /\ count' = count - 1
    /\ service' = [service EXCEPT ![s] = IF count - 1 = 0 THEN "broadcast" ELSE "ended"]
    /\ UNCHANGED <<waiter, cond>>

Broadcast_signals(s) ==
    /\ service[s] = "broadcast"
    /\ IF cond = {} THEN UNCHANGED cond ELSE \E w \in cond : cond' = cond \ {w}
    /\ service' = [service EXCEPT ![s] = "ended"]
    /\ UNCHANGED <<count, waiter>>

Broadcast(s) ==
    /\ service[s] = "broadcast"
    /\ cond' = {}
    /\ service' = [service EXCEPT ![s] = "ended"]
    /\ UNCHANGED <<count, waiter>>

\* latch_await, from the lock or a wake-up to the wait or the unlock.
latch_await(w) ==
    /\ waiter[w] = "await" /\ w \notin cond
    /\ IF count > 0 THEN cond' = cond \cup {w} /\ UNCHANGED waiter
                    ELSE waiter' = [waiter EXCEPT ![w] = "released"] /\ UNCHANGED cond
    /\ UNCHANGED <<count, service>>

\* POSIX allows a wait to end for no reason.
SpuriousWakeUp ==
    /\ \E w \in cond : cond' = cond \ {w}
    /\ UNCHANGED <<count, service, waiter>>

start_service(s) == latch_count_down(s) \/ Broadcast(s)

LatchNext ==
    \/ \E s \in Services : start_service(s)
    \/ \E w \in Waiters : latch_await(w)
    \/ SpuriousWakeUp

LatchSpec == LatchInit /\ [][LatchNext]_latchVars

-----------------------------------------------------------------------------
(* Properties                                                              *)

\* Nobody passes the latch before every service has counted down.
NobodyPassesEarly ==
    \A w \in Waiters : waiter[w] = "released" => \A s \in Services : service[s] # "starting"

\* Nobody passes the latch before every service has counted down, and then
\* everybody does: no waiter falls asleep between the last decrement, which
\* takes no mutex, and the broadcast.  atomic_operations.c:224-252.
LatchOpensOnce ==
    /\ [](LatchTypeOK /\ NobodyPassesEarly)
    /\ \A w \in Waiters : (\A s \in Services : service[s] # "starting") ~> waiter[w] = "released"

-----------------------------------------------------------------------------
(***************************************************************************)
(* The monitor and the bounded queue of mutex_monitor.c (memory            *)
(* management, phase 5), with the producers, the consumers and the main    *)
(* thread that closes the queue once every producer has ended.  One        *)
(* condition serves both sides.  A step is a critical section, from the    *)
(* lock or the wake-up to the unlock or the wait.  An item is its producer *)
(* and its number there.  owner_tid and wait_count are never read and left *)
(* out.                                                                    *)
(***************************************************************************)

CONSTANTS
    Producers,
    Consumers,
    QUEUE_CAPACITY,
    ITEMS,        \* items of each producer (PCArgs.count)
    NoItem        \* what items[] holds where nothing was put, and the -1 of bq_take

ASSUME QueueConstants == QUEUE_CAPACITY \in Nat \ {0} /\ ITEMS \in Nat

VARIABLES
    bq,            \* the BlockingQueue
    asleep,        \* threads in monitor_wait
    produced,      \* items each producer is done with
    consumer,      \* "running" or "ended"
    taken          \* auxiliary: what the consumers took, in order

bqVars == <<bq, asleep, produced, consumer, taken>>

QueueItem == Producers \X (1 .. ITEMS)

BqTypeOK ==
    /\ bq \in [items : [0 .. QUEUE_CAPACITY - 1 -> QueueItem \cup {NoItem}],
               head : 0 .. QUEUE_CAPACITY - 1, tail : 0 .. QUEUE_CAPACITY - 1,
               size : 0 .. QUEUE_CAPACITY, closed : BOOLEAN]
    /\ asleep \subseteq Producers \cup Consumers
    /\ produced \in [Producers -> 0 .. ITEMS]
    /\ consumer \in [Consumers -> {"running", "ended"}]
    /\ taken \in Seq(QueueItem)

\* bq_init
BqInit ==
    /\ bq = [items |-> [i \in 0 .. QUEUE_CAPACITY - 1 |-> NoItem],
             head |-> 0, tail |-> 0, size |-> 0, closed |-> FALSE]
    /\ asleep = {}
    /\ produced = [p \in Producers |-> 0]
    /\ consumer = [c \in Consumers |-> "running"]
    /\ taken = << >>

-----------------------------------------------------------------------------

monitor_wait(t) == asleep' = asleep \cup {t}

monitor_notify ==
    IF asleep = {} THEN UNCHANGED asleep ELSE \E t \in asleep : asleep' = asleep \ {t}

monitor_notify_all == asleep' = {}

\* producer_fn: the next item; a closed queue drops it.
bq_put(p) ==
    /\ produced[p] < ITEMS /\ p \notin asleep
    /\ IF bq.size >= QUEUE_CAPACITY /\ ~ bq.closed
       THEN monitor_wait(p) /\ UNCHANGED <<bq, produced>>
       ELSE /\ produced' = [produced EXCEPT ![p] = @ + 1]
            /\ IF bq.closed THEN UNCHANGED <<bq, asleep>>
               ELSE /\ bq' = [bq EXCEPT !.items[bq.tail] = <<p, produced[p] + 1>>,
                                        !.tail = (@ + 1) % QUEUE_CAPACITY,
                                        !.size = @ + 1]
                    /\ monitor_notify_all
    /\ UNCHANGED <<consumer, taken>>

\* consumer_fn: takes until the queue is closed and empty.
bq_take(c) ==
    /\ consumer[c] = "running" /\ c \notin asleep
    /\ \/ /\ bq.size = 0 /\ ~ bq.closed
          /\ monitor_wait(c)
          /\ UNCHANGED <<bq, consumer, taken>>
       \/ /\ bq.size > 0
          /\ bq' = [bq EXCEPT !.head = (@ + 1) % QUEUE_CAPACITY, !.size = @ - 1]
          /\ taken' = Append(taken, bq.items[bq.head])
          /\ monitor_notify_all
          /\ UNCHANGED consumer
       \/ /\ bq.size = 0 /\ bq.closed
          /\ consumer' = [consumer EXCEPT ![c] = "ended"]
          /\ UNCHANGED <<bq, asleep, taken>>
    /\ UNCHANGED produced

\* The main thread closes the queue when it has joined the producers.
bq_close ==
    /\ ~ bq.closed /\ \A p \in Producers : produced[p] = ITEMS
    /\ bq' = [bq EXCEPT !.closed = TRUE]
    /\ monitor_notify_all
    /\ UNCHANGED <<produced, consumer, taken>>

\* POSIX allows a wait to end for no reason.
BqSpuriousWakeUp ==
    /\ \E t \in asleep : asleep' = asleep \ {t}
    /\ UNCHANGED <<bq, produced, consumer, taken>>

BqNext ==
    \/ \E p \in Producers : bq_put(p)
    \/ \E c \in Consumers : bq_take(c)
    \/ bq_close
    \/ BqSpuriousWakeUp

BqSpec == BqInit /\ [][BqNext]_bqVars

-----------------------------------------------------------------------------
(* Properties                                                              *)

\* What is taken n-th of a producer's items is its item n.
TakenInOrder ==
    \A i \in 1 .. Len(taken) : taken[i][2] = Cardinality({k \in 1 .. i : taken[k][1] = taken[i][1]})

\* All that was put is taken once, each producer's items in the order in which
\* it put them, and once an item is put every thread ends: with one condition for producers and
\* consumers no wake-up goes to a thread that cannot use it.
\* bq_put, bq_take and bq_close, mutex_monitor.c:127-180.
AllIsConsumed ==
    /\ [](BqTypeOK /\ TakenInOrder)
    /\ (\E p \in Producers : produced[p] > 0) ~>
          /\ Len(taken) = ITEMS * Cardinality(Producers)
          /\ \A c \in Consumers : consumer[c] = "ended"

-----------------------------------------------------------------------------
(***************************************************************************)
(* The pool of async_execution.c (memory management, phase 9), the request *)
(* threads that hand it an email each, and the main thread, which joins    *)
(* the requests, closes the pool, joins the workers and frees it.  A step  *)
(* is a critical section, from the lock or the wake-up to the unlock or    *)
(* the wait.  The queue has no bound and async_submit does not look at     *)
(* closed.  A request's context belongs to its thread and is left out.     *)
(***************************************************************************)
CONSTANTS
    Requests,    \* request threads; each stands for its email too
    Workers,
    NoTask

ASSUME AsyncConstants == Workers # {} /\ NoTask \notin Requests /\ "ended" \notin Requests \cup {NoTask}

VARIABLES
    pool,        \* the AsyncPool's queue and closed
    asleep_workers,
    worker,      \* the task a worker has, or where it is
    request,     \* whether a request thread has ended
    mailed       \* emails sent, with how often each was

asyncVars == <<pool, asleep_workers, worker, request, mailed>>

AsyncTypeOK ==
    /\ pool \in [tasks : Seq(Requests), closed : BOOLEAN, freed : BOOLEAN]
    /\ asleep_workers \subseteq Workers
    /\ worker \in [Workers -> Requests \cup {NoTask, "ended"}]
    /\ request \in [Requests -> {"running", "ended"}]
    /\ mailed \in [Requests -> Nat]

\* async_pool_create, and the request threads.
AsyncInit ==
    /\ pool = [tasks |-> << >>, closed |-> FALSE, freed |-> FALSE]
    /\ asleep_workers = {}
    /\ worker = [w \in Workers |-> NoTask]
    /\ request = [r \in Requests |-> "running"]
    /\ mailed = [r \in Requests |-> 0]

-----------------------------------------------------------------------------

not_empty_signal ==
    IF asleep_workers = {} THEN UNCHANGED asleep_workers
    ELSE \E w \in asleep_workers : asleep_workers' = asleep_workers \ {w}

\* handle_http_request submits the email at its end.
async_submit(r) ==
    /\ request[r] = "running"
    /\ pool' = [pool EXCEPT !.tasks = Append(@, r)]
    /\ not_empty_signal
    /\ request' = [request EXCEPT ![r] = "ended"]
    /\ UNCHANGED <<worker, mailed>>

async_worker_hasty(w) ==
    /\ worker[w] = NoTask /\ w \notin asleep_workers
    /\ IF pool.tasks # << >> /\ ~ pool.closed
       THEN /\ worker' = [worker EXCEPT ![w] = Head(pool.tasks)]
            /\ pool' = [pool EXCEPT !.tasks = Tail(@)]
            /\ UNCHANGED asleep_workers
       ELSE /\ UNCHANGED pool
            /\ IF pool.closed
               THEN worker' = [worker EXCEPT ![w] = "ended"] /\ UNCHANGED asleep_workers
               ELSE asleep_workers' = asleep_workers \cup {w} /\ UNCHANGED worker
    /\ UNCHANGED <<request, mailed>>

\* async_worker takes a task; without one it waits or, once the pool is closed, ends.
async_worker(w) ==
    /\ worker[w] = NoTask /\ w \notin asleep_workers
    /\ IF pool.tasks # << >>
       THEN /\ worker' = [worker EXCEPT ![w] = Head(pool.tasks)]
            /\ pool' = [pool EXCEPT !.tasks = Tail(@)]
            /\ UNCHANGED asleep_workers
       ELSE /\ UNCHANGED pool
            /\ IF pool.closed
               THEN worker' = [worker EXCEPT ![w] = "ended"] /\ UNCHANGED asleep_workers
               ELSE asleep_workers' = asleep_workers \cup {w} /\ UNCHANGED worker
    /\ UNCHANGED <<request, mailed>>

async_send_email(w) ==
    /\ worker[w] \in Requests
    /\ mailed' = [mailed EXCEPT ![worker[w]] = @ + 1]
    /\ worker' = [worker EXCEPT ![w] = NoTask]
    /\ UNCHANGED <<pool, asleep_workers, request>>

SpuriousWake ==
    /\ \E w \in asleep_workers : asleep_workers' = asleep_workers \ {w}
    /\ UNCHANGED <<pool, worker, request, mailed>>

\* The main thread, once it has joined the requests ...
async_pool_shutdown ==
    /\ ~ pool.closed /\ \A r \in Requests : request[r] = "ended"
    /\ pool' = [pool EXCEPT !.closed = TRUE]
    /\ asleep_workers' = {}
    /\ UNCHANGED <<worker, request, mailed>>

\* ... and once it has joined the workers.
async_pool_destroy ==
    /\ pool.closed /\ ~ pool.freed /\ \A w \in Workers : worker[w] = "ended"
    /\ pool' = [pool EXCEPT !.freed = TRUE]
    /\ UNCHANGED <<asleep_workers, worker, request, mailed>>

AsyncNext ==
    \/ \E r \in Requests : async_submit(r)
    \/ \E w \in Workers : async_worker(w) \/ async_send_email(w)
    \/ SpuriousWake
    \/ async_pool_shutdown \/ async_pool_destroy

AsyncSpec == AsyncInit /\ [][AsyncNext]_asyncVars

-----------------------------------------------------------------------------
(* Properties                                                              *)

EmailFate(r) == IF mailed[r] > 0 THEN "executed"
                ELSE IF request[r] = "running" THEN "new" ELSE "accepted"

Executor == INSTANCE TaskExecutor WITH
    Tasks <- Requests,
    fate  <- [r \in Requests |-> EmailFate(r)],
    open  <- ~ pool.closed

\* No email is sent twice, and all of them are before the pool is freed.
MailedOnce ==
    /\ \A r \in Requests : mailed[r] <= 1
    /\ pool.freed => \A r \in Requests : mailed[r] = 1

\* Every email that was submitted is sent, once, although workers take their tasks
\* while the pool is being closed, one signal may wake a worker that finds the
\* queue empty again, and the pool is freed only after all of them were sent.
\* async_worker, async_submit, async_pool_shutdown, async_execution.c:119-178.
ImplementsAsyncExecutor ==
    /\ Executor!ExecutorSpec
    /\ [](AsyncTypeOK /\ MailedOnce)
    /\ (\E r \in Requests : request[r] = "ended") ~> pool.freed

-----------------------------------------------------------------------------
(***************************************************************************)
(* Request threads that compete for too few connections, from              *)
(* singleton_race_condition.c (memory management, phase 10): a counter     *)
(* under a mutex, a condition variable, and waits that end at a deadline.  *)
(* A step is one critical section, from the lock or the end of a wait to   *)
(* the next wait or the unlock.  Deadlines may pass at any time.           *)
(***************************************************************************)
CONSTANTS
    RequestThreads,
    POOL_CONNECTIONS

ASSUME StarvationConstants == IsFiniteSet(RequestThreads) /\ POOL_CONNECTIONS \in Nat \ {0}

VARIABLES
    g_conn_pool,
    db_thread,    \* where each thread is
    has_waited    \* the local variable, as a flag

gateVars == <<g_conn_pool, db_thread, has_waited>>

GateTypeOK ==
    /\ g_conn_pool \in [connections_free : 0 .. POOL_CONNECTIONS, total_waited : Nat, timeouts : Nat]
    /\ db_thread \in [RequestThreads -> {"acquiring", "asleep", "timed_out", "holding",
                                         "served", "refused"}]
    /\ has_waited \in [RequestThreads -> BOOLEAN]

\* pool_init_small
GateInit ==
    /\ g_conn_pool = [connections_free |-> POOL_CONNECTIONS, total_waited |-> 0, timeouts |-> 0]
    /\ db_thread = [t \in RequestThreads |-> "acquiring"]
    /\ has_waited = [t \in RequestThreads |-> FALSE]

-----------------------------------------------------------------------------

In(state) == {t \in RequestThreads : db_thread[t] = state}

\* From the lock, or from a wake-up: takes a connection or waits.
pool_acquire(t) ==
    /\ t \in In("acquiring")
    /\ IF g_conn_pool.connections_free = 0
       THEN /\ has_waited' = [has_waited EXCEPT ![t] = TRUE]
            /\ db_thread' = [db_thread EXCEPT ![t] = "asleep"]
            /\ UNCHANGED g_conn_pool
       ELSE /\ g_conn_pool' = [g_conn_pool EXCEPT !.connections_free = @ - 1,
                                                  !.total_waited = IF has_waited[t] THEN @ + 1 ELSE @]
            /\ db_thread' = [db_thread EXCEPT ![t] = "holding"]
            /\ UNCHANGED has_waited

Deadline(t) ==
    /\ t \in In("asleep")
    /\ db_thread' = [db_thread EXCEPT ![t] = "timed_out"]
    /\ UNCHANGED <<g_conn_pool, has_waited>>

\* With the mutex again it gives up, whatever connections_free is by then.
GiveUp(t) ==
    /\ t \in In("timed_out")
    /\ g_conn_pool' = [g_conn_pool EXCEPT !.timeouts = @ + 1]
    /\ db_thread' = [db_thread EXCEPT ![t] = "refused"]
    /\ UNCHANGED has_waited

\* POSIX allows a wait to end for no reason.
Spurious(t) ==
    /\ t \in In("asleep")
    /\ db_thread' = [db_thread EXCEPT ![t] = "acquiring"]
    /\ UNCHANGED <<g_conn_pool, has_waited>>

pool_release_unsignalled(t) ==
    /\ t \in In("holding")
    /\ g_conn_pool' = [g_conn_pool EXCEPT !.connections_free = @ + 1]
    /\ db_thread' = [db_thread EXCEPT ![t] = "served"]
    /\ UNCHANGED has_waited

pool_release(t) ==
    /\ t \in In("holding")
    /\ g_conn_pool' = [g_conn_pool EXCEPT !.connections_free = @ + 1]
    /\ LET freed == [db_thread EXCEPT ![t] = "served"] IN
       IF In("asleep") = {} THEN db_thread' = freed
       ELSE \E w \in In("asleep") : db_thread' = [freed EXCEPT ![w] = "acquiring"]
    /\ UNCHANGED has_waited

db_worker(t) == pool_acquire(t) \/ Deadline(t) \/ GiveUp(t) \/ pool_release(t)

GateNext == \E t \in RequestThreads : db_worker(t) \/ Spurious(t)

GateSpec == GateInit /\ [][GateNext]_gateVars

-----------------------------------------------------------------------------
(* Properties                                                              *)

\* Nobody sleeps beside a free connection unless as many threads that have waited
\* are on their way to take what is free.
ConnectionsAreCounted ==
    /\ g_conn_pool.connections_free + Cardinality(In("holding")) = POOL_CONNECTIONS
    /\ In("asleep") # {} =>
          g_conn_pool.connections_free <= Cardinality(In("acquiring") \cap {t \in RequestThreads : has_waited[t]})
    /\ g_conn_pool.timeouts = Cardinality(In("refused"))
    /\ g_conn_pool.total_waited = Cardinality({t \in In("holding") \cup In("served") : has_waited[t]})

\* The connections that are free and those that are held are all there are, and
\* nobody sleeps beside a free connection unless as many threads are on their way
\* to take what is free, although a thread that comes late may overtake the one
\* that was signalled and deadlines pass in between; every thread ends, and the
\* counters then tell who was refused and who had to wait.
\* pool_acquire and pool_release, singleton_race_condition.c:289-332.
NobodyStarvesBesideAConnection ==
    /\ [](GateTypeOK /\ ConnectionsAreCounted)
    /\ \A t \in RequestThreads : db_thread[t] = "holding" ~> db_thread[t] = "served"
    /\ \A t \in RequestThreads : db_thread[t] = "asleep" ~> db_thread[t] \in {"served", "refused"}
=============================================================================
