--------------------------- MODULE ThreadPool_proof ---------------------------
(***************************************************************************)
(* Proofs about ThreadPool for any number of workers, submitters and tasks *)
(* and any capacity of the queue.                                          *)
(***************************************************************************)
EXTENDS ThreadPool, FiniteSetTheorems, TLAPS

\* The workers that are at one of the places S.
InPc(S) == {w \in Workers : worker[w].pc \in S}

Alive == {"take", "begin", "run", "count", "leave"}

Done == {t \in Tasks : runs[t] = 1}

\* The counters as numbers of workers and tasks; a worker at "count" has run a
\* task that tasks_completed does not include yet.
Counted ==
    /\ active_threads = Cardinality(InPc({"run"}))
    /\ total_threads = Cardinality(InPc(Alive))
    /\ tasks_completed + Cardinality(InPc({"count"})) = Cardinality(Done)

Holding(w) == worker[w].pc \in {"begin", "run"}

\* Where each task is.  A submitter that is not idle is the only one with its
\* task; a task that is queued or held has not run; what was accepted is queued,
\* held or has run.
Placed ==
    /\ \A s \in Submitters : submitter[s].pc # "idle" =>
          /\ submitter[s].task \in Tasks /\ result[submitter[s].task] = "pending"
          /\ \A u \in Submitters : submitter[u].pc # "idle" /\ submitter[u].task = submitter[s].task
                => u = s
    /\ \A i \in 1 .. Len(queue) : result[queue[i]] = "accepted" /\ runs[queue[i]] = 0
    /\ \A i, j \in 1 .. Len(queue) : queue[i] = queue[j] => i = j
    /\ \A w \in Workers : Holding(w) =>
          /\ worker[w].task \in Tasks
          /\ result[worker[w].task] = "accepted" /\ runs[worker[w].task] = 0
          /\ \A i \in 1 .. Len(queue) : queue[i] # worker[w].task
          /\ \A v \in Workers : Holding(v) /\ worker[v].task = worker[w].task => v = w
    /\ \A t \in Tasks : runs[t] \in {0, 1} /\ (runs[t] = 1 => result[t] = "accepted")
    /\ \A t \in Tasks : result[t] = "accepted" =>
          \/ runs[t] = 1
          \/ \E i \in 1 .. Len(queue) : queue[i] = t
          \/ \E w \in Workers : Holding(w) /\ worker[w].task = t

\* A worker leaves only when the queue is closed, and then for good, and empty.
Closing ==
    /\ closed <=> main \in {"join", "done"}
    /\ \A w \in Workers : worker[w].pc \in {"leave", "gone"} => closed /\ queue = << >>
    /\ main = "done" => \A w \in Workers : worker[w].pc = "gone"

IInv == TypeOK /\ Counted /\ QueueBounded /\ Placed /\ Closing

-----------------------------------------------------------------------------
\* A worker that moves is counted where it arrives and no longer where it was.
LEMMA Moved ==
    ASSUME TypeOK, NEW w \in Workers, NEW pc, NEW t, Goto(w, pc, t), NEW S
    PROVE  /\ IsFiniteSet(InPc(S))
           /\ Cardinality(InPc(S)) \in Nat
           /\ Cardinality(InPc(S)') =
                 Cardinality(InPc(S)) + (IF pc \in S THEN 1 ELSE 0)
                                      - (IF worker[w].pc \in S THEN 1 ELSE 0)
           /\ worker[w].pc \in S => Cardinality(InPc(S)) > 0
<1>1. IsFiniteSet(InPc(S)) /\ Cardinality(InPc(S)) \in Nat
  BY FS_Subset, FS_CardinalityType, PoolConstants DEF InPc
<1>2. \A v \in Workers : worker'[v].pc = IF v = w THEN pc ELSE worker[v].pc
  BY DEF Goto, TypeOK, At
<1>3. InPc(S)' = IF pc \in S THEN InPc(S) \cup {w} ELSE InPc(S) \ {w}
  BY <1>2 DEF InPc
<1>4. w \in InPc(S) <=> worker[w].pc \in S
  BY DEF InPc
<1>5. w \in InPc(S) => Cardinality(InPc(S)) > 0
  BY <1>1, FS_EmptySet
<1>6. CASE pc \in S
  <2>1. Cardinality(InPc(S) \cup {w}) =
           IF w \in InPc(S) THEN Cardinality(InPc(S)) ELSE Cardinality(InPc(S)) + 1
    BY <1>1, FS_AddElement
  <2> QED
    BY <1>1, <1>3, <1>4, <1>5, <1>6, <2>1
<1>7. CASE pc \notin S
  <2>1. Cardinality(InPc(S) \ {w}) =
           IF w \in InPc(S) THEN Cardinality(InPc(S)) - 1 ELSE Cardinality(InPc(S))
    BY <1>1, FS_RemoveElement
  <2> QED
    BY <1>1, <1>3, <1>4, <1>5, <1>7, <2>1
<1> QED
  BY <1>6, <1>7

\* What cannot change when no worker moves and nothing runs.
LEMMA NoneMoved ==
    ASSUME Counted, UNCHANGED <<active_threads, total_threads, tasks_completed, worker, runs>>
    PROVE  Counted'
  BY DEF Counted, InPc, Done

\* A wake-up or none.
LEMMA SignalSubset ==
    ASSUME NEW waiting, NEW S, waiting \subseteq S, NEW left \in Signal(waiting)
    PROVE  left \subseteq S
  BY DEF Signal

-----------------------------------------------------------------------------
(* Types and counters                                                      *)

\* A new pool has no task and counts nothing.
LEMMA InitTypes == Init => TypeOK /\ Counted
<1> SUFFICES ASSUME Init PROVE TypeOK /\ Counted
  OBVIOUS
<1>1. /\ active_threads = 0 /\ total_threads = 0
      /\ tasks_completed = 0 /\ tasks_rejected = 0
      /\ \A w \in Workers : worker[w] = [pc |-> "start", task |-> NoTask]
      /\ worker \in [Workers -> {[pc |-> "start", task |-> NoTask]}]
      /\ submitter \in [Submitters -> {[pc |-> "idle", task |-> NoTask]}]
  BY DEF Init, At
<1>2. TypeOK
  <2>1. [pc |-> "start", task |-> NoTask] \in [pc : WorkerPcs, task : Tasks \cup {NoTask}]
    BY DEF WorkerPcs
  <2>2. [pc |-> "idle", task |-> NoTask] \in [pc : SubmitterPcs, task : Tasks \cup {NoTask}]
    BY DEF SubmitterPcs
  <2>3. queue \in Seq(Tasks) /\ result \in [Tasks -> {"none"}] /\ runs \in [Tasks -> {0}]
    BY DEF Init
  <2>4. worker \in [Workers -> [pc : WorkerPcs, task : Tasks \cup {NoTask}]]
    BY <1>1, <2>1
  <2>5. submitter \in [Submitters -> [pc : SubmitterPcs, task : Tasks \cup {NoTask}]]
    BY <1>1, <2>2
  <2>6. /\ result \in [Tasks -> {"none", "pending", "accepted", "rejected"}]
        /\ runs \in [Tasks -> Nat]
    BY <2>3
  <2>7. /\ closed \in BOOLEAN /\ shutdown \in BOOLEAN
        /\ not_empty \subseteq Workers /\ not_full \subseteq Submitters
        /\ main \in {"running", "close", "join", "done"}
    BY DEF Init
  <2> QED
    BY <1>1, <2>3, <2>4, <2>5, <2>6, <2>7 DEF TypeOK
<1>3. InPc({"run"}) = {} /\ InPc(Alive) = {} /\ InPc({"count"}) = {} /\ Done = {}
  BY <1>1 DEF Init, InPc, Alive, Done
<1>4. Counted
  BY <1>1, <1>3, FS_EmptySet DEF Counted
<1> QED
  BY <1>2, <1>4

\* Steps of submitters: they leave the workers and their counters alone.
LEMMA SubmitTypes ==
    ASSUME TypeOK, Counted, NEW s \in Submitters, Submit(s) \/ \E t \in Tasks : pool_submit(s, t),
           Placed
    PROVE  TypeOK' /\ Counted'
<1>1. CASE \E t \in Tasks : pool_submit(s, t)
  <2>1. PICK t \in Tasks : pool_submit(s, t)
    BY <1>1
  <2>2. Counted'
    BY <2>1, NoneMoved DEF pool_submit, counters
  <2> QED
    BY <2>1, <2>2 DEF pool_submit, TypeOK, queueVars, counters, At, SubmitterPcs
<1>2. CASE CountRejection(s)
  <2>1. Counted'
    BY <1>2, NoneMoved DEF CountRejection
  <2>2. submitter[s].task \in Tasks
    BY <1>2 DEF CountRejection, Placed
  <2> QED
    BY <1>2, <2>1, <2>2 DEF CountRejection, TypeOK, queueVars, At, SubmitterPcs
<1>3. CASE Put(s)
  <2>1. Counted'
    BY <1>3, NoneMoved DEF Put, counters
  <2>2. submitter[s].pc = "put" => submitter[s].task \in Tasks
    BY DEF Placed
  <2>3. CASE tq_put(s)
    <3>1. not_empty' \subseteq Workers
      BY <2>3, SignalSubset DEF tq_put, TypeOK
    <3>2. queue' \in Seq(Tasks)
      BY <2>2, <2>3 DEF tq_put, TypeOK
    <3> QED
      BY <1>3, <2>1, <2>2, <2>3, <3>1, <3>2 DEF Put, tq_put, TypeOK, counters, At, SubmitterPcs
  <2>4. CASE tq_put_waits(s)
    BY <1>3, <2>1, <2>4 DEF Put, tq_put_waits, TypeOK, counters
  <2>5. CASE tq_put_refuses(s)
    BY <1>3, <2>1, <2>5 DEF Put, tq_put_refuses, TypeOK, counters, queueVars, SubmitterPcs
  <2> QED
    BY <1>3, <2>3, <2>4, <2>5 DEF Put
<1> QED
  BY <1>1, <1>2, <1>3 DEF Submit

\* A worker that moves between places that are not counted.
LEMMA MovedUncounted ==
    ASSUME TypeOK, Counted, NEW w \in Workers, NEW pc, NEW t, Goto(w, pc, t),
           UNCHANGED <<counters, runs>>,
           worker[w].pc \in Alive, worker[w].pc \notin {"run", "count"},
           pc \in Alive, pc \notin {"run", "count"}
    PROVE  Counted'
<1>1. /\ Cardinality(InPc({"run"})') = Cardinality(InPc({"run"}))
      /\ Cardinality(InPc({"count"})') = Cardinality(InPc({"count"}))
      /\ Cardinality(InPc(Alive)') = Cardinality(InPc(Alive))
  BY Moved
<1> QED
  BY <1>1 DEF Counted, Done, counters

\* Steps of workers.
LEMMA WorkerTypes ==
    ASSUME TypeOK, Counted, Placed, NEW w \in Workers, worker_loop(w)
    PROVE  TypeOK' /\ Counted'
<1>0. IsFiniteSet(Done)
  BY FS_Subset, PoolConstants DEF Done
<1>1. CASE /\ tq_take(w) \/ tq_take_waits(w) \/ tq_take_ends(w)
           /\ UNCHANGED <<shutdown, counters, submitter, main, result, runs>>
  <2>1. CASE tq_take(w)
    <3>1. not_full' \subseteq Submitters
      BY <2>1, SignalSubset DEF tq_take, TypeOK
    <3>2. Head(queue) \in Tasks /\ Tail(queue) \in Seq(Tasks)
      BY <2>1 DEF tq_take, TypeOK
    <3>3. Counted'
      BY <1>1, <2>1, MovedUncounted DEF tq_take, Alive
    <3> QED
      BY <1>1, <2>1, <3>1, <3>2, <3>3 DEF tq_take, Goto, TypeOK, counters, At, WorkerPcs
  <2>2. CASE tq_take_waits(w)
    <3>1. Counted'
      BY <1>1, <2>2, NoneMoved DEF tq_take_waits, counters
    <3> QED
      BY <1>1, <2>2, <3>1 DEF tq_take_waits, TypeOK, counters
  <2>3. CASE tq_take_ends(w)
    <3>1. Counted'
      BY <1>1, <2>3, MovedUncounted DEF tq_take_ends, Alive
    <3> QED
      BY <1>1, <2>3, <3>1 DEF tq_take_ends, Goto, TypeOK, counters, queueVars, At, WorkerPcs
  <2> QED
    BY <1>1, <2>1, <2>2, <2>3
<1>2. CASE /\ StartWorker(w) \/ BeginTask(w) \/ RunTask(w) \/ CountTask(w) \/ Leave(w)
           /\ UNCHANGED <<queueVars, shutdown, tasks_rejected, submitter, main, result>>
  <2> DEFINE Step(pc, t) ==
        /\ \A S \in {{"run"}, {"count"}, Alive} :
              /\ Cardinality(InPc(S)) \in Nat
              /\ Cardinality(InPc(S)') =
                    Cardinality(InPc(S)) + (IF pc \in S THEN 1 ELSE 0)
                                         - (IF worker[w].pc \in S THEN 1 ELSE 0)
              /\ worker[w].pc \in S => Cardinality(InPc(S)) > 0
  <2>0. \A pc, t : Goto(w, pc, t) => Step(pc, t)
    BY Moved
  <2> HIDE DEF Step
  <2>1. CASE StartWorker(w)
    <3>1. Step("take", NoTask)
      BY <2>0, <2>1 DEF StartWorker
    <3>2. Counted' /\ total_threads' \in Nat
      BY <2>1, <3>1 DEF StartWorker, Step, Counted, Alive, Done, TypeOK
    <3> QED
      BY <1>2, <2>1, <3>2 DEF StartWorker, Goto, TypeOK, queueVars, At, WorkerPcs
  <2>2. CASE BeginTask(w)
    <3>1. Step("run", worker[w].task)
      BY <2>0, <2>2 DEF BeginTask
    <3>2. Counted' /\ active_threads' \in Nat
      BY <2>2, <3>1 DEF BeginTask, Step, Counted, Alive, Done, TypeOK
    <3> QED
      BY <1>2, <2>2, <3>2 DEF BeginTask, Goto, TypeOK, queueVars, At, WorkerPcs
  <2>3. CASE RunTask(w)
    <3>1. Step("count", worker[w].task)
      BY <2>0, <2>3 DEF RunTask
    <3>2. worker[w].task \in Tasks /\ runs[worker[w].task] = 0
      BY <2>3 DEF RunTask, Placed, Holding
    <3>3. runs' \in [Tasks -> Nat] /\ \A t \in Tasks :
             runs'[t] = IF t = worker[w].task THEN 1 ELSE runs[t]
      BY <2>3, <3>2 DEF RunTask, TypeOK
    <3>4. Done' = Done \cup {worker[w].task} /\ worker[w].task \notin Done
      BY <3>2, <3>3 DEF Done
    <3>5. Cardinality(Done') = Cardinality(Done) + 1
      BY <1>0, <3>4, FS_AddElement
    <3>6. Counted' /\ active_threads' \in Nat
      BY <2>3, <3>1, <3>5 DEF RunTask, Step, Counted, Alive, TypeOK
    <3> QED
      BY <1>2, <2>3, <3>3, <3>6 DEF RunTask, Goto, TypeOK, queueVars, At, WorkerPcs
  <2>4. CASE CountTask(w)
    <3>1. Step("take", NoTask)
      BY <2>0, <2>4 DEF CountTask
    <3>2. Counted' /\ tasks_completed' \in Nat
      BY <2>4, <3>1 DEF CountTask, Step, Counted, Alive, Done, TypeOK
    <3> QED
      BY <1>2, <2>4, <3>2 DEF CountTask, Goto, TypeOK, queueVars, At, WorkerPcs
  <2>5. CASE Leave(w)
    <3>1. Step("gone", NoTask)
      BY <2>0, <2>5 DEF Leave
    <3>2. Counted' /\ total_threads' \in Nat
      BY <2>5, <3>1 DEF Leave, Step, Counted, Alive, Done, TypeOK
    <3> QED
      BY <1>2, <2>5, <3>2 DEF Leave, Goto, TypeOK, queueVars, At, WorkerPcs
  <2> QED
    BY <1>2, <2>1, <2>2, <2>3, <2>4, <2>5
<1> QED
  BY <1>1, <1>2 DEF worker_loop

\* Steps of the thread that shuts the pool down, and wake-ups for no reason.
LEMMA OtherTypes ==
    ASSUME TypeOK, Counted, pool_shutdown_await \/ Spurious \/ UNCHANGED vars
    PROVE  TypeOK' /\ Counted'
<1>1. Counted'
  BY NoneMoved DEF pool_shutdown_await, SetShutdown, CloseQueue, JoinWorkers, Spurious,
                   vars, counters
<1>2. TypeOK'
  BY DEF pool_shutdown_await, SetShutdown, CloseQueue, JoinWorkers, Spurious,
         vars, counters, queueVars, TypeOK, tq_close
<1> QED
  BY <1>1, <1>2

-----------------------------------------------------------------------------
(* The place of a task                                                     *)

\* What a worker that moves without a task of its own changes.
LEMMA SamePlaces ==
    ASSUME TypeOK, Placed, UNCHANGED <<queue, submitter, result, runs>>,
           \A w \in Workers : Holding(w)' <=> Holding(w),
           \A w \in Workers : Holding(w) => worker'[w].task = worker[w].task
    PROVE  Placed'
  BY DEF Placed

\* A task that is submitted was nowhere before.
LEMMA SubmitPlaces ==
    ASSUME TypeOK, Placed, NEW s \in Submitters, NEW t \in Tasks, pool_submit(s, t)
    PROVE  Placed'
<1>1. /\ UNCHANGED <<queue, worker, runs>>
      /\ \A u \in Tasks : result'[u] = IF u = t THEN "pending" ELSE result[u]
      /\ result[t] = "none"
      /\ \A u \in Submitters : u # s => submitter'[u] = submitter[u]
      /\ submitter'[s].task = t /\ submitter[s].pc = "idle"
  BY DEF pool_submit, TypeOK, queueVars, At
<1>2. \A i \in 1 .. Len(queue) : queue[i] \in Tasks
  BY DEF TypeOK
<1> QED
  BY <1>1, <1>2 DEF Placed, Holding

\* A rejected task has no submitter any more, and is nowhere.
LEMMA RejectPlaces ==
    ASSUME TypeOK, Placed, NEW s \in Submitters, CountRejection(s)
    PROVE  Placed'
<1>1. submitter[s].task \in Tasks /\ result[submitter[s].task] = "pending"
  BY DEF CountRejection, Placed
<1>2. /\ UNCHANGED <<queue, worker, runs>>
      /\ \A u \in Tasks :
            result'[u] = IF u = submitter[s].task THEN "rejected" ELSE result[u]
      /\ \A u \in Submitters : u # s => submitter'[u] = submitter[u]
      /\ submitter'[s].pc = "idle" /\ submitter[s].pc # "idle"
  BY <1>1 DEF CountRejection, TypeOK, queueVars, At
<1>3. \A i \in 1 .. Len(queue) : queue[i] \in Tasks
  BY DEF TypeOK
<1> QED
  BY <1>1, <1>2, <1>3 DEF Placed, Holding

\* A task that is queued passes from its submitter to the queue.
LEMMA PutPlaces ==
    ASSUME TypeOK, Placed, NEW s \in Submitters, Put(s)
    PROVE  Placed'
<1> DEFINE k == submitter[s].task
<1>1. CASE tq_put(s)
  <2>1. k \in Tasks /\ result[k] = "pending" /\ submitter[s].pc = "put"
    BY <1>1 DEF tq_put, Placed
  <2>2. /\ Len(queue') = Len(queue) + 1 /\ Len(queue) \in Nat
        /\ \A i \in 1 .. Len(queue) : queue'[i] = queue[i] /\ queue[i] \in Tasks
        /\ queue'[Len(queue) + 1] = k
    BY <1>1, <2>1 DEF tq_put, TypeOK
  <2>3. /\ UNCHANGED <<worker, runs>>
        /\ \A u \in Tasks : result'[u] = IF u = k THEN "accepted" ELSE result[u]
        /\ \A u \in Submitters : u # s => submitter'[u] = submitter[u]
        /\ submitter'[s].pc = "idle"
    BY <1>1, <2>1, Put(s) DEF tq_put, Put, TypeOK, At
  <2>4. runs[k] = 0
    BY <2>1 DEF Placed
  <2> HIDE DEF k
  <2>5. \A i \in 1 .. Len(queue') : i \in 1 .. Len(queue) \/ i = Len(queue) + 1
    BY <2>2
  <2>6. \A u \in Submitters : submitter'[u].pc # "idle" =>
           u # s /\ submitter[u].pc # "idle" /\ submitter[u].task # k
    BY <2>1, <2>3 DEF Placed, k
  <2>7. \A u \in Submitters : submitter'[u].pc # "idle" =>
          /\ submitter'[u].task \in Tasks /\ result'[submitter'[u].task] = "pending"
          /\ \A v \in Submitters : submitter'[v].pc # "idle" /\ submitter'[v].task = submitter'[u].task
                => v = u
    BY <2>3, <2>6 DEF Placed
  <2>8. /\ \A i \in 1 .. Len(queue') : result'[queue'[i]] = "accepted" /\ runs'[queue'[i]] = 0
        /\ \A i, j \in 1 .. Len(queue') : queue'[i] = queue'[j] => i = j
    BY <2>1, <2>2, <2>3, <2>4, <2>5 DEF Placed
  <2>9. \A w \in Workers : Holding(w)' =>
          /\ worker'[w].task \in Tasks
          /\ result'[worker'[w].task] = "accepted" /\ runs'[worker'[w].task] = 0
          /\ \A i \in 1 .. Len(queue') : queue'[i] # worker'[w].task
          /\ \A v \in Workers : Holding(v)' /\ worker'[v].task = worker'[w].task => v = w
    BY <2>1, <2>2, <2>3, <2>5 DEF Placed, Holding
  <2>10. \A t \in Tasks : runs'[t] \in {0, 1} /\ (runs'[t] = 1 => result'[t] = "accepted")
    BY <2>3 DEF Placed
  <2>11. \A t \in Tasks : result'[t] = "accepted" =>
          \/ runs'[t] = 1
          \/ \E i \in 1 .. Len(queue') : queue'[i] = t
          \/ \E w \in Workers : Holding(w)' /\ worker'[w].task = t
    BY <2>1, <2>2, <2>3 DEF Placed, Holding
  <2> QED
    BY <2>7, <2>8, <2>9, <2>10, <2>11 DEF Placed
<1>2. CASE tq_put_waits(s)
  BY <1>2, Put(s), SamePlaces DEF Put, tq_put_waits, Holding
<1>3. CASE tq_put_refuses(s)
  <2>1. /\ UNCHANGED <<queue, worker, runs, result>>
        /\ \A u \in Submitters : submitter'[u].task = submitter[u].task
        /\ \A u \in Submitters : submitter'[u].pc # "idle" <=> submitter[u].pc # "idle"
    BY <1>3, Put(s) DEF tq_put_refuses, Put, queueVars, TypeOK
  <2>2. ASSUME NEW u \in Submitters, submitter'[u].pc # "idle"
        PROVE  /\ submitter'[u].task \in Tasks /\ result'[submitter'[u].task] = "pending"
               /\ \A v \in Submitters :
                     submitter'[v].pc # "idle" /\ submitter'[v].task = submitter'[u].task => v = u
    <3>1. submitter[u].pc # "idle" /\ submitter'[u].task = submitter[u].task
      BY <2>1, <2>2
    <3>2. /\ submitter[u].task \in Tasks /\ result[submitter[u].task] = "pending"
          /\ \A v \in Submitters :
                submitter[v].pc # "idle" /\ submitter[v].task = submitter[u].task => v = u
      BY <3>1 DEF Placed
    <3>3. ASSUME NEW v \in Submitters, submitter'[v].pc # "idle", submitter'[v].task = submitter'[u].task
          PROVE  v = u
      <4>1. submitter[v].pc # "idle" /\ submitter[v].task = submitter[u].task
        BY <2>1, <3>1, <3>3
      <4> QED
        BY <3>2, <4>1
    <3> QED
      BY <2>1, <3>1, <3>2, <3>3
  <2>3. Placed'
    BY <2>1, <2>2 DEF Placed, Holding
  <2> QED
    BY <2>3
<1> QED
  BY <1>1, <1>2, <1>3 DEF Put

\* A worker takes the task at the head of the queue.
LEMMA TakePlaces ==
    ASSUME TypeOK, Placed, NEW w \in Workers, tq_take(w), UNCHANGED <<submitter, result, runs>>
    PROVE  Placed'
<1> DEFINE k == Head(queue)
<1>1. /\ Len(queue) \in Nat /\ Len(queue) > 0
      /\ k = queue[1] /\ k \in Tasks
      /\ Len(queue') = Len(queue) - 1
      /\ \A i \in 1 .. Len(queue') : queue'[i] = queue[i + 1]
      /\ \A i \in 1 .. Len(queue) : queue[i] \in Tasks
  BY DEF tq_take, TypeOK
<1>2. /\ worker'[w].pc = "begin" /\ worker'[w].task = k /\ ~ Holding(w)
      /\ \A v \in Workers : v # w => worker'[v] = worker[v]
  BY DEF tq_take, Goto, At, TypeOK, Holding
<1>3. \A i \in 1 .. Len(queue') : i + 1 \in 1 .. Len(queue) /\ i + 1 # 1
  BY <1>1
<1>4. \A i \in 1 .. Len(queue) : i = 1 \/ (i - 1 \in 1 .. Len(queue') /\ queue'[i - 1] = queue[i])
  BY <1>1
<1>5. result[k] = "accepted" /\ runs[k] = 0
  BY <1>1 DEF Placed
<1>6. \A i \in 1 .. Len(queue') : queue'[i] # k
  <2>1. \A i \in 1 .. Len(queue') : queue[i + 1] # queue[1]
    BY <1>1, <1>3 DEF Placed
  <2> QED
    BY <1>1, <2>1
<1>7. \A v \in Workers : Holding(v) => worker[v].task # k
  BY <1>1 DEF Placed
<1> HIDE DEF k
<1>8. /\ \A i \in 1 .. Len(queue') : result'[queue'[i]] = "accepted" /\ runs'[queue'[i]] = 0
      /\ \A i, j \in 1 .. Len(queue') : queue'[i] = queue'[j] => i = j
  <2>1. \A i \in 1 .. Len(queue') : result[queue[i + 1]] = "accepted" /\ runs[queue[i + 1]] = 0
    BY <1>3 DEF Placed
  <2>2. \A i, j \in 1 .. Len(queue') : queue[i + 1] = queue[j + 1] => i + 1 = j + 1
    BY <1>3 DEF Placed
  <2> QED
    BY <1>1, <2>1, <2>2
<1>9. ASSUME NEW u \in Workers, Holding(u)'
      PROVE  /\ worker'[u].task \in Tasks
             /\ result'[worker'[u].task] = "accepted" /\ runs'[worker'[u].task] = 0
             /\ \A i \in 1 .. Len(queue') : queue'[i] # worker'[u].task
             /\ \A v \in Workers : Holding(v)' /\ worker'[v].task = worker'[u].task => v = u
  <2>1. CASE u = w
    <3>1. \A v \in Workers : Holding(v)' /\ worker'[v].task = k => v = w
      BY <1>2, <1>7 DEF Holding
    <3> QED
      BY <1>1, <1>2, <1>5, <1>6, <2>1, <3>1
  <2>2. CASE u # w
    <3>1. Holding(u) /\ worker'[u] = worker[u]
      BY <1>2, <1>9, <2>2 DEF Holding
    <3>2. /\ worker[u].task \in Tasks /\ worker[u].task # k
          /\ result[worker[u].task] = "accepted" /\ runs[worker[u].task] = 0
          /\ \A i \in 1 .. Len(queue) : queue[i] # worker[u].task
          /\ \A v \in Workers : Holding(v) /\ worker[v].task = worker[u].task => v = u
      BY <1>7, <3>1 DEF Placed
    <3>3. \A i \in 1 .. Len(queue') : queue'[i] # worker[u].task
      BY <1>1, <1>3, <3>2
    <3>4. \A v \in Workers : Holding(v)' /\ worker'[v].task = worker[u].task => v = u
      BY <1>2, <3>2 DEF Holding
    <3> QED
      BY <3>1, <3>2, <3>3, <3>4
  <2> QED
    BY <2>1, <2>2
<1>10. ASSUME NEW t \in Tasks, result'[t] = "accepted"
       PROVE  \/ runs'[t] = 1
              \/ \E i \in 1 .. Len(queue') : queue'[i] = t
              \/ \E u \in Workers : Holding(u)' /\ worker'[u].task = t
  <2>1. CASE runs[t] = 1
    BY <2>1
  <2>2. CASE \E i \in 1 .. Len(queue) : queue[i] = t
    <3>1. PICK i \in 1 .. Len(queue) : queue[i] = t
      BY <2>2
    <3>2. CASE i = 1
      BY <1>1, <1>2, <3>1, <3>2 DEF Holding
    <3>3. CASE i # 1
      BY <1>4, <3>1, <3>3
    <3> QED
      BY <3>2, <3>3
  <2>3. CASE \E u \in Workers : Holding(u) /\ worker[u].task = t
    BY <1>2, <2>3 DEF Holding
  <2> QED
    BY <1>10, <2>1, <2>2, <2>3 DEF Placed
<1>11. \A s \in Submitters : submitter'[s].pc # "idle" =>
          /\ submitter'[s].task \in Tasks /\ result'[submitter'[s].task] = "pending"
          /\ \A u \in Submitters : submitter'[u].pc # "idle" /\ submitter'[u].task = submitter'[s].task
                => u = s
  BY DEF Placed
<1>12. \A t \in Tasks : runs'[t] \in {0, 1} /\ (runs'[t] = 1 => result'[t] = "accepted")
  BY DEF Placed
<1> QED
  BY <1>8, <1>9, <1>10, <1>11, <1>12 DEF Placed

\* A task that is run is held no longer and has run.
LEMMA RunPlaces ==
    ASSUME TypeOK, Placed, NEW w \in Workers, RunTask(w), UNCHANGED <<queue, submitter, result>>
    PROVE  Placed'
<1> DEFINE k == worker[w].task
<1>1. /\ k \in Tasks /\ result[k] = "accepted" /\ runs[k] = 0 /\ Holding(w)
      /\ \A i \in 1 .. Len(queue) : queue[i] # k
      /\ \A v \in Workers : Holding(v) /\ worker[v].task = k => v = w
  BY DEF RunTask, Placed, Holding
<1>2. /\ \A v \in Workers : v # w => worker'[v] = worker[v]
      /\ worker'[w].pc = "count"
      /\ \A t \in Tasks : runs'[t] = IF t = k THEN 1 ELSE runs[t]
  BY <1>1 DEF RunTask, Goto, At, TypeOK
<1> HIDE DEF k
<1>3. \A v \in Workers : Holding(v)' =>
          v # w /\ Holding(v) /\ worker'[v] = worker[v] /\ worker[v].task # k
  BY <1>1, <1>2 DEF Holding
<1>4. \A i \in 1 .. Len(queue) : queue[i] \in Tasks
  BY DEF TypeOK
<1>5. ASSUME NEW u \in Workers, Holding(u)'
      PROVE  /\ worker'[u].task \in Tasks
             /\ result'[worker'[u].task] = "accepted" /\ runs'[worker'[u].task] = 0
             /\ \A i \in 1 .. Len(queue') : queue'[i] # worker'[u].task
             /\ \A v \in Workers : Holding(v)' /\ worker'[v].task = worker'[u].task => v = u
  <2>1. /\ worker[u].task \in Tasks
        /\ result[worker[u].task] = "accepted" /\ runs[worker[u].task] = 0
        /\ \A i \in 1 .. Len(queue) : queue[i] # worker[u].task
        /\ \A v \in Workers : Holding(v) /\ worker[v].task = worker[u].task => v = u
    BY <1>3, <1>5 DEF Placed
  <2> QED
    BY <1>2, <1>3, <1>5, <2>1
<1>6. ASSUME NEW t \in Tasks, result'[t] = "accepted"
      PROVE  \/ runs'[t] = 1
             \/ \E i \in 1 .. Len(queue') : queue'[i] = t
             \/ \E u \in Workers : Holding(u)' /\ worker'[u].task = t
  <2>1. CASE t = k
    BY <1>2, <2>1
  <2>2. CASE t # k
    <3>1. \A u \in Workers : Holding(u) /\ worker[u].task = t =>
             Holding(u)' /\ worker'[u].task = t
      BY <1>2, <2>2 DEF Holding, k
    <3>2. \/ runs[t] = 1
          \/ \E i \in 1 .. Len(queue) : queue[i] = t
          \/ \E u \in Workers : Holding(u) /\ worker[u].task = t
      BY <1>6 DEF Placed
    <3> QED
      BY <1>2, <2>2, <3>1, <3>2
  <2> QED
    BY <2>1, <2>2
<1>7. /\ \A i \in 1 .. Len(queue') : result'[queue'[i]] = "accepted" /\ runs'[queue'[i]] = 0
      /\ \A i, j \in 1 .. Len(queue') : queue'[i] = queue'[j] => i = j
  BY <1>1, <1>2, <1>4 DEF Placed
<1>8. \A s \in Submitters : submitter'[s].pc # "idle" =>
          /\ submitter'[s].task \in Tasks /\ result'[submitter'[s].task] = "pending"
          /\ \A u \in Submitters : submitter'[u].pc # "idle" /\ submitter'[u].task = submitter'[s].task
                => u = s
  BY DEF Placed
<1>9. \A t \in Tasks : runs'[t] \in {0, 1} /\ (runs'[t] = 1 => result'[t] = "accepted")
  BY <1>1, <1>2 DEF Placed
<1> QED
  BY <1>5, <1>6, <1>7, <1>8, <1>9 DEF Placed

\* Every step of a worker.
LEMMA WorkerPlaces ==
    ASSUME TypeOK, Placed, NEW w \in Workers, worker_loop(w)
    PROVE  Placed'
<1>1. CASE tq_take(w) /\ UNCHANGED <<shutdown, counters, submitter, main, result, runs>>
  BY <1>1, TakePlaces
<1>2. CASE /\ tq_take_waits(w)
           /\ UNCHANGED <<shutdown, counters, submitter, main, result, runs>>
  BY <1>2, SamePlaces DEF tq_take_waits, Holding
<1>3. CASE /\ tq_take_ends(w)
           /\ UNCHANGED <<shutdown, counters, submitter, main, result, runs>>
  <2>1. /\ \A v \in Workers : Holding(v)' <=> Holding(v)
        /\ \A v \in Workers : Holding(v) => worker'[v].task = worker[v].task
    BY <1>3 DEF tq_take_ends, Goto, At, Holding, TypeOK
  <2> QED
    BY <1>3, <2>1, SamePlaces DEF tq_take_ends, queueVars
<1>4. CASE RunTask(w) /\ UNCHANGED <<queueVars, shutdown, tasks_rejected, submitter, main, result>>
  BY <1>4, RunPlaces DEF queueVars
<1>5. CASE /\ StartWorker(w) \/ BeginTask(w) \/ CountTask(w) \/ Leave(w)
           /\ UNCHANGED <<queueVars, shutdown, tasks_rejected, submitter, main, result>>
  <2>1. /\ \A v \in Workers : Holding(v)' <=> Holding(v)
        /\ \A v \in Workers : Holding(v) => worker'[v].task = worker[v].task
        /\ runs' = runs
    <3>1. PICK pc, t : /\ Goto(w, pc, t)
                       /\ pc \in {"begin", "run"} <=> Holding(w)
                       /\ Holding(w) => t = worker[w].task
      BY <1>5 DEF StartWorker, BeginTask, CountTask, Leave, Holding
    <3>2. \A v \in Workers : worker'[v] = IF v = w THEN [pc |-> pc, task |-> t] ELSE worker[v]
      BY <3>1 DEF Goto, At, TypeOK
    <3>3. runs' = runs
      BY <1>5 DEF StartWorker, BeginTask, CountTask, Leave
    <3> QED
      BY <3>1, <3>2, <3>3 DEF Holding
  <2> QED
    BY <1>5, <2>1, SamePlaces DEF queueVars
<1> QED
  BY <1>1, <1>2, <1>3, <1>4, <1>5 DEF worker_loop

\* A task of a sleeping or woken thread stays where it is.
LEMMA OtherPlaces ==
    ASSUME TypeOK, Placed, pool_shutdown_await \/ Spurious \/ UNCHANGED vars
    PROVE  Placed'
<1>1. UNCHANGED <<queue, submitter, worker, result, runs>>
  BY DEF pool_shutdown_await, SetShutdown, CloseQueue, JoinWorkers, Spurious,
         vars, queueVars, tq_close
<1> QED
  BY <1>1, SamePlaces DEF Holding

-----------------------------------------------------------------------------
(* The bound of the queue and the order of its end                         *)

\* What a step may do to the queue: one task is added while it is open and has
\* room, or it does not grow.
QueueStep ==
    \/ /\ ~ closed /\ UNCHANGED <<closed, worker, main>>
       /\ Len(queue') = Len(queue) + 1 /\ (capacity > 0 => Len(queue) < capacity)
    \/ /\ Len(queue') <= Len(queue)
       /\ queue = << >> => queue' = << >>

\* Every step does one of the two.
LEMMA QueueSteps ==
    ASSUME TypeOK, Placed, [Next]_vars
    PROVE  QueueStep
<1>1. ASSUME NEW s \in Submitters, Put(s) PROVE QueueStep
  <2>1. CASE tq_put(s)
    <3>1. submitter[s].task \in Tasks
      BY <2>1 DEF tq_put, Placed
    <3>2. Len(queue') = Len(queue) + 1 /\ Len(queue) \in Nat
      BY <2>1, <3>1 DEF tq_put, TypeOK
    <3>3. capacity > 0 => Len(queue) < capacity
      BY <2>1, <3>2, PoolConstants DEF tq_put, IsFull
    <3> QED
      BY <1>1, <2>1, <3>2, <3>3 DEF tq_put, Put, QueueStep
  <2>2. CASE tq_put_waits(s) \/ tq_put_refuses(s)
    BY <2>2 DEF tq_put_waits, tq_put_refuses, queueVars, TypeOK, QueueStep
  <2> QED
    BY <1>1, <2>1, <2>2 DEF Put
<1>2. ASSUME NEW w \in Workers, tq_take(w) PROVE QueueStep
  <2>1. Len(queue') = Len(queue) - 1 /\ Len(queue) \in Nat /\ queue # << >>
    BY <1>2 DEF tq_take, TypeOK
  <2> QED
    BY <2>1 DEF QueueStep
<1>3. CASE UNCHANGED queue
  BY <1>3 DEF TypeOK, QueueStep
<1> QED
  BY <1>1, <1>2, <1>3
  DEF Next, Submit, pool_submit, CountRejection, worker_loop, tq_take_waits, tq_take_ends,
      StartWorker, BeginTask, RunTask, CountTask, Leave, pool_shutdown_await, SetShutdown,
      CloseQueue, tq_close, JoinWorkers, Spurious, Terminated, vars, queueVars

\* The queue keeps to its capacity.
LEMMA BoundedStep ==
    ASSUME TypeOK, Placed, QueueBounded, [Next]_vars
    PROVE  QueueBounded'
<1>1. Len(queue) \in Nat /\ capacity \in Int
  BY PoolConstants DEF TypeOK
<1> QED
  BY <1>1, QueueSteps DEF QueueStep, QueueBounded

\* No worker leaves before the queue is closed and empty.
LEMMA ClosingStep ==
    ASSUME TypeOK, Placed, Closing, [Next]_vars
    PROVE  Closing'
<1>1. CASE \E s \in Submitters : Submit(s) \/ \E t \in Tasks : pool_submit(s, t)
  <2>1. UNCHANGED <<worker, main, closed>>
    BY <1>1 DEF Submit, Put, CountRejection, pool_submit, tq_put, tq_put_waits, tq_put_refuses,
                queueVars
  <2> QED
    BY <2>1, QueueSteps DEF Closing, QueueStep
<1>2. ASSUME NEW w \in Workers, worker_loop(w)
      PROVE  Closing'
  <2>1. main' = main /\ closed' = closed
    BY <1>2 DEF worker_loop, tq_take, tq_take_waits, tq_take_ends, queueVars
  <2>2. queue = << >> => queue' = << >>
    BY <1>2 DEF worker_loop, tq_take, tq_take_waits, tq_take_ends, queueVars
  <2>3. \A v \in Workers : v # w => worker'[v] = worker[v]
    BY <1>2 DEF worker_loop, tq_take, tq_take_waits, tq_take_ends, StartWorker, BeginTask,
                RunTask, CountTask, Leave, Goto, TypeOK
  <2>4. worker'[w].pc \in {"leave", "gone"} => closed /\ queue = << >>
    <3>1. CASE tq_take(w) \/ StartWorker(w) \/ BeginTask(w) \/ RunTask(w) \/ CountTask(w)
      <4>1. worker'[w].pc \in {"begin", "take", "run", "count"}
        BY <3>1 DEF tq_take, StartWorker, BeginTask, RunTask, CountTask, Goto, At, TypeOK
      <4> QED
        BY <4>1
    <3>2. CASE tq_take_waits(w)
      BY <3>2 DEF tq_take_waits, Closing
    <3>3. CASE tq_take_ends(w)
      BY <3>3 DEF tq_take_ends
    <3>4. CASE Leave(w)
      BY <3>4 DEF Leave, Closing
    <3> QED
      BY <1>2, <3>1, <3>2, <3>3, <3>4 DEF worker_loop
  <2>5. main # "done"
    <3>1. worker[w].pc # "gone"
      BY <1>2 DEF worker_loop, tq_take, tq_take_waits, tq_take_ends, StartWorker, BeginTask,
                  RunTask, CountTask, Leave
    <3> QED
      BY <3>1 DEF Closing
  <2> QED
    BY <2>1, <2>2, <2>3, <2>4, <2>5 DEF Closing
<1>3. CASE pool_shutdown_await
  BY <1>3 DEF pool_shutdown_await, SetShutdown, CloseQueue, tq_close, JoinWorkers, Closing,
              queueVars
<1>4. CASE Spurious \/ UNCHANGED vars
  BY <1>4 DEF Spurious, vars, queueVars, Closing
<1> QED
  BY <1>1, <1>2, <1>3, <1>4 DEF Next, Terminated

-----------------------------------------------------------------------------
(* The theorems                                                            *)

\* Before anything is submitted nothing is placed and nothing is closed.
LEMMA InitInv == Init => IInv
<1> SUFFICES ASSUME Init PROVE IInv
  OBVIOUS
<1>1. TypeOK /\ Counted
  BY InitTypes
<1>2. /\ queue = << >> /\ Len(queue) = 0 /\ closed = FALSE /\ main = "running"
      /\ \A w \in Workers : worker[w].pc = "start"
      /\ \A s \in Submitters : submitter[s].pc = "idle"
      /\ \A t \in Tasks : result[t] = "none" /\ runs[t] = 0
  BY DEF Init, At
<1>3. QueueBounded
  BY <1>2, PoolConstants DEF QueueBounded
<1>4. Placed
  BY <1>2 DEF Placed, Holding
<1>5. Closing
  BY <1>2 DEF Closing
<1> QED
  BY <1>1, <1>3, <1>4, <1>5 DEF IInv

\* Every step keeps the inductive invariant.
LEMMA NextInv == IInv /\ [Next]_vars => IInv'
<1> SUFFICES ASSUME TypeOK, Counted, QueueBounded, Placed, Closing, [Next]_vars
             PROVE  IInv'
  BY DEF IInv
<1>1. QueueBounded' /\ Closing'
  BY BoundedStep, ClosingStep
<1>2. TypeOK' /\ Counted' /\ Placed'
  <2>1. ASSUME NEW s \in Submitters, Submit(s) \/ \E t \in Tasks : pool_submit(s, t)
        PROVE  TypeOK' /\ Counted' /\ Placed'
    BY <2>1, SubmitTypes, SubmitPlaces, RejectPlaces, PutPlaces DEF Submit
  <2>2. ASSUME NEW w \in Workers, worker_loop(w)
        PROVE  TypeOK' /\ Counted' /\ Placed'
    BY <2>2, WorkerTypes, WorkerPlaces
  <2>3. CASE pool_shutdown_await \/ Spurious \/ UNCHANGED vars
    BY <2>3, OtherTypes, OtherPlaces
  <2> QED
    BY <2>1, <2>2, <2>3 DEF Next, Terminated
<1> QED
  BY <1>1, <1>2 DEF IInv

\* The inductive invariant holds in every state the pool can be in.
LEMMA Inductive == Spec => []IInv
  BY InitInv, NextInv, PTL DEF Spec

\* Every variable keeps its type; a counter never drops below zero.
THEOREM TypeCorrect == Spec => []TypeOK
<1>1. IInv => TypeOK
  BY DEF IInv
<1> QED
  BY <1>1, Inductive, PTL

\* tq_put never takes the queue over its capacity (executor_service.c:75-99).
THEOREM QueueKeepsToCapacity == Spec => []QueueBounded
<1>1. IInv => QueueBounded
  BY DEF IInv
<1> QED
  BY <1>1, Inductive, PTL

\* A task that was accepted is queued once, held by one worker or has run once,
\* and no other task is anywhere.
THEOREM OnePlace == Spec => []TaskIsInOnePlace
<1>1. ASSUME IInv PROVE TaskIsInOnePlace
  <2> USE <1>1 DEF IInv
  <2>0. DOMAIN queue = 1 .. Len(queue)
    BY DEF TypeOK
  <2>1. \A i, j \in DOMAIN queue : queue[i] = queue[j] => i = j
    BY <2>0 DEF Placed
  <2>2. ASSUME NEW t \in Tasks
        PROVE  Cardinality(HeldBy(t)) + runs[t] + (IF Queued(t) THEN 1 ELSE 0)
                  = IF result[t] = "accepted" THEN 1 ELSE 0
    <3>1. runs[t] \in {0, 1} /\ (runs[t] = 1 => result[t] = "accepted")
      BY DEF Placed
    <3>2. Queued(t) => result[t] = "accepted" /\ runs[t] = 0
      BY <2>0 DEF Placed, Queued
    <3>3. CASE \E w \in Workers : Holding(w) /\ worker[w].task = t
      <4>1. PICK w \in Workers : Holding(w) /\ worker[w].task = t
        BY <3>3
      <4>2. HeldBy(t) = {w}
        BY <4>1 DEF Placed, HeldBy, Holding
      <4>3. Cardinality(HeldBy(t)) = 1
        BY <4>2, FS_Singleton
      <4>4. result[t] = "accepted" /\ runs[t] = 0 /\ ~ Queued(t)
        BY <2>0, <4>1 DEF Placed, Queued
      <4> QED
        BY <4>3, <4>4
    <3>4. CASE ~ \E w \in Workers : Holding(w) /\ worker[w].task = t
      <4>1. Cardinality(HeldBy(t)) = 0
        <5>1. HeldBy(t) = {}
          BY <3>4 DEF HeldBy, Holding
        <5> QED
          BY <5>1, FS_EmptySet
      <4>2. result[t] = "accepted" => runs[t] = 1 \/ Queued(t)
        BY <2>0, <3>4 DEF Placed, Queued
      <4> QED
        BY <3>1, <3>2, <4>1, <4>2
    <3> QED
      BY <3>3, <3>4
  <2> QED
    BY <2>1, <2>2 DEF TaskIsInOnePlace
<1> QED
  BY <1>1, Inductive, PTL

\* When pool_shutdown_await returns every accepted task has run, whoever raced
\* with it, and the counters agree (executor_service.c:241-255).
THEOREM Drained == Spec => []ShutdownDrains
<1>1. ASSUME IInv, main = "done"
      PROVE  /\ \A t \in Tasks : result[t] = "accepted" => runs[t] = 1
             /\ tasks_completed = Cardinality({t \in Tasks : result[t] = "accepted"})
             /\ active_threads = 0 /\ total_threads = 0
  <2> USE <1>1 DEF IInv
  <2>1. \A w \in Workers : worker[w].pc = "gone"
    BY DEF Closing
  <2>2. queue = << >> /\ Len(queue) = 0
    BY <2>1, PoolConstants DEF Closing
  <2>3. \A t \in Tasks : result[t] = "accepted" => runs[t] = 1
    BY <2>1, <2>2 DEF Placed, Holding
  <2>4. {t \in Tasks : result[t] = "accepted"} = Done
    BY <2>3 DEF Placed, Done
  <2>5. InPc({"run"}) = {} /\ InPc(Alive) = {} /\ InPc({"count"}) = {}
    BY <2>1 DEF InPc, Alive
  <2>6. /\ Cardinality(InPc({"run"})) = 0 /\ Cardinality(InPc(Alive)) = 0
        /\ Cardinality(InPc({"count"})) = 0
    BY <2>5, FS_EmptySet
  <2>7. active_threads = 0 /\ total_threads = 0
    BY <2>6 DEF Counted
  <2>8. tasks_completed = Cardinality(Done)
    BY <2>6 DEF Counted, TypeOK
  <2> QED
    BY <2>3, <2>4, <2>7, <2>8
<1>2. IInv => ShutdownDrains
  BY <1>1 DEF ShutdownDrains
<1> QED
  BY <1>2, Inductive, PTL

-----------------------------------------------------------------------------
(* The pool implements TaskExecutor                                        *)

fate == [t \in Tasks |-> IF runs[t] > 0 THEN "executed"
                         ELSE IF result[t] \in {"accepted", "rejected"} THEN result[t]
                         ELSE "new"]

\* A step that changes the fate of no task and neither opens nor closes.
LEMMA Stutters ==
    ASSUME \A t \in Tasks : fate'[t] = fate[t], UNCHANGED closed
    PROVE  UNCHANGED TE!executorVars
<1>1. fate' = fate
  BY DEF fate
<1> QED
  BY <1>1 DEF TE!executorVars, fate

\* What the fate of a task is.
LEMMA FateOf ==
    ASSUME NEW t \in Tasks
    PROVE  /\ fate[t] = IF runs[t] > 0 THEN "executed"
                        ELSE IF result[t] \in {"accepted", "rejected"} THEN result[t] ELSE "new"
           /\ fate'[t] = IF runs'[t] > 0 THEN "executed"
                        ELSE IF result'[t] \in {"accepted", "rejected"} THEN result'[t] ELSE "new"
  BY DEF fate

\* A step that gives one task a fate.
LEMMA FateStep ==
    ASSUME NEW k \in Tasks, NEW f, fate'[k] = f, \A t \in Tasks \ {k} : fate'[t] = fate[t]
    PROVE  fate' = [fate EXCEPT ![k] = f]
  BY DEF fate

\* Steps of the submitters.
LEMMA SubmitImplements ==
    ASSUME IInv, NEW s \in Submitters, Submit(s) \/ \E t \in Tasks : pool_submit(s, t)
    PROVE  [TE!ExecutorNext]_TE!executorVars
<1> USE DEF IInv
<1>1. CASE \E t \in Tasks : pool_submit(s, t)
  <2>1. PICK t \in Tasks : pool_submit(s, t)
    BY <1>1
  <2>2. \A u \in Tasks : runs'[u] = runs[u]
                         /\ (result'[u] = result[u] \/ (result[u] = "none" /\ result'[u] = "pending"))
    BY <2>1 DEF pool_submit, TypeOK
  <2>3. \A u \in Tasks : fate'[u] = fate[u]
    BY <2>2, FateOf
  <2> QED
    BY <2>1, <2>3, Stutters DEF pool_submit, queueVars
<1>2. CASE CountRejection(s)
  <2>1. PICK k \in Tasks : k = submitter[s].task /\ result[k] = "pending"
    BY <1>2 DEF CountRejection, Placed
  <2>2. runs[k] = 0
    BY <2>1 DEF Placed
  <2>3. /\ \A u \in Tasks : runs'[u] = runs[u]
        /\ \A u \in Tasks : result'[u] = IF u = k THEN "rejected" ELSE result[u]
        /\ closed' = closed
    BY <1>2, <2>1 DEF CountRejection, TypeOK, queueVars
  <2>4. fate[k] = "new" /\ fate'[k] = "rejected" /\ \A u \in Tasks \ {k} : fate'[u] = fate[u]
    BY <2>1, <2>2, <2>3, FateOf
  <2>5. fate' = [fate EXCEPT ![k] = "rejected"]
    BY <2>1, <2>4, FateStep
  <2>6. TE!Reject(k)
    BY <2>3, <2>4, <2>5 DEF TE!Reject, fate
  <2> QED
    BY <2>1, <2>6 DEF TE!ExecutorNext
<1>3. CASE tq_put(s) /\ UNCHANGED runs
  <2>1. PICK k \in Tasks : k = submitter[s].task /\ result[k] = "pending"
    BY <1>3 DEF tq_put, Placed
  <2>2. runs[k] = 0
    BY <2>1 DEF Placed
  <2>3. /\ \A u \in Tasks : runs'[u] = runs[u]
        /\ \A u \in Tasks : result'[u] = IF u = k THEN "accepted" ELSE result[u]
        /\ closed' = closed /\ closed = FALSE
    BY <1>3, <2>1 DEF tq_put, TypeOK
  <2>4. fate[k] = "new" /\ fate'[k] = "accepted" /\ \A u \in Tasks \ {k} : fate'[u] = fate[u]
    BY <2>1, <2>2, <2>3, FateOf
  <2>5. fate' = [fate EXCEPT ![k] = "accepted"]
    BY <2>1, <2>4, FateStep
  <2>6. TE!Accept(k)
    BY <2>3, <2>4, <2>5 DEF TE!Accept, fate
  <2> QED
    BY <2>1, <2>6 DEF TE!ExecutorNext
<1>4. CASE Put(s) /\ ~ tq_put(s)
  <2>1. UNCHANGED <<result, runs, closed>>
    BY <1>4 DEF Put, tq_put_waits, tq_put_refuses, queueVars
  <2> QED
    BY <2>1, Stutters, FateOf
<1> QED
  BY <1>1, <1>2, <1>3, <1>4 DEF Submit, Put

\* Steps of the workers.
LEMMA WorkerImplements ==
    ASSUME IInv, NEW w \in Workers, worker_loop(w)
    PROVE  [TE!ExecutorNext]_TE!executorVars
<1> USE DEF IInv
<1>0. UNCHANGED <<closed, result>>
  BY DEF worker_loop, tq_take, tq_take_waits, tq_take_ends, queueVars
<1>1. CASE RunTask(w)
  <2>1. PICK k \in Tasks : k = worker[w].task /\ result[k] = "accepted" /\ runs[k] = 0
    BY <1>1 DEF RunTask, Placed, Holding
  <2>2. \A t \in Tasks : runs'[t] = IF t = k THEN 1 ELSE runs[t]
    BY <1>1, <2>1 DEF RunTask, TypeOK
  <2>3. fate[k] = "accepted" /\ fate'[k] = "executed" /\ \A u \in Tasks \ {k} : fate'[u] = fate[u]
    BY <1>0, <2>1, <2>2, FateOf
  <2>4. fate' = [fate EXCEPT ![k] = "executed"]
    BY <2>1, <2>3, FateStep
  <2>5. TE!Execute(k)
    BY <1>0, <2>3, <2>4 DEF TE!Execute, fate
  <2> QED
    BY <2>1, <2>5 DEF TE!ExecutorNext
<1>2. CASE ~ RunTask(w)
  <2>1. UNCHANGED runs
    BY <1>2 DEF worker_loop, StartWorker, BeginTask, CountTask, Leave
  <2> QED
    BY <1>0, <2>1, Stutters, FateOf
<1> QED
  BY <1>1, <1>2

\* Steps of the thread that shuts the pool down, wake-ups and stuttering.
LEMMA OtherImplements ==
    ASSUME pool_shutdown_await \/ Spurious \/ UNCHANGED vars
    PROVE  [TE!ExecutorNext]_TE!executorVars
<1>1. UNCHANGED <<result, runs>>
  BY DEF pool_shutdown_await, SetShutdown, CloseQueue, JoinWorkers, Spurious, vars
<1>2. CASE CloseQueue
  <2>1. closed' = TRUE
    BY <1>2 DEF CloseQueue, tq_close
  <2> QED
    BY <1>1, <2>1 DEF TE!ExecutorNext, TE!Shut
<1>3. CASE ~ CloseQueue
  <2>1. UNCHANGED closed
    BY <1>3 DEF pool_shutdown_await, SetShutdown, JoinWorkers, Spurious, vars, queueVars
  <2> QED
    BY <1>1, <2>1, Stutters, FateOf
<1> QED
  BY <1>2, <1>3

\* The pool is a TaskExecutor: each of its steps accepts, rejects or executes a
\* task that may be, or closes, or changes nothing an executor's user sees.  An
\* accepted task is never rejected, lost or executed twice.
THEOREM Refinement == Spec => TE!ExecutorInit /\ [][TE!ExecutorNext]_TE!executorVars
<1>1. Init => TE!ExecutorInit
  BY DEF Init, TE!ExecutorInit
<1>2. IInv /\ [Next]_vars => [TE!ExecutorNext]_TE!executorVars
  BY SubmitImplements, WorkerImplements, OtherImplements DEF Next, Terminated
<1> QED
  BY <1>1, <1>2, Inductive, PTL DEF Spec
=============================================================================
