------------------------------ MODULE ThreadPool ------------------------------
(***************************************************************************)
(* The thread pool of Platform/MemoryManagement/phase7_thread_pools        *)
(* (executor_service.c): core_size workers that take tasks from a bounded  *)
(* blocking queue, threads that submit tasks, and the thread that shuts    *)
(* the pool down and waits for the workers.                                *)
(*                                                                         *)
(* A step of a thread is one critical section of the queue's mutex, from   *)
(* the lock or the wake-up to the unlock or the wait, or one operation on  *)
(* an atomic counter.  Conditions wake a waiter of the signalled kind and, *)
(* as POSIX allows, may wake one for no reason.                            *)
(***************************************************************************)
EXTENDS Integers, Sequences, FiniteSets

CONSTANTS
    Workers,     \* workers[0 .. core_size - 1]
    Submitters,
    Tasks,
    NoTask,
    capacity     \* of the queue; 0 or less is unbounded

ASSUME PoolConstants ==
    /\ IsFiniteSet(Workers) /\ Workers # {}
    /\ IsFiniteSet(Tasks)
    /\ NoTask \notin Tasks
    /\ capacity \in Int

VARIABLES
    queue, closed,        \* TaskQueue
    not_empty, not_full,  \* threads asleep on its conditions
    shutdown,             \* atomic flag of the pool
    active_threads, total_threads, tasks_completed, tasks_rejected,
    worker,               \* where each worker is, and its task
    submitter,            \* where each submitter is, and its task
    main,                 \* where pool_shutdown_await is
    result,               \* what pool_submit returned for a task
    runs                  \* how often a task's function was called

queueVars == <<queue, closed, not_empty, not_full>>
counters == <<active_threads, total_threads, tasks_completed, tasks_rejected>>
vars == <<queueVars, shutdown, counters, worker, submitter, main, result, runs>>

At(pc, t) == [pc |-> pc, task |-> t]

WorkerPcs == {"start", "take", "begin", "run", "count", "leave", "gone"}

SubmitterPcs == {"idle", "put", "reject"}

TypeOK ==
    /\ queue \in Seq(Tasks)
    /\ closed \in BOOLEAN
    /\ not_empty \subseteq Workers
    /\ not_full \subseteq Submitters
    /\ shutdown \in BOOLEAN
    /\ active_threads \in Nat /\ total_threads \in Nat
    /\ tasks_completed \in Nat /\ tasks_rejected \in Nat
    /\ worker \in [Workers -> [pc : WorkerPcs, task : Tasks \cup {NoTask}]]
    /\ submitter \in [Submitters -> [pc : SubmitterPcs, task : Tasks \cup {NoTask}]]
    /\ main \in {"running", "close", "join", "done"}
    /\ result \in [Tasks -> {"none", "pending", "accepted", "rejected"}]
    /\ runs \in [Tasks -> Nat]

\* pool_create: the queue is empty, the workers are created and may start.
Init ==
    /\ queue = << >> /\ closed = FALSE
    /\ not_empty = {} /\ not_full = {}
    /\ shutdown = FALSE
    /\ active_threads = 0 /\ total_threads = 0
    /\ tasks_completed = 0 /\ tasks_rejected = 0
    /\ worker = [w \in Workers |-> At("start", NoTask)]
    /\ submitter = [s \in Submitters |-> At("idle", NoTask)]
    /\ main = "running"
    /\ result = [t \in Tasks |-> "none"]
    /\ runs = [t \in Tasks |-> 0]

-----------------------------------------------------------------------------
(* TaskQueue                                                               *)

\* pthread_cond_signal: one of the waiters goes on, if there is one.
Signal(waiting) == IF waiting = {} THEN {{}} ELSE {waiting \ {x} : x \in waiting}

IsFull == capacity > 0 /\ Len(queue) >= capacity

tq_put_closed(s) ==
    /\ submitter[s].pc = "put" /\ s \notin not_full
    /\ ~ IsFull
    /\ queue' = Append(queue, submitter[s].task)
    /\ not_empty' \in Signal(not_empty)
    /\ submitter' = [submitter EXCEPT ![s] = At("idle", NoTask)]
    /\ result' = [result EXCEPT ![submitter[s].task] = "accepted"]
    /\ UNCHANGED <<closed, not_full>>

\* The task is queued and a worker is woken.
tq_put(s) ==
    /\ submitter[s].pc = "put" /\ s \notin not_full
    /\ ~ IsFull /\ ~ closed
    /\ queue' = Append(queue, submitter[s].task)
    /\ not_empty' \in Signal(not_empty)
    /\ submitter' = [submitter EXCEPT ![s] = At("idle", NoTask)]
    /\ result' = [result EXCEPT ![submitter[s].task] = "accepted"]
    /\ UNCHANGED <<closed, not_full>>

\* The queue is full: the submitter sleeps.
tq_put_waits(s) ==
    /\ submitter[s].pc = "put" /\ s \notin not_full
    /\ IsFull /\ ~ closed
    /\ not_full' = not_full \cup {s}
    /\ UNCHANGED <<queue, closed, not_empty, submitter, result>>

\* The queue was closed: tq_put returns 0.
tq_put_refuses(s) ==
    /\ submitter[s].pc = "put" /\ s \notin not_full
    /\ closed
    /\ submitter' = [submitter EXCEPT ![s].pc = "reject"]
    /\ UNCHANGED <<queueVars, result>>

Goto(w, pc, t) == worker' = [worker EXCEPT ![w] = At(pc, t)]

tq_take_keepsHead(w) ==
    /\ worker[w].pc = "take" /\ w \notin not_empty
    /\ queue # << >>
    /\ not_full' \in Signal(not_full)
    /\ Goto(w, "begin", Head(queue))
    /\ UNCHANGED <<queue, closed, not_empty>>

\* The next task is taken and a submitter is woken.
tq_take(w) ==
    /\ worker[w].pc = "take" /\ w \notin not_empty
    /\ queue # << >>
    /\ queue' = Tail(queue)
    /\ not_full' \in Signal(not_full)
    /\ Goto(w, "begin", Head(queue))
    /\ UNCHANGED <<closed, not_empty>>

\* The queue is empty and open: the worker sleeps.
tq_take_waits(w) ==
    /\ worker[w].pc = "take" /\ w \notin not_empty
    /\ queue = << >> /\ ~ closed
    /\ not_empty' = not_empty \cup {w}
    /\ UNCHANGED <<queue, closed, not_full, worker>>

tq_take_ends_early(w) ==
    /\ worker[w].pc = "take" /\ w \notin not_empty
    /\ closed
    /\ Goto(w, "leave", NoTask)
    /\ UNCHANGED queueVars

\* The queue is empty and closed: tq_take returns NULL.
tq_take_ends(w) ==
    /\ worker[w].pc = "take" /\ w \notin not_empty
    /\ queue = << >> /\ closed
    /\ Goto(w, "leave", NoTask)
    /\ UNCHANGED queueVars

tq_close_wakesOne ==
    /\ closed' = TRUE
    /\ not_empty' \in Signal(not_empty) /\ not_full' = {}
    /\ UNCHANGED queue

tq_close ==
    /\ closed' = TRUE
    /\ not_empty' = {} /\ not_full' = {}
    /\ UNCHANGED queue

Spurious ==
    /\ \/ \E w \in not_empty : not_empty' = not_empty \ {w} /\ UNCHANGED not_full
       \/ \E s \in not_full : not_full' = not_full \ {s} /\ UNCHANGED not_empty
    /\ UNCHANGED <<queue, closed, shutdown, counters, worker, submitter, main, result, runs>>

-----------------------------------------------------------------------------
(* The pool                                                                *)

\* pool_submit looks at the shutdown flag first.
pool_submit(s, t) ==
    /\ submitter[s].pc = "idle" /\ result[t] = "none"
    /\ submitter' = [submitter EXCEPT ![s] = At(IF shutdown THEN "reject" ELSE "put", t)]
    /\ result' = [result EXCEPT ![t] = "pending"]
    /\ UNCHANGED <<queueVars, shutdown, counters, worker, main, runs>>

Put(s) ==
    /\ tq_put(s) \/ tq_put_waits(s) \/ tq_put_refuses(s)
    /\ UNCHANGED <<shutdown, counters, worker, main, runs>>

\* Both ways to be rejected count the rejection and return 0.
CountRejection(s) ==
    /\ submitter[s].pc = "reject"
    /\ tasks_rejected' = tasks_rejected + 1
    /\ result' = [result EXCEPT ![submitter[s].task] = "rejected"]
    /\ submitter' = [submitter EXCEPT ![s] = At("idle", NoTask)]
    /\ UNCHANGED <<queueVars, shutdown, active_threads, total_threads, tasks_completed,
                   worker, main, runs>>

\* worker_loop, one step per atomic operation; the task's function is called
\* between the two steps on active_threads.
StartWorker(w) ==
    /\ worker[w].pc = "start"
    /\ total_threads' = total_threads + 1
    /\ Goto(w, "take", NoTask)
    /\ UNCHANGED <<active_threads, tasks_completed, runs>>

BeginTask(w) ==
    /\ worker[w].pc = "begin"
    /\ active_threads' = active_threads + 1
    /\ Goto(w, "run", worker[w].task)
    /\ UNCHANGED <<total_threads, tasks_completed, runs>>

RunTask(w) ==
    /\ worker[w].pc = "run"
    /\ runs' = [runs EXCEPT ![worker[w].task] = @ + 1]
    /\ active_threads' = active_threads - 1
    /\ Goto(w, "count", worker[w].task)
    /\ UNCHANGED <<total_threads, tasks_completed>>

CountTask(w) ==
    /\ worker[w].pc = "count"
    /\ tasks_completed' = tasks_completed + 1
    /\ Goto(w, "take", NoTask)
    /\ UNCHANGED <<active_threads, total_threads, runs>>

Leave(w) ==
    /\ worker[w].pc = "leave"
    /\ total_threads' = total_threads - 1
    /\ Goto(w, "gone", NoTask)
    /\ UNCHANGED <<active_threads, tasks_completed, runs>>

worker_loop(w) ==
    \/ /\ tq_take(w) \/ tq_take_waits(w) \/ tq_take_ends(w)
       /\ UNCHANGED <<shutdown, counters, submitter, main, result, runs>>
    \/ /\ StartWorker(w) \/ BeginTask(w) \/ RunTask(w) \/ CountTask(w) \/ Leave(w)
       /\ UNCHANGED <<queueVars, shutdown, tasks_rejected, submitter, main, result>>

\* pool_shutdown_await: the flag, the queue, the workers.
SetShutdown ==
    /\ main = "running"
    /\ shutdown' = TRUE
    /\ main' = "close"
    /\ UNCHANGED <<queueVars, counters, worker, submitter, result, runs>>

CloseQueue ==
    /\ main = "close"
    /\ tq_close
    /\ main' = "join"
    /\ UNCHANGED <<shutdown, counters, worker, submitter, result, runs>>

JoinWorkers ==
    /\ main = "join"
    /\ \A w \in Workers : worker[w].pc = "gone"
    /\ main' = "done"
    /\ UNCHANGED <<queueVars, shutdown, counters, worker, submitter, result, runs>>

pool_shutdown_await == SetShutdown \/ CloseQueue \/ JoinWorkers

\* Nothing is left to do: the pool was shut down and every task handed in.
Terminated ==
    /\ main = "done" /\ \A t \in Tasks : result[t] \in {"accepted", "rejected"}
    /\ UNCHANGED vars

Submit(s) == Put(s) \/ CountRejection(s)

Next ==
    \/ \E s \in Submitters : Submit(s) \/ \E t \in Tasks : pool_submit(s, t)
    \/ \E w \in Workers : worker_loop(w)
    \/ pool_shutdown_await
    \/ Spurious
    \/ Terminated

Spec == Init /\ [][Next]_vars

\* A thread that can go on does: the operating system runs every runnable thread,
\* a mutex is not withheld from one thread for ever, and tasks return.  Nobody
\* has to submit a task or to call shutdown, and nothing wakes for no reason.
FairSpec ==
    /\ Spec
    /\ \A w \in Workers : WF_vars(worker_loop(w))
    /\ \A s \in Submitters : WF_vars(Submit(s))
    /\ WF_vars(CloseQueue \/ JoinWorkers)
-----------------------------------------------------------------------------
(* Properties                                                              *)

Queued(t) == \E i \in DOMAIN queue : queue[i] = t

HeldBy(t) == {w \in Workers : worker[w].pc \in {"begin", "run"} /\ worker[w].task = t}

\* A task is in at most one place: queued once, held by one worker, or run once;
\* and it is somewhere exactly if its submitter was told it was accepted.
TaskIsInOnePlace ==
    /\ \A i, j \in DOMAIN queue : queue[i] = queue[j] => i = j
    /\ \A t \in Tasks :
          /\ Cardinality(HeldBy(t)) + runs[t] + (IF Queued(t) THEN 1 ELSE 0)
                = IF result[t] = "accepted" THEN 1 ELSE 0

\* The queue never holds more than its capacity, whoever is woken when.
QueueBounded == capacity > 0 => Len(queue) <= capacity

\* Once pool_shutdown_await returns every accepted task has run and the counters
\* say so, although submitters may have raced with the shutdown.
ShutdownDrains ==
    main = "done" =>
        /\ \A t \in Tasks : result[t] = "accepted" => runs[t] = 1
        /\ tasks_completed = Cardinality({t \in Tasks : result[t] = "accepted"})
        /\ active_threads = 0 /\ total_threads = 0

\* A submitter that waits for room is answered, by a slot or by the shutdown, and
\* pool_shutdown_await returns: nobody sleeps through the close.
EveryCallReturns ==
    /\ \A t \in Tasks : result[t] = "pending" ~> result[t] \in {"accepted", "rejected"}
    /\ main # "running" ~> main = "done"

TE == INSTANCE TaskExecutor
      WITH open <- ~ closed,
           fate <- [t \in Tasks |->
                      IF runs[t] > 0 THEN "executed"
                      ELSE IF result[t] \in {"accepted", "rejected"} THEN result[t]
                      ELSE "new"]

\* The pool is an executor: an accepted task is executed exactly once, whatever
\* the interleaving with other submitters, the workers and the shutdown.
ImplementsExecutor == TE!ExecutorSpec
=============================================================================
