------------------------------ MODULE MCServices ------------------------------
(***************************************************************************)
(* The parts whose threads wait for one another, checked in one run for    *)
(* what must happen in the end as well as for what must not.  They share   *)
(* nothing: a behaviour is one of program, and the variables of the others *)
(* keep their first values.  No names are interchangeable here, for TLC's  *)
(* symmetry does not go with liveness.                                     *)
(***************************************************************************)
EXTENDS Synchronizers, SelectServer, DeadlockDetector

VARIABLE program

serviceVars == <<latchVars, bqVars, asyncVars, selVars, gateVars, graphVars, program>>

Init ==
    /\ LatchInit /\ BqInit /\ AsyncInit /\ SelInit /\ GateInit /\ GraphInit
    /\ program \in {"latch", "queue", "async", "server", "gate", "deadlock"}
    /\ program # "deadlock" => policy = "YOUNGEST"

Next ==
    /\ \/ /\ program = "latch" /\ LatchNext
          /\ UNCHANGED <<bqVars, asyncVars, selVars, gateVars, graphVars>>
       \/ /\ program = "queue" /\ BqNext
          /\ UNCHANGED <<latchVars, asyncVars, selVars, gateVars, graphVars>>
       \/ /\ program = "async" /\ AsyncNext
          /\ UNCHANGED <<latchVars, bqVars, selVars, gateVars, graphVars>>
       \/ /\ program = "server" /\ SelNext
          /\ UNCHANGED <<latchVars, bqVars, asyncVars, gateVars, graphVars>>
       \/ /\ program = "gate" /\ GateNext
          /\ UNCHANGED <<latchVars, bqVars, asyncVars, selVars, graphVars>>
       \/ /\ program = "deadlock" /\ GraphNext
          /\ UNCHANGED <<latchVars, bqVars, asyncVars, selVars, gateVars>>
    /\ UNCHANGED program

\* A's turn, if it is a step of the program that runs.
Run(p, A) == program = p /\ A

\* The operating system runs every thread that is not asleep.  Browsers may stop
\* at any point, and whoever detects a deadlock calls the resolver again
\* (database phase 6, README.md, "Deadlock Detection").
Fairness ==
    /\ \A s \in Services : WF_latchVars(Run("latch", start_service(s)))
    /\ \A w \in Waiters : WF_latchVars(Run("latch", latch_await(w)))
    /\ \A p \in Producers : WF_bqVars(Run("queue", bq_put(p)))
    /\ \A c \in Consumers : WF_bqVars(Run("queue", bq_take(c)))
    /\ WF_bqVars(Run("queue", bq_close))
    /\ \A r \in Requests : WF_asyncVars(Run("async", async_submit(r)))
    /\ \A w \in Workers : WF_asyncVars(Run("async", async_worker(w) \/ async_send_email(w)))
    /\ WF_asyncVars(Run("async", async_pool_shutdown \/ async_pool_destroy))
    /\ WF_selVars(Run("server", EventLoop))
    /\ \A t \in RequestThreads : WF_gateVars(Run("gate", db_worker(t)))
    /\ WF_graphVars(Run("deadlock", resolve))

Spec == Init /\ [][Next]_serviceVars /\ Fairness
=============================================================================
