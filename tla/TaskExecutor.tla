----------------------------- MODULE TaskExecutor -----------------------------
(***************************************************************************)
(* What an executor promises the threads that hand it tasks: a task is     *)
(* accepted or rejected, once; an accepted task is executed, once, also    *)
(* when the executor is shut down; after shutdown no task is accepted.     *)
(***************************************************************************)
CONSTANT Tasks

VARIABLES
    fate,  \* of each task
    open   \* whether tasks are still accepted

executorVars == <<fate, open>>

ExecutorInit ==
    /\ fate = [t \in Tasks |-> "new"]
    /\ open = TRUE

Accept(t) ==
    /\ open /\ fate[t] = "new"
    /\ fate' = [fate EXCEPT ![t] = "accepted"]
    /\ UNCHANGED open

Reject(t) ==
    /\ fate[t] = "new"
    /\ fate' = [fate EXCEPT ![t] = "rejected"]
    /\ UNCHANGED open

Execute(t) ==
    /\ fate[t] = "accepted"
    /\ fate' = [fate EXCEPT ![t] = "executed"]
    /\ UNCHANGED open

Shut ==
    /\ open' = FALSE
    /\ UNCHANGED fate

ExecutorNext ==
    \/ \E t \in Tasks : Accept(t) \/ Reject(t) \/ Execute(t)
    \/ Shut

ExecutorSpec ==
    /\ ExecutorInit /\ [][ExecutorNext]_executorVars
    /\ \A t \in Tasks : WF_executorVars(Execute(t))
=============================================================================
