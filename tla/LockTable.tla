------------------------------ MODULE LockTable ------------------------------
(***************************************************************************)
(* What a lock manager promises: every resource is held by any number of   *)
(* readers or by one writer.  A grant gives one transaction one lock it    *)
(* did not have, never in conflict with another transaction; a release     *)
(* gives locks back.  Nothing here says how requests wait.                  *)
(***************************************************************************)
CONSTANTS Txns, Resources

VARIABLE holds  \* holds[r][t]: the lock transaction t has on resource r

Shared    == "shared"
Exclusive == "exclusive"
NoLock    == "none"
Modes     == {Shared, Exclusive}

LockTableTypeOK == holds \in [Resources -> [Txns -> Modes \cup {NoLock}]]

LockTableInit == holds = [r \in Resources |-> [t \in Txns |-> NoLock]]

Conflicts(m, n) ==
    /\ m # NoLock /\ n # NoLock
    /\ m = Exclusive \/ n = Exclusive

Grant(t, r, m) ==
    /\ holds[r][t] = NoLock
    /\ \A u \in Txns : ~ Conflicts(m, holds[r][u])
    /\ holds' = [holds EXCEPT ![r][t] = m]

Release(t, r) ==
    /\ holds[r][t] # NoLock
    /\ holds' = [holds EXCEPT ![r][t] = NoLock]

ReleaseAll(t) == holds' = [r \in Resources |-> [holds[r] EXCEPT ![t] = NoLock]]

LockTableNext ==
    \E t \in Txns :
        \/ \E r \in Resources, m \in Modes : Grant(t, r, m)
        \/ \E r \in Resources : Release(t, r)
        \/ ReleaseAll(t)

LockTableSpec == LockTableInit /\ [][LockTableNext]_holds
=============================================================================
