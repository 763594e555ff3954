----------------------------- MODULE LockManager -----------------------------
(***************************************************************************)
(* The lock manager of the database's concurrency phase                    *)
(* (Database/Oracle/C/phase6/src/lock.c).  The manager has no thread of    *)
(* its own and no mutex: every call runs to its end, on behalf of the      *)
(* transaction that makes it.  The statistics total_granted and            *)
(* total_denied are left out; nothing reads them back.                     *)
(***************************************************************************)
EXTENDS Naturals, Sequences, FiniteSets

CONSTANTS
    Txns,             \* transaction identifiers
    Resources,        \* resource identifiers
    NoTxn,            \* INVALID_TXN_ID
    MAX_LOCKS,        \* entries of the lock table
    MAX_LOCK_HOLDERS  \* shared holders, and queued requests, of one entry

ASSUME LockConstants ==
    /\ IsFiniteSet(Txns) /\ NoTxn \notin Txns
    /\ MAX_LOCKS \in Nat
    /\ MAX_LOCK_HOLDERS \in Nat \ {0}

VARIABLES
    table,             \* the resources that have an entry in locks[]
    exclusive_holder,
    shared_holders,    \* as a bag: entries per transaction (order is never read)
    shared_count,
    waiting_queue,
    answer             \* what the last call about the resource told the caller

lockVars == <<table, exclusive_holder, shared_holders, shared_count,
              waiting_queue, answer>>

Shared    == "shared"
Exclusive == "exclusive"
Modes     == {Shared, Exclusive}
NoLock    == "none"
Waiting   == "waiting"
Denied    == "denied"

\* A caller knows the mode it was granted, or why it was not.
Answers  == Modes \cup {NoLock, Waiting, Denied}
Requests == [txn : Txns, type : Modes]

TypeOK ==
    /\ table \subseteq Resources
    /\ exclusive_holder \in [Resources -> Txns \cup {NoTxn}]
    /\ shared_holders \in [Resources -> [Txns -> Nat]]
    /\ shared_count \in [Resources -> Nat]
    /\ waiting_queue \in [Resources -> Seq(Requests)]
    /\ answer \in [Txns -> [Resources -> Answers]]

Init ==
    /\ table = {}
    /\ exclusive_holder = [r \in Resources |-> NoTxn]
    /\ shared_holders = [r \in Resources |-> [t \in Txns |-> 0]]
    /\ shared_count = [r \in Resources |-> 0]
    /\ waiting_queue = [r \in Resources |-> << >>]
    /\ answer = [t \in Txns |-> [r \in Resources |-> NoLock]]

-----------------------------------------------------------------------------
has_lock_exclusiveOnly(t, r) == r \in table /\ exclusive_holder[r] = t

has_lock(t, r) ==
    r \in table /\ (exclusive_holder[r] = t \/ shared_holders[r][t] > 0)

get_lock_type(t, r) ==
    IF ~ has_lock(t, r) THEN NoLock
    ELSE IF exclusive_holder[r] = t THEN Exclusive ELSE Shared

is_compatible_ignoresReaders(r, type) == exclusive_holder[r] = NoTxn

is_compatible(r, type) ==
    /\ exclusive_holder[r] = NoTxn
    /\ type = Shared \/ shared_count[r] = 0

\* An entry is made the first time a resource is named and never given back.
get_or_create_lock(r) ==
    /\ r \in table \/ Cardinality(table) < MAX_LOCKS
    /\ table' = table \cup {r}

Tell(t, r, status) == answer' = [answer EXCEPT ![t][r] = status]

holderVars == <<exclusive_holder, shared_holders, shared_count>>

(* lock_manager_acquire_lock, one action per way it returns.               *)

TableFull(t, r) ==
    /\ r \notin table /\ Cardinality(table) >= MAX_LOCKS
    /\ Tell(t, r, Denied)
    /\ UNCHANGED <<table, holderVars, waiting_queue>>

\* Whatever the mode asked for, any lock already held is answered GRANTED.
AlreadyHolds(t, r, type) ==
    /\ get_or_create_lock(r)
    /\ has_lock(t, r)
    /\ Tell(t, r, type)
    /\ UNCHANGED <<holderVars, waiting_queue>>

GrantShared(t, r) ==
    /\ get_or_create_lock(r)
    /\ ~ has_lock(t, r)
    /\ is_compatible(r, Shared)
    /\ shared_count[r] < MAX_LOCK_HOLDERS
    /\ shared_holders' = [shared_holders EXCEPT ![r][t] = @ + 1]
    /\ shared_count' = [shared_count EXCEPT ![r] = @ + 1]
    /\ Tell(t, r, Shared)
    /\ UNCHANGED <<exclusive_holder, waiting_queue>>

GrantExclusive_steals(t, r) ==
    /\ get_or_create_lock(r)
    /\ ~ has_lock(t, r)
    /\ shared_count[r] = 0
    /\ exclusive_holder' = [exclusive_holder EXCEPT ![r] = t]
    /\ Tell(t, r, Exclusive)
    /\ UNCHANGED <<shared_holders, shared_count, waiting_queue>>

GrantExclusive(t, r) ==
    /\ get_or_create_lock(r)
    /\ ~ has_lock(t, r)
    /\ is_compatible(r, Exclusive)
    /\ exclusive_holder' = [exclusive_holder EXCEPT ![r] = t]
    /\ Tell(t, r, Exclusive)
    /\ UNCHANGED <<shared_holders, shared_count, waiting_queue>>

\* Neither grant applies: incompatible, or no room among the shared holders.
Refused(t, r, type) ==
    /\ get_or_create_lock(r)
    /\ ~ has_lock(t, r)
    /\ \/ ~ is_compatible(r, type)
       \/ type = Shared /\ shared_count[r] >= MAX_LOCK_HOLDERS
    /\ UNCHANGED holderVars

Enqueue(t, r, type) ==
    /\ Refused(t, r, type)
    /\ Len(waiting_queue[r]) < MAX_LOCK_HOLDERS
    /\ waiting_queue' = [waiting_queue EXCEPT
                            ![r] = Append(@, [txn |-> t, type |-> type])]
    /\ Tell(t, r, Waiting)

QueueFull(t, r, type) ==
    /\ Refused(t, r, type)
    /\ Len(waiting_queue[r]) >= MAX_LOCK_HOLDERS
    /\ Tell(t, r, Denied)
    /\ UNCHANGED waiting_queue

acquire_lock(t, r) ==
    \/ TableFull(t, r)
    \/ GrantShared(t, r)
    \/ GrantExclusive(t, r)
    \/ \E type \in Modes : \/ AlreadyHolds(t, r, type)
                           \/ Enqueue(t, r, type)
                           \/ QueueFull(t, r, type)

\* Neither release looks at the waiting queue: no request is ever promoted.
ReleaseExclusive(t, r) ==
    /\ r \in table
    /\ exclusive_holder[r] = t
    /\ exclusive_holder' = [exclusive_holder EXCEPT ![r] = NoTxn]
    /\ Tell(t, r, NoLock)
    /\ UNCHANGED <<table, shared_holders, shared_count, waiting_queue>>

\* One entry of the array goes: the first that names the transaction.
ReleaseShared(t, r) ==
    /\ r \in table
    /\ exclusive_holder[r] # t
    /\ shared_holders[r][t] > 0
    /\ shared_holders' = [shared_holders EXCEPT ![r][t] = @ - 1]
    /\ shared_count' = [shared_count EXCEPT ![r] = @ - 1]
    /\ Tell(t, r, NoLock)
    /\ UNCHANGED <<table, exclusive_holder, waiting_queue>>

release_lock(t, r) == ReleaseExclusive(t, r) \/ ReleaseShared(t, r)

\* Every entry of the transaction goes, in every resource; this is how a
\* transaction ends, so it no longer waits for anything either.  The requests
\* it queued stay where they are.
release_all_locks(t) ==
    /\ exclusive_holder' = [r \in Resources |->
           IF exclusive_holder[r] = t THEN NoTxn ELSE exclusive_holder[r]]
    /\ shared_holders' = [r \in Resources |-> [shared_holders[r] EXCEPT ![t] = 0]]
    /\ shared_count' = [r \in Resources |-> shared_count[r] - shared_holders[r][t]]
    /\ answer' = [answer EXCEPT ![t] = [r \in Resources |-> NoLock]]
    /\ UNCHANGED <<table, waiting_queue>>

Next ==
    \E t \in Txns :
        \/ \E r \in Resources : acquire_lock(t, r) \/ release_lock(t, r)
        \/ release_all_locks(t)

Spec == Init /\ [][Next]_lockVars

-----------------------------------------------------------------------------
(* Properties                                                              *)

Readers(r) == {t \in Txns : shared_holders[r][t] > 0}

\* The book-keeping of one entry of locks[]: the writer is alone, the counter
\* is_compatible trusts counts the distinct readers, and nobody is listed twice
\* (release_lock removes one entry only).  acquire_lock, lock.c:79-120.
HoldersConsistent ==
    \A r \in Resources :
        /\ \A t \in Txns : shared_holders[r][t] \in {0, 1}
        /\ shared_count[r] = Cardinality(Readers(r))
        /\ exclusive_holder[r] # NoTxn => shared_count[r] = 0

\* The lock table never outgrows locks[MAX_LOCKS], and only a resource with an
\* entry is held or waited for: a request the full table denied left no trace.
TableBounded ==
    /\ Cardinality(table) <= MAX_LOCKS
    /\ \A r \in Resources \ table :
           /\ exclusive_holder[r] = NoTxn
           /\ shared_count[r] = 0
           /\ waiting_queue[r] = << >>

\* Answers stay true, whatever the others did since: a transaction that was told
\* GRANTED and has not released holds a lock on the resource, and one that was
\* told WAITING is in the resource's queue.
AnswersStayTrue ==
    \A t \in Txns, r \in Resources :
        /\ answer[t][r] \in Modes <=> has_lock(t, r)
        /\ answer[t][r] = Waiting =>
              \E i \in 1 .. Len(waiting_queue[r]) : waiting_queue[r][i].txn = t

\* The lock manager implements the table of readers and writers: whatever the
\* calls and their order, a grant never conflicts with a lock of another
\* transaction, and only a release takes a lock away.
Holds == [r \in Resources |-> [t \in Txns |-> get_lock_type(t, r)]]

LT == INSTANCE LockTable WITH holds <- Holds

ImplementsLockTable == LT!LockTableSpec

\* lock.h:10-11 "Shared Lock: Multiple readers / Exclusive Lock: Single writer":
\* whoever was granted EXCLUSIVE is the only holder.
WriterIsAlone ==
    \A t, u \in Txns, r \in Resources :
        answer[t][r] = Exclusive /\ t # u => ~ has_lock(u, r)
=============================================================================
