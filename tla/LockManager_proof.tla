-------------------------- MODULE LockManager_proof --------------------------
(***************************************************************************)
(* Proofs about locks, and about what is built with and without them.  The *)
(* lock manager implements the table of readers and writers, for every set *)
(* of transactions and resources and every size of its arrays, and the     *)
(* deadlock detector beside it finds a deadlock exactly if there is one.   *)
(* The hash map with a mutex per bucket, whose readers take none, and the  *)
(* stack that takes no lock at all, with one thread that pops, are correct *)
(* for any threads, keys, values and number of calls.                      *)
(***************************************************************************)
EXTENDS LockManager, DeadlockDetector, ConcurrentMap, LockFreeStack, Selection,
        FiniteSetTheorems, SequenceTheorems, TLAPS

\* TypeOK is not inductive: shared_count is decremented, so it stays a natural
\* number only because it counts the readers.  The count in turn is exact only
\* because has_lock finds every holder, which takes TableBounded: has_lock says
\* no of a resource without an entry, so such a resource must have no holder.
IInv == TypeOK /\ HoldersConsistent /\ TableBounded /\ IsFiniteSet(table)

(* The three ways the readers of a resource change.                        *)

\* The readers of a resource can be counted.
LEMMA ReadersFinite ==
  ASSUME NEW r \in Resources, TypeOK
  PROVE  /\ IsFiniteSet(Readers(r))
         /\ Cardinality(Readers(r)) \in Nat
  <1>1. Readers(r) \subseteq Txns
    BY DEF Readers
  <1>2. IsFiniteSet(Readers(r))
    BY <1>1, LockConstants, FS_Subset
  <1>3. QED
    BY <1>2, FS_CardinalityType

\* A new entry among the shared holders is one reader more.
LEMMA ReaderAdded ==
  ASSUME IInv, NEW t \in Txns, NEW r \in Resources,
         shared_holders[r][t] = 0,
         shared_holders' = [shared_holders EXCEPT ![r][t] = @ + 1]
  PROVE  /\ Readers(r)' = Readers(r) \cup {t}
         /\ Cardinality(Readers(r)') = Cardinality(Readers(r)) + 1
  <1>1. Readers(r)' = Readers(r) \cup {t} /\ t \notin Readers(r)
    BY DEF Readers, IInv, TypeOK
  <1>2. QED
    BY <1>1, ReadersFinite, FS_AddElement DEF IInv

\* A transaction whose only entry goes is one reader less.
LEMMA ReaderRemoved ==
  ASSUME IInv, NEW t \in Txns, NEW r \in Resources,
         shared_holders[r][t] = 1,
         shared_holders'[r] = [shared_holders[r] EXCEPT ![t] = 0]
  PROVE  /\ Readers(r)' = Readers(r) \ {t}
         /\ Cardinality(Readers(r)') = Cardinality(Readers(r)) - 1
         /\ Cardinality(Readers(r)) > 0
  <1>1. Readers(r)' = Readers(r) \ {t} /\ t \in Readers(r)
    BY DEF Readers, IInv, TypeOK
  <1>2. Cardinality(Readers(r) \ {t}) = Cardinality(Readers(r)) - 1
    BY <1>1, ReadersFinite, FS_RemoveElement DEF IInv
  <1>3. Readers(r) # {} /\ Cardinality(Readers(r)) # 0
    BY <1>1, ReadersFinite, FS_EmptySet DEF IInv
  <1>4. QED
    BY <1>1, <1>2, <1>3, ReadersFinite DEF IInv

\* shared_count, which is_compatible and the releases trust, counts the readers.
LEMMA CountIsReaders ==
  ASSUME IInv, NEW t \in Txns, NEW r \in Resources
  PROVE  /\ shared_holders[r][t] \in {0, 1}
         /\ shared_count[r] = Cardinality(Readers(r))
         /\ shared_holders[r][t] = 1 => shared_count[r] > 0
  <1>1. shared_holders[r][t] = 1 => t \in Readers(r)
    BY DEF Readers
  <1>2. shared_holders[r][t] = 1 => Cardinality(Readers(r)) > 0
    BY <1>1, ReadersFinite, FS_EmptySet DEF IInv
  <1>3. QED
    BY <1>2 DEF IInv, HoldersConsistent

-----------------------------------------------------------------------------
\* An empty lock table satisfies the invariant.
LEMMA InitIInv == Init => IInv
  <1> SUFFICES ASSUME Init PROVE IInv
    OBVIOUS
  <1>1. TypeOK
    BY DEF Init, TypeOK, Answers
  <1>2. \A r \in Resources : Readers(r) = {}
    BY DEF Init, Readers
  <1>3. HoldersConsistent
    BY <1>2, FS_EmptySet DEF Init, HoldersConsistent
  <1>4. TableBounded /\ IsFiniteSet(table)
    BY FS_EmptySet, LockConstants DEF Init, TableBounded
  <1>5. QED
    BY <1>1, <1>3, <1>4 DEF IInv

\* A transaction that has_lock denies is not listed among the readers.
LEMMA NotHolding ==
  ASSUME IInv, NEW t \in Txns, NEW r \in Resources, ~ has_lock(t, r)
  PROVE  shared_holders[r][t] = 0 /\ exclusive_holder[r] # t
  <1>1. CASE r \in table
    BY <1>1, CountIsReaders DEF has_lock
  <1>2. CASE r \notin table
    <2>1. shared_count[r] = 0 /\ exclusive_holder[r] = NoTxn
      BY <1>2 DEF IInv, TableBounded
    <2>2. QED
      BY <2>1, CountIsReaders, LockConstants
  <1>3. QED
    BY <1>1, <1>2

\* A step that leaves the holders alone keeps their book-keeping.
LEMMA UnchangedHolders ==
  ASSUME IInv, UNCHANGED holderVars
  PROVE  HoldersConsistent'
  <1>1. \A r \in Resources : Readers(r)' = Readers(r)
    BY DEF Readers, holderVars
  <1>2. QED
    BY <1>1 DEF IInv, HoldersConsistent, holderVars

\* Making an entry keeps the table within its bound.
LEMMA EntryMade ==
  ASSUME IInv, NEW r \in Resources, get_or_create_lock(r)
  PROVE  /\ table' \subseteq Resources
         /\ IsFiniteSet(table') /\ Cardinality(table') <= MAX_LOCKS
         /\ r \in table' /\ table \subseteq table'
  <1>1. CASE r \in table
    <2>1. table' = table
      BY <1>1 DEF get_or_create_lock
    <2>2. QED
      BY <1>1, <2>1 DEF IInv, TypeOK, TableBounded
  <1>2. CASE r \notin table
    <2>1. table' = table \cup {r} /\ Cardinality(table) < MAX_LOCKS
      BY <1>2 DEF get_or_create_lock
    <2>2. IsFiniteSet(table') /\ Cardinality(table') = Cardinality(table) + 1
      BY <1>2, <2>1, FS_AddElement DEF IInv
    <2>3. Cardinality(table) \in Nat
      BY FS_CardinalityType DEF IInv
    <2>4. QED
      BY <2>1, <2>2, <2>3, LockConstants DEF IInv, TypeOK
  <1>3. QED
    BY <1>1, <1>2

-----------------------------------------------------------------------------
\* A request that the full table denies leaves the holders alone.
LEMMA TableFullIInv ==
  ASSUME IInv, NEW t \in Txns, NEW r \in Resources, TableFull(t, r)
  PROVE  IInv'
  <1>1. TypeOK'
    BY DEF TableFull, Tell, IInv, TypeOK, Answers, Denied, holderVars
  <1>2. HoldersConsistent'
    BY UnchangedHolders DEF TableFull
  <1>3. TableBounded' /\ IsFiniteSet(table')
    BY DEF TableFull, IInv, TableBounded, holderVars
  <1>4. QED
    BY <1>1, <1>2, <1>3 DEF IInv

\* So does one of a transaction that has a lock already.
LEMMA AlreadyHoldsIInv ==
  ASSUME IInv, NEW t \in Txns, NEW r \in Resources, NEW type \in Modes,
         AlreadyHolds(t, r, type)
  PROVE  IInv'
  <1>1. TypeOK'
    BY EntryMade DEF AlreadyHolds, Tell, IInv, TypeOK, Answers, holderVars
  <1>2. HoldersConsistent'
    BY UnchangedHolders DEF AlreadyHolds
  <1>3. TableBounded' /\ IsFiniteSet(table')
    BY EntryMade DEF AlreadyHolds, IInv, TableBounded, holderVars
  <1>4. QED
    BY <1>1, <1>2, <1>3 DEF IInv

\* A new reader is counted once, for it was none before, and meets no writer.
LEMMA GrantSharedIInv ==
  ASSUME IInv, NEW t \in Txns, NEW r \in Resources, GrantShared(t, r)
  PROVE  IInv'
  <1>1. TypeOK'
    BY EntryMade DEF GrantShared, Tell, IInv, TypeOK, Answers, Modes
  <1>2. shared_holders[r][t] = 0
    BY NotHolding DEF GrantShared
  <1>3. Cardinality(Readers(r)') = Cardinality(Readers(r)) + 1
    BY <1>2, ReaderAdded DEF GrantShared
  <1>4. \A q \in Resources \ {r} : Readers(q)' = Readers(q)
    BY DEF GrantShared, Readers, IInv, TypeOK
  <1>5. exclusive_holder[r] = NoTxn
    BY DEF GrantShared, is_compatible
  <1>6. HoldersConsistent'
    <2>1. ASSUME NEW q \in Resources, NEW u \in Txns
          PROVE  shared_holders'[q][u] \in {0, 1}
      BY <1>2, CountIsReaders DEF GrantShared, IInv, TypeOK
    <2>2. ASSUME NEW q \in Resources
          PROVE  shared_count'[q] = Cardinality(Readers(q)')
      BY <1>3, <1>4 DEF GrantShared, IInv, TypeOK, HoldersConsistent
    <2>3. ASSUME NEW q \in Resources, exclusive_holder'[q] # NoTxn
          PROVE  shared_count'[q] = 0
      BY <2>3, <1>5 DEF GrantShared, IInv, TypeOK, HoldersConsistent
    <2>4. QED
      BY <2>1, <2>2, <2>3 DEF HoldersConsistent
  <1>7. TableBounded' /\ IsFiniteSet(table')
    BY EntryMade DEF GrantShared, IInv, TypeOK, TableBounded
  <1>8. QED
    BY <1>1, <1>6, <1>7 DEF IInv

\* A new writer meets no reader.
LEMMA GrantExclusiveIInv ==
  ASSUME IInv, NEW t \in Txns, NEW r \in Resources, GrantExclusive(t, r)
  PROVE  IInv'
  <1>1. TypeOK'
    BY EntryMade DEF GrantExclusive, Tell, IInv, TypeOK, Answers, Modes
  <1>2. \A q \in Resources : Readers(q)' = Readers(q)
    BY DEF GrantExclusive, Readers
  <1>3. shared_count[r] = 0
    BY DEF GrantExclusive, is_compatible, Exclusive, Shared
  <1>4. HoldersConsistent'
    BY <1>2, <1>3 DEF GrantExclusive, IInv, TypeOK, HoldersConsistent
  <1>5. TableBounded' /\ IsFiniteSet(table')
    BY EntryMade DEF GrantExclusive, IInv, TypeOK, TableBounded
  <1>6. QED
    BY <1>1, <1>4, <1>5 DEF IInv

\* A request that waits, or finds the queue full, leaves the holders alone.
LEMMA RefusedIInv ==
  ASSUME IInv, NEW t \in Txns, NEW r \in Resources, NEW type \in Modes,
         Enqueue(t, r, type) \/ QueueFull(t, r, type)
  PROVE  IInv'
  <1>1. /\ get_or_create_lock(r) /\ UNCHANGED holderVars
        /\ answer' \in [Txns -> [Resources -> Answers]]
        /\ \/ waiting_queue' = waiting_queue
           \/ waiting_queue' = [waiting_queue EXCEPT
                                  ![r] = Append(@, [txn |-> t, type |-> type])]
    <2>1. CASE Enqueue(t, r, type)
      BY <2>1 DEF Enqueue, Refused, Tell, IInv, TypeOK, Answers
    <2>2. CASE QueueFull(t, r, type)
      BY <2>2 DEF QueueFull, Refused, Tell, IInv, TypeOK, Answers
    <2>3. QED
      BY <2>1, <2>2
  <1>2. TypeOK'
    <2>1. waiting_queue' \in [Resources -> Seq(Requests)]
      <3>1. [txn |-> t, type |-> type] \in Requests
        BY DEF Requests
      <3>2. waiting_queue[r] \in Seq(Requests)
        BY DEF IInv, TypeOK
      <3>3. Append(waiting_queue[r], [txn |-> t, type |-> type]) \in Seq(Requests)
        BY <3>1, <3>2, AppendProperties
      <3>4. QED
        BY <1>1, <3>3 DEF IInv, TypeOK
    <2>2. QED
      BY <1>1, <2>1, EntryMade DEF IInv, TypeOK, holderVars
  <1>3. HoldersConsistent'
    BY <1>1, UnchangedHolders
  <1>4. TableBounded' /\ IsFiniteSet(table')
    BY <1>1, EntryMade DEF IInv, TypeOK, TableBounded, holderVars
  <1>5. QED
    BY <1>2, <1>3, <1>4 DEF IInv

\* The writer goes; the readers, of which there are none, stay.
LEMMA ReleaseExclusiveIInv ==
  ASSUME IInv, NEW t \in Txns, NEW r \in Resources, ReleaseExclusive(t, r)
  PROVE  IInv'
  <1>1. TypeOK'
    BY DEF ReleaseExclusive, Tell, IInv, TypeOK, Answers
  <1>2. \A q \in Resources : Readers(q)' = Readers(q)
    BY DEF ReleaseExclusive, Readers
  <1>3. HoldersConsistent'
    BY <1>2 DEF ReleaseExclusive, IInv, TypeOK, HoldersConsistent
  <1>4. TableBounded' /\ IsFiniteSet(table')
    BY DEF ReleaseExclusive, IInv, TypeOK, TableBounded
  <1>5. QED
    BY <1>1, <1>3, <1>4 DEF IInv

\* One reader goes, and with it its only entry.
LEMMA ReleaseSharedIInv ==
  ASSUME IInv, NEW t \in Txns, NEW r \in Resources, ReleaseShared(t, r)
  PROVE  IInv'
  <1>1. shared_holders[r][t] = 1 /\ shared_count[r] > 0
    BY CountIsReaders DEF ReleaseShared
  <1>2. shared_holders'[r] = [shared_holders[r] EXCEPT ![t] = 0]
    BY <1>1 DEF ReleaseShared, IInv, TypeOK
  <1>3. TypeOK'
    BY <1>1 DEF ReleaseShared, Tell, IInv, TypeOK, Answers
  <1>4. Cardinality(Readers(r)') = Cardinality(Readers(r)) - 1
    BY <1>1, <1>2, ReaderRemoved
  <1>5. \A q \in Resources \ {r} : Readers(q)' = Readers(q)
    BY DEF ReleaseShared, Readers, IInv, TypeOK
  <1>6. HoldersConsistent'
    <2>1. ASSUME NEW q \in Resources, NEW u \in Txns
          PROVE  shared_holders'[q][u] \in {0, 1}
      BY <1>1, CountIsReaders DEF ReleaseShared, IInv, TypeOK
    <2>2. ASSUME NEW q \in Resources
          PROVE  shared_count'[q] = Cardinality(Readers(q)')
      BY <1>4, <1>5 DEF ReleaseShared, IInv, TypeOK, HoldersConsistent
    <2>3. ASSUME NEW q \in Resources, exclusive_holder'[q] # NoTxn
          PROVE  shared_count'[q] = 0
      BY <2>3, <1>1 DEF ReleaseShared, IInv, TypeOK, HoldersConsistent
    <2>4. QED
      BY <2>1, <2>2, <2>3 DEF HoldersConsistent
  <1>7. TableBounded' /\ IsFiniteSet(table')
    BY DEF ReleaseShared, IInv, TypeOK, TableBounded
  <1>8. QED
    BY <1>3, <1>6, <1>7 DEF IInv

\* A transaction that ends is taken out of every resource and of every counter.
LEMMA ReleaseAllIInv ==
  ASSUME IInv, NEW t \in Txns, release_all_locks(t)
  PROVE  IInv'
  <1>1. ASSUME NEW r \in Resources
        PROVE  /\ shared_holders'[r] = [shared_holders[r] EXCEPT ![t] = 0]
               /\ shared_count'[r] = shared_count[r] - shared_holders[r][t]
               /\ shared_count'[r] \in Nat
               /\ exclusive_holder'[r] \in {NoTxn, exclusive_holder[r]}
    <2>1. /\ shared_holders'[r] = [shared_holders[r] EXCEPT ![t] = 0]
          /\ shared_count'[r] = shared_count[r] - shared_holders[r][t]
          /\ exclusive_holder'[r] \in {NoTxn, exclusive_holder[r]}
      BY DEF release_all_locks
    <2>2. /\ shared_count[r] \in Nat
          /\ shared_holders[r][t] \in {0, 1}
          /\ shared_holders[r][t] = 1 => shared_count[r] > 0
      BY CountIsReaders DEF IInv, TypeOK
    <2>3. QED
      BY <2>1, <2>2
  <1>2. TypeOK'
    BY <1>1 DEF release_all_locks, IInv, TypeOK, Answers
  <1>3. ASSUME NEW r \in Resources
        PROVE  shared_count'[r] = Cardinality(Readers(r)')
    <2>1. CASE shared_holders[r][t] = 1
      BY <1>1, <2>1, ReaderRemoved, CountIsReaders
    <2>2. CASE shared_holders[r][t] = 0
      <3>1. Readers(r)' = Readers(r)
        BY <1>1, <2>2 DEF Readers, IInv, TypeOK
      <3>2. QED
        BY <1>1, <2>2, <3>1, CountIsReaders DEF IInv, TypeOK
    <2>3. QED
      BY <2>1, <2>2, CountIsReaders
  <1>4. HoldersConsistent'
    <2>1. ASSUME NEW q \in Resources, NEW u \in Txns
          PROVE  shared_holders'[q][u] \in {0, 1}
      <3>1. shared_holders[q] \in [Txns -> Nat] /\ shared_holders[q][u] \in {0, 1}
        BY CountIsReaders DEF IInv, TypeOK
      <3>2. QED
        BY <1>1, <3>1
    <2>2. ASSUME NEW q \in Resources, exclusive_holder'[q] # NoTxn
          PROVE  shared_count'[q] = 0
      <3>1. shared_count[q] = 0
        BY <1>1, <2>2 DEF IInv, HoldersConsistent
      <3>2. shared_holders[q][t] = 0
        BY <3>1, CountIsReaders
      <3>3. shared_count'[q] = shared_count[q] - shared_holders[q][t]
        BY <1>1
      <3>4. QED
        BY <3>1, <3>2, <3>3
    <2>3. QED
      BY <1>3, <2>1, <2>2 DEF HoldersConsistent
  <1>5. TableBounded' /\ IsFiniteSet(table')
    <2>1. ASSUME NEW q \in Resources \ table
          PROVE  exclusive_holder'[q] = NoTxn /\ shared_count'[q] = 0
      <3>1. exclusive_holder[q] = NoTxn /\ shared_count[q] = 0
        BY DEF IInv, TableBounded
      <3>2. shared_holders[q][t] = 0
        BY <3>1, CountIsReaders
      <3>3. /\ shared_count'[q] = shared_count[q] - shared_holders[q][t]
            /\ exclusive_holder'[q] \in {NoTxn, exclusive_holder[q]}
        BY <1>1
      <3>4. QED
        BY <3>1, <3>2, <3>3
    <2>2. QED
      BY <2>1 DEF release_all_locks, IInv, TableBounded
  <1>6. QED
    BY <1>2, <1>4, <1>5 DEF IInv

\* Every call keeps the invariant.
LEMMA StepIInv == IInv /\ [Next]_lockVars => IInv'
  <1> SUFFICES ASSUME IInv, [Next]_lockVars PROVE IInv'
    OBVIOUS
  <1>1. ASSUME NEW t \in Txns, NEW r \in Resources, acquire_lock(t, r)
        PROVE  IInv'
    BY <1>1, TableFullIInv, AlreadyHoldsIInv, GrantSharedIInv, GrantExclusiveIInv,
       RefusedIInv DEF acquire_lock
  <1>2. ASSUME NEW t \in Txns, NEW r \in Resources, release_lock(t, r)
        PROVE  IInv'
    BY <1>2, ReleaseExclusiveIInv, ReleaseSharedIInv DEF release_lock
  <1>3. CASE UNCHANGED lockVars
    <2>1. \A r \in Resources : Readers(r)' = Readers(r)
      BY <1>3 DEF Readers, lockVars
    <2>2. QED
      BY <1>3, <2>1 DEF IInv, TypeOK, HoldersConsistent, TableBounded, lockVars
  <1>4. QED
    BY <1>1, <1>2, <1>3, ReleaseAllIInv DEF Next

\* The types of the lock manager's state, for every set of transactions and
\* resources and every size of the arrays.
THEOREM TypeCorrect == Spec => []TypeOK
  <1>1. IInv => TypeOK
    BY DEF IInv
  <1>2. QED
    BY InitIInv, StepIInv, <1>1, PTL DEF Spec

\* The book-keeping acquire_lock relies on is exact, and the table bounded.
THEOREM HoldersCorrect == Spec => [](HoldersConsistent /\ TableBounded)
  <1>1. IInv => HoldersConsistent /\ TableBounded
    BY DEF IInv
  <1>2. QED
    BY InitIInv, StepIInv, <1>1, PTL DEF Spec
-----------------------------------------------------------------------------
(* Refinement: every call is a step of LockTable or leaves its table alone. *)

\* The lock a transaction has, in the terms the invariant gives.
LEMMA LockType ==
  ASSUME IInv, NEW t \in Txns, NEW r \in Resources
  PROVE  Holds[r][t] = IF exclusive_holder[r] = t THEN Exclusive
                       ELSE IF shared_holders[r][t] = 1 THEN Shared ELSE NoLock
  <1>1. CASE r \in table
    BY <1>1, CountIsReaders DEF Holds, get_lock_type, has_lock
  <1>2. CASE r \notin table
    <2>1. exclusive_holder[r] = NoTxn /\ shared_holders[r][t] = 0
      BY <1>2, CountIsReaders DEF IInv, TableBounded
    <2>2. QED
      BY <1>2, <2>1, LockConstants DEF Holds, get_lock_type, has_lock
  <1>3. QED
    BY <1>1, <1>2

\* The same, after a step.
LEMMA LockTypeAfter ==
  ASSUME IInv', NEW t \in Txns, NEW r \in Resources
  PROVE  Holds'[r][t] = IF exclusive_holder'[r] = t THEN Exclusive
                        ELSE IF shared_holders'[r][t] = 1 THEN Shared ELSE NoLock
  <1>1. /\ shared_holders'[r][t] \in {0, 1}
        /\ shared_count'[r] = Cardinality(Readers(r)')
        /\ r \notin table' => shared_count'[r] = 0 /\ exclusive_holder'[r] = NoTxn
    BY DEF IInv, HoldersConsistent, TableBounded
  <1>2. CASE r \in table'
    BY <1>1, <1>2 DEF Holds, get_lock_type, has_lock
  <1>3. CASE r \notin table'
    <2>1. IsFiniteSet(Readers(r)')
      <3>1. Readers(r)' \subseteq Txns
        BY DEF Readers
      <3>2. QED
        BY <3>1, LockConstants, FS_Subset
    <2>2. Readers(r)' = {}
      BY <1>1, <1>3, <2>1, FS_EmptySet
    <2>3. shared_holders'[r][t] = 0 /\ exclusive_holder'[r] = NoTxn
      BY <1>1, <1>3, <2>2 DEF Readers
    <2>4. QED
      BY <1>3, <2>3, LockConstants DEF Holds, get_lock_type, has_lock
  <1>4. QED
    BY <1>2, <1>3

\* A step that leaves the holders alone leaves the abstract table alone.
LEMMA SameHolds ==
  ASSUME IInv, IInv', UNCHANGED holderVars
  PROVE  Holds' = Holds
  <1>1. ASSUME NEW r \in Resources, NEW t \in Txns
        PROVE  Holds'[r][t] = Holds[r][t]
    BY LockType, LockTypeAfter DEF holderVars
  <1>2. QED
    BY <1>1 DEF Holds

\* A step that gives or takes one lock changes one place of the abstract table.
LEMMA OnePlace ==
  ASSUME IInv, IInv', NEW t \in Txns, NEW r \in Resources, NEW m,
         Holds'[r][t] = m,
         \A q \in Resources, u \in Txns :
             (q # r \/ u # t) => Holds'[q][u] = Holds[q][u]
  PROVE  Holds' = [Holds EXCEPT ![r][t] = m]
  <1> DEFINE row(q) == IF q = r THEN [Holds[r] EXCEPT ![t] = m] ELSE Holds[q]
  <1>1. /\ Holds = [q \in Resources |-> [u \in Txns |-> Holds[q][u]]]
        /\ Holds' = [q \in Resources |-> [u \in Txns |-> Holds'[q][u]]]
    BY DEF Holds
  <1>2. ASSUME NEW q \in Resources
        PROVE  Holds'[q] = row(q)
    <2> HIDE DEF row
    <2>1. Holds[q] = [u \in Txns |-> Holds[q][u]]
      BY <1>1
    <2>2. Holds'[q] = [u \in Txns |-> Holds'[q][u]]
      BY <1>1
    <2>3. QED
      BY <2>1, <2>2 DEF row
  <1>3. [Holds EXCEPT ![r] = [Holds[r] EXCEPT ![t] = m]] =
            [q \in Resources |-> row(q)]
    BY <1>1
  <1>4. Holds' = [q \in Resources |-> row(q)]
    BY <1>1, <1>2
  <1>5. QED
    BY <1>3, <1>4

\* A SHARED grant is a Grant of the abstract table, in conflict with nobody.
LEMMA GrantSharedStep ==
  ASSUME IInv, IInv', NEW t \in Txns, NEW r \in Resources, GrantShared(t, r)
  PROVE  LT!Grant(t, r, Shared)
  <1>1. shared_holders[r][t] = 0 /\ exclusive_holder[r] = NoTxn
    BY NotHolding DEF GrantShared, is_compatible
  <1>2. /\ shared_holders' = [shared_holders EXCEPT ![r][t] = @ + 1]
        /\ exclusive_holder' = exclusive_holder
    BY DEF GrantShared
  <1>3. Holds[r][t] = NoLock
    BY <1>1, LockType, LockConstants
  <1>4. ASSUME NEW u \in Txns
        PROVE  ~ LT!Conflicts(Shared, Holds[r][u])
    <2>1. Holds[r][u] # Exclusive
      BY <1>1, LockType, LockConstants DEF Shared, Exclusive, NoLock
    <2>2. QED
      BY <2>1 DEF LT!Conflicts, LT!Exclusive, Exclusive, Shared
  <1>5. Holds' = [Holds EXCEPT ![r][t] = Shared]
    <2>1. shared_holders'[r][t] = 1
      BY <1>1, <1>2 DEF IInv, TypeOK
    <2>2. Holds'[r][t] = Shared
      BY <1>1, <1>2, <2>1, LockTypeAfter, LockConstants
    <2>3. ASSUME NEW q \in Resources, NEW u \in Txns, q # r \/ u # t
          PROVE  Holds'[q][u] = Holds[q][u]
      <3>1. shared_holders'[q][u] = shared_holders[q][u]
        BY <1>2, <2>3 DEF IInv, TypeOK
      <3>2. QED
        BY <1>2, <3>1, LockType, LockTypeAfter
    <2>4. QED
      BY <2>2, <2>3, OnePlace
  <1>6. QED
    BY <1>3, <1>4, <1>5 DEF LT!Grant, LT!NoLock, NoLock

\* So is an EXCLUSIVE one.
LEMMA GrantExclusiveStep ==
  ASSUME IInv, IInv', NEW t \in Txns, NEW r \in Resources, GrantExclusive(t, r)
  PROVE  LT!Grant(t, r, Exclusive)
  <1>1. shared_count[r] = 0 /\ exclusive_holder[r] = NoTxn
    BY DEF GrantExclusive, is_compatible, Exclusive, Shared
  <1>2. /\ shared_holders' = shared_holders
        /\ exclusive_holder' = [exclusive_holder EXCEPT ![r] = t]
    BY DEF GrantExclusive
  <1>3. \A u \in Txns : shared_holders[r][u] = 0
    BY <1>1, CountIsReaders
  <1>4. \A u \in Txns : Holds[r][u] = NoLock
    BY <1>1, <1>3, LockType, LockConstants
  <1>5. Holds' = [Holds EXCEPT ![r][t] = Exclusive]
    <2>1. Holds'[r][t] = Exclusive
      BY <1>2, LockTypeAfter DEF IInv, TypeOK
    <2>2. ASSUME NEW q \in Resources, NEW u \in Txns, q # r \/ u # t
          PROVE  Holds'[q][u] = Holds[q][u]
      <3>1. CASE q # r
        <4>1. exclusive_holder'[q] = exclusive_holder[q]
          BY <1>2, <3>1 DEF IInv, TypeOK
        <4>2. QED
          BY <1>2, <4>1, LockType, LockTypeAfter
      <3>2. CASE q = r
        <4>1. exclusive_holder'[r] = t /\ shared_holders'[r][u] = 0 /\ u # t
          BY <1>2, <1>3, <2>2, <3>2 DEF IInv, TypeOK
        <4>2. QED
          BY <1>4, <3>2, <4>1, LockTypeAfter
      <3>3. QED
        BY <3>1, <3>2
    <2>3. QED
      BY <2>1, <2>2, OnePlace
  <1>6. QED
    BY <1>4, <1>5 DEF LT!Grant, LT!Conflicts, LT!NoLock, NoLock

\* Either release is a Release: the transaction keeps no lock on the resource.
LEMMA ReleaseStep ==
  ASSUME IInv, IInv', NEW t \in Txns, NEW r \in Resources, release_lock(t, r)
  PROVE  LT!Release(t, r)
  <1>1. CASE ReleaseExclusive(t, r)
    <2>1. /\ exclusive_holder[r] = t /\ exclusive_holder'[r] = NoTxn
          /\ shared_holders' = shared_holders
          /\ \A q \in Resources \ {r} : exclusive_holder'[q] = exclusive_holder[q]
      BY <1>1 DEF ReleaseExclusive, IInv, TypeOK
    <2>2. shared_count[r] = 0
      BY <2>1, LockConstants DEF IInv, HoldersConsistent
    <2>3. \A u \in Txns : shared_holders[r][u] = 0
      BY <2>2, CountIsReaders
    <2>4. Holds[r][t] = Exclusive /\ Holds'[r][t] = NoLock
      BY <2>1, <2>3, LockType, LockTypeAfter, LockConstants
    <2>5. ASSUME NEW q \in Resources, NEW u \in Txns, q # r \/ u # t
          PROVE  Holds'[q][u] = Holds[q][u]
      <3>1. CASE q # r
        BY <2>1, <3>1, LockType, LockTypeAfter
      <3>2. CASE q = r
        BY <2>1, <2>3, <2>5, <3>2, LockType, LockTypeAfter, LockConstants
      <3>3. QED
        BY <3>1, <3>2
    <2>6. Holds' = [Holds EXCEPT ![r][t] = NoLock]
      BY <2>4, <2>5, OnePlace
    <2>7. QED
      BY <2>4, <2>6 DEF LT!Release, LT!NoLock, NoLock, Exclusive
  <1>2. CASE ReleaseShared(t, r)
    <2>1. /\ exclusive_holder[r] # t /\ exclusive_holder' = exclusive_holder
          /\ shared_holders[r][t] = 1
          /\ shared_holders' = [shared_holders EXCEPT ![r][t] = @ - 1]
      BY <1>2, CountIsReaders DEF ReleaseShared
    <2>2. shared_holders'[r][t] = 0
      BY <2>1 DEF IInv, TypeOK
    <2>3. Holds[r][t] = Shared /\ Holds'[r][t] = NoLock
      BY <2>1, <2>2, LockType, LockTypeAfter
    <2>4. ASSUME NEW q \in Resources, NEW u \in Txns, q # r \/ u # t
          PROVE  Holds'[q][u] = Holds[q][u]
      <3>1. shared_holders'[q][u] = shared_holders[q][u]
        BY <2>1, <2>4 DEF IInv, TypeOK
      <3>2. QED
        BY <2>1, <3>1, LockType, LockTypeAfter
    <2>5. Holds' = [Holds EXCEPT ![r][t] = NoLock]
      BY <2>3, <2>4, OnePlace
    <2>6. QED
      BY <2>3, <2>5 DEF LT!Release, LT!NoLock, NoLock, Shared
  <1>3. QED
    BY <1>1, <1>2 DEF release_lock

\* The end of a transaction is a ReleaseAll.
LEMMA ReleaseAllStep ==
  ASSUME IInv, IInv', NEW t \in Txns, release_all_locks(t)
  PROVE  LT!ReleaseAll(t)
  <1>1. ASSUME NEW r \in Resources, NEW u \in Txns
        PROVE  Holds'[r][u] = IF u = t THEN NoLock ELSE Holds[r][u]
    <2>1. /\ exclusive_holder'[r] = IF exclusive_holder[r] = t THEN NoTxn
                                     ELSE exclusive_holder[r]
          /\ shared_holders'[r] = [shared_holders[r] EXCEPT ![t] = 0]
      BY DEF release_all_locks
    <2>2. shared_holders'[r][u] = IF u = t THEN 0 ELSE shared_holders[r][u]
      BY <2>1 DEF IInv, TypeOK
    <2>3. /\ Holds[r][u] = IF exclusive_holder[r] = u THEN Exclusive
                           ELSE IF shared_holders[r][u] = 1 THEN Shared ELSE NoLock
          /\ Holds'[r][u] = IF exclusive_holder'[r] = u THEN Exclusive
                            ELSE IF shared_holders'[r][u] = 1 THEN Shared ELSE NoLock
      BY LockType, LockTypeAfter
    <2>4. exclusive_holder'[r] = u <=> exclusive_holder[r] = u /\ u # t
      BY <2>1, LockConstants
    <2>5. QED
      BY <2>2, <2>3, <2>4
  <1>2. Holds' = [r \in Resources |-> [Holds[r] EXCEPT ![t] = NoLock]]
    BY <1>1 DEF Holds
  <1>3. QED
    BY <1>2 DEF LT!ReleaseAll, LT!NoLock, NoLock

\* Every call is a step of the abstract table or leaves it unchanged.
LEMMA StepRefines ==
  IInv /\ IInv' /\ [Next]_lockVars => [LT!LockTableNext]_Holds
  <1> SUFFICES ASSUME IInv, IInv', [Next]_lockVars
               PROVE  [LT!LockTableNext]_Holds
    OBVIOUS
  <1> USE DEF LT!LockTableNext
  <1>1. ASSUME NEW t \in Txns, NEW r \in Resources, acquire_lock(t, r)
        PROVE  [LT!LockTableNext]_Holds
    <2>1. CASE GrantShared(t, r)
      BY <2>1, GrantSharedStep DEF LT!Modes, LT!Shared, Shared
    <2>2. CASE GrantExclusive(t, r)
      BY <2>2, GrantExclusiveStep DEF LT!Modes, LT!Exclusive, Exclusive
    <2>3. CASE UNCHANGED holderVars
      BY <2>3, SameHolds
    <2>4. QED
      BY <1>1, <2>1, <2>2, <2>3
      DEF acquire_lock, TableFull, AlreadyHolds, Enqueue, QueueFull, Refused
  <1>2. ASSUME NEW t \in Txns, NEW r \in Resources, release_lock(t, r)
        PROVE  [LT!LockTableNext]_Holds
    BY <1>2, ReleaseStep
  <1>3. ASSUME NEW t \in Txns, release_all_locks(t)
        PROVE  [LT!LockTableNext]_Holds
    BY <1>3, ReleaseAllStep
  <1>4. CASE UNCHANGED lockVars
    BY <1>4, SameHolds DEF lockVars, holderVars
  <1>5. QED
    BY <1>1, <1>2, <1>3, <1>4 DEF Next

\* The lock manager implements the table of readers and writers.
THEOREM Refinement == Spec => ImplementsLockTable
  <1>1. Init => LT!LockTableInit
    <2> SUFFICES ASSUME Init PROVE LT!LockTableInit
      OBVIOUS
    <2>1. \A r \in Resources, t \in Txns : get_lock_type(t, r) = NoLock
      BY DEF Init, get_lock_type, has_lock
    <2>2. QED
      BY <2>1 DEF Holds, LT!LockTableInit, LT!NoLock, NoLock
  <1>2. QED
    BY InitIInv, StepIInv, StepRefines, <1>1, PTL
    DEF Spec, ImplementsLockTable, LT!LockTableSpec
-----------------------------------------------------------------------------
(* What callers were told stays true.                                      *)

\* has_lock finds the locks of the abstract table, before and after a step.
LEMMA HasLockHolds ==
  ASSUME NEW t \in Txns, NEW r \in Resources
  PROVE  /\ has_lock(t, r) <=> Holds[r][t] # NoLock
         /\ has_lock(t, r)' <=> Holds'[r][t] # NoLock
  BY DEF Holds, get_lock_type, NoLock, Shared, Exclusive

LEMMA HoldsShape == DOMAIN Holds = Resources /\ \A r \in Resources : DOMAIN Holds[r] = Txns
  BY DEF Holds

\* No request leaves a queue or is overtaken.
QueuesGrow ==
    \A r \in Resources : \A i \in 1 .. Len(waiting_queue[r]) :
        i \in 1 .. Len(waiting_queue'[r]) /\ waiting_queue'[r][i] = waiting_queue[r][i]

Queued(t, queue) == \E i \in 1 .. Len(queue) : queue[i].txn = t

\* A call about one resource: the answer to it is as true as the lock it gave or
\* took, and the answers to others are about locks and places it left alone.
LEMMA AnswerTold ==
  ASSUME IInv, AnswersStayTrue, NEW t \in Txns, NEW r \in Resources, NEW s \in Answers, NEW m,
         Tell(t, r, s), QueuesGrow,
         Holds' = [Holds EXCEPT ![r][t] = m], s \in Modes <=> m # NoLock,
         s = Waiting => Queued(t, waiting_queue'[r])
  PROVE  AnswersStayTrue'
  <1> SUFFICES ASSUME NEW u \in Txns, NEW q \in Resources
               PROVE  /\ answer'[u][q] \in Modes <=> has_lock(u, q)'
                      /\ answer'[u][q] = Waiting => Queued(u, waiting_queue'[q])
    BY DEF AnswersStayTrue, Queued
  <1>1. /\ answer[u][q] \in Modes <=> Holds[q][u] # NoLock
        /\ answer[u][q] = Waiting => Queued(u, waiting_queue[q])
    BY HasLockHolds DEF AnswersStayTrue, Queued
  <1>2. CASE u = t /\ q = r
    <2>1. answer'[u][q] = s /\ Holds'[q][u] = m
      BY <1>2 DEF Tell, IInv, TypeOK, Holds
    <2>2. QED
      BY <1>2, <2>1, HasLockHolds
  <1>3. CASE u # t \/ q # r
    <2>1. answer'[u][q] = answer[u][q]
      BY <1>3 DEF Tell, IInv, TypeOK
    <2>2. Holds'[q][u] = Holds[q][u]
      BY <1>3, HoldsShape
    <2>3. Queued(u, waiting_queue[q]) => Queued(u, waiting_queue'[q])
      BY DEF Queued, QueuesGrow
    <2>4. QED
      BY <1>1, <2>1, <2>2, <2>3, HasLockHolds
  <1>4. QED
    BY <1>2, <1>3

\* The same for a call that changes no lock.
LEMMA AnswerOnly ==
  ASSUME IInv, IInv', AnswersStayTrue, NEW t \in Txns, NEW r \in Resources, NEW s \in Answers,
         Tell(t, r, s), QueuesGrow, UNCHANGED holderVars,
         s \in Modes <=> has_lock(t, r),
         s = Waiting => Queued(t, waiting_queue'[r])
  PROVE  AnswersStayTrue'
  <1>1. Holds' = Holds /\ (has_lock(t, r) <=> Holds[r][t] # NoLock)
    BY SameHolds, HasLockHolds
  <1>2. Holds = [Holds EXCEPT ![r][t] = Holds[r][t]]
    BY DEF Holds
  <1>3. QED
    BY <1>1, <1>2, AnswerTold

\* A request that is queued is the last of its queue.
LEMMA EnqueuedStays ==
  ASSUME IInv, NEW t \in Txns, NEW r \in Resources, NEW type \in Modes, Enqueue(t, r, type)
  PROVE  QueuesGrow /\ Queued(t, waiting_queue'[r])
  <1> DEFINE req == [txn |-> t, type |-> type]
             queue == waiting_queue[r]
  <1>1. /\ waiting_queue' = [waiting_queue EXCEPT ![r] = Append(queue, req)]
        /\ waiting_queue \in [Resources -> Seq(Requests)] /\ req \in Requests
    BY DEF Enqueue, IInv, TypeOK, Requests
  <1>2. waiting_queue'[r] = Append(queue, req) /\ queue \in Seq(Requests)
    BY <1>1
  <1>3. \A q \in Resources \ {r} : waiting_queue'[q] = waiting_queue[q]
    BY <1>1
  <1> HIDE DEF req, queue
  <1>4. /\ Len(waiting_queue'[r]) = Len(queue) + 1 /\ Len(queue) \in Nat
        /\ waiting_queue'[r][Len(queue) + 1] = req
        /\ \A i \in 1 .. Len(queue) : waiting_queue'[r][i] = queue[i]
    BY <1>1, <1>2
  <1>5. QueuesGrow
    BY <1>3, <1>4 DEF QueuesGrow, queue
  <1>6. Queued(t, waiting_queue'[r])
    BY <1>4 DEF Queued, req
  <1>7. QED
    BY <1>5, <1>6

LEMMA AcquireAnswers ==
  ASSUME IInv, IInv', AnswersStayTrue, NEW t \in Txns, NEW r \in Resources, acquire_lock(t, r)
  PROVE  AnswersStayTrue'
  <1> USE DEF Answers, Modes, NoLock, Waiting, Denied, Shared, Exclusive
  <1>1. waiting_queue' = waiting_queue => QueuesGrow
    BY DEF QueuesGrow
  <1>2. CASE TableFull(t, r)
    <2>1. ~ has_lock(t, r)
      BY <1>2 DEF TableFull, has_lock
    <2>2. QED
      BY <1>1, <1>2, <2>1, AnswerOnly DEF TableFull
  <1>3. CASE GrantShared(t, r)
    <2>1. Holds' = [Holds EXCEPT ![r][t] = Shared]
      BY <1>3, GrantSharedStep DEF LT!Grant
    <2>2. QED
      BY <1>1, <1>3, <2>1, AnswerTold DEF GrantShared
  <1>4. CASE GrantExclusive(t, r)
    <2>1. Holds' = [Holds EXCEPT ![r][t] = Exclusive]
      BY <1>4, GrantExclusiveStep DEF LT!Grant
    <2>2. QED
      BY <1>1, <1>4, <2>1, AnswerTold DEF GrantExclusive
  <1>5. ASSUME NEW type \in Modes, AlreadyHolds(t, r, type) PROVE AnswersStayTrue'
    BY <1>1, <1>5, AnswerOnly DEF AlreadyHolds
  <1>6. ASSUME NEW type \in Modes, Enqueue(t, r, type) PROVE AnswersStayTrue'
    BY <1>6, EnqueuedStays, AnswerOnly DEF Enqueue, Refused
  <1>7. ASSUME NEW type \in Modes, QueueFull(t, r, type) PROVE AnswersStayTrue'
    BY <1>1, <1>7, AnswerOnly DEF QueueFull, Refused
  <1>8. QED
    BY <1>2, <1>3, <1>4, <1>5, <1>6, <1>7 DEF acquire_lock

LEMMA ReleaseAnswers ==
  ASSUME IInv, IInv', AnswersStayTrue, NEW t \in Txns, NEW r \in Resources, release_lock(t, r)
  PROVE  AnswersStayTrue'
  <1>1. Holds' = [Holds EXCEPT ![r][t] = NoLock]
    BY ReleaseStep DEF LT!Release, LT!NoLock, NoLock
  <1>2. Tell(t, r, NoLock) /\ QueuesGrow
    BY DEF release_lock, ReleaseExclusive, ReleaseShared, QueuesGrow
  <1>3. NoLock \in Answers /\ NoLock \notin Modes /\ NoLock # Waiting
    BY DEF Answers, Modes, NoLock, Waiting, Shared, Exclusive
  <1>4. QED
    BY <1>1, <1>2, <1>3, AnswerTold

LEMMA ReleaseAllAnswers ==
  ASSUME IInv, IInv', AnswersStayTrue, NEW t \in Txns, release_all_locks(t)
  PROVE  AnswersStayTrue'
  <1> SUFFICES ASSUME NEW u \in Txns, NEW q \in Resources
               PROVE  /\ answer'[u][q] \in Modes <=> has_lock(u, q)'
                      /\ answer'[u][q] = Waiting => Queued(u, waiting_queue'[q])
    BY DEF AnswersStayTrue, Queued
  <1>1. Holds'[q][u] = IF u = t THEN NoLock ELSE Holds[q][u]
    <2>1. Holds' = [r \in Resources |-> [Holds[r] EXCEPT ![t] = NoLock]]
      BY ReleaseAllStep DEF LT!ReleaseAll, LT!NoLock, NoLock
    <2>2. Holds'[q] = [Holds[q] EXCEPT ![t] = NoLock]
      BY <2>1
    <2>3. QED
      BY <2>2, HoldsShape
  <1>2. answer'[u][q] = IF u = t THEN NoLock ELSE answer[u][q]
    BY DEF release_all_locks, IInv, TypeOK
  <1>3. /\ answer[u][q] \in Modes <=> Holds[q][u] # NoLock
        /\ answer[u][q] = Waiting => Queued(u, waiting_queue[q])
    BY HasLockHolds DEF AnswersStayTrue, Queued
  <1>4. NoLock \notin Modes /\ NoLock # Waiting /\ waiting_queue' = waiting_queue
    BY DEF Modes, NoLock, Waiting, Shared, Exclusive, release_all_locks
  <1>5. QED
    BY <1>1, <1>2, <1>3, <1>4, HasLockHolds

\* Every answer stays true until the caller itself calls again: who was told GRANTED
\* and did not release has a lock, who was told WAITING is queued.
THEOREM AnswersCorrect == Spec => []AnswersStayTrue
  <1>1. Init => AnswersStayTrue
    BY DEF Init, AnswersStayTrue, has_lock, Modes, NoLock, Waiting, Shared, Exclusive
  <1>2. ASSUME IInv, IInv', AnswersStayTrue, [Next]_lockVars
        PROVE  AnswersStayTrue'
    <2>1. ASSUME NEW t \in Txns, NEW r \in Resources, acquire_lock(t, r) \/ release_lock(t, r)
          PROVE  AnswersStayTrue'
      BY <1>2, <2>1, AcquireAnswers, ReleaseAnswers
    <2>2. ASSUME NEW t \in Txns, release_all_locks(t)
          PROVE  AnswersStayTrue'
      BY <1>2, <2>2, ReleaseAllAnswers
    <2>3. CASE UNCHANGED lockVars
      BY <1>2, <2>3 DEF lockVars, AnswersStayTrue, has_lock
    <2>4. QED
      BY <1>2, <2>1, <2>2, <2>3 DEF Next
  <1>3. QED
    BY InitIInv, StepIInv, <1>1, <1>2, PTL DEF Spec

-----------------------------------------------------------------------------
(***************************************************************************)
(* The deadlock detector.  The search is a recursive function whose second *)
(* call takes what the first returned, so that there is such a function at *)
(* all is proved before what it returns, both by a rank that falls with    *)
(* every call: first how many transactions are unvisited, then how many    *)
(* edges are left.                                                         *)
(***************************************************************************)

(* The search ends.                                                        *)

\* Every call of the search within a search makes this number smaller.
Rank(s) == Cardinality(TxnIndexes \ s.visited) * (MAX_EDGES + 2) + (MAX_EDGES + 1 - s.i)

LEMMA TimesLess ==
    ASSUME NEW a \in Nat, NEW b \in Nat, NEW w \in Nat, a < b
    PROVE  a * w \in Nat /\ b * w \in Nat /\ a * w + w <= b * w
<1>1. PICK c \in Nat : b = a + 1 + c
  <2>1. b - a - 1 \in Nat /\ b = a + 1 + (b - a - 1)
    OBVIOUS
  <2> QED
    BY <2>1
<1>2. b * w = a * w + w + c * w
  BY <1>1
<1>3. a * w \in Nat /\ b * w \in Nat /\ c * w \in Nat
  OBVIOUS
<1> QED
  BY <1>2, <1>3

LEMMA UnvisitedCount ==
    ASSUME NEW V \in SUBSET TxnIndexes, NEW W \in SUBSET TxnIndexes, V \subseteq W
    PROVE  /\ Cardinality(TxnIndexes \ V) \in 0 .. MAX_TRANSACTIONS - 1
           /\ Cardinality(TxnIndexes \ W) \in Nat
           /\ V # W => Cardinality(TxnIndexes \ W) < Cardinality(TxnIndexes \ V)
<1>1. IsFiniteSet(TxnIndexes) /\ Cardinality(TxnIndexes) = MAX_TRANSACTIONS - 1
  BY FS_Interval, GraphConstants DEF TxnIndexes
<1>2. /\ IsFiniteSet(TxnIndexes \ V) /\ IsFiniteSet(TxnIndexes \ W)
      /\ Cardinality(TxnIndexes \ V) <= MAX_TRANSACTIONS - 1
  BY <1>1, FS_Subset
<1>3. Cardinality(TxnIndexes \ V) \in Nat /\ Cardinality(TxnIndexes \ W) \in Nat
  BY <1>2, FS_CardinalityType
<1>4. ASSUME V # W PROVE Cardinality(TxnIndexes \ W) < Cardinality(TxnIndexes \ V)
  <2>1. (TxnIndexes \ W) \in SUBSET (TxnIndexes \ V) /\ TxnIndexes \ W # TxnIndexes \ V
    BY <1>4
  <2> QED
    BY <1>2, <1>3, <2>1, FS_Subset
<1> QED
  BY <1>2, <1>3, <1>4, GraphConstants

LEMMA RankFalls ==
    ASSUME NEW s \in Searches, NEW r \in Searches, s.visited \subseteq r.visited
    PROVE  /\ Rank(s) \in Nat /\ Rank(s) < MAX_TRANSACTIONS * (MAX_EDGES + 2)
           /\ s.visited = r.visited /\ s.i < r.i => Rank(r) < Rank(s)
           /\ s.visited # r.visited => Rank(r) < Rank(s)
<1> DEFINE a == Cardinality(TxnIndexes \ s.visited)
           b == Cardinality(TxnIndexes \ r.visited)
           w == MAX_EDGES + 2
<1>1. /\ s.visited \in SUBSET TxnIndexes /\ r.visited \in SUBSET TxnIndexes
      /\ s.i \in 1 .. MAX_EDGES + 1 /\ r.i \in 1 .. MAX_EDGES + 1
      /\ MAX_EDGES \in Nat /\ MAX_TRANSACTIONS \in Nat /\ w \in Nat
  BY GraphConstants DEF Searches
<1>2. /\ a \in Nat /\ b \in Nat /\ a < MAX_TRANSACTIONS
      /\ s.visited # r.visited => b < a
  <2>1. a \in 0 .. MAX_TRANSACTIONS - 1 /\ b \in Nat /\ (s.visited # r.visited => b < a)
    BY ONLY <1>1, s.visited \subseteq r.visited, UnvisitedCount
  <2> QED
    BY <1>1, <2>1
<1>3. /\ a * w \in Nat /\ b * w \in Nat /\ MAX_TRANSACTIONS * w \in Nat
      /\ a * w + w <= MAX_TRANSACTIONS * w
      /\ b < a => b * w + w <= a * w
  BY <1>1, <1>2, TimesLess
<1>4. s.visited = r.visited => a = b
  OBVIOUS
<1>5. Rank(s) = a * w + (w - 1 - s.i) /\ Rank(r) = b * w + (w - 1 - r.i)
  BY <1>1, <1>3 DEF Rank
<1> HIDE DEF a, b
<1> DEFINE aw == a * w
           bw == b * w
           mw == MAX_TRANSACTIONS * w
<1>6. aw \in Nat /\ bw \in Nat /\ mw \in Nat /\ aw + w <= mw /\ (b < a => bw + w <= aw)
      /\ (a = b => aw = bw)
  BY <1>3
<1>7. Rank(s) = aw + (w - 1 - s.i) /\ Rank(r) = bw + (w - 1 - r.i)
  BY <1>5
<1>8. MAX_TRANSACTIONS * (MAX_EDGES + 2) = mw
  OBVIOUS
<1> HIDE DEF aw, bw, mw
<1> QED
  BY <1>1, <1>2, <1>4, <1>6, <1>7, <1>8

-----------------------------------------------------------------------------
(* Where a search goes                                                     *)

LEMMA EdgeAt ==
    ASSUME GraphTypeOK, NEW i \in 1 .. Len(edges)
    PROVE  /\ edges[i] \in WaitForEdge /\ edges[i] \in Range(edges) /\ i <= MAX_EDGES
           /\ edges[i].from_txn \in TxnIndexes /\ edges[i].to_txn \in TxnIndexes
<1>1. edges \in Seq(WaitForEdge) /\ Len(edges) \in Nat /\ Len(edges) <= MAX_EDGES /\ MAX_EDGES \in Nat
  BY GraphConstants, LenProperties DEF GraphTypeOK
<1>2. edges[i] \in WaitForEdge /\ i \in DOMAIN edges
  BY <1>1, ElementOfSeq, LenProperties
<1> QED
  BY <1>1, <1>2 DEF Range, WaitForEdge

LEMMA NextEdgeIs ==
    ASSUME NEW s \in Searches, s.i <= MAX_EDGES
    PROVE  /\ NextEdge(s) \in Searches /\ NextEdge(s).i = s.i + 1 /\ NextEdge(s).txn = s.txn
           /\ NextEdge(s).visited = s.visited /\ NextEdge(s).rec_stack = s.rec_stack
           /\ NextEdge(s).cycle = s.cycle
           /\ Rank(NextEdge(s)) < Rank(s)
<1>1. /\ NextEdge(s) \in Searches /\ NextEdge(s).i = s.i + 1 /\ NextEdge(s).txn = s.txn
      /\ NextEdge(s).visited = s.visited /\ NextEdge(s).rec_stack = s.rec_stack
      /\ NextEdge(s).cycle = s.cycle
  BY GraphConstants DEF NextEdge, Searches
<1>2. s.i < s.i + 1
  BY GraphConstants DEF Searches
<1> QED
  BY <1>1, <1>2, RankFalls

LEMMA EnterIs ==
    ASSUME NEW t \in TxnIndexes, NEW s, s.visited \in SUBSET TxnIndexes, s.rec_stack \in SUBSET TxnIndexes
    PROVE  /\ Enter(t, s) \in Searches /\ Enter(t, s).i = 1 /\ Enter(t, s).txn = t
           /\ Enter(t, s).visited = s.visited \cup {t} /\ Enter(t, s).rec_stack = s.rec_stack \cup {t}
           /\ ~ Enter(t, s).cycle
           /\ s \in Searches /\ t \notin s.visited => Rank(Enter(t, s)) < Rank(s)
<1>1. /\ Enter(t, s) \in Searches /\ Enter(t, s).i = 1 /\ Enter(t, s).txn = t
      /\ Enter(t, s).visited = s.visited \cup {t} /\ Enter(t, s).rec_stack = s.rec_stack \cup {t}
      /\ ~ Enter(t, s).cycle
  BY GraphConstants DEF Enter, Searches
<1>2. ASSUME s \in Searches, t \notin s.visited PROVE Rank(Enter(t, s)) < Rank(s)
  BY <1>1, <1>2, RankFalls
<1> QED
  BY <1>1, <1>2

LEMMA ResumeIs ==
    ASSUME NEW s \in Searches, NEW r \in Searches, s.i <= MAX_EDGES
    PROVE  /\ Resume(s, r) \in Searches /\ Resume(s, r).i = s.i + 1 /\ Resume(s, r).txn = s.txn
           /\ Resume(s, r).visited = r.visited /\ Resume(s, r).rec_stack = r.rec_stack
           /\ Resume(s, r).cycle = r.cycle
           /\ s.visited \subseteq r.visited /\ s.visited # r.visited => Rank(Resume(s, r)) < Rank(s)
<1>1. /\ Resume(s, r) \in Searches /\ Resume(s, r).i = s.i + 1 /\ Resume(s, r).txn = s.txn
      /\ Resume(s, r).visited = r.visited /\ Resume(s, r).rec_stack = r.rec_stack
      /\ Resume(s, r).cycle = r.cycle
  <2>1. s.i + 1 \in 1 .. MAX_EDGES + 1
    BY GraphConstants DEF Searches
  <2> QED
    BY <2>1 DEF Resume, Searches
<1>2. ASSUME s.visited \subseteq r.visited, s.visited # r.visited PROVE Rank(Resume(s, r)) < Rank(s)
  BY <1>1, <1>2, RankFalls
<1> QED
  BY <1>1, <1>2

LEMMA LeaveIs ==
    ASSUME NEW s \in Searches
    PROVE  /\ Leave(s) \in Searches /\ Leave(s).visited = s.visited
           /\ Leave(s).rec_stack = s.rec_stack \ {s.txn} /\ Leave(s).cycle = s.cycle
BY DEF Leave, Searches

LEMMA MeetIs ==
    ASSUME NEW s \in Searches
    PROVE  LET r == [s EXCEPT !.cycle = TRUE] IN
           r \in Searches /\ r.visited = s.visited /\ r.cycle
BY DEF Searches

-----------------------------------------------------------------------------
(* The search is defined                                                   *)

\* What the search from s returns if f returns what the searches within it do.
Body(f, s) ==
    IF s.i > Len(edges) THEN Leave(s)
    ELSE LET e == edges[s.i] IN
         IF e.from_txn # s.txn THEN f[NextEdge(s)]
         ELSE IF e.to_txn \notin s.visited
         THEN LET found == f[Enter(e.to_txn, s)] IN
              IF found.cycle THEN found ELSE f[Resume(s, found)]
         ELSE IF e.to_txn \in s.rec_stack THEN [s EXCEPT !.cycle = TRUE]
         ELSE f[NextEdge(s)]

Fine(r, s) == r \in Searches /\ s.visited \subseteq r.visited

\* f is what the search returns wherever the rank is below n.
Solves(f, n) == \A s \in Searches : Rank(s) < n => f[s] = Body(f, s) /\ Fine(f[s], s)

LEMMA BodyIsLocal ==
    ASSUME GraphTypeOK, NEW s \in Searches, NEW f, NEW g,
           \A r \in Searches : Rank(r) < Rank(s) => g[r] = f[r] /\ Fine(f[r], r)
    PROVE  Body(g, s) = Body(f, s) /\ Fine(Body(f, s), s)
<1> DEFINE e == edges[s.i]
<1>1. CASE s.i > Len(edges)
  BY <1>1, LeaveIs DEF Body, Fine
<1>2. CASE ~ s.i > Len(edges)
  <2>1. s.i \in 1 .. Len(edges)
    BY <1>2, LenProperties, GraphConstants DEF Searches, GraphTypeOK
  <2>2. e \in WaitForEdge /\ s.i <= MAX_EDGES /\ e.to_txn \in TxnIndexes
    BY <2>1, EdgeAt
  <2>3. g[NextEdge(s)] = f[NextEdge(s)] /\ Fine(f[NextEdge(s)], s)
    BY <2>2, NextEdgeIs DEF Fine
  <2>4. CASE e.from_txn # s.txn \/ (e.to_txn \in s.visited /\ e.to_txn \notin s.rec_stack)
    <3>1. Body(g, s) = g[NextEdge(s)] /\ Body(f, s) = f[NextEdge(s)]
      BY <1>2, <2>4 DEF Body
    <3> QED
      BY <2>3, <3>1
  <2>5. CASE e.from_txn = s.txn /\ e.to_txn \in s.visited /\ e.to_txn \in s.rec_stack
    <3>1. Body(g, s) = [s EXCEPT !.cycle = TRUE] /\ Body(f, s) = [s EXCEPT !.cycle = TRUE]
      BY <1>2, <2>5 DEF Body
    <3> QED
      BY <3>1, MeetIs DEF Fine
  <2>6. CASE e.from_txn = s.txn /\ e.to_txn \notin s.visited
    <3> DEFINE found == f[Enter(e.to_txn, s)]
    <3>1. /\ Enter(e.to_txn, s) \in Searches /\ Rank(Enter(e.to_txn, s)) < Rank(s)
          /\ Enter(e.to_txn, s).visited = s.visited \cup {e.to_txn}
      <4>1. s.visited \in SUBSET TxnIndexes /\ s.rec_stack \in SUBSET TxnIndexes
        BY DEF Searches
      <4> QED
        BY <2>2, <2>6, <4>1, EnterIs
    <3>2. /\ g[Enter(e.to_txn, s)] = found /\ found \in Searches
          /\ s.visited \subseteq found.visited /\ e.to_txn \in found.visited
      BY <3>1 DEF Fine
    <3> HIDE DEF found
    <3>3. Resume(s, found) \in Searches /\ Rank(Resume(s, found)) < Rank(s)
          /\ Resume(s, found).visited = found.visited
      BY <2>2, <2>6, <3>2, ResumeIs
    <3>4. g[Resume(s, found)] = f[Resume(s, found)] /\ Fine(f[Resume(s, found)], s)
      BY <3>2, <3>3 DEF Fine
    <3>5. /\ Body(g, s) = IF found.cycle THEN found ELSE g[Resume(s, found)]
          /\ Body(f, s) = IF found.cycle THEN found ELSE f[Resume(s, found)]
      BY <1>2, <2>6, <3>2 DEF Body, found
    <3> QED
      BY <3>2, <3>4, <3>5 DEF Fine
  <2> QED
    BY <2>4, <2>5, <2>6
<1> QED
  BY <1>1, <1>2

LEMMA SolvesNext ==
    ASSUME GraphTypeOK, NEW n \in Nat, NEW f, Solves(f, n)
    PROVE  \E g : Solves(g, n + 1)
<1> DEFINE g == [s \in Searches |-> IF Rank(s) = n THEN Body(f, s) ELSE f[s]]
<1>1. \A s \in Searches : Rank(s) \in Nat
  BY RankFalls
<1>2. \A r \in Searches : Rank(r) < n => g[r] = f[r] /\ Fine(f[r], r)
  BY <1>1 DEF Solves
<1>3. \A s \in Searches : Rank(s) = n => g[s] = Body(f, s)
  OBVIOUS
<1> HIDE DEF g
<1>4. ASSUME NEW s \in Searches, Rank(s) < n + 1
      PROVE  g[s] = Body(g, s) /\ Fine(g[s], s)
  <2>1. Rank(s) <= n
    BY <1>1, <1>4
  <2>2. \A r \in Searches : Rank(r) < Rank(s) => g[r] = f[r] /\ Fine(f[r], r)
    BY <1>1, <1>2, <2>1
  <2>3. Body(g, s) = Body(f, s) /\ Fine(Body(f, s), s)
    BY <2>2, BodyIsLocal
  <2>4. g[s] = Body(f, s)
    <3>1. CASE Rank(s) = n
      BY <1>3, <3>1
    <3>2. CASE Rank(s) # n
      BY <1>1, <1>2, <2>1, <3>2 DEF Solves
    <3> QED
      BY <3>1, <3>2
  <2> QED
    BY <2>3, <2>4
<1>5. Solves(g, n + 1)
  BY <1>4 DEF Solves
<1> QED
  BY <1>5

\* The recursive definition has a solution, for the search ends.
LEMMA SearchEnds ==
    ASSUME GraphTypeOK
    PROVE  \A s \in Searches : has_cycle_dfs[s] = Body(has_cycle_dfs, s) /\ Fine(has_cycle_dfs[s], s)
<1> DEFINE T == {n \in Nat : ~ \E f : Solves(f, n)}
           K == MAX_TRANSACTIONS * (MAX_EDGES + 2)
<1>1. T = {}
  <2> SUFFICES ASSUME T # {} PROVE FALSE
    OBVIOUS
  <2>1. T \subseteq Nat
    OBVIOUS
  <2>2. PICK m \in T : \A k \in T : m <= k
    BY <2>1, Least
  <2>3. CASE m = 0
    <3>1. \A s \in Searches : ~ Rank(s) < 0
      BY RankFalls
    <3>2. \A f : Solves(f, 0)
      BY <3>1 DEF Solves
    <3> QED
      BY <2>3, <3>2
  <2>4. CASE m # 0
    <3>1. m - 1 \in Nat /\ m - 1 \notin T /\ (m - 1) + 1 = m
      BY <2>2, <2>4
    <3>2. PICK f : Solves(f, m - 1)
      BY <3>1
    <3>3. \E g : Solves(g, (m - 1) + 1)
      BY <3>1, <3>2, SolvesNext
    <3> QED
      BY <3>1, <3>3
  <2> QED
    BY <2>3, <2>4
<1>2. K \in Nat
  <2>1. MAX_TRANSACTIONS \in Nat /\ MAX_EDGES + 2 \in Nat /\ 0 \in Nat /\ 0 < MAX_TRANSACTIONS
    BY GraphConstants
  <2> QED
    BY <2>1, TimesLess
<1>3. PICK f : Solves(f, K)
  BY <1>1, <1>2
<1> DEFINE g == [s \in Searches |-> f[s]]
<1>4. g = [s \in Searches |-> Body(g, s)]
  <2>1. ASSUME NEW s \in Searches PROVE g[s] = Body(g, s)
    <3>1. \A r \in Searches : g[r] = f[r]
      OBVIOUS
    <3>2. \A r \in Searches : Rank(r) < K /\ Fine(f[r], r) /\ f[r] = Body(f, r)
      BY <1>3, RankFalls DEF Solves
    <3> HIDE DEF g
    <3>3. Body(g, s) = Body(f, s)
      BY <3>1, <3>2, BodyIsLocal
    <3> QED
      BY <3>1, <3>2, <3>3
  <2> QED
    BY <2>1
<1>5. \E h : h = [s \in Searches |-> Body(h, s)]
  BY <1>4
<1> DEFINE dfs == CHOOSE h : h = [s \in Searches |-> Body(h, s)]
<1>6. dfs = [s \in Searches |-> Body(dfs, s)]
  BY <1>5
<1>7. has_cycle_dfs = dfs
  BY DEF has_cycle_dfs, Body
<1> HIDE DEF dfs
<1>8. \A s \in Searches : has_cycle_dfs[s] = Body(has_cycle_dfs, s)
  BY <1>6, <1>7
<1> DEFINE B == {n \in Nat : \E s \in Searches : Rank(s) = n /\ ~ Fine(has_cycle_dfs[s], s)}
<1>9. B = {}
  <2> SUFFICES ASSUME B # {} PROVE FALSE
    OBVIOUS
  <2>1. B \subseteq Nat
    OBVIOUS
  <2>2. PICK m \in B : \A k \in B : m <= k
    BY <2>1, Least
  <2>3. PICK s \in Searches : Rank(s) = m /\ ~ Fine(has_cycle_dfs[s], s)
    BY <2>2
  <2>4. \A r \in Searches : Rank(r) < Rank(s) => Fine(has_cycle_dfs[r], r)
    <3> SUFFICES ASSUME NEW r \in Searches, Rank(r) < Rank(s), ~ Fine(has_cycle_dfs[r], r) PROVE FALSE
      OBVIOUS
    <3>1. Rank(r) \in Nat
      BY RankFalls
    <3>2. Rank(r) \in B
      BY <3>1
    <3> QED
      BY <2>1, <2>2, <2>3, <3>1, <3>2
  <2>5. Fine(Body(has_cycle_dfs, s), s)
    BY <2>4, BodyIsLocal
  <2> QED
    BY <1>8, <2>3, <2>5
<1>10. \A s \in Searches : Rank(s) \in Nat
  BY RankFalls
<1> QED
  BY <1>8, <1>9, <1>10

-----------------------------------------------------------------------------
(* What the search finds                                                   *)

\* Nobody in V waits for somebody outside, and no part of V is deadlocked.
Settled(V) ==
    /\ \A e \in Range(edges) : e.from_txn \in V => e.to_txn \in V
    /\ \A S \in SUBSET V : S # {} =>
          \E t \in S : \A e \in Range(edges) : e.from_txn = t => e.to_txn \notin S

Black(s) == s.visited \ s.rec_stack

\* Those on the recursion stack wait for one another up to the one that is searched
\* from, those that were left are settled, and the edges passed lead to them.
Pre(s) ==
    /\ ~ s.cycle /\ s.txn \in s.rec_stack /\ s.rec_stack \subseteq s.visited
    /\ \A t \in s.rec_stack \ {s.txn} : \E e \in Range(edges) : e.from_txn = t /\ e.to_txn \in s.rec_stack
    /\ Settled(Black(s))
    /\ \A j \in 1 .. Len(edges) : j < s.i /\ edges[j].from_txn = s.txn => edges[j].to_txn \in Black(s)

\* The search from s ends in r.
Post(r, s) ==
    /\ r.cycle => Deadlocked
    /\ ~ r.cycle => r.rec_stack = s.rec_stack \ {s.txn} /\ Settled(Black(r))

LEMMA PreNext ==
    ASSUME GraphTypeOK, NEW s \in Searches, Pre(s), s.i \in 1 .. Len(edges),
           edges[s.i].from_txn = s.txn => edges[s.i].to_txn \in Black(s)
    PROVE  Pre(NextEdge(s)) /\ \A r : Post(r, NextEdge(s)) => Post(r, s)
<1> DEFINE n == NextEdge(s)
<1>1. /\ n \in Searches /\ n.i = s.i + 1 /\ n.txn = s.txn /\ n.visited = s.visited
      /\ n.rec_stack = s.rec_stack /\ n.cycle = s.cycle
  BY EdgeAt, NextEdgeIs
<1>2. s.i \in Nat /\ Black(n) = Black(s)
  BY <1>1 DEF Black
<1> HIDE DEF n
<1>3. \A j \in 1 .. Len(edges) : j < n.i /\ edges[j].from_txn = n.txn => edges[j].to_txn \in Black(n)
  <2> SUFFICES ASSUME NEW j \in 1 .. Len(edges), j < n.i, edges[j].from_txn = n.txn
               PROVE  edges[j].to_txn \in Black(n)
    OBVIOUS
  <2>1. j < s.i \/ j = s.i
    BY <1>1, <1>2
  <2> QED
    BY <1>1, <1>2, <2>1 DEF Pre
<1>4. Pre(n)
  BY <1>1, <1>2, <1>3 DEF Pre
<1>5. \A r : Post(r, n) => Post(r, s)
  BY <1>1 DEF Post
<1> QED
  BY <1>4, <1>5 DEF n

LEMMA PreEnter ==
    ASSUME GraphTypeOK, NEW s \in Searches, Pre(s), s.i \in 1 .. Len(edges),
           edges[s.i].from_txn = s.txn, edges[s.i].to_txn \notin s.visited
    PROVE  Pre(Enter(edges[s.i].to_txn, s))
<1> DEFINE e == edges[s.i]
           n == Enter(e.to_txn, s)
<1>1. e \in Range(edges) /\ e.to_txn \in TxnIndexes
  BY EdgeAt
<1>2. s.visited \in SUBSET TxnIndexes /\ s.rec_stack \in SUBSET TxnIndexes
  BY DEF Searches
<1>3. /\ n.i = 1 /\ n.txn = e.to_txn /\ n.visited = s.visited \cup {e.to_txn}
      /\ n.rec_stack = s.rec_stack \cup {e.to_txn} /\ ~ n.cycle
  BY <1>1, <1>2, EnterIs
<1>4. e.from_txn = s.txn /\ e.to_txn \notin s.visited
  OBVIOUS
<1> HIDE DEF n, e
<1>5. Black(n) = Black(s)
  BY <1>3, <1>4 DEF Black
<1>6. \A t \in n.rec_stack \ {n.txn} : \E d \in Range(edges) : d.from_txn = t /\ d.to_txn \in n.rec_stack
  <2> SUFFICES ASSUME NEW t \in s.rec_stack
               PROVE  \E d \in Range(edges) : d.from_txn = t /\ d.to_txn \in n.rec_stack
    BY <1>3
  <2>1. CASE t = s.txn
    BY <1>1, <1>3, <1>4, <2>1
  <2>2. CASE t # s.txn
    BY <1>3, <2>2 DEF Pre
  <2> QED
    BY <2>1, <2>2
<1>7. \A j \in 1 .. Len(edges) : ~ j < n.i
  BY <1>3
<1>8. n.txn \in n.rec_stack /\ n.rec_stack \subseteq n.visited
  BY <1>3 DEF Pre
<1>9. Pre(n)
  BY <1>3, <1>5, <1>6, <1>7, <1>8 DEF Pre
<1> QED
  BY <1>9 DEF n, e

LEMMA PreResume ==
    ASSUME GraphTypeOK, NEW s \in Searches, Pre(s), s.i \in 1 .. Len(edges),
           edges[s.i].from_txn = s.txn, edges[s.i].to_txn \notin s.visited,
           NEW r, Fine(r, Enter(edges[s.i].to_txn, s)), Post(r, Enter(edges[s.i].to_txn, s)), ~ r.cycle
    PROVE  Pre(Resume(s, r)) /\ \A q : Post(q, Resume(s, r)) => Post(q, s)
<1> DEFINE e == edges[s.i]
           n == Resume(s, r)
<1>1. e.to_txn \in TxnIndexes /\ s.i <= MAX_EDGES /\ s.i \in Nat /\ r \in Searches
  BY EdgeAt DEF Fine
<1>2. s.visited \in SUBSET TxnIndexes /\ s.rec_stack \in SUBSET TxnIndexes
  BY DEF Searches
<1>3. /\ Enter(e.to_txn, s).visited = s.visited \cup {e.to_txn}
      /\ Enter(e.to_txn, s).rec_stack = s.rec_stack \cup {e.to_txn}
      /\ Enter(e.to_txn, s).txn = e.to_txn
  BY <1>1, <1>2, EnterIs
<1>4. s.visited \cup {e.to_txn} \subseteq r.visited
  BY <1>3 DEF Fine
<1>5. e.to_txn \notin s.rec_stack
  BY DEF Pre
<1>6. r.rec_stack = s.rec_stack /\ Settled(Black(r))
  BY <1>3, <1>5 DEF Post
<1>7. /\ n.i = s.i + 1 /\ n.txn = s.txn /\ n.visited = r.visited
      /\ n.rec_stack = s.rec_stack /\ ~ n.cycle
  BY <1>1, <1>6, ResumeIs
<1> HIDE DEF n
<1>8. Black(n) = Black(r) /\ Black(s) \subseteq Black(n) /\ e.to_txn \in Black(n)
  BY <1>4, <1>5, <1>6, <1>7 DEF Black
<1>9. \A j \in 1 .. Len(edges) : j < n.i /\ edges[j].from_txn = n.txn => edges[j].to_txn \in Black(n)
  <2> SUFFICES ASSUME NEW j \in 1 .. Len(edges), j < n.i, edges[j].from_txn = n.txn
               PROVE  edges[j].to_txn \in Black(n)
    OBVIOUS
  <2>1. j < s.i \/ j = s.i
    BY <1>1, <1>7
  <2> QED
    BY <1>7, <1>8, <2>1 DEF Pre
<1>10. Pre(n)
  BY <1>4, <1>6, <1>7, <1>8, <1>9 DEF Pre
<1>11. \A q : Post(q, n) => Post(q, s)
  BY <1>7 DEF Post
<1> QED
  BY <1>10, <1>11 DEF n

LEMMA PostMeet ==
    ASSUME GraphTypeOK, NEW s \in Searches, Pre(s), s.i \in 1 .. Len(edges),
           edges[s.i].from_txn = s.txn, edges[s.i].to_txn \in s.rec_stack
    PROVE  Deadlocked
<1>1. edges[s.i] \in Range(edges)
  BY EdgeAt
<1>2. s.rec_stack \in (SUBSET TxnIndexes) \ {{}}
  <2>1. s.rec_stack \subseteq TxnIndexes
    BY DEF Searches
  <2>2. s.rec_stack \notin {{}}
    BY DEF Pre
  <2>3. s.rec_stack \in SUBSET TxnIndexes
    BY <2>1
  <2> QED
    BY <2>2, <2>3
<1>3. \A t \in s.rec_stack : \E e \in Range(edges) : e.from_txn = t /\ e.to_txn \in s.rec_stack
  <2> SUFFICES ASSUME NEW t \in s.rec_stack
               PROVE  \E e \in Range(edges) : e.from_txn = t /\ e.to_txn \in s.rec_stack
    OBVIOUS
  <2>1. CASE t = s.txn
    BY <1>1, <2>1
  <2>2. CASE t # s.txn
    BY <2>2 DEF Pre
  <2> QED
    BY <2>1, <2>2
<1> QED
  BY <1>2, <1>3 DEF Deadlocked

LEMMA PostLeave ==
    ASSUME GraphTypeOK, NEW s \in Searches, Pre(s), s.i > Len(edges)
    PROVE  Post(Leave(s), s)
<1> DEFINE r == Leave(s)
           V == Black(s)
<1>1. /\ r.visited = s.visited /\ r.rec_stack = s.rec_stack \ {s.txn} /\ ~ r.cycle
  BY LeaveIs DEF Pre
<1>2. Black(r) = V \cup {s.txn} /\ s.txn \notin V
  BY <1>1 DEF Black, Pre
<1>3. \A e \in Range(edges) : e.from_txn = s.txn => e.to_txn \in V
  <2> SUFFICES ASSUME NEW e \in Range(edges), e.from_txn = s.txn PROVE e.to_txn \in V
    OBVIOUS
  <2>1. PICK j \in DOMAIN edges : e = edges[j]
    BY DEF Range
  <2>2. j \in 1 .. Len(edges) /\ s.i \in Nat
    BY LenProperties DEF GraphTypeOK, Searches
  <2>3. j < s.i
    BY <2>2, LenProperties DEF GraphTypeOK
  <2> QED
    BY <2>1, <2>2, <2>3 DEF Pre
<1>4. Settled(V)
  BY DEF Pre
<1> HIDE DEF r, V
<1>5. \A e \in Range(edges) : e.from_txn \in Black(r) => e.to_txn \in Black(r)
  BY <1>2, <1>3, <1>4 DEF Settled
<1>6. ASSUME NEW S \in SUBSET Black(r), S # {}
      PROVE  \E t \in S : \A e \in Range(edges) : e.from_txn = t => e.to_txn \notin S
  <2> DEFINE U == S \ {s.txn}
  <2>1. U \in SUBSET V
    BY <1>2, <1>6
  <2>2. CASE U = {}
    <3>1. S = {s.txn}
      BY <1>6, <2>2
    <3> QED
      BY <1>2, <1>3, <3>1
  <2>3. CASE U # {}
    <3>1. PICK t \in U : \A e \in Range(edges) : e.from_txn = t => e.to_txn \notin U
      BY <1>4, <2>1, <2>3 DEF Settled
    <3>2. \A e \in Range(edges) : e.from_txn = t => e.to_txn \in V
      BY <1>4, <2>1 DEF Settled
    <3> QED
      BY <1>2, <3>1, <3>2
  <2> QED
    BY <2>2, <2>3
<1>7. Settled(Black(r))
  BY <1>5, <1>6 DEF Settled
<1> QED
  BY <1>1, <1>7 DEF Post, r

\* A search reports a cycle only if there is one, and settles all that it visits
\* if it reports none.
LEMMA SearchIsRight ==
    ASSUME GraphTypeOK
    PROVE  \A s \in Searches : Pre(s) => Post(has_cycle_dfs[s], s)
<1> DEFINE f == has_cycle_dfs
           Right(s) == Pre(s) => Post(f[s], s)
           B == {n \in Nat : \E s \in Searches : Rank(s) = n /\ ~ Right(s)}
<1>1. \A s \in Searches : Rank(s) \in Nat
  BY RankFalls
<1>2. \A s \in Searches : f[s] = Body(f, s) /\ Fine(f[s], s)
  BY SearchEnds
<1> HIDE DEF f
<1>3. ASSUME NEW s \in Searches, \A r \in Searches : Rank(r) < Rank(s) => Right(r), Pre(s)
      PROVE  Post(f[s], s)
  <2> DEFINE e == edges[s.i]
  <2>1. CASE s.i > Len(edges)
    BY <1>2, <1>3, <2>1, PostLeave DEF Body
  <2>2. CASE ~ s.i > Len(edges)
    <3>1. s.i \in 1 .. Len(edges) /\ s.i <= MAX_EDGES
      BY <2>2, LenProperties, GraphConstants DEF Searches, GraphTypeOK
    <3>2. CASE e.from_txn # s.txn \/ (e.to_txn \in s.visited /\ e.to_txn \notin s.rec_stack)
      <4>1. f[s] = f[NextEdge(s)]
        BY <1>2, <2>2, <3>2 DEF Body
      <4>2. NextEdge(s) \in Searches /\ Rank(NextEdge(s)) < Rank(s)
        BY <3>1, NextEdgeIs
      <4>3. e.from_txn = s.txn => e.to_txn \in Black(s)
        BY <3>2 DEF Black
      <4>4. Pre(NextEdge(s)) /\ \A r : Post(r, NextEdge(s)) => Post(r, s)
        BY <1>3, <3>1, <4>3, PreNext
      <4> QED
        BY <1>3, <4>1, <4>2, <4>4
    <3>3. CASE e.from_txn = s.txn /\ e.to_txn \in s.visited /\ e.to_txn \in s.rec_stack
      <4>1. f[s] = [s EXCEPT !.cycle = TRUE]
        BY <1>2, <2>2, <3>3 DEF Body
      <4>2. Deadlocked
        BY <1>3, <3>1, <3>3, PostMeet
      <4>3. f[s].cycle
        BY <4>1, MeetIs
      <4> QED
        BY <4>2, <4>3 DEF Post
    <3>4. CASE e.from_txn = s.txn /\ e.to_txn \notin s.visited
      <4> DEFINE n == Enter(e.to_txn, s)
                 found == f[n]
      <4>1. n \in Searches /\ Rank(n) < Rank(s) /\ n.visited = s.visited \cup {e.to_txn}
        <5>1. e.to_txn \in TxnIndexes /\ s.visited \in SUBSET TxnIndexes /\ s.rec_stack \in SUBSET TxnIndexes
          BY <3>1, EdgeAt DEF Searches
        <5> QED
          BY <3>4, <5>1, EnterIs
      <4>2. Pre(n)
        BY <1>3, <3>1, <3>4, PreEnter
      <4>3. Fine(found, n) /\ Post(found, n)
        BY <1>2, <1>3, <4>1, <4>2
      <4>4. f[s] = IF found.cycle THEN found ELSE f[Resume(s, found)]
        BY <1>2, <2>2, <3>4 DEF Body
      <4>5. CASE found.cycle
        BY <4>3, <4>4, <4>5 DEF Post
      <4>6. CASE ~ found.cycle
        <5>1. Pre(Resume(s, found)) /\ \A q : Post(q, Resume(s, found)) => Post(q, s)
          BY <1>3, <3>1, <3>4, <4>3, <4>6, PreResume
        <5>2. Resume(s, found) \in Searches /\ Rank(Resume(s, found)) < Rank(s)
          <6>1. found \in Searches /\ s.visited \subseteq found.visited /\ s.visited # found.visited
            BY <3>4, <4>1, <4>3 DEF Fine
          <6> QED
            BY <3>1, <6>1, ResumeIs
        <5> QED
          BY <1>3, <4>4, <4>6, <5>1, <5>2
      <4> QED
        BY <4>5, <4>6
    <3> QED
      BY <3>2, <3>3, <3>4
  <2> QED
    BY <2>1, <2>2
<1> HIDE DEF Right
<1>4. B = {}
  <2> SUFFICES ASSUME B # {} PROVE FALSE
    OBVIOUS
  <2>1. PICK m \in B : \A k \in B : m <= k
    BY Least
  <2>2. PICK s \in Searches : Rank(s) = m /\ ~ Right(s)
    BY <2>1
  <2>3. \A r \in Searches : Rank(r) < Rank(s) => Right(r)
    <3> SUFFICES ASSUME NEW r \in Searches, Rank(r) < Rank(s), ~ Right(r) PROVE FALSE
      OBVIOUS
    <3>1. Rank(r) \in B
      BY <1>1
    <3> QED
      BY <1>1, <2>1, <2>2, <3>1
  <2> QED
    BY <1>3, <2>2, <2>3 DEF Right
<1> QED
  BY <1>1, <1>4 DEF Right, f

-----------------------------------------------------------------------------
(* Detection                                                               *)

\* f holds the arrays after the searches from the first n listed transactions.
Follows(f, n) ==
    f = [k \in 0 .. n |->
           IF k = 0 THEN [visited |-> {}, rec_stack |-> {}, cycle |-> FALSE]
           ELSE LET before == f[k - 1] IN
                IF before.cycle \/ transactions[k] \in before.visited THEN before
                ELSE has_cycle_dfs[Enter(transactions[k], before)]]

LEMMA FollowsExists ==
    ASSUME NEW n \in Nat
    PROVE  \E f : Follows(f, n)
<1> DEFINE none == [visited |-> {}, rec_stack |-> {}, cycle |-> FALSE]
           next(a, k) == IF a.cycle \/ transactions[k] \in a.visited THEN a
                         ELSE has_cycle_dfs[Enter(transactions[k], a)]
           T == {m \in Nat : ~ \E f : Follows(f, m)}
<1>1. \A f, m : Follows(f, m) <=> f = [k \in 0 .. m |-> IF k = 0 THEN none ELSE next(f[k - 1], k)]
  BY DEF Follows
<1> HIDE DEF none, next
<1> SUFFICES ASSUME T # {} PROVE FALSE
  OBVIOUS
<1>2. PICK m \in T : \A k \in T : m <= k
  BY Least
<1>3. CASE m = 0
  <2> DEFINE f == [k \in 0 .. 0 |-> none]
  <2>1. f = [k \in 0 .. 0 |-> IF k = 0 THEN none ELSE next(f[k - 1], k)]
    OBVIOUS
  <2>2. Follows(f, 0)
    BY <1>1, <2>1
  <2> QED
    BY <1>3, <2>2
<1>4. CASE m # 0
  <2>1. m - 1 \in Nat /\ m - 1 \notin T
    BY <1>2, <1>4
  <2>2. PICK f : Follows(f, m - 1)
    BY <2>1
  <2> DEFINE g == [k \in 0 .. m |-> IF k < m THEN f[k] ELSE next(f[m - 1], m)]
  <2>3. ASSUME NEW k \in 0 .. m
        PROVE  g[k] = IF k = 0 THEN none ELSE next(g[k - 1], k)
    <3>1. CASE k = m
      <4>1. g[k] = next(f[m - 1], m) /\ g[m - 1] = f[m - 1]
        BY <2>1, <3>1
      <4> QED
        BY <1>4, <3>1, <4>1
    <3>2. CASE k # m
      <4>1. k \in 0 .. m - 1 /\ g[k] = f[k] /\ (k # 0 => g[k - 1] = f[k - 1])
        BY <2>1, <3>2
      <4>2. f[k] = IF k = 0 THEN none ELSE next(f[k - 1], k)
        BY <1>1, <2>2, <4>1
      <4> QED
        BY <4>1, <4>2
    <3> QED
      BY <3>1, <3>2
  <2>4. Follows(g, m)
    BY <1>1, <2>3
  <2> QED
    BY <2>4
<1> QED
  BY <1>3, <1>4

LEMMA SearchedFollows ==
    ASSUME GraphTypeOK
    PROVE  Follows(Searched, Len(transactions))
<1>1. Len(transactions) \in Nat
  BY LenProperties DEF GraphTypeOK
<1> DEFINE f == CHOOSE f : Follows(f, Len(transactions))
<1>2. Follows(f, Len(transactions))
  BY <1>1, FollowsExists
<1>3. Searched = f
  BY DEF Searched, Follows
<1> QED
  BY <1>2, <1>3

\* The arrays a say what the searches from the first n transactions have found.
Settles(a, n) ==
    /\ a.cycle => Deadlocked
    /\ ~ a.cycle => /\ a.rec_stack = {} /\ a.visited \in SUBSET TxnIndexes /\ Settled(a.visited)
                    /\ \A k \in 1 .. n : transactions[k] \in a.visited

LEMMA SettlesNext ==
    ASSUME GraphTypeOK, NEW n \in 1 .. Len(transactions), NEW a, Settles(a, n - 1), ~ a.cycle,
           transactions[n] \notin a.visited
    PROVE  Settles(has_cycle_dfs[Enter(transactions[n], a)], n)
<1> DEFINE t == transactions[n]
           s == Enter(t, a)
           r == has_cycle_dfs[s]
<1>1. t \in TxnIndexes
  BY ElementOfSeq, LenProperties DEF GraphTypeOK
<1>2. a.rec_stack = {} /\ a.visited \in SUBSET TxnIndexes /\ Settled(a.visited)
  BY DEF Settles
<1>3. /\ s \in Searches /\ s.i = 1 /\ s.txn = t /\ s.visited = a.visited \cup {t}
      /\ s.rec_stack = {t} /\ ~ s.cycle
  BY <1>1, <1>2, EnterIs
<1> HIDE DEF s
<1>4. Black(s) = a.visited
  BY <1>3 DEF Black
<1>5. Pre(s)
  BY <1>2, <1>3, <1>4 DEF Pre
<1>6. Fine(r, s) /\ Post(r, s)
  BY <1>3, <1>5, SearchEnds, SearchIsRight
<1> HIDE DEF r
<1>7. CASE r.cycle
  BY <1>6, <1>7 DEF Post, Settles, r, s
<1>8. CASE ~ r.cycle
  <2>1. r.rec_stack = {} /\ Settled(Black(r))
    BY <1>3, <1>6, <1>8 DEF Post
  <2>2. Black(r) = r.visited /\ r.visited \in SUBSET TxnIndexes
    BY <1>6, <2>1 DEF Black, Fine, Searches
  <2>3. \A k \in 1 .. n : transactions[k] \in r.visited
    <3> SUFFICES ASSUME NEW k \in 1 .. n PROVE transactions[k] \in r.visited
      OBVIOUS
    <3>1. CASE k = n
      BY <1>3, <1>6, <3>1 DEF Fine
    <3>2. CASE k # n
      <4>1. k \in 1 .. n - 1
        BY <3>2, LenProperties DEF GraphTypeOK
      <4> QED
        BY <1>3, <1>6, <4>1 DEF Settles, Fine
    <3> QED
      BY <3>1, <3>2
  <2> QED
    BY <1>8, <2>1, <2>2, <2>3 DEF Settles, r, s
<1> QED
  BY <1>7, <1>8

LEMMA SearchedSettles ==
    ASSUME GraphTypeOK
    PROVE  Settles(Searched[Len(transactions)], Len(transactions))
<1> DEFINE L == Len(transactions)
           B == {n \in 0 .. L : ~ Settles(Searched[n], n)}
<1>1. L \in Nat
  BY LenProperties DEF GraphTypeOK
<1>2. Searched[0] = [visited |-> {}, rec_stack |-> {}, cycle |-> FALSE]
  <2>1. 0 \in 0 .. L
    BY <1>1
  <2> QED
    BY <2>1, SearchedFollows DEF Follows
<1>3. \A n \in 1 .. L : Searched[n] = LET before == Searched[n - 1] IN
                                      IF before.cycle \/ transactions[n] \in before.visited THEN before
                                      ELSE has_cycle_dfs[Enter(transactions[n], before)]
  <2> SUFFICES ASSUME NEW n \in 1 .. L
               PROVE  Searched[n] = LET before == Searched[n - 1] IN
                                    IF before.cycle \/ transactions[n] \in before.visited THEN before
                                    ELSE has_cycle_dfs[Enter(transactions[n], before)]
    OBVIOUS
  <2>1. n \in 0 .. L /\ n # 0
    BY <1>1
  <2> QED
    BY <2>1, SearchedFollows DEF Follows
<1>4. B = {}
  <2> SUFFICES ASSUME B # {} PROVE FALSE
    OBVIOUS
  <2>1. B \subseteq Nat
    BY <1>1
  <2>2. PICK n \in B : \A k \in B : n <= k
    BY <2>1, Least
  <2>3. n \in 0 .. L /\ ~ Settles(Searched[n], n)
    OBVIOUS
  <2>4. CASE n = 0
    <3>1. Settled({})
      BY DEF Settled
    <3>2. Settles(Searched[0], 0)
      BY <1>2, <3>1 DEF Settles
    <3> QED
      BY <2>3, <2>4, <3>2
  <2>5. CASE n # 0
    <3> DEFINE a == Searched[n - 1]
    <3>1. n \in 1 .. L /\ n - 1 \in 0 .. L /\ n - 1 \notin B
      BY <1>1, <2>2, <2>3, <2>5
    <3>2. Settles(a, n - 1)
      BY <3>1
    <3>3. Searched[n] = IF a.cycle \/ transactions[n] \in a.visited THEN a
                        ELSE has_cycle_dfs[Enter(transactions[n], a)]
      BY <1>3, <3>1
    <3> HIDE DEF a, B
    <3>4. CASE a.cycle
      BY <2>3, <3>2, <3>3, <3>4 DEF Settles
    <3>5. CASE ~ a.cycle /\ transactions[n] \in a.visited
      <4>1. \A k \in 1 .. n : k = n \/ k \in 1 .. n - 1
        BY <3>1, <1>1
      <4>2. Settles(a, n)
        BY <3>2, <3>5, <4>1 DEF Settles
      <4> QED
        BY <2>3, <3>3, <3>5, <4>2
    <3>6. CASE ~ a.cycle /\ transactions[n] \notin a.visited
      <4>1. Settles(has_cycle_dfs[Enter(transactions[n], a)], n)
        BY <3>1, <3>2, <3>6, SettlesNext
      <4> QED
        BY <2>3, <3>3, <3>6, <4>1
    <3> QED
      BY <3>4, <3>5, <3>6
  <2> QED
    BY <2>3, <2>4, <2>5
<1>5. L \in 0 .. L /\ L \notin B
  BY <1>1, <1>4
<1> QED
  BY <1>5

\* The transactions of the edges are listed.
EdgesListed == \A e \in Range(edges) : {e.from_txn, e.to_txn} \subseteq Range(transactions)

LEMMA DetectionIsExact ==
    ASSUME GraphTypeOK, EdgesListed
    PROVE  DetectIsExact
<1> DEFINE a == Searched[Len(transactions)]
<1>1. Settles(a, Len(transactions)) /\ (deadlock_detector_detect <=> a.cycle)
  BY SearchedSettles DEF deadlock_detector_detect
<1> HIDE DEF a
<1>2. ASSUME ~ a.cycle, Deadlocked PROVE FALSE
  <2>1. PICK S \in (SUBSET TxnIndexes) \ {{}} :
           \A t \in S : \E e \in Range(edges) : e.from_txn = t /\ e.to_txn \in S
    BY <1>2 DEF Deadlocked
  <2>2. Range(transactions) \subseteq a.visited
    <3>1. DOMAIN transactions = 1 .. Len(transactions)
      BY LenProperties DEF GraphTypeOK
    <3> QED
      BY <1>1, <1>2, <3>1 DEF Range, Settles
  <2>3. S \in SUBSET a.visited /\ S # {}
    <3>1. S # {} /\ \A t \in S : \E e \in Range(edges) : e.from_txn = t
      BY <2>1
    <3>2. \A t \in S : t \in Range(transactions)
      BY <3>1 DEF EdgesListed
    <3> QED
      BY <2>2, <3>1, <3>2
  <2>4. Settled(a.visited)
    BY <1>1, <1>2 DEF Settles
  <2> QED
    BY <2>1, <2>3, <2>4 DEF Settled
<1> QED
  BY <1>1, <1>2 DEF Settles, DetectIsExact

-----------------------------------------------------------------------------
(* The lists of the graph                                                  *)

Distinct(s) == \A i, j \in 1 .. Len(s) : s[i] = s[j] => i = j

LEMMA RangeIs ==
    ASSUME NEW S, NEW s \in Seq(S)
    PROVE  /\ Len(s) \in Nat /\ DOMAIN s = 1 .. Len(s)
           /\ Range(s) = {s[i] : i \in 1 .. Len(s)} /\ Range(s) \subseteq S
BY ElementOfSeq, LenProperties DEF Range

\* What a selection leaves: no element that was not there, none of those it spares
\* is lost, and none comes twice that did not.
LEMMA SelectionHas ==
    ASSUME NEW S, NEW s \in Seq(S), NEW I
    PROVE  /\ Selection(s, I) \in Seq(S) /\ Len(Selection(s, I)) <= Len(s)
           /\ \A x : x \in Range(Selection(s, I)) <=> \E i \in 1 .. Len(s) : i \in I /\ x = s[i]
           /\ Distinct(s) => Distinct(Selection(s, I))
<1> DEFINE t == Selection(s, I)
<1>1. t \in Seq(S) /\ \E at : Picks(at, t, s, I, Len(s))
  BY SelectionIs
<1> HIDE DEF t
<1>2. PICK at : Picks(at, t, s, I, Len(s))
  BY <1>1
<1>3. /\ Len(s) \in Nat /\ Len(t) \in Nat /\ DOMAIN t = 1 .. Len(t)
      /\ Range(t) = {t[k] : k \in 1 .. Len(t)}
  BY <1>1, RangeIs
<1>4. Len(t) <= Len(s)
  <2>1. Len(t) = Cardinality(I \cap (1 .. Len(s)))
    BY <1>1, <1>2, PicksCount
  <2>2. IsFiniteSet(1 .. Len(s)) /\ Cardinality(1 .. Len(s)) = Len(s)
    <3>1. IsFiniteSet(1 .. Len(s)) /\ Cardinality(1 .. Len(s)) = IF 1 > Len(s) THEN 0 ELSE Len(s) - 1 + 1
      BY <1>3, FS_Interval, 1 \in Int, Len(s) \in Int
    <3> QED
      BY <1>3, <3>1
  <2>3. I \cap (1 .. Len(s)) \in SUBSET (1 .. Len(s))
    OBVIOUS
  <2> QED
    BY <2>1, <2>2, <2>3, FS_Subset
<1>5. ASSUME NEW x PROVE x \in Range(t) <=> \E i \in 1 .. Len(s) : i \in I /\ x = s[i]
  <2>1. ASSUME x \in Range(t) PROVE \E i \in 1 .. Len(s) : i \in I /\ x = s[i]
    <3>1. PICK k \in 1 .. Len(t) : x = t[k]
      BY <1>3, <2>1
    <3>2. at[k] \in 1 .. Len(s) /\ at[k] \in I /\ t[k] = s[at[k]]
      BY <1>2 DEF Picks
    <3> QED
      BY <3>1, <3>2
  <2>2. ASSUME NEW i \in 1 .. Len(s), i \in I, x = s[i] PROVE x \in Range(t)
    <3>1. PICK k \in 1 .. Len(t) : at[k] = i
      BY <1>2, <2>2 DEF Picks
    <3>2. t[k] = s[i]
      BY <1>2, <3>1 DEF Picks
    <3> QED
      BY <1>3, <2>2, <3>2
  <2> QED
    BY <2>1, <2>2
<1>6. ASSUME Distinct(s) PROVE Distinct(t)
  <2> SUFFICES ASSUME NEW j \in 1 .. Len(t), NEW k \in 1 .. Len(t), t[j] = t[k], j # k PROVE FALSE
    BY DEF Distinct
  <2>1. /\ at[j] \in 1 .. Len(s) /\ at[k] \in 1 .. Len(s)
        /\ t[j] = s[at[j]] /\ t[k] = s[at[k]]
        /\ (j < k => at[j] < at[k]) /\ (k < j => at[k] < at[j])
    BY <1>2 DEF Picks
  <2>2. at[j] = at[k]
    BY <1>6, <2>1 DEF Distinct
  <2>3. j < k \/ k < j
    BY <1>3
  <2> QED
    BY <1>3, <2>1, <2>2, <2>3
<1> QED
  BY <1>1, <1>4, <1>5, <1>6 DEF t

LEMMA FewAreDistinct ==
    ASSUME NEW list \in Seq(TxnIndexes), Distinct(list)
    PROVE  Len(list) <= MAX_TRANSACTIONS - 1
<1>1. Len(list) \in Nat /\ \A i \in 1 .. Len(list) : list[i] \in TxnIndexes
  BY ElementOfSeq, LenProperties
<1> DEFINE f == [i \in 1 .. Len(list) |-> list[i]]
<1>2. f \in [1 .. Len(list) -> TxnIndexes] /\ \A i, j \in 1 .. Len(list) : f[i] = f[j] => i = j
  BY <1>1 DEF Distinct
<1>3. f \in Injection(1 .. Len(list), TxnIndexes)
  BY <1>2, Fun_IsInj
<1>4. IsFiniteSet(TxnIndexes) /\ Cardinality(TxnIndexes) = MAX_TRANSACTIONS - 1
  BY FS_Interval, GraphConstants DEF TxnIndexes
<1>5. Cardinality(1 .. Len(list)) = Len(list)
  <2>1. Cardinality(1 .. Len(list)) = IF 1 > Len(list) THEN 0 ELSE Len(list) - 1 + 1
    BY <1>1, FS_Interval, 1 \in Int, Len(list) \in Int
  <2> QED
    BY <1>1, <2>1
<1>6. Cardinality(1 .. Len(list)) <= Cardinality(TxnIndexes)
  BY <1>3, <1>4, FS_Injection
<1> QED
  BY <1>4, <1>5, <1>6

\* There is room for every transaction.
LEMMA ListedIs ==
    ASSUME NEW list \in Seq(TxnIndexes), Distinct(list), NEW t \in TxnIndexes
    PROVE  /\ Listed(list, t) \in Seq(TxnIndexes) /\ Distinct(Listed(list, t))
           /\ Range(Listed(list, t)) = Range(list) \cup {t}
<1>1. CASE t \in Range(list)
  BY <1>1 DEF Listed
<1>2. CASE t \notin Range(list)
  <2> DEFINE more == Append(list, t)
  <2>1. Len(list) \in Nat /\ Len(list) < MAX_TRANSACTIONS
    BY FewAreDistinct, LenProperties, GraphConstants
  <2>2. Listed(list, t) = more
    BY <1>2, <2>1, GraphConstants DEF Listed
  <2>3. /\ more \in Seq(TxnIndexes) /\ Len(more) = Len(list) + 1
        /\ more[Len(list) + 1] = t /\ \A i \in 1 .. Len(list) : more[i] = list[i]
    BY AppendProperties
  <2> HIDE DEF more
  <2>4. /\ Range(list) = {list[i] : i \in 1 .. Len(list)}
        /\ Range(more) = {more[i] : i \in 1 .. Len(list) + 1}
    BY <2>3, RangeIs
  <2>5. \A i \in 1 .. Len(list) + 1 : i = Len(list) + 1 \/ i \in 1 .. Len(list)
    BY <2>1
  <2>6. Range(more) = Range(list) \cup {t}
    <3>1. ASSUME NEW x PROVE x \in Range(more) => x \in Range(list) \cup {t}
      BY <2>3, <2>4, <2>5
    <3>2. ASSUME NEW x \in Range(list) PROVE x \in Range(more)
      <4>1. PICK i \in 1 .. Len(list) : x = list[i]
        BY <2>4
      <4>2. i \in 1 .. Len(list) + 1 /\ x = more[i]
        BY <2>1, <2>3, <4>1
      <4> QED
        BY <2>4, <4>2
    <3>3. t \in Range(more)
      <4>1. Len(list) + 1 \in 1 .. Len(list) + 1
        BY <2>1
      <4> QED
        BY <2>3, <2>4, <4>1
    <3> QED
      BY <3>1, <3>2, <3>3
  <2>7. \A i \in 1 .. Len(list) : more[i] # t
    BY <1>2, <2>3, <2>4
  <2>8. Distinct(more)
    BY <2>1, <2>3, <2>5, <2>7 DEF Distinct
  <2> QED
    BY <2>2, <2>3, <2>6, <2>8
<1> QED
  BY <1>1, <1>2

-----------------------------------------------------------------------------
(* The detector                                                            *)

\* An edge whose transactions are not listed would not be searched; that the list
\* never lacks room takes that it holds nobody twice.
GraphInv == GraphTypeOK /\ EdgesListed /\ Distinct(transactions)

LEMMA GraphInitInv ==
    GraphInit => GraphInv
<1> SUFFICES ASSUME GraphInit PROVE GraphInv
  OBVIOUS
<1>1. << >> \in Seq(WaitForEdge) /\ << >> \in Seq(TxnIndexes) /\ Len(<< >>) = 0 /\ DOMAIN << >> = 1 .. 0
  BY LenProperties
<1>2. Range(<< >>) = {}
  BY <1>1 DEF Range
<1> QED
  BY <1>1, <1>2, GraphConstants DEF GraphInit, GraphInv, GraphTypeOK, EdgesListed, Distinct

LEMMA AddEdgeKeeps ==
    ASSUME GraphInv, NEW f \in TxnIndexes, NEW t \in TxnIndexes, deadlock_detector_add_edge(f, t)
    PROVE  GraphInv'
<1> DEFINE e == [from_txn |-> f, to_txn |-> t]
<1>1. /\ edges \in Seq(WaitForEdge) /\ transactions \in Seq(TxnIndexes) /\ Distinct(transactions)
      /\ Len(edges) < MAX_EDGES /\ edges' = Append(edges, e)
      /\ transactions' = Listed(Listed(transactions, f), t) /\ policy' = policy /\ policy \in Policies
  BY DEF GraphInv, GraphTypeOK, deadlock_detector_add_edge
<1>2. e \in WaitForEdge /\ e.from_txn = f /\ e.to_txn = t
  BY DEF WaitForEdge
<1> HIDE DEF e
<1>3. /\ Listed(transactions, f) \in Seq(TxnIndexes) /\ Distinct(Listed(transactions, f))
      /\ Range(Listed(transactions, f)) = Range(transactions) \cup {f}
  BY <1>1, ListedIs
<1>4. /\ transactions' \in Seq(TxnIndexes) /\ Distinct(transactions)'
      /\ Range(transactions') = Range(transactions) \cup {f, t}
  <2>1. /\ transactions' \in Seq(TxnIndexes) /\ Distinct(transactions')
        /\ Range(transactions') = Range(Listed(transactions, f)) \cup {t}
    BY <1>1, <1>3, ListedIs
  <2> QED
    BY <1>3, <2>1
<1>5. Len(transactions') <= MAX_TRANSACTIONS
  <2>1. Len(transactions') <= MAX_TRANSACTIONS - 1
    BY <1>4, FewAreDistinct
  <2> QED
    BY <1>4, <2>1, LenProperties, GraphConstants
<1>6. /\ edges' \in Seq(WaitForEdge) /\ Len(edges') = Len(edges) + 1 /\ Len(edges) \in Nat
      /\ edges'[Len(edges) + 1] = e /\ \A i \in 1 .. Len(edges) : edges'[i] = edges[i]
  BY <1>1, <1>2, AppendProperties, LenProperties
<1>7. \A d \in Range(edges') : d = e \/ d \in Range(edges)
  <2> SUFFICES ASSUME NEW d \in Range(edges') PROVE d = e \/ d \in Range(edges)
    OBVIOUS
  <2>1. PICK i \in 1 .. Len(edges) + 1 : d = edges'[i]
    BY <1>6, RangeIs
  <2>2. i = Len(edges) + 1 \/ i \in 1 .. Len(edges)
    BY <1>6
  <2> QED
    BY <1>1, <1>6, <2>1, <2>2, RangeIs
<1>8. EdgesListed'
  BY <1>2, <1>4, <1>7 DEF GraphInv, EdgesListed
<1>9. Len(edges') <= MAX_EDGES
  BY <1>1, <1>6, GraphConstants
<1> QED
  BY <1>1, <1>4, <1>5, <1>6, <1>8, <1>9 DEF GraphInv, GraphTypeOK

\* Edges go, and a transaction only with its edges.
LEMMA LessKeeps ==
    ASSUME GraphInv, NEW I, edges' = Selection(edges, I), policy' = policy,
           \/ transactions' = transactions
           \/ \E v : /\ I = Without(v)
                     /\ transactions' = Selection(transactions, {i \in DOMAIN transactions : transactions[i] # v})
    PROVE  GraphInv'
<1>1. /\ edges \in Seq(WaitForEdge) /\ transactions \in Seq(TxnIndexes) /\ Distinct(transactions)
      /\ Len(edges) \in Nat /\ Len(transactions) \in Nat
      /\ Len(edges) <= MAX_EDGES /\ Len(transactions) <= MAX_TRANSACTIONS /\ policy \in Policies
      /\ DOMAIN edges = 1 .. Len(edges) /\ DOMAIN transactions = 1 .. Len(transactions)
      /\ Range(edges) = {edges[i] : i \in 1 .. Len(edges)}
      /\ Range(transactions) = {transactions[i] : i \in 1 .. Len(transactions)}
  BY RangeIs DEF GraphInv, GraphTypeOK
<1>2. /\ edges' \in Seq(WaitForEdge) /\ Len(edges') <= Len(edges)
      /\ \A e : e \in Range(edges') <=> \E i \in 1 .. Len(edges) : i \in I /\ e = edges[i]
  BY <1>1, SelectionHas
<1>3. \A e \in Range(edges') : e \in Range(edges)
  BY <1>1, <1>2
<1>4. Len(edges') \in Nat /\ Len(edges') <= MAX_EDGES
  BY <1>1, <1>2, LenProperties, GraphConstants
<1>5. CASE transactions' = transactions
  <2>1. EdgesListed'
    BY <1>3, <1>5 DEF GraphInv, EdgesListed
  <2>2. Distinct(transactions)'
    BY <1>1, <1>5
  <2> QED
    BY <1>1, <1>2, <1>4, <1>5, <2>1, <2>2 DEF GraphInv, GraphTypeOK
<1>6. CASE \E v : /\ I = Without(v)
                  /\ transactions' = Selection(transactions, {i \in DOMAIN transactions : transactions[i] # v})
  <2>1. PICK v : /\ I = Without(v)
                 /\ transactions' = Selection(transactions, {i \in DOMAIN transactions : transactions[i] # v})
    BY <1>6
  <2> DEFINE J == {i \in DOMAIN transactions : transactions[i] # v}
  <2>2. /\ transactions' \in Seq(TxnIndexes) /\ Len(transactions') <= Len(transactions)
        /\ \A x : x \in Range(transactions') <=> \E i \in 1 .. Len(transactions) : i \in J /\ x = transactions[i]
        /\ Distinct(transactions')
    BY <1>1, <2>1, SelectionHas
  <2>3. \A x \in Range(transactions) : x # v => x \in Range(transactions')
    BY <1>1, <2>2
  <2>4. \A e \in Range(edges') : e.from_txn # v /\ e.to_txn # v
    BY <1>2, <2>1 DEF Without
  <2>5. EdgesListed'
    BY <1>3, <2>3, <2>4 DEF GraphInv, EdgesListed
  <2>6. Len(transactions') <= MAX_TRANSACTIONS
    BY <1>1, <2>2, LenProperties, GraphConstants
  <2>7. Distinct(transactions)'
    BY <2>2
  <2> QED
    BY <1>1, <1>2, <1>4, <2>2, <2>5, <2>6, <2>7 DEF GraphInv, GraphTypeOK
<1> QED
  BY <1>5, <1>6

LEMMA ClearKeeps ==
    ASSUME GraphInv, deadlock_detector_clear_graph
    PROVE  GraphInv'
<1>1. << >> \in Seq(WaitForEdge) /\ << >> \in Seq(TxnIndexes) /\ Len(<< >>) = 0 /\ DOMAIN << >> = 1 .. 0
  BY LenProperties
<1>2. Range(<< >>) = {}
  BY <1>1 DEF Range
<1>3. edges' = << >> /\ transactions' = << >> /\ policy' = policy
  BY DEF deadlock_detector_clear_graph
<1>4. EdgesListed'
  BY <1>2, <1>3 DEF EdgesListed
<1>5. Distinct(transactions)'
  BY <1>1, <1>3 DEF Distinct
<1>6. GraphTypeOK'
  BY <1>1, <1>3, GraphConstants DEF GraphInv, GraphTypeOK
<1> QED
  BY <1>4, <1>5, <1>6 DEF GraphInv

LEMMA GraphNextInv ==
    GraphInv /\ [GraphNext]_graphVars => GraphInv'
<1> SUFFICES ASSUME GraphInv, [GraphNext]_graphVars PROVE GraphInv'
  OBVIOUS
<1>1. CASE Wait
  BY <1>1, AddEdgeKeeps DEF Wait
<1>2. ASSUME NEW f \in TxnIndexes, NEW t \in TxnIndexes, deadlock_detector_remove_edge(f, t)
      PROVE  GraphInv'
  BY <1>2, LessKeeps DEF deadlock_detector_remove_edge
<1>3. CASE resolve
  BY <1>3, LessKeeps DEF resolve
<1>4. CASE deadlock_detector_clear_graph
  BY <1>4, ClearKeeps
<1>5. CASE UNCHANGED graphVars
  BY <1>5 DEF graphVars, GraphInv, GraphTypeOK, EdgesListed, Distinct
<1> QED
  BY <1>1, <1>2, <1>3, <1>4, <1>5 DEF GraphNext

\* The depth first search, over the edges in the order of their list and with its
\* two arrays, reports a deadlock exactly if there is one: in every graph that the
\* operations build, whatever victims have left it.
\* deadlock_detector_detect, deadlock_detector_has_cycle_dfs, deadlock.c:98-168.
THEOREM SearchFindsDeadlocks == GraphSpec => []DetectIsExact
<1>1. GraphInv => DetectIsExact
  BY DetectionIsExact DEF GraphInv
<1> QED
  BY <1>1, GraphInitInv, GraphNextInv, PTL DEF GraphSpec

-----------------------------------------------------------------------------
(* The hash map                                                            *)

\* Where a thread has the bucket's mutex.
Inside == {"overwrite", "count_chain", "count_size"}

\* Where a thread has a value to put.
Putting == {"put", "put_if_absent"} \cup Inside

\* The mutex has one holder, the thread that is inside.
Mutex == \A t \in MapThreads : bucket_lock = t <=> caller[t].pc \in Inside

OneNodePerKey == \A i, j \in DOMAIN chain : chain[i].key = chain[j].key => i = j

\* The counters lag behind the chain by what the holder has still to count.
Counted ==
    /\ bucket_lock = NoThread => map_size = Len(chain) /\ chain_length <= Len(chain)
    /\ \A t \in MapThreads :
          /\ At(t, "overwrite") => map_size = Len(chain) /\ chain_length <= Len(chain)
          /\ At(t, "count_chain") => map_size + 1 = Len(chain) /\ chain_length + 1 <= Len(chain)
          /\ At(t, "count_size") => map_size + 1 = Len(chain) /\ chain_length <= Len(chain)

\* What a thread in the middle of a call relies on.
CallFits(t) ==
    LET me == caller[t] IN
    /\ ~ At(t, "idle") => me.key \in Keys
    /\ me.pc \in Putting => me.val \in MapValues
    /\ me.pc \in {"overwrite", "walk", "first_half", "second_half"} => me.node \in DOMAIN chain
    /\ me.pc \in {"overwrite", "first_half", "second_half"} => chain[me.node].key = me.key
    /\ At(t, "overwrite") => chain[me.node].val[1] = me.val

\* A call under way has seen all that the key's node holds, NULL if there is no
\* node, and NULL too if there is none where it has still to look.
CallSaw(t) ==
    LET me == caller[t] IN
    ~ At(t, "idle") =>
       /\ \A i \in DOMAIN chain : chain[i].key = me.key =>
             chain[i].val[1] \in held[t] /\ chain[i].val[2] \in held[t]
       /\ (\A i \in DOMAIN chain : chain[i].key # me.key) => Absent \in held[t]
       /\ At(t, "walk") /\ (\A i \in 1 .. me.node : chain[i].key # me.key) => Absent \in held[t]
       /\ At(t, "second_half") => me.half \in held[t]
       /\ At(t, "answered") =>
             IF me.node = 0 THEN Absent \in held[t] ELSE {me.half, me.val} \subseteq held[t]

Calls == \A t \in MapThreads : CallFits(t) /\ CallSaw(t)

MapInv == MapTypeOK /\ Mutex /\ OneNodePerKey /\ Counted /\ Calls

MapNode == [key : Keys, val : MapValues \X MapValues]

\* The chain with x in one half of the n-th value.
Half(n, h, x) == [chain EXCEPT ![n].val[h] = x]

\* What a write of x for key k may do to the chain: x comes into nodes of the key,
\* old or new.
Takes(k, x) ==
    /\ DOMAIN chain \subseteq DOMAIN chain'
    /\ \A i \in DOMAIN chain :
          /\ chain'[i].key = chain[i].key
          /\ \A g \in {1, 2} : \/ chain'[i].val[g] = chain[i].val[g]
                               \/ chain[i].key = k /\ chain'[i].val[g] = x
    /\ \A i \in DOMAIN chain' : i \notin DOMAIN chain =>
          chain'[i].key = k /\ \A g \in {1, 2} : chain'[i].val[g] = x

-----------------------------------------------------------------------------
(* What the helpers do                                                     *)

\* A key has at most one node, which a walk from the head finds.
LEMMA FindOne ==
    ASSUME MapTypeOK, OneNodePerKey, NEW k
    PROVE  LET n == Find(k, Len(chain)) IN
           \/ n = 0 /\ \A i \in DOMAIN chain : chain[i].key # k
           \/ n # 0 /\ n \in DOMAIN chain /\ chain[n].key = k
<1> DEFINE hits == {i \in 1 .. Len(chain) : chain[i].key = k}
<1>1. DOMAIN chain = 1 .. Len(chain) /\ Len(chain) \in Nat
  BY LenProperties DEF MapTypeOK
<1>2. CASE hits = {}
  BY <1>1, <1>2 DEF Find
<1>3. CASE hits # {}
  <2>1. PICK n \in hits : TRUE
    BY <1>3
  <2>2. hits = {n}
    BY <1>1, <2>1 DEF OneNodePerKey
  <2>3. Max(hits) = n
    BY <1>1, <2>1, <2>2 DEF Max
  <2> QED
    BY <1>1, <1>3, <2>1, <2>3 DEF Find
<1> QED
  BY <1>2, <1>3

\* What a call sees when it begins.
LEMMA StoredIs ==
    ASSUME MapTypeOK, OneNodePerKey, NEW k
    PROVE  /\ Stored(k) \in SUBSET (MapValues \cup {Absent})
           /\ \A i \in DOMAIN chain : chain[i].key = k =>
                 chain[i].val[1] \in Stored(k) /\ chain[i].val[2] \in Stored(k)
           /\ (\A i \in DOMAIN chain : chain[i].key # k) => Absent \in Stored(k)
<1> DEFINE n == Find(k, Len(chain))
<1>1. CASE n = 0 /\ \A i \in DOMAIN chain : chain[i].key # k
  BY <1>1 DEF Stored
<1>2. CASE n # 0 /\ n \in DOMAIN chain /\ chain[n].key = k
  <2>1. chain[n] \in MapNode
    BY ZenonT(30), <1>2, ElementOfSeq, LenProperties DEF MapTypeOK, MapNode
  <2>2. /\ DOMAIN chain[n].val = 1 .. 2
        /\ chain[n].val[1] \in MapValues /\ chain[n].val[2] \in MapValues
    BY <2>1 DEF MapNode
  <2>3. Stored(k) = {chain[n].val[1], chain[n].val[2]}
    BY <1>2, <2>2 DEF Stored, Range
  <2>4. \A i \in DOMAIN chain : chain[i].key = k => i = n
    BY <1>2 DEF OneNodePerKey
  <2> QED
    BY <1>2, <2>2, <2>3, <2>4
<1> QED
  BY <1>1, <1>2, FindOne

\* strncpy writes half a value; the rest of the chain stays.
LEMMA HalfWritten ==
    ASSUME MapTypeOK, NEW n \in DOMAIN chain, NEW h \in {1, 2}, NEW x \in MapValues,
           chain' = Half(n, h, x)
    PROVE  /\ chain' \in Seq(MapNode) /\ Len(chain') = Len(chain) /\ DOMAIN chain' = DOMAIN chain
           /\ \A i \in DOMAIN chain :
                 /\ chain'[i].key = chain[i].key
                 /\ \A g \in {1, 2} :
                       chain'[i].val[g] = IF i = n /\ g = h THEN x ELSE chain[i].val[g]
<1>1. chain \in Seq(MapNode) /\ DOMAIN chain = 1 .. Len(chain) /\ Len(chain) \in Nat
  BY LenProperties DEF MapTypeOK, MapNode
<1>2. chain[n] \in MapNode
  BY <1>1, ElementOfSeq
<1> DEFINE pair == [chain[n].val EXCEPT ![h] = x]
<1>3. /\ pair \in MapValues \X MapValues
      /\ \A g \in {1, 2} : pair[g] = IF g = h THEN x ELSE chain[n].val[g]
  BY <1>2 DEF MapNode
<1> HIDE DEF pair
<1> DEFINE new == [chain[n] EXCEPT !.val = pair]
<1>4. new \in MapNode /\ new.key = chain[n].key /\ new.val = pair
  BY <1>2, <1>3 DEF MapNode
<1>5. chain' = [chain EXCEPT ![n] = new]
  BY DEF pair, Half
<1> HIDE DEF new
<1>6. /\ chain' \in Seq(MapNode) /\ Len(chain') = Len(chain)
      /\ \A i \in 1 .. Len(chain) : chain'[i] = IF i = n THEN new ELSE chain[i]
  BY <1>1, <1>4, <1>5, ExceptSeq
<1>7. DOMAIN chain' = DOMAIN chain
  BY <1>1, <1>5
<1> QED
  BY <1>1, <1>3, <1>4, <1>6, <1>7

\* A new node is the head; the others stay where they are.
LEMMA Prepended ==
    ASSUME MapTypeOK, NEW t \in MapThreads, Prepend(t),
           caller[t].key \in Keys, caller[t].val \in MapValues
    PROVE  /\ chain' \in Seq(MapNode) /\ Len(chain') = Len(chain) + 1
           /\ DOMAIN chain' = DOMAIN chain \cup {Len(chain) + 1}
           /\ \A i \in DOMAIN chain : chain'[i] = chain[i]
           /\ chain'[Len(chain) + 1].key = caller[t].key
           /\ \A g \in {1, 2} : chain'[Len(chain) + 1].val[g] = caller[t].val
<1> DEFINE new == [key |-> caller[t].key, val |-> <<caller[t].val, caller[t].val>>]
<1>1. chain \in Seq(MapNode) /\ DOMAIN chain = 1 .. Len(chain) /\ Len(chain) \in Nat
  BY LenProperties DEF MapTypeOK, MapNode
<1>2. new \in MapNode /\ new.key = caller[t].key /\ \A g \in {1, 2} : new.val[g] = caller[t].val
  BY DEF MapNode
<1>3. chain' = Append(chain, new)
  BY DEF Prepend
<1> HIDE DEF new
<1>4. /\ chain' \in Seq(MapNode) /\ Len(chain') = Len(chain) + 1
      /\ \A i \in 1 .. Len(chain) : chain'[i] = chain[i]
      /\ chain'[Len(chain) + 1] = new
  BY <1>1, <1>2, <1>3, AppendProperties
<1>5. DOMAIN chain' = 1 .. Len(chain) + 1
  BY <1>4, LenProperties
<1> QED
  BY <1>1, <1>2, <1>4, <1>5

-----------------------------------------------------------------------------
(* Steps                                                                   *)

\* The new map is empty and nobody calls.
LEMMA InitHolds == MapInit => MapInv
<1> SUFFICES ASSUME MapInit PROVE MapInv
  OBVIOUS
<1>1. chain = << >> /\ Len(chain) = 0 /\ DOMAIN chain = {}
  BY DEF MapInit
<1>2. \A t \in MapThreads : caller[t].pc = "idle" /\ bucket_lock # t
  BY MapConstants DEF MapInit
<1>3. MapTypeOK
  <2>1. [pc |-> "idle", key |-> Absent, val |-> Absent, node |-> 0, half |-> Absent, calls |-> 0]
           \in Caller
    BY MapConstants DEF Caller, Places
  <2> QED
    BY <2>1 DEF MapInit, MapTypeOK
<1>4. Mutex /\ OneNodePerKey /\ Counted
  BY <1>1, <1>2 DEF MapInit, Mutex, OneNodePerKey, Counted, Inside, At
<1>5. Calls
  BY <1>2 DEF Calls, CallFits, CallSaw, At, Putting, Inside
<1> QED
  BY <1>3, <1>4, <1>5 DEF MapInv

\* A thread that moves alone, with the chain as it is, disturbs no other call.
LEMMA OthersKeep ==
    ASSUME NEW t, NEW u, CallFits(u), CallSaw(u),
           caller'[u] = caller[u], held'[u] = held[u], chain' = chain
    PROVE  CallFits(u)' /\ CallSaw(u)'
  BY DEF CallFits, CallSaw, At

\* A call begins.
LEMMA CallKeeps ==
    ASSUME MapInv, NEW t \in MapThreads, NEW k \in Keys, NEW v \in MapValues \cup {Absent},
           NEW op \in {"get", "put", "put_if_absent"}, op # "get" => v \in MapValues,
           Call(t, op, k, v)
    PROVE  MapInv'
<1> DEFINE me == [pc |-> op, key |-> k, val |-> v, node |-> 0, half |-> Absent,
                  calls |-> caller[t].calls + 1]
<1> USE DEF MapInv
<1>1. caller \in [MapThreads -> Caller] /\ held \in [MapThreads -> SUBSET (MapValues \cup {Absent})]
  BY DEF MapTypeOK
<1>2. me \in Caller
  <2>1. caller[t].calls + 1 \in 0 .. MAX_CALLS
    BY <1>1, MapConstants DEF Call, Caller
  <2> QED
    BY <2>1 DEF Caller, Places
<1>3. /\ caller' = [caller EXCEPT ![t] = me]
      /\ held' = [held EXCEPT ![t] = Stored(k)]
      /\ UNCHANGED <<chain, bucket_lock, chain_length, map_size>>
  BY DEF Call
<1>4. me.pc = op /\ me.key = k /\ me.val = v
  OBVIOUS
<1> HIDE DEF me
<1>5. /\ \A u \in MapThreads : u # t => caller'[u] = caller[u] /\ held'[u] = held[u]
      /\ caller'[t] = me /\ held'[t] = Stored(k)
      /\ caller[t].pc = "idle"
  BY <1>1, <1>3 DEF Call, At
<1>6. MapTypeOK'
  BY <1>1, <1>2, <1>3, StoredIs DEF MapTypeOK
<1>7. Mutex' /\ OneNodePerKey' /\ Counted'
  BY <1>3, <1>4, <1>5 DEF Mutex, OneNodePerKey, Counted, Inside, At
<1>8. CallFits(t)'
  BY <1>3, <1>4, <1>5 DEF CallFits, At, Putting, Inside
<1>9. CallSaw(t)'
  BY <1>3, <1>4, <1>5, StoredIs DEF CallSaw, At
<1>10. \A u \in MapThreads : u # t => (CallFits(u) /\ CallSaw(u))'
  BY <1>3, <1>5, OthersKeep DEF Calls
<1> QED
  BY <1>6, <1>7, <1>8, <1>9, <1>10 DEF Calls

\* The step of a reader, or of a writer that only counts: the chain and what was
\* seen stay.
LEMMA WalkKeeps ==
    ASSUME MapInv, NEW t \in MapThreads,
           \/ chm_put_if_absent_existing(t) \/ chm_get_head(t) \/ chm_get_node(t)
           \/ ReadFirstHalf(t) \/ ReadSecondHalf(t) \/ Return(t)
    PROVE  MapInv'
<1> USE DEF MapInv
<1>1. /\ caller \in [MapThreads -> Caller]
      /\ chain \in Seq(MapNode) /\ DOMAIN chain = 1 .. Len(chain) /\ Len(chain) \in Nat
      /\ caller[t] \in Caller
  BY LenProperties DEF MapTypeOK, MapNode
<1>2. UNCHANGED <<chain, bucket_lock, chain_length, map_size, held>>
  BY DEF chm_put_if_absent_existing, chm_get_head, chm_get_node, ReadFirstHalf, ReadSecondHalf, Return
<1>3. CallFits(t) /\ CallSaw(t)
  BY DEF Calls
<1>4. /\ caller' \in [MapThreads -> Caller]
      /\ \A u \in MapThreads : u # t => caller'[u] = caller[u]
      /\ caller[t].pc \notin Inside /\ caller'[t].pc \notin Inside
      /\ CallFits(t)' /\ CallSaw(t)'
  <2>1. CASE chm_put_if_absent_existing(t)
    <3> DEFINE n == Find(caller[t].key, Len(chain))
    <3>1. n # 0 /\ n \in DOMAIN chain /\ chain[n].key = caller[t].key
      BY <2>1, FindOne DEF chm_put_if_absent_existing
    <3>2. caller' = [[caller EXCEPT ![t].pc = "first_half"] EXCEPT ![t].node = n]
      BY <2>1 DEF chm_put_if_absent_existing, Moved
    <3> HIDE DEF n
    <3>0. n \in Nat
      BY <1>1, <3>1
    <3>3. caller'[t] = [[caller[t] EXCEPT !.pc = "first_half"] EXCEPT !.node = n]
      BY <1>1, <3>2
    <3>4. caller'[t] \in Caller /\ caller'[t].pc = "first_half" /\ caller'[t].node = n
          /\ caller'[t].key = caller[t].key
      BY <1>1, <3>0, <3>3 DEF Caller, Places
    <3>5. caller' \in [MapThreads -> Caller] /\ \A u \in MapThreads : u # t => caller'[u] = caller[u]
      BY <1>1, <3>2, <3>4
    <3>6. caller[t].pc = "put_if_absent"
      BY <2>1 DEF chm_put_if_absent_existing, At
    <3>7. CallFits(t)'
      BY <1>2, <1>3, <3>1, <3>4, <3>6 DEF CallFits, At, Putting, Inside
    <3>8. CallSaw(t)'
      BY <1>2, <1>3, <3>4, <3>6 DEF CallSaw, At
    <3> QED
      BY <3>4, <3>5, <3>6, <3>7, <3>8 DEF Inside
  <2>2. CASE chm_get_head(t)
    <3> DEFINE pc == IF chain = << >> THEN "answered" ELSE "walk"
    <3>1. caller' = [[caller EXCEPT ![t].pc = pc] EXCEPT ![t].node = Len(chain)]
      BY <2>2 DEF chm_get_head, Moved
    <3>2. caller'[t] = [[caller[t] EXCEPT !.pc = pc] EXCEPT !.node = Len(chain)]
      BY <1>1, <3>1
    <3>3. caller'[t] \in Caller /\ caller'[t].pc = pc /\ caller'[t].node = Len(chain)
          /\ caller'[t].key = caller[t].key
      BY <1>1, <3>2 DEF Caller, Places
    <3>4. caller' \in [MapThreads -> Caller] /\ \A u \in MapThreads : u # t => caller'[u] = caller[u]
      BY <1>1, <3>1, <3>3
    <3>5. caller[t].pc = "get"
      BY <2>2 DEF chm_get_head, At
    <3>6. chain # << >> => Len(chain) \in DOMAIN chain
      BY <1>1, EmptySeq
    <3>7. chain = << >> => Len(chain) = 0 /\ DOMAIN chain = {}
      BY <1>1
    <3>8. CallFits(t)'
      BY <1>2, <1>3, <3>3, <3>5, <3>6 DEF CallFits, At, Putting, Inside
    <3>9. CallSaw(t)'
      BY <1>1, <1>2, <1>3, <3>3, <3>5, <3>7 DEF CallSaw, At
    <3> QED
      BY <3>3, <3>4, <3>5, <3>8, <3>9 DEF Inside
  <2>3. CASE chm_get_node(t)
    <3> DEFINE n == caller[t].node
    <3>1. caller[t].pc = "walk" /\ n \in 1 .. Len(chain)
      BY <1>1, <1>3, <2>3 DEF chm_get_node, CallFits, At
    <3>2. CASE chain[n].key = caller[t].key
      <4>1. caller' = [caller EXCEPT ![t].pc = "first_half"]
        BY <2>3, <3>2 DEF chm_get_node, Moved
      <4>2. caller'[t] = [caller[t] EXCEPT !.pc = "first_half"]
        BY <1>1, <4>1
      <4>3. caller'[t] \in Caller /\ caller'[t].pc = "first_half" /\ caller'[t].node = n
            /\ caller'[t].key = caller[t].key
        BY <1>1, <4>2 DEF Caller, Places
      <4>4. caller' \in [MapThreads -> Caller] /\ \A u \in MapThreads : u # t => caller'[u] = caller[u]
        BY <1>1, <4>1, <4>3
      <4>5. CallFits(t)'
        BY <1>1, <1>2, <1>3, <3>1, <3>2, <4>3 DEF CallFits, At, Putting, Inside
      <4>6. CallSaw(t)'
        BY <1>2, <1>3, <3>1, <4>3 DEF CallSaw, At
      <4> QED
        BY <3>1, <4>3, <4>4, <4>5, <4>6 DEF Inside
    <3>3. CASE chain[n].key # caller[t].key
      <4> DEFINE pc == IF n = 1 THEN "answered" ELSE "walk"
      <4>1. caller' = [[caller EXCEPT ![t].pc = pc] EXCEPT ![t].node = @ - 1]
        BY <2>3, <3>3 DEF chm_get_node, Moved
      <4>2. caller'[t] = [[caller[t] EXCEPT !.pc = pc] EXCEPT !.node = n - 1]
        BY <1>1, <4>1 DEF Caller
      <4>3. caller'[t] \in Caller /\ caller'[t].pc = pc /\ caller'[t].node = n - 1
            /\ caller'[t].key = caller[t].key
        <5>1. n - 1 \in Nat /\ pc \in Places
          BY <1>1, <3>1 DEF Places
        <5> QED
          BY <1>1, <4>2, <5>1 DEF Caller
      <4>4. caller' \in [MapThreads -> Caller] /\ \A u \in MapThreads : u # t => caller'[u] = caller[u]
        BY <1>1, <4>1, <4>3
      <4>5. (\A i \in 1 .. n - 1 : chain[i].key # caller[t].key) => Absent \in held[t]
        <5> SUFFICES ASSUME \A i \in 1 .. n - 1 : chain[i].key # caller[t].key
                     PROVE  Absent \in held[t]
          OBVIOUS
        <5>1. \A i \in 1 .. n : chain[i].key # caller[t].key
          BY <3>1, <3>3
        <5> QED
          BY <1>3, <3>1, <5>1 DEF CallSaw, At
      <4>6. n = 1 => Absent \in held[t]
        BY <4>5
      <4>7. CallFits(t)'
        BY <1>1, <1>2, <1>3, <3>1, <4>3 DEF CallFits, At, Putting, Inside
      <4>8. CallSaw(t)'
        BY <1>1, <1>2, <1>3, <3>1, <4>3, <4>5, <4>6 DEF CallSaw, At
      <4> QED
        BY <3>1, <4>3, <4>4, <4>7, <4>8 DEF Inside
    <3> QED
      BY <3>2, <3>3
  <2>4. CASE ReadFirstHalf(t)
    <3> DEFINE n == caller[t].node
    <3>1. caller[t].pc = "first_half" /\ n \in DOMAIN chain /\ chain[n].key = caller[t].key
      BY <1>3, <2>4 DEF ReadFirstHalf, CallFits, At
    <3>2. caller' = [[caller EXCEPT ![t].pc = "second_half"] EXCEPT ![t].half = chain[n].val[1]]
      BY <2>4 DEF ReadFirstHalf, Moved
    <3>3. chain[n] \in MapNode /\ chain[n].val[1] \in MapValues
      <4>1. chain[n] \in MapNode
        BY <1>1, <3>1, ElementOfSeq
      <4> QED
        BY <4>1 DEF MapNode
    <3>4. caller'[t] = [[caller[t] EXCEPT !.pc = "second_half"] EXCEPT !.half = chain[n].val[1]]
      BY <1>1, <3>2
    <3>5. caller'[t] \in Caller /\ caller'[t].pc = "second_half" /\ caller'[t].node = n
          /\ caller'[t].key = caller[t].key /\ caller'[t].half = chain[n].val[1]
      BY <1>1, <3>3, <3>4 DEF Caller, Places
    <3>6. caller' \in [MapThreads -> Caller] /\ \A u \in MapThreads : u # t => caller'[u] = caller[u]
      BY <1>1, <3>2, <3>5
    <3>7. CallFits(t)'
      BY <1>2, <1>3, <3>1, <3>5 DEF CallFits, At, Putting, Inside
    <3>8. CallSaw(t)'
      BY <1>2, <1>3, <3>1, <3>5 DEF CallSaw, At
    <3> QED
      BY <3>1, <3>5, <3>6, <3>7, <3>8 DEF Inside
  <2>5. CASE ReadSecondHalf(t)
    <3> DEFINE n == caller[t].node
    <3>1. caller[t].pc = "second_half" /\ n \in DOMAIN chain /\ chain[n].key = caller[t].key
      BY <1>3, <2>5 DEF ReadSecondHalf, CallFits, At
    <3>2. caller' = [[caller EXCEPT ![t].pc = "answered"] EXCEPT ![t].val = chain[n].val[2]]
      BY <2>5 DEF ReadSecondHalf, Moved
    <3>3. chain[n] \in MapNode /\ chain[n].val[2] \in MapValues
      <4>1. chain[n] \in MapNode
        BY <1>1, <3>1, ElementOfSeq
      <4> QED
        BY <4>1 DEF MapNode
    <3>4. caller'[t] = [[caller[t] EXCEPT !.pc = "answered"] EXCEPT !.val = chain[n].val[2]]
      BY <1>1, <3>2
    <3>5. caller'[t] \in Caller /\ caller'[t].pc = "answered" /\ caller'[t].node = n
          /\ caller'[t].key = caller[t].key /\ caller'[t].half = caller[t].half
          /\ caller'[t].val = chain[n].val[2]
      BY <1>1, <3>3, <3>4 DEF Caller, Places
    <3>6. caller' \in [MapThreads -> Caller] /\ \A u \in MapThreads : u # t => caller'[u] = caller[u]
      BY <1>1, <3>2, <3>5
    <3>7. CallFits(t)'
      BY <1>2, <1>3, <3>1, <3>5 DEF CallFits, At, Putting, Inside
    <3>8. n # 0
      BY <1>1, <3>1
    <3>9. CallSaw(t)'
      BY <1>2, <1>3, <3>1, <3>5, <3>8 DEF CallSaw, At
    <3> QED
      BY <3>1, <3>5, <3>6, <3>7, <3>9 DEF Inside
  <2>6. CASE Return(t)
    <3>1. caller[t].pc = "answered" /\ caller' = [caller EXCEPT ![t].pc = "idle"]
      BY <2>6 DEF Return, At, Moved
    <3>2. caller'[t] \in Caller /\ caller'[t].pc = "idle"
      BY <1>1, <3>1 DEF Caller, Places
    <3>3. caller' \in [MapThreads -> Caller] /\ \A u \in MapThreads : u # t => caller'[u] = caller[u]
      BY <1>1, <3>1, <3>2
    <3>4. CallFits(t)' /\ CallSaw(t)'
      BY <3>2 DEF CallFits, CallSaw, At, Putting, Inside
    <3> QED
      BY <3>1, <3>2, <3>3, <3>4 DEF Inside
  <2> QED
    BY <2>1, <2>2, <2>3, <2>4, <2>5, <2>6
<1>5. MapTypeOK' /\ OneNodePerKey'
  BY <1>2, <1>4 DEF MapTypeOK, OneNodePerKey
<1>6. Mutex' /\ Counted'
  BY <1>2, <1>4 DEF Mutex, Counted, Inside, At
<1>7. Calls'
  BY <1>2, <1>4, OthersKeep DEF Calls
<1> QED
  BY <1>5, <1>6, <1>7

\* What the walk of another call goes by is not changed by a value that is put:
\* the call has seen it come.
LEMMA WriteKeeps ==
    ASSUME MapInv, NEW t \in MapThreads, NEW u \in MapThreads, u # t, caller'[u] = caller[u],
           NEW x, held[u] \subseteq held'[u],
           ~ At(u, "idle") /\ caller[u].key = caller[t].key => x \in held'[u],
           Takes(caller[t].key, x),
           bucket_lock # u
    PROVE  CallFits(u)' /\ CallSaw(u)'
<1>1. CallFits(u) /\ CallSaw(u) /\ caller[u].pc \notin Inside
  BY DEF MapInv, Calls, Mutex
<1>2. CallFits(u)'
  BY <1>1 DEF CallFits, At, Inside, Putting, Takes
<1>3. CallSaw(u)'
  <2> SUFFICES ASSUME ~ At(u, "idle") PROVE CallSaw(u)'
    BY DEF CallSaw, At
  <2> DEFINE me == caller[u]
  <2>1. \A i \in DOMAIN chain' : chain'[i].key = me.key =>
           chain'[i].val[1] \in held'[u] /\ chain'[i].val[2] \in held'[u]
    <3> SUFFICES ASSUME NEW i \in DOMAIN chain', chain'[i].key = me.key, NEW g \in {1, 2}
                 PROVE  chain'[i].val[g] \in held'[u]
      OBVIOUS
    <3>1. CASE i \in DOMAIN chain
      <4>1. chain[i].key = me.key
        BY <3>1 DEF Takes
      <4>2. chain[i].val[g] \in held[u]
        BY <1>1, <3>1, <4>1 DEF CallSaw
      <4>3. \/ chain'[i].val[g] = chain[i].val[g]
            \/ chain[i].key = caller[t].key /\ chain'[i].val[g] = x
        BY <3>1 DEF Takes
      <4> QED
        BY <4>1, <4>2, <4>3
    <3>2. CASE i \notin DOMAIN chain
      BY <3>2 DEF Takes
    <3> QED
      BY <3>1, <3>2
  <2>2. (\A i \in DOMAIN chain' : chain'[i].key # me.key) => Absent \in held'[u]
    BY <1>1 DEF CallSaw, Takes
  <2>3. At(u, "walk") /\ (\A i \in 1 .. me.node : chain'[i].key # me.key) => Absent \in held'[u]
    <3> SUFFICES ASSUME At(u, "walk"), \A i \in 1 .. me.node : chain'[i].key # me.key
                 PROVE  Absent \in held'[u]
      OBVIOUS
    <3>1. DOMAIN chain = 1 .. Len(chain) /\ Len(chain) \in Nat
      BY LenProperties DEF MapInv, MapTypeOK
    <3>2. me.node \in 1 .. Len(chain)
      BY <1>1, <3>1 DEF CallFits, At
    <3>3. \A i \in 1 .. me.node : i \in DOMAIN chain
      BY <3>1, <3>2
    <3>4. \A i \in 1 .. me.node : chain[i].key # me.key
      BY <3>3 DEF Takes
    <3> QED
      BY <1>1, <3>4 DEF CallSaw
  <2>4. At(u, "second_half") => me.half \in held'[u]
    BY <1>1 DEF CallSaw
  <2>5. At(u, "answered") =>
           IF me.node = 0 THEN Absent \in held'[u] ELSE {me.half, me.val} \subseteq held'[u]
    BY <1>1 DEF CallSaw
  <2> QED
    BY <2>1, <2>2, <2>3, <2>4, <2>5 DEF CallSaw, At
<1> QED
  BY <1>2, <1>3

\* The value every call on the key sees come.
LEMMA SeenGrows ==
    ASSUME MapTypeOK, NEW k, NEW v \in MapValues, Seen(k, v)
    PROVE  /\ held' \in [MapThreads -> SUBSET (MapValues \cup {Absent})]
           /\ \A u \in MapThreads :
                 /\ held[u] \subseteq held'[u]
                 /\ ~ At(u, "idle") /\ caller[u].key = k => v \in held'[u]
<1>1. \A u \in MapThreads : held[u] \in SUBSET (MapValues \cup {Absent})
  BY DEF MapTypeOK
<1>2. \A u \in MapThreads :
         held'[u] = IF caller[u].key = k /\ ~ At(u, "idle") THEN held[u] \cup {v} ELSE held[u]
  BY DEF Seen
<1>3. held' \in [MapThreads -> SUBSET (MapValues \cup {Absent})]
  <2>1. \A u \in MapThreads :
           (IF caller[u].key = k /\ ~ At(u, "idle") THEN held[u] \cup {v} ELSE held[u])
              \in SUBSET (MapValues \cup {Absent})
    BY <1>1
  <2> QED
    BY <2>1 DEF Seen
<1> QED
  BY <1>2, <1>3

\* A put that finds its key overwrites the first half.
LEMMA FoundKeeps ==
    ASSUME MapInv, NEW t \in MapThreads, chm_put_found(t)
    PROVE  MapInv'
<1> DEFINE n == Find(caller[t].key, Len(chain))
           v == caller[t].val
<1>1. MapTypeOK /\ OneNodePerKey /\ CallFits(t) /\ CallSaw(t)
  BY DEF MapInv, Calls
<1>2. /\ caller[t].pc = "put" /\ bucket_lock = NoThread /\ bucket_lock' = t
      /\ n > 0 /\ UNCHANGED <<chain_length, map_size>>
      /\ chain' = Half(n, 1, v)
      /\ caller' = [[caller EXCEPT ![t].pc = "overwrite"] EXCEPT ![t].node = n]
      /\ Seen(caller[t].key, v)
  BY DEF chm_put_found, At, Lock, Moved, Half
<1>3. n \in DOMAIN chain /\ chain[n].key = caller[t].key
  BY <1>1, <1>2, FindOne
<1>4. v \in MapValues /\ caller[t].key \in Keys
  BY <1>1, <1>2 DEF CallFits, Putting, At
<1> HIDE DEF n, v
<1>5. /\ chain' \in Seq(MapNode) /\ Len(chain') = Len(chain) /\ DOMAIN chain' = DOMAIN chain
      /\ \A i \in DOMAIN chain :
            /\ chain'[i].key = chain[i].key
            /\ \A g \in {1, 2} : chain'[i].val[g] = IF i = n /\ g = 1 THEN v ELSE chain[i].val[g]
  BY <1>1, <1>2, <1>3, <1>4, HalfWritten
<1>6. /\ held' \in [MapThreads -> SUBSET (MapValues \cup {Absent})]
      /\ \A u \in MapThreads :
            /\ held[u] \subseteq held'[u]
            /\ ~ At(u, "idle") /\ caller[u].key = caller[t].key => v \in held'[u]
  BY <1>1, <1>2, <1>4, SeenGrows
<1>7. n \in Nat
  BY <1>1, <1>3, LenProperties DEF MapTypeOK
<1>8. /\ caller' \in [MapThreads -> Caller]
      /\ \A u \in MapThreads : u # t => caller'[u] = caller[u]
      /\ caller'[t].pc = "overwrite" /\ caller'[t].node = n
      /\ caller'[t].key = caller[t].key /\ caller'[t].val = v
  <2>1. caller \in [MapThreads -> Caller] /\ caller[t] \in Caller
    BY <1>1 DEF MapTypeOK
  <2>2. caller'[t] = [[caller[t] EXCEPT !.pc = "overwrite"] EXCEPT !.node = n]
    BY <1>2, <2>1
  <2>3. /\ caller'[t] \in Caller /\ caller'[t].pc = "overwrite" /\ caller'[t].node = n
        /\ caller'[t].key = caller[t].key /\ caller'[t].val = v
    BY <1>7, <2>1, <2>2 DEF Caller, Places, v
  <2> QED
    BY <1>2, <2>1, <2>3
<1>9. MapTypeOK'
  BY <1>1, <1>2, <1>5, <1>6, <1>8 DEF MapTypeOK, MapNode
<1>10. OneNodePerKey'
  BY <1>1, <1>5 DEF OneNodePerKey
<1>11. Mutex'
  BY <1>2, <1>8, MapConstants DEF MapInv, Mutex, Inside
<1>12. Counted'
  <2>1. map_size = Len(chain) /\ chain_length <= Len(chain)
    BY <1>2 DEF MapInv, Counted
  <2>2. \A u \in MapThreads : u # t => caller[u].pc \notin Inside
    BY <1>2, MapConstants DEF MapInv, Mutex
  <2> QED
    BY <1>2, <1>5, <1>8, <2>1, <2>2, MapConstants DEF Counted, At, Inside
<1>13. CallFits(t)'
  BY <1>3, <1>4, <1>5, <1>8 DEF CallFits, At, Putting, Inside
<1>14. CallSaw(t)'
  <2>1. ~ At(t, "idle") /\ v \in held'[t] /\ held[t] \subseteq held'[t]
    BY <1>2, <1>6 DEF At
  <2>2. ASSUME NEW i \in DOMAIN chain, chain[i].key = caller[t].key
        PROVE  chain'[i].val[1] \in held'[t] /\ chain'[i].val[2] \in held'[t]
    <3>1. chain[i].val[1] \in held[t] /\ chain[i].val[2] \in held[t]
      BY <1>1, <2>1, <2>2 DEF CallSaw
    <3>2. /\ chain'[i].val[1] = v \/ chain'[i].val[1] = chain[i].val[1]
          /\ chain'[i].val[2] = chain[i].val[2]
      BY <1>5
    <3> QED
      BY <2>1, <3>1, <3>2
  <2>3. \A i \in DOMAIN chain' : chain'[i].key = caller'[t].key =>
           chain'[i].val[1] \in held'[t] /\ chain'[i].val[2] \in held'[t]
    BY <1>5, <1>8, <2>2
  <2>4. n \in DOMAIN chain' /\ chain'[n].key = caller'[t].key
    BY <1>3, <1>5, <1>8
  <2> QED
    BY <1>8, <2>3, <2>4 DEF CallSaw, At
<1>15. \A u \in MapThreads : u # t => (CallFits(u) /\ CallSaw(u))'
  <2>1. Takes(caller[t].key, v)
    BY <1>3, <1>5 DEF Takes
  <2> QED
    BY <1>2, <1>6, <1>8, <2>1, WriteKeeps, MapConstants
<1> QED
  BY <1>9, <1>10, <1>11, <1>12, <1>13, <1>14, <1>15 DEF MapInv, Calls

\* ... and then the second.
LEMMA OverwriteKeeps ==
    ASSUME MapInv, NEW t \in MapThreads, Overwrite(t)
    PROVE  MapInv'
<1> DEFINE n == caller[t].node
           v == caller[t].val
<1>1. MapTypeOK /\ OneNodePerKey /\ CallFits(t) /\ CallSaw(t)
  BY DEF MapInv, Calls
<1>2. /\ caller[t].pc = "overwrite" /\ bucket_lock = t /\ bucket_lock' = NoThread
      /\ UNCHANGED <<chain_length, map_size, held>>
      /\ chain' = Half(n, 2, v)
      /\ caller' = [caller EXCEPT ![t].pc = "idle"]
  BY DEF Overwrite, At, Unlock, Moved, Half
<1>3. n \in DOMAIN chain /\ chain[n].key = caller[t].key /\ chain[n].val[1] = v /\ v \in MapValues
  BY <1>1, <1>2 DEF CallFits, Putting, Inside, At
<1> HIDE DEF n, v
<1>4. /\ chain' \in Seq(MapNode) /\ Len(chain') = Len(chain) /\ DOMAIN chain' = DOMAIN chain
      /\ \A i \in DOMAIN chain :
            /\ chain'[i].key = chain[i].key
            /\ \A g \in {1, 2} : chain'[i].val[g] = IF i = n /\ g = 2 THEN v ELSE chain[i].val[g]
  BY <1>1, <1>2, <1>3, HalfWritten
<1>5. \A u \in MapThreads : ~ At(u, "idle") /\ caller[u].key = caller[t].key => v \in held'[u]
  BY <1>2, <1>3 DEF MapInv, Calls, CallSaw
<1>6. /\ caller' \in [MapThreads -> Caller]
      /\ \A u \in MapThreads : u # t => caller'[u] = caller[u]
      /\ caller'[t].pc = "idle"
  BY ZenonT(30), <1>1, <1>2 DEF MapTypeOK, Caller, Places
<1>7. MapTypeOK'
  BY <1>1, <1>2, <1>4, <1>6 DEF MapTypeOK, MapNode
<1>8. OneNodePerKey'
  BY <1>1, <1>4 DEF OneNodePerKey
<1>9. \A u \in MapThreads : u # t => caller[u].pc \notin Inside /\ bucket_lock # u
  BY <1>2 DEF MapInv, Mutex
<1>10. Mutex'
  BY <1>2, <1>6, <1>9, MapConstants DEF MapInv, Mutex, Inside
<1>11. Counted'
  <2>1. map_size = Len(chain) /\ chain_length <= Len(chain)
    BY <1>2 DEF MapInv, Counted, At
  <2> QED
    BY <1>2, <1>4, <1>6, <1>9, <2>1 DEF Counted, At, Inside
<1>12. CallFits(t)' /\ CallSaw(t)'
  BY <1>6 DEF CallFits, CallSaw, At, Putting, Inside
<1>13. \A u \in MapThreads : u # t => (CallFits(u) /\ CallSaw(u))'
  <2>1. Takes(caller[t].key, v)
    BY <1>3, <1>4 DEF Takes
  <2> QED
    BY <1>2, <1>5, <1>6, <1>9, <2>1, WriteKeeps
<1> QED
  BY <1>7, <1>8, <1>10, <1>11, <1>12, <1>13 DEF MapInv, Calls

\* A put, plain or only if absent, that finds no node of its key adds one.
LEMMA InsertKeeps ==
    ASSUME MapInv, NEW t \in MapThreads, chm_put_new(t) \/ chm_put_if_absent_new(t)
    PROVE  MapInv'
<1> DEFINE v == caller[t].val
           k == caller[t].key
           pc == IF At(t, "put") THEN "count_chain" ELSE "count_size"
<1>1. MapTypeOK /\ OneNodePerKey /\ CallFits(t) /\ CallSaw(t)
  BY DEF MapInv, Calls
<1>2. /\ caller[t].pc \in {"put", "put_if_absent"} /\ bucket_lock = NoThread /\ bucket_lock' = t
      /\ Find(k, Len(chain)) = 0 /\ Prepend(t) /\ Seen(k, v)
      /\ caller' = [caller EXCEPT ![t].pc = pc]
      /\ UNCHANGED <<chain_length, map_size>>
  BY DEF chm_put_new, chm_put_if_absent_new, At, Lock, Moved
<1>3. \A i \in DOMAIN chain : chain[i].key # k
  BY <1>1, <1>2, FindOne
<1>4. v \in MapValues /\ k \in Keys
  BY <1>1, <1>2 DEF CallFits, Putting, At
<1>5. /\ chain' \in Seq(MapNode) /\ Len(chain') = Len(chain) + 1
      /\ DOMAIN chain' = DOMAIN chain \cup {Len(chain) + 1}
      /\ \A i \in DOMAIN chain : chain'[i] = chain[i]
      /\ chain'[Len(chain) + 1].key = k
      /\ \A g \in {1, 2} : chain'[Len(chain) + 1].val[g] = v
  BY <1>1, <1>2, <1>4, Prepended
<1>6. /\ held' \in [MapThreads -> SUBSET (MapValues \cup {Absent})]
      /\ \A u \in MapThreads :
            held[u] \subseteq held'[u] /\ (~ At(u, "idle") /\ caller[u].key = k => v \in held'[u])
  BY <1>1, <1>2, <1>4, SeenGrows
<1>7. pc \in {"count_chain", "count_size"}
  OBVIOUS
<1> HIDE DEF v, k, pc
<1>8. /\ caller' \in [MapThreads -> Caller]
      /\ \A u \in MapThreads : u # t => caller'[u] = caller[u]
      /\ caller'[t].pc = pc /\ caller'[t].key = k /\ caller'[t].val = v
  <2>1. caller \in [MapThreads -> Caller] /\ caller[t] \in Caller
    BY <1>1 DEF MapTypeOK
  <2>2. caller'[t] = [caller[t] EXCEPT !.pc = pc]
    BY <1>2, <2>1
  <2>3. caller'[t] \in Caller /\ caller'[t].pc = pc /\ caller'[t].key = k /\ caller'[t].val = v
    BY <1>7, <2>1, <2>2 DEF Caller, Places, k, v
  <2> QED
    BY <1>2, <2>1, <2>3
<1>9. MapTypeOK'
  BY <1>1, <1>2, <1>5, <1>6, <1>8 DEF MapTypeOK, MapNode
<1>10. OneNodePerKey'
  BY <1>1, <1>3, <1>5 DEF OneNodePerKey
<1>11. Mutex'
  BY <1>2, <1>7, <1>8, MapConstants DEF MapInv, Mutex, Inside
<1>12. Counted'
  <2>1. map_size = Len(chain) /\ chain_length <= Len(chain)
    BY <1>2 DEF MapInv, Counted
  <2>2. \A u \in MapThreads : u # t => caller[u].pc \notin Inside
    BY <1>2, MapConstants DEF MapInv, Mutex
  <2>3. Len(chain) \in Nat /\ chain_length \in Nat
    BY <1>1, LenProperties DEF MapTypeOK
  <2> QED
    BY <1>2, <1>5, <1>7, <1>8, <2>1, <2>2, <2>3, MapConstants DEF Counted, At, Inside
<1>13. CallFits(t)'
  BY <1>4, <1>7, <1>8 DEF CallFits, At, Putting, Inside
<1>14. CallSaw(t)'
  <2>1. \A i \in DOMAIN chain' : chain'[i].key = k => i = Len(chain) + 1
    BY <1>3, <1>5
  <2>2. v \in held'[t]
    BY <1>2, <1>6 DEF At, k
  <2> QED
    BY <1>5, <1>7, <1>8, <2>1, <2>2 DEF CallSaw, At
<1>15. \A u \in MapThreads : u # t => (CallFits(u) /\ CallSaw(u))'
  <2>1. Takes(caller[t].key, v)
    BY <1>5 DEF Takes, k
  <2> QED
    BY <1>2, <1>6, <1>8, <2>1, WriteKeeps, MapConstants DEF k
<1> QED
  BY <1>9, <1>10, <1>11, <1>12, <1>13, <1>14, <1>15 DEF MapInv, Calls

\* What a put counts once its node is in.
LEMMA CountKeeps ==
    ASSUME MapInv, NEW t \in MapThreads, CountChain(t) \/ CountSize(t)
    PROVE  MapInv'
<1>1. MapTypeOK /\ CallFits(t) /\ Len(chain) \in Nat
  BY LenProperties DEF MapInv, Calls, MapTypeOK
<1>2. UNCHANGED <<chain, held>> /\ caller[t].pc \in Inside /\ bucket_lock = t
  BY DEF CountChain, CountSize, At, Inside, MapInv, Mutex
<1>3. \A u \in MapThreads : u # t => caller[u].pc \notin Inside /\ bucket_lock # u
  BY <1>2 DEF MapInv, Mutex
<1>4. /\ caller' \in [MapThreads -> Caller]
      /\ \A u \in MapThreads : u # t => caller'[u] = caller[u]
      /\ MapTypeOK' /\ Mutex' /\ Counted' /\ CallFits(t)' /\ CallSaw(t)'
  <2>1. CASE CountChain(t)
    <3>1. /\ caller[t].pc = "count_chain" /\ caller' = [caller EXCEPT ![t].pc = "count_size"]
          /\ chain_length' = chain_length + 1 /\ UNCHANGED <<bucket_lock, map_size>>
      BY <2>1 DEF CountChain, At, Moved
    <3>2. caller[t] \in Caller /\ caller'[t] = [caller[t] EXCEPT !.pc = "count_size"]
      BY <1>1, <3>1 DEF MapTypeOK
    <3>3. /\ caller'[t] \in Caller /\ caller'[t].pc = "count_size"
          /\ caller'[t].key = caller[t].key /\ caller'[t].val = caller[t].val
      BY <3>2 DEF Caller, Places
    <3>4. caller' \in [MapThreads -> Caller] /\ \A u \in MapThreads : u # t => caller'[u] = caller[u]
      BY <1>1, <3>1, <3>3 DEF MapTypeOK
    <3>5. MapTypeOK'
      BY <1>1, <1>2, <3>1, <3>4 DEF MapTypeOK
    <3>6. Mutex'
      BY <1>2, <1>3, <3>1, <3>3, <3>4 DEF Mutex, Inside
    <3>7. map_size + 1 = Len(chain) /\ chain_length + 1 <= Len(chain)
      BY <3>1 DEF MapInv, Counted, At
    <3>8. Counted'
      BY <1>1, <1>2, <1>3, <3>1, <3>3, <3>4, <3>7, MapConstants DEF Counted, At, Inside
    <3>9. CallFits(t)'
      BY <1>1, <3>1, <3>3 DEF CallFits, At, Putting, Inside
    <3>10. CallSaw(t)'
      BY <1>2, <3>1, <3>3 DEF MapInv, Calls, CallSaw, At
    <3> QED
      BY <3>4, <3>5, <3>6, <3>8, <3>9, <3>10
  <2>2. CASE CountSize(t)
    <3>1. /\ caller[t].pc = "count_size" /\ caller' = [caller EXCEPT ![t].pc = "idle"]
          /\ map_size' = map_size + 1 /\ bucket_lock' = NoThread /\ UNCHANGED chain_length
      BY <2>2 DEF CountSize, At, Moved, Unlock
    <3>2. /\ caller' \in [MapThreads -> Caller]
          /\ \A u \in MapThreads : u # t => caller'[u] = caller[u]
          /\ caller'[t].pc = "idle"
      BY ZenonT(30), <1>1, <3>1 DEF MapTypeOK, Caller, Places
    <3>3. MapTypeOK'
      BY <1>1, <1>2, <3>1, <3>2 DEF MapTypeOK
    <3>4. Mutex'
      BY <1>2, <1>3, <3>1, <3>2, MapConstants DEF Mutex, Inside
    <3>5. map_size + 1 = Len(chain) /\ chain_length <= Len(chain)
      BY <3>1 DEF MapInv, Counted, At
    <3>6. Counted'
      BY <1>1, <1>2, <1>3, <3>1, <3>2, <3>5 DEF Counted, At, Inside
    <3>7. CallFits(t)' /\ CallSaw(t)'
      BY <3>2 DEF CallFits, CallSaw, At, Putting, Inside
    <3> QED
      BY <3>2, <3>3, <3>4, <3>6, <3>7
  <2> QED
    BY <2>1, <2>2
<1>5. OneNodePerKey'
  BY <1>2 DEF MapInv, OneNodePerKey
<1>6. \A u \in MapThreads : u # t => (CallFits(u) /\ CallSaw(u))'
  BY <1>2, <1>4, OthersKeep DEF MapInv, Calls
<1> QED
  BY <1>4, <1>5, <1>6 DEF MapInv, Calls

-----------------------------------------------------------------------------
\* The invariant is inductive.
LEMMA Inductive == MapSpec => []MapInv
<1>1. MapInv /\ [MapNext]_mapVars => MapInv'
  <2> SUFFICES ASSUME MapInv, [MapNext]_mapVars PROVE MapInv'
    OBVIOUS
  <2>1. CASE UNCHANGED mapVars
    BY <2>1 DEF mapVars, MapInv, MapTypeOK, Mutex, OneNodePerKey, Counted, Calls, CallFits, CallSaw, At
  <2>2. CASE MapNext
    <3>1. PICK t \in MapThreads : MapStep(t)
      BY <2>2 DEF MapNext
    <3>2. CASE \E k \in Keys : \/ Call(t, "get", k, Absent)
                              \/ \E v \in MapValues, op \in {"put", "put_if_absent"} : Call(t, op, k, v)
      BY <3>2, CallKeeps
    <3>3. CASE chm_put_found(t)
      BY <3>3, FoundKeeps
    <3>4. CASE Overwrite(t)
      BY <3>4, OverwriteKeeps
    <3>5. CASE chm_put_new(t) \/ chm_put_if_absent_new(t)
      BY <3>5, InsertKeeps
    <3>6. CASE CountChain(t) \/ CountSize(t)
      BY <3>6, CountKeeps
    <3>7. CASE \/ chm_put_if_absent_existing(t) \/ chm_get_head(t) \/ chm_get_node(t)
               \/ ReadFirstHalf(t) \/ ReadSecondHalf(t) \/ Return(t)
      BY <3>7, WalkKeeps
    <3> QED
      BY <3>1, <3>2, <3>3, <3>4, <3>5, <3>6, <3>7 DEF MapStep
  <2> QED
    BY <2>1, <2>2
<1> QED
  BY <1>1, InitHolds, PTL DEF MapSpec

\* Every variable keeps its type, for any threads, keys, values and number of
\* calls.
THEOREM MapTypeCorrect == MapSpec => []MapTypeOK
<1>1. MapInv => MapTypeOK
  BY DEF MapInv
<1> QED
  BY <1>1, Inductive, PTL

\* However many threads put and get, and wherever a reader without the lock is
\* overtaken by a writer: a key has one node, an answer NULL or a byte of a value
\* is one the key had during the call, and the counters agree when no writer is at
\* work.  concurrent_hashmap.c:134-235.
THEOREM RegularMap == MapSpec => []MapIsRegular
<1>1. MapInv => MapIsRegular
  BY DEF MapInv, MapIsRegular, OneNodePerKey, Counted, Calls, CallSaw, At
<1> QED
  BY <1>1, Inductive, PTL

-----------------------------------------------------------------------------
(* The lock-free stack                                                     *)

\* One thread pops: with more, what a pop has read may be stale.
OnePopper == \A t, u \in Poppers : t = u

\* c is the chain that starts at the head.
Linked(c) ==
    /\ c \in Seq(Nodes)
    /\ \A i, j \in 1 .. Len(c) : c[i] = c[j] => i = j
    /\ head = IF Len(c) = 0 THEN NullNode ELSE c[1]
    /\ \A i \in 1 .. Len(c) : node[c[i]].next = IF i = Len(c) THEN NullNode ELSE c[i + 1]
    /\ \A i \in 1 .. Len(c) : c[i] \in malloced /\ node[c[i]].value \in Items

On(a, c) == \E i \in 1 .. Len(c) : c[i] = a

\* A thread owns the node it is about to push and the one it has popped.
Owns(t, a) ==
    \/ stacker[t].pc \in {"push", "push_cas"} /\ stacker[t].new_node = a
    \/ stacker[t].pc = "pop_free" /\ stacker[t].old_head = a

\* What is owned has one owner and is not in the chain.
Owned(c) ==
    \A t \in StackThreads, a \in Nodes \cup {NullNode} : Owns(t, a) =>
       /\ a \in malloced /\ ~ On(a, c) /\ node[a].value \in Items
       /\ \A u \in StackThreads : Owns(u, a) => u = t

\* Only the popper pops, so the head it has read stays in the chain with its next.
ReadHeads(c) ==
    \A t \in StackThreads :
       LET me == stacker[t] IN
       /\ me.pc = "push_cas" => node[me.new_node].next = me.old_head
       /\ me.pc \in {"pop", "pop_next", "pop_cas", "pop_free", "pop_count"} => t \in Poppers
       /\ me.pc \in {"pop_next", "pop_cas"} => On(me.old_head, c)
       /\ me.pc = "pop_cas" => me.next = node[me.old_head].next

SInv(c) == StackTypeOK /\ Linked(c) /\ Owned(c) /\ ReadHeads(c)

\* The nodes of c keep their values.
Kept(c) == \A i \in 1 .. Len(c) : node'[c[i]].value = node[c[i]].value

LEMMA InitLinked == StackInit => SInv(<< >>)
<1> SUFFICES ASSUME StackInit PROVE SInv(<< >>)
  OBVIOUS
<1>1. StackTypeOK
  BY StackConstants DEF StackInit, StackTypeOK, Node, Stacker
<1>2. << >> \in Seq(Nodes) /\ Len(<< >>) = 0
  OBVIOUS
<1>3. Linked(<< >>)
  BY <1>2 DEF StackInit, Linked
<1>4. \A t \in StackThreads : stacker[t].pc = "idle"
  BY DEF StackInit
<1>5. Owned(<< >>) /\ ReadHeads(<< >>)
  BY <1>4 DEF Owned, Owns, ReadHeads
<1> QED
  BY <1>1, <1>3, <1>5 DEF SInv

-----------------------------------------------------------------------------
(* The steps                                                               *)

\* A thread that owns no more than before and has read what is in the chain
\* disturbs nothing, if it writes to no node.
LEMMA LocalStep ==
    ASSUME NEW c, SInv(c), NEW t \in StackThreads, NEW s \in Stacker,
           stacker' = [stacker EXCEPT ![t] = s],
           node' = node, malloced' = malloced, head' = head, StackTypeOK',
           \A a \in Nodes \cup {NullNode} : Owns(t, a)' => Owns(t, a),
           s.pc = "push_cas" => node[s.new_node].next = s.old_head,
           s.pc \in {"pop", "pop_next", "pop_cas", "pop_free", "pop_count"} => t \in Poppers,
           s.pc \in {"pop_next", "pop_cas"} => On(s.old_head, c),
           s.pc = "pop_cas" => s.next = node[s.old_head].next
    PROVE  SInv(c)' /\ Kept(c)
<1>1. stacker'[t] = s /\ \A u \in StackThreads : u # t => stacker'[u] = stacker[u]
  BY DEF SInv, StackTypeOK
<1>2. Linked(c)'
  BY DEF SInv, Linked
<1>3. \A u \in StackThreads, a \in Nodes \cup {NullNode} : Owns(u, a)' => Owns(u, a)
  BY <1>1 DEF Owns
<1>4. Owned(c)'
  BY <1>3 DEF SInv, Owned, On
<1>5. ReadHeads(c)'
  <2> SUFFICES ASSUME NEW u \in StackThreads
               PROVE  LET me == stacker'[u] IN
                      /\ me.pc = "push_cas" => node[me.new_node].next = me.old_head
                      /\ me.pc \in {"pop", "pop_next", "pop_cas", "pop_free", "pop_count"} => u \in Poppers
                      /\ me.pc \in {"pop_next", "pop_cas"} => On(me.old_head, c)
                      /\ me.pc = "pop_cas" => me.next = node[me.old_head].next
    BY DEF ReadHeads, On
  <2>1. CASE u = t
    BY <1>1, <2>1
  <2>2. CASE u # t
    BY <1>1, <2>2 DEF SInv, ReadHeads
  <2> QED
    BY <2>1, <2>2
<1> QED
  BY <1>2, <1>4, <1>5 DEF SInv, Kept

\* What the invariant says of a thread that owns a node.
LEMMA OwnNode ==
    ASSUME NEW c, SInv(c), NEW t \in StackThreads, NEW a \in Nodes \cup {NullNode}, Owns(t, a)
    PROVE  /\ a \in Nodes /\ a \in malloced /\ ~ On(a, c) /\ node[a].value \in Items
           /\ \A u \in StackThreads : Owns(u, a) => u = t
  BY DEF SInv, Owned, StackTypeOK

LEMMA StackerIs ==
    ASSUME StackTypeOK, NEW t \in StackThreads
    PROVE  stacker[t] \in Stacker
  BY DEF StackTypeOK

LEMMA TypesStep ==
    ASSUME StackTypeOK, NEW t \in StackThreads, NEW s \in Stacker,
           stacker' = [stacker EXCEPT ![t] = s], node' \in [Nodes -> Node], malloced' \subseteq Nodes,
           head' \in Nodes \cup {NullNode}, stack_size' \in Int, pushed' \subseteq Items,
           popped' \in Seq(Items \cup {NullNode})
    PROVE  StackTypeOK'
  BY DEF StackTypeOK

LEMMA PushKeeps ==
    ASSUME NEW c, SInv(c), NEW t \in StackThreads, NEW x \in Items, stack_push(t, x)
    PROVE  SInv(c)' /\ Kept(c)
<1>1. PICK a \in Nodes \ malloced :
         /\ malloced' = malloced \cup {a}
         /\ node' = [node EXCEPT ![a].value = x]
         /\ stacker' = [Step(t, "push") EXCEPT ![t].new_node = a]
  BY DEF stack_push
<1>2. StackTypeOK /\ stacker[t] \in Stacker
  BY StackerIs DEF SInv
<1> DEFINE s == [stacker[t] EXCEPT !.pc = "push", !.new_node = a]
<1>3. s \in Stacker /\ s.pc = "push" /\ s.new_node = a
  BY <1>2 DEF Stacker
<1>4. stacker' = [stacker EXCEPT ![t] = s]
  BY <1>1, <1>2 DEF Step, StackTypeOK
<1> HIDE DEF s
<1>5. stacker'[t] = s /\ \A u \in StackThreads : u # t => stacker'[u] = stacker[u]
  BY <1>2, <1>4 DEF StackTypeOK
<1>6. /\ node[a] \in Node /\ node' \in [Nodes -> Node] /\ node'[a].value = x
      /\ \A b \in Nodes : b # a => node'[b] = node[b]
  BY <1>1, <1>2 DEF StackTypeOK, Node
<1>7. StackTypeOK'
  <2>1. /\ malloced' \subseteq Nodes /\ head' \in Nodes \cup {NullNode}
        /\ stack_size' \in Int /\ pushed' \subseteq Items /\ popped' \in Seq(Items \cup {NullNode})
    BY <1>1, <1>2 DEF StackTypeOK, stack_push
  <2> QED
    BY <1>2, <1>3, <1>4, <1>6, <2>1, TypesStep
<1>8. c \in Seq(Nodes) /\ \A i \in 1 .. Len(c) : c[i] \in Nodes /\ c[i] # a /\ c[i] \in malloced
  <2>1. c \in Seq(Nodes) /\ \A i \in 1 .. Len(c) : c[i] \in malloced
    BY DEF SInv, Linked
  <2> QED
    BY <1>2, <2>1 DEF StackTypeOK
<1>9. \A i \in 1 .. Len(c) : node'[c[i]] = node[c[i]]
  BY <1>6, <1>8
<1>10. Linked(c)'
  BY <1>1, <1>9 DEF SInv, Linked, stack_push
<1>11. Owned(c)'
  <2> SUFFICES ASSUME NEW u \in StackThreads, NEW b \in Nodes \cup {NullNode}, Owns(u, b)'
               PROVE  /\ b \in malloced' /\ ~ On(b, c) /\ node'[b].value \in Items
                      /\ \A v \in StackThreads : Owns(v, b)' => v = u
    BY DEF Owned, On
  <2>1. \A v \in StackThreads : Owns(v, b)' => (v = t /\ b = a) \/ (v # t /\ b # a /\ Owns(v, b))
    <3> SUFFICES ASSUME NEW v \in StackThreads, Owns(v, b)'
                 PROVE  (v = t /\ b = a) \/ (v # t /\ b # a /\ Owns(v, b))
      OBVIOUS
    <3>1. CASE v = t
      BY <1>3, <1>5, <3>1 DEF Owns
    <3>2. CASE v # t
      <4>1. Owns(v, b)
        BY <1>5, <3>2 DEF Owns
      <4> QED
        BY <1>1, <3>2, <4>1, OwnNode
    <3> QED
      BY <3>1, <3>2
  <2>2. CASE u = t
    BY <1>1, <1>6, <1>8, <2>1, <2>2 DEF On
  <2>3. CASE u # t
    <3>1. Owns(u, b) /\ b # a
      BY <2>1, <2>3
    <3> QED
      BY <1>1, <1>6, <2>1, <3>1, OwnNode
  <2> QED
    BY <2>2, <2>3
<1>12. ReadHeads(c)'
  <2> SUFFICES ASSUME NEW u \in StackThreads
               PROVE  LET me == stacker'[u] IN
                      /\ me.pc = "push_cas" => node'[me.new_node].next = me.old_head
                      /\ me.pc \in {"pop", "pop_next", "pop_cas", "pop_free", "pop_count"} => u \in Poppers
                      /\ me.pc \in {"pop_next", "pop_cas"} => On(me.old_head, c)
                      /\ me.pc = "pop_cas" => me.next = node'[me.old_head].next
    BY DEF ReadHeads, On
  <2>1. CASE u = t
    BY <1>3, <1>5, <2>1
  <2>2. CASE u # t
    <3>1. stacker'[u] = stacker[u] /\ stacker[u] \in Stacker
      BY <1>2, <1>5, <2>2, StackerIs
    <3>2. ASSUME stacker[u].pc = "push_cas"
          PROVE  node'[stacker[u].new_node].next = stacker[u].old_head
      <4>1. stacker[u].new_node \in Nodes \cup {NullNode} /\ Owns(u, stacker[u].new_node)
        BY <3>1, <3>2 DEF Owns, Stacker
      <4>2. stacker[u].new_node \in Nodes /\ stacker[u].new_node # a
        BY <1>1, <4>1, OwnNode
      <4> QED
        BY <1>6, <3>2, <4>2 DEF SInv, ReadHeads
    <3>3. ASSUME stacker[u].pc = "pop_cas"
          PROVE  stacker[u].next = node'[stacker[u].old_head].next
      <4>1. On(stacker[u].old_head, c)
        BY <3>3 DEF SInv, ReadHeads
      <4>2. node'[stacker[u].old_head] = node[stacker[u].old_head]
        BY <1>9, <4>1 DEF On
      <4> QED
        BY <3>3, <4>2 DEF SInv, ReadHeads
    <3> QED
      BY <3>1, <3>2, <3>3 DEF SInv, ReadHeads
  <2> QED
    BY <2>1, <2>2
<1> QED
  BY <1>7, <1>9, <1>10, <1>11, <1>12 DEF SInv, Kept

LEMMA PushReadKeeps ==
    ASSUME NEW c, SInv(c), NEW t \in StackThreads, PushRead(t)
    PROVE  SInv(c)' /\ Kept(c)
<1> DEFINE a == stacker[t].new_node
           s == [stacker[t] EXCEPT !.pc = "push_cas", !.old_head = head]
<1>1. StackTypeOK /\ stacker[t] \in Stacker
  BY StackerIs DEF SInv
<1>2. Owns(t, a) /\ a \in Nodes /\ a \in malloced /\ ~ On(a, c) /\ node[a].value \in Items
  <2>1. Owns(t, a) /\ a \in Nodes \cup {NullNode}
    BY <1>1 DEF PushRead, Is, Owns, Stacker
  <2> QED
    BY <2>1, OwnNode
<1>3. s \in Stacker /\ s.pc = "push_cas" /\ s.new_node = a /\ s.old_head = head
  BY <1>1 DEF Stacker, StackTypeOK
<1>4. stacker' = [stacker EXCEPT ![t] = s]
  BY <1>1 DEF PushRead, Step, StackTypeOK
<1>5. stacker'[t] = s /\ \A u \in StackThreads : u # t => stacker'[u] = stacker[u]
  BY <1>1, <1>4 DEF StackTypeOK
<1>6. /\ node' \in [Nodes -> Node] /\ node'[a].next = head /\ node'[a].value = node[a].value
      /\ \A b \in Nodes : b # a => node'[b] = node[b]
  <2>1. node \in [Nodes -> Node] /\ node[a] \in Node /\ head \in Nodes \cup {NullNode}
    BY <1>1, <1>2 DEF StackTypeOK
  <2>2. node' = [node EXCEPT ![a].next = head]
    BY DEF PushRead
  <2> QED
    BY <1>2, <2>1, <2>2 DEF Node
<1> HIDE DEF s
<1>7. StackTypeOK'
  <2>1. /\ malloced' \subseteq Nodes /\ head' \in Nodes \cup {NullNode}
        /\ stack_size' \in Int /\ pushed' \subseteq Items /\ popped' \in Seq(Items \cup {NullNode})
    BY <1>1 DEF StackTypeOK, PushRead
  <2> QED
    BY <1>1, <1>3, <1>4, <1>6, <2>1, TypesStep
<1>8. c \in Seq(Nodes) /\ \A i \in 1 .. Len(c) : c[i] \in Nodes /\ c[i] # a
  <2>1. c \in Seq(Nodes) /\ \A i \in 1 .. Len(c) : c[i] \in malloced
    BY DEF SInv, Linked
  <2> QED
    BY <1>1, <1>2, <2>1 DEF StackTypeOK, On
<1>9. \A i \in 1 .. Len(c) : node'[c[i]] = node[c[i]]
  BY <1>6, <1>8
<1>10. Linked(c)'
  BY <1>9 DEF SInv, Linked, PushRead
<1>11. Owned(c)'
  <2>1. \A u \in StackThreads, b \in Nodes \cup {NullNode} : Owns(u, b)' => Owns(u, b)
    <3> SUFFICES ASSUME NEW u \in StackThreads, NEW b \in Nodes \cup {NullNode}, Owns(u, b)'
                 PROVE  Owns(u, b)
      OBVIOUS
    <3>1. CASE u = t
      BY <1>2, <1>3, <1>5, <3>1 DEF Owns
    <3>2. CASE u # t
      BY <1>5, <3>2 DEF Owns
    <3> QED
      BY <3>1, <3>2
  <2> SUFFICES ASSUME NEW u \in StackThreads, NEW b \in Nodes \cup {NullNode}, Owns(u, b)'
               PROVE  /\ b \in malloced' /\ ~ On(b, c) /\ node'[b].value \in Items
                      /\ \A v \in StackThreads : Owns(v, b)' => v = u
    BY DEF Owned, On
  <2>2. b \in Nodes /\ b \in malloced /\ ~ On(b, c) /\ node[b].value \in Items
    BY <2>1, OwnNode
  <2>3. node'[b].value = node[b].value /\ malloced' = malloced
    BY <1>6, <2>2 DEF PushRead
  <2>4. \A v \in StackThreads : Owns(v, b)' => v = u
    BY <2>1, OwnNode
  <2> QED
    BY <2>2, <2>3, <2>4
<1>12. ReadHeads(c)'
  <2> SUFFICES ASSUME NEW u \in StackThreads
               PROVE  LET me == stacker'[u] IN
                      /\ me.pc = "push_cas" => node'[me.new_node].next = me.old_head
                      /\ me.pc \in {"pop", "pop_next", "pop_cas", "pop_free", "pop_count"} => u \in Poppers
                      /\ me.pc \in {"pop_next", "pop_cas"} => On(me.old_head, c)
                      /\ me.pc = "pop_cas" => me.next = node'[me.old_head].next
    BY DEF ReadHeads, On
  <2>1. CASE u = t
    BY <1>3, <1>5, <1>6, <2>1
  <2>2. CASE u # t
    <3>1. stacker'[u] = stacker[u] /\ stacker[u] \in Stacker
      BY <1>1, <1>5, <2>2, StackerIs
    <3>2. ASSUME stacker[u].pc = "push_cas"
          PROVE  node'[stacker[u].new_node].next = stacker[u].old_head
      <4>1. stacker[u].new_node \in Nodes \cup {NullNode} /\ Owns(u, stacker[u].new_node)
        BY <3>1, <3>2 DEF Owns, Stacker
      <4>2. stacker[u].new_node \in Nodes /\ stacker[u].new_node # a
        BY <1>2, <2>2, <4>1, OwnNode
      <4> QED
        BY <1>6, <3>2, <4>2 DEF SInv, ReadHeads
    <3>3. ASSUME stacker[u].pc = "pop_cas"
          PROVE  stacker[u].next = node'[stacker[u].old_head].next
      <4>1. On(stacker[u].old_head, c)
        BY <3>3 DEF SInv, ReadHeads
      <4>2. node'[stacker[u].old_head] = node[stacker[u].old_head]
        BY <1>9, <4>1 DEF On
      <4> QED
        BY <3>3, <4>2 DEF SInv, ReadHeads
    <3> QED
      BY <3>1, <3>2, <3>3 DEF SInv, ReadHeads
  <2> QED
    BY <2>1, <2>2
<1> QED
  BY <1>7, <1>9, <1>10, <1>11, <1>12 DEF SInv, Kept

\* The exchange of a push that succeeds.
Pushes(t) ==
    /\ Is(t, "push_cas") /\ head = stacker[t].old_head
    /\ head' = stacker[t].new_node
    /\ stacker' = Step(t, "push_count")
    /\ UNCHANGED <<node, malloced, stack_size, pushed, popped>>

\* The exchange of a pop that succeeds.
Pops(t) ==
    /\ Is(t, "pop_cas") /\ head = stacker[t].old_head
    /\ head' = stacker[t].next
    /\ stacker' = Step(t, "pop_free")
    /\ UNCHANGED <<node, malloced, stack_size, pushed, popped>>

\* The other steps that write to no node.
Local(t) ==
    \/ PushCas(t) /\ stacker' = Step(t, "push") /\ head' = head
    \/ PushCount(t) \/ stack_pop(t) \/ PopNext(t)
    \/ PopCas(t) /\ stacker' = Step(t, "pop") /\ head' = head
    \/ PopCount(t)

LEMMA LocalKeeps ==
    ASSUME NEW c, SInv(c), NEW t \in StackThreads, Local(t)
    PROVE  SInv(c)' /\ Kept(c)
<1>1. /\ StackTypeOK /\ stacker[t] \in Stacker
      /\ \A a \in Nodes : node[a].next \in Nodes \cup {NullNode}
      /\ head \in Nodes \cup {NullNode} /\ stack_size + 1 \in Int /\ stack_size - 1 \in Int
  BY StackerIs DEF SInv, StackTypeOK, Node
<1>2. /\ node' = node /\ malloced' = malloced /\ head' = head /\ stack_size' \in Int
      /\ pushed' = pushed /\ popped' = popped
  BY <1>1 DEF Local, PushCas, PushCount, stack_pop, PopNext, PopCas, PopCount, StackTypeOK
<1>3. ASSUME NEW s \in Stacker, stacker' = [stacker EXCEPT ![t] = s],
             s.pc \in {"push", "pop_free"} => s.pc = "push" /\ stacker[t].pc = "push_cas"
                                             /\ s.new_node = stacker[t].new_node,
             s.pc # "push_cas",
             s.pc \in {"pop", "pop_next", "pop_cas", "pop_count"} => t \in Poppers,
             s.pc \in {"pop_next", "pop_cas"} => On(s.old_head, c),
             s.pc = "pop_cas" => s.next = node[s.old_head].next
      PROVE  SInv(c)' /\ Kept(c)
  <2>1. StackTypeOK'
    <3>1. /\ node' \in [Nodes -> Node] /\ malloced' \subseteq Nodes /\ head' \in Nodes \cup {NullNode}
          /\ pushed' \subseteq Items /\ popped' \in Seq(Items \cup {NullNode})
      BY <1>1, <1>2 DEF StackTypeOK
    <3> QED
      BY <1>1, <1>2, <1>3, <3>1, TypesStep
  <2>2. \A a \in Nodes \cup {NullNode} : Owns(t, a)' => Owns(t, a)
    BY <1>1, <1>3 DEF Owns, StackTypeOK
  <2> QED
    BY <1>2, <1>3, <2>1, <2>2, LocalStep
<1>4. CASE PushCas(t) /\ stacker' = Step(t, "push") /\ head' = head
  <2> DEFINE s == [stacker[t] EXCEPT !.pc = "push"]
  <2>1. s \in Stacker /\ s.pc = "push" /\ s.new_node = stacker[t].new_node /\ stacker[t].pc = "push_cas"
    BY <1>1, <1>4 DEF Stacker, PushCas, Is
  <2>2. stacker' = [stacker EXCEPT ![t] = s]
    BY <1>1, <1>4 DEF Step, StackTypeOK
  <2> QED
    BY <1>3, <2>1, <2>2
<1>5. CASE PushCount(t) \/ PopCount(t)
  <2> DEFINE s == [stacker[t] EXCEPT !.pc = "idle"]
  <2>1. s \in Stacker /\ s.pc = "idle"
    BY <1>1 DEF Stacker
  <2>2. stacker' = [stacker EXCEPT ![t] = s]
    BY <1>1, <1>5 DEF Step, StackTypeOK, PushCount, PopCount
  <2> QED
    BY <1>3, <2>1, <2>2
<1>6. CASE stack_pop(t)
  <2> DEFINE pc == IF head = NullNode THEN "idle" ELSE "pop_next"
             s == [stacker[t] EXCEPT !.pc = pc, !.old_head = head]
  <2>1. s \in Stacker /\ s.pc = pc /\ s.old_head = head
    BY <1>1 DEF Stacker
  <2>2. stacker' = [stacker EXCEPT ![t] = s]
    BY <1>1, <1>6 DEF Step, StackTypeOK, stack_pop
  <2>3. t \in Poppers
    BY <1>6 DEF stack_pop
  <2>4. head # NullNode => On(head, c)
    <3>1. Len(c) \in Nat /\ head = IF Len(c) = 0 THEN NullNode ELSE c[1]
      BY LenProperties DEF SInv, Linked
    <3> QED
      BY <3>1 DEF On
  <2> HIDE DEF s
  <2> QED
    BY <1>3, <2>1, <2>2, <2>3, <2>4
<1>7. CASE PopNext(t)
  <2>1. On(stacker[t].old_head, c) /\ t \in Poppers
    BY <1>7 DEF PopNext, Is, SInv, ReadHeads
  <2>2. stacker[t].old_head \in malloced
    BY <2>1 DEF On, SInv, Linked
  <2> DEFINE n == node[stacker[t].old_head].next
             s == [stacker[t] EXCEPT !.pc = "pop_cas", !.next = n]
  <2>3. stacker' = [Step(t, "pop_cas") EXCEPT ![t].next = n]
    BY <1>7, <2>2 DEF PopNext
  <2>4. n \in Nodes \cup {NullNode}
    BY <1>1, <2>2 DEF StackTypeOK
  <2> HIDE DEF n
  <2>5. s \in Stacker /\ s.pc = "pop_cas" /\ s.old_head = stacker[t].old_head /\ s.next = n
    BY <1>1, <2>4 DEF Stacker
  <2>6. stacker' = [stacker EXCEPT ![t] = s]
    BY <1>1, <2>3 DEF Step, StackTypeOK
  <2> HIDE DEF s
  <2> QED
    BY <1>3, <2>1, <2>5, <2>6 DEF n
<1>8. CASE PopCas(t) /\ stacker' = Step(t, "pop") /\ head' = head
  <2> DEFINE s == [stacker[t] EXCEPT !.pc = "pop"]
  <2>1. s \in Stacker /\ s.pc = "pop"
    BY <1>1 DEF Stacker
  <2>2. stacker' = [stacker EXCEPT ![t] = s]
    BY <1>1, <1>8 DEF Step, StackTypeOK
  <2>3. t \in Poppers
    BY <1>8 DEF SInv, ReadHeads, PopCas, Is
  <2> QED
    BY <1>3, <2>1, <2>2, <2>3
<1> QED
  BY <1>4, <1>5, <1>6, <1>7, <1>8 DEF Local

\* A pop gives the node it took back.
LEMMA PopFreeKeeps ==
    ASSUME NEW c, SInv(c), NEW t \in StackThreads, PopFree(t)
    PROVE  SInv(c)' /\ Kept(c)
<1> DEFINE a == stacker[t].old_head
           s == [stacker[t] EXCEPT !.pc = "pop_count"]
<1>1. StackTypeOK /\ stacker[t] \in Stacker /\ stacker[t].pc = "pop_free"
  BY StackerIs DEF SInv, PopFree, Is
<1>2. a \in Nodes /\ ~ On(a, c) /\ \A u \in StackThreads : Owns(u, a) => u = t
  <2>1. Owns(t, a) /\ a \in Nodes \cup {NullNode}
    BY <1>1 DEF Owns, Stacker
  <2> QED
    BY <2>1, OwnNode
<1>3. s \in Stacker /\ s.pc = "pop_count"
  BY <1>1 DEF Stacker
<1>4. stacker' = [stacker EXCEPT ![t] = s]
  BY <1>1 DEF PopFree, Step, StackTypeOK
<1> HIDE DEF s
<1>5. stacker'[t] = s /\ \A u \in StackThreads : u # t => stacker'[u] = stacker[u]
  BY <1>1, <1>4 DEF StackTypeOK
<1>6. node' = node /\ head' = head /\ malloced' = malloced \ {a}
  BY DEF PopFree
<1>7. StackTypeOK'
  <2>1. node[a].value \in Items \cup {NullNode}
    BY <1>1, <1>2 DEF StackTypeOK, Node
  <2>2. popped' \in Seq(Items \cup {NullNode})
    BY <1>1, <2>1, AppendProperties DEF StackTypeOK, PopFree
  <2>3. /\ node' \in [Nodes -> Node] /\ malloced' \subseteq Nodes /\ head' \in Nodes \cup {NullNode}
        /\ stack_size' \in Int /\ pushed' \subseteq Items
    BY <1>1 DEF StackTypeOK, PopFree
  <2> QED
    BY <1>1, <1>3, <1>4, <2>2, <2>3, TypesStep
<1>8. Linked(c)'
  BY <1>2, <1>6 DEF SInv, Linked, On
<1>9. \A u \in StackThreads, b \in Nodes \cup {NullNode} : Owns(u, b)' => Owns(u, b) /\ u # t
  <2> SUFFICES ASSUME NEW u \in StackThreads, NEW b \in Nodes \cup {NullNode}, Owns(u, b)'
               PROVE  Owns(u, b) /\ u # t
    OBVIOUS
  <2>1. u # t
    BY <1>3, <1>5 DEF Owns
  <2> QED
    BY <1>5, <2>1 DEF Owns
<1>10. Owned(c)'
  <2> SUFFICES ASSUME NEW u \in StackThreads, NEW b \in Nodes \cup {NullNode}, Owns(u, b)'
               PROVE  /\ b \in malloced' /\ ~ On(b, c) /\ node'[b].value \in Items
                      /\ \A v \in StackThreads : Owns(v, b)' => v = u
    BY DEF Owned, On
  <2>1. Owns(u, b) /\ u # t
    BY <1>9
  <2>2. b # a
    BY <1>2, <2>1
  <2>3. b \in malloced' /\ ~ On(b, c) /\ node'[b].value \in Items
    BY <1>6, <2>1, <2>2, OwnNode
  <2>4. \A v \in StackThreads : Owns(v, b)' => v = u
    BY <1>9, <2>1, OwnNode
  <2> QED
    BY <2>3, <2>4
<1>11. ReadHeads(c)'
  <2> SUFFICES ASSUME NEW u \in StackThreads
               PROVE  LET me == stacker'[u] IN
                      /\ me.pc = "push_cas" => node'[me.new_node].next = me.old_head
                      /\ me.pc \in {"pop", "pop_next", "pop_cas", "pop_free", "pop_count"} => u \in Poppers
                      /\ me.pc \in {"pop_next", "pop_cas"} => On(me.old_head, c)
                      /\ me.pc = "pop_cas" => me.next = node'[me.old_head].next
    BY DEF ReadHeads, On
  <2>1. CASE u = t
    BY <1>1, <1>3, <1>5, <2>1 DEF SInv, ReadHeads
  <2>2. CASE u # t
    BY <1>5, <1>6, <2>2 DEF SInv, ReadHeads
  <2> QED
    BY <2>1, <2>2
<1> QED
  BY <1>6, <1>7, <1>8, <1>10, <1>11 DEF SInv, Kept

LEMMA PushesKeeps ==
    ASSUME NEW c, SInv(c), NEW t \in StackThreads, Pushes(t)
    PROVE  \E a \in Nodes : SInv(<<a>> \o c)' /\ Kept(c) /\ node'[a].value \in Items
<1>1. /\ StackTypeOK /\ stacker[t] \in Stacker /\ stacker[t].pc = "push_cas"
      /\ c \in Seq(Nodes) /\ Len(c) \in Nat
  BY StackerIs, LenProperties DEF SInv, Linked, Pushes, Is
<1>2. PICK a \in Nodes \cup {NullNode} : a = stacker[t].new_node
  BY <1>1 DEF Stacker
<1>3. a \in Nodes /\ a \in malloced /\ ~ On(a, c) /\ node[a].value \in Items
      /\ \A u \in StackThreads : Owns(u, a) => u = t
  <2>1. Owns(t, a)
    BY <1>1, <1>2 DEF Owns
  <2> QED
    BY <2>1, OwnNode
<1>4. node[a].next = head
  BY <1>1, <1>2 DEF SInv, ReadHeads, Pushes
<1> DEFINE s == [stacker[t] EXCEPT !.pc = "push_count"]
           d == <<a>> \o c
<1>5. s \in Stacker /\ s.pc = "push_count"
  BY <1>1 DEF Stacker
<1>6. stacker' = [stacker EXCEPT ![t] = s]
  BY <1>1 DEF Pushes, Step, StackTypeOK
<1> HIDE DEF s
<1>7. stacker'[t] = s /\ \A u \in StackThreads : u # t => stacker'[u] = stacker[u]
  BY <1>1, <1>6 DEF StackTypeOK
<1>8. node' = node /\ head' = a /\ malloced' = malloced
  BY <1>2 DEF Pushes
<1>9. StackTypeOK'
  <2>1. /\ node' \in [Nodes -> Node] /\ malloced' \subseteq Nodes /\ head' \in Nodes \cup {NullNode}
        /\ stack_size' \in Int /\ pushed' \subseteq Items /\ popped' \in Seq(Items \cup {NullNode})
    BY <1>1, <1>3, <1>8 DEF StackTypeOK, Pushes
  <2> QED
    BY <1>1, <1>5, <1>6, <2>1, TypesStep
<1>10. /\ d \in Seq(Nodes) /\ Len(d) = 1 + Len(c) /\ d[1] = a
       /\ \A i \in 1 .. Len(c) : d[i + 1] = c[i]
       /\ \A i \in 1 .. Len(d) : i = 1 \/ (i # 1 /\ i - 1 \in 1 .. Len(c) /\ d[i] = c[i - 1])
  <2>1. <<a>> \in Seq(Nodes) /\ Len(<<a>>) = 1 /\ <<a>>[1] = a
    BY <1>3
  <2>2. /\ d \in Seq(Nodes) /\ Len(d) = 1 + Len(c)
        /\ \A i \in 1 .. 1 + Len(c) : d[i] = IF i <= 1 THEN <<a>>[i] ELSE c[i - 1]
    BY <1>1, <2>1, ConcatProperties
  <2> HIDE DEF d
  <2>3. d[1] = a
    BY <1>1, <2>1, <2>2
  <2>4. ASSUME NEW i \in 1 .. Len(c) PROVE d[i + 1] = c[i]
    <3>1. i + 1 \in 1 .. 1 + Len(c) /\ ~ i + 1 <= 1 /\ (i + 1) - 1 = i
      BY <1>1
    <3> QED
      BY <2>2, <3>1
  <2>5. \A i \in 1 .. Len(d) : i = 1 \/ (i # 1 /\ i - 1 \in 1 .. Len(c) /\ d[i] = c[i - 1])
    BY <1>1, <2>2
  <2> QED
    BY <2>2, <2>3, <2>4, <2>5
<1> HIDE DEF d
<1>11. Linked(d)'
  <2>1. \A i \in 1 .. Len(c) : c[i] # a
    BY <1>3 DEF On
  <2>2. \A i, j \in 1 .. Len(d) : d[i] = d[j] => i = j
    <3> SUFFICES ASSUME NEW i \in 1 .. Len(d), NEW j \in 1 .. Len(d), d[i] = d[j] PROVE i = j
      OBVIOUS
    <3>1. CASE i = 1 \/ j = 1
      BY <1>10, <2>1, <3>1
    <3>2. CASE i # 1 /\ j # 1
      <4>1. i - 1 \in 1 .. Len(c) /\ j - 1 \in 1 .. Len(c) /\ c[i - 1] = c[j - 1]
        BY <1>10, <3>2
      <4>2. i - 1 = j - 1
        BY <4>1 DEF SInv, Linked
      <4> QED
        BY <1>1, <1>10, <4>2
    <3> QED
      BY <3>1, <3>2
  <2>3. \A i \in 1 .. Len(d) : node[d[i]].next = IF i = Len(d) THEN NullNode ELSE d[i + 1]
    <3> SUFFICES ASSUME NEW i \in 1 .. Len(d)
                 PROVE  node[d[i]].next = IF i = Len(d) THEN NullNode ELSE d[i + 1]
      OBVIOUS
    <3>0. head = IF Len(c) = 0 THEN NullNode ELSE c[1]
      BY DEF SInv, Linked
    <3>1. CASE i = 1
      <4>1. node[d[i]].next = IF Len(c) = 0 THEN NullNode ELSE c[1]
        BY <1>4, <1>10, <3>0, <3>1
      <4>2. CASE Len(c) = 0
        BY <1>10, <3>1, <4>1, <4>2
      <4>3. CASE Len(c) # 0
        <5>1. 1 \in 1 .. Len(c) /\ d[1 + 1] = c[1] /\ Len(d) # 1
          BY <1>1, <1>10, <4>3
        <5> QED
          BY <3>1, <4>1, <4>3, <5>1
      <4> QED
        BY <4>2, <4>3
    <3>2. CASE i # 1
      <4>1. i - 1 \in 1 .. Len(c) /\ d[i] = c[i - 1]
        BY <1>10, <3>2
      <4>2. node[c[i - 1]].next = IF i - 1 = Len(c) THEN NullNode ELSE c[(i - 1) + 1]
        BY <4>1 DEF SInv, Linked
      <4>3. (i - 1 = Len(c) <=> i = Len(d)) /\ (i - 1) + 1 = i
        BY <1>1, <1>10
      <4>4. i # Len(d) => i \in 1 .. Len(c) /\ d[i + 1] = c[i]
        BY <1>1, <1>10
      <4> QED
        BY <4>1, <4>2, <4>3, <4>4
    <3> QED
      BY <3>1, <3>2
  <2>4. \A i \in 1 .. Len(d) : d[i] \in malloced /\ node[d[i]].value \in Items
    <3> SUFFICES ASSUME NEW i \in 1 .. Len(d) PROVE d[i] \in malloced /\ node[d[i]].value \in Items
      OBVIOUS
    <3>1. CASE i = 1
      BY <1>3, <1>10, <3>1
    <3>2. CASE i # 1
      BY <1>10, <3>2 DEF SInv, Linked
    <3> QED
      BY <3>1, <3>2
  <2>5. head' = IF Len(d) = 0 THEN NullNode ELSE d[1]
    BY <1>1, <1>8, <1>10
  <2> QED
    BY <1>8, <1>10, <2>2, <2>3, <2>4, <2>5 DEF Linked
<1>12. \A b : On(b, d) <=> b = a \/ On(b, c)
  <2> SUFFICES ASSUME NEW b PROVE On(b, d) <=> b = a \/ On(b, c)
    OBVIOUS
  <2>1. ASSUME On(b, d) PROVE b = a \/ On(b, c)
    BY <1>10, <2>1 DEF On
  <2>2. ASSUME b = a PROVE On(b, d)
    <3>1. 1 \in 1 .. Len(d)
      BY <1>1, <1>10
    <3> QED
      BY <1>10, <2>2, <3>1 DEF On
  <2>3. ASSUME On(b, c) PROVE On(b, d)
    <3>1. PICK i \in 1 .. Len(c) : c[i] = b
      BY <2>3 DEF On
    <3>2. i + 1 \in 1 .. Len(d) /\ d[i + 1] = b
      BY <1>1, <1>10, <3>1
    <3> QED
      BY <3>2 DEF On
  <2> QED
    BY <2>1, <2>2, <2>3
<1>13. \A u \in StackThreads, b \in Nodes \cup {NullNode} : Owns(u, b)' => Owns(u, b) /\ b # a
  <2> SUFFICES ASSUME NEW u \in StackThreads, NEW b \in Nodes \cup {NullNode}, Owns(u, b)'
               PROVE  Owns(u, b) /\ b # a
    OBVIOUS
  <2>1. u # t
    BY <1>5, <1>7 DEF Owns
  <2>2. Owns(u, b)
    BY <1>7, <2>1 DEF Owns
  <2> QED
    BY <1>3, <2>1, <2>2
<1>14. Owned(d)'
  <2> SUFFICES ASSUME NEW u \in StackThreads, NEW b \in Nodes \cup {NullNode}, Owns(u, b)'
               PROVE  /\ b \in malloced' /\ ~ On(b, d) /\ node'[b].value \in Items
                      /\ \A v \in StackThreads : Owns(v, b)' => v = u
    BY DEF Owned, On
  <2>1. Owns(u, b) /\ b # a
    BY <1>13
  <2>2. b \in malloced' /\ ~ On(b, d) /\ node'[b].value \in Items
    BY <1>8, <1>12, <2>1, OwnNode
  <2>3. \A v \in StackThreads : Owns(v, b)' => v = u
    BY <1>13, <2>1, OwnNode
  <2> QED
    BY <2>2, <2>3
<1>15. ReadHeads(d)'
  <2> SUFFICES ASSUME NEW u \in StackThreads
               PROVE  LET me == stacker'[u] IN
                      /\ me.pc = "push_cas" => node'[me.new_node].next = me.old_head
                      /\ me.pc \in {"pop", "pop_next", "pop_cas", "pop_free", "pop_count"} => u \in Poppers
                      /\ me.pc \in {"pop_next", "pop_cas"} => On(me.old_head, d)
                      /\ me.pc = "pop_cas" => me.next = node'[me.old_head].next
    BY DEF ReadHeads, On
  <2>1. CASE u = t
    BY <1>5, <1>7, <2>1
  <2>2. CASE u # t
    BY <1>7, <1>8, <1>12, <2>2 DEF SInv, ReadHeads
  <2> QED
    BY <2>1, <2>2
<1>16. SInv(d)' /\ Kept(c) /\ node'[a].value \in Items
  BY <1>3, <1>8, <1>9, <1>11, <1>14, <1>15 DEF SInv, Kept
<1> QED
  BY <1>3, <1>16 DEF d

LEMMA PopsKeeps ==
    ASSUME NEW c, SInv(c), NEW t \in StackThreads, Pops(t), OnePopper
    PROVE  c # << >> /\ SInv(Tail(c))' /\ Kept(c)
<1>1. /\ StackTypeOK /\ stacker[t] \in Stacker /\ stacker[t].pc = "pop_cas"
      /\ c \in Seq(Nodes) /\ Len(c) \in Nat
  BY StackerIs, LenProperties DEF SInv, Linked, Pops, Is
<1> DEFINE s == [stacker[t] EXCEPT !.pc = "pop_free"]
           d == Tail(c)
<1>2. s \in Stacker /\ s.pc = "pop_free" /\ s.old_head = stacker[t].old_head
  BY <1>1 DEF Stacker
<1>3. stacker' = [stacker EXCEPT ![t] = s]
  BY <1>1 DEF Pops, Step, StackTypeOK
<1> HIDE DEF s
<1>4. stacker'[t] = s /\ \A u \in StackThreads : u # t => stacker'[u] = stacker[u]
  BY <1>1, <1>3 DEF StackTypeOK
<1>5. /\ t \in Poppers /\ On(stacker[t].old_head, c) /\ stacker[t].old_head = head
      /\ head' = node[head].next /\ node' = node /\ malloced' = malloced
  BY <1>1 DEF SInv, ReadHeads, Pops
<1>6. Len(c) # 0 /\ 1 \in 1 .. Len(c) /\ head = c[1]
  <2>1. Len(c) # 0
    BY <1>1, <1>5 DEF On
  <2> QED
    BY <1>1, <2>1 DEF SInv, Linked
<1>7. c # << >>
  BY <1>6
<1>8. /\ d \in Seq(Nodes) /\ Len(d) = Len(c) - 1
      /\ \A i \in 1 .. Len(c) - 1 : i + 1 \in 1 .. Len(c) /\ d[i] = c[i + 1]
  BY <1>1, <1>7, HeadTailProperties
<1> HIDE DEF d
<1>9. PICK a \in Nodes : a = c[1]
  BY <1>1, <1>6, ElementOfSeq
<1>10. a = head /\ a = stacker[t].old_head /\ a \in malloced /\ node[a].value \in Items /\ ~ On(a, d)
  <2>1. a \in malloced /\ node[a].value \in Items
    BY <1>6, <1>9 DEF SInv, Linked
  <2>2. ASSUME NEW i \in 1 .. Len(d) PROVE d[i] # a
    <3>1. i + 1 \in 1 .. Len(c) /\ d[i] = c[i + 1] /\ i + 1 # 1
      BY <1>1, <1>8
    <3> QED
      BY <1>6, <1>9, <3>1 DEF SInv, Linked
  <2> QED
    BY <1>5, <1>6, <1>9, <2>1, <2>2 DEF On
<1>11. \A b : On(b, d) => On(b, c)
  BY <1>8 DEF On
<1>12. head' = IF Len(c) = 1 THEN NullNode ELSE c[2]
  <2>1. node[c[1]].next = IF 1 = Len(c) THEN NullNode ELSE c[1 + 1]
    BY <1>6 DEF SInv, Linked
  <2> QED
    BY <1>5, <1>6, <2>1
<1>13. StackTypeOK'
  <2>1. /\ node' \in [Nodes -> Node] /\ malloced' \subseteq Nodes
        /\ stack_size' \in Int /\ pushed' \subseteq Items /\ popped' \in Seq(Items \cup {NullNode})
    BY <1>1 DEF StackTypeOK, Pops
  <2>2. head' \in Nodes \cup {NullNode}
    BY <1>1 DEF Pops, Stacker
  <2> QED
    BY <1>1, <1>2, <1>3, <2>1, <2>2, TypesStep
<1>14. Linked(d)'
  <2>1. \A i, j \in 1 .. Len(d) : d[i] = d[j] => i = j
    <3> SUFFICES ASSUME NEW i \in 1 .. Len(d), NEW j \in 1 .. Len(d), d[i] = d[j] PROVE i = j
      OBVIOUS
    <3>1. i + 1 \in 1 .. Len(c) /\ j + 1 \in 1 .. Len(c) /\ c[i + 1] = c[j + 1]
      BY <1>8
    <3>2. i + 1 = j + 1
      BY <3>1 DEF SInv, Linked
    <3> QED
      BY <1>1, <1>8, <3>2
  <2>2. \A i \in 1 .. Len(d) : node[d[i]].next = IF i = Len(d) THEN NullNode ELSE d[i + 1]
    <3> SUFFICES ASSUME NEW i \in 1 .. Len(d)
                 PROVE  node[d[i]].next = IF i = Len(d) THEN NullNode ELSE d[i + 1]
      OBVIOUS
    <3>1. i + 1 \in 1 .. Len(c) /\ d[i] = c[i + 1]
      BY <1>8
    <3>2. node[c[i + 1]].next = IF i + 1 = Len(c) THEN NullNode ELSE c[(i + 1) + 1]
      BY <3>1 DEF SInv, Linked
    <3>3. i + 1 = Len(c) <=> i = Len(d)
      BY <1>1, <1>8
    <3>4. i # Len(d) => d[i + 1] = c[(i + 1) + 1]
      <4>1. i # Len(d) => i + 1 \in 1 .. Len(c) - 1
        BY <1>1, <1>8
      <4> QED
        BY <1>8, <4>1
    <3> QED
      BY <3>1, <3>2, <3>3, <3>4
  <2>3. \A i \in 1 .. Len(d) : d[i] \in malloced /\ node[d[i]].value \in Items
    BY <1>8 DEF SInv, Linked
  <2>4. head' = IF Len(d) = 0 THEN NullNode ELSE d[1]
    <3>1. CASE Len(c) = 1
      BY <1>8, <1>12, <3>1
    <3>2. CASE Len(c) # 1
      <4>1. 1 \in 1 .. Len(c) - 1 /\ Len(d) # 0
        BY <1>1, <1>6, <1>8, <3>2
      <4>2. d[1] = c[1 + 1]
        BY <1>8, <4>1
      <4> QED
        BY <1>12, <3>2, <4>1, <4>2
    <3> QED
      BY <3>1, <3>2
  <2> QED
    BY <1>5, <1>8, <2>1, <2>2, <2>3, <2>4 DEF Linked
<1>15. \A u \in StackThreads, b \in Nodes \cup {NullNode} :
          Owns(u, b)' => (u = t /\ b = a) \/ (u # t /\ b # a /\ Owns(u, b))
  <2> SUFFICES ASSUME NEW u \in StackThreads, NEW b \in Nodes \cup {NullNode}, Owns(u, b)'
               PROVE  (u = t /\ b = a) \/ (u # t /\ b # a /\ Owns(u, b))
    OBVIOUS
  <2>1. CASE u = t
    BY <1>2, <1>4, <1>10, <2>1 DEF Owns
  <2>2. CASE u # t
    <3>1. Owns(u, b)
      BY <1>4, <2>2 DEF Owns
    <3>2. ~ On(b, c)
      BY <3>1, OwnNode
    <3>3. On(a, c)
      BY <1>5, <1>10
    <3> QED
      BY <2>2, <3>1, <3>2, <3>3
  <2> QED
    BY <2>1, <2>2
<1>16. Owned(d)'
  <2> SUFFICES ASSUME NEW u \in StackThreads, NEW b \in Nodes \cup {NullNode}, Owns(u, b)'
               PROVE  /\ b \in malloced' /\ ~ On(b, d) /\ node'[b].value \in Items
                      /\ \A v \in StackThreads : Owns(v, b)' => v = u
    BY DEF Owned, On
  <2>1. CASE u = t /\ b = a
    BY <1>5, <1>10, <1>15, <2>1
  <2>2. CASE u # t /\ b # a /\ Owns(u, b)
    <3>1. b \in malloced' /\ ~ On(b, d) /\ node'[b].value \in Items
      BY <1>5, <1>11, <2>2, OwnNode
    <3>2. \A v \in StackThreads : Owns(v, b)' => v = u
      BY <1>15, <2>2, OwnNode
    <3> QED
      BY <3>1, <3>2
  <2> QED
    BY <1>15, <2>1, <2>2
<1>17. ReadHeads(d)'
  <2> SUFFICES ASSUME NEW u \in StackThreads
               PROVE  LET me == stacker'[u] IN
                      /\ me.pc = "push_cas" => node'[me.new_node].next = me.old_head
                      /\ me.pc \in {"pop", "pop_next", "pop_cas", "pop_free", "pop_count"} => u \in Poppers
                      /\ me.pc \in {"pop_next", "pop_cas"} => On(me.old_head, d)
                      /\ me.pc = "pop_cas" => me.next = node'[me.old_head].next
    BY DEF ReadHeads, On
  <2>1. CASE u = t
    BY <1>2, <1>4, <1>5, <2>1
  <2>2. CASE u # t
    <3>1. u \notin Poppers
      BY <1>5, <2>2 DEF OnePopper
    <3>2. stacker'[u] = stacker[u] /\ stacker[u].pc \notin {"pop", "pop_next", "pop_cas", "pop_free", "pop_count"}
      BY <1>4, <2>2, <3>1 DEF SInv, ReadHeads
    <3> QED
      BY <1>5, <3>2 DEF SInv, ReadHeads
  <2> QED
    BY <2>1, <2>2
<1> QED
  BY <1>5, <1>7, <1>13, <1>14, <1>16, <1>17 DEF SInv, Kept, d

-----------------------------------------------------------------------------
(* The chain that the code walks                                           *)

First(c, n) == IF n <= Len(c) THEN SubSeq(c, 1, n) ELSE c

OneMore(before, n) ==
    LET a == IF before = << >> THEN head ELSE node[Last(before)].next
    IN  IF Len(before) < n - 1 \/ a = NullNode THEN before ELSE Append(before, a)

Builds(f) ==
    f = [n \in 0 .. Cardinality(Nodes) |-> IF n = 0 THEN << >> ELSE OneMore(f[n - 1], n)]

LEMMA FirstIs ==
    ASSUME NEW c \in Seq(Nodes), NEW n \in 0 .. Len(c)
    PROVE  /\ First(c, n) \in Seq(Nodes) /\ Len(First(c, n)) = n
           /\ \A i \in 1 .. n : First(c, n)[i] = c[i]
<1>1. Len(c) \in Nat /\ \A i \in 1 .. n : c[i] \in Nodes
  BY LenProperties, ElementOfSeq
<1>2. /\ SubSeq(c, 1, n) \in Seq(Nodes) /\ Len(SubSeq(c, 1, n)) = IF 1 <= n THEN n - 1 + 1 ELSE 0
      /\ \A i \in 1 .. n - 1 + 1 : SubSeq(c, 1, n)[i] = c[1 + i - 1]
  BY <1>1, SubSeqProperties
<1>3. First(c, n) = SubSeq(c, 1, n)
  BY <1>1 DEF First
<1> QED
  BY <1>1, <1>2, <1>3

\* Walking on from the first elements of the chain gives one more, as long as
\* there is one.
LEMMA FirstNext ==
    ASSUME StackTypeOK, NEW c, Linked(c), NEW n \in Nat \ {0}
    PROVE  OneMore(First(c, n - 1), n) = First(c, n)
<1>1. c \in Seq(Nodes) /\ Len(c) \in Nat
  BY LenProperties DEF Linked
<1>2. CASE n <= Len(c) + 1
  <2> DEFINE before == First(c, n - 1)
             a == IF before = << >> THEN head ELSE node[Last(before)].next
  <2>1. /\ before \in Seq(Nodes) /\ Len(before) = n - 1
        /\ \A i \in 1 .. n - 1 : before[i] = c[i]
    <3>1. n - 1 \in 0 .. Len(c)
      BY <1>1, <1>2
    <3> QED
      BY <1>1, <3>1, FirstIs
  <2> HIDE DEF before
  <2>2. a = IF n = Len(c) + 1 THEN NullNode ELSE c[n]
    <3>1. CASE n = 1
      <4>1. before = << >>
        BY <2>1, <3>1, EmptySeq
      <4> QED
        BY <1>1, <3>1, <4>1 DEF Linked
    <3>2. CASE n # 1
      <4>1. before # << >> /\ Last(before) = c[n - 1] /\ n - 1 \in 1 .. Len(c)
        BY <1>1, <1>2, <2>1, <3>2 DEF Last
      <4>2. node[c[n - 1]].next = IF n - 1 = Len(c) THEN NullNode ELSE c[(n - 1) + 1]
        BY <4>1 DEF Linked
      <4> QED
        BY <1>1, <4>1, <4>2
    <3> QED
      BY <3>1, <3>2
  <2> HIDE DEF a
  <2>3. OneMore(before, n) = IF Len(before) < n - 1 \/ a = NullNode THEN before ELSE Append(before, a)
    BY DEF OneMore, a
  <2>4. ~ Len(before) < n - 1
    BY <2>1
  <2>5. CASE n = Len(c) + 1
    <3>1. OneMore(before, n) = before /\ First(c, n) = c /\ Len(before) = Len(c)
      BY <1>1, <2>1, <2>2, <2>3, <2>5 DEF First
    <3>2. before = c
      <4>1. \A i \in 1 .. Len(before) : before[i] = c[i]
        BY <2>1
      <4> QED
        BY <1>1, <2>1, <3>1, <4>1, SeqEqual
    <3> QED
      BY <3>1, <3>2 DEF before
  <2>6. CASE n # Len(c) + 1
    <3>1. n \in 1 .. Len(c) /\ n \in 0 .. Len(c)
      BY <1>1, <1>2, <2>6
    <3>2. a = c[n] /\ a \in Nodes /\ a # NullNode
      BY <1>1, <2>2, <2>6, <3>1, ElementOfSeq, StackConstants
    <3>3. OneMore(before, n) = Append(before, a)
      BY <2>3, <2>4, <3>2
    <3>4. /\ Append(before, a) \in Seq(Nodes) /\ Len(Append(before, a)) = n
          /\ \A i \in 1 .. n : Append(before, a)[i] = c[i]
      <4>1. /\ Append(before, a) \in Seq(Nodes) /\ Len(Append(before, a)) = Len(before) + 1
            /\ \A i \in 1 .. Len(before) : Append(before, a)[i] = before[i]
            /\ Append(before, a)[Len(before) + 1] = a
        BY <2>1, <3>2, AppendProperties
      <4>2. ASSUME NEW i \in 1 .. n PROVE Append(before, a)[i] = c[i]
        <5>1. CASE i = n
          BY <2>1, <3>2, <4>1, <5>1
        <5>2. CASE i # n
          BY <2>1, <4>1, <5>2
        <5> QED
          BY <5>1, <5>2
      <4> QED
        BY <2>1, <4>1, <4>2
    <3>5. First(c, n) \in Seq(Nodes) /\ Len(First(c, n)) = n /\ \A i \in 1 .. n : First(c, n)[i] = c[i]
      BY <1>1, <3>1, FirstIs
    <3>6. Append(before, a) = First(c, n)
      <4>1. \A i \in 1 .. Len(Append(before, a)) : Append(before, a)[i] = First(c, n)[i]
        BY <3>4, <3>5
      <4> QED
        BY <3>4, <3>5, <4>1, SeqEqual
    <3> QED
      BY <3>3, <3>6 DEF before
  <2> QED
    BY <2>5, <2>6
<1>3. CASE ~ n <= Len(c) + 1
  <2>1. First(c, n - 1) = c /\ First(c, n) = c /\ Len(c) < n - 1
    BY <1>1, <1>3 DEF First
  <2> QED
    BY <2>1 DEF OneMore
<1> QED
  BY <1>2, <1>3

\* No chain is longer than there are nodes.
LEMMA ChainFits ==
    ASSUME NEW c, Linked(c)
    PROVE  Len(c) \in 0 .. Cardinality(Nodes) /\ Cardinality(Nodes) \in Nat
<1> DEFINE R == {c[i] : i \in 1 .. Len(c)}
<1>1. Len(c) \in Nat /\ \A i \in 1 .. Len(c) : c[i] \in Nodes
  BY LenProperties, ElementOfSeq DEF Linked
<1>2. R \subseteq Nodes /\ IsFiniteSet(Nodes)
  BY <1>1, StackConstants
<1>3. Cardinality(R) <= Cardinality(Nodes) /\ Cardinality(Nodes) \in Nat
  BY <1>2, FS_Subset, FS_CardinalityType
<1> DEFINE at == [i \in 1 .. Len(c) |-> c[i]]
<1>4. /\ at \in [1 .. Len(c) -> R]
      /\ \A i, j \in 1 .. Len(c) : at[i] = at[j] => i = j
      /\ \A r \in R : \E i \in 1 .. Len(c) : at[i] = r
  BY DEF Linked
<1>5. ExistsBijection(1 .. Len(c), R)
  BY <1>4, Fun_IsBij, Fun_ExistsBij
<1>6. Cardinality(R) = Len(c)
  BY <1>1, <1>5, FS_CountingElements
<1> HIDE DEF R
<1>7. Len(c) <= Cardinality(Nodes)
  BY <1>3, <1>6
<1> QED
  BY <1>1, <1>3, <1>7

LEMMA ChainIs == \A c : StackTypeOK /\ Linked(c) => Chain = c
<1> SUFFICES ASSUME NEW c, StackTypeOK, Linked(c) PROVE Chain = c
  OBVIOUS
<1> DEFINE N == Cardinality(Nodes)
<1>1. c \in Seq(Nodes) /\ Len(c) \in 0 .. N /\ N \in Nat
  BY ChainFits DEF Linked
<1>2. First(c, 0) = << >>
  BY <1>1, FirstIs, EmptySeq
<1>3. \E f : Builds(f)
  <2> DEFINE f == [n \in 0 .. N |-> First(c, n)]
  <2>1. ASSUME NEW n \in 0 .. N
        PROVE  f[n] = IF n = 0 THEN << >> ELSE OneMore(f[n - 1], n)
    <3>1. CASE n = 0
      BY <1>2, <3>1
    <3>2. CASE n # 0
      <4>1. n \in Nat \ {0} /\ n - 1 \in 0 .. N
        BY <1>1, <3>2
      <4>2. f[n] = First(c, n) /\ f[n - 1] = First(c, n - 1)
        BY <4>1
      <4> QED
        BY <3>2, <4>1, <4>2, FirstNext
    <3> QED
      BY <3>1, <3>2
  <2>2. Builds(f)
    BY <2>1 DEF Builds
  <2> QED
    BY <2>2
<1>4. Builds(ChainTo)
  <2> DEFINE f == CHOOSE f : Builds(f)
  <2>1. Builds(f)
    BY <1>3
  <2>2. ChainTo = f
    BY DEF ChainTo, Builds, OneMore
  <2> QED
    BY <2>1, <2>2
<1> DEFINE T == {n \in 0 .. N : ChainTo[n] # First(c, n)}
<1>5. T = {}
  <2> SUFFICES ASSUME T # {} PROVE FALSE
    OBVIOUS
  <2>1. T \subseteq Nat
    BY <1>1
  <2> HIDE DEF T
  <2>2. PICK n \in T : \A m \in T : n <= m
    BY <2>1, Least
  <2> USE DEF T
  <2>3. n \in 0 .. N /\ ChainTo[n] # First(c, n)
    OBVIOUS
  <2> HIDE DEF T
  <2>4. ChainTo[n] = IF n = 0 THEN << >> ELSE OneMore(ChainTo[n - 1], n)
    BY <1>4, <2>3 DEF Builds
  <2>5. n # 0
    BY <1>2, <2>3, <2>4
  <2>6. n \in Nat \ {0} /\ n - 1 \in 0 .. N /\ n - 1 \notin T
    BY <1>1, <2>2, <2>3, <2>5
  <2>7. ChainTo[n - 1] = First(c, n - 1)
    BY <2>6 DEF T
  <2> QED
    BY <2>3, <2>4, <2>5, <2>6, <2>7, FirstNext
<1>6. ChainTo[N] = First(c, N)
  BY <1>1, <1>5
<1>7. First(c, N) = c
  <2>1. CASE N = Len(c)
    BY <1>1, <2>1, SubSeqFull DEF First
  <2>2. CASE N # Len(c)
    BY <1>1, <2>2 DEF First
  <2> QED
    BY <2>1, <2>2
<1> QED
  BY <1>6, <1>7 DEF Chain

LEMMA ChainIsNext == \A c : StackTypeOK' /\ Linked(c)' => Chain' = c
<1>1. (\A c : StackTypeOK /\ Linked(c) => Chain = c)'
  BY ChainIs, PTL
<1> QED
  BY <1>1

-----------------------------------------------------------------------------
(* The refinement                                                          *)

StackInv == \E c : SInv(c)

\* What a step does to the chain.
LEMMA ChainStep ==
    ASSUME OnePopper, NEW c, SInv(c), [StackNext]_stackVars
    PROVE  \/ SInv(c)' /\ Kept(c)
           \/ \E a \in Nodes : SInv(<<a>> \o c)' /\ Kept(c) /\ node'[a].value \in Items
           \/ c # << >> /\ SInv(Tail(c))' /\ Kept(c)
<1>1. CASE UNCHANGED stackVars
  <2>1. StackTypeOK'
    BY <1>1 DEF SInv, StackTypeOK, stackVars
  <2>2. Linked(c)' /\ Kept(c)
    BY <1>1 DEF SInv, Linked, stackVars, Kept
  <2>3. Owned(c)'
    BY <1>1 DEF SInv, Owned, Owns, On, stackVars
  <2>4. ReadHeads(c)'
    BY <1>1 DEF SInv, ReadHeads, On, stackVars
  <2> QED
    BY <2>1, <2>2, <2>3, <2>4 DEF SInv
<1>2. ASSUME NEW t \in StackThreads, NEW x \in Items, stack_push(t, x)
      PROVE  SInv(c)' /\ Kept(c)
  BY <1>2, PushKeeps
<1>3. ASSUME NEW t \in StackThreads, PushRead(t) PROVE SInv(c)' /\ Kept(c)
  BY <1>3, PushReadKeeps
<1>4. ASSUME NEW t \in StackThreads, PopFree(t) PROVE SInv(c)' /\ Kept(c)
  BY <1>4, PopFreeKeeps
<1>5. ASSUME NEW t \in StackThreads, Local(t) PROVE SInv(c)' /\ Kept(c)
  BY <1>5, LocalKeeps
<1>6. ASSUME NEW t \in StackThreads, Pushes(t)
      PROVE  \E a \in Nodes : SInv(<<a>> \o c)' /\ Kept(c) /\ node'[a].value \in Items
  BY <1>6, PushesKeeps
<1>7. ASSUME NEW t \in StackThreads, Pops(t) PROVE c # << >> /\ SInv(Tail(c))' /\ Kept(c)
  BY <1>7, PopsKeeps
<1>8. \A t \in StackThreads : PushCas(t) => Pushes(t) \/ Local(t)
  BY DEF PushCas, Pushes, Local
<1>9. \A t \in StackThreads : PopCas(t) => Pops(t) \/ Local(t)
  BY DEF PopCas, Pops, Local
<1>10. \A t \in StackThreads : PushCount(t) \/ stack_pop(t) \/ PopNext(t) \/ PopCount(t) => Local(t)
  BY DEF Local
<1>11. CASE StackNext
  <2>1. PICK t \in StackThreads :
           \/ \E x \in Items : stack_push(t, x)
           \/ PushRead(t) \/ PushCas(t) \/ PushCount(t)
           \/ stack_pop(t) \/ PopNext(t) \/ PopCas(t) \/ PopFree(t) \/ PopCount(t)
    BY <1>11 DEF StackNext
  <2>2. CASE \E x \in Items : stack_push(t, x)
    BY <1>2, <2>2
  <2>3. CASE PushRead(t) \/ PopFree(t) \/ Local(t)
    BY <1>3, <1>4, <1>5, <2>3
  <2>4. CASE Pushes(t)
    BY <1>6, <2>4
  <2>5. CASE Pops(t)
    BY <1>7, <2>5
  <2> QED
    BY <1>8, <1>9, <1>10, <2>1, <2>2, <2>3, <2>4, <2>5
<1> QED
  BY <1>1, <1>11

LEMMA StackInductive == ASSUME OnePopper PROVE StackSpec => []StackInv
<1>1. StackInit => StackInv
  BY InitLinked DEF StackInv
<1>2. StackInv /\ [StackNext]_stackVars => StackInv'
  <2> SUFFICES ASSUME StackInv, [StackNext]_stackVars PROVE StackInv'
    OBVIOUS
  <2>1. PICK c : SInv(c)
    BY DEF StackInv
  <2>2. CASE SInv(c)'
    BY <2>2 DEF StackInv
  <2>3. CASE \E a \in Nodes : SInv(<<a>> \o c)'
    BY <2>3 DEF StackInv
  <2>4. CASE SInv(Tail(c))'
    BY <2>4 DEF StackInv
  <2> QED
    BY <2>1, <2>2, <2>3, <2>4, ChainStep
<1> QED
  BY <1>1, <1>2, PTL DEF StackSpec

\* The values of the chain, top first.
Content == [i \in DOMAIN Chain |-> node[Chain[i]].value]

LEMMA ContentIs ==
    ASSUME NEW c, SInv(c)
    PROVE  Content = [i \in 1 .. Len(c) |-> node[c[i]].value]
<1>1. Chain = c
  BY ChainIs DEF SInv
<1>2. DOMAIN c = 1 .. Len(c)
  BY LenProperties DEF SInv, Linked
<1> QED
  BY <1>1, <1>2 DEF Content

LEMMA ContentIsNext ==
    ASSUME NEW c, SInv(c)'
    PROVE  Content' = [i \in 1 .. Len(c) |-> node'[c[i]].value]
<1>1. Chain' = c
  BY ChainIsNext DEF SInv
<1>2. DOMAIN c = 1 .. Len(c)
  BY LenProperties DEF SInv, Linked
<1> QED
  BY <1>1, <1>2 DEF Content

\* With one thread that pops, for any number of threads that push, of nodes and of
\* items, each stack_push and each stack_pop happens at its compare-and-exchange,
\* though addresses of freed nodes are used again.
THEOREM StackIsLifo == ASSUME OnePopper PROVE StackSpec => ImplementsLifo
<1>1. StackInit => Content = << >>
  <2> SUFFICES ASSUME StackInit PROVE Content = << >>
    OBVIOUS
  <2>1. SInv(<< >>)
    BY InitLinked
  <2>2. Content = [i \in 1 .. Len(<< >>) |-> node[<< >>[i]].value]
    BY <2>1, ContentIs
  <2> QED
    BY <2>2
<1>2. StackInv /\ [StackNext]_stackVars => [LS!Pop \/ \E x \in Items : LS!Push(x)]_Content
  <2> SUFFICES ASSUME StackInv, [StackNext]_stackVars
               PROVE  \/ Content # << >> /\ Content' = Tail(Content)
                      \/ \E x \in Items : Content' = <<x>> \o Content
                      \/ Content' = Content
    BY DEF LS!Pop, LS!Push, Content
  <2>1. PICK c : SInv(c)
    BY DEF StackInv
  <2>2. c \in Seq(Nodes) /\ Len(c) \in Nat /\ \A i \in 1 .. Len(c) : node[c[i]].value \in Items
    BY <2>1, LenProperties DEF SInv, Linked
  <2> DEFINE values == [i \in 1 .. Len(c) |-> node[c[i]].value]
  <2>3. Content = values /\ values \in Seq(Items) /\ Len(values) = Len(c)
    BY <2>1, <2>2, ContentIs, IsASeq
  <2>4. CASE SInv(c)' /\ Kept(c)
    <3>1. Content' = [i \in 1 .. Len(c) |-> node'[c[i]].value]
      BY <2>4, ContentIsNext
    <3> QED
      BY <2>3, <2>4, <3>1 DEF Kept
  <2>5. CASE \E a \in Nodes : SInv(<<a>> \o c)' /\ Kept(c) /\ node'[a].value \in Items
    <3>1. PICK a \in Nodes : SInv(<<a>> \o c)' /\ Kept(c) /\ node'[a].value \in Items
      BY <2>5
    <3>2. PICK d : d = <<a>> \o c
      OBVIOUS
    <3>3. PICK x \in Items : x = node'[a].value
      BY <3>1
    <3>4. Content' = [i \in 1 .. Len(d) |-> node'[d[i]].value]
      BY <3>1, <3>2, ContentIsNext
    <3>5. Len(d) = 1 + Len(c) /\ \A i \in 1 .. 1 + Len(c) : d[i] = IF i <= 1 THEN a ELSE c[i - 1]
      <4>1. <<a>> \in Seq(Nodes) /\ Len(<<a>>) = 1 /\ <<a>>[1] = a
        OBVIOUS
      <4>2. /\ Len(d) = 1 + Len(c)
            /\ \A i \in 1 .. 1 + Len(c) : d[i] = IF i <= 1 THEN <<a>>[i] ELSE c[i - 1]
        BY <2>2, <3>2, <4>1, ConcatProperties
      <4> QED
        BY <2>2, <4>1, <4>2
    <3> DEFINE more == <<x>> \o values
    <3>6. /\ more \in Seq(Items) /\ Len(more) = 1 + Len(c)
          /\ \A i \in 1 .. 1 + Len(c) : more[i] = IF i <= 1 THEN x ELSE values[i - 1]
      <4>1. <<x>> \in Seq(Items) /\ Len(<<x>>) = 1 /\ <<x>>[1] = x
        OBVIOUS
      <4> HIDE DEF values
      <4>2. /\ more \in Seq(Items) /\ Len(more) = 1 + Len(c)
            /\ \A i \in 1 .. 1 + Len(c) : more[i] = IF i <= 1 THEN <<x>>[i] ELSE values[i - 1]
        BY <2>3, <4>1, ConcatProperties
      <4> QED
        BY <2>2, <4>1, <4>2
    <3> HIDE DEF more
    <3>7. ASSUME NEW i \in 1 .. 1 + Len(c) PROVE node'[d[i]].value = more[i]
      <4>1. CASE i <= 1
        <5>1. d[i] = a
          BY <3>5, <4>1
        <5>2. more[i] = x
          BY <3>6, <4>1
        <5> QED
          BY <3>3, <5>1, <5>2
      <4>2. CASE ~ i <= 1
        <5>1. i - 1 \in 1 .. Len(c)
          BY <2>2, <4>2
        <5>2. node'[d[i]].value = node[c[i - 1]].value
          BY <3>1, <3>5, <4>2, <5>1 DEF Kept
        <5>3. more[i] = node[c[i - 1]].value
          BY <3>6, <4>2, <5>1
        <5> QED
          BY <5>2, <5>3
      <4> QED
        BY <4>1, <4>2
    <3>8. Content' = [i \in 1 .. 1 + Len(c) |-> more[i]]
      BY <3>4, <3>5, <3>7
    <3>9. more = [i \in 1 .. 1 + Len(c) |-> more[i]]
      <4>1. more \in [1 .. Len(more) -> Items]
        BY <3>6, LenProperties
      <4> QED
        BY <3>6, <4>1
    <3> QED
      BY <2>3, <3>3, <3>8, <3>9 DEF more
  <2>6. CASE c # << >> /\ SInv(Tail(c))' /\ Kept(c)
    <3>1. PICK d : d = Tail(c)
      OBVIOUS
    <3>2. Content' = [i \in 1 .. Len(d) |-> node'[d[i]].value]
      BY <2>6, <3>1, ContentIsNext
    <3>3. Len(c) # 0 /\ Len(d) = Len(c) - 1 /\ \A i \in 1 .. Len(d) : d[i] = c[i + 1]
      BY <2>2, <2>6, <3>1, HeadTailProperties, EmptySeq
    <3>4. values # << >>
      BY <2>3, <3>3
    <3> DEFINE rest == Tail(values)
    <3>5. rest \in Seq(Items) /\ Len(rest) = Len(c) - 1 /\ \A i \in 1 .. Len(rest) : rest[i] = values[i + 1]
      <4> HIDE DEF values
      <4> QED
        BY <2>3, <3>4, HeadTailProperties
    <3> HIDE DEF rest
    <3>6. ASSUME NEW i \in 1 .. Len(c) - 1 PROVE node'[d[i]].value = rest[i]
      <4>1. i + 1 \in 1 .. Len(c)
        BY <2>2
      <4> QED
        BY <2>6, <3>3, <3>5, <4>1 DEF Kept
    <3>7. Content' = [i \in 1 .. Len(c) - 1 |-> rest[i]]
      BY <3>2, <3>3, <3>6
    <3>8. rest = [i \in 1 .. Len(c) - 1 |-> rest[i]]
      <4>1. rest \in [1 .. Len(rest) -> Items]
        BY <3>5, LenProperties
      <4> QED
        BY <3>5, <4>1
    <3> QED
      BY <2>3, <3>4, <3>7, <3>8 DEF rest
  <2> QED
    BY <2>1, <2>4, <2>5, <2>6, ChainStep
<1>3. ImplementsLifo <=> Content = << >> /\ [][LS!Pop \/ \E x \in Items : LS!Push(x)]_Content
  BY DEF ImplementsLifo, LS!LifoSpec, Content
<1> QED
  BY <1>1, <1>2, <1>3, StackInductive, PTL DEF StackSpec
=============================================================================
