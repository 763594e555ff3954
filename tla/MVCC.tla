--------------------------------- MODULE MVCC ---------------------------------
(***************************************************************************)
(* The version manager of database phase 6 (mvcc.c): every record has a    *)
(* chain of versions, newest first; a version is active until its writer   *)
(* commits or aborts it, and the garbage collector unlinks versions.       *)
(* Callers pass any version identifier they were once given, also one that *)
(* is decided already or collected, as nothing in the code stops them.     *)
(***************************************************************************)
EXTENDS Integers, Sequences, FiniteSets, SequencesExt, Selection

CONSTANTS
    RecordIds,
    MAX_RECORDS,
    MAX_VERSIONS,   \* slots of a read set
    MAX_TXN,        \* bound: transaction identifiers
    MAX_VERSION_ID  \* bound: versions created

ASSUME MvccConstants ==
    /\ MAX_RECORDS \in Nat /\ MAX_VERSIONS \in Nat /\ MAX_TXN \in Nat /\ MAX_VERSION_ID \in Nat

Txns == 1 .. MAX_TXN

VersionStatus == {"ACTIVE", "COMMITTED", "ABORTED"}

Version == [version_id : 1 .. MAX_VERSION_ID, txn_id : Txns, status : VersionStatus]

VARIABLES
    records,          \* the record ids in use, in the order of their creation
    chain,            \* head_version and the next_version links of each
    version_count,    \* of each
    next_version_id,
    read_set,         \* the versions the last read set of each transaction points at
    committed,        \* auxiliary: the versions of each record that were last decided
                      \* COMMITTED, also those that were freed since
    given_up          \* auxiliary: the versions that were committed when the collector
                      \* ran, by transactions older than all that were active then

historyVars == <<committed, given_up>>

mvccVars == <<records, chain, version_count, next_version_id, read_set, historyVars>>

MvccTypeOK ==
    /\ records \in Seq(RecordIds) /\ Len(records) <= MAX_RECORDS
    /\ chain \in [RecordIds -> Seq(Version)]
    /\ version_count \in [RecordIds -> Nat]
    /\ next_version_id \in 1 .. MAX_VERSION_ID + 1
    /\ read_set \in [Txns -> SUBSET (1 .. MAX_VERSION_ID)]
    /\ committed \in [RecordIds -> SUBSET (1 .. MAX_VERSION_ID)]
    /\ given_up \subseteq 1 .. MAX_VERSION_ID

\* mvcc_manager_create
MvccInit ==
    /\ records = << >>
    /\ chain = [r \in RecordIds |-> << >>]
    /\ version_count = [r \in RecordIds |-> 0]
    /\ next_version_id = 1
    /\ read_set = [t \in Txns |-> {}]
    /\ committed = [r \in RecordIds |-> {}]
    /\ given_up = {}

Ids(r) == {chain[r][i].version_id : i \in DOMAIN chain[r]}
Live == UNION {Ids(r) : r \in RecordIds}

CommittedAt(r) == {i \in DOMAIN chain[r] : chain[r][i].status = "COMMITTED"}

-----------------------------------------------------------------------------

\* A record is created with its first version, if there is room for it.
mvcc_manager_get_or_create_record(r) ==
    /\ r \in Range(records) \/ Len(records) < MAX_RECORDS
    /\ records' = IF r \in Range(records) THEN records ELSE Append(records, r)

mvcc_manager_create_version_atTail(r, t) ==
    /\ mvcc_manager_get_or_create_record(r)
    /\ next_version_id <= MAX_VERSION_ID
    /\ chain' = [chain EXCEPT ![r] = Append(@, [version_id |-> next_version_id,
                                                txn_id |-> t, status |-> "ACTIVE"])]
    /\ version_count' = [version_count EXCEPT ![r] = @ + 1]
    /\ next_version_id' = next_version_id + 1
    /\ UNCHANGED <<read_set, historyVars>>

mvcc_manager_create_version(r, t) ==
    /\ mvcc_manager_get_or_create_record(r)
    /\ next_version_id <= MAX_VERSION_ID
    /\ chain' = [chain EXCEPT ![r] = <<[version_id |-> next_version_id, txn_id |-> t,
                                        status |-> "ACTIVE"]>> \o @]
    /\ version_count' = [version_count EXCEPT ![r] = @ + 1]
    /\ next_version_id' = next_version_id + 1
    /\ UNCHANGED <<read_set, historyVars>>

\* The first committed version of the chain, whoever reads; 0 if there is none.
mvcc_manager_read_version(r) ==
    IF CommittedAt(r) = {} THEN 0 ELSE chain[r][Min(CommittedAt(r))].version_id

\* commit_version and abort_version: the version with that identifier, if it is
\* still in a chain, gets the status; nobody looks at the status it had.
Decide(id, status) ==
    /\ id \in Live
    /\ chain' = [r \in RecordIds |->
                   [i \in DOMAIN chain[r] |->
                      IF chain[r][i].version_id = id THEN [chain[r][i] EXCEPT !.status = status]
                                                     ELSE chain[r][i]]]
    /\ committed' = [r \in RecordIds |->
                       IF id \notin Ids(r) THEN committed[r]
                       ELSE IF status = "COMMITTED" THEN committed[r] \cup {id}
                       ELSE committed[r] \ {id}]
    /\ UNCHANGED <<records, version_count, next_version_id, read_set, given_up>>

mvcc_manager_commit_version(id) == Decide(id, "COMMITTED")
mvcc_manager_abort_version(id) == Decide(id, "ABORTED")

\* Where the committed versions are, a record and a position in its chain, and the
\* order in which they are found: record by record, each newest first.
CommittedPlaces == UNION {{k} \X CommittedAt(records[k]) : k \in DOMAIN records}

FoundBefore(p, q) == p[1] < q[1] \/ (p[1] = q[1] /\ p[2] < q[2])

\* A transaction is handed pointers to all committed versions, or to the first
\* MAX_VERSIONS that are found.
mvcc_manager_get_read_set(t) ==
    /\ read_set' = [read_set EXCEPT ![t] =
          {chain[records[p[1]]][p[2]].version_id :
             p \in {q \in CommittedPlaces :
                      Cardinality({o \in CommittedPlaces : FoundBefore(o, q)}) < MAX_VERSIONS}}]
    /\ UNCHANGED <<records, chain, version_count, next_version_id, historyVars>>

Undecided(t) == \E r \in RecordIds : \E i \in DOMAIN chain[r] :
                    chain[r][i].txn_id = t /\ chain[r][i].status = "ACTIVE"

\* A transaction is active while it has an undecided version or uses a read set.
Active(t) == Undecided(t) \/ read_set[t] # {}

OlderThanActive(v) == \A t \in Txns : Active(t) => v.txn_id < t

IsCollected_inclusive(v, min_active_txn_id) ==
    \/ v.status = "ABORTED"
    \/ v.status = "COMMITTED" /\ v.txn_id <= min_active_txn_id

IsCollected(v, min_active_txn_id) ==
    \/ v.status = "ABORTED"
    \/ v.status = "COMMITTED" /\ v.txn_id < min_active_txn_id

Collected(r, m) == {i \in DOMAIN chain[r] : IsCollected(chain[r][i], m)}

\* Every chain loses the versions to collect and keeps its order; the records
\* stay, also those with an empty chain.
mvcc_manager_garbage_collect(m) ==
    /\ chain' = [r \in RecordIds |-> Selection(chain[r], DOMAIN chain[r] \ Collected(r, m))]
    /\ version_count' = [r \in RecordIds |-> version_count[r] - Cardinality(Collected(r, m))]
    /\ given_up' = given_up \cup
          UNION {{chain[r][i].version_id : i \in {j \in CommittedAt(r) : OlderThanActive(chain[r][j])}} :
                 r \in RecordIds}
    /\ UNCHANGED <<records, next_version_id, read_set, committed>>

\* The caller is done with its read set and frees it.
Release(t) ==
    /\ read_set' = [read_set EXCEPT ![t] = {}]
    /\ UNCHANGED <<records, chain, version_count, next_version_id, historyVars>>

\* min_active_txn_id: the smallest active transaction; past the last one if there
\* is none.
MinActive == Min({MAX_TXN + 1} \cup {t \in Txns : Active(t)})

MvccNext ==
    \/ \E r \in RecordIds, t \in Txns : mvcc_manager_create_version(r, t)
    \/ \E id \in 1 .. next_version_id - 1 :
          mvcc_manager_commit_version(id) \/ mvcc_manager_abort_version(id)
    \/ \E t \in Txns : mvcc_manager_get_read_set(t) \/ Release(t)
    \/ mvcc_manager_garbage_collect(MinActive)

MvccSpec == MvccInit /\ [][MvccNext]_mvccVars

-----------------------------------------------------------------------------
(* Properties                                                              *)

\* A read takes the first committed version it meets; what it finds was committed,
\* is of that record alone, and is the newest (created last) of all that were ever
\* committed for it, freed ones included, after any collections and decisions in
\* any order, with one exception: newer ones that the collector met when their
\* transactions were older than every active one.  That exception is real.  The
\* collector frees also the newest version of a record (mvcc.c:217-226), so a read
\* may fall back to an older one, or find nothing, against mvcc.h:166 ("Reads the
\* latest committed version of a record") and mvcc.h:238.
ReadReturnsNewest ==
    /\ \A r, q \in RecordIds : r # q => Ids(r) \cap Ids(q) = {}
    /\ \A r \in RecordIds :
          LET found == mvcc_manager_read_version(r)
          IN  /\ found \in committed[r] \cup {0}
              /\ \A id \in committed[r] : id > found => id \in given_up

\* While a transaction has an undecided version the collector takes none that it
\* may still rely on: only its aborted versions go.
WritersKeepTheirVersions ==
    [][\A t \in Txns : Undecided(t) =>
          \A r \in RecordIds : \A i \in DOMAIN chain[r] :
              chain[r][i].txn_id = t /\ chain[r][i].status # "ABORTED"
                  => chain[r][i].version_id \in Ids(r)']_mvccVars

\* mvcc.h:238 "Removes versions that are no longer needed": a version that a
\* transaction's read set points at is still there.
ReadSetsAreLive == \A t \in Txns : read_set[t] \subseteq Live
=============================================================================
