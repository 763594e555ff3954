---------------------------- MODULE WriteAheadLog ----------------------------
(***************************************************************************)
(* The log of the database (Database/Oracle/C/phase5): wal.c, the log      *)
(* manager above it (log_manager.c), its checkpoints (checkpoint.c) and    *)
(* the Transaction objects (transaction.c) of clients that keep the        *)
(* protocol: begin, log each write before it is added to the transaction,  *)
(* then commit or abort, and believe an LSN only when it is not 0.         *)
(*                                                                         *)
(* Reaching the disk is the is_flushed mark, as in the code.  Pages,       *)
(* offsets, values and times of an entry are left out.                     *)
(***************************************************************************)
EXTENDS Integers, Sequences, FiniteSets, FiniteSetsExt

CONSTANTS
    MAX_LOG_ENTRIES,
    MAX_TXN_OPERATIONS,
    MAX_ACTIVE_TXN,   \* transactions a checkpoint can list
    MAX_CHECKPOINTS,
    MAX_TXN           \* bound: transactions ever begun

TxnIds == 1 .. MAX_TXN

ASSUME LogConstants ==
    /\ MAX_LOG_ENTRIES \in Nat
    /\ MAX_TXN_OPERATIONS \in Nat
    /\ MAX_ACTIVE_TXN \in Nat
    /\ MAX_CHECKPOINTS \in Nat
    /\ MAX_TXN \in Nat

Types == {"BEGIN", "WRITE", "COMMIT", "ABORT", "CHECKPOINT"}

\* CHECKPOINT entries carry transaction 0.
LogEntry == [lsn : Nat, type : Types, txn_id : 0 .. MAX_TXN, is_flushed : BOOLEAN]

States == {"ACTIVE", "COMMITTED", "ABORTED"}

NotBegun == [state |-> "NONE", op_count |-> 0]

Transaction == [state : States, op_count : 0 .. MAX_TXN_OPERATIONS]

Checkpoint == [lsn : Nat, active_txns : SUBSET TxnIds, active_count : Nat]

VARIABLES
    entries,      \* the log
    next_lsn,
    flushed_lsn,
    next_txn_id,
    checkpoints,  \* the last one also gives last_checkpoint_id and _lsn
    txns          \* the clients' Transaction objects

walVars == <<entries, next_lsn, flushed_lsn, next_txn_id, checkpoints, txns>>

TypeOK ==
    /\ entries \in Seq(LogEntry)
    /\ next_lsn \in Nat
    /\ flushed_lsn \in Nat
    /\ next_txn_id \in 1 .. MAX_TXN + 1
    /\ checkpoints \in Seq(Checkpoint)
    /\ txns \in [TxnIds -> Transaction \cup {NotBegun}]

Init ==
    /\ entries = << >>
    /\ next_lsn = 1
    /\ flushed_lsn = 0
    /\ next_txn_id = 1
    /\ checkpoints = << >>
    /\ txns = [t \in TxnIds |-> NotBegun]

-----------------------------------------------------------------------------
(* wal_append_entry and the two flushes.  An append returns the new LSN, or 0 *)
(* when the log is full.                                                     *)

Full == Len(entries) >= MAX_LOG_ENTRIES

NewLsn == IF Full THEN 0 ELSE next_lsn

wal_append_entry_overwrites(type, t) ==
    LET e == [lsn |-> next_lsn, type |-> type, txn_id |-> t, is_flushed |-> FALSE]
    IN  IF Full THEN [entries EXCEPT ![MAX_LOG_ENTRIES] = e] ELSE Append(entries, e)

wal_append_entry(type, t) ==
    IF Full THEN entries
    ELSE Append(entries, [lsn |-> next_lsn, type |-> type, txn_id |-> t,
                          is_flushed |-> FALSE])

CountLsn == next_lsn' = IF Full THEN next_lsn ELSE next_lsn + 1

AppendOnly(type, t) ==
    /\ entries' = wal_append_entry(type, t)
    /\ CountLsn
    /\ UNCHANGED flushed_lsn

\* The log with the entries at positions P marked; the last of them, if any,
\* names flushed_lsn.
MarkFlushed(log, P) ==
    /\ entries' = [i \in DOMAIN log |->
                      IF i \in P THEN [log[i] EXCEPT !.is_flushed = TRUE] ELSE log[i]]
    /\ flushed_lsn' = IF P = {} THEN flushed_lsn ELSE log[Max(P)].lsn

wal_flush ==
    /\ MarkFlushed(entries, {i \in DOMAIN entries : ~ entries[i].is_flushed})
    /\ UNCHANGED <<next_lsn, next_txn_id, checkpoints, txns>>

FlushTo_exactly(log, lsn) == MarkFlushed(log, {i \in DOMAIN log : log[i].lsn = lsn})

FlushTo(log, lsn) == MarkFlushed(log, {i \in DOMAIN log : log[i].lsn <= lsn})

wal_flush_to_lsn(lsn) ==
    /\ FlushTo(entries, lsn)
    /\ UNCHANGED <<next_lsn, next_txn_id, checkpoints, txns>>

-----------------------------------------------------------------------------
(* log_manager.c, called by clients that keep a Transaction each             *)

\* The id is taken and returned also when the entry does not fit.
log_manager_begin_transaction ==
    /\ next_txn_id <= MAX_TXN
    /\ next_txn_id' = next_txn_id + 1
    /\ AppendOnly("BEGIN", next_txn_id)
    /\ txns' = [txns EXCEPT ![next_txn_id] = [state |-> "ACTIVE", op_count |-> 0]]
    /\ UNCHANGED checkpoints

IsActive(t) == txns[t].state = "ACTIVE"

\* A write is logged, and then added to the transaction unless that is full.
transaction_add_operation(t) ==
    txns' = [txns EXCEPT ![t].op_count =
                IF @ >= MAX_TXN_OPERATIONS THEN @ ELSE @ + 1]

log_manager_log_write(t) ==
    /\ IsActive(t)
    /\ AppendOnly("WRITE", t)
    /\ IF NewLsn = 0 THEN UNCHANGED txns ELSE transaction_add_operation(t)
    /\ UNCHANGED <<next_txn_id, checkpoints>>

Finish(t, state) ==
    IF NewLsn = 0 THEN UNCHANGED txns ELSE txns' = [txns EXCEPT ![t].state = state]

log_manager_commit_transaction_flushFirst(t) ==
    /\ IsActive(t)
    /\ LET flushed == [i \in DOMAIN entries |-> [entries[i] EXCEPT !.is_flushed = TRUE]]
       IN  entries' = IF Full THEN flushed
                      ELSE Append(flushed, [lsn |-> next_lsn, type |-> "COMMIT",
                                            txn_id |-> t, is_flushed |-> FALSE])
    /\ CountLsn
    /\ UNCHANGED flushed_lsn
    /\ Finish(t, "COMMITTED")
    /\ UNCHANGED <<next_txn_id, checkpoints>>

\* The COMMIT entry is appended and the log flushed up to it; up to 0, that is
\* not at all, when the log is full.
log_manager_commit_transaction(t) ==
    /\ IsActive(t)
    /\ FlushTo(wal_append_entry("COMMIT", t), NewLsn)
    /\ CountLsn
    /\ Finish(t, "COMMITTED")
    /\ UNCHANGED <<next_txn_id, checkpoints>>

log_manager_abort_transaction_unlogged(t) ==
    /\ IsActive(t)
    /\ txns' = [txns EXCEPT ![t].state = "ABORTED"]
    /\ UNCHANGED <<entries, next_lsn, flushed_lsn, next_txn_id, checkpoints>>

\* An abort is appended, not flushed.
log_manager_abort_transaction(t) ==
    /\ IsActive(t)
    /\ AppendOnly("ABORT", t)
    /\ Finish(t, "ABORTED")
    /\ UNCHANGED <<next_txn_id, checkpoints>>

\* checkpoint_manager_create_checkpoint: records the LSN it is given (0 when the
\* log was full) and active_count; lists as many transactions as fit.
RecordCheckpoint(active) ==
    IF Len(checkpoints) >= MAX_CHECKPOINTS
    THEN UNCHANGED checkpoints
    ELSE \E listed \in SUBSET active :
            /\ IF Cardinality(active) <= MAX_ACTIVE_TXN THEN listed = active
               ELSE Cardinality(listed) = MAX_ACTIVE_TXN
            /\ checkpoints' = Append(checkpoints,
                  [lsn |-> NewLsn, active_txns |-> listed,
                   active_count |-> Cardinality(active)])

log_manager_create_checkpoint ==
    /\ AppendOnly("CHECKPOINT", 0)
    /\ RecordCheckpoint({t \in TxnIds : IsActive(t)})
    /\ UNCHANGED <<next_txn_id, txns>>

Next ==
    \/ log_manager_begin_transaction
    \/ \E t \in TxnIds :
          \/ log_manager_log_write(t)
          \/ log_manager_commit_transaction(t)
          \/ log_manager_abort_transaction(t)
    \/ log_manager_create_checkpoint
    \/ wal_flush
    \/ \E lsn \in 1 .. next_lsn : wal_flush_to_lsn(lsn)

Spec == Init /\ [][Next]_walVars
-----------------------------------------------------------------------------
(* Properties                                                              *)

EntriesOf(t) == {i \in DOMAIN entries : entries[i].txn_id = t}

\* An entry's LSN is its position, also after appends that were refused, so
\* "up to LSN n" and "the first n entries" are the same.
LsnIsPosition ==
    /\ next_lsn = Len(entries) + 1
    /\ \A i \in DOMAIN entries : entries[i].lsn = i

\* No entry is on disk before all older ones: whatever is lost is a suffix.
FlushedIsPrefix ==
    \A i, j \in DOMAIN entries :
        i < j /\ entries[j].is_flushed => entries[i].is_flushed

\* A transaction that was told it committed has all its entries on disk, its
\* COMMIT among them.
CommittedIsDurable ==
    \A t \in TxnIds : txns[t].state = "COMMITTED" =>
        /\ \A i \in EntriesOf(t) : entries[i].is_flushed
        /\ \E i \in EntriesOf(t) : entries[i].type = "COMMIT"

HistoryIsWellFormed ==
    \A t \in TxnIds :
        /\ EntriesOf(t) = {} => txns[t] = NotBegun \/ Full
        /\ \A i \in EntriesOf(t) :
              /\ entries[i].type = "BEGIN" <=> \A j \in EntriesOf(t) : i <= j
              /\ entries[i].type = "COMMIT" => txns[t].state = "COMMITTED"
              /\ entries[i].type = "ABORT" => txns[t].state = "ABORTED"
              /\ entries[i].type \in {"COMMIT", "ABORT"} => \A j \in EntriesOf(t) : j <= i

Writes(t) == {i \in EntriesOf(t) : entries[i].type = "WRITE"}

CheckpointsMatchLog ==
    \A c \in DOMAIN checkpoints :
        LET lsn == checkpoints[c].lsn
            begun == {t \in TxnIds : \E i \in EntriesOf(t) : i < lsn}
            ended == {t \in TxnIds : \E i \in EntriesOf(t) :
                         i < lsn /\ entries[i].type \in {"COMMIT", "ABORT"}}
            listed == checkpoints[c].active_txns
        IN  lsn # 0 =>
              /\ checkpoints[c].active_count = Cardinality(begun \ ended)
              /\ listed \subseteq begun \ ended
              /\ listed = begun \ ended \/ Cardinality(listed) = MAX_ACTIVE_TXN

\* The log tells each transaction's story as its client knows it: BEGIN first,
\* then writes, and at most one outcome, last, which is the client's; only a
\* transaction that found the log full has no entry at all.  And a checkpoint
\* that is in the log counts the transactions that the log shows as begun and not
\* ended before it, and lists those of them that fit.
\* log_manager.c:66-215, checkpoint.c:56-92.
LogTellsTheStory == HistoryIsWellFormed /\ CheckpointsMatchLog

AsLogged(e) == [type |-> e.type, txn_id |-> e.txn_id]

DL == INSTANCE DurableLog
      WITH Entries <- [type : Types, txn_id : 0 .. MAX_TXN],
           Commits <- [type : {"COMMIT"}, txn_id : TxnIds],
           log     <- [i \in DOMAIN entries |-> AsLogged(entries[i])],
           durable <- {i \in DOMAIN entries : entries[i].is_flushed}

\* The log is never rewritten, what is on disk stays there, and a commit takes
\* the whole log with it.
ImplementsDurableLog == DL!LogSpec
=============================================================================
