------------------------------- MODULE Recovery -------------------------------
(***************************************************************************)
(* The recovery manager of the database (recovery.c of phase 5) over the   *)
(* write ahead log and its checkpoints.  Its phases can be called one by   *)
(* one, or all three by recovery_manager_recover.  Redo and undo apply     *)
(* nothing yet ("In a real implementation, would apply the write"): they   *)
(* change no state, and what is modelled is which entries they visit.      *)
(***************************************************************************)
EXTENDS WriteAheadLog, Selection, SequencesExt

VARIABLES
    redo_count, undo_count,  \* of RecoveryManager
    recovered

recVars == <<redo_count, undo_count, recovered>>
allVars == <<walVars, recVars>>

RecTypeOK ==
    /\ redo_count \in 0 .. MAX_LOG_ENTRIES /\ undo_count \in 0 .. MAX_LOG_ENTRIES
    /\ recovered \in BOOLEAN

RecInit ==
    /\ Init
    /\ redo_count = 0 /\ undo_count = 0
    /\ recovered = FALSE

\* checkpoint_manager_get_last_checkpoint gives where the scan starts.
start_lsn == IF checkpoints = << >> THEN 0 ELSE Last(checkpoints).lsn

CountAfter(lsn, type) ==
    Cardinality({i \in DOMAIN entries : entries[i].lsn > lsn /\ entries[i].type = type})

Analyse ==
    /\ redo_count' = CountAfter(start_lsn, "COMMIT")
    /\ undo_count' = CountAfter(start_lsn, "ABORT")

\* The positions of the writes, whoever wrote them and whatever became of the
\* transaction.
Written == {i \in DOMAIN entries : entries[i].type = "WRITE"}

Redone_fromCheckpoint == Selection(entries, {i \in Written : entries[i].lsn > start_lsn})

\* The entries redo visits.
Redone == Selection(entries, Written)

\* Undo visits the same ones, from the end of the log.
Undone == Reverse(Selection(entries, Written))

recovery_manager_analysis_phase ==
    /\ Analyse
    /\ UNCHANGED <<walVars, recovered>>

recovery_manager_recover ==
    /\ Analyse
    /\ recovered' = TRUE
    /\ UNCHANGED walVars

RecNext ==
    \/ Next /\ UNCHANGED recVars
    \/ recovery_manager_analysis_phase
    \/ recovery_manager_recover

RecSpec == RecInit /\ [][RecNext]_allVars
-----------------------------------------------------------------------------
(* Properties                                                              *)

Outcome(t) == txns[t].state

\* Redo replays every write a committed transaction is known to have made, those
\* before the last checkpoint too, in the order they were made; undo takes a
\* transaction's writes back last to first, so that each finds what the one before
\* it left.
ReplayIsOrdered ==
    /\ \A t \in TxnIds : Outcome(t) = "COMMITTED" =>
          LET replayed == {k \in DOMAIN Redone : Redone[k].txn_id = t}
          IN  /\ Cardinality(replayed) >= txns[t].op_count
              /\ \A i, j \in replayed : i < j => Redone[i].lsn < Redone[j].lsn
    /\ \A i, j \in DOMAIN Undone :
          i < j /\ Undone[i].txn_id = Undone[j].txn_id => Undone[i].lsn > Undone[j].lsn

\* recovery.c:149 "Rolls back all uncommitted transactions.": the undo phase
\* leaves committed transactions alone.
UndoesUncommittedOnly ==
    \A k \in DOMAIN Undone :
        ~ \E i \in EntriesOf(Undone[k].txn_id) : entries[i].type = "COMMIT"
=============================================================================
