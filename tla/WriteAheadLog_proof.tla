------------------------- MODULE WriteAheadLog_proof -------------------------
(***************************************************************************)
(* Proofs about WriteAheadLog for every size of the log, of a transaction, *)
(* of a checkpoint and every number of transactions.                       *)
(***************************************************************************)
EXTENDS Recovery

\* The inductive invariant: that an append takes the next position, that what is
\* on disk is a prefix, and that a transaction ends with its last entry on disk.
IInv == TypeOK /\ LsnIsPosition /\ FlushedIsPrefix /\ CommittedIsDurable

-----------------------------------------------------------------------------
(* Marking entries as flushed and appending them                           *)

\* The log with positions P marked is the same log otherwise.
LEMMA MarkFlushedKeeps ==
    ASSUME NEW log \in Seq(LogEntry), NEW P \in SUBSET DOMAIN log, MarkFlushed(log, P)
    PROVE  /\ entries' \in Seq(LogEntry)
           /\ DOMAIN entries' = DOMAIN log
           /\ Len(entries') = Len(log)
           /\ \A i \in DOMAIN log :
                 /\ entries'[i].lsn = log[i].lsn
                 /\ entries'[i].type = log[i].type
                 /\ entries'[i].txn_id = log[i].txn_id
                 /\ entries'[i].is_flushed <=> (i \in P \/ log[i].is_flushed)
<1>1. DOMAIN log = 1 .. Len(log) /\ Len(log) \in Nat
  OBVIOUS
<1>2. \A i \in DOMAIN log : log[i] \in LogEntry
  BY <1>1
<1>3. entries' = [i \in DOMAIN log |->
                     IF i \in P THEN [log[i] EXCEPT !.is_flushed = TRUE] ELSE log[i]]
  BY DEF MarkFlushed
<1>4. \A i \in DOMAIN log : entries'[i] \in LogEntry
  BY <1>2, <1>3 DEF LogEntry
<1>5. entries' \in [1 .. Len(log) -> LogEntry]
  BY <1>1, <1>3, <1>4
<1>6. entries' \in Seq(LogEntry) /\ Len(entries') = Len(log) /\ DOMAIN entries' = DOMAIN log
  BY <1>1, <1>5
<1>7. ASSUME NEW i \in DOMAIN log
      PROVE  /\ entries'[i].lsn = log[i].lsn
             /\ entries'[i].type = log[i].type
             /\ entries'[i].txn_id = log[i].txn_id
             /\ entries'[i].is_flushed <=> (i \in P \/ log[i].is_flushed)
  BY <1>2, <1>3, <1>7 DEF LogEntry
<1> QED
  BY <1>6, <1>7

\* In a log whose LSNs are positions, flushing up to an LSN marks a prefix.
LEMMA FlushToMarksPrefix ==
    ASSUME NEW log \in Seq(LogEntry), NEW lsn \in Nat, flushed_lsn \in Nat,
           \A i \in DOMAIN log : log[i].lsn = i,
           FlushTo(log, lsn)
    PROVE  /\ entries' \in Seq(LogEntry)
           /\ Len(entries') = Len(log)
           /\ \A i \in 1 .. Len(log) :
                 /\ entries'[i].lsn = log[i].lsn
                 /\ entries'[i].type = log[i].type
                 /\ entries'[i].txn_id = log[i].txn_id
                 /\ entries'[i].is_flushed <=> (i <= lsn \/ log[i].is_flushed)
           /\ flushed_lsn' \in Nat
<1> DEFINE P == {i \in DOMAIN log : log[i].lsn <= lsn}
<1>1. DOMAIN log = 1 .. Len(log) /\ Len(log) \in Nat
  OBVIOUS
<1>2. P = {i \in 1 .. Len(log) : i <= lsn}
  BY <1>1
<1>3. MarkFlushed(log, P) /\ P \in SUBSET DOMAIN log
  BY DEF FlushTo
<1>4. flushed_lsn' \in Nat
  <2>1. CASE P = {}
    BY <1>3, <2>1 DEF MarkFlushed
  <2>2. CASE P # {}
    <3>1. PICK m \in P : \A i \in P : m >= i
      <4>1. CASE lsn <= Len(log)
        <5>1. lsn \in P
          BY <1>1, <1>2, <2>2, <4>1
        <5> QED
          BY <1>1, <1>2, <5>1
      <4>2. CASE lsn > Len(log)
        <5>1. Len(log) \in P
          BY <1>1, <1>2, <2>2, <4>2
        <5> QED
          BY <1>1, <1>2, <5>1
      <4> QED
        BY <1>1, <4>1, <4>2
    <3>2. Max(P) \in P
      BY <3>1 DEF Max
    <3>3. log[Max(P)] \in LogEntry
      BY <1>1, <3>2
    <3> QED
      BY <1>3, <2>2, <3>3 DEF MarkFlushed, LogEntry
  <2> QED
    BY <2>1, <2>2
<1> HIDE DEF P
<1>5. /\ entries' \in Seq(LogEntry)
      /\ Len(entries') = Len(log)
      /\ \A i \in DOMAIN log :
            /\ entries'[i].lsn = log[i].lsn
            /\ entries'[i].type = log[i].type
            /\ entries'[i].txn_id = log[i].txn_id
            /\ entries'[i].is_flushed <=> (i \in P \/ log[i].is_flushed)
  BY <1>3, MarkFlushedKeeps
<1> QED
  BY <1>1, <1>2, <1>4, <1>5

\* Appending adds one position.
LEMMA AppendIsFunction ==
    ASSUME NEW f, NEW n \in Nat, f = [i \in 1 .. n |-> f[i]], NEW e
    PROVE  Append(f, e) = [i \in 1 .. n + 1 |-> IF i <= n THEN f[i] ELSE e]
<1> DEFINE S == {f[i] : i \in 1 .. n}
<1>1. f \in [1 .. n -> S]
  OBVIOUS
<1> HIDE DEF S
<1>2. f \in Seq(S) /\ Len(f) = n
  BY <1>1
<1> QED
  BY <1>2

\* What is known of the log after an append.
Appended(log, type, t) ==
    /\ log \in Seq(LogEntry)
    /\ Full => log = entries
    /\ ~ Full => /\ Len(log) = Len(entries) + 1
                 /\ log[Len(entries) + 1].type = type
                 /\ log[Len(entries) + 1].txn_id = t
                 /\ log[Len(entries) + 1].is_flushed = FALSE
    /\ \A i \in 1 .. Len(entries) : log[i] = entries[i]
    /\ \A i \in DOMAIN log : log[i].lsn = i

\* An append leaves the older entries alone and gives the new one its position.
LEMMA AppendKeeps ==
    ASSUME TypeOK, LsnIsPosition, NEW type \in Types, NEW t \in 0 .. MAX_TXN
    PROVE  Appended(wal_append_entry(type, t), type, t)
<1> DEFINE e == [lsn |-> next_lsn, type |-> type, txn_id |-> t, is_flushed |-> FALSE]
           log == wal_append_entry(type, t)
<1>1. e \in LogEntry
  BY DEF TypeOK, LogEntry
<1>2. entries \in Seq(LogEntry) /\ Len(entries) \in Nat
  BY DEF TypeOK
<1>3. CASE Full
  BY <1>2, <1>3 DEF wal_append_entry, LsnIsPosition, Appended
<1>4. CASE ~ Full
  <2>1. log = Append(entries, e)
    BY <1>4 DEF wal_append_entry
  <2>2. e.lsn = Len(entries) + 1 /\ e.type = type /\ e.txn_id = t /\ e.is_flushed = FALSE
    BY DEF LsnIsPosition
  <2> HIDE DEF e, log
  <2>3. /\ log \in Seq(LogEntry) /\ Len(log) = Len(entries) + 1
        /\ log[Len(entries) + 1] = e
        /\ \A i \in 1 .. Len(entries) : log[i] = entries[i]
        /\ DOMAIN log = 1 .. Len(entries) + 1
    BY <1>1, <1>2, <2>1
  <2>4. \A i \in 1 .. Len(entries) : entries[i].lsn = i
    BY <1>2 DEF LsnIsPosition
  <2>5. \A i \in DOMAIN log : log[i].lsn = i
    <3> SUFFICES ASSUME NEW i \in 1 .. Len(entries) + 1 PROVE log[i].lsn = i
      BY <2>3
    <3>1. CASE i = Len(entries) + 1
      BY <2>2, <2>3, <3>1
    <3>2. CASE i \in 1 .. Len(entries)
      BY <2>3, <2>4, <3>2
    <3> QED
      BY <1>2, <3>1, <3>2
  <2>6. Appended(log, type, t)
    BY <1>4, <2>2, <2>3, <2>5 DEF Appended
  <2> QED
    BY <2>6 DEF log
<1> QED
  BY <1>3, <1>4

-----------------------------------------------------------------------------
(* What the steps on the log do to the invariant                           *)

\* An append keeps the log in order, and the committed transactions durable
\* unless the new entry is one of theirs.
LEMMA AppendOnlyStep ==
    ASSUME IInv, NEW type \in Types, NEW t \in 0 .. MAX_TXN, AppendOnly(type, t)
    PROVE  /\ entries' \in Seq(LogEntry) /\ next_lsn' \in Nat /\ flushed_lsn' \in Nat
           /\ LsnIsPosition'
           /\ FlushedIsPrefix'
           /\ (\A u \in TxnIds : txns'[u].state = "COMMITTED" =>
                   txns[u].state = "COMMITTED" /\ u # t) => CommittedIsDurable'
<1> USE DEF IInv
<1>1. entries' = wal_append_entry(type, t) /\ flushed_lsn' = flushed_lsn
  BY DEF AppendOnly
<1>2. next_lsn' = IF Full THEN next_lsn ELSE next_lsn + 1
  BY DEF AppendOnly, CountLsn
<1>3. entries \in Seq(LogEntry) /\ next_lsn \in Nat /\ flushed_lsn \in Nat
  BY DEF TypeOK
<1>4. CASE Full
  <2>1. entries' = entries /\ next_lsn' = next_lsn
    BY <1>1, <1>2, <1>4 DEF wal_append_entry
  <2> QED
    BY <1>1, <1>3, <2>1 DEF LsnIsPosition, FlushedIsPrefix, CommittedIsDurable, EntriesOf
<1>5. CASE ~ Full
  <2> DEFINE n == Len(entries)
  <2>1. /\ entries' \in Seq(LogEntry) /\ Len(entries') = n + 1 /\ n \in Nat
        /\ entries'[n + 1].txn_id = t /\ ~ entries'[n + 1].is_flushed
        /\ \A i \in 1 .. n : entries'[i] = entries[i]
        /\ \A i \in DOMAIN entries' : entries'[i].lsn = i
    <3>1. Appended(entries', type, t)
      BY <1>1, AppendKeeps
    <3> QED
      BY <1>3, <1>5, <3>1 DEF Appended
  <2>2. DOMAIN entries = 1 .. n /\ DOMAIN entries' = 1 .. n + 1
    BY <1>3, <2>1
  <2> HIDE DEF n
  <2>3. LsnIsPosition'
    <3>1. next_lsn' = Len(entries') + 1
      BY <1>2, <1>5, <2>1 DEF LsnIsPosition, n
    <3> QED
      BY <2>1, <3>1 DEF LsnIsPosition
  <2>4. FlushedIsPrefix'
    <3> SUFFICES ASSUME NEW i \in 1 .. n + 1, NEW j \in 1 .. n + 1,
                        i < j, entries'[j].is_flushed
                 PROVE  entries'[i].is_flushed
      BY <2>2 DEF FlushedIsPrefix
    <3>1. i \in 1 .. n /\ j \in 1 .. n
      BY <2>1
    <3> QED
      BY <2>1, <2>2, <3>1 DEF FlushedIsPrefix
  <2>5. ASSUME \A u \in TxnIds : txns'[u].state = "COMMITTED" =>
                   txns[u].state = "COMMITTED" /\ u # t
        PROVE  CommittedIsDurable'
    <3> SUFFICES ASSUME NEW u \in TxnIds, txns'[u].state = "COMMITTED"
                 PROVE  /\ \A i \in EntriesOf(u)' : entries'[i].is_flushed
                        /\ \E i \in EntriesOf(u)' : entries'[i].type = "COMMIT"
      BY DEF CommittedIsDurable
    <3>1. EntriesOf(u)' = EntriesOf(u) /\ EntriesOf(u) \subseteq 1 .. n
      BY <2>1, <2>2, <2>5 DEF EntriesOf
    <3> QED
      BY <2>1, <2>5, <3>1 DEF CommittedIsDurable
  <2> QED
    BY <1>1, <1>2, <1>3, <2>1, <2>3, <2>4, <2>5
<1> QED
  BY <1>4, <1>5

\* A flush up to an LSN keeps the log in order and loses no durable entry.
LEMMA FlushToStep ==
    ASSUME IInv, NEW lsn \in Nat, FlushTo(entries, lsn), UNCHANGED <<next_lsn, txns>>
    PROVE  /\ entries' \in Seq(LogEntry) /\ flushed_lsn' \in Nat
           /\ LsnIsPosition' /\ FlushedIsPrefix' /\ CommittedIsDurable'
<1> USE DEF IInv
<1>1. entries \in Seq(LogEntry) /\ flushed_lsn \in Nat
  BY DEF TypeOK
<1>2. /\ entries' \in Seq(LogEntry)
      /\ Len(entries') = Len(entries)
      /\ \A i \in 1 .. Len(entries) :
            /\ entries'[i].lsn = entries[i].lsn
            /\ entries'[i].type = entries[i].type
            /\ entries'[i].txn_id = entries[i].txn_id
            /\ entries'[i].is_flushed <=> (i <= lsn \/ entries[i].is_flushed)
      /\ flushed_lsn' \in Nat
  BY <1>1, FlushToMarksPrefix DEF LsnIsPosition
<1>3. DOMAIN entries' = 1 .. Len(entries) /\ DOMAIN entries = 1 .. Len(entries)
      /\ Len(entries) \in Nat
  BY <1>1, <1>2
<1>4. LsnIsPosition'
  BY <1>2, <1>3 DEF LsnIsPosition
<1>5. FlushedIsPrefix'
  BY <1>2, <1>3 DEF FlushedIsPrefix
<1>6. CommittedIsDurable'
  BY <1>2, <1>3 DEF CommittedIsDurable, EntriesOf
<1> QED
  BY <1>2, <1>4, <1>5, <1>6

\* wal_flush marks every entry.
LEMMA FlushMarksAll ==
    ASSUME IInv, wal_flush
    PROVE  /\ entries' \in Seq(LogEntry) /\ flushed_lsn' \in Nat
           /\ Len(entries') = Len(entries)
           /\ \A i \in 1 .. Len(entries) :
                 /\ entries'[i].lsn = entries[i].lsn
                 /\ entries'[i].type = entries[i].type
                 /\ entries'[i].txn_id = entries[i].txn_id
                 /\ entries'[i].is_flushed
<1> USE DEF IInv
<1> DEFINE P == {i \in DOMAIN entries : ~ entries[i].is_flushed}
<1>1. /\ entries \in Seq(LogEntry) /\ flushed_lsn \in Nat
      /\ DOMAIN entries = 1 .. Len(entries) /\ Len(entries) \in Nat
  BY DEF TypeOK
<1>2. MarkFlushed(entries, P) /\ P \in SUBSET DOMAIN entries
  BY DEF wal_flush
<1>3. flushed_lsn' \in Nat
  <2>1. CASE P = {}
    BY <1>1, <1>2, <2>1 DEF MarkFlushed
  <2>2. CASE P # {}
    <3>1. Len(entries) \in P /\ \A i \in P : Len(entries) >= i
      <4>1. PICK i \in P : TRUE
        BY <2>2
      <4>2. ~ entries[Len(entries)].is_flushed
        BY <1>1, <4>1 DEF FlushedIsPrefix
      <4> QED
        BY <1>1, <4>1, <4>2
    <3>2. Max(P) \in P
      BY <3>1 DEF Max
    <3>3. entries[Max(P)] \in LogEntry
      BY <1>1, <3>2
    <3> QED
      BY <1>2, <2>2, <3>3 DEF MarkFlushed, LogEntry
  <2> QED
    BY <2>1, <2>2
<1>4. \A i \in DOMAIN entries : i \in P \/ entries[i].is_flushed
  OBVIOUS
<1> HIDE DEF P
<1>5. /\ entries' \in Seq(LogEntry)
      /\ Len(entries') = Len(entries)
      /\ \A i \in DOMAIN entries :
            /\ entries'[i].lsn = entries[i].lsn
            /\ entries'[i].type = entries[i].type
            /\ entries'[i].txn_id = entries[i].txn_id
            /\ entries'[i].is_flushed <=> (i \in P \/ entries[i].is_flushed)
  BY <1>1, <1>2, MarkFlushedKeeps
<1> QED
  BY <1>1, <1>3, <1>4, <1>5

\* A commit that fits puts its entry and all older ones on disk; one that does
\* not fit changes nothing.
LEMMA CommitMarksAll ==
    ASSUME IInv, NEW t \in TxnIds, log_manager_commit_transaction(t)
    PROVE  /\ entries' \in Seq(LogEntry) /\ next_lsn' \in Nat /\ flushed_lsn' \in Nat
           /\ Full => /\ UNCHANGED <<next_lsn, txns>>
                      /\ Len(entries') = Len(entries)
                      /\ \A i \in 1 .. Len(entries) :
                            /\ entries'[i].lsn = entries[i].lsn
                            /\ entries'[i].type = entries[i].type
                            /\ entries'[i].txn_id = entries[i].txn_id
                            /\ entries'[i].is_flushed = entries[i].is_flushed
           /\ ~ Full => /\ next_lsn' = next_lsn + 1
                        /\ txns' = [txns EXCEPT ![t].state = "COMMITTED"]
                        /\ Len(entries') = Len(entries) + 1
                        /\ entries'[Len(entries) + 1].type = "COMMIT"
                        /\ entries'[Len(entries) + 1].txn_id = t
                        /\ \A i \in 1 .. Len(entries') :
                              entries'[i].is_flushed /\ entries'[i].lsn = i
                        /\ \A i \in 1 .. Len(entries) :
                              /\ entries'[i].type = entries[i].type
                              /\ entries'[i].txn_id = entries[i].txn_id
<1> USE DEF IInv
<1> DEFINE log == wal_append_entry("COMMIT", t)
<1>1. /\ entries \in Seq(LogEntry) /\ flushed_lsn \in Nat /\ next_lsn \in Nat
      /\ next_lsn = Len(entries) + 1 /\ Len(entries) \in Nat
  BY DEF TypeOK, LsnIsPosition
<1>2. /\ log \in Seq(LogEntry)
      /\ Full => log = entries
      /\ ~ Full => /\ Len(log) = Len(entries) + 1
                   /\ log[Len(log)].type = "COMMIT" /\ log[Len(log)].txn_id = t
      /\ \A i \in 1 .. Len(entries) : log[i] = entries[i]
      /\ \A i \in DOMAIN log : log[i].lsn = i
  <2>1. "COMMIT" \in Types /\ t \in 0 .. MAX_TXN
    BY LogConstants DEF Types, TxnIds
  <2>2. Appended(log, "COMMIT", t)
    BY <2>1, AppendKeeps
  <2> HIDE DEF log
  <2> QED
    BY <1>1, <2>2 DEF Appended
<1>3. NewLsn \in Nat /\ NewLsn = (IF Full THEN 0 ELSE Len(entries) + 1)
  BY <1>1 DEF NewLsn
<1>4. FlushTo(log, NewLsn) /\ CountLsn /\ Finish(t, "COMMITTED")
  BY DEF log_manager_commit_transaction
<1> HIDE DEF log
<1>5. /\ entries' \in Seq(LogEntry)
      /\ Len(entries') = Len(log)
      /\ \A i \in 1 .. Len(log) :
            /\ entries'[i].lsn = log[i].lsn
            /\ entries'[i].type = log[i].type
            /\ entries'[i].txn_id = log[i].txn_id
            /\ entries'[i].is_flushed <=> (i <= NewLsn \/ log[i].is_flushed)
      /\ flushed_lsn' \in Nat
  BY <1>1, <1>2, <1>3, <1>4, FlushToMarksPrefix
<1>6. CASE Full
  <2>1. \A i \in 1 .. Len(entries) : entries'[i].is_flushed = entries[i].is_flushed
    <3> SUFFICES ASSUME NEW i \in 1 .. Len(entries)
                 PROVE  entries'[i].is_flushed = entries[i].is_flushed
      OBVIOUS
    <3>1. entries'[i].is_flushed <=> entries[i].is_flushed
      BY <1>2, <1>3, <1>5, <1>6
    <3>2. entries'[i] \in LogEntry /\ entries[i] \in LogEntry
      BY <1>1, <1>2, <1>5, <1>6
    <3> QED
      BY <3>1, <3>2 DEF LogEntry
  <2>2. UNCHANGED <<next_lsn, txns>>
    BY <1>4, <1>6 DEF CountLsn, Finish, NewLsn
  <2>3. /\ Len(entries') = Len(entries)
        /\ \A i \in 1 .. Len(entries) : /\ entries'[i].lsn = entries[i].lsn
                                       /\ entries'[i].type = entries[i].type
                                       /\ entries'[i].txn_id = entries[i].txn_id
    BY <1>2, <1>5, <1>6
  <2>4. entries' \in Seq(LogEntry) /\ next_lsn' \in Nat /\ flushed_lsn' \in Nat
    BY <1>1, <1>5, <2>2
  <2> QED
    BY <1>6, <2>1, <2>2, <2>3, <2>4
<1>7. CASE ~ Full
  <2>1. next_lsn' = next_lsn + 1 /\ txns' = [txns EXCEPT ![t].state = "COMMITTED"]
    BY <1>1, <1>4, <1>7 DEF CountLsn, Finish, NewLsn
  <2>2. DOMAIN log = 1 .. Len(entries) + 1
    BY <1>1, <1>2, <1>7
  <2>3. Len(log) = Len(entries) + 1 /\ NewLsn = Len(entries) + 1
    BY <1>2, <1>3, <1>7
  <2>4. /\ Len(entries') = Len(entries) + 1
        /\ entries'[Len(entries) + 1].type = "COMMIT"
        /\ entries'[Len(entries) + 1].txn_id = t
    BY <1>1, <1>2, <1>5, <1>7, <2>3
  <2>5. \A i \in 1 .. Len(entries') : entries'[i].is_flushed /\ entries'[i].lsn = i
    BY <1>1, <1>2, <1>5, <2>2, <2>3, <2>4
  <2>6. \A i \in 1 .. Len(entries) : /\ entries'[i].type = entries[i].type
                                   /\ entries'[i].txn_id = entries[i].txn_id
    BY <1>1, <1>2, <1>5, <2>3
  <2>7. entries' \in Seq(LogEntry) /\ next_lsn' \in Nat /\ flushed_lsn' \in Nat
    BY <1>1, <1>5, <2>1
  <2> QED
    BY <1>7, <2>1, <2>4, <2>5, <2>6, <2>7
<1> QED
  BY <1>6, <1>7

-----------------------------------------------------------------------------
(* The invariant                                                           *)

\* Initially the invariant holds: the log is empty.
LEMMA InitEstablishes == Init => IInv
<1> SUFFICES ASSUME Init PROVE IInv
  OBVIOUS
<1>1. TypeOK
  BY LogConstants DEF Init, TypeOK
<1>2. LsnIsPosition /\ FlushedIsPrefix
  BY DEF Init, LsnIsPosition, FlushedIsPrefix
<1>3. CommittedIsDurable
  BY DEF Init, CommittedIsDurable, NotBegun
<1> QED
  BY <1>1, <1>2, <1>3 DEF IInv

\* What ending a transaction does to the Transaction objects.
LEMMA FinishTypes ==
    ASSUME TypeOK, NEW t \in TxnIds, IsActive(t), NEW state \in States, Finish(t, state)
    PROVE  /\ txns' \in [TxnIds -> Transaction \cup {NotBegun}]
           /\ \A u \in TxnIds : u # t => txns'[u] = txns[u]
           /\ txns'[t].state \in {"ACTIVE", state}
<1>1. txns[t] \in Transaction
  BY DEF TypeOK, IsActive, NotBegun
<1>2. CASE txns' = txns
  BY <1>2 DEF TypeOK, IsActive
<1>3. CASE txns' = [txns EXCEPT ![t].state = state]
  <2>1. [txns[t] EXCEPT !.state = state] \in Transaction
    BY <1>1 DEF Transaction
  <2> QED
    BY <1>1, <1>3, <2>1 DEF TypeOK, Transaction
<1> QED
  BY <1>2, <1>3 DEF Finish

\* Every step keeps the invariant.
LEMMA StepPreserves == IInv /\ [Next]_walVars => IInv'
<1> SUFFICES ASSUME IInv, [Next]_walVars PROVE IInv'
  OBVIOUS
<1> USE DEF IInv
<1>1. CASE log_manager_begin_transaction
  <2>1. next_txn_id \in TxnIds /\ next_txn_id \in 0 .. MAX_TXN /\ "BEGIN" \in Types
    BY <1>1, LogConstants DEF TypeOK, log_manager_begin_transaction, TxnIds, Types
  <2>2. next_txn_id' \in 1 .. MAX_TXN + 1
    BY <1>1, <2>1, LogConstants DEF log_manager_begin_transaction, TxnIds
  <2>3. /\ txns' = [txns EXCEPT ![next_txn_id] = [state |-> "ACTIVE", op_count |-> 0]]
        /\ AppendOnly("BEGIN", next_txn_id) /\ checkpoints' = checkpoints
    BY <1>1 DEF log_manager_begin_transaction
  <2>4. [state |-> "ACTIVE", op_count |-> 0] \in Transaction
    BY LogConstants DEF Transaction, States
  <2>5. txns' \in [TxnIds -> Transaction \cup {NotBegun}]
    BY <2>3, <2>4 DEF TypeOK
  <2>6. \A u \in TxnIds : txns'[u].state = "COMMITTED" =>
            txns[u].state = "COMMITTED" /\ u # next_txn_id
    BY <2>1, <2>3 DEF TypeOK
  <2> QED
    BY <2>1, <2>2, <2>3, <2>5, <2>6, AppendOnlyStep DEF TypeOK
<1>2. ASSUME NEW t \in TxnIds, log_manager_log_write(t) PROVE IInv'
  <2>1. t \in 0 .. MAX_TXN /\ "WRITE" \in Types
    BY LogConstants DEF TxnIds, Types
  <2>2. /\ AppendOnly("WRITE", t) /\ UNCHANGED <<next_txn_id, checkpoints>>
        /\ txns[t].state = "ACTIVE"
        /\ txns' = txns \/ transaction_add_operation(t)
    BY <1>2 DEF log_manager_log_write, IsActive
  <2>3. txns[t] \in Transaction
    BY <2>2 DEF TypeOK, NotBegun
  <2>4. /\ txns' \in [TxnIds -> Transaction \cup {NotBegun}]
        /\ \A u \in TxnIds : txns'[u].state = txns[u].state
    <3>1. CASE txns' = txns
      BY <3>1 DEF TypeOK
    <3>2. CASE transaction_add_operation(t)
      <4> DEFINE n == IF txns[t].op_count >= MAX_TXN_OPERATIONS THEN txns[t].op_count
                      ELSE txns[t].op_count + 1
      <4>1. n \in 0 .. MAX_TXN_OPERATIONS
        BY <2>3, LogConstants DEF Transaction
      <4>2. txns' = [txns EXCEPT ![t] = [txns[t] EXCEPT !.op_count = n]]
        BY <3>2 DEF transaction_add_operation
      <4> HIDE DEF n
      <4>3. [txns[t] EXCEPT !.op_count = n] \in Transaction
        BY <2>3, <4>1 DEF Transaction
      <4> QED
        BY <2>3, <4>2, <4>3 DEF TypeOK, Transaction
    <3> QED
      BY <2>2, <3>1, <3>2
  <2>5. \A u \in TxnIds : txns'[u].state = "COMMITTED" =>
            txns[u].state = "COMMITTED" /\ u # t
    BY <2>2, <2>4
  <2> QED
    BY <2>1, <2>2, <2>4, <2>5, AppendOnlyStep DEF TypeOK
<1>3. ASSUME NEW t \in TxnIds, log_manager_commit_transaction(t) PROVE IInv'
  <2>1. IsActive(t) /\ Finish(t, "COMMITTED") /\ UNCHANGED <<next_txn_id, checkpoints>>
    BY <1>3 DEF log_manager_commit_transaction
  <2>2. txns' \in [TxnIds -> Transaction \cup {NotBegun}]
    BY <2>1, FinishTypes DEF States
  <2>3. TypeOK'
    BY <1>3, <2>1, <2>2, CommitMarksAll DEF TypeOK
  <2>4. entries \in Seq(LogEntry) /\ DOMAIN entries = 1 .. Len(entries)
        /\ entries' \in Seq(LogEntry) /\ DOMAIN entries' = 1 .. Len(entries')
        /\ Len(entries) \in Nat
    BY <2>3 DEF TypeOK
  <2>5. CASE Full
    <3>1. /\ UNCHANGED <<next_lsn, txns>>
          /\ Len(entries') = Len(entries)
          /\ \A i \in 1 .. Len(entries) :
                /\ entries'[i].lsn = entries[i].lsn
                /\ entries'[i].type = entries[i].type
                /\ entries'[i].txn_id = entries[i].txn_id
                /\ entries'[i].is_flushed = entries[i].is_flushed
      BY <1>3, <2>5, CommitMarksAll
    <3>2. LsnIsPosition' /\ FlushedIsPrefix'
      BY <2>4, <3>1 DEF LsnIsPosition, FlushedIsPrefix
    <3>3. CommittedIsDurable'
      BY <2>4, <3>1 DEF CommittedIsDurable, EntriesOf
    <3> QED
      BY <2>3, <3>2, <3>3
  <2>6. CASE ~ Full
    <3>1. /\ next_lsn' = next_lsn + 1
          /\ txns' = [txns EXCEPT ![t].state = "COMMITTED"]
          /\ Len(entries') = Len(entries) + 1
          /\ entries'[Len(entries) + 1].type = "COMMIT"
          /\ entries'[Len(entries) + 1].txn_id = t
          /\ \A i \in 1 .. Len(entries') : entries'[i].is_flushed /\ entries'[i].lsn = i
          /\ \A i \in 1 .. Len(entries) :
                /\ entries'[i].type = entries[i].type
                /\ entries'[i].txn_id = entries[i].txn_id
      BY <1>3, <2>6, CommitMarksAll
    <3>2. LsnIsPosition' /\ FlushedIsPrefix'
      BY <2>4, <3>1 DEF LsnIsPosition, FlushedIsPrefix
    <3>3. CommittedIsDurable'
      <4> SUFFICES ASSUME NEW u \in TxnIds, txns'[u].state = "COMMITTED"
                   PROVE  \E i \in EntriesOf(u)' : entries'[i].type = "COMMIT"
        BY <2>4, <3>1 DEF CommittedIsDurable, EntriesOf
      <4>1. CASE u = t
        BY <2>4, <3>1, <4>1 DEF EntriesOf
      <4>2. CASE u # t
        <5>1. txns[u].state = "COMMITTED"
          BY <3>1, <4>2 DEF TypeOK
        <5> QED
          BY <2>4, <3>1, <5>1 DEF CommittedIsDurable, EntriesOf
      <4> QED
        BY <4>1, <4>2
    <3> QED
      BY <2>3, <3>2, <3>3
  <2> QED
    BY <2>5, <2>6
<1>4. ASSUME NEW t \in TxnIds, log_manager_abort_transaction(t) PROVE IInv'
  <2>1. t \in 0 .. MAX_TXN /\ "ABORT" \in Types
    BY LogConstants DEF TxnIds, Types
  <2>2. /\ AppendOnly("ABORT", t) /\ UNCHANGED <<next_txn_id, checkpoints>>
        /\ IsActive(t) /\ Finish(t, "ABORTED")
    BY <1>4 DEF log_manager_abort_transaction
  <2>3. /\ txns' \in [TxnIds -> Transaction \cup {NotBegun}]
        /\ \A u \in TxnIds : u # t => txns'[u] = txns[u]
        /\ txns'[t].state \in {"ACTIVE", "ABORTED"}
    BY <2>2, FinishTypes DEF States
  <2> QED
    BY <2>1, <2>2, <2>3, AppendOnlyStep DEF TypeOK
<1>5. CASE log_manager_create_checkpoint
  <2> DEFINE active == {t \in TxnIds : IsActive(t)}
  <2>1. 0 \in 0 .. MAX_TXN /\ "CHECKPOINT" \in Types
    BY LogConstants DEF Types
  <2>2. /\ AppendOnly("CHECKPOINT", 0) /\ UNCHANGED <<next_txn_id, txns>>
        /\ RecordCheckpoint(active)
    BY <1>5 DEF log_manager_create_checkpoint
  <2>3. Cardinality(active) \in Nat
    <3>1. IsFiniteSet(TxnIds)
      BY LogConstants, FS_Interval DEF TxnIds
    <3> QED
      BY <3>1, FS_Subset, FS_CardinalityType
  <2>4. checkpoints' \in Seq(Checkpoint)
    <3> HIDE DEF active
    <3>1. CASE checkpoints' = checkpoints
      BY <3>1 DEF TypeOK
    <3>2. CASE checkpoints' # checkpoints
      <4>1. PICK listed \in SUBSET active :
              checkpoints' = Append(checkpoints,
                  [lsn |-> NewLsn, active_txns |-> listed,
                   active_count |-> Cardinality(active)])
        BY <2>2, <3>2 DEF RecordCheckpoint
      <4>2. [lsn |-> NewLsn, active_txns |-> listed,
             active_count |-> Cardinality(active)] \in Checkpoint
        BY <2>3 DEF Checkpoint, TypeOK, NewLsn, active
      <4> QED
        BY <4>1, <4>2 DEF TypeOK
    <3> QED
      BY <3>1, <3>2
  <2>5. \A u \in TxnIds : u # 0
    BY DEF TxnIds
  <2> HIDE DEF active
  <2> QED
    BY <2>1, <2>2, <2>4, <2>5, AppendOnlyStep DEF TypeOK
<1>6. CASE wal_flush
  <2>1. UNCHANGED <<next_lsn, next_txn_id, checkpoints, txns>>
    BY <1>6 DEF wal_flush
  <2>2. /\ entries' \in Seq(LogEntry) /\ flushed_lsn' \in Nat
        /\ Len(entries') = Len(entries)
        /\ \A i \in 1 .. Len(entries) :
              /\ entries'[i].lsn = entries[i].lsn
              /\ entries'[i].type = entries[i].type
              /\ entries'[i].txn_id = entries[i].txn_id
              /\ entries'[i].is_flushed
    BY <1>6, FlushMarksAll
  <2>3. DOMAIN entries = 1 .. Len(entries) /\ DOMAIN entries' = 1 .. Len(entries)
    BY <2>2 DEF TypeOK
  <2>4. LsnIsPosition' /\ FlushedIsPrefix'
    BY <2>1, <2>2, <2>3 DEF LsnIsPosition, FlushedIsPrefix
  <2>5. CommittedIsDurable'
    BY <2>1, <2>2, <2>3 DEF CommittedIsDurable, EntriesOf
  <2> QED
    BY <2>1, <2>2, <2>4, <2>5 DEF TypeOK
<1>7. ASSUME NEW lsn \in 1 .. next_lsn, wal_flush_to_lsn(lsn) PROVE IInv'
  <2>1. lsn \in Nat
    BY DEF TypeOK
  <2>2. FlushTo(entries, lsn) /\ UNCHANGED <<next_lsn, next_txn_id, checkpoints, txns>>
    BY <1>7 DEF wal_flush_to_lsn
  <2> QED
    BY <2>1, <2>2, FlushToStep DEF TypeOK
<1>8. CASE UNCHANGED walVars
  BY <1>8 DEF walVars, TypeOK, LsnIsPosition, FlushedIsPrefix, CommittedIsDurable, EntriesOf
<1> QED
  BY <1>1, <1>2, <1>3, <1>4, <1>5, <1>6, <1>7, <1>8 DEF Next

\* The invariant holds throughout.
LEMMA Invariance == Spec => []IInv
  BY InitEstablishes, StepPreserves, PTL DEF Spec

\* The state of the log has its types, with flushed_lsn a natural number in spite
\* of the search for the last entry that was flushed.
THEOREM TypeCorrect == Spec => []TypeOK
  BY Invariance, PTL DEF IInv

\* Refused appends do not open a gap between LSNs and positions.
THEOREM LsnCorrect == Spec => []LsnIsPosition
  BY Invariance, PTL DEF IInv

\* Whatever mixture of commits and flushes happens, the part of the log on disk
\* is a prefix of it.
THEOREM PrefixOnDisk == Spec => []FlushedIsPrefix
  BY Invariance, PTL DEF IInv

\* A transaction told that it committed has all its entries on disk.
THEOREM Durability == Spec => []CommittedIsDurable
  BY Invariance, PTL DEF IInv

-----------------------------------------------------------------------------
(* The write ahead log implements the durable log                          *)

Mapped == [i \in DOMAIN entries |-> AsLogged(entries[i])]
OnDisk == {i \in DOMAIN entries : entries[i].is_flushed}

\* An append adds its entry to the mapped log and nothing to the disk.
LEMMA AppendOnlyMaps ==
    ASSUME IInv, NEW type \in Types \ {"COMMIT"}, NEW t \in 0 .. MAX_TXN, AppendOnly(type, t)
    PROVE  DL!LogNext \/ UNCHANGED <<Mapped, OnDisk>>
<1> USE DEF IInv
<1>1. entries' = wal_append_entry(type, t) /\ entries \in Seq(LogEntry) /\ type \in Types
  BY DEF AppendOnly, TypeOK
<1>2. CASE Full
  BY <1>1, <1>2 DEF wal_append_entry, Mapped, OnDisk
<1>3. CASE ~ Full
  <2> DEFINE n == Len(entries)
             e == [type |-> type, txn_id |-> t]
  <2>1. /\ entries' \in Seq(LogEntry) /\ Len(entries') = n + 1 /\ n \in Nat
        /\ AsLogged(entries'[n + 1]) = e /\ ~ entries'[n + 1].is_flushed
        /\ \A i \in 1 .. n : entries'[i] = entries[i]
    <3>1. Appended(entries', type, t)
      BY <1>1, AppendKeeps
    <3> QED
      BY <1>1, <1>3, <3>1 DEF Appended, AsLogged
  <2>2. DOMAIN entries = 1 .. n /\ DOMAIN entries' = 1 .. n + 1
    BY <1>1, <2>1
  <2> HIDE DEF n
  <2>3. OnDisk' = OnDisk
    BY <2>1, <2>2 DEF OnDisk
  <2>4. Mapped' = Append(Mapped, e)
    <3>1. Mapped = [i \in 1 .. n |-> AsLogged(entries[i])]
      BY <2>2 DEF Mapped
    <3>2. Mapped' = [i \in 1 .. n + 1 |-> AsLogged(entries'[i])]
      BY <2>2 DEF Mapped
    <3>3. \A i \in 1 .. n : AsLogged(entries'[i]) = AsLogged(entries[i])
      BY <2>1
    <3>5. Append(Mapped, e) = [i \in 1 .. n + 1 |-> IF i <= n THEN Mapped[i] ELSE e]
      BY <2>1, <3>1, AppendIsFunction
    <3>6. \A i \in 1 .. n + 1 : i <= n \/ i = n + 1
      BY <2>1
    <3>7. \A i \in 1 .. n + 1 :
             AsLogged(entries'[i]) = IF i <= n THEN Mapped[i] ELSE e
      BY <2>1, <3>1, <3>3, <3>6
    <3> HIDE DEF e
    <3> QED
      BY <3>2, <3>5, <3>7
  <2>5. e \in [type : Types, txn_id : 0 .. MAX_TXN] /\ e \notin [type : {"COMMIT"}, txn_id : TxnIds]
    BY <1>1
  <2> QED
    BY <2>3, <2>4, <2>5 DEF DL!LogNext, DL!Add, Mapped, OnDisk
<1> QED
  BY <1>2, <1>3

\* Marking a prefix of the entries as flushed hardens that prefix.
LEMMA FlushMaps ==
    ASSUME IInv, entries' \in Seq(LogEntry), Len(entries') = Len(entries),
           NEW n \in 0 .. Len(entries),
           \A i \in 1 .. Len(entries) :
              /\ entries'[i].type = entries[i].type
              /\ entries'[i].txn_id = entries[i].txn_id
              /\ entries'[i].is_flushed <=> (i <= n \/ entries[i].is_flushed)
    PROVE  DL!LogNext
<1>1. /\ entries \in Seq(LogEntry) /\ Len(entries) \in Nat
      /\ DOMAIN entries = 1 .. Len(entries) /\ DOMAIN entries' = 1 .. Len(entries)
  BY DEF IInv, TypeOK
<1>2. Mapped' = Mapped
  BY <1>1 DEF Mapped, AsLogged
<1>3. OnDisk' = OnDisk \cup 1 .. n
  BY <1>1 DEF OnDisk
<1>4. Len(Mapped) = Len(entries)
  BY <1>1 DEF Mapped
<1>5. DL!Harden(n)
  BY <1>2, <1>3 DEF DL!Harden, Mapped, OnDisk
<1> QED
  BY <1>4, <1>5 DEF DL!LogNext, Mapped

\* Every step of the write ahead log is a step of the durable log, or invisible.
LEMMA StepMaps ==
    ASSUME IInv, Next
    PROVE  DL!LogNext \/ UNCHANGED <<Mapped, OnDisk>>
<1>1. CASE log_manager_begin_transaction
  <2>1. next_txn_id \in 0 .. MAX_TXN /\ "BEGIN" \in Types \ {"COMMIT"}
    BY <1>1, LogConstants DEF IInv, TypeOK, log_manager_begin_transaction, Types
  <2> QED
    BY <1>1, <2>1, AppendOnlyMaps DEF log_manager_begin_transaction
<1>2. ASSUME NEW t \in TxnIds, log_manager_log_write(t) \/ log_manager_abort_transaction(t)
      PROVE  DL!LogNext \/ UNCHANGED <<Mapped, OnDisk>>
  <2>1. t \in 0 .. MAX_TXN /\ {"WRITE", "ABORT"} \subseteq Types \ {"COMMIT"}
    BY LogConstants DEF TxnIds, Types
  <2> QED
    BY <1>2, <2>1, AppendOnlyMaps DEF log_manager_log_write, log_manager_abort_transaction
<1>3. ASSUME NEW t \in TxnIds, log_manager_commit_transaction(t)
      PROVE  DL!LogNext \/ UNCHANGED <<Mapped, OnDisk>>
  <2> DEFINE n == Len(entries)
  <2>1. /\ entries \in Seq(LogEntry) /\ n \in Nat /\ DOMAIN entries = 1 .. n
        /\ entries' \in Seq(LogEntry) /\ DOMAIN entries' = 1 .. Len(entries')
    BY <1>3, CommitMarksAll DEF IInv, TypeOK
  <2>2. CASE Full
    <3>1. /\ Len(entries') = n
          /\ \A i \in 1 .. n :
                /\ entries'[i].type = entries[i].type
                /\ entries'[i].txn_id = entries[i].txn_id
                /\ entries'[i].is_flushed = entries[i].is_flushed
      BY <1>3, <2>2, CommitMarksAll
    <3> QED
      BY <2>1, <3>1 DEF Mapped, OnDisk, AsLogged
  <2>3. CASE ~ Full
    <3> DEFINE e == [type |-> "COMMIT", txn_id |-> t]
    <3>1. /\ Len(entries') = n + 1
          /\ entries'[n + 1].type = "COMMIT" /\ entries'[n + 1].txn_id = t
          /\ \A i \in 1 .. Len(entries') : entries'[i].is_flushed
          /\ \A i \in 1 .. n : /\ entries'[i].type = entries[i].type
                               /\ entries'[i].txn_id = entries[i].txn_id
      BY <1>3, <2>3, CommitMarksAll
    <3> HIDE DEF n
    <3>2. Mapped' = Append(Mapped, e)
      <4>1. Mapped = [i \in 1 .. n |-> AsLogged(entries[i])]
        BY <2>1 DEF Mapped
      <4>2. Mapped' = [i \in 1 .. n + 1 |-> AsLogged(entries'[i])]
        BY <2>1, <3>1 DEF Mapped
      <4>4. Append(Mapped, e) = [i \in 1 .. n + 1 |-> IF i <= n THEN Mapped[i] ELSE e]
        BY <2>1, <4>1, AppendIsFunction
      <4>5. \A i \in 1 .. n + 1 : i <= n \/ i = n + 1
        BY <2>1
      <4>6. \A i \in 1 .. n + 1 :
               AsLogged(entries'[i]) = IF i <= n THEN Mapped[i] ELSE e
        BY <2>1, <3>1, <4>1, <4>5 DEF AsLogged
      <4> HIDE DEF e
      <4> QED
        BY <4>2, <4>4, <4>6
    <3>3. OnDisk' = 1 .. n + 1 /\ Len(Mapped') = n + 1
      <4>1. Mapped' = [i \in 1 .. n + 1 |-> AsLogged(entries'[i])]
        BY <2>1, <3>1 DEF Mapped
      <4> QED
        BY <2>1, <3>1, <4>1 DEF OnDisk
    <3>4. e \in [type : {"COMMIT"}, txn_id : TxnIds]
      OBVIOUS
    <3> QED
      BY <3>2, <3>3, <3>4 DEF DL!LogNext, DL!AddCommit, Mapped, OnDisk
  <2> QED
    BY <2>2, <2>3
<1>4. CASE log_manager_create_checkpoint
  <2>1. 0 \in 0 .. MAX_TXN /\ "CHECKPOINT" \in Types \ {"COMMIT"}
    BY LogConstants DEF Types
  <2> QED
    BY <1>4, <2>1, AppendOnlyMaps DEF log_manager_create_checkpoint
<1>5. CASE wal_flush
  <2>1. Len(entries) \in 0 .. Len(entries) /\ entries \in Seq(LogEntry)
    BY DEF IInv, TypeOK
  <2>2. \A i \in 1 .. Len(entries) : i <= Len(entries)
    BY <2>1
  <2> QED
    BY <1>5, <2>1, <2>2, FlushMarksAll, FlushMaps
<1>6. ASSUME NEW lsn \in 1 .. next_lsn, wal_flush_to_lsn(lsn) PROVE DL!LogNext
  <2>1. /\ entries \in Seq(LogEntry) /\ Len(entries) \in Nat /\ flushed_lsn \in Nat
        /\ lsn \in Nat /\ \A i \in DOMAIN entries : entries[i].lsn = i
    BY DEF IInv, TypeOK, LsnIsPosition
  <2>2. FlushTo(entries, lsn)
    BY <1>6 DEF wal_flush_to_lsn
  <2> DEFINE n == IF lsn <= Len(entries) THEN lsn ELSE Len(entries)
  <2>3. n \in 0 .. Len(entries) /\ \A i \in 1 .. Len(entries) : i <= n <=> i <= lsn
    BY <2>1
  <2>4. /\ entries' \in Seq(LogEntry) /\ Len(entries') = Len(entries)
        /\ \A i \in 1 .. Len(entries) :
              /\ entries'[i].type = entries[i].type
              /\ entries'[i].txn_id = entries[i].txn_id
              /\ entries'[i].is_flushed <=> (i <= lsn \/ entries[i].is_flushed)
    BY <2>1, <2>2, FlushToMarksPrefix
  <2> HIDE DEF n
  <2> QED
    BY <2>3, <2>4, FlushMaps
<1> QED
  BY <1>1, <1>2, <1>3, <1>4, <1>5, <1>6 DEF Next

\* The log of the database is a durable log: never rewritten, nothing lost that
\* was on disk, and a commit that is believed has taken the whole log there.
THEOREM Refinement == Spec => ImplementsDurableLog
<1>1. Init => DL!LogInit
  BY DEF Init, DL!LogInit
<1>2. IInv /\ [Next]_walVars => [DL!LogNext]_DL!durableVars
  <2> SUFFICES ASSUME IInv, [Next]_walVars
               PROVE  DL!LogNext \/ UNCHANGED DL!durableVars
    OBVIOUS
  <2>1. CASE Next
    BY <2>1, StepMaps DEF DL!durableVars, Mapped, OnDisk
  <2>2. CASE UNCHANGED walVars
    BY <2>2 DEF walVars, DL!durableVars
  <2> QED
    BY <2>1, <2>2
<1> QED
  BY <1>1, <1>2, Invariance, PTL DEF Spec, DL!LogSpec, ImplementsDurableLog

-----------------------------------------------------------------------------
(* The log tells the story of every transaction                            *)

\* What a transaction's entries say, with what makes it inductive: ids are given
\* out in order, and an abort that is believed has its entry.
Story(t) ==
    /\ t >= next_txn_id => txns[t] = NotBegun
    /\ txns[t] = NotBegun => EntriesOf(t) = {}
    /\ EntriesOf(t) = {} => txns[t] = NotBegun \/ Full
    /\ txns[t].state = "ABORTED" => \E i \in EntriesOf(t) : entries[i].type = "ABORT"
    /\ \A i \in EntriesOf(t) :
          /\ entries[i].type = "BEGIN" <=> \A j \in EntriesOf(t) : i <= j
          /\ entries[i].type = "COMMIT" => txns[t].state = "COMMITTED"
          /\ entries[i].type = "ABORT" => txns[t].state = "ABORTED"
          /\ entries[i].type \in {"COMMIT", "ABORT"} => \A j \in EntriesOf(t) : j <= i

\* A checkpoint is no later than the log, and says of it what CheckpointsMatchLog
\* asks.
BegunBefore(lsn) == {t \in TxnIds : \E i \in EntriesOf(t) : i < lsn}

EndedBefore(lsn) ==
    {t \in TxnIds : \E i \in EntriesOf(t) : i < lsn /\ entries[i].type \in {"COMMIT", "ABORT"}}

Matches(c) ==
    LET open == BegunBefore(c.lsn) \ EndedBefore(c.lsn) IN
    /\ c.lsn <= Len(entries)
    /\ c.lsn # 0 => /\ c.active_count = Cardinality(open)
                    /\ c.active_txns \subseteq open
                    /\ c.active_txns = open \/ Cardinality(c.active_txns) = MAX_ACTIVE_TXN

StoryInv ==
    /\ \A t \in TxnIds : Story(t)
    /\ \A c \in DOMAIN checkpoints : Matches(checkpoints[c])

\* What a step does to the log, marks aside: nothing, or one more entry.
SameLog ==
    /\ Len(entries') = Len(entries)
    /\ \A i \in 1 .. Len(entries) :
          entries'[i].type = entries[i].type /\ entries'[i].txn_id = entries[i].txn_id

OneMore(type, t) ==
    /\ ~ Full
    /\ Len(entries') = Len(entries) + 1
    /\ entries'[Len(entries) + 1].type = type /\ entries'[Len(entries) + 1].txn_id = t
    /\ \A i \in 1 .. Len(entries) :
          entries'[i].type = entries[i].type /\ entries'[i].txn_id = entries[i].txn_id

LEMMA AppendedLog ==
    ASSUME IInv, NEW type \in Types, NEW t \in 0 .. MAX_TXN, AppendOnly(type, t)
    PROVE  (Full /\ SameLog) \/ OneMore(type, t)
<1>1. Appended(entries', type, t)
  BY AppendKeeps DEF IInv, AppendOnly
<1> QED
  BY <1>1 DEF Appended, SameLog, OneMore

\* The entries of a transaction after a step.
LEMMA EntriesAfter ==
    ASSUME IInv, IInv', NEW u \in TxnIds
    PROVE  /\ SameLog => EntriesOf(u)' = EntriesOf(u)
           /\ \A type, t : OneMore(type, t) =>
                 EntriesOf(u)' = IF u = t THEN EntriesOf(u) \cup {Len(entries) + 1}
                                 ELSE EntriesOf(u)
           /\ EntriesOf(u) \subseteq 1 .. Len(entries) /\ Len(entries) \in Nat
<1>1. /\ DOMAIN entries = 1 .. Len(entries) /\ DOMAIN entries' = 1 .. Len(entries')
      /\ Len(entries) \in Nat
  BY DEF IInv, TypeOK
<1>2. SameLog => EntriesOf(u)' = EntriesOf(u)
  BY <1>1 DEF SameLog, EntriesOf
<1>3. ASSUME NEW type, NEW t, OneMore(type, t)
      PROVE  EntriesOf(u)' = IF u = t THEN EntriesOf(u) \cup {Len(entries) + 1} ELSE EntriesOf(u)
  <2>1. DOMAIN entries' = 1 .. Len(entries) + 1
    BY <1>1, <1>3 DEF OneMore
  <2>2. \A i \in 1 .. Len(entries) + 1 : i \in 1 .. Len(entries) \/ i = Len(entries) + 1
    BY <1>1
  <2> QED
    BY <1>1, <1>3, <2>1, <2>2 DEF OneMore, EntriesOf
<1> QED
  BY <1>1, <1>2, <1>3 DEF EntriesOf

\* A step that adds no entry of a transaction and leaves its state alone leaves its
\* story alone.
LEMMA StoryUntouched ==
    ASSUME IInv, IInv', NEW u \in TxnIds, Story(u),
           SameLog \/ \E type, t : t # u /\ OneMore(type, t),
           txns'[u].state = txns[u].state, txns'[u] = NotBegun <=> txns[u] = NotBegun,
           u >= next_txn_id' => u >= next_txn_id
    PROVE  Story(u)'
<1>1. EntriesOf(u)' = EntriesOf(u) /\ EntriesOf(u) \subseteq 1 .. Len(entries)
  BY EntriesAfter
<1>2. \A i \in EntriesOf(u) : entries'[i].type = entries[i].type
  BY <1>1 DEF SameLog, OneMore
<1>3. Full => Full'
  BY EntriesAfter, LogConstants DEF Full, SameLog, OneMore
<1> QED
  BY <1>1, <1>2, <1>3 DEF Story

\* What a client takes its transaction to be after such an entry.
StateAfter(type) ==
    IF type = "WRITE" THEN "ACTIVE" ELSE IF type = "COMMIT" THEN "COMMITTED" ELSE "ABORTED"

\* One more entry of an active transaction continues its story.
LEMMA StoryContinued ==
    ASSUME IInv, IInv', NEW u \in TxnIds, Story(u), txns[u].state = "ACTIVE",
           NEW type \in {"WRITE", "COMMIT", "ABORT"}, OneMore(type, u),
           txns'[u].state = StateAfter(type),
           next_txn_id' = next_txn_id
    PROVE  Story(u)'
<1> DEFINE n == Len(entries) + 1
<1>1. /\ EntriesOf(u)' = EntriesOf(u) \cup {n} /\ n \in Nat
      /\ \A i \in EntriesOf(u) : i \in Nat /\ i < n
  BY EntriesAfter
<1>2. entries'[n].type = type /\ \A i \in EntriesOf(u) : entries'[i].type = entries[i].type
  BY EntriesAfter DEF OneMore
<1>3. txns[u] # NotBegun /\ txns'[u] # NotBegun /\ ~ (u >= next_txn_id)
  BY DEF Story, NotBegun, StateAfter
<1>4. EntriesOf(u) # {}
  BY <1>3 DEF Story, OneMore
<1>5. \A i \in EntriesOf(u) : entries[i].type # "COMMIT" /\ entries[i].type # "ABORT"
  BY DEF Story
<1> HIDE DEF n
<1>6. ASSUME NEW i \in EntriesOf(u)
      PROVE  entries'[i].type = "BEGIN" <=> \A j \in EntriesOf(u)' : i <= j
  BY <1>1, <1>2 DEF Story
<1>7. ~ \A j \in EntriesOf(u)' : n <= j
  BY <1>1, <1>4
<1>8. \A j \in EntriesOf(u)' : j <= n
  BY <1>1
<1>9. \A i \in EntriesOf(u)' : i = n \/ i \in EntriesOf(u)
  BY <1>1
<1>10. \A i \in EntriesOf(u)' :
          /\ entries'[i].type = "BEGIN" <=> \A j \in EntriesOf(u)' : i <= j
          /\ entries'[i].type = "COMMIT" => txns'[u].state = "COMMITTED"
          /\ entries'[i].type = "ABORT" => txns'[u].state = "ABORTED"
          /\ entries'[i].type \in {"COMMIT", "ABORT"} => \A j \in EntriesOf(u)' : j <= i
  <2> SUFFICES ASSUME NEW i \in EntriesOf(u)'
               PROVE  /\ entries'[i].type = "BEGIN" <=> \A j \in EntriesOf(u)' : i <= j
                      /\ entries'[i].type = "COMMIT" => txns'[u].state = "COMMITTED"
                      /\ entries'[i].type = "ABORT" => txns'[u].state = "ABORTED"
                      /\ entries'[i].type \in {"COMMIT", "ABORT"} => \A j \in EntriesOf(u)' : j <= i
    OBVIOUS
  <2>1. CASE i = n
    BY <2>1, <1>2, <1>7, <1>8 DEF StateAfter
  <2>2. CASE i \in EntriesOf(u)
    BY <2>2, <1>2, <1>5, <1>6 DEF StateAfter
  <2> QED
    BY <1>9, <2>1, <2>2
<1>11. txns'[u].state = "ABORTED" => \E i \in EntriesOf(u)' : entries'[i].type = "ABORT"
  BY <1>1, <1>2 DEF StateAfter
<1> QED
  BY <1>1, <1>3, <1>10, <1>11 DEF Story

\* A checkpoint keeps matching the log: it speaks of what lies before it.
LEMMA MatchesUntouched ==
    ASSUME IInv, IInv', SameLog \/ \E type, t : OneMore(type, t), NEW c \in Checkpoint, Matches(c)
    PROVE  Matches(c)'
<1>1. /\ DOMAIN entries = 1 .. Len(entries) /\ DOMAIN entries' = 1 .. Len(entries')
      /\ Len(entries) \in Nat /\ Len(entries') \in Nat /\ c.lsn \in Nat /\ c.lsn <= Len(entries)
  BY DEF IInv, TypeOK, Matches, Checkpoint
<1>2. /\ Len(entries) <= Len(entries')
      /\ \A i \in 1 .. Len(entries) :
            entries'[i].type = entries[i].type /\ entries'[i].txn_id = entries[i].txn_id
  <2>1. CASE SameLog
    BY <1>1, <2>1 DEF SameLog
  <2>2. ASSUME NEW type, NEW t, OneMore(type, t)
        PROVE  /\ Len(entries) <= Len(entries')
               /\ \A i \in 1 .. Len(entries) : /\ entries'[i].type = entries[i].type
                                              /\ entries'[i].txn_id = entries[i].txn_id
    BY <1>1, <2>2 DEF OneMore
  <2> QED
    BY <2>1, <2>2
<1>3. /\ DOMAIN entries \subseteq DOMAIN entries'
      /\ \A i \in DOMAIN entries' : i < c.lsn => i \in DOMAIN entries
      /\ \A i \in DOMAIN entries : /\ entries'[i].type = entries[i].type
                                    /\ entries'[i].txn_id = entries[i].txn_id
  BY <1>1, <1>2
<1>4. ASSUME NEW u \in TxnIds
      PROVE  \A i : i \in EntriesOf(u)' /\ i < c.lsn <=> i \in EntriesOf(u) /\ i < c.lsn
  BY <1>3 DEF EntriesOf
<1>5. \A u \in TxnIds : \A i \in EntriesOf(u) : entries'[i].type = entries[i].type
  BY <1>3 DEF EntriesOf
<1>6. BegunBefore(c.lsn)' = BegunBefore(c.lsn)
  BY <1>4 DEF BegunBefore
<1>7. EndedBefore(c.lsn)' = EndedBefore(c.lsn)
  BY <1>4, <1>5 DEF EndedBefore
<1> QED
  BY <1>1, <1>2, <1>6, <1>7 DEF Matches

\* The stories after a step that is about one transaction: nothing was logged and
\* nobody's state changed, or one entry was added and the state says so.
LEMMA StoriesAfterWrite ==
    ASSUME IInv, IInv', StoryInv, NEW t \in TxnIds, txns[t].state = "ACTIVE",
           NEW type \in {"WRITE", "COMMIT", "ABORT"}, next_txn_id' = next_txn_id,
           \/ SameLog /\ txns' = txns
           \/ /\ OneMore(type, t)
              /\ \A u \in TxnIds : u # t => txns'[u] = txns[u]
              /\ txns'[t].state = StateAfter(type)
    PROVE  \A u \in TxnIds : Story(u)'
<1> SUFFICES ASSUME NEW u \in TxnIds PROVE Story(u)'
  OBVIOUS
<1>1. Story(u)
  BY DEF StoryInv
<1>2. CASE SameLog /\ txns' = txns
  BY <1>1, <1>2, StoryUntouched
<1>3. CASE OneMore(type, t) /\ u # t /\ txns'[u] = txns[u]
  BY <1>1, <1>3, StoryUntouched
<1>4. CASE /\ OneMore(type, t) /\ u = t
           /\ txns'[t].state = StateAfter(type)
  BY <1>1, <1>4, StoryContinued
<1> QED
  BY <1>2, <1>3, <1>4

\* A transaction's first entry begins its story; one that found the log full has none.
LEMMA StoriesAfterBegin ==
    ASSUME IInv, IInv', StoryInv, log_manager_begin_transaction
    PROVE  (SameLog \/ \E type, t : OneMore(type, t)) /\ \A u \in TxnIds : Story(u)'
<1> DEFINE b == next_txn_id
<1>1. b \in TxnIds /\ b \in Nat /\ next_txn_id' = b + 1 /\ "BEGIN" \in Types /\ b \in 0 .. MAX_TXN
  BY LogConstants DEF log_manager_begin_transaction, IInv, TypeOK, TxnIds, Types
<1>2. txns' = [txns EXCEPT ![b] = [state |-> "ACTIVE", op_count |-> 0]] /\ AppendOnly("BEGIN", b)
  BY DEF log_manager_begin_transaction
<1>3. (Full /\ SameLog) \/ OneMore("BEGIN", b)
  BY <1>1, <1>2, AppendedLog
<1>4. /\ DOMAIN txns = TxnIds /\ txns'[b] = [state |-> "ACTIVE", op_count |-> 0]
      /\ \A u \in TxnIds : u # b => txns'[u] = txns[u]
  BY <1>1, <1>2 DEF IInv, TypeOK
<1>5. ASSUME NEW u \in TxnIds PROVE Story(u)'
  <2>1. Story(u)
    BY DEF StoryInv
  <2>2. CASE u # b
    <3>1. u >= next_txn_id' => u >= next_txn_id
      BY <1>1 DEF TxnIds
    <3> QED
      BY <1>3, <1>4, <2>1, <2>2, <3>1, StoryUntouched
  <2>3. CASE u = b
    <3>1. EntriesOf(u) = {}
      BY <1>1, <2>1, <2>3 DEF Story
    <3>2. txns'[u] # NotBegun /\ txns'[u].state = "ACTIVE" /\ ~ (u >= next_txn_id')
      BY <1>1, <1>4, <2>3 DEF NotBegun
    <3>3. CASE Full /\ SameLog
      <4>1. EntriesOf(u)' = {}
        BY <3>1, <3>3, EntriesAfter
      <4>2. Full'
        BY <3>3 DEF Full, SameLog
      <4> QED
        BY <3>2, <4>1, <4>2 DEF Story
    <3>4. CASE OneMore("BEGIN", b)
      <4>1. EntriesOf(u)' = {Len(entries) + 1} /\ Len(entries) + 1 \in Nat
        BY <2>3, <3>1, <3>4, EntriesAfter
      <4>2. entries'[Len(entries) + 1].type = "BEGIN"
        BY <3>4 DEF OneMore
      <4> QED
        BY <3>2, <4>1, <4>2 DEF Story
    <3> QED
      BY <1>3, <3>3, <3>4
  <2> QED
    BY <2>2, <2>3
<1> QED
  BY <1>3, <1>5

\* A write, a commit or an abort: believed exactly when it was logged.
LEMMA StoriesAfterRest ==
    ASSUME IInv, IInv', StoryInv, NEW t \in TxnIds,
           \/ log_manager_log_write(t)
           \/ log_manager_commit_transaction(t)
           \/ log_manager_abort_transaction(t)
    PROVE  (SameLog \/ \E type, u : OneMore(type, u)) /\ \A u \in TxnIds : Story(u)'
<1>1. /\ t \in 0 .. MAX_TXN /\ txns[t].state = "ACTIVE" /\ next_txn_id' = next_txn_id
      /\ {"WRITE", "COMMIT", "ABORT"} \subseteq Types
  BY LogConstants DEF TxnIds, Types, IsActive, log_manager_log_write,
                      log_manager_commit_transaction, log_manager_abort_transaction
<1>2. DOMAIN txns = TxnIds /\ DOMAIN txns[t] = {"state", "op_count"}
  BY DEF IInv, TypeOK, Transaction, NotBegun
<1>3. NewLsn = 0 <=> Full
  BY DEF NewLsn, IInv, TypeOK, LsnIsPosition
<1>4. CASE log_manager_log_write(t)
  <2>1. (Full /\ SameLog) \/ OneMore("WRITE", t)
    BY <1>1, <1>4, AppendedLog DEF log_manager_log_write
  <2>2. IF Full THEN txns' = txns ELSE transaction_add_operation(t)
    BY <1>3, <1>4 DEF log_manager_log_write
  <2>3. CASE Full
    <3>1. SameLog /\ txns' = txns
      BY <2>1, <2>2, <2>3 DEF OneMore
    <3> QED
      BY <1>1, <3>1, StoriesAfterWrite
  <2>4. CASE ~ Full
    <3>1. txns'[t].state = "ACTIVE" /\ \A u \in TxnIds : u # t => txns'[u] = txns[u]
      BY <1>1, <1>2, <2>2, <2>4 DEF transaction_add_operation
    <3> QED
      BY <1>1, <2>1, <2>4, <3>1, StoriesAfterWrite DEF StateAfter
  <2> QED
    BY <2>3, <2>4
<1>5. CASE log_manager_commit_transaction(t)
  <2>1. CASE Full
    <3>1. SameLog /\ txns' = txns
      BY <1>5, <2>1, CommitMarksAll DEF SameLog
    <3> QED
      BY <1>1, <3>1, StoriesAfterWrite
  <2>2. CASE ~ Full
    <3>1. OneMore("COMMIT", t) /\ txns' = [txns EXCEPT ![t].state = "COMMITTED"]
      BY <1>5, <2>2, CommitMarksAll DEF OneMore
    <3>2. txns'[t].state = "COMMITTED" /\ \A u \in TxnIds : u # t => txns'[u] = txns[u]
      BY <1>2, <3>1
    <3> QED
      BY <1>1, <3>1, <3>2, StoriesAfterWrite DEF StateAfter
  <2> QED
    BY <2>1, <2>2
<1>6. CASE log_manager_abort_transaction(t)
  <2>1. (Full /\ SameLog) \/ OneMore("ABORT", t)
    BY <1>1, <1>6, AppendedLog DEF log_manager_abort_transaction
  <2>2. IF Full THEN txns' = txns ELSE txns' = [txns EXCEPT ![t].state = "ABORTED"]
    BY <1>3, <1>6 DEF log_manager_abort_transaction, Finish
  <2>3. CASE Full
    <3>1. SameLog /\ txns' = txns
      BY <2>1, <2>2, <2>3 DEF OneMore
    <3> QED
      BY <1>1, <3>1, StoriesAfterWrite
  <2>4. CASE ~ Full
    <3>1. txns'[t].state = "ABORTED" /\ \A u \in TxnIds : u # t => txns'[u] = txns[u]
      BY <1>2, <2>2, <2>4
    <3> QED
      BY <1>1, <2>1, <2>4, <3>1, StoriesAfterWrite DEF StateAfter
  <2> QED
    BY <2>3, <2>4
<1> QED
  BY <1>4, <1>5, <1>6

\* A flush marks entries and changes nothing that they say.
LEMMA FlushesKeepLog ==
    ASSUME IInv, \/ wal_flush
                 \/ \E lsn \in 1 .. next_lsn : wal_flush_to_lsn(lsn)
    PROVE  SameLog /\ UNCHANGED <<next_txn_id, checkpoints, txns>>
<1>1. CASE wal_flush
  BY <1>1, FlushMarksAll DEF SameLog, wal_flush
<1>2. ASSUME NEW lsn \in 1 .. next_lsn, wal_flush_to_lsn(lsn)
      PROVE  SameLog /\ UNCHANGED <<next_txn_id, checkpoints, txns>>
  <2>1. FlushTo(entries, lsn) /\ UNCHANGED <<next_txn_id, checkpoints, txns>> /\ lsn \in Nat
    BY <1>2 DEF wal_flush_to_lsn, IInv, TypeOK
  <2>2. /\ entries \in Seq(LogEntry) /\ flushed_lsn \in Nat
        /\ \A i \in DOMAIN entries : entries[i].lsn = i
    BY DEF IInv, TypeOK, LsnIsPosition
  <2> QED
    BY <2>1, <2>2, FlushToMarksPrefix DEF SameLog
<1> QED
  BY <1>1, <1>2

\* A new checkpoint: the transactions that are active are those the log shows as
\* begun and not ended.
LEMMA NewCheckpointMatches ==
    ASSUME IInv, IInv', StoryInv, OneMore("CHECKPOINT", 0), NEW n \in Nat, n = Len(entries) + 1
    PROVE  BegunBefore(n)' \ EndedBefore(n)' = {t \in TxnIds : IsActive(t)}
<1> DEFINE begun(u) == \E i \in EntriesOf(u)' : i < n
           ended(u) == \E i \in EntriesOf(u)' : i < n /\ entries'[i].type \in {"COMMIT", "ABORT"}
<1>1. ASSUME NEW u \in TxnIds PROVE begun(u) /\ ~ ended(u) <=> IsActive(u)
  <2>1. u # 0
    BY DEF TxnIds
  <2>2. /\ EntriesOf(u)' = EntriesOf(u) /\ EntriesOf(u) \subseteq 1 .. Len(entries)
        /\ Len(entries) \in Nat
    BY <2>1, EntriesAfter
  <2>3. \A i \in EntriesOf(u) : i < n /\ entries'[i].type = entries[i].type
    BY <2>2 DEF OneMore
  <2>4. begun(u) <=> EntriesOf(u) # {}
    BY <2>2, <2>3
  <2>5. ended(u) <=> \E i \in EntriesOf(u) : entries[i].type \in {"COMMIT", "ABORT"}
    BY <2>2, <2>3
  <2> HIDE DEF begun, ended
  <2>6. Story(u) /\ ~ Full
    BY DEF StoryInv, OneMore
  <2>7. begun(u) <=> txns[u] # NotBegun
    BY <2>4, <2>6 DEF Story
  <2>8. ended(u) <=> txns[u].state \in {"COMMITTED", "ABORTED"}
    BY <2>5, <2>6 DEF Story, IInv, CommittedIsDurable
  <2>9. txns[u] # NotBegun => txns[u].state \in States
    BY DEF IInv, TypeOK, Transaction
  <2> QED
    BY <2>7, <2>8, <2>9 DEF IsActive, NotBegun, States
<1> QED
  BY <1>1 DEF BegunBefore, EndedBefore

\* A checkpoint that is appended to the list speaks of the log as it is.
LEMMA CheckpointStep ==
    ASSUME IInv, IInv', StoryInv, log_manager_create_checkpoint
    PROVE  StoryInv'
<1> DEFINE active == {t \in TxnIds : IsActive(t)}
<1>1. /\ AppendOnly("CHECKPOINT", 0) /\ RecordCheckpoint(active)
      /\ next_txn_id' = next_txn_id /\ txns' = txns
      /\ "CHECKPOINT" \in Types /\ 0 \in 0 .. MAX_TXN
  BY LogConstants DEF log_manager_create_checkpoint, Types
<1>2. (Full /\ SameLog) \/ OneMore("CHECKPOINT", 0)
  BY <1>1, AppendedLog
<1>3. ASSUME NEW u \in TxnIds PROVE Story(u)'
  <2>1. Story(u) /\ u # 0
    BY DEF StoryInv, TxnIds
  <2> QED
    BY <1>1, <1>2, <2>1, StoryUntouched
<1>4. \A d \in Checkpoint : Matches(d) => Matches(d)'
  BY <1>2, MatchesUntouched
<1> HIDE DEF active
<1>5. ASSUME NEW d \in Checkpoint, d.lsn = NewLsn, d.active_txns \subseteq active,
             d.active_count = Cardinality(active),
             d.active_txns = active \/ Cardinality(d.active_txns) = MAX_ACTIVE_TXN
      PROVE  Matches(d)'
  <2>1. next_lsn = Len(entries) + 1 /\ Len(entries) \in Nat
    BY DEF IInv, TypeOK, LsnIsPosition
  <2>2. CASE Full /\ SameLog
    BY <1>5, <2>1, <2>2 DEF Matches, NewLsn, SameLog
  <2>3. CASE OneMore("CHECKPOINT", 0)
    <3>1. d.lsn = Len(entries) + 1 /\ Len(entries') = Len(entries) + 1
      BY <1>5, <2>1, <2>3 DEF NewLsn, OneMore
    <3>2. BegunBefore(d.lsn)' \ EndedBefore(d.lsn)' = active
      BY <2>1, <2>3, <3>1, NewCheckpointMatches DEF active
    <3> DEFINE open == BegunBefore(d.lsn)' \ EndedBefore(d.lsn)'
    <3>3. d.active_count = Cardinality(open)
      BY <1>5, <3>2, Zenon
    <3>4. /\ d.active_txns \subseteq open
          /\ d.active_txns = open \/ Cardinality(d.active_txns) = MAX_ACTIVE_TXN
      BY <1>5, <3>2, Zenon
    <3>5. d.lsn <= Len(entries')
      BY <2>1, <3>1
    <3> QED
      BY <3>3, <3>4, <3>5, Zenon DEF Matches
  <2> QED
    BY <1>2, <2>2, <2>3
<1>6. ASSUME NEW c \in DOMAIN checkpoints', NEW d, d = checkpoints'[c]
      PROVE  Matches(d)'
  <2>1. CASE checkpoints' = checkpoints
    BY <1>4, <1>6, <2>1 DEF StoryInv, IInv, TypeOK
  <2>2. CASE checkpoints' # checkpoints
    <3>1. PICK listed \in SUBSET active :
             /\ listed = active \/ Cardinality(listed) = MAX_ACTIVE_TXN
             /\ checkpoints' = Append(checkpoints,
                   [lsn |-> NewLsn, active_txns |-> listed, active_count |-> Cardinality(active)])
      BY <1>1, <2>2 DEF RecordCheckpoint
    <3>2. checkpoints \in Seq(Checkpoint) /\ checkpoints' \in Seq(Checkpoint)
      BY DEF IInv, TypeOK
    <3>3. d \in Checkpoint
      BY <1>6, <3>2
    <3>4. CASE c \in DOMAIN checkpoints
      <4>1. d = checkpoints[c]
        BY <1>6, <3>1, <3>2, <3>4
      <4> QED
        BY <1>4, <3>3, <3>4, <4>1 DEF StoryInv
    <3>5. CASE c \notin DOMAIN checkpoints
      <4>1. d = [lsn |-> NewLsn, active_txns |-> listed, active_count |-> Cardinality(active)]
        BY <1>6, <3>1, <3>2, <3>5
      <4> QED
        BY <1>5, <3>1, <3>3, <4>1
    <3> QED
      BY <3>4, <3>5
  <2> QED
    BY <2>1, <2>2
<1> QED
  BY <1>3, <1>6 DEF StoryInv, Matches, BegunBefore, EndedBefore

\* The invariant of the story: kept by every step.
LEMMA StoryStep == IInv /\ StoryInv /\ [Next]_walVars => StoryInv'
<1> SUFFICES ASSUME IInv, StoryInv, [Next]_walVars PROVE StoryInv'
  OBVIOUS
<1>1. IInv'
  BY StepPreserves
<1>2. CASE log_manager_create_checkpoint
  BY <1>1, <1>2, CheckpointStep
<1>3. ASSUME SameLog \/ \E type, t : OneMore(type, t), checkpoints' = checkpoints,
             \A u \in TxnIds : Story(u)'
      PROVE  StoryInv'
  <2>1. \A d \in Checkpoint : Matches(d) => Matches(d)'
    BY <1>1, <1>3, MatchesUntouched
  <2>2. ASSUME NEW c \in DOMAIN checkpoints', NEW d, d = checkpoints'[c]
        PROVE  Matches(d)'
    BY <1>3, <2>1, <2>2 DEF StoryInv, IInv, TypeOK
  <2> QED
    BY <1>3, <2>2 DEF StoryInv, Matches, BegunBefore, EndedBefore
<1>4. CASE log_manager_begin_transaction
  BY <1>1, <1>3, <1>4, StoriesAfterBegin DEF log_manager_begin_transaction
<1>5. ASSUME NEW t \in TxnIds,
             \/ log_manager_log_write(t)
             \/ log_manager_commit_transaction(t)
             \/ log_manager_abort_transaction(t)
      PROVE  StoryInv'
  <2>1. checkpoints' = checkpoints
    BY <1>5 DEF log_manager_log_write, log_manager_commit_transaction, log_manager_abort_transaction
  <2> QED
    BY <1>1, <1>3, <1>5, <2>1, StoriesAfterRest
<1>6. ASSUME SameLog, UNCHANGED <<next_txn_id, checkpoints, txns>>
      PROVE  StoryInv'
  <2>1. \A u \in TxnIds : Story(u)'
    BY <1>1, <1>6, StoryUntouched DEF StoryInv
  <2> QED
    BY <1>3, <1>6, <2>1
<1>7. CASE wal_flush \/ \E lsn \in 1 .. next_lsn : wal_flush_to_lsn(lsn)
  BY <1>6, <1>7, FlushesKeepLog
<1>8. CASE UNCHANGED walVars
  BY <1>6, <1>8 DEF walVars, SameLog
<1> QED
  BY <1>2, <1>4, <1>5, <1>7, <1>8 DEF Next

\* For every size of the log and of a checkpoint: the log tells each transaction's
\* story as its client knows it, and a checkpoint in the log counts, and as far as
\* they fit lists, the transactions open before it.
THEOREM StoryTold == Spec => []LogTellsTheStory
<1>1. Init => StoryInv
  BY LogConstants DEF Init, StoryInv, Story, EntriesOf, NotBegun, TxnIds
<1>2. IInv /\ StoryInv => LogTellsTheStory
  <2> SUFFICES ASSUME IInv, StoryInv PROVE LogTellsTheStory
    OBVIOUS
  <2>1. HistoryIsWellFormed
    BY DEF StoryInv, Story, HistoryIsWellFormed
  <2>2. CheckpointsMatchLog
    BY DEF StoryInv, Matches, BegunBefore, EndedBefore, CheckpointsMatchLog
  <2> QED
    BY <2>1, <2>2 DEF LogTellsTheStory
<1> QED
  BY <1>1, <1>2, Invariance, StoryStep, PTL DEF Spec

-----------------------------------------------------------------------------
(* Recovery: what redo and undo visit                                      *)

\* A transaction never counts more operations than the log has writes of it.
CountInv == \A t \in TxnIds : txns[t].op_count <= Cardinality(Writes(t))

\* Positions in the log can be counted, and more positions count for more.
LEMMA PositionsCount ==
    ASSUME NEW n \in Nat, NEW I, NEW J, I \subseteq J, J \subseteq 1 .. n
    PROVE  /\ IsFiniteSet(J) /\ Cardinality(J) \in Nat
           /\ Cardinality(I) \in Nat /\ Cardinality(I) <= Cardinality(J)
           /\ I # J => Cardinality(I) + 1 <= Cardinality(J)
<1>1. IsFiniteSet(1 .. n)
  BY FS_Interval
<1>2. IsFiniteSet(J)
  BY <1>1, FS_Subset
<1>3. /\ IsFiniteSet(I) /\ Cardinality(I) <= Cardinality(J)
      /\ Cardinality(J) = Cardinality(I) => J = I
  BY <1>2, FS_Subset
<1>4. Cardinality(I) \in Nat /\ Cardinality(J) \in Nat
  BY <1>2, <1>3, FS_CardinalityType
<1> QED
  BY <1>2, <1>3, <1>4

\* A step leaves the writes that the log has of a transaction where they are, and
\* a new write is one more.
LEMMA WritesAfter ==
    ASSUME IInv, IInv', NEW u \in TxnIds, SameLog \/ \E type, t : OneMore(type, t)
    PROVE  /\ Cardinality(Writes(u)) \in Nat /\ Cardinality(Writes(u)') \in Nat
           /\ Cardinality(Writes(u)) <= Cardinality(Writes(u)')
           /\ OneMore("WRITE", u) => Cardinality(Writes(u)) + 1 <= Cardinality(Writes(u)')
<1>1. /\ Len(entries') \in Nat /\ Len(entries) \in Nat
      /\ DOMAIN entries = 1 .. Len(entries) /\ DOMAIN entries' = 1 .. Len(entries')
  BY DEF IInv, TypeOK
<1>2. Len(entries) <= Len(entries')
  <2>1. Len(entries) \in Nat
    BY <1>1
  <2> QED
    BY <2>1 DEF SameLog, OneMore
<1>3. \A i \in 1 .. Len(entries) :
         entries'[i].type = entries[i].type /\ entries'[i].txn_id = entries[i].txn_id
  BY DEF SameLog, OneMore
<1> DEFINE was == Writes(u)
           is == Writes(u)'
<1>4. was \subseteq is /\ is \subseteq 1 .. Len(entries') /\ Len(entries') \in Nat
  <2>1. is = {i \in 1 .. Len(entries') : entries'[i].txn_id = u /\ entries'[i].type = "WRITE"}
    BY <1>1 DEF Writes, EntriesOf
  <2>2. was = {i \in 1 .. Len(entries) : entries[i].txn_id = u /\ entries[i].type = "WRITE"}
    BY <1>1 DEF Writes, EntriesOf
  <2> HIDE DEF was, is
  <2>3. is \subseteq 1 .. Len(entries') /\ Len(entries') \in Nat
    BY <1>1, <1>2, <2>1
  <2>4. ASSUME NEW i \in was PROVE i \in is
    <3>1. i \in 1 .. Len(entries) /\ entries[i].txn_id = u /\ entries[i].type = "WRITE"
      BY <2>2
    <3>2. i \in 1 .. Len(entries')
      <4>1. Len(entries) \in Nat /\ Len(entries') \in Nat
        BY <1>1
      <4> QED
        BY <1>2, <3>1, <4>1
    <3> QED
      BY <1>3, <2>1, <3>1, <3>2
  <2> QED
    BY <2>3, <2>4
<1>5. OneMore("WRITE", u) => was # is
  <2> SUFFICES ASSUME OneMore("WRITE", u) PROVE was # is
    OBVIOUS
  <2>1. Len(entries) + 1 \in Writes(u)'
    BY <1>1 DEF OneMore, Writes, EntriesOf
  <2>2. Len(entries) + 1 \notin Writes(u)
    BY <1>1 DEF Writes, EntriesOf
  <2> QED
    BY <2>1, <2>2
<1> HIDE DEF was, is
<1>6. /\ Cardinality(is) \in Nat /\ Cardinality(was) \in Nat
      /\ Cardinality(was) <= Cardinality(is)
      /\ was # is => Cardinality(was) + 1 <= Cardinality(is)
  BY <1>4, PositionsCount
<1> QED
  BY <1>5, <1>6 DEF was, is

\* What a step does to the log and to the operations transactions count.
LEMMA CountAfterStep ==
    ASSUME IInv, IInv', CountInv, SameLog \/ \E type, t : OneMore(type, t),
           \A u \in TxnIds : \/ txns'[u].op_count \in {0, txns[u].op_count}
                             \/ /\ txns'[u].op_count = txns[u].op_count + 1
                                /\ OneMore("WRITE", u)
    PROVE  CountInv'
<1> SUFFICES ASSUME NEW u \in TxnIds PROVE txns'[u].op_count <= Cardinality(Writes(u)')
  BY DEF CountInv
<1>1. /\ Cardinality(Writes(u)) \in Nat /\ Cardinality(Writes(u)') \in Nat
      /\ Cardinality(Writes(u)) <= Cardinality(Writes(u)')
      /\ OneMore("WRITE", u) => Cardinality(Writes(u)) + 1 <= Cardinality(Writes(u)')
  BY WritesAfter
<1>2. txns[u].op_count \in Nat
  BY LogConstants DEF IInv, TypeOK, Transaction, NotBegun
<1>3. txns[u].op_count <= Cardinality(Writes(u))
  BY DEF CountInv
<1> QED
  BY <1>1, <1>2, <1>3

LEMMA CountStep == IInv /\ CountInv /\ [Next]_walVars => CountInv'
<1> SUFFICES ASSUME IInv, CountInv, [Next]_walVars PROVE CountInv'
  OBVIOUS
<1>1. IInv'
  BY StepPreserves
<1>2. DOMAIN txns = TxnIds /\ \A t \in TxnIds : txns[t] \in Transaction \cup {NotBegun}
  BY DEF IInv, TypeOK
<1>3. CASE log_manager_begin_transaction
  <2>1. next_txn_id \in TxnIds /\ next_txn_id \in 0 .. MAX_TXN /\ "BEGIN" \in Types
    BY <1>3, LogConstants DEF IInv, TypeOK, log_manager_begin_transaction, TxnIds, Types
  <2>2. SameLog \/ OneMore("BEGIN", next_txn_id)
    BY <1>3, <2>1, AppendedLog DEF log_manager_begin_transaction
  <2>3. txns' = [txns EXCEPT ![next_txn_id] = [state |-> "ACTIVE", op_count |-> 0]]
    BY <1>3 DEF log_manager_begin_transaction
  <2>4. ASSUME NEW u \in TxnIds PROVE txns'[u].op_count \in {0, txns[u].op_count}
    BY <1>2, <2>3
  <2> QED
    BY <1>1, <2>2, <2>4, CountAfterStep
<1>4. ASSUME NEW t \in TxnIds, log_manager_log_write(t)
      PROVE  CountInv'
  <2>1. (Full /\ SameLog) \/ OneMore("WRITE", t)
    BY <1>4, LogConstants, AppendedLog DEF log_manager_log_write, TxnIds, Types
  <2>2. NewLsn = 0 <=> Full
    BY DEF NewLsn, IInv, TypeOK, LsnIsPosition
  <2>3. IF Full THEN txns' = txns ELSE transaction_add_operation(t)
    BY <1>4, <2>2 DEF log_manager_log_write
  <2>4. ASSUME NEW u \in TxnIds
        PROVE  \/ txns'[u].op_count \in {0, txns[u].op_count}
               \/ txns'[u].op_count = txns[u].op_count + 1 /\ OneMore("WRITE", u)
    <3>1. CASE Full \/ u # t
      BY <1>2, <2>3, <3>1 DEF transaction_add_operation
    <3>2. CASE ~ Full /\ u = t
      <4>1. DOMAIN txns[t] = {"state", "op_count"}
        BY <1>2 DEF Transaction, NotBegun
      <4>2. txns'[t].op_count = IF txns[t].op_count >= MAX_TXN_OPERATIONS THEN txns[t].op_count
                                ELSE txns[t].op_count + 1
        BY <1>2, <2>3, <3>2, <4>1 DEF transaction_add_operation
      <4> QED
        BY <2>1, <3>2, <4>2
    <3> QED
      BY <3>1, <3>2
  <2> QED
    BY <1>1, <2>1, <2>4, CountAfterStep
<1>5. ASSUME NEW t \in TxnIds, log_manager_commit_transaction(t) \/ log_manager_abort_transaction(t)
      PROVE  CountInv'
  <2>1. SameLog \/ \E type, u : OneMore(type, u)
    <3>1. CASE log_manager_commit_transaction(t)
      BY <3>1, CommitMarksAll DEF SameLog, OneMore
    <3>2. CASE log_manager_abort_transaction(t)
      BY <3>2, LogConstants, AppendedLog DEF log_manager_abort_transaction, TxnIds, Types
    <3> QED
      BY <1>5, <3>1, <3>2
  <2>2. PICK state : Finish(t, state)
    BY <1>5 DEF log_manager_commit_transaction, log_manager_abort_transaction
  <2>3. ASSUME NEW u \in TxnIds PROVE txns'[u].op_count \in {0, txns[u].op_count}
    BY <1>2, <2>2 DEF Finish, Transaction, NotBegun
  <2> QED
    BY <1>1, <2>1, <2>3, CountAfterStep
<1>6. CASE log_manager_create_checkpoint
  <2>1. SameLog \/ OneMore("CHECKPOINT", 0)
    BY <1>6, LogConstants, AppendedLog DEF log_manager_create_checkpoint, Types
  <2>2. txns' = txns
    BY <1>6 DEF log_manager_create_checkpoint
  <2> QED
    BY <1>1, <2>1, <2>2, CountAfterStep
<1>7. CASE wal_flush \/ \E lsn \in 1 .. next_lsn : wal_flush_to_lsn(lsn)
  <2>1. SameLog /\ txns' = txns
    BY <1>7, FlushesKeepLog
  <2> QED
    BY <1>1, <2>1, CountAfterStep
<1>8. CASE UNCHANGED walVars
  <2>1. SameLog /\ txns' = txns
    BY <1>8 DEF walVars, SameLog
  <2> QED
    BY <1>1, <2>1, CountAfterStep
<1> QED
  BY <1>3, <1>4, <1>5, <1>6, <1>7, <1>8 DEF Next

\* What redo and undo visit: writes of the log, in their order and in the opposite.
LEMMA VisitsAre ==
    ASSUME IInv
    PROVE  /\ Len(Redone) \in Nat /\ DOMAIN Redone = 1 .. Len(Redone)
           /\ DOMAIN Undone = 1 .. Len(Redone)
           /\ \A k \in 1 .. Len(Redone) : Undone[k] = Redone[Len(Redone) - k + 1]
           /\ \E at : Picks(at, Redone, entries, Written, Len(entries))
           /\ \A j, k \in 1 .. Len(Redone) : j < k => Redone[j].lsn < Redone[k].lsn
<1>1. entries \in Seq(LogEntry) /\ Len(entries) \in Nat /\ DOMAIN entries = 1 .. Len(entries)
  BY DEF IInv, TypeOK
<1>2. Redone \in Seq(LogEntry) /\ \E at : Picks(at, Redone, entries, Written, Len(entries))
  BY <1>1, SelectionIs DEF Redone
<1>3. Undone = [i \in 1 .. Len(Redone) |-> Redone[(Len(Redone) - i) + 1]]
  BY DEF Undone, Redone, Reverse
<1>4. Len(Redone) \in Nat /\ DOMAIN Redone = 1 .. Len(Redone)
  BY <1>2
<1>5. PICK at : Picks(at, Redone, entries, Written, Len(entries))
  BY <1>2
<1>6. \A k \in 1 .. Len(Redone) : at[k] \in 1 .. Len(entries) /\ Redone[k] = entries[at[k]]
  BY <1>5 DEF Picks
<1>7. \A k \in 1 .. Len(Redone) : Redone[k].lsn = at[k]
  BY <1>1, <1>6 DEF IInv, LsnIsPosition
<1>8. \A j, k \in 1 .. Len(Redone) : j < k => Redone[j].lsn < Redone[k].lsn
  BY <1>5, <1>7 DEF Picks
<1> QED
  BY <1>2, <1>3, <1>4, <1>8

\* Redo visits as many writes of a transaction as the log has.
LEMMA RedoneOf ==
    ASSUME IInv, NEW t \in TxnIds
    PROVE  Cardinality({k \in DOMAIN Redone : Redone[k].txn_id = t}) = Cardinality(Writes(t))
<1> DEFINE K == {k \in DOMAIN Redone : Redone[k].txn_id = t}
           W == Writes(t)
<1>1. Len(Redone) \in Nat /\ DOMAIN Redone = 1 .. Len(Redone)
  BY VisitsAre
<1>2. PICK at : Picks(at, Redone, entries, Written, Len(entries))
  BY VisitsAre
<1>3. Len(entries) \in Nat /\ DOMAIN entries = 1 .. Len(entries)
  BY DEF IInv, TypeOK
<1>4. W = {i \in Written : entries[i].txn_id = t} /\ W \subseteq 1 .. Len(entries)
  BY <1>3 DEF Writes, EntriesOf, Written
<1> DEFINE f == [k \in K |-> at[k]]
<1>5. f \in [K -> W]
  BY <1>1, <1>2, <1>4 DEF Picks
<1>6. \A j, k \in K : f[j] = f[k] => j = k
  <2> SUFFICES ASSUME NEW j \in K, NEW k \in K, at[j] = at[k], j # k PROVE FALSE
    OBVIOUS
  <2>1. j \in 1 .. Len(Redone) /\ k \in 1 .. Len(Redone) /\ (j < k \/ k < j)
    BY <1>1
  <2>2. at[j] \in Nat /\ at[k] \in Nat
    BY <1>2, <1>3, <2>1 DEF Picks
  <2> QED
    BY <1>2, <2>1, <2>2 DEF Picks
<1>7. \A i \in W : \E k \in K : f[k] = i
  <2> SUFFICES ASSUME NEW i \in W PROVE \E k \in K : at[k] = i
    OBVIOUS
  <2>1. i \in Written /\ i \in 1 .. Len(entries) /\ entries[i].txn_id = t
    BY <1>4
  <2>2. PICK k \in 1 .. Len(Redone) : at[k] = i
    BY <1>2, <2>1 DEF Picks
  <2>3. Redone[k] = entries[i]
    BY <1>2, <2>2 DEF Picks
  <2> QED
    BY <1>1, <2>1, <2>2, <2>3
<1> HIDE DEF f, K, W
<1>8. ExistsBijection(K, W)
  BY <1>5, <1>6, <1>7, Fun_IsBij, Fun_ExistsBij
<1>9. IsFiniteSet(W)
  <2>1. IsFiniteSet(1 .. Len(entries))
    BY <1>3, FS_Interval
  <2> QED
    BY <1>4, <2>1, FS_Subset
<1>10. ExistsBijection(W, K)
  BY <1>8, Fun_ExistsBijSymmetric
<1>11. Cardinality(K) = Cardinality(W)
  BY <1>8, <1>9, <1>10, FS_Bijection
<1> QED
  BY <1>11 DEF K, W

LEMMA RecoveryKeeps == RecSpec => [](IInv /\ CountInv)
<1>1. RecInit => IInv /\ CountInv
  <2> SUFFICES ASSUME RecInit PROVE IInv /\ CountInv
    OBVIOUS
  <2>1. IInv
    BY InitEstablishes DEF RecInit
  <2>2. ASSUME NEW t \in TxnIds PROVE txns[t].op_count <= Cardinality(Writes(t))
    <3>1. txns[t].op_count = 0 /\ Writes(t) = {}
      BY DEF RecInit, Init, NotBegun, Writes, EntriesOf
    <3> QED
      BY <3>1, FS_EmptySet
  <2> QED
    BY <2>1, <2>2 DEF CountInv
<1>2. [RecNext]_allVars => [Next]_walVars
  BY DEF RecNext, allVars, recovery_manager_analysis_phase, recovery_manager_recover
<1>3. IInv /\ CountInv /\ [RecNext]_allVars => IInv' /\ CountInv'
  BY <1>2, StepPreserves, CountStep
<1> QED
  BY <1>1, <1>3, PTL DEF RecSpec

\* For every size of the log, whatever part of it is on disk and wherever the
\* checkpoints are: redo visits every write that a committed transaction counts,
\* in the order they were made, and undo visits the writes of a transaction last
\* to first.
THEOREM ReplayInOrder == RecSpec => []ReplayIsOrdered
<1>1. IInv /\ CountInv => ReplayIsOrdered
  <2> SUFFICES ASSUME IInv, CountInv PROVE ReplayIsOrdered
    OBVIOUS
  <2> DEFINE n == Len(Redone)
  <2>1. /\ n \in Nat /\ DOMAIN Redone = 1 .. n /\ DOMAIN Undone = 1 .. n
        /\ \A k \in 1 .. n : Undone[k] = Redone[n - k + 1]
        /\ \A j, k \in 1 .. n : j < k => Redone[j].lsn < Redone[k].lsn
    BY VisitsAre
  <2>2. ASSUME NEW t \in TxnIds
        PROVE  Cardinality({k \in DOMAIN Redone : Redone[k].txn_id = t}) >= txns[t].op_count
    <3>1. txns[t].op_count <= Cardinality(Writes(t))
      BY DEF CountInv
    <3>2. txns[t].op_count \in Nat
      BY LogConstants DEF IInv, TypeOK, Transaction, NotBegun
    <3>3. Cardinality(Writes(t)) \in Nat
      <4>1. Writes(t) \subseteq 1 .. Len(entries) /\ Len(entries) \in Nat
        BY DEF Writes, EntriesOf, IInv, TypeOK
      <4> QED
        BY <4>1, PositionsCount
    <3> QED
      BY <3>1, <3>2, <3>3, RedoneOf
  <2> HIDE DEF n
  <2>3. ASSUME NEW i \in 1 .. n, NEW j \in 1 .. n, i < j
        PROVE  Undone[i].lsn > Undone[j].lsn
    <3>1. /\ n - i + 1 \in 1 .. n /\ n - j + 1 \in 1 .. n /\ n - j + 1 < n - i + 1
      BY <2>1, <2>3
    <3>2. Redone[n - j + 1].lsn < Redone[n - i + 1].lsn
      BY <2>1, <3>1
    <3> QED
      BY <2>1, <3>2
  <2> QED
    BY <2>1, <2>2, <2>3 DEF ReplayIsOrdered
<1> QED
  BY <1>1, RecoveryKeeps, PTL
=============================================================================
