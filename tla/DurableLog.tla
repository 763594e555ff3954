------------------------------ MODULE DurableLog ------------------------------
(***************************************************************************)
(* What a write ahead log promises: entries are only ever added at the     *)
(* end, what has reached the disk is a prefix of them that only grows, and *)
(* an entry added as a commit is on disk at once with all before it.       *)
(***************************************************************************)
EXTENDS Integers, Sequences

CONSTANTS Entries, Commits   \* Commits: the entries that end in a flush

VARIABLES
    log,     \* the entries
    durable  \* positions of the entries that are on disk

durableVars == <<log, durable>>

LogInit == log = << >> /\ durable = {}

Add(e) ==
    /\ e \notin Commits
    /\ log' = Append(log, e)
    /\ UNCHANGED durable

AddCommit(e) ==
    /\ log' = Append(log, e)
    /\ durable' = 1 .. Len(log')

Harden(n) ==
    /\ durable' = durable \cup 1 .. n
    /\ UNCHANGED log

LogNext ==
    \/ \E e \in Entries : Add(e)
    \/ \E e \in Commits : AddCommit(e)
    \/ \E n \in 0 .. Len(log) : Harden(n)

LogSpec == LogInit /\ [][LogNext]_durableVars
=============================================================================
