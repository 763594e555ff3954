---------------------------- MODULE ConcurrentMap ----------------------------
(***************************************************************************)
(* One bucket of the hash map of concurrent_hashmap.c (memory management,  *)
(* phase 8).  Writers hold the bucket's lock; chm_get takes none.  Nodes   *)
(* enter the chain at its head and never leave it, so a node is its        *)
(* position by age, its next is the position before, and 0 is NULL.        *)
(*                                                                         *)
(* A value is an array of bytes that strncpy writes in place and callers   *)
(* read through the pointer they got: it is a pair, written and read half  *)
(* by half.  A walk under the lock is one step, since the lock keeps the   *)
(* chain as it is; the statistics get_ops and put_ops are left out.        *)
(***************************************************************************)
EXTENDS Integers, Sequences, FiniteSets, SequencesExt

CONSTANTS
    MapThreads,
    Keys,         \* keys of this bucket
    MapValues,
    Absent,       \* NULL
    NoThread,
    MAX_CALLS     \* bound: calls of one thread

ASSUME MapConstants ==
    /\ IsFiniteSet(MapThreads) /\ NoThread \notin MapThreads
    /\ Absent \notin MapValues /\ Absent \notin Keys
    /\ MAX_CALLS \in Nat

VARIABLES
    chain,         \* the nodes, oldest first
    bucket_lock,   \* the thread that holds the bucket's mutex
    chain_length, map_size,
    caller,        \* what each thread is doing
    held           \* auxiliary: the values the key had since the call began

mapVars == <<chain, bucket_lock, chain_length, map_size, caller, held>>

Places == {"idle", "put", "put_if_absent", "get", "overwrite", "count_chain",
           "count_size", "walk", "first_half", "second_half", "answered"}

Caller == [pc : Places, key : Keys \cup {Absent}, val : MapValues \cup {Absent},
           node : Nat, half : MapValues \cup {Absent}, calls : 0 .. MAX_CALLS]

MapTypeOK ==
    /\ chain \in Seq([key : Keys, val : MapValues \X MapValues])
    /\ bucket_lock \in MapThreads \cup {NoThread}
    /\ chain_length \in Nat /\ map_size \in Nat
    /\ caller \in [MapThreads -> Caller]
    /\ held \in [MapThreads -> SUBSET (MapValues \cup {Absent})]

\* chm_init
MapInit ==
    /\ chain = << >>
    /\ bucket_lock = NoThread
    /\ chain_length = 0 /\ map_size = 0
    /\ caller = [t \in MapThreads |-> [pc |-> "idle", key |-> Absent, val |-> Absent,
                                       node |-> 0, half |-> Absent, calls |-> 0]]
    /\ held = [t \in MapThreads |-> {}]

-----------------------------------------------------------------------------

At(t, pc) == caller[t].pc = pc

Moved(t, pc) == [caller EXCEPT ![t].pc = pc]

\* A walk from node n towards older nodes; 0 is the end of the chain.
Find(k, n) == LET hits == {i \in 1 .. n : chain[i].key = k}
              IN  IF hits = {} THEN 0 ELSE Max(hits)

Stored(k) == LET n == Find(k, Len(chain)) IN IF n = 0 THEN {Absent} ELSE Range(chain[n].val)

\* A thread calls chm_get, chm_put or chm_put_if_absent.
Call(t, pc, k, v) ==
    /\ At(t, "idle") /\ caller[t].calls < MAX_CALLS
    /\ caller' = [caller EXCEPT ![t] = [pc |-> pc, key |-> k, val |-> v, node |-> 0,
                                        half |-> Absent, calls |-> @.calls + 1]]
    /\ held' = [held EXCEPT ![t] = Stored(k)]
    /\ UNCHANGED <<chain, bucket_lock, chain_length, map_size>>

\* Every call under way on key k sees the value v come.
Seen(k, v) == held' = [t \in MapThreads |->
                         IF caller[t].key = k /\ ~ At(t, "idle") THEN held[t] \cup {v} ELSE held[t]]

Lock(t)   == bucket_lock = NoThread /\ bucket_lock' = t
Unlock(t) == bucket_lock = t /\ bucket_lock' = NoThread

\* The new node is complete before it becomes the head.
Prepend(t) ==
    chain' = Append(chain, [key |-> caller[t].key, val |-> <<caller[t].val, caller[t].val>>])

\* chm_put finds the key and starts to copy the value over the old one ...
chm_put_found(t) ==
    /\ At(t, "put") /\ Lock(t)
    /\ LET n == Find(caller[t].key, Len(chain)) IN
       /\ n > 0
       /\ chain' = [chain EXCEPT ![n].val[1] = caller[t].val]
       /\ caller' = [Moved(t, "overwrite") EXCEPT ![t].node = n]
    /\ Seen(caller[t].key, caller[t].val)
    /\ UNCHANGED <<chain_length, map_size>>

\* ... and copies the rest.
Overwrite(t) ==
    /\ At(t, "overwrite") /\ Unlock(t)
    /\ chain' = [chain EXCEPT ![caller[t].node].val[2] = caller[t].val]
    /\ caller' = Moved(t, "idle")
    /\ UNCHANGED <<chain_length, map_size, held>>

\* chm_put does not find it and prepends a node.
chm_put_new(t) ==
    /\ At(t, "put") /\ Lock(t)
    /\ Find(caller[t].key, Len(chain)) = 0
    /\ Prepend(t)
    /\ caller' = Moved(t, "count_chain")
    /\ Seen(caller[t].key, caller[t].val)
    /\ UNCHANGED <<chain_length, map_size>>

CountChain(t) ==
    /\ At(t, "count_chain")
    /\ chain_length' = chain_length + 1
    /\ caller' = Moved(t, "count_size")
    /\ UNCHANGED <<chain, bucket_lock, map_size, held>>

CountSize(t) ==
    /\ At(t, "count_size") /\ Unlock(t)
    /\ map_size' = map_size + 1
    /\ caller' = Moved(t, "idle")
    /\ UNCHANGED <<chain, chain_length, held>>

chm_put_if_absent_new_unchecked(t) ==
    /\ At(t, "put_if_absent") /\ Lock(t)
    /\ Absent \in held[t]
    /\ Prepend(t)
    /\ caller' = Moved(t, "count_size")
    /\ Seen(caller[t].key, caller[t].val)
    /\ UNCHANGED <<chain_length, map_size>>

\* chm_put_if_absent tests and inserts under one lock; it leaves chain_length alone.
chm_put_if_absent_new(t) ==
    /\ At(t, "put_if_absent") /\ Lock(t)
    /\ Find(caller[t].key, Len(chain)) = 0
    /\ Prepend(t)
    /\ caller' = Moved(t, "count_size")
    /\ Seen(caller[t].key, caller[t].val)
    /\ UNCHANGED <<chain_length, map_size>>

\* Where the key is there the caller gets a pointer to its value.
chm_put_if_absent_existing(t) ==
    /\ At(t, "put_if_absent") /\ bucket_lock = NoThread
    /\ LET n == Find(caller[t].key, Len(chain)) IN
       /\ n > 0
       /\ caller' = [Moved(t, "first_half") EXCEPT ![t].node = n]
    /\ UNCHANGED <<chain, bucket_lock, chain_length, map_size, held>>

\* chm_get reads the head, then one node and its next at a time, without the lock.
chm_get_head(t) ==
    /\ At(t, "get")
    /\ caller' = [Moved(t, IF chain = << >> THEN "answered" ELSE "walk")
                     EXCEPT ![t].node = Len(chain)]
    /\ UNCHANGED <<chain, bucket_lock, chain_length, map_size, held>>

chm_get_node(t) ==
    /\ At(t, "walk")
    /\ caller' = IF chain[caller[t].node].key = caller[t].key THEN Moved(t, "first_half")
                 ELSE [Moved(t, IF caller[t].node = 1 THEN "answered" ELSE "walk")
                         EXCEPT ![t].node = @ - 1]
    /\ UNCHANGED <<chain, bucket_lock, chain_length, map_size, held>>

\* The caller reads the value it has a pointer to; a writer may be in between.
ReadFirstHalf(t) ==
    /\ At(t, "first_half")
    /\ caller' = [Moved(t, "second_half") EXCEPT ![t].half = chain[caller[t].node].val[1]]
    /\ UNCHANGED <<chain, bucket_lock, chain_length, map_size, held>>

ReadSecondHalf(t) ==
    /\ At(t, "second_half")
    /\ caller' = [Moved(t, "answered") EXCEPT ![t].val = chain[caller[t].node].val[2]]
    /\ UNCHANGED <<chain, bucket_lock, chain_length, map_size, held>>

Return(t) ==
    /\ At(t, "answered")
    /\ caller' = Moved(t, "idle")
    /\ UNCHANGED <<chain, bucket_lock, chain_length, map_size, held>>

MapStep(t) ==
    \/ \E k \in Keys : \/ Call(t, "get", k, Absent)
                       \/ \E v \in MapValues, op \in {"put", "put_if_absent"} : Call(t, op, k, v)
    \/ chm_put_found(t) \/ Overwrite(t)
    \/ chm_put_new(t) \/ CountChain(t) \/ CountSize(t)
    \/ chm_put_if_absent_new(t) \/ chm_put_if_absent_existing(t)
    \/ chm_get_head(t) \/ chm_get_node(t) \/ ReadFirstHalf(t) \/ ReadSecondHalf(t)
    \/ Return(t)

MapNext == \E t \in MapThreads : MapStep(t)

MapSpec == MapInit /\ [][MapNext]_mapVars

-----------------------------------------------------------------------------
(* Properties                                                              *)

\* Threads that put and get one key at the same time agree on a map, although
\* readers take no lock:
\*  - a key has one node, however many threads found it absent at once;
\*  - a get that answers NULL began while the key was absent, and each byte of a
\*    value that is read was in a value the key had during the call (which may
\*    be two values, for a put that overwrites in the middle of the read);
\*  - when no writer is at work size counts the nodes, and chain_length no
\*    more (put_if_absent does not count there).
\* chm_get, chm_put and chm_put_if_absent, concurrent_hashmap.c:134-235.
MapIsRegular ==
    /\ \A i, j \in DOMAIN chain : chain[i].key = chain[j].key => i = j
    /\ \A t \in MapThreads : At(t, "answered") =>
          IF caller[t].node = 0 THEN Absent \in held[t]
          ELSE {caller[t].half, caller[t].val} \subseteq held[t]
    /\ bucket_lock = NoThread => map_size = Len(chain) /\ chain_length <= Len(chain)
=============================================================================
