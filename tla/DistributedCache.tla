--------------------------- MODULE DistributedCache ---------------------------
(***************************************************************************)
(* The cache of 07_DistributedCache.c (networking structures): nodes on a  *)
(* ring of hash values, each with VNODES points, and a key at the node     *)
(* whose point follows it.  Nodes are added while the cache is in use, and *)
(* the ring is rebuilt; entries stay where they are.  A node that is full  *)
(* evicts its oldest entry, by a clock that ticks once a second.  The hash *)
(* of a key and of a node's points is any; statistics are left out.        *)
(***************************************************************************)
EXTENDS Integers, Sequences, FiniteSets, SequencesExt

CONSTANTS
    CacheKeys,
    CacheValues,
    MAX_NODES,
    MAX_CACHE_SIZE,
    HASH_MODULO,
    VNODES,        \* 3 in the code
    MAX_SECONDS    \* bound

ASSUME CacheConstants ==
    /\ {MAX_NODES, MAX_CACHE_SIZE, HASH_MODULO, VNODES} \subseteq Nat \ {0}
    /\ MAX_SECONDS \in Nat

VARIABLES
    node_count,
    ring_nodes,   \* how many nodes the ring was built from
    entries,      \* of each node, in the order of its array
    seconds,      \* the clock
    key_hash, vnode_hash,  \* hash_key, chosen at the start
    last_set      \* auxiliary: the value each key was last set to

cacheVars == <<node_count, ring_nodes, entries, seconds, key_hash, vnode_hash, last_set>>

CacheNodes == 1 .. MAX_NODES

Hashes == 0 .. HASH_MODULO - 1

CacheEntry == [key : CacheKeys, value : CacheValues, timestamp : 0 .. MAX_SECONDS]

CacheTypeOK ==
    /\ node_count \in 0 .. MAX_NODES /\ ring_nodes \in 0 .. node_count
    /\ entries \in [CacheNodes -> Seq(CacheEntry)]
    /\ \A n \in CacheNodes : Len(entries[n]) <= MAX_CACHE_SIZE
    /\ seconds \in 0 .. MAX_SECONDS
    /\ key_hash \in [CacheKeys -> Hashes]
    /\ vnode_hash \in [CacheNodes \X (1 .. VNODES) -> Hashes]
    /\ last_set \in [CacheKeys -> SUBSET CacheValues]

\* cache_create
CacheInit ==
    /\ node_count = 0 /\ ring_nodes = 0
    /\ entries = [n \in CacheNodes |-> << >>]
    /\ seconds = 0
    /\ key_hash \in [CacheKeys -> Hashes]
    /\ vnode_hash \in [CacheNodes \X (1 .. VNODES) -> Hashes]
    /\ last_set = [k \in CacheKeys |-> {}]

-----------------------------------------------------------------------------

cache_add_node ==
    /\ node_count < MAX_NODES
    /\ node_count' = node_count + 1
    /\ UNCHANGED <<ring_nodes, entries, seconds, key_hash, vnode_hash, last_set>>

cache_build_hash_ring ==
    /\ ring_nodes' = node_count
    /\ UNCHANGED <<node_count, entries, seconds, key_hash, vnode_hash, last_set>>

\* How far a node's nearest point lies ahead of a hash on the ring.
Distance(n, h) == Min({(vnode_hash[<<n, v>>] - h + HASH_MODULO) % HASH_MODULO : v \in 1 .. VNODES})

cache_find_node_modulo(k) == 1 + (key_hash[k] % ring_nodes)

\* The nearest, the one added first where two are equally near.
cache_find_node(k) ==
    CHOOSE n \in 1 .. ring_nodes : \A m \in 1 .. ring_nodes :
        \/ Distance(n, key_hash[k]) < Distance(m, key_hash[k])
        \/ Distance(n, key_hash[k]) = Distance(m, key_hash[k]) /\ n <= m

Positions(n, k) == {i \in DOMAIN entries[n] : entries[n][i].key = k}

\* A hit refreshes the entry; a miss changes nothing.
cache_get(k) ==
    /\ ring_nodes > 0
    /\ LET n == cache_find_node(k) IN
       \E i \in Positions(n, k) :
           entries' = [entries EXCEPT ![n][i].timestamp = seconds]
    /\ UNCHANGED <<node_count, ring_nodes, seconds, key_hash, vnode_hash, last_set>>

\* The first of the oldest entries goes, where the node is full.
Evicted(es) ==
    IF Len(es) < MAX_CACHE_SIZE THEN es
    ELSE LET oldest == {i \in DOMAIN es : \A j \in DOMAIN es : es[i].timestamp <= es[j].timestamp}
         IN  RemoveAt(es, Min(oldest))

cache_set(k, v) ==
    /\ ring_nodes > 0
    /\ LET n == cache_find_node(k)
           entry == [key |-> k, value |-> v, timestamp |-> seconds]
       IN  entries' = [entries EXCEPT ![n] =
               IF Positions(n, k) # {}
               THEN [i \in DOMAIN @ |-> IF @[i].key = k THEN entry ELSE @[i]]
               ELSE Append(Evicted(@), entry)]
    /\ last_set' = [last_set EXCEPT ![k] = {v}]
    /\ UNCHANGED <<node_count, ring_nodes, seconds, key_hash, vnode_hash>>

Second ==
    /\ seconds < MAX_SECONDS
    /\ seconds' = seconds + 1
    /\ UNCHANGED <<node_count, ring_nodes, entries, key_hash, vnode_hash, last_set>>

CacheNext ==
    \/ cache_add_node \/ cache_build_hash_ring
    \/ \E k \in CacheKeys : cache_get(k) \/ \E v \in CacheValues : cache_set(k, v)
    \/ Second

CacheSpec == CacheInit /\ [][CacheNext]_cacheVars

-----------------------------------------------------------------------------
(* Properties                                                              *)

\* No get returns a value that a later set replaced, although nothing moves or
\* drops the entries of a key that the rebuilt ring gives to another node: a key
\* only ever moves to nodes that are new, so an old copy is not found again,
\* whatever the hash values and their ties.  A node holds a key once, whatever was
\* evicted.
\* cache_build_hash_ring, cache_find_node, cache_set, 07_DistributedCache.c:158-304.
NeverStale ==
    ring_nodes > 0 => \A k \in CacheKeys :
        LET found == Positions(cache_find_node(k), k)
        IN  /\ Cardinality(found) <= 1
            /\ \A i \in found : last_set[k] = {entries[cache_find_node(k)][i].value}
=============================================================================
