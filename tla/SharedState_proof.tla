-------------------------- MODULE SharedState_proof --------------------------
(***************************************************************************)
(* Proofs about caches and memory that several parties share.              *)
(* DistributedCache is never stale, for any nodes, points, hash values,    *)
(* keys and values.  Of JavaMachine: the counters, the publication and the *)
(* life of a thread for any number of threads, the heap of phase 1 and the *)
(* collector for any size, the messages on a stream for any messages and   *)
(* any buffer, and the bytecode of every method for any arguments.         *)
(***************************************************************************)
EXTENDS MCShared, Selection, SequenceTheorems, TLAPS

-----------------------------------------------------------------------------
(* The distributed cache                                                   *)

\* The distance and the search, with all they depend on as parameters.
RingDistance(vh, n, h) == Min({(vh[<<n, v>>] - h + HASH_MODULO) % HASH_MODULO : v \in 1 .. VNODES})

Nearest(vh, h, r, n) ==
    \A m \in 1 .. r :
        \/ RingDistance(vh, n, h) < RingDistance(vh, m, h)
        \/ RingDistance(vh, n, h) = RingDistance(vh, m, h) /\ n <= m

NodeFor(vh, h, r) == CHOOSE n \in 1 .. r : Nearest(vh, h, r, n)

LEMMA FindIs ==
    \A k : /\ cache_find_node(k) = NodeFor(vnode_hash, key_hash[k], ring_nodes)
           /\ cache_find_node(k)' = NodeFor(vnode_hash', key_hash'[k], ring_nodes')
BY DEF cache_find_node, Distance, NodeFor, Nearest, RingDistance

LEMMA DistanceIs ==
    ASSUME NEW vh \in [CacheNodes \X (1 .. VNODES) -> Hashes], NEW n \in CacheNodes, NEW h \in Hashes
    PROVE  RingDistance(vh, n, h) \in Nat
<1> DEFINE T == {(vh[<<n, v>>] - h + HASH_MODULO) % HASH_MODULO : v \in 1 .. VNODES}
<1>1. HASH_MODULO \in Nat \ {0} /\ VNODES \in Nat \ {0}
  BY CacheConstants
<1>2. ASSUME NEW v \in 1 .. VNODES PROVE (vh[<<n, v>>] - h + HASH_MODULO) % HASH_MODULO \in Nat
  <2>1. vh[<<n, v>>] \in 0 .. HASH_MODULO - 1 /\ h \in 0 .. HASH_MODULO - 1
    BY DEF Hashes
  <2>2. vh[<<n, v>>] - h + HASH_MODULO \in Nat
    BY <1>1, <2>1
  <2>3. \A x \in Nat, y \in Nat \ {0} : x % y \in Nat
    OBVIOUS
  <2> QED
    BY <1>1, <2>2, <2>3
<1>3. T \subseteq Nat
  BY <1>2
<1>4. 1 \in 1 .. VNODES
  BY <1>1
<1>5. T # {}
  BY <1>4
<1> HIDE DEF T
<1>6. \E x \in T : \A y \in T : x <= y
  BY <1>3, <1>5, Least
<1>7. Min(T) \in T
  BY <1>6 DEF Min
<1>8. RingDistance(vh, n, h) = Min(T)
  BY DEF RingDistance, T
<1> QED
  BY <1>3, <1>7, <1>8

\* There is a nearest node, and it is one node.
LEMMA NearestExists ==
    ASSUME NEW vh \in [CacheNodes \X (1 .. VNODES) -> Hashes], NEW h \in Hashes,
           NEW r \in CacheNodes
    PROVE  NodeFor(vh, h, r) \in 1 .. r /\ Nearest(vh, h, r, NodeFor(vh, h, r))
<1> DEFINE D(n) == RingDistance(vh, n, h)
           T == {D(n) : n \in 1 .. r}
<1>1. r \in Nat \ {0} /\ 1 \in 1 .. r /\ \A n \in 1 .. r : n \in CacheNodes /\ n \in Nat
  BY CacheConstants DEF CacheNodes
<1>2. \A n \in 1 .. r : D(n) \in Nat
  BY <1>1, DistanceIs
<1>3. \A n, m \in 1 .. r : D(n) \in Nat /\ D(m) \in Nat
  BY <1>2
<1> HIDE DEF D
<1>4. T \subseteq Nat /\ T # {}
  BY <1>1, <1>2
<1>5. PICK d \in T : \A x \in T : d <= x
  BY <1>4, Least
<1> DEFINE I == {n \in 1 .. r : D(n) = d}
<1>6. I \subseteq Nat /\ I # {}
  BY <1>1, <1>5
<1>7. PICK n \in I : \A m \in I : n <= m
  BY <1>6, Least
<1>8. ASSUME NEW m \in 1 .. r PROVE D(n) < D(m) \/ (D(n) = D(m) /\ n <= m)
  <2>1. D(n) = d /\ d <= D(m) /\ D(m) \in Nat /\ d \in Nat
    BY <1>2, <1>4, <1>5, <1>7
  <2>2. CASE D(m) = d
    <3>1. m \in I
      BY <2>2
    <3> QED
      BY <1>7, <2>1, <2>2, <3>1
  <2>3. CASE D(m) # d
    BY <2>1, <2>3
  <2> QED
    BY <2>2, <2>3
<1>9. n \in 1 .. r /\ Nearest(vh, h, r, n)
  BY <1>7, <1>8 DEF Nearest, D
<1> QED
  BY <1>9 DEF NodeFor

\* Where more nodes join the ring, a key stays or moves to one that joined.
LEMMA KeysMoveToNewNodes ==
    ASSUME NEW vh \in [CacheNodes \X (1 .. VNODES) -> Hashes], NEW h \in Hashes,
           NEW r \in CacheNodes, NEW q \in CacheNodes, r <= q
    PROVE  NodeFor(vh, h, q) = NodeFor(vh, h, r) \/ NodeFor(vh, h, q) > r
<1> DEFINE n == NodeFor(vh, h, r)
           m == NodeFor(vh, h, q)
<1>1. n \in 1 .. r /\ Nearest(vh, h, r, n) /\ m \in 1 .. q /\ Nearest(vh, h, q, m)
  BY NearestExists
<1> HIDE DEF n, m
<1>2. r \in Nat /\ q \in Nat /\ n \in Nat /\ m \in Nat
  BY <1>1 DEF CacheNodes
<1> SUFFICES ASSUME ~ (m > r) PROVE m = n
  BY DEF n, m
<1>3. m \in 1 .. r /\ n \in 1 .. q
  BY <1>1, <1>2
<1>4. \/ RingDistance(vh, n, h) < RingDistance(vh, m, h)
      \/ RingDistance(vh, n, h) = RingDistance(vh, m, h) /\ n <= m
  BY <1>1, <1>3 DEF Nearest
<1>5. \/ RingDistance(vh, m, h) < RingDistance(vh, n, h)
      \/ RingDistance(vh, m, h) = RingDistance(vh, n, h) /\ m <= n
  BY <1>1, <1>3 DEF Nearest
<1>6. n \in CacheNodes /\ m \in CacheNodes
  <2>1. MAX_NODES \in Nat /\ q <= MAX_NODES
    BY CacheConstants DEF CacheNodes
  <2> QED
    BY <1>1, <1>2, <1>3, <2>1 DEF CacheNodes
<1>7. RingDistance(vh, n, h) \in Nat /\ RingDistance(vh, m, h) \in Nat
  BY <1>6, DistanceIs
<1> QED
  BY <1>2, <1>4, <1>5, <1>7

\* No key is in the array es twice, and what it holds of k is the value in vs.
KeysOnce(es) == \A i, j \in 1 .. Len(es) : es[i].key = es[j].key => i = j
Current(es, k, vs) == \A i \in 1 .. Len(es) : es[i].key = k => vs = {es[i].value}

\* The array d has only entries of es, up to their time, each once.
KeepsOf(d, es) ==
    /\ d \in Seq(CacheEntry) /\ KeysOnce(d)
    /\ \A i \in 1 .. Len(d) : \E j \in 1 .. Len(es) :
           d[i].key = es[j].key /\ d[i].value = es[j].value

LEMMA KeptIsCurrent ==
    ASSUME NEW d, NEW es, KeepsOf(d, es), NEW k, NEW vs, Current(es, k, vs)
    PROVE  Current(d, k, vs)
BY DEF KeepsOf, Current

\* A hit refreshes one entry.
Touched(es, i, t) == [es EXCEPT ![i].timestamp = t]

LEMMA TouchedIs ==
    ASSUME NEW es \in Seq(CacheEntry), KeysOnce(es), NEW p \in 1 .. Len(es), NEW t \in 0 .. MAX_SECONDS
    PROVE  KeepsOf(Touched(es, p, t), es) /\ Len(Touched(es, p, t)) = Len(es)
<1> DEFINE d == Touched(es, p, t)
<1>1. Len(es) \in Nat /\ DOMAIN es = 1 .. Len(es) /\ \A i \in 1 .. Len(es) : es[i] \in CacheEntry
  BY LenProperties, ElementOfSeq
<1>2. d[p] = [es[p] EXCEPT !.timestamp = t] /\ \A i \in 1 .. Len(es) : i # p => d[i] = es[i]
  BY <1>1 DEF Touched
<1>3. d[p] \in CacheEntry /\ d[p].key = es[p].key /\ d[p].value = es[p].value
  BY <1>1, <1>2 DEF CacheEntry
<1>4. d = [i \in 1 .. Len(es) |-> d[i]]
  BY <1>1 DEF Touched
<1> HIDE DEF d
<1>5. \A i \in 1 .. Len(es) : d[i] \in CacheEntry /\ d[i].key = es[i].key /\ d[i].value = es[i].value
  BY <1>1, <1>2, <1>3
<1>6. d \in [1 .. Len(es) -> CacheEntry]
  BY <1>4, <1>5
<1>7. d \in Seq(CacheEntry) /\ Len(d) = Len(es)
  BY <1>1, <1>6
<1>8. KeepsOf(d, es)
  BY <1>5, <1>7 DEF KeepsOf, KeysOnce
<1> QED
  BY <1>7, <1>8 DEF d

\* There is room after an eviction.
LEMMA EvictedIs ==
    ASSUME NEW es \in Seq(CacheEntry), KeysOnce(es), Len(es) <= MAX_CACHE_SIZE
    PROVE  KeepsOf(Evicted(es), es) /\ Len(Evicted(es)) < MAX_CACHE_SIZE
<1>1. Len(es) \in Nat /\ DOMAIN es = 1 .. Len(es) /\ MAX_CACHE_SIZE \in Nat \ {0}
  BY LenProperties, CacheConstants
<1>2. CASE Len(es) < MAX_CACHE_SIZE
  <2>1. Evicted(es) = es
    BY <1>2 DEF Evicted
  <2> QED
    BY <1>2, <2>1 DEF KeepsOf
<1>3. CASE ~ (Len(es) < MAX_CACHE_SIZE)
  <2> DEFINE oldest == {i \in DOMAIN es : \A j \in DOMAIN es : es[i].timestamp <= es[j].timestamp}
             p == Min(oldest)
             d == RemoveAt(es, p)
  <2>1. Evicted(es) = d
    BY <1>3 DEF Evicted
  <2>2. p \in 1 .. Len(es)
    <3>1. \A i \in 1 .. Len(es) : es[i] \in CacheEntry
      BY ElementOfSeq
    <3>2. \A i \in 1 .. Len(es) : es[i].timestamp \in Nat
      BY <3>1, CacheConstants DEF CacheEntry
    <3> DEFINE T == {es[i].timestamp : i \in 1 .. Len(es)}
    <3>3. 1 \in 1 .. Len(es)
      BY <1>1, <1>3
    <3>4. T \subseteq Nat /\ T # {}
      BY <3>2, <3>3
    <3>5. PICK t \in T : \A x \in T : t <= x
      BY <3>4, Least
    <3>6. PICK i \in 1 .. Len(es) : es[i].timestamp = t
      BY <3>5
    <3>7. i \in oldest
      BY <1>1, <3>5, <3>6
    <3>8. oldest \subseteq Nat /\ oldest \subseteq 1 .. Len(es)
      BY <1>1
    <3> HIDE DEF oldest
    <3>9. \E x \in oldest : \A y \in oldest : x <= y
      BY <3>7, <3>8, Least
    <3>10. Min(oldest) \in oldest
      BY <3>9 DEF Min
    <3> QED
      BY <3>8, <3>10
  <2> HIDE DEF p
  <2>3. /\ d \in Seq(CacheEntry) /\ Len(d) = Len(es) - 1
        /\ \A i \in 1 .. Len(es) - 1 : d[i] = IF i < p THEN es[i] ELSE es[i + 1]
    BY <2>2, RemoveAtIs
  <2> HIDE DEF d
  <2> DEFINE old(i) == IF i < p THEN i ELSE i + 1
  <2>4. \A i \in 1 .. Len(d) : old(i) \in 1 .. Len(es) /\ d[i] = es[old(i)]
    BY <1>1, <2>2, <2>3
  <2>5. \A i, j \in 1 .. Len(d) : old(i) = old(j) => i = j
    BY <1>1, <2>2, <2>3
  <2> HIDE DEF old
  <2>6. KeysOnce(d)
    <3> SUFFICES ASSUME NEW i \in 1 .. Len(d), NEW j \in 1 .. Len(d), d[i].key = d[j].key
                 PROVE  i = j
      BY DEF KeysOnce
    <3>1. old(i) = old(j)
      BY <2>4 DEF KeysOnce
    <3> QED
      BY <2>5, <3>1
  <2>7. KeepsOf(d, es)
    BY <2>3, <2>4, <2>6 DEF KeepsOf
  <2>8. Len(d) < MAX_CACHE_SIZE
    BY <1>1, <2>3
  <2> QED
    BY <2>1, <2>7, <2>8
<1> QED
  BY <1>2, <1>3

\* What a set makes of the array of its node.
SetIn(es, k, e) ==
    IF {i \in DOMAIN es : es[i].key = k} # {}
    THEN [i \in DOMAIN es |-> IF es[i].key = k THEN e ELSE es[i]]
    ELSE Append(Evicted(es), e)

LEMMA SetInIs ==
    ASSUME NEW es \in Seq(CacheEntry), KeysOnce(es), Len(es) <= MAX_CACHE_SIZE,
           NEW e \in CacheEntry
    PROVE  /\ SetIn(es, e.key, e) \in Seq(CacheEntry) /\ KeysOnce(SetIn(es, e.key, e))
           /\ Len(SetIn(es, e.key, e)) <= MAX_CACHE_SIZE
           /\ Current(SetIn(es, e.key, e), e.key, {e.value})
           /\ \A k, vs : k # e.key /\ Current(es, k, vs) => Current(SetIn(es, e.key, e), k, vs)
<1> DEFINE d == SetIn(es, e.key, e)
<1>1. Len(es) \in Nat /\ DOMAIN es = 1 .. Len(es) /\ \A i \in 1 .. Len(es) : es[i] \in CacheEntry
  BY LenProperties, ElementOfSeq
<1>2. CASE \E i \in 1 .. Len(es) : es[i].key = e.key
  <2>1. d = [i \in 1 .. Len(es) |-> IF es[i].key = e.key THEN e ELSE es[i]]
    BY <1>1, <1>2 DEF SetIn
  <2> HIDE DEF d
  <2>2. d \in [1 .. Len(es) -> CacheEntry]
    BY <1>1, <2>1
  <2>3. d \in Seq(CacheEntry) /\ Len(d) = Len(es)
    BY <1>1, <2>2
  <2>4. \A i \in 1 .. Len(es) : d[i].key = es[i].key /\ d[i] = IF es[i].key = e.key THEN e ELSE es[i]
    BY <2>1
  <2>5. KeysOnce(d)
    BY <2>3, <2>4 DEF KeysOnce
  <2>6. Current(d, e.key, {e.value})
    BY <2>3, <2>4 DEF Current
  <2>7. \A k, vs : k # e.key /\ Current(es, k, vs) => Current(d, k, vs)
    BY <2>3, <2>4 DEF Current
  <2> QED
    BY <2>3, <2>5, <2>6, <2>7 DEF d
<1>3. CASE ~ \E i \in 1 .. Len(es) : es[i].key = e.key
  <2> DEFINE f == Evicted(es)
  <2>1. d = Append(f, e)
    BY <1>1, <1>3 DEF SetIn
  <2>2. KeepsOf(f, es) /\ Len(f) < MAX_CACHE_SIZE
    BY EvictedIs
  <2> HIDE DEF f
  <2>3. f \in Seq(CacheEntry) /\ Len(f) \in Nat
    BY <2>2, LenProperties DEF KeepsOf
  <2> HIDE DEF d
  <2>4. /\ d \in Seq(CacheEntry) /\ Len(d) = Len(f) + 1 /\ d[Len(f) + 1] = e
        /\ \A i \in 1 .. Len(f) : d[i] = f[i]
    BY <2>1, <2>3
  <2>5. \A i \in 1 .. Len(d) : i \in 1 .. Len(f) \/ i = Len(f) + 1
    BY <2>3, <2>4
  <2>6. \A i \in 1 .. Len(f) : f[i].key # e.key
    BY <1>3, <2>2 DEF KeepsOf
  <2>7. KeysOnce(f)
    BY <2>2 DEF KeepsOf
  <2>8. KeysOnce(d)
    <3> SUFFICES ASSUME NEW i \in 1 .. Len(d), NEW j \in 1 .. Len(d), d[i].key = d[j].key
                 PROVE  i = j
      BY DEF KeysOnce
    <3>1. CASE i \in 1 .. Len(f) /\ j \in 1 .. Len(f)
      BY <2>4, <2>7, <3>1 DEF KeysOnce
    <3>2. CASE i = Len(f) + 1 /\ j = Len(f) + 1
      BY <3>2
    <3>3. CASE i \in 1 .. Len(f) /\ j = Len(f) + 1
      BY <2>4, <2>6, <3>3
    <3>4. CASE i = Len(f) + 1 /\ j \in 1 .. Len(f)
      BY <2>4, <2>6, <3>4
    <3> QED
      BY <2>5, <3>1, <3>2, <3>3, <3>4
  <2>9. Current(d, e.key, {e.value})
    BY <2>4, <2>5, <2>6 DEF Current
  <2>10. ASSUME NEW k, NEW vs, k # e.key, Current(es, k, vs) PROVE Current(d, k, vs)
    <3>1. Current(f, k, vs)
      BY <2>2, <2>10, KeptIsCurrent
    <3> QED
      BY <2>4, <2>5, <2>10, <3>1 DEF Current
  <2>11. Len(d) <= MAX_CACHE_SIZE
    <3>1. MAX_CACHE_SIZE \in Nat
      BY CacheConstants
    <3> QED
      BY <2>2, <2>3, <2>4, <3>1
  <2> QED
    BY <2>4, <2>8, <2>9, <2>10, <2>11 DEF d
<1> QED
  BY <1>2, <1>3

\* A node that is not on the ring is empty, no node holds a key twice, and where a
\* key is looked for it has its last value.
CacheInv ==
    /\ CacheTypeOK
    /\ \A n \in CacheNodes : KeysOnce(entries[n]) /\ (n > ring_nodes => entries[n] = << >>)
    /\ ring_nodes > 0 => \A k \in CacheKeys : Current(entries[cache_find_node(k)], k, last_set[k])

LEMMA FindsNode ==
    ASSUME CacheInv, ring_nodes > 0, NEW k \in CacheKeys
    PROVE  /\ cache_find_node(k) \in CacheNodes /\ cache_find_node(k) \in 1 .. ring_nodes
           /\ ring_nodes \in CacheNodes /\ key_hash[k] \in Hashes
<1>1. /\ ring_nodes \in Nat /\ MAX_NODES \in Nat /\ ring_nodes <= MAX_NODES /\ key_hash[k] \in Hashes
      /\ vnode_hash \in [CacheNodes \X (1 .. VNODES) -> Hashes]
  BY CacheConstants DEF CacheInv, CacheTypeOK
<1>2. ring_nodes \in CacheNodes
  BY <1>1 DEF CacheNodes
<1>3. cache_find_node(k) \in 1 .. ring_nodes
  BY <1>1, <1>2, NearestExists, FindIs
<1> QED
  BY <1>1, <1>2, <1>3 DEF CacheNodes

LEMMA CacheInit_Inv == CacheInit => CacheInv
<1> SUFFICES ASSUME CacheInit PROVE CacheInv
  OBVIOUS
<1>1. /\ node_count = 0 /\ ring_nodes = 0 /\ seconds = 0
      /\ \A n \in CacheNodes : entries[n] = << >>
      /\ entries \in [CacheNodes -> Seq(CacheEntry)]
  BY DEF CacheInit
<1>2. CacheTypeOK
  BY <1>1, CacheConstants DEF CacheInit, CacheTypeOK
<1>3. KeysOnce(<< >>)
  BY DEF KeysOnce
<1> QED
  BY <1>1, <1>2, <1>3 DEF CacheInv

LEMMA AddStep ==
    ASSUME CacheInv, cache_add_node \/ Second \/ UNCHANGED cacheVars
    PROVE  CacheInv'
<1>1. /\ UNCHANGED <<ring_nodes, entries, key_hash, vnode_hash, last_set>>
      /\ node_count' \in 0 .. MAX_NODES /\ node_count <= node_count' /\ seconds' \in 0 .. MAX_SECONDS
  BY CacheConstants DEF CacheInv, CacheTypeOK, cache_add_node, Second, cacheVars
<1>2. \A k : cache_find_node(k)' = cache_find_node(k)
  BY <1>1, FindIs
<1>3. CacheTypeOK'
  BY <1>1, CacheConstants DEF CacheInv, CacheTypeOK
<1> QED
  BY <1>1, <1>2, <1>3 DEF CacheInv

LEMMA BuildStep ==
    ASSUME CacheInv, cache_build_hash_ring
    PROVE  CacheInv'
<1>1. /\ ring_nodes' = node_count
      /\ UNCHANGED <<node_count, entries, seconds, key_hash, vnode_hash, last_set>>
  BY DEF cache_build_hash_ring
<1>2. /\ ring_nodes \in Nat /\ node_count \in Nat /\ ring_nodes <= node_count
      /\ node_count <= MAX_NODES /\ MAX_NODES \in Nat
      /\ vnode_hash \in [CacheNodes \X (1 .. VNODES) -> Hashes]
      /\ key_hash \in [CacheKeys -> Hashes]
  BY CacheConstants DEF CacheInv, CacheTypeOK
<1>3. CacheTypeOK'
  BY <1>1, <1>2 DEF CacheInv, CacheTypeOK
<1>4. \A n \in CacheNodes : n > ring_nodes' => n > ring_nodes
  BY <1>1, <1>2 DEF CacheNodes
<1>5. ASSUME ring_nodes' > 0, NEW k \in CacheKeys
      PROVE  Current(entries[cache_find_node(k)'], k, last_set[k])
  <2> DEFINE n == cache_find_node(k)'
  <2>1. ring_nodes' \in CacheNodes /\ key_hash[k] \in Hashes
    BY <1>1, <1>2, <1>5 DEF CacheNodes
  <2>2. n = NodeFor(vnode_hash, key_hash[k], ring_nodes')
    BY <1>1, FindIs
  <2>3. n \in 1 .. ring_nodes' /\ n \in CacheNodes
    <3>1. n \in 1 .. ring_nodes'
      BY <1>2, <2>1, <2>2, NearestExists
    <3> QED
      BY <1>1, <1>2, <3>1 DEF CacheNodes
  <2>4. CASE ring_nodes > 0 /\ n = cache_find_node(k)
    BY <2>4 DEF CacheInv
  <2>5. CASE n > ring_nodes
    <3>1. entries[n] = << >>
      BY <2>3, <2>5 DEF CacheInv
    <3>2. Len(<< >>) = 0 /\ 1 .. 0 = {}
      OBVIOUS
    <3>3. Current(<< >>, k, last_set[k])
      BY <3>2 DEF Current
    <3>4. Current(entries[n], k, last_set[k])
      <4> HIDE DEF n
      <4> QED
        BY <3>1, <3>3
    <3> QED
      BY <3>4
  <2>6. (ring_nodes > 0 /\ n = cache_find_node(k)) \/ n > ring_nodes
    <3>1. CASE ring_nodes > 0
      <4>1. ring_nodes \in CacheNodes /\ ring_nodes <= ring_nodes'
        BY <1>1, <1>2, <3>1 DEF CacheNodes
      <4>2. cache_find_node(k) = NodeFor(vnode_hash, key_hash[k], ring_nodes)
        BY FindIs
      <4> HIDE DEF n
      <4> QED
        BY <1>2, <2>1, <2>2, <3>1, <4>1, <4>2, KeysMoveToNewNodes
    <3>2. CASE ~ (ring_nodes > 0)
      BY <1>1, <1>2, <2>3, <3>2
    <3> QED
      BY <3>1, <3>2
  <2> QED
    BY <2>4, <2>5, <2>6
<1>6. ring_nodes' > 0 => \A k \in CacheKeys : Current(entries'[cache_find_node(k)'], k, last_set'[k])
  BY <1>1, <1>5
<1>7. \A n \in CacheNodes : KeysOnce(entries'[n]) /\ (n > ring_nodes' => entries'[n] = << >>)
  BY <1>1, <1>4 DEF CacheInv
<1> QED
  BY <1>3, <1>6, <1>7 DEF CacheInv

\* A step at one node of the ring.
LEMMA NodeStep ==
    ASSUME CacheInv, NEW n \in CacheNodes, n <= ring_nodes, NEW d \in Seq(CacheEntry),
           KeysOnce(d), Len(d) <= MAX_CACHE_SIZE,
           entries' = [entries EXCEPT ![n] = d],
           last_set' \in [CacheKeys -> SUBSET CacheValues],
           UNCHANGED <<node_count, ring_nodes, seconds, key_hash, vnode_hash>>,
           \A k \in CacheKeys : Current(entries[cache_find_node(k)], k, last_set[k])
               => IF cache_find_node(k) = n THEN Current(d, k, last_set'[k])
                  ELSE last_set'[k] = last_set[k]
    PROVE  CacheInv'
<1>1. entries \in [CacheNodes -> Seq(CacheEntry)] /\ ring_nodes \in Nat /\ n \in Nat
  BY DEF CacheInv, CacheTypeOK, CacheNodes
<1>2. entries' \in [CacheNodes -> Seq(CacheEntry)]
  BY <1>1
<1>3. entries'[n] = d /\ \A m \in CacheNodes : m # n => entries'[m] = entries[m]
  BY <1>1
<1>4. CacheTypeOK'
  <2>1. \A m \in CacheNodes : Len(entries'[m]) <= MAX_CACHE_SIZE
    BY <1>3 DEF CacheInv, CacheTypeOK
  <2> QED
    BY <1>2, <2>1 DEF CacheInv, CacheTypeOK
<1>5. \A m \in CacheNodes : KeysOnce(entries'[m]) /\ (m > ring_nodes' => entries'[m] = << >>)
  <2> SUFFICES ASSUME NEW m \in CacheNodes
               PROVE  KeysOnce(entries'[m]) /\ (m > ring_nodes' => entries'[m] = << >>)
    OBVIOUS
  <2>1. CASE m = n
    BY <1>1, <1>3, <2>1
  <2>2. CASE m # n
    BY <1>3, <2>2 DEF CacheInv
  <2> QED
    BY <2>1, <2>2
<1>6. ASSUME ring_nodes' > 0, NEW k \in CacheKeys
      PROVE  Current(entries'[cache_find_node(k)'], k, last_set'[k])
  <2> DEFINE m == cache_find_node(k)
  <2>1. cache_find_node(k)' = m
    BY FindIs
  <2>2. ring_nodes > 0
    BY <1>6
  <2>3. m \in CacheNodes /\ Current(entries[m], k, last_set[k])
    BY <2>2, FindsNode DEF CacheInv
  <2>4. CASE m = n
    <3>1. Current(d, k, last_set'[k])
      BY <2>3, <2>4
    <3> QED
      BY <1>3, <2>1, <2>4, <3>1
  <2>5. CASE m # n
    <3>1. last_set'[k] = last_set[k] /\ entries'[m] = entries[m]
      BY <1>3, <2>3, <2>5
    <3> QED
      BY <2>1, <2>3, <3>1
  <2> QED
    BY <2>4, <2>5
<1> QED
  BY <1>4, <1>5, <1>6 DEF CacheInv

LEMMA GetStep ==
    ASSUME CacheInv, NEW k \in CacheKeys, cache_get(k)
    PROVE  CacheInv'
<1> DEFINE n == cache_find_node(k)
           es == entries[n]
<1>1. PICK i \in Positions(n, k) : entries' = [entries EXCEPT ![n][i].timestamp = seconds]
  BY DEF cache_get
<1>2. /\ ring_nodes > 0
      /\ UNCHANGED <<node_count, ring_nodes, seconds, key_hash, vnode_hash, last_set>>
  BY DEF cache_get
<1>3. n \in CacheNodes /\ n <= ring_nodes
  BY <1>2, FindsNode
<1> HIDE DEF n
<1>4. /\ es \in Seq(CacheEntry) /\ KeysOnce(es) /\ Len(es) <= MAX_CACHE_SIZE
      /\ seconds \in 0 .. MAX_SECONDS /\ last_set \in [CacheKeys -> SUBSET CacheValues]
  BY <1>3 DEF CacheInv, CacheTypeOK
<1>5. i \in 1 .. Len(es)
  BY <1>4, LenProperties DEF Positions
<1> DEFINE d == Touched(es, i, seconds)
<1>6. entries' = [entries EXCEPT ![n] = d]
  BY <1>1 DEF Touched
<1>7. KeepsOf(d, es) /\ Len(d) = Len(es)
  BY <1>4, <1>5, TouchedIs
<1> HIDE DEF d
<1>8. d \in Seq(CacheEntry) /\ KeysOnce(d) /\ Len(d) <= MAX_CACHE_SIZE
  BY <1>4, <1>7 DEF KeepsOf
<1>9. \A x \in CacheKeys : Current(entries[cache_find_node(x)], x, last_set[x])
          => IF cache_find_node(x) = n THEN Current(d, x, last_set'[x])
             ELSE last_set'[x] = last_set[x]
  BY <1>2, <1>7, KeptIsCurrent
<1> QED
  BY <1>2, <1>3, <1>4, <1>6, <1>8, <1>9, NodeStep

LEMMA SetStep ==
    ASSUME CacheInv, NEW k \in CacheKeys, NEW v \in CacheValues, cache_set(k, v)
    PROVE  CacheInv'
<1> DEFINE n == cache_find_node(k)
           es == entries[n]
           e == [key |-> k, value |-> v, timestamp |-> seconds]
           d == SetIn(es, k, e)
<1>1. /\ ring_nodes > 0 /\ entries' = [entries EXCEPT ![n] = d]
      /\ last_set' = [last_set EXCEPT ![k] = {v}]
      /\ UNCHANGED <<node_count, ring_nodes, seconds, key_hash, vnode_hash>>
  BY DEF cache_set, SetIn, Positions
<1>2. n \in CacheNodes /\ n <= ring_nodes
  BY <1>1, FindsNode
<1>3. /\ es \in Seq(CacheEntry) /\ KeysOnce(es) /\ Len(es) <= MAX_CACHE_SIZE
      /\ seconds \in 0 .. MAX_SECONDS /\ last_set \in [CacheKeys -> SUBSET CacheValues]
  BY <1>2 DEF CacheInv, CacheTypeOK
<1>4. e \in CacheEntry /\ e.key = k /\ e.value = v
  BY <1>3 DEF CacheEntry
<1> HIDE DEF n, es, e
<1>5. /\ d \in Seq(CacheEntry) /\ KeysOnce(d) /\ Len(d) <= MAX_CACHE_SIZE
      /\ Current(d, k, {v})
      /\ \A x, vs : x # k /\ Current(es, x, vs) => Current(d, x, vs)
  BY <1>3, <1>4, SetInIs
<1> HIDE DEF d
<1>6. /\ last_set' \in [CacheKeys -> SUBSET CacheValues] /\ last_set'[k] = {v}
      /\ \A x \in CacheKeys : x # k => last_set'[x] = last_set[x]
  BY <1>1, <1>3
<1>7. ASSUME NEW x \in CacheKeys, Current(entries[cache_find_node(x)], x, last_set[x])
      PROVE  IF cache_find_node(x) = n THEN Current(d, x, last_set'[x])
             ELSE last_set'[x] = last_set[x]
  <2>1. CASE x = k
    BY <1>5, <1>6, <2>1 DEF n
  <2>2. CASE x # k
    BY <1>5, <1>6, <1>7, <2>2 DEF es
  <2> QED
    BY <2>1, <2>2
<1> QED
  BY <1>1, <1>2, <1>5, <1>6, <1>7, NodeStep

LEMMA CacheStep == CacheInv /\ [CacheNext]_cacheVars => CacheInv'
<1> SUFFICES ASSUME CacheInv, [CacheNext]_cacheVars PROVE CacheInv'
  OBVIOUS
<1>1. CASE cache_add_node \/ Second \/ UNCHANGED cacheVars
  BY <1>1, AddStep
<1>2. CASE cache_build_hash_ring
  BY <1>2, BuildStep
<1>3. ASSUME NEW k \in CacheKeys, cache_get(k) PROVE CacheInv'
  BY <1>3, GetStep
<1>4. ASSUME NEW k \in CacheKeys, NEW v \in CacheValues, cache_set(k, v) PROVE CacheInv'
  BY <1>4, SetStep
<1> QED
  BY <1>1, <1>2, <1>3, <1>4 DEF CacheNext

LEMMA CacheInv_NeverStale == CacheInv => NeverStale
<1> SUFFICES ASSUME CacheInv, ring_nodes > 0, NEW k \in CacheKeys
             PROVE  LET found == Positions(cache_find_node(k), k)
                    IN  /\ Cardinality(found) <= 1
                        /\ \A i \in found : last_set[k] = {entries[cache_find_node(k)][i].value}
  BY DEF NeverStale
<1> DEFINE n == cache_find_node(k)
           es == entries[n]
           found == Positions(n, k)
<1>1. n \in CacheNodes
  BY FindsNode
<1>2. es \in Seq(CacheEntry) /\ KeysOnce(es) /\ Current(es, k, last_set[k])
  BY <1>1 DEF CacheInv, CacheTypeOK
<1>3. found = {i \in 1 .. Len(es) : es[i].key = k}
  BY <1>2, LenProperties DEF Positions
<1> HIDE DEF n, found
<1>4. \A i \in found : last_set[k] = {es[i].value}
  BY <1>2, <1>3 DEF Current
<1>5. Cardinality(found) <= 1
  <2>1. CASE found = {}
    <3>1. Cardinality(found) = 0
      BY <2>1, FS_EmptySet
    <3> QED
      BY <3>1
  <2>2. CASE found # {}
    <3>1. PICK i \in found : TRUE
      BY <2>2
    <3>2. found = {i}
      BY <1>2, <1>3, <3>1 DEF KeysOnce
    <3>3. Cardinality({i}) = 1
      BY FS_Singleton
    <3> QED
      BY <3>2, <3>3
  <2> QED
    BY <2>1, <2>2
<1> QED
  BY <1>4, <1>5 DEF n, found

\* Whatever the hash values, however often nodes are added and the ring is built
\* anew, and whatever is evicted, a get never returns a value that was replaced:
\* a key only moves to nodes that are new.  07_DistributedCache.c:158-304.
THEOREM CacheIsNeverStale == CacheSpec => [](CacheTypeOK /\ NeverStale)
<1>1. CacheInit => CacheInv
  BY CacheInit_Inv
<1>2. CacheInv /\ [CacheNext]_cacheVars => CacheInv'
  BY CacheStep
<1>3. CacheInv => CacheTypeOK /\ NeverStale
  BY CacheInv_NeverStale DEF CacheInv
<1> QED
  BY <1>1, <1>2, <1>3, PTL DEF CacheSpec

-----------------------------------------------------------------------------
(* The collector                                                           *)

\* Of a finite set of numbers, the ones below x.
Below(L, x) == {y \in L : y < x}

\* Every place below its size is the rank of a member.
LEMMA RankExists ==
    ASSUME NEW L, L \subseteq Nat, IsFiniteSet(L), NEW s \in Nat, s < Cardinality(L)
    PROVE  \E x \in L : Cardinality(Below(L, x)) = s
<1> DEFINE T == {n \in Nat : n < Cardinality(L) /\ ~ \E x \in L : Cardinality(Below(L, x)) = n}
<1> SUFFICES ASSUME T # {} PROVE FALSE
  OBVIOUS
<1>1. Cardinality(L) \in Nat /\ \A y \in L : y \in Nat
  BY FS_CardinalityType
<1>2. PICK n \in T : \A m \in T : n <= m
  BY Least
<1>3. CASE n = 0
  <2>1. L # {}
    BY <1>2, <1>3, FS_EmptySet
  <2>2. PICK x \in L : \A y \in L : x <= y
    BY <2>1, Least
  <2>3. Below(L, x) = {}
    <3>1. \A y \in L : ~ (y < x)
      BY <1>1, <2>2
    <3> QED
      BY <3>1 DEF Below
  <2>4. Cardinality(Below(L, x)) = 0
    BY <2>3, FS_EmptySet
  <2> QED
    BY <1>2, <1>3, <2>4
<1>4. CASE n # 0
  <2>1. n - 1 \in Nat /\ n - 1 < Cardinality(L) /\ n - 1 \notin T
    BY <1>1, <1>2, <1>4
  <2>2. PICK x \in L : Cardinality(Below(L, x)) = n - 1
    BY <2>1
  <2> DEFINE B == Below(L, x) \cup {x}
  <2>3. IsFiniteSet(Below(L, x)) /\ x \notin Below(L, x)
    <3>1. Below(L, x) \in SUBSET L
      BY DEF Below
    <3>2. IsFiniteSet(Below(L, x))
      BY <3>1, FS_Subset
    <3> QED
      BY <3>2 DEF Below
  <2>4. Cardinality(B) = n
    <3>1. n \in Nat
      BY <1>2
    <3>2. Cardinality(B) = Cardinality(Below(L, x)) + 1
      BY <2>3, FS_AddElement
    <3> QED
      BY <2>2, <3>1, <3>2
  <2>5. B # L
    <3>1. n \in Nat /\ n < Cardinality(L)
      BY <1>2
    <3> HIDE DEF B
    <3> QED
      BY <1>1, <2>4, <3>1
  <2> DEFINE A == {y \in L : x < y}
  <2>6. A # {} /\ A \subseteq Nat
    <3>1. \A y \in L : y \in B \/ y \in A
      BY <1>1 DEF Below
    <3>2. B \subseteq L
      BY DEF Below
    <3> HIDE DEF A, B
    <3>3. A # {}
      BY <2>5, <3>1, <3>2
    <3> QED
      BY <3>3 DEF A
  <2>7. PICK z \in A : \A y \in A : z <= y
    BY <2>6, Least
  <2>8. z \in L /\ x < z
    BY <2>7
  <2>9. \A y \in L : x < y => z <= y
    BY <2>7
  <2>10. Below(L, z) = B
    <3>1. \A y \in L : y < z <=> y < x \/ y = x
      BY <1>1, <2>8, <2>9
    <3> QED
      BY <3>1 DEF Below
  <2> QED
    BY <1>2, <2>4, <2>8, <2>10
<1> QED
  BY <1>3, <1>4

\* What marking has established: a black object's references are not white, nor are
\* the roots, and only what is reachable was coloured.
Marked ==
    /\ \A s \in Live : objects[s].gc_color = "BLACK" =>
           \A r \in objects[s].refs \cap Live : objects[r].gc_color # "WHITE"
    /\ \A s \in gc_roots \cap Live : objects[s].gc_color # "WHITE"
    /\ \A s \in Live : objects[s].gc_color # "WHITE" => s \in Reachable

HeapInv ==
    /\ HeapTypeOK
    /\ live_count = Cardinality(Live)
    /\ gc_phase # "compact" => Live = 0 .. live_count - 1
    /\ gc_phase \in {"mark", "sweep"} => Marked
    /\ gc_phase = "sweep" => \A s \in Live : objects[s].gc_color # "GRAY"

LEMMA LiveIsFinite ==
    ASSUME HeapTypeOK
    PROVE  /\ Live \subseteq HeapSlots /\ IsFiniteSet(Live) /\ Cardinality(Live) \in Nat
           /\ HeapSlots \subseteq Nat
<1>1. HEAP_CAPACITY \in Nat
  BY HeapConstants
<1>2. IsFiniteSet(HeapSlots) /\ HeapSlots \subseteq Nat
  <2>1. 0 \in Int /\ HEAP_CAPACITY - 1 \in Int
    BY <1>1
  <2> QED
    BY <1>1, <2>1, FS_Interval DEF HeapSlots
<1>3. Live \in SUBSET HeapSlots
  BY DEF Live
<1> QED
  BY <1>2, <1>3, FS_Subset, FS_CardinalityType

\* Colours do not matter to what is reachable.
LEMMA SameReachable ==
    ASSUME Live' = Live, gc_roots' = gc_roots, \A s \in Live : objects'[s].refs = objects[s].refs
    PROVE  Reachable' = Reachable
<1>1. \A S \in SUBSET Live : IsClosed(S)' <=> IsClosed(S)
  BY DEF IsClosed
<1> QED
  BY <1>1 DEF Reachable

\* What a reachable object refers to is reachable.
LEMMA ReachableIsClosed ==
    /\ gc_roots \cap Live \subseteq Reachable
    /\ \A s \in Reachable : objects[s].refs \cap Live \subseteq Reachable
BY DEF Reachable, IsClosed

LEMMA HeapInit_Inv == HeapInit => HeapInv
<1> SUFFICES ASSUME HeapInit PROVE HeapInv
  OBVIOUS
<1>1. /\ objects = [s \in HeapSlots |-> [free |-> TRUE, gc_color |-> "WHITE", refs |-> {}, ref_count |-> 0]]
      /\ live_count = 0 /\ gc_roots = {} /\ gc_root_count = 0 /\ gc_phase = "app"
  BY DEF HeapInit
<1>2. Live = {}
  BY <1>1 DEF Live
<1>3. HeapTypeOK
  BY <1>1 DEF HeapTypeOK, HeapObject, Colours
<1>4. Cardinality(Live) = 0 /\ Live = 0 .. live_count - 1
  BY <1>1, <1>2, FS_EmptySet
<1> QED
  BY <1>1, <1>3, <1>4 DEF HeapInv

LEMMA AllocStep ==
    ASSUME HeapInv, heap_alloc
    PROVE  HeapInv'
<1> DEFINE new == [free |-> FALSE, gc_color |-> "WHITE", refs |-> {}, ref_count |-> 0]
<1>1. PICK s \in HeapSlots \ Live : 0 .. s - 1 \subseteq Live /\ objects' = [objects EXCEPT ![s] = new]
  BY DEF heap_alloc
<1>2. /\ gc_phase = "app" /\ gc_phase' = "app" /\ live_count' = live_count + 1
      /\ gc_roots' = gc_roots /\ gc_root_count' = gc_root_count
  BY DEF heap_alloc
<1>3. new \in HeapObject /\ ~ new.free
  BY DEF HeapObject, Colours
<1> HIDE DEF new
<1>4. HeapTypeOK'
  BY <1>1, <1>2, <1>3 DEF HeapInv, HeapTypeOK
<1>5. Live' = Live \cup {s}
  BY <1>1, <1>3 DEF Live, HeapInv, HeapTypeOK
<1>6. live_count \in Nat /\ live_count = Cardinality(Live) /\ IsFiniteSet(Live) /\ s \in Nat
  BY <1>1, LiveIsFinite DEF HeapInv
<1>7. Cardinality(Live') = live_count'
  BY <1>1, <1>2, <1>5, <1>6, FS_AddElement
<1>8. s = live_count
  <2>1. Live = 0 .. live_count - 1
    BY <1>2 DEF HeapInv
  <2>2. ~ (s <= live_count - 1)
    <3>1. s \in Nat /\ s \notin 0 .. live_count - 1
      BY <1>1, <1>6, <2>1
    <3> QED
      BY <1>6, <3>1
  <2>3. ~ (live_count <= s - 1)
    <3> SUFFICES ASSUME live_count <= s - 1 PROVE FALSE
      OBVIOUS
    <3>1. live_count \in 0 .. s - 1
      BY <1>6
    <3>2. live_count \in 0 .. live_count - 1
      BY <1>1, <2>1, <3>1
    <3> QED
      BY <1>6, <3>2
  <2> QED
    BY <1>6, <2>2, <2>3
<1>9. Live' = 0 .. live_count' - 1
  <2>1. Live = 0 .. live_count - 1
    BY <1>2 DEF HeapInv
  <2>2. (0 .. live_count - 1) \cup {live_count} = 0 .. (live_count + 1) - 1
    BY <1>6
  <2> QED
    BY <1>2, <1>5, <1>8, <2>1, <2>2
<1> QED
  BY <1>2, <1>4, <1>7, <1>9 DEF HeapInv

\* References and roots change no object's place.
RefersTo(o, to) == [o EXCEPT !.refs = o.refs \cup {to}, !.ref_count = o.ref_count + 1]

LEMMA LinkedIs ==
    ASSUME NEW o \in HeapObject, NEW to \in HeapSlots
    PROVE  RefersTo(o, to) \in HeapObject /\ RefersTo(o, to).free = o.free
<1> DEFINE p == [o EXCEPT !.refs = o.refs \cup {to}]
<1>1. o.ref_count + 1 \in Nat /\ o.refs \cup {to} \in SUBSET HeapSlots
  BY DEF HeapObject
<1>2. p \in HeapObject /\ p.free = o.free
  BY <1>1 DEF HeapObject
<1>3. RefersTo(o, to) = [p EXCEPT !.ref_count = o.ref_count + 1]
  BY DEF RefersTo
<1> HIDE DEF p
<1> QED
  BY <1>1, <1>2, <1>3 DEF HeapObject

LEMMA RefStep ==
    ASSUME HeapInv, NEW from \in HeapSlots, NEW to \in HeapSlots, heap_add_ref(from, to)
    PROVE  HeapInv'
<1> DEFINE o == RefersTo(objects[from], to)
<1>1. /\ gc_phase = "app" /\ gc_phase' = "app" /\ live_count' = live_count
      /\ gc_roots' = gc_roots /\ gc_root_count' = gc_root_count
  BY DEF heap_add_ref
<1>2. objects \in [HeapSlots -> HeapObject]
  BY DEF HeapInv, HeapTypeOK
<1>3. objects' = [objects EXCEPT ![from] = o]
  BY <1>2 DEF heap_add_ref, RefersTo
<1>4. o \in HeapObject /\ o.free = objects[from].free
  BY <1>2, LinkedIs
<1> HIDE DEF o
<1>5. HeapTypeOK'
  BY <1>1, <1>2, <1>3, <1>4 DEF HeapInv, HeapTypeOK
<1>6. Live' = Live
  BY <1>2, <1>3, <1>4 DEF Live
<1> QED
  BY <1>1, <1>5, <1>6 DEF HeapInv

LEMMA RootStep ==
    ASSUME HeapInv, NEW s \in HeapSlots, gc_add_root(s)
    PROVE  HeapInv'
<1>1. /\ gc_phase = "app" /\ gc_phase' = "app" /\ live_count' = live_count
      /\ objects' = objects /\ gc_roots' = gc_roots \cup {s} /\ gc_root_count' = gc_root_count + 1
  BY DEF gc_add_root
<1>2. Live' = Live
  BY <1>1 DEF Live
<1>3. HeapTypeOK'
  BY <1>1 DEF HeapInv, HeapTypeOK
<1> QED
  BY <1>1, <1>2, <1>3 DEF HeapInv

LEMMA StutterStep ==
    ASSUME HeapInv, UNCHANGED heapVars
    PROVE  HeapInv'
<1>1. /\ objects' = objects /\ live_count' = live_count /\ gc_roots' = gc_roots
      /\ gc_root_count' = gc_root_count /\ gc_phase' = gc_phase
  BY DEF heapVars
<1>2. Live' = Live
  BY <1>1 DEF Live
<1>3. Reachable' = Reachable
  BY <1>1, <1>2, SameReachable
<1>4. HeapTypeOK'
  BY <1>1 DEF HeapInv, HeapTypeOK
<1>5. Marked' <=> Marked
  BY <1>1, <1>2, <1>3 DEF Marked
<1> QED
  BY <1>1, <1>2, <1>4, <1>5 DEF HeapInv

\* A step that only changes colours.
Recoloured ==
    /\ objects' \in [HeapSlots -> HeapObject]
    /\ \A s \in HeapSlots : objects'[s].free = objects[s].free /\ objects'[s].refs = objects[s].refs
    /\ live_count' = live_count /\ gc_roots' = gc_roots /\ gc_root_count' = gc_root_count

LEMMA RecolouredIs ==
    ASSUME HeapInv, Recoloured, gc_phase' = "mark", gc_phase # "compact"
    PROVE  /\ Live' = Live /\ Reachable' = Reachable
           /\ Marked' => HeapInv'
<1>1. Live' = Live
  BY DEF Live, Recoloured
<1>2. Reachable' = Reachable
  BY <1>1, SameReachable DEF Recoloured, Live
<1>3. HeapTypeOK'
  BY DEF HeapInv, HeapTypeOK, Recoloured
<1>4. live_count' = Cardinality(Live') /\ Live' = 0 .. live_count' - 1
  BY <1>1 DEF HeapInv, Recoloured
<1> QED
  BY <1>1, <1>2, <1>3, <1>4 DEF HeapInv

Painted(o, colour) == [o EXCEPT !.gc_color = colour]

LEMMA PaintedIs ==
    ASSUME NEW o \in HeapObject, NEW colour \in Colours
    PROVE  /\ Painted(o, colour) \in HeapObject /\ Painted(o, colour).gc_color = colour
           /\ Painted(o, colour).free = o.free /\ Painted(o, colour).refs = o.refs
BY DEF Painted, HeapObject

LEMMA MarkStep ==
    ASSUME HeapInv, gc_mark
    PROVE  HeapInv'
<1>1. /\ gc_phase = "app" /\ gc_phase' = "mark"
      /\ live_count' = live_count /\ gc_roots' = gc_roots /\ gc_root_count' = gc_root_count
      /\ objects' = [s \in HeapSlots |->
            IF s \notin Live THEN objects[s]
            ELSE Painted(objects[s], IF s \in gc_roots THEN "GRAY" ELSE "WHITE")]
  BY DEF gc_mark, Painted
<1>2. objects \in [HeapSlots -> HeapObject] /\ {"GRAY", "WHITE"} \subseteq Colours
  BY DEF HeapInv, HeapTypeOK, Colours
<1>3. ASSUME NEW s \in HeapSlots
      PROVE  /\ objects'[s] \in HeapObject
             /\ objects'[s].free = objects[s].free /\ objects'[s].refs = objects[s].refs
             /\ s \in Live => objects'[s].gc_color = IF s \in gc_roots THEN "GRAY" ELSE "WHITE"
  <2>1. CASE s \notin Live
    BY <1>1, <1>2, <2>1
  <2>2. CASE s \in Live /\ s \in gc_roots
    BY <1>1, <1>2, <2>2, PaintedIs
  <2>3. CASE s \in Live /\ s \notin gc_roots
    BY <1>1, <1>2, <2>3, PaintedIs
  <2> QED
    BY <2>1, <2>2, <2>3
<1>4. objects' = [s \in HeapSlots |-> objects'[s]]
  BY <1>1
<1>5. objects' \in [HeapSlots -> HeapObject]
  BY <1>3, <1>4
<1>6. Recoloured
  BY <1>1, <1>3, <1>5 DEF Recoloured
<1>7. Live' = Live /\ Reachable' = Reachable /\ (Marked' => HeapInv')
  BY <1>1, <1>6, RecolouredIs
<1>8. Live \subseteq HeapSlots
  BY DEF Live
<1>9. \A s \in Live : objects'[s].gc_color = IF s \in gc_roots THEN "GRAY" ELSE "WHITE"
  BY <1>3, <1>8
<1>10. Marked'
  <2>1. \A s \in Live : objects'[s].gc_color # "BLACK"
    BY <1>9
  <2>2. \A s \in gc_roots \cap Live : objects'[s].gc_color # "WHITE"
    BY <1>9
  <2>3. \A s \in Live : objects'[s].gc_color # "WHITE" => s \in Reachable
    BY <1>9, ReachableIsClosed
  <2> QED
    BY <1>1, <1>7, <2>1, <2>2, <2>3 DEF Marked
<1> QED
  BY <1>7, <1>10

LEMMA ScanStep ==
    ASSUME HeapInv, NEW s \in HeapSlots, Scan(s)
    PROVE  HeapInv'
<1>1. /\ gc_phase = "mark" /\ gc_phase' = "mark" /\ s \in Live /\ objects[s].gc_color = "GRAY"
      /\ live_count' = live_count /\ gc_roots' = gc_roots /\ gc_root_count' = gc_root_count
      /\ objects' = [x \in HeapSlots |->
            IF x = s THEN Painted(objects[x], "BLACK")
            ELSE IF x \in objects[s].refs /\ Coloured(x, "WHITE") THEN Painted(objects[x], "GRAY")
            ELSE objects[x]]
  BY DEF Scan, Painted, Coloured
<1>2. objects \in [HeapSlots -> HeapObject] /\ {"GRAY", "BLACK"} \subseteq Colours
  BY DEF HeapInv, HeapTypeOK, Colours
<1>3. ASSUME NEW x \in HeapSlots
      PROVE  /\ objects'[x] \in HeapObject
             /\ objects'[x].free = objects[x].free /\ objects'[x].refs = objects[x].refs
             /\ x = s => objects'[x].gc_color = "BLACK"
             /\ x # s /\ x \in objects[s].refs /\ Coloured(x, "WHITE") => objects'[x].gc_color = "GRAY"
             /\ x # s /\ ~ (x \in objects[s].refs /\ Coloured(x, "WHITE"))
                  => objects'[x].gc_color = objects[x].gc_color
  <2>1. CASE x = s
    BY <1>1, <1>2, <2>1, PaintedIs
  <2>2. CASE x # s /\ x \in objects[s].refs /\ Coloured(x, "WHITE")
    BY <1>1, <1>2, <2>2, PaintedIs
  <2>3. CASE x # s /\ ~ (x \in objects[s].refs /\ Coloured(x, "WHITE"))
    BY <1>1, <1>2, <2>3
  <2> QED
    BY <2>1, <2>2, <2>3
<1>4. objects' = [x \in HeapSlots |-> objects'[x]]
  BY <1>1
<1>5. objects' \in [HeapSlots -> HeapObject]
  BY <1>3, <1>4
<1>6. Recoloured
  BY <1>1, <1>3, <1>5 DEF Recoloured
<1>7. Live' = Live /\ Reachable' = Reachable /\ (Marked' => HeapInv')
  BY <1>1, <1>6, RecolouredIs
<1>8. Marked
  BY <1>1 DEF HeapInv
<1>9. Live \subseteq HeapSlots
  BY DEF Live
<1>10. \A x \in Live : objects[x].gc_color # "WHITE" => objects'[x].gc_color # "WHITE"
  BY <1>3, <1>9 DEF Coloured
<1>11. ASSUME NEW x \in Live, objects'[x].gc_color = "BLACK", NEW r \in objects[x].refs \cap Live
       PROVE  objects'[r].gc_color # "WHITE"
  <2>1. CASE x = s
    <3>1. CASE objects[r].gc_color = "WHITE" /\ r # s
      <4>1. Coloured(r, "WHITE")
        BY <3>1 DEF Coloured
      <4> QED
        BY <1>3, <1>9, <1>11, <2>1, <3>1, <4>1
    <3>2. CASE objects[r].gc_color # "WHITE"
      BY <1>10, <3>2
    <3>3. CASE r = s
      BY <1>3, <3>3
    <3> QED
      BY <3>1, <3>2, <3>3
  <2>2. CASE x # s
    <3>1. objects[x].gc_color = "BLACK"
      BY <1>3, <1>9, <1>11, <2>2
    <3>2. objects[r].gc_color # "WHITE"
      BY <1>8, <3>1 DEF Marked
    <3> QED
      BY <1>10, <3>2
  <2> QED
    BY <2>1, <2>2
<1>12. \A x \in gc_roots \cap Live : objects'[x].gc_color # "WHITE"
  BY <1>8, <1>10 DEF Marked
<1>13. ASSUME NEW x \in Live, objects'[x].gc_color # "WHITE" PROVE x \in Reachable
  <2>1. s \in Reachable
    BY <1>1, <1>8 DEF Marked
  <2>2. CASE x = s \/ objects[x].gc_color # "WHITE"
    BY <1>8, <2>1, <2>2 DEF Marked
  <2>3. CASE x # s /\ objects[x].gc_color = "WHITE"
    <3>1. x \in objects[s].refs
      BY <1>3, <1>9, <1>13, <2>3
    <3> QED
      BY <2>1, <3>1, ReachableIsClosed
  <2> QED
    BY <2>2, <2>3
<1>14. Marked'
  <2>1. \A x \in Live : objects'[x].refs = objects[x].refs
    BY <1>3, <1>9
  <2> QED
    BY <1>1, <1>7, <1>11, <1>12, <1>13, <2>1 DEF Marked
<1> QED
  BY <1>7, <1>14

LEMMA CompleteStep ==
    ASSUME HeapInv, MarkComplete
    PROVE  HeapInv'
<1>1. /\ gc_phase = "mark" /\ gc_phase' = "sweep"
      /\ objects' = objects /\ live_count' = live_count /\ gc_roots' = gc_roots
      /\ gc_root_count' = gc_root_count /\ \A s \in HeapSlots : ~ Coloured(s, "GRAY")
  BY DEF MarkComplete
<1>2. Live' = Live
  BY <1>1 DEF Live
<1>3. Reachable' = Reachable
  BY <1>1, <1>2, SameReachable
<1>4. HeapTypeOK'
  BY <1>1 DEF HeapInv, HeapTypeOK
<1>5. Marked'
  BY <1>1, <1>2, <1>3 DEF HeapInv, Marked
<1>6. \A s \in Live : objects[s].gc_color # "GRAY"
  BY <1>1 DEF Live, Coloured
<1> QED
  BY <1>1, <1>2, <1>4, <1>5, <1>6 DEF HeapInv

LEMMA SweepStep ==
    ASSUME HeapInv, gc_sweep
    PROVE  HeapInv'
<1> DEFINE W == {s \in HeapSlots : Coloured(s, "WHITE")}
           Freed(o) == [o EXCEPT !.free = TRUE]
<1>1. /\ gc_phase' = "compact" /\ live_count' = live_count - Cardinality(W)
      /\ gc_roots' = gc_roots /\ gc_root_count' = gc_root_count
      /\ objects' = [s \in HeapSlots |->
            IF s \notin Live THEN objects[s]
            ELSE IF Coloured(s, "WHITE") THEN Freed(objects[s])
            ELSE Painted(objects[s], "WHITE")]
  BY DEF gc_sweep, Painted
<1>2. /\ objects \in [HeapSlots -> HeapObject] /\ "WHITE" \in Colours
      /\ live_count = Cardinality(Live) /\ IsFiniteSet(Live) /\ Cardinality(Live) \in Nat
      /\ gc_roots \subseteq HeapSlots /\ gc_root_count \in Nat
  BY LiveIsFinite DEF HeapInv, HeapTypeOK, Colours
<1>3. \A o \in HeapObject : Freed(o) \in HeapObject /\ Freed(o).free
  BY DEF HeapObject
<1> HIDE DEF Freed
<1>4. ASSUME NEW s \in HeapSlots
      PROVE  objects'[s] \in HeapObject /\ (objects'[s].free <=> s \notin Live \/ s \in W)
  <2>1. CASE s \notin Live
    BY <1>1, <1>2, <2>1 DEF Live
  <2>2. CASE s \in Live /\ Coloured(s, "WHITE")
    BY <1>1, <1>2, <1>3, <2>2
  <2>3. CASE s \in Live /\ ~ Coloured(s, "WHITE")
    <3>1. objects'[s] \in HeapObject /\ objects'[s].free = objects[s].free
      BY <1>1, <1>2, <2>3, PaintedIs
    <3> QED
      BY <2>3, <3>1 DEF Live
  <2> QED
    BY <2>1, <2>2, <2>3
<1>5. objects' = [s \in HeapSlots |-> objects'[s]]
  BY <1>1
<1>6. objects' \in [HeapSlots -> HeapObject]
  BY <1>4, <1>5
<1>7. Live' = Live \ W /\ W \in SUBSET Live
  BY <1>4 DEF Live, Coloured
<1> HIDE DEF W
<1>8. /\ IsFiniteSet(W) /\ Live \cap W = W
      /\ Cardinality(Live \ W) = Cardinality(Live) - Cardinality(Live \cap W)
  BY <1>2, <1>7, FS_Subset, FS_Difference
<1>9. live_count' = Cardinality(Live')
  BY <1>1, <1>2, <1>7, <1>8
<1>10. Cardinality(W) \in Nat
  BY <1>8, FS_CardinalityType
<1>11. HeapTypeOK'
  BY <1>1, <1>2, <1>6, <1>10 DEF HeapTypeOK
<1> QED
  BY <1>1, <1>9, <1>11 DEF HeapInv

LEMMA CompactStep ==
    ASSUME HeapInv, gc_compact
    PROVE  HeapInv'
<1> DEFINE Nth(s) == CHOOSE x \in Live : Cardinality({y \in Live : y < x}) = s
           Freed(o) == [o EXCEPT !.free = TRUE]
<1>1. /\ gc_phase' = "app" /\ live_count' = live_count
      /\ gc_roots' = gc_roots /\ gc_root_count' = gc_root_count
      /\ objects' = [s \in HeapSlots |-> IF s < Cardinality(Live) THEN objects[Nth(s)] ELSE Freed(objects[s])]
  BY DEF gc_compact
<1>2. /\ objects \in [HeapSlots -> HeapObject] /\ gc_roots \subseteq HeapSlots /\ gc_root_count \in Nat
      /\ live_count = Cardinality(Live) /\ IsFiniteSet(Live) /\ Cardinality(Live) \in Nat
      /\ Live \subseteq HeapSlots /\ HeapSlots \subseteq Nat
  BY LiveIsFinite DEF HeapInv, HeapTypeOK
<1>3. ASSUME NEW s \in Nat, s < Cardinality(Live) PROVE Nth(s) \in Live
  <2>1. \E x \in Live : Cardinality({y \in Live : y < x}) = s
    BY <1>2, <1>3, RankExists DEF Below
  <2> QED
    BY <2>1
<1>4. \A o \in HeapObject : Freed(o) \in HeapObject /\ Freed(o).free
  BY DEF HeapObject
<1> HIDE DEF Nth, Freed
<1>5. ASSUME NEW s \in HeapSlots
      PROVE  objects'[s] \in HeapObject /\ (objects'[s].free <=> ~ (s < Cardinality(Live)))
  <2>1. CASE s < Cardinality(Live)
    <3>1. Nth(s) \in Live /\ objects'[s] = objects[Nth(s)]
      BY <1>1, <1>2, <1>3, <2>1
    <3>2. ~ objects[Nth(s)].free /\ Nth(s) \in HeapSlots
      BY <3>1 DEF Live
    <3> QED
      BY <1>2, <2>1, <3>1, <3>2
  <2>2. CASE ~ (s < Cardinality(Live))
    BY <1>1, <1>2, <1>4, <2>2
  <2> QED
    BY <2>1, <2>2
<1>6. objects' = [s \in HeapSlots |-> objects'[s]]
  BY <1>1
<1>7. objects' \in [HeapSlots -> HeapObject]
  BY <1>5, <1>6
<1>8. Cardinality(Live) <= HEAP_CAPACITY
  <2>1. 0 \in Int /\ HEAP_CAPACITY - 1 \in Int /\ HEAP_CAPACITY \in Nat
    BY HeapConstants
  <2>2. IsFiniteSet(HeapSlots) /\ Cardinality(HeapSlots) = HEAP_CAPACITY
    BY <2>1, FS_Interval DEF HeapSlots
  <2> QED
    BY <1>2, <2>2, FS_Subset
<1>9. Live' = 0 .. live_count' - 1
  <2>1. Live' = {s \in HeapSlots : s < Cardinality(Live)}
    BY <1>5 DEF Live
  <2>2. HEAP_CAPACITY \in Nat
    BY HeapConstants
  <2> QED
    BY <1>1, <1>2, <1>8, <2>1, <2>2 DEF HeapSlots
<1>10. Cardinality(Live') = live_count'
  <2>1. live_count' \in Nat /\ 0 \in Int /\ live_count' - 1 \in Int
    BY <1>1, <1>2
  <2> QED
    BY <1>9, <2>1, FS_Interval
<1>11. HeapTypeOK'
  BY <1>1, <1>2, <1>7 DEF HeapTypeOK
<1> QED
  BY <1>1, <1>9, <1>10, <1>11 DEF HeapInv

LEMMA HeapStep == HeapInv /\ [HeapNext]_heapVars => HeapInv'
<1> SUFFICES ASSUME HeapInv, [HeapNext]_heapVars PROVE HeapInv'
  OBVIOUS
<1>1. CASE heap_alloc
  BY <1>1, AllocStep
<1>2. ASSUME NEW s \in HeapSlots, NEW to \in HeapSlots, heap_add_ref(s, to) PROVE HeapInv'
  BY <1>2, RefStep
<1>3. ASSUME NEW s \in HeapSlots, gc_add_root(s) PROVE HeapInv'
  BY <1>3, RootStep
<1>4. ASSUME NEW s \in HeapSlots, Scan(s) PROVE HeapInv'
  BY <1>4, ScanStep
<1>5. CASE gc_mark
  BY <1>5, MarkStep
<1>6. CASE MarkComplete
  BY <1>6, CompleteStep
<1>7. CASE gc_sweep
  BY <1>7, SweepStep
<1>8. CASE gc_compact
  BY <1>8, CompactStep
<1>9. CASE UNCHANGED heapVars
  BY <1>9, StutterStep
<1> QED
  BY <1>1, <1>2, <1>3, <1>4, <1>5, <1>6, <1>7, <1>8, <1>9 DEF HeapNext

\* What is not white when nothing is grey any more is closed, so it is all that is
\* reachable.
LEMMA HeapInv_Collects == HeapInv => CollectsGarbageOnly
<1> SUFFICES ASSUME HeapInv PROVE CollectsGarbageOnly
  OBVIOUS
<1>1. ASSUME gc_phase = "sweep", NEW s \in Live
      PROVE  objects[s].gc_color = (IF s \in Reachable THEN "BLACK" ELSE "WHITE")
  <2> DEFINE B == {x \in Live : objects[x].gc_color = "BLACK"}
  <2>1. Marked
    BY <1>1 DEF HeapInv
  <2>2. \A x \in Live : objects[x].gc_color \in {"WHITE", "BLACK"}
    BY <1>1 DEF HeapInv, HeapTypeOK, HeapObject, Live, Colours
  <2>3. \A x \in Live : objects[x].gc_color # "WHITE" => x \in B
    BY <2>2
  <2>4. IsClosed(B)
    <3>1. gc_roots \cap Live \subseteq B
      BY <2>1, <2>3 DEF Marked
    <3>2. \A x \in B : objects[x].refs \cap Live \subseteq B
      BY <2>1, <2>3 DEF Marked
    <3> QED
      BY <3>1, <3>2 DEF IsClosed
  <2>5. Reachable \subseteq B
    BY <2>4 DEF Reachable
  <2>6. B \subseteq Reachable
    BY <2>1 DEF Marked
  <2> QED
    BY <2>2, <2>5, <2>6
<1>2. live_count = Cardinality(Live) /\ (gc_phase = "app" => Live = 0 .. live_count - 1)
  BY DEF HeapInv
<1> QED
  BY <1>1, <1>2 DEF CollectsGarbageOnly

\* Whatever the program linked, and in whatever order the grey objects are scanned,
\* the sweep frees just what no path of references leads to, the count of live
\* objects is right, and the program finds them without a gap.
\* mark_sweep.c:195-327.
THEOREM CollectorIsExact == HeapSpec => [](HeapTypeOK /\ CollectsGarbageOnly)
<1>1. HeapInit => HeapInv
  BY HeapInit_Inv
<1>2. HeapInv /\ [HeapNext]_heapVars => HeapInv'
  BY HeapStep
<1>3. HeapInv => HeapTypeOK /\ CollectsGarbageOnly
  BY HeapInv_Collects DEF HeapInv
<1> QED
  BY <1>1, <1>2, <1>3, PTL DEF HeapSpec

-----------------------------------------------------------------------------
(* Publication                                                             *)

\* No location is stored to twice, so a view says of each whether the first or the
\* second value is the oldest that may still be loaded.
View == [Locations -> {1, 2}]

StoredValue == [value : Nat, view : View]

SharerPlaces == {"start", "lock", "check", "fill", "publish", "unlock", "use", "done"}

SharerState == [at : SharerPlaces, inst : Locations, got : Nat]

ShareTypeOK ==
    /\ demo \in {"flag", "singleton"}
    /\ memory \in [Locations -> Seq(StoredValue)]
    /\ \A l \in Locations : Len(memory[l]) \in {1, 2}
    /\ seen \in [Sharers -> View]
    /\ mutex \in [holder : Locations, view : View]
    /\ sharer \in [Sharers -> SharerState]

Published == Len(memory[0]) = 2

Instance == memory[0][2].value

\* A value is stored by a thread that is about to publish it, or has published it;
\* what is published carries the view of it.
MemoryFits ==
    /\ \A l \in Locations : memory[l][1].value = 0
    /\ Published => /\ Instance \in Sharers /\ Len(memory[Instance]) = 2
                    /\ memory[0][2].view[Instance] = 2
    /\ \A l \in Sharers : Len(memory[l]) = 2 =>
           /\ memory[l][2].value = FILLED
           /\ (Published /\ Instance = l) \/ StandsAt(l, "publish")

\* The mutex hands on that something is published.
MutexFits ==
    demo = "singleton" /\ Published =>
        IF mutex.holder = 0 THEN mutex.view[0] = 2 ELSE seen[mutex.holder][0] = 2

Critical == {"check", "fill", "publish", "unlock"}

\* What a thread knows where it stands.
SharerFits(t) ==
    /\ demo = "flag" => sharer[t].at \in IF t = 1 THEN {"start", "publish", "done"}
                                         ELSE {"start", "use", "done"}
    /\ demo = "flag" /\ t = 1 /\ StandsAt(t, "start") => ~ Published
    /\ demo = "singleton" /\ sharer[t].at \in Critical => mutex.holder = t
    /\ StandsAt(t, "fill") => ~ Published
    /\ StandsAt(t, "publish") => ~ Published /\ Len(memory[t]) = 2 /\ seen[t][t] = 2
    /\ sharer[t].at \in {"unlock", "use", "done"} => Published /\ sharer[t].inst = Instance
    /\ sharer[t].at \in {"unlock", "use"} => seen[t][Instance] = 2
    /\ StandsAt(t, "done") /\ ~ (demo = "flag" /\ t = 1) => sharer[t].got = FILLED

ShareInv == ShareTypeOK /\ MemoryFits /\ MutexFits /\ \A t \in Sharers : SharerFits(t)

LEMMA SharersAre ==
    /\ 1 \in Sharers /\ 0 \notin Sharers /\ 0 \in Locations
    /\ \A t \in Sharers : t \in Nat /\ t \in Locations
    /\ \A l \in Locations : l \in Nat /\ (l = 0 \/ l \in Sharers)
<1>1. Cardinality(Sharers) \in Nat /\ Sharers = 1 .. Cardinality(Sharers) /\ 1 \in Sharers
  BY SharerConstants, FS_CardinalityType
<1> QED
  BY <1>1 DEF Locations

\* Changing one field of one thread.
SetAt(sh, t, x)   == [sh EXCEPT ![t].at = x]
SetInst(sh, t, x) == [sh EXCEPT ![t].inst = x]
SetGot(sh, t, x)  == [sh EXCEPT ![t].got = x]

LEMMA SetAtIs ==
    ASSUME NEW sh \in [Sharers -> SharerState], NEW t \in Sharers, NEW x \in SharerPlaces
    PROVE  /\ SetAt(sh, t, x) \in [Sharers -> SharerState]
           /\ SetAt(sh, t, x)[t].at = x
           /\ SetAt(sh, t, x)[t].inst = sh[t].inst /\ SetAt(sh, t, x)[t].got = sh[t].got
           /\ \A u \in Sharers : u # t => SetAt(sh, t, x)[u] = sh[u]
BY DEF SetAt, SharerState

LEMMA SetInstIs ==
    ASSUME NEW sh \in [Sharers -> SharerState], NEW t \in Sharers, NEW x \in Locations
    PROVE  /\ SetInst(sh, t, x) \in [Sharers -> SharerState]
           /\ SetInst(sh, t, x)[t].inst = x
           /\ SetInst(sh, t, x)[t].at = sh[t].at /\ SetInst(sh, t, x)[t].got = sh[t].got
           /\ \A u \in Sharers : u # t => SetInst(sh, t, x)[u] = sh[u]
BY DEF SetInst, SharerState

LEMMA SetGotIs ==
    ASSUME NEW sh \in [Sharers -> SharerState], NEW t \in Sharers, NEW x \in Nat
    PROVE  /\ SetGot(sh, t, x) \in [Sharers -> SharerState]
           /\ SetGot(sh, t, x)[t].got = x
           /\ SetGot(sh, t, x)[t].at = sh[t].at /\ SetGot(sh, t, x)[t].inst = sh[t].inst
           /\ \A u \in Sharers : u # t => SetGot(sh, t, x)[u] = sh[u]
BY DEF SetGot, SharerState

\* A view that is joined loses nothing.
LEMMA JoinedIs ==
    ASSUME NEW u \in View, NEW v \in View
    PROVE  /\ Joined(u, v) \in View
           /\ \A l \in Locations : Joined(u, v)[l] = 2 <=> u[l] = 2 \/ v[l] = 2
<1>1. ASSUME NEW l \in Locations
      PROVE  /\ Max({u[l], v[l]}) \in {1, 2}
             /\ Max({u[l], v[l]}) = 2 <=> u[l] = 2 \/ v[l] = 2
  <2>1. u[l] \in {1, 2} /\ v[l] \in {1, 2}
    BY DEF View
  <2>2. Max({1}) = 1 /\ Max({2}) = 2 /\ Max({1, 2}) = 2
    BY DEF Max
  <2>3. {u[l], v[l]} = {1} \/ {u[l], v[l]} = {2} \/ {u[l], v[l]} = {1, 2}
    BY <2>1
  <2>4. CASE {u[l], v[l]} = {1}
    BY <2>2, <2>4
  <2>5. CASE {u[l], v[l]} = {2}
    BY <2>2, <2>5
  <2>6. CASE {u[l], v[l]} = {1, 2}
    BY <2>1, <2>2, <2>6
  <2> QED
    BY <2>3, <2>4, <2>5, <2>6
<1> QED
  BY <1>1 DEF Joined, View

\* A load with acquire keeps what was seen, and adds what was released.
LEMMA AcquireIs ==
    ASSUME ShareInv, NEW t \in Sharers, NEW l \in Locations, NEW i \in Loadable(t, l)
    PROVE  /\ i \in 1 .. Len(memory[l]) /\ i \in {1, 2} /\ (seen[t][l] = 2 => i = 2)
           /\ memory[l][i] \in StoredValue
           /\ AcquireView(t, l, i) \in View
           /\ \A x \in Locations : seen[t][x] = 2 \/ memory[l][i].view[x] = 2 \/ (x = l /\ i = 2)
                                       => AcquireView(t, l, i)[x] = 2
<1> DEFINE view_now == [seen[t] EXCEPT ![l] = i]
           w   == memory[l][i].view
<1>1. /\ seen[t] \in View /\ seen[t][l] \in {1, 2} /\ memory[l] \in Seq(StoredValue)
      /\ Len(memory[l]) \in {1, 2}
  BY DEF ShareInv, ShareTypeOK, View
<1>2. i \in 1 .. Len(memory[l]) /\ i \in {1, 2} /\ (seen[t][l] = 2 => i = 2)
  <2> DEFINE n == Len(memory[l])
             m == seen[t][l]
  <2>1. i \in m .. n
    BY DEF Loadable
  <2>2. m \in {1, 2} /\ n \in {1, 2}
    BY <1>1
  <2> HIDE DEF n, m
  <2>3. i \in 1 .. n /\ i \in {1, 2} /\ (m = 2 => i = 2)
    BY <2>1, <2>2
  <2> QED
    BY <2>3 DEF n, m
<1>3. memory[l][i] \in StoredValue
  BY <1>1, <1>2, ElementOfSeq
<1>4. w \in View
  BY <1>3 DEF StoredValue
<1>5. view_now \in View /\ view_now[l] = i /\ \A x \in Locations : x # l => view_now[x] = seen[t][x]
  BY <1>1, <1>2 DEF View
<1>6. AcquireView(t, l, i) = Joined(view_now, w)
  BY DEF AcquireView
<1> HIDE DEF view_now, w
<1>7. Joined(view_now, w) \in View /\ \A x \in Locations : Joined(view_now, w)[x] = 2 <=> view_now[x] = 2 \/ w[x] = 2
  BY <1>4, <1>5, JoinedIs
<1> QED
  BY <1>2, <1>3, <1>5, <1>6, <1>7 DEF w

\* What is found behind the flag.
LEMMA LoadIs ==
    ASSUME ShareInv, NEW t \in Sharers, NEW i \in Loadable(t, 0)
    PROVE  /\ memory[0][i].value = NULL_INST => i = 1
           /\ memory[0][i].value # NULL_INST =>
                  /\ Published /\ memory[0][i].value = Instance /\ Instance \in Sharers
                  /\ AcquireView(t, 0, i)[Instance] = 2
           /\ memory[0][i].value \in Locations
<1>1. 0 \in Locations /\ \A x \in Sharers : x # 0 /\ x \in Locations
  BY SharersAre
<1>2. i \in 1 .. Len(memory[0]) /\ i \in {1, 2} /\ Len(memory[0]) \in {1, 2}
  BY <1>1, AcquireIs DEF ShareInv, ShareTypeOK
<1>3. CASE i = 1
  BY <1>1, <1>3 DEF ShareInv, MemoryFits, NULL_INST
<1>4. CASE i = 2
  <2>1. Published
    <3> DEFINE n == Len(memory[0])
    <3>1. 2 \in 1 .. n /\ n \in {1, 2}
      BY <1>2, <1>4
    <3> HIDE DEF n
    <3>2. n = 2
      BY <3>1
    <3> QED
      BY <3>2 DEF n, Published
  <2>2. Instance \in Sharers /\ memory[0][i].value = Instance /\ memory[0][i].view[Instance] = 2
    BY <1>4, <2>1 DEF ShareInv, MemoryFits, Instance
  <2>3. AcquireView(t, 0, i)[Instance] = 2
    BY <1>1, <2>2, AcquireIs
  <2> QED
    BY <1>1, <2>1, <2>2, <2>3 DEF NULL_INST
<1> QED
  BY <1>2, <1>3, <1>4

\* A step of one thread that stores nothing.
Reading(t) ==
    /\ demo' = demo /\ memory' = memory
    /\ seen' \in [Sharers -> View]
    /\ \A u \in Sharers, x \in Locations : seen[u][x] = 2 => seen'[u][x] = 2
    /\ sharer' \in [Sharers -> SharerState]
    /\ \A u \in Sharers : u # t => sharer'[u] = sharer[u]
    /\ mutex' \in [holder : Locations, view : View]
    /\ ~ StandsAt(t, "publish")

LEMMA ReadingStep ==
    ASSUME ShareInv, NEW t \in Sharers, Reading(t), SharerFits(t)', MutexFits',
           \A u \in Sharers : u # t /\ mutex.holder = u /\ demo = "singleton" => mutex'.holder = u
    PROVE  ShareInv'
<1>1. Published' = Published /\ Instance' = Instance
  BY DEF Published, Instance, Reading
<1>2. ShareTypeOK'
  BY DEF ShareInv, ShareTypeOK, Reading
<1>3. MemoryFits'
  <2>1. ASSUME NEW l \in Sharers, Len(memory[l]) = 2
        PROVE  /\ memory[l][2].value = FILLED
               /\ (Published /\ Instance = l) \/ StandsAt(l, "publish")'
    <3>1. /\ memory[l][2].value = FILLED
          /\ (Published /\ Instance = l) \/ StandsAt(l, "publish")
      BY <2>1 DEF ShareInv, MemoryFits
    <3>2. StandsAt(l, "publish") => StandsAt(l, "publish")'
      BY DEF Reading, StandsAt
    <3> QED
      BY <3>1, <3>2
  <2> QED
    BY <1>1, <2>1 DEF ShareInv, MemoryFits, Reading
<1>4. ASSUME NEW u \in Sharers, u # t PROVE SharerFits(u)'
  <2>1. SharerFits(u) /\ sharer'[u] = sharer[u] /\ memory' = memory /\ demo' = demo
    BY <1>4 DEF ShareInv, Reading
  <2>2. seen[u][u] = 2 => seen'[u][u] = 2
    BY SharersAre DEF Reading
  <2>3. Published => (seen[u][Instance] = 2 => seen'[u][Instance] = 2)
    BY SharersAre DEF Reading, ShareInv, MemoryFits
  <2>4. demo = "singleton" /\ mutex.holder = u => mutex'.holder = u
    BY <1>4
  <2> QED
    BY <1>1, <2>1, <2>2, <2>3, <2>4 DEF SharerFits, StandsAt
<1> QED
  BY <1>2, <1>3, <1>4 DEF ShareInv

\* The oldest that t may load is what it has seen, and more.
SeenBy(t, a) == [seen EXCEPT ![t] = a]

LEMMA SeenByIs ==
    ASSUME ShareInv, NEW t \in Sharers, NEW a \in View,
           \A x \in Locations : seen[t][x] = 2 => a[x] = 2
    PROVE  /\ SeenBy(t, a) \in [Sharers -> View] /\ SeenBy(t, a)[t] = a
           /\ \A u \in Sharers : u # t => SeenBy(t, a)[u] = seen[u]
           /\ \A u \in Sharers, x \in Locations : seen[u][x] = 2 => SeenBy(t, a)[u][x] = 2
<1>1. seen \in [Sharers -> View]
  BY DEF ShareInv, ShareTypeOK
<1> QED
  BY <1>1 DEF SeenBy

\* While nobody touches the mutex, what its holder has seen stays seen.
LEMMA MutexStays ==
    ASSUME ShareInv, NEW t \in Sharers, Reading(t), mutex' = mutex
    PROVE  MutexFits'
<1>1. Published' = Published /\ demo' = demo
  BY DEF Published, Reading
<1>2. mutex.holder \in Locations
  BY DEF ShareInv, ShareTypeOK
<1>3. mutex.holder # 0 => (seen[mutex.holder][0] = 2 => seen'[mutex.holder][0] = 2)
  BY <1>2, SharersAre DEF Reading
<1> QED
  BY <1>1, <1>3 DEF ShareInv, MutexFits

LEMMA FirstCheckStep ==
    ASSUME ShareInv, NEW t \in Sharers, first_check(t)
    PROVE  ShareInv'
<1>1. PICK i \in Loadable(t, 0) :
          /\ seen' = [seen EXCEPT ![t] = AcquireView(t, 0, i)]
          /\ sharer' = [sharer EXCEPT ![t].inst = memory[0][i].value,
                           ![t].at = IF memory[0][i].value # NULL_INST THEN "use"
                                     ELSE IF demo = "flag" THEN "start" ELSE "lock"]
  BY DEF first_check
<1> DEFINE inst == memory[0][i].value
           a  == AcquireView(t, 0, i)
           to == IF inst # NULL_INST THEN "use" ELSE IF demo = "flag" THEN "start" ELSE "lock"
           sh == SetInst(sharer, t, inst)
<1>2. /\ StandsAt(t, "start") /\ (demo = "flag" => t # 1)
      /\ demo' = demo /\ memory' = memory /\ mutex' = mutex
  BY DEF first_check
<1>3. /\ inst = NULL_INST => i = 1
      /\ inst # NULL_INST => Published /\ inst = Instance /\ Instance \in Sharers /\ a[Instance] = 2
      /\ inst \in Locations
  BY LoadIs
<1>4. a \in View /\ \A x \in Locations : seen[t][x] = 2 => a[x] = 2
  BY SharersAre, AcquireIs
<1>5. seen' = SeenBy(t, a) /\ sharer' = SetAt(sh, t, to)
  BY <1>1 DEF SeenBy, SetAt, SetInst
<1>6. to \in SharerPlaces /\ sharer \in [Sharers -> SharerState]
  BY DEF SharerPlaces, ShareInv, ShareTypeOK
<1> HIDE DEF a
<1>7. /\ seen' \in [Sharers -> View] /\ seen'[t] = a
      /\ \A u \in Sharers, x \in Locations : seen[u][x] = 2 => seen'[u][x] = 2
  BY <1>4, <1>5, SeenByIs
<1>8. /\ sh \in [Sharers -> SharerState] /\ sh[t].inst = inst /\ sh[t].at = sharer[t].at
      /\ \A u \in Sharers : u # t => sh[u] = sharer[u]
  BY <1>3, <1>6, SetInstIs
<1> HIDE DEF sh
<1>9. /\ sharer' \in [Sharers -> SharerState] /\ sharer'[t].at = to /\ sharer'[t].inst = inst
      /\ \A u \in Sharers : u # t => sharer'[u] = sharer[u]
  BY <1>5, <1>6, <1>8, SetAtIs
<1>10. Reading(t)
  BY <1>2, <1>7, <1>9 DEF Reading, StandsAt, ShareInv, ShareTypeOK
<1>11. Published' = Published /\ Instance' = Instance
  BY <1>2 DEF Published, Instance
<1>12. SharerFits(t)'
  <2>1. CASE inst # NULL_INST
    <3>1. sharer'[t].at = "use" /\ Published' /\ sharer'[t].inst = Instance' /\ seen'[t][Instance'] = 2
      BY <1>3, <1>7, <1>9, <1>11, <2>1
    <3> QED
      BY <1>2, <3>1 DEF SharerFits, StandsAt, Critical
  <2>2. CASE inst = NULL_INST
    <3>1. sharer'[t].at = IF demo = "flag" THEN "start" ELSE "lock"
      BY <1>9, <2>2
    <3> QED
      BY <1>2, <3>1 DEF SharerFits, StandsAt, Critical
  <2> QED
    BY <2>1, <2>2
<1> QED
  BY <1>2, <1>10, <1>12, ReadingStep, MutexStays

LEMMA SecondCheckStep ==
    ASSUME ShareInv, NEW t \in Sharers, second_check(t)
    PROVE  ShareInv'
<1>1. PICK i \in Loadable(t, 0) :
          /\ seen' = [seen EXCEPT ![t] = AcquireView(t, 0, i)]
          /\ sharer' = [sharer EXCEPT ![t].inst = memory[0][i].value,
                           ![t].at = IF memory[0][i].value = NULL_INST THEN "fill" ELSE "unlock"]
  BY DEF second_check
<1> DEFINE inst == memory[0][i].value
           a  == AcquireView(t, 0, i)
           to == IF inst = NULL_INST THEN "fill" ELSE "unlock"
           sh == SetInst(sharer, t, inst)
<1>2. /\ StandsAt(t, "check") /\ demo' = demo /\ memory' = memory /\ mutex' = mutex
  BY DEF second_check
<1>3. /\ inst = NULL_INST => i = 1
      /\ inst # NULL_INST => Published /\ inst = Instance /\ Instance \in Sharers /\ a[Instance] = 2
      /\ inst \in Locations
  BY LoadIs
<1>4. a \in View /\ \A x \in Locations : seen[t][x] = 2 => a[x] = 2
  BY SharersAre, AcquireIs
<1>5. seen' = SeenBy(t, a) /\ sharer' = SetAt(sh, t, to)
  BY <1>1 DEF SeenBy, SetAt, SetInst
<1>6. to \in SharerPlaces /\ sharer \in [Sharers -> SharerState]
  BY DEF SharerPlaces, ShareInv, ShareTypeOK
<1> HIDE DEF a
<1>7. /\ seen' \in [Sharers -> View] /\ seen'[t] = a
      /\ \A u \in Sharers, x \in Locations : seen[u][x] = 2 => seen'[u][x] = 2
  BY <1>4, <1>5, SeenByIs
<1>8. /\ sh \in [Sharers -> SharerState] /\ sh[t].inst = inst /\ sh[t].at = sharer[t].at
      /\ \A u \in Sharers : u # t => sh[u] = sharer[u]
  BY <1>3, <1>6, SetInstIs
<1> HIDE DEF sh
<1>9. /\ sharer' \in [Sharers -> SharerState] /\ sharer'[t].at = to /\ sharer'[t].inst = inst
      /\ \A u \in Sharers : u # t => sharer'[u] = sharer[u]
  BY <1>5, <1>6, <1>8, SetAtIs
<1>10. Reading(t)
  BY <1>2, <1>7, <1>9 DEF Reading, StandsAt, ShareInv, ShareTypeOK
<1>11. Published' = Published /\ Instance' = Instance
  BY <1>2 DEF Published, Instance
<1>12. demo = "singleton" /\ mutex.holder = t
  BY <1>2 DEF ShareInv, ShareTypeOK, SharerFits, StandsAt, Critical
<1>13. inst = NULL_INST => ~ Published
  <2> SUFFICES ASSUME inst = NULL_INST, Published PROVE FALSE
    OBVIOUS
  <2>1. seen[t][0] = 2
    BY <1>12, SharersAre DEF ShareInv, MutexFits
  <2>2. i = 2
    BY <2>1, SharersAre, AcquireIs
  <2> QED
    BY <1>3, <2>2
<1>14. SharerFits(t)'
  <2>1. CASE inst # NULL_INST
    <3>1. sharer'[t].at = "unlock" /\ Published' /\ sharer'[t].inst = Instance' /\ seen'[t][Instance'] = 2
      BY <1>3, <1>7, <1>9, <1>11, <2>1
    <3> QED
      BY <1>2, <1>12, <3>1 DEF SharerFits, StandsAt, Critical
  <2>2. CASE inst = NULL_INST
    <3>1. sharer'[t].at = "fill" /\ ~ Published'
      BY <1>9, <1>11, <1>13, <2>2
    <3> QED
      BY <1>2, <1>12, <3>1 DEF SharerFits, StandsAt, Critical
  <2> QED
    BY <2>1, <2>2
<1> QED
  BY <1>2, <1>10, <1>14, ReadingStep, MutexStays

LEMMA LockStep ==
    ASSUME ShareInv, NEW t \in Sharers, lock(t)
    PROVE  ShareInv'
<1> DEFINE a == Joined(seen[t], mutex.view)
<1>1. /\ StandsAt(t, "lock") /\ mutex.holder = 0 /\ demo' = demo /\ memory' = memory
      /\ mutex' = [mutex EXCEPT !.holder = t]
      /\ seen' = SeenBy(t, a) /\ sharer' = SetAt(sharer, t, "check")
  BY DEF lock, Goes, SeenBy, SetAt
<1>2. demo = "singleton"
  BY <1>1 DEF ShareInv, ShareTypeOK, SharerFits, StandsAt
<1>3. /\ seen[t] \in View /\ mutex \in [holder : Locations, view : View] /\ t \in Locations /\ t # 0
      /\ 0 \in Locations
  BY SharersAre DEF ShareInv, ShareTypeOK
<1>4. /\ a \in View
      /\ \A x \in Locations : a[x] = 2 <=> seen[t][x] = 2 \/ mutex.view[x] = 2
  BY <1>3, JoinedIs
<1> HIDE DEF a
<1>5. /\ seen' \in [Sharers -> View] /\ seen'[t] = a
      /\ \A u \in Sharers, x \in Locations : seen[u][x] = 2 => seen'[u][x] = 2
  BY <1>1, <1>4, SeenByIs
<1>6. /\ sharer' \in [Sharers -> SharerState] /\ sharer'[t].at = "check"
      /\ \A u \in Sharers : u # t => sharer'[u] = sharer[u]
  BY <1>1, SetAtIs DEF ShareInv, ShareTypeOK, SharerPlaces
<1>7. mutex' \in [holder : Locations, view : View] /\ mutex'.holder = t
  BY <1>1, <1>3
<1>8. Reading(t)
  BY <1>1, <1>5, <1>6, <1>7 DEF Reading, StandsAt
<1>9. MutexFits'
  <2>1. Published => a[0] = 2
    BY <1>1, <1>2, <1>3, <1>4 DEF ShareInv, MutexFits
  <2> QED
    BY <1>1, <1>3, <1>5, <1>7, <2>1 DEF MutexFits, Published
<1>10. SharerFits(t)'
  BY <1>1, <1>2, <1>6, <1>7 DEF SharerFits, StandsAt, Critical
<1> QED
  BY <1>1, <1>3, <1>8, <1>9, <1>10, ReadingStep, SharersAre

LEMMA UnlockStep ==
    ASSUME ShareInv, NEW t \in Sharers, unlock(t)
    PROVE  ShareInv'
<1>1. /\ StandsAt(t, "unlock") /\ demo' = demo /\ memory' = memory /\ seen' = seen
      /\ mutex' = [holder |-> 0, view |-> seen[t]]
      /\ sharer' = SetAt(sharer, t, "use")
  BY DEF unlock, Goes, SetAt
<1>2. /\ demo = "singleton" /\ mutex.holder = t /\ Published
      /\ sharer[t].inst = Instance /\ seen[t][Instance] = 2
  BY <1>1 DEF ShareInv, ShareTypeOK, SharerFits, StandsAt, Critical
<1>3. seen \in [Sharers -> View] /\ seen[t] \in View /\ 0 \in Locations /\ t # 0
  BY SharersAre DEF ShareInv, ShareTypeOK
<1>4. /\ sharer' \in [Sharers -> SharerState] /\ sharer'[t].at = "use"
      /\ sharer'[t].inst = sharer[t].inst
      /\ \A u \in Sharers : u # t => sharer'[u] = sharer[u]
  BY <1>1, SetAtIs DEF ShareInv, ShareTypeOK, SharerPlaces
<1>5. mutex' \in [holder : Locations, view : View] /\ mutex'.holder = 0 /\ mutex'.view = seen[t]
  BY <1>1, <1>3
<1>6. Reading(t)
  BY <1>1, <1>3, <1>4, <1>5 DEF Reading, StandsAt
<1>7. MutexFits'
  <2>1. seen[t][0] = 2
    BY <1>2, <1>3 DEF ShareInv, MutexFits
  <2> QED
    BY <1>5, <2>1 DEF MutexFits
<1>8. Published' /\ Instance' = Instance
  BY <1>1, <1>2 DEF Published, Instance
<1>9. SharerFits(t)'
  BY <1>1, <1>2, <1>4, <1>8 DEF SharerFits, StandsAt, Critical
<1> QED
  BY <1>2, <1>6, <1>7, <1>9, ReadingStep

LEMMA UseStep ==
    ASSUME ShareInv, NEW t \in Sharers, use(t)
    PROVE  ShareInv'
<1> DEFINE l == sharer[t].inst
<1>1. PICK i \in Loadable(t, l) :
          /\ seen' = [seen EXCEPT ![t][l] = i]
          /\ sharer' = [sharer EXCEPT ![t].got = memory[l][i].value, ![t].at = "done"]
  BY DEF use
<1> DEFINE v  == memory[l][i].value
           a  == [seen[t] EXCEPT ![l] = i]
           sh == SetGot(sharer, t, v)
<1>2. StandsAt(t, "use") /\ demo' = demo /\ memory' = memory /\ mutex' = mutex
  BY DEF use
<1>3. /\ Published /\ l = Instance /\ seen[t][Instance] = 2
      /\ Instance \in Sharers /\ Len(memory[Instance]) = 2
      /\ ~ (demo = "flag" /\ t = 1)
  BY <1>2 DEF ShareInv, ShareTypeOK, MemoryFits, SharerFits, StandsAt
<1>4. Instance \in Locations /\ seen[t] \in View
  BY <1>3, SharersAre DEF ShareInv, ShareTypeOK
<1>5. i = 2
  BY <1>3, <1>4, AcquireIs
<1>6. v = FILLED
  BY <1>3, <1>5 DEF ShareInv, MemoryFits
<1>7. /\ a \in View
      /\ \A x \in Locations : seen[t][x] = 2 => a[x] = 2
  BY <1>4, <1>5 DEF View
<1>8. seen' = SeenBy(t, a) /\ sharer' = SetAt(sh, t, "done")
  BY <1>1 DEF SeenBy, SetAt, SetGot
<1>9. sharer \in [Sharers -> SharerState] /\ v \in Nat
  BY <1>6 DEF ShareInv, ShareTypeOK, FILLED
<1>10. /\ sh \in [Sharers -> SharerState] /\ sh[t].got = v /\ sh[t].inst = l
       /\ \A u \in Sharers : u # t => sh[u] = sharer[u]
  BY <1>9, SetGotIs
<1> HIDE DEF a, sh, v
<1>11. /\ seen' \in [Sharers -> View] /\ seen'[t] = a
       /\ \A u \in Sharers, x \in Locations : seen[u][x] = 2 => seen'[u][x] = 2
  BY <1>7, <1>8, SeenByIs
<1>12. /\ sharer' \in [Sharers -> SharerState] /\ sharer'[t].at = "done"
       /\ sharer'[t].got = FILLED /\ sharer'[t].inst = l
       /\ \A u \in Sharers : u # t => sharer'[u] = sharer[u]
  BY <1>6, <1>8, <1>10, SetAtIs DEF SharerPlaces
<1>13. Reading(t)
  BY <1>2, <1>11, <1>12 DEF Reading, StandsAt, ShareInv, ShareTypeOK
<1>14. Published' /\ Instance' = Instance
  BY <1>2, <1>3 DEF Published, Instance
<1>15. demo = "flag" => t # 1
  BY <1>3
<1>16. SharerFits(t)'
  BY <1>2, <1>3, <1>12, <1>14, <1>15 DEF SharerFits, StandsAt, Critical
<1> QED
  BY <1>2, <1>13, <1>16, ReadingStep, MutexStays

LEMMA SecondIs ==
    ASSUME NEW S, NEW s \in Seq(S), Len(s) = 1, NEW x \in S
    PROVE  /\ Append(s, x) \in Seq(S) /\ Len(Append(s, x)) = 2
           /\ Append(s, x)[1] = s[1] /\ Append(s, x)[2] = x
<1>1. Append(s, x) \in Seq(S) /\ Len(Append(s, x)) = 2
  <2>1. Append(s, x) \in Seq(S)
    OBVIOUS
  <2>2. Len(Append(s, x)) = Len(s) + 1
    BY AppendProperties
  <2> QED
    BY <2>1, <2>2
<1>2. Append(s, x)[2] = x
  <2>1. Append(s, x)[Len(s) + 1] = x
    BY AppendProperties
  <2>2. Len(s) + 1 = 2
    OBVIOUS
  <2> QED
    BY <2>1, <2>2
<1>3. Append(s, x)[1] = s[1]
  OBVIOUS
<1> QED
  BY <1>1, <1>2, <1>3

\* What a store adds.
LEMMA StoreIs ==
    ASSUME ShareInv, NEW t \in Sharers, NEW l \in Locations, Len(memory[l]) # 2,
           NEW v \in Nat, StoreTo(t, l, v)
    PROVE  /\ memory' \in [Locations -> Seq(StoredValue)] /\ Len(memory'[l]) = 2
           /\ memory'[l][1] = memory[l][1]
           /\ memory'[l][2] = [value |-> v, view |-> seen'[t]]
           /\ \A x \in Locations : x # l => memory'[x] = memory[x]
           /\ seen' \in [Sharers -> View] /\ seen'[t][l] = 2
           /\ \A u \in Sharers, x \in Locations : seen[u][x] = 2 => seen'[u][x] = 2
<1> DEFINE view_now == [seen[t] EXCEPT ![l] = 2]
           new == [value |-> v, view |-> view_now]
<1>1. /\ memory \in [Locations -> Seq(StoredValue)] /\ Len(memory[l]) = 1 /\ seen[t] \in View
  BY DEF ShareInv, ShareTypeOK
<1>2. /\ memory' = [memory EXCEPT ![l] = Append(@, new)]
      /\ seen' = SeenBy(t, view_now)
  BY <1>1 DEF StoreTo, SeenBy
<1>3. /\ view_now \in View /\ view_now[l] = 2 /\ \A x \in Locations : seen[t][x] = 2 => view_now[x] = 2
  BY <1>1 DEF View
<1> HIDE DEF view_now
<1>4. new \in StoredValue
  BY <1>3 DEF StoredValue
<1>5. /\ seen' \in [Sharers -> View] /\ seen'[t] = view_now
      /\ \A u \in Sharers, x \in Locations : seen[u][x] = 2 => seen'[u][x] = 2
  BY <1>2, <1>3, SeenByIs
<1> HIDE DEF new
<1>6. memory[l] \in Seq(StoredValue)
  BY <1>1
<1>7. /\ Append(memory[l], new) \in Seq(StoredValue) /\ Len(Append(memory[l], new)) = 2
      /\ Append(memory[l], new)[1] = memory[l][1] /\ Append(memory[l], new)[2] = new
  <2> DEFINE old == memory[l]
  <2>1. old \in Seq(StoredValue) /\ Len(old) = 1
    BY <1>1, <1>6
  <2> HIDE DEF old
  <2>2. /\ Append(old, new) \in Seq(StoredValue) /\ Len(Append(old, new)) = 2
        /\ Append(old, new)[1] = old[1] /\ Append(old, new)[2] = new
    BY <1>4, <2>1, SecondIs
  <2> QED
    BY <2>2 DEF old
<1>8. memory'[l] = Append(memory[l], new)
  BY <1>1, <1>2
<1> QED
  BY <1>1, <1>2, <1>3, <1>5, <1>7, <1>8 DEF new

\* Filling what is about to be published.
LEMMA FillingStep ==
    ASSUME ShareInv, NEW t \in Sharers, StoreTo(t, t, FILLED), Goes(t, "publish"),
           demo' = demo, mutex' = mutex, ~ Published, ~ StandsAt(t, "publish"),
           demo = "singleton" => mutex.holder = t, demo = "flag" => t = 1
    PROVE  ShareInv'
<1>1. 0 \in Locations /\ t \in Locations /\ t # 0
  BY SharersAre
<1>2. Len(memory[t]) # 2
  BY DEF ShareInv, MemoryFits
<1>3. FILLED \in Nat
  BY DEF FILLED
<1>4. /\ memory' \in [Locations -> Seq(StoredValue)] /\ Len(memory'[t]) = 2
      /\ memory'[t][1] = memory[t][1]
      /\ memory'[t][2] = [value |-> FILLED, view |-> seen'[t]]
      /\ \A x \in Locations : x # t => memory'[x] = memory[x]
  BY <1>1, <1>2, <1>3, StoreIs
<1>5. /\ seen' \in [Sharers -> View] /\ seen'[t][t] = 2
      /\ \A u \in Sharers, x \in Locations : seen[u][x] = 2 => seen'[u][x] = 2
  BY <1>1, <1>2, <1>3, StoreIs
<1>6. /\ sharer' \in [Sharers -> SharerState] /\ sharer'[t].at = "publish"
      /\ \A u \in Sharers : u # t => sharer'[u] = sharer[u]
  <2>1. sharer' = SetAt(sharer, t, "publish")
    BY DEF Goes, SetAt
  <2>2. sharer \in [Sharers -> SharerState] /\ "publish" \in SharerPlaces
    BY DEF ShareInv, ShareTypeOK, SharerPlaces
  <2> QED
    BY <2>1, <2>2, SetAtIs
<1>7. ~ Published'
  BY <1>1, <1>4 DEF Published
<1>8. ShareTypeOK'
  <2>1. \A x \in Locations : Len(memory'[x]) \in {1, 2}
    BY <1>4 DEF ShareInv, ShareTypeOK
  <2> QED
    BY <1>4, <1>5, <1>6, <2>1 DEF ShareInv, ShareTypeOK
<1>9. MemoryFits'
  <2>1. \A x \in Locations : memory'[x][1].value = 0
    BY <1>4 DEF ShareInv, MemoryFits
  <2>2. ASSUME NEW x \in Sharers, Len(memory'[x]) = 2
        PROVE  memory'[x][2].value = FILLED /\ StandsAt(x, "publish")'
    <3>1. CASE x = t
      BY <1>4, <1>6, <3>1 DEF StandsAt
    <3>2. CASE x # t
      BY <1>4, <1>6, <2>2, <3>2, SharersAre DEF StandsAt, ShareInv, MemoryFits
    <3> QED
      BY <3>1, <3>2
  <2> QED
    BY <1>7, <2>1, <2>2 DEF MemoryFits
<1>10. MutexFits'
  BY <1>7 DEF MutexFits
<1>11. ASSUME NEW u \in Sharers PROVE SharerFits(u)'
  <2>1. CASE u = t
    BY <1>4, <1>5, <1>6, <1>7, <2>1 DEF SharerFits, StandsAt, Critical
  <2>2. CASE u # t
    <3>1. SharerFits(u) /\ sharer'[u] = sharer[u] /\ memory'[u] = memory[u] /\ u \in Locations
      BY <1>4, <1>6, <2>2, SharersAre DEF ShareInv
    <3>2. seen[u][u] = 2 => seen'[u][u] = 2
      BY <1>5, <3>1
    <3> QED
      BY <1>7, <3>1, <3>2 DEF SharerFits, StandsAt
  <2> QED
    BY <2>1, <2>2
<1> QED
  BY <1>8, <1>9, <1>10, <1>11 DEF ShareInv

LEMMA ProduceStep ==
    ASSUME ShareInv, produce
    PROVE  ShareInv'
<1>1. 1 \in Sharers
  BY SharersAre
<1>2. /\ demo = "flag" /\ StandsAt(1, "start") /\ StoreTo(1, 1, FILLED) /\ Goes(1, "publish")
      /\ demo' = demo /\ mutex' = mutex
  BY DEF produce
<1>3. ~ Published
  BY <1>1, <1>2 DEF ShareInv, SharerFits
<1>4. ~ StandsAt(1, "publish") /\ demo # "singleton"
  BY <1>2 DEF StandsAt
<1> QED
  BY <1>1, <1>2, <1>3, <1>4, FillingStep

LEMMA FillStep ==
    ASSUME ShareInv, NEW t \in Sharers, fill(t)
    PROVE  ShareInv'
<1>1. /\ StandsAt(t, "fill") /\ StoreTo(t, t, FILLED) /\ Goes(t, "publish")
      /\ demo' = demo /\ mutex' = mutex
  BY DEF fill
<1>2. /\ demo # "flag" /\ ~ Published /\ (demo = "singleton" => mutex.holder = t)
      /\ ~ StandsAt(t, "publish")
  BY <1>1 DEF ShareInv, SharerFits, StandsAt, Critical
<1> QED
  BY <1>1, <1>2, FillingStep

\* Only one thread at a time is about to publish.
LEMMA OnePublishes ==
    ASSUME ShareInv, NEW t \in Sharers, NEW u \in Sharers,
           StandsAt(t, "publish"), StandsAt(u, "publish") \/ StandsAt(u, "fill")
    PROVE  u = t
<1>1. CASE demo = "flag"
  BY <1>1 DEF ShareInv, SharerFits, StandsAt
<1>2. CASE demo = "singleton"
  BY <1>2 DEF ShareInv, SharerFits, StandsAt, Critical
<1> QED
  BY <1>1, <1>2 DEF ShareInv, ShareTypeOK

LEMMA PublishStep ==
    ASSUME ShareInv, NEW t \in Sharers, publish(t)
    PROVE  ShareInv'
<1> DEFINE to == IF demo = "flag" THEN "done" ELSE "unlock"
           sh == SetInst(sharer, t, t)
<1>1. /\ StandsAt(t, "publish") /\ StoreTo(t, 0, t) /\ demo' = demo /\ mutex' = mutex
      /\ sharer' = SetAt(sh, t, to)
  BY DEF publish, SetAt, SetInst
<1>2. 0 \in Locations /\ t \in Locations /\ t # 0 /\ t \in Nat
  BY SharersAre
<1>3. ~ Published /\ Len(memory[t]) = 2 /\ seen[t][t] = 2
  BY <1>1 DEF ShareInv, SharerFits
<1>4. Len(memory[0]) # 2
  BY <1>3 DEF Published
<1>5. /\ memory' \in [Locations -> Seq(StoredValue)] /\ Len(memory'[0]) = 2
      /\ memory'[0][1] = memory[0][1]
      /\ memory'[0][2] = [value |-> t, view |-> seen'[t]]
      /\ \A x \in Locations : x # 0 => memory'[x] = memory[x]
  BY <1>1, <1>2, <1>4, StoreIs
<1>6. /\ seen' \in [Sharers -> View] /\ seen'[t][0] = 2
      /\ \A u \in Sharers, x \in Locations : seen[u][x] = 2 => seen'[u][x] = 2
  BY <1>1, <1>2, <1>4, StoreIs
<1>7. /\ sharer' \in [Sharers -> SharerState] /\ sharer'[t].at = to /\ sharer'[t].inst = t
      /\ \A u \in Sharers : u # t => sharer'[u] = sharer[u]
  <2>1. /\ sh \in [Sharers -> SharerState] /\ sh[t].inst = t
        /\ \A u \in Sharers : u # t => sh[u] = sharer[u]
    BY <1>2, SetInstIs DEF ShareInv, ShareTypeOK
  <2>2. to \in SharerPlaces
    BY DEF SharerPlaces
  <2> HIDE DEF sh, to
  <2> QED
    BY <1>1, <2>1, <2>2, SetAtIs
<1>8. Published' /\ Instance' = t /\ memory'[0][2].view[t] = 2 /\ seen'[t][t] = 2
  BY <1>2, <1>3, <1>5, <1>6 DEF Published, Instance
<1>9. ShareTypeOK'
  <2>1. \A x \in Locations : Len(memory'[x]) \in {1, 2}
    BY <1>5 DEF ShareInv, ShareTypeOK
  <2> QED
    BY <1>1, <1>5, <1>6, <1>7, <2>1 DEF ShareInv, ShareTypeOK
<1>10. MemoryFits'
  <2>1. \A x \in Locations : memory'[x][1].value = 0
    BY <1>5 DEF ShareInv, MemoryFits
  <2>2. ASSUME NEW x \in Sharers, Len(memory'[x]) = 2
        PROVE  memory'[x][2].value = FILLED /\ x = t
    <3>1. x \in Locations /\ x # 0
      BY SharersAre
    <3>2. memory'[x] = memory[x]
      BY <1>5, <3>1
    <3>3. memory[x][2].value = FILLED /\ StandsAt(x, "publish")
      BY <1>3, <2>2, <3>2 DEF ShareInv, MemoryFits
    <3>4. x = t
      BY <1>1, <3>3, OnePublishes
    <3> QED
      BY <3>2, <3>3, <3>4
  <2>3. Len(memory'[t]) = 2
    BY <1>2, <1>3, <1>5
  <2> QED
    BY <1>8, <2>1, <2>2, <2>3 DEF MemoryFits
<1>11. MutexFits'
  <2>1. demo = "singleton" => mutex.holder = t
    BY <1>1 DEF ShareInv, SharerFits, StandsAt, Critical
  <2> QED
    BY <1>1, <1>2, <1>6, <2>1 DEF MutexFits
<1>12. ASSUME NEW u \in Sharers PROVE SharerFits(u)'
  <2>1. CASE u = t
    <3>1. /\ demo = "flag" => t = 1
          /\ demo = "singleton" => mutex.holder = t
      BY <1>1 DEF ShareInv, SharerFits, StandsAt, Critical
    <3>2. demo = "flag" \/ demo = "singleton"
      BY DEF ShareInv, ShareTypeOK
    <3>3. CASE demo = "flag"
      BY <1>1, <1>7, <1>8, <2>1, <3>1, <3>3 DEF SharerFits, StandsAt, Critical
    <3>4. CASE demo = "singleton"
      BY <1>1, <1>7, <1>8, <2>1, <3>1, <3>4 DEF SharerFits, StandsAt, Critical
    <3> QED
      BY <3>2, <3>3, <3>4
  <2>2. CASE u # t
    <3>1. SharerFits(u) /\ sharer'[u] = sharer[u]
      BY <1>7, <2>2 DEF ShareInv
    <3>2. ~ StandsAt(u, "publish") /\ ~ StandsAt(u, "fill")
      BY <1>1, <2>2, OnePublishes
    <3>3. sharer[u].at \notin {"unlock", "use", "done"}
      BY <1>3, <3>1 DEF SharerFits
    <3>4. demo = "flag" => u # 1
      BY <1>1, <2>2 DEF ShareInv, SharerFits, StandsAt
    <3> QED
      BY <1>1, <3>1, <3>2, <3>3, <3>4 DEF SharerFits, StandsAt
  <2> QED
    BY <2>1, <2>2
<1> QED
  BY <1>9, <1>10, <1>11, <1>12 DEF ShareInv

LEMMA ShareStart == ShareInit => ShareInv
<1> SUFFICES ASSUME ShareInit PROVE ShareInv
  OBVIOUS
<1> DEFINE first == [value |-> 0, view |-> NothingSeen]
<1>1. NothingSeen \in View
  BY DEF NothingSeen, View
<1>2. first \in StoredValue
  BY <1>1 DEF StoredValue
<1>3. memory = [l \in Locations |-> <<first>>]
  BY DEF ShareInit
<1>4. \A l \in Locations : Len(memory[l]) = 1 /\ memory[l][1] = first
  BY <1>3
<1>5. memory \in [Locations -> Seq(StoredValue)]
  BY <1>2, <1>3
<1>6. 0 \in Locations /\ \A t \in Sharers : t \in Locations
  BY SharersAre
<1>7. ~ Published
  BY <1>4, <1>6 DEF Published
<1>8. ShareTypeOK
  <2>1. seen \in [Sharers -> View] /\ mutex \in [holder : Locations, view : View]
    BY <1>1, <1>6 DEF ShareInit
  <2>2. sharer \in [Sharers -> SharerState]
    BY <1>6 DEF ShareInit, SharerState, SharerPlaces, NULL_INST, UNFILLED
  <2>3. demo \in {"flag", "singleton"}
    BY DEF ShareInit
  <2> QED
    BY <1>4, <1>5, <2>1, <2>2, <2>3 DEF ShareTypeOK
<1>9. MemoryFits
  BY <1>4, <1>6, <1>7 DEF MemoryFits
<1>10. MutexFits
  BY <1>7 DEF MutexFits
<1>11. ASSUME NEW t \in Sharers PROVE SharerFits(t)
  <2>1. sharer[t].at = "start"
    BY DEF ShareInit
  <2> QED
    BY <1>7, <2>1 DEF SharerFits, StandsAt, Critical
<1> QED
  BY <1>8, <1>9, <1>10, <1>11 DEF ShareInv

LEMMA ShareStep == ShareInv /\ [ShareNext]_shareVars => ShareInv'
<1> SUFFICES ASSUME ShareInv, [ShareNext]_shareVars PROVE ShareInv'
  OBVIOUS
<1>1. CASE produce
  BY <1>1, ProduceStep
<1>2. ASSUME NEW t \in Sharers, first_check(t) PROVE ShareInv'
  BY <1>2, FirstCheckStep
<1>3. ASSUME NEW t \in Sharers, lock(t) PROVE ShareInv'
  BY <1>3, LockStep
<1>4. ASSUME NEW t \in Sharers, second_check(t) PROVE ShareInv'
  BY <1>4, SecondCheckStep
<1>5. ASSUME NEW t \in Sharers, fill(t) PROVE ShareInv'
  BY <1>5, FillStep
<1>6. ASSUME NEW t \in Sharers, publish(t) PROVE ShareInv'
  BY <1>6, PublishStep
<1>7. ASSUME NEW t \in Sharers, unlock(t) PROVE ShareInv'
  BY <1>7, UnlockStep
<1>8. ASSUME NEW t \in Sharers, use(t) PROVE ShareInv'
  BY <1>8, UseStep
<1>9. CASE UNCHANGED shareVars
  BY <1>9 DEF shareVars, ShareInv, ShareTypeOK, MemoryFits, MutexFits, SharerFits, StandsAt,
              Published, Instance
<1> QED
  BY <1>1, <1>2, <1>3, <1>4, <1>5, <1>6, <1>7, <1>8, <1>9 DEF ShareNext

LEMMA CompleteWhenPublished ==
    ASSUME ShareInv
    PROVE  PublishedIsComplete
<1> DEFINE filled == {t \in Sharers : Len(memory[t]) > 1}
<1>1. PICK x : filled \subseteq {x}
  <2>1. \A t \in Sharers : t \in Locations /\ Len(memory[t]) \in {1, 2}
    BY SharersAre DEF ShareInv, ShareTypeOK
  <2>2. ASSUME NEW t \in filled
        PROVE  (Published /\ Instance = t) \/ StandsAt(t, "publish")
    <3> DEFINE n == Len(memory[t])
    <3>1. t \in Sharers /\ n > 1 /\ n \in {1, 2}
      BY <2>1
    <3> HIDE DEF n
    <3>2. n = 2
      BY <3>1
    <3> QED
      BY <3>1, <3>2 DEF ShareInv, MemoryFits, n
  <2>3. \A t \in Sharers : StandsAt(t, "publish") => ~ Published
    BY DEF ShareInv, SharerFits
  <2>4. CASE Published
    BY <2>2, <2>3, <2>4
  <2>5. CASE ~ Published
    <3>1. \A t, u \in filled : u = t
      <4> SUFFICES ASSUME NEW t \in filled, NEW u \in filled PROVE u = t
        OBVIOUS
      <4>1. StandsAt(t, "publish") /\ StandsAt(u, "publish")
        BY <2>2, <2>5
      <4> QED
        BY <4>1, OnePublishes
    <3> QED
      BY <3>1
  <2> QED
    BY <2>4, <2>5
<1>2. Cardinality(filled) <= 1
  <2>1. IsFiniteSet({x}) /\ Cardinality({x}) = 1
    BY FS_Singleton
  <2> HIDE DEF filled
  <2>2. Cardinality(filled) <= Cardinality({x})
    BY <1>1, <2>1, FS_Subset
  <2> QED
    BY <2>1, <2>2
<1>3. ASSUME NEW t \in Sharers, StandsAt(t, "done") PROVE sharer[t].inst = Instance
  BY <1>3 DEF ShareInv, SharerFits, StandsAt
<1>4. ASSUME NEW t \in Sharers, StandsAt(t, "done"), ~ (demo = "flag" /\ t = 1)
      PROVE  sharer[t].got = FILLED
  BY <1>4 DEF ShareInv, SharerFits
<1> QED
  BY <1>2, <1>3, <1>4 DEF PublishedIsComplete

\* For any number of threads: whoever gets past the flag, or gets the singleton, finds
\* it filled, and only one singleton is ever made (volatile_visibility.c, demos 3 and 4).
THEOREM PublishedWhole == ShareSpec => [](ShareTypeOK /\ PublishedIsComplete)
<1>1. ShareInv => ShareTypeOK /\ PublishedIsComplete
  BY CompleteWhenPublished DEF ShareInv
<1> QED
  BY <1>1, ShareStart, ShareStep, PTL DEF ShareSpec

-----------------------------------------------------------------------------
(***************************************************************************)
(* The life of a thread.  The unit that follows an interrupt is the one that *)
(* the worker had decided on when the interrupt came.                      *)
(***************************************************************************)

WorkerPlaces == {"none", "check", "sleep", "asleep", "end", "ended"}

LifeTypeOK ==
    /\ jt \in [state : {"NEW", "RUNNABLE", "WAITING", "TIMED_WAITING", "TERMINATED"}, interrupted : BOOLEAN]
    /\ worker \in [at : WorkerPlaces, units : 0 .. WORK_UNITS]
    /\ main \in {"start", "create", "created", "join", "joined"}
    /\ late \in Nat

\* A worker that was created has ended before it is joined; what begins after the
\* interrupt is the unit that was chosen before it, and no other.
LifeInv ==
    /\ LifeTypeOK
    /\ worker.at = "none" <=> main \in {"start", "create"}
    /\ main = "joined" => worker.at = "ended"
    /\ worker.at \in {"sleep", "asleep"} => worker.units < WORK_UNITS
    /\ worker.at \in {"end", "ended"} /\ ~ jt.interrupted => worker.units = WORK_UNITS
    /\ jt.state = "TERMINATED" => worker.at = "ended"
    /\ worker.at = "ended" => jt.state \in {"TERMINATED", "WAITING"}
    /\ jt.state = "WAITING" => main \in {"join", "joined"}
    /\ late # 0 => late = 1 /\ jt.interrupted /\ worker.at # "sleep"

LEMMA LifeStart ==
    LifeInit => LifeInv
BY LifeConstants DEF LifeInit, LifeInv, LifeTypeOK, WorkerPlaces

LEMMA LifeStep ==
    LifeInv /\ [LifeNext]_lifeVars => LifeInv'
<1> SUFFICES ASSUME LifeInv, [LifeNext]_lifeVars PROVE LifeInv'
  OBVIOUS
<1> USE LifeConstants DEF LifeInv, LifeTypeOK, WorkerPlaces, thread_transition, WorkerGoes
<1>1. CASE thread_start
  BY <1>1 DEF thread_start
<1>2. CASE pthread_create
  BY <1>2 DEF pthread_create
<1>3. CASE interrupt
  BY <1>3 DEF interrupt
<1>4. CASE thread_join
  BY <1>4 DEF thread_join
<1>5. CASE pthread_join
  BY <1>5 DEF pthread_join
<1>6. CASE worker_check
  BY <1>6 DEF worker_check
<1>7. CASE worker_sleep
  BY <1>7 DEF worker_sleep
<1>8. CASE worker_wake
  BY <1>8 DEF worker_wake
<1>9. CASE worker_end
  BY <1>9 DEF worker_end
<1>10. CASE UNCHANGED lifeVars
  BY <1>10 DEF lifeVars
<1> QED
  BY <1>1, <1>2, <1>3, <1>4, <1>5, <1>6, <1>7, <1>8, <1>9, <1>10 DEF LifeNext

\* Whoever joins a thread finds it ended, and at most one unit of work follows an
\* interrupt, for any number of units: worker_run and the demos, thread_lifecycle.c.
THEOREM ThreadsAreToldOf == LifeSpec => [](LifeTypeOK /\ ThreadsEndAsTold)
<1>1. LifeInv => LifeTypeOK /\ ThreadsEndAsTold
  BY DEF LifeInv, LifeTypeOK, ThreadsEndAsTold
<1> QED
  BY <1>1, LifeStart, LifeStep, PTL DEF LifeSpec

-----------------------------------------------------------------------------
(***************************************************************************)
(* The heap with generations.  Between two collections the objects in Eden *)
(* are numbered by their places, which fixes where each reference leads.   *)
(***************************************************************************)

Reference == [address : Nat, serial : Nat]

EdenObject == [serial : Nat, gc_age : Nat]

JvmTypeOK ==
    /\ eden \in Seq(EdenObject) /\ old_gen \in Seq(EdenObject)
    /\ stack \in Seq(Seq(Reference))
    /\ serials \in Nat /\ wiped \in Seq(Nat)

\* What was given out before the last collection.
Since == IF wiped = << >> THEN 0 ELSE wiped[Len(wiped)]

\* A reference made since then has its object's place, which is its number's.
Leads(r) == r.serial <= serials /\ (r.serial > Since => r.address = r.serial - Since)

JvmInv ==
    /\ JvmTypeOK
    /\ old_gen = << >>
    /\ Since \in Nat /\ Since <= serials /\ Len(eden) = serials - Since
    /\ \A i \in 1 .. Len(eden) : eden[i] = [serial |-> Since + i, gc_age |-> 0]
    /\ \A f \in 1 .. Len(stack) : \A k \in 1 .. Len(stack[f]) : Leads(stack[f][k])

LEMMA JvmStart ==
    JvmInit => JvmInv
BY DEF JvmInit, JvmInv, JvmTypeOK, Since

\* Nothing is old enough, so nothing is selected and nothing allocated.
LEMMA NothingSelected ==
    ASSUME NEW S, NEW s \in Seq(S), NEW I, \A i \in 1 .. Len(s) : i \notin I
    PROVE  Selection(s, I) = << >>
<1>1. Selection(s, I) \in Seq(S)
  BY SelectionIs
<1>2. PICK at : Picks(at, Selection(s, I), s, I, Len(s))
  BY SelectionIs
<1>3. Len(Selection(s, I)) = 0
  <2>1. Len(Selection(s, I)) \in Nat
    BY <1>1, LenProperties
  <2>2. ASSUME Len(Selection(s, I)) # 0 PROVE FALSE
    <3>1. 1 \in 1 .. Len(Selection(s, I))
      BY <2>1, <2>2
    <3> QED
      BY <1>2, <3>1 DEF Picks
  <2> QED
    BY <2>2
<1> QED
  BY <1>1, <1>3, EmptySeq

LEMMA NoneAllocated ==
    ASSUME NEW old PROVE FoldLeft(old_gen_alloc, old, << >>) = old
<1>1. DOMAIN << >> = {}
  OBVIOUS
<1> QED
  BY <1>1 DEF FoldLeft, MapThenFoldSet

LEMMA DomainsAre ==
    ASSUME JvmTypeOK
    PROVE  /\ Len(eden) \in Nat /\ DOMAIN eden = 1 .. Len(eden)
           /\ Len(stack) \in Nat /\ DOMAIN stack = 1 .. Len(stack)
           /\ \A f \in 1 .. Len(stack) :
                 stack[f] \in Seq(Reference) /\ Len(stack[f]) \in Nat /\ DOMAIN stack[f] = 1 .. Len(stack[f])
<1> USE DEF JvmTypeOK
<1>1. Len(stack) \in Nat /\ DOMAIN stack = 1 .. Len(stack)
  BY LenProperties
<1>2. \A f \in 1 .. Len(stack) : stack[f] \in Seq(Reference)
  BY ElementOfSeq
<1> QED
  BY <1>1, <1>2, LenProperties

LEMMA EdenAlloc ==
    JvmInv /\ eden_alloc => JvmInv'
<1> SUFFICES ASSUME JvmInv, eden_alloc PROVE JvmInv'
  OBVIOUS
<1> DEFINE new == [serial |-> serials + 1, gc_age |-> 0]
<1>0. /\ eden \in Seq(EdenObject) /\ stack \in Seq(Seq(Reference)) /\ old_gen = << >>
      /\ serials \in Nat /\ wiped \in Seq(Nat) /\ Since \in Nat /\ Since <= serials
      /\ Len(eden) = serials - Since /\ Len(eden) \in Nat /\ Len(stack) \in Nat /\ Len(wiped) \in Nat
  BY DomainsAre, LenProperties DEF JvmInv, JvmTypeOK
<1>01. \A i \in 1 .. Len(eden) : eden[i] = [serial |-> Since + i, gc_age |-> 0]
  BY DEF JvmInv
<1>02. \A f \in 1 .. Len(stack) : \A k \in 1 .. Len(stack[f]) : Leads(stack[f][k]) /\ stack[f][k] \in Reference
  BY DomainsAre, ElementOfSeq DEF JvmInv
<1>1. /\ serials' = serials + 1 /\ eden' = Append(eden, new)
      /\ UNCHANGED <<old_gen, stack, wiped>>
  BY DEF eden_alloc
<1>2. new \in EdenObject
  BY <1>0 DEF EdenObject
<1>3. /\ eden' \in Seq(EdenObject) /\ Len(eden') = Len(eden) + 1
      /\ \A i \in 1 .. Len(eden) : eden'[i] = eden[i]
      /\ eden'[Len(eden) + 1] = new
  <2>1. eden \in Seq(EdenObject) /\ new \in EdenObject /\ eden' = Append(eden, new)
    BY <1>0, <1>1, <1>2
  <2> HIDE DEF new
  <2> QED
    BY <2>1, AppendProperties
<1>4. Since' = Since
  BY <1>1 DEF Since
<1>6. \A i \in 1 .. Len(eden') : eden'[i] = [serial |-> Since + i, gc_age |-> 0]
  <2> SUFFICES ASSUME NEW i \in 1 .. Len(eden') PROVE eden'[i] = [serial |-> Since + i, gc_age |-> 0]
    OBVIOUS
  <2>1. CASE i = Len(eden) + 1
    BY <1>0, <1>3, <2>1
  <2>2. CASE i # Len(eden) + 1
    <3>1. i \in 1 .. Len(eden)
      BY <1>0, <1>3, <2>2
    <3> QED
      BY <1>01, <1>3, <3>1
  <2> QED
    BY <2>1, <2>2
<1>7. \A f \in 1 .. Len(stack) : \A k \in 1 .. Len(stack[f]) : Leads(stack[f][k])'
  <2> SUFFICES ASSUME NEW f \in 1 .. Len(stack), NEW k \in 1 .. Len(stack[f]) PROVE Leads(stack[f][k])'
    OBVIOUS
  <2>1. stack[f][k] \in Reference /\ Leads(stack[f][k])
    BY <1>02
  <2> QED
    <3> DEFINE r == stack[f][k]
    <3>1. r \in Reference /\ Leads(r) /\ r' = r /\ Since' = Since /\ serials' = serials + 1
      BY <1>1, <1>4, <2>1
    <3> HIDE DEF r
    <3>2. r'.serial \in Nat /\ r'.serial = r.serial /\ r'.address = r.address
      BY <3>1 DEF Reference
    <3> QED
      BY <1>0, <3>1, <3>2 DEF Leads, r
<1> QED
  BY <1>0, <1>1, <1>3, <1>4, <1>6, <1>7 DEF JvmInv, JvmTypeOK

LEMMA MinorGc ==
    ASSUME NEW roots
    PROVE  JvmInv /\ simulate_minor_gc(roots) => JvmInv'
<1> SUFFICES ASSUME JvmInv, simulate_minor_gc(roots) PROVE JvmInv'
  OBVIOUS
<1> DEFINE aged == [i \in DOMAIN eden |-> [eden[i] EXCEPT !.gc_age = @ + IF i \in roots THEN 1 ELSE 0]]
           I == {i \in DOMAIN aged : aged[i].gc_age >= MAX_GC_AGE}
<1>0. /\ eden \in Seq(EdenObject) /\ stack \in Seq(Seq(Reference)) /\ old_gen = << >>
      /\ serials \in Nat /\ wiped \in Seq(Nat) /\ Since \in Nat /\ Since <= serials
      /\ Len(eden) = serials - Since /\ Len(eden) \in Nat /\ Len(stack) \in Nat /\ Len(wiped) \in Nat
  BY DomainsAre, LenProperties DEF JvmInv, JvmTypeOK
<1>01. \A i \in 1 .. Len(eden) : eden[i] = [serial |-> Since + i, gc_age |-> 0]
  BY DEF JvmInv
<1>02. \A f \in 1 .. Len(stack) : \A k \in 1 .. Len(stack[f]) : Leads(stack[f][k]) /\ stack[f][k] \in Reference
  BY DomainsAre, ElementOfSeq DEF JvmInv
<1>1. /\ old_gen' = FoldLeft(old_gen_alloc, old_gen, Selection(aged, I))
      /\ eden' = << >> /\ wiped' = Append(wiped, serials) /\ UNCHANGED <<stack, serials>>
  BY DEF simulate_minor_gc
<1>2. Len(eden) \in Nat /\ DOMAIN eden = 1 .. Len(eden)
  BY <1>0, LenProperties
<1>3. ASSUME NEW i \in 1 .. Len(eden)
      PROVE  aged[i] \in EdenObject /\ aged[i].gc_age <= 1
  <2>1. i \in DOMAIN eden /\ eden[i] = [serial |-> Since + i, gc_age |-> 0]
    BY <1>01, <1>2
  <2>2. aged[i] = [eden[i] EXCEPT !.gc_age = 0 + IF i \in roots THEN 1 ELSE 0]
    BY <2>1
  <2> QED
    BY <1>0, <2>1, <2>2 DEF EdenObject
<1>4. aged \in Seq(EdenObject) /\ Len(aged) = Len(eden)
  <2>1. aged \in [1 .. Len(eden) -> EdenObject]
    BY <1>2, <1>3
  <2> QED
    BY <1>0, <2>1, SeqDef, LenProperties
<1>5. \A i \in 1 .. Len(aged) : i \notin I
  <2> SUFFICES ASSUME NEW i \in 1 .. Len(aged), i \in I PROVE FALSE
    OBVIOUS
  <2>1. aged[i] \in EdenObject /\ aged[i].gc_age <= 1 /\ aged[i].gc_age >= MAX_GC_AGE
    BY <1>3, <1>4
  <2> QED
    <3>1. aged[i].gc_age \in Nat
      BY <2>1 DEF EdenObject
    <3> QED
      BY <2>1, <3>1, JvmConstants
<1> HIDE DEF aged, I
<1>6. old_gen' = << >>
  <2>1. Selection(aged, I) = << >>
    BY <1>4, <1>5, NothingSelected
  <2> QED
    BY <1>0, <1>1, <2>1, NoneAllocated
<1>7. /\ wiped' \in Seq(Nat) /\ wiped' # << >> /\ Len(wiped') = Len(wiped) + 1 /\ wiped'[Len(wiped) + 1] = serials
  BY <1>0, <1>1, AppendProperties
<1>8. Since' = serials
  BY <1>0, <1>7 DEF Since
<1>9. \A f \in 1 .. Len(stack) : \A k \in 1 .. Len(stack[f]) : Leads(stack[f][k])'
  <2> SUFFICES ASSUME NEW f \in 1 .. Len(stack), NEW k \in 1 .. Len(stack[f]) PROVE Leads(stack[f][k])'
    OBVIOUS
  <2>1. stack[f][k] \in Reference /\ Leads(stack[f][k])
    BY <1>02
  <2> QED
    <3> DEFINE r == stack[f][k]
    <3>1. r \in Reference /\ Leads(r) /\ r' = r /\ Since' = serials /\ serials' = serials
      BY <1>1, <1>8, <2>1
    <3> HIDE DEF r
    <3>2. r'.serial \in Nat /\ r'.serial = r.serial /\ r'.address = r.address
      BY <3>1 DEF Reference
    <3> QED
      BY <1>0, <3>1, <3>2 DEF Leads, r
<1>10. eden' \in Seq(EdenObject) /\ old_gen' \in Seq(EdenObject) /\ Len(eden') = 0
  BY <1>1, <1>6
<1> QED
  BY <1>0, <1>1, <1>6, <1>7, <1>8, <1>9, <1>10 DEF JvmInv, JvmTypeOK

LEMMA PushFrame ==
    JvmInv /\ stack_push_frame => JvmInv'
<1> SUFFICES ASSUME JvmInv, stack_push_frame PROVE JvmInv'
  OBVIOUS
<1>0. /\ eden \in Seq(EdenObject) /\ stack \in Seq(Seq(Reference)) /\ old_gen = << >>
      /\ serials \in Nat /\ wiped \in Seq(Nat) /\ Since \in Nat /\ Since <= serials
      /\ Len(eden) = serials - Since /\ Len(eden) \in Nat /\ Len(stack) \in Nat /\ Len(wiped) \in Nat
  BY DomainsAre, LenProperties DEF JvmInv, JvmTypeOK
<1>01. \A i \in 1 .. Len(eden) : eden[i] = [serial |-> Since + i, gc_age |-> 0]
  BY DEF JvmInv
<1>02. \A f \in 1 .. Len(stack) : \A k \in 1 .. Len(stack[f]) : Leads(stack[f][k]) /\ stack[f][k] \in Reference
  BY DomainsAre, ElementOfSeq DEF JvmInv
<1>1. stack' = Append(stack, << >>) /\ UNCHANGED <<eden, old_gen, serials, wiped>>
  BY DEF stack_push_frame
<1>2. /\ stack' \in Seq(Seq(Reference)) /\ Len(stack') = Len(stack) + 1
      /\ \A f \in 1 .. Len(stack) : stack'[f] = stack[f]
      /\ stack'[Len(stack) + 1] = << >>
  <2>1. << >> \in Seq(Reference)
    OBVIOUS
  <2> QED
    BY <1>0, <1>1, <2>1, AppendProperties
<1>3. \A f \in 1 .. Len(stack') : \A k \in 1 .. Len(stack'[f]) : Leads(stack'[f][k])
  <2> SUFFICES ASSUME NEW f \in 1 .. Len(stack'), NEW k \in 1 .. Len(stack'[f]) PROVE Leads(stack'[f][k])
    OBVIOUS
  <2>1. f # Len(stack) + 1
    BY <1>2
  <2>2. f \in 1 .. Len(stack)
    BY <1>0, <1>2, <2>1
  <2> QED
    BY <1>02, <1>2, <2>2
<1> QED
  BY <1>0, <1>1, <1>2, <1>3, <1>01 DEF Since, Leads, JvmInv, JvmTypeOK

LEMMA PopFrame ==
    JvmInv /\ stack_pop_frame => JvmInv'
<1> SUFFICES ASSUME JvmInv, stack_pop_frame PROVE JvmInv'
  OBVIOUS
<1>0. /\ eden \in Seq(EdenObject) /\ stack \in Seq(Seq(Reference)) /\ old_gen = << >>
      /\ serials \in Nat /\ wiped \in Seq(Nat) /\ Since \in Nat /\ Since <= serials
      /\ Len(eden) = serials - Since /\ Len(eden) \in Nat /\ Len(stack) \in Nat /\ Len(wiped) \in Nat
  BY DomainsAre, LenProperties DEF JvmInv, JvmTypeOK
<1>01. \A i \in 1 .. Len(eden) : eden[i] = [serial |-> Since + i, gc_age |-> 0]
  BY DEF JvmInv
<1>02. \A f \in 1 .. Len(stack) : \A k \in 1 .. Len(stack[f]) : Leads(stack[f][k]) /\ stack[f][k] \in Reference
  BY DomainsAre, ElementOfSeq DEF JvmInv
<1>1. stack # << >> /\ stack' = SubSeq(stack, 1, Len(stack) - 1) /\ UNCHANGED <<eden, old_gen, serials, wiped>>
  BY DEF stack_pop_frame, Front
<1>2. /\ stack' \in Seq(Seq(Reference)) /\ Len(stack') = Len(stack) - 1
      /\ \A f \in 1 .. Len(stack) - 1 : stack'[f] = stack[f]
  <2>1. Len(stack) \in Nat \ {0} /\ \A f \in 1 .. Len(stack) - 1 : stack[f] \in Seq(Reference)
    BY <1>0, <1>1, ElementOfSeq, EmptySeq
  <2>2. /\ stack' \in Seq(Seq(Reference))
        /\ Len(stack') = IF 1 <= Len(stack) - 1 THEN (Len(stack) - 1) - 1 + 1 ELSE 0
        /\ \A f \in 1 .. (Len(stack) - 1) - 1 + 1 : stack'[f] = stack[1 + f - 1]
    BY <1>1, <2>1, SubSeqProperties
  <2> DEFINE n == Len(stack)
  <2>3. n \in Nat \ {0}
    BY <2>1
  <2>4. Len(stack') = n - 1
    <3>1. Len(stack') = IF 1 <= n - 1 THEN (n - 1) - 1 + 1 ELSE 0
      BY <2>2
    <3> HIDE DEF n
    <3> QED
      BY <2>3, <3>1
  <2>5. \A f \in 1 .. n - 1 : f \in 1 .. (n - 1) - 1 + 1 /\ 1 + f - 1 = f
    <3> HIDE DEF n
    <3> QED
      BY <2>3
  <2> QED
    BY <2>2, <2>4, <2>5
<1>3. \A f \in 1 .. Len(stack') : \A k \in 1 .. Len(stack'[f]) : Leads(stack'[f][k])
  <2> DEFINE n == Len(stack)
  <2>0. n \in Nat /\ Len(stack') = n - 1 /\ \A f \in 1 .. n - 1 : stack'[f] = stack[f]
    BY <1>0, <1>2
  <2> HIDE DEF n
  <2>01. \A f \in 1 .. n - 1 : f \in 1 .. n
    BY <2>0
  <2>1. \A f \in 1 .. Len(stack') : f \in 1 .. Len(stack) /\ stack'[f] = stack[f]
    BY <2>0, <2>01 DEF n
  <2> QED
    BY <1>02, <2>1
<1> QED
  BY <1>0, <1>1, <1>2, <1>3, <1>01 DEF Since, Leads, JvmInv, JvmTypeOK

LEMMA AddRef ==
    JvmInv /\ frame_add_ref => JvmInv'
<1> SUFFICES ASSUME JvmInv, frame_add_ref PROVE JvmInv'
  OBVIOUS
<1>0. /\ eden \in Seq(EdenObject) /\ stack \in Seq(Seq(Reference)) /\ old_gen = << >>
      /\ serials \in Nat /\ wiped \in Seq(Nat) /\ Since \in Nat /\ Since <= serials
      /\ Len(eden) = serials - Since /\ Len(eden) \in Nat /\ Len(stack) \in Nat /\ Len(wiped) \in Nat
  BY DomainsAre, LenProperties DEF JvmInv, JvmTypeOK
<1>01. \A i \in 1 .. Len(eden) : eden[i] = [serial |-> Since + i, gc_age |-> 0]
  BY DEF JvmInv
<1>02. \A f \in 1 .. Len(stack) : \A k \in 1 .. Len(stack[f]) : Leads(stack[f][k]) /\ stack[f][k] \in Reference
  BY DomainsAre, ElementOfSeq DEF JvmInv
<1> DEFINE n == Len(stack)
           made == {[address |-> i, serial |-> eden[i].serial] : i \in DOMAIN eden}
           below == UNION {ToSet(stack[f]) : f \in {Len(stack) - 1} \ {0}}
<1>1. stack # << >> /\ UNCHANGED <<eden, old_gen, serials, wiped>>
  BY DEF frame_add_ref
<1>2. PICK ref \in made \cup below : stack' = [stack EXCEPT ![n] = Append(stack[n], ref)]
  BY DEF frame_add_ref
<1>3. n \in Nat \ {0} /\ n \in 1 .. n /\ DOMAIN stack = 1 .. n
  BY <1>0, <1>1, LenProperties, EmptySeq
<1>4. ref \in Reference /\ Leads(ref)
  <2>1. CASE ref \in made
    <3>1. PICK i \in DOMAIN eden : ref = [address |-> i, serial |-> eden[i].serial]
      BY <2>1
    <3>2. i \in 1 .. Len(eden) /\ i \in Nat /\ eden[i].serial = Since + i
      <4>1. DOMAIN eden = 1 .. Len(eden) /\ Len(eden) \in Nat
        BY <1>0, LenProperties
      <4>2. i \in 1 .. Len(eden) /\ i \in Nat
        BY <4>1
      <4>3. eden[i] = [serial |-> Since + i, gc_age |-> 0]
        BY <1>01, <4>2
      <4> QED
        BY <4>2, <4>3
    <3> QED
      BY <1>0, <3>1, <3>2 DEF Reference, Leads
  <2>2. CASE ref \in below
    <3>1. PICK f \in {Len(stack) - 1} \ {0} : ref \in ToSet(stack[f])
      BY <2>2
    <3>2. f \in 1 .. Len(stack)
      <4>1. f = Len(stack) - 1 /\ f # 0
        BY <3>1
      <4> QED
        BY <1>3, <4>1
    <3>3. PICK k \in DOMAIN stack[f] : ref = stack[f][k]
      BY <3>1 DEF ToSet
    <3>4. k \in 1 .. Len(stack[f])
      BY <1>0, <3>2, ElementOfSeq, LenProperties
    <3> QED
      BY <1>02, <3>2, <3>3, <3>4
  <2> QED
    BY <2>1, <2>2
<1> HIDE DEF n, made, below
<1>5. stack[n] \in Seq(Reference)
  BY <1>0, <1>3, ElementOfSeq DEF n
<1> DEFINE top == Append(stack[n], ref)
<1>6. /\ top \in Seq(Reference) /\ Len(top) = Len(stack[n]) + 1
      /\ \A k \in 1 .. Len(stack[n]) : top[k] = stack[n][k]
      /\ top[Len(stack[n]) + 1] = ref
  BY <1>4, <1>5, AppendProperties
<1>7. stack' = [stack EXCEPT ![n] = top]
  BY <1>2
<1> HIDE DEF top
<1>8. /\ stack' \in Seq(Seq(Reference)) /\ Len(stack') = n
      /\ \A f \in 1 .. n : stack'[f] = IF f = n THEN top ELSE stack[f]
  BY <1>0, <1>3, <1>6, <1>7 DEF n
<1>9. \A f \in 1 .. Len(stack') : \A k \in 1 .. Len(stack'[f]) : Leads(stack'[f][k])
  <2> SUFFICES ASSUME NEW f \in 1 .. n, NEW k \in 1 .. Len(stack'[f]) PROVE Leads(stack'[f][k])
    BY <1>8
  <2>1. CASE f = n
    <3>1. k \in 1 .. Len(top) /\ stack'[f][k] = top[k] /\ Len(stack[n]) \in Nat
      BY <1>8, <2>1, <1>5, LenProperties
    <3>2. CASE k = Len(stack[n]) + 1
      BY <1>4, <1>6, <3>1, <3>2
    <3>3. CASE k # Len(stack[n]) + 1
      <4>1. k \in 1 .. Len(stack[n])
        BY <1>6, <3>1, <3>3
      <4> QED
        BY <1>02, <1>3, <1>6, <3>1, <4>1 DEF n
    <3> QED
      BY <3>2, <3>3
  <2>2. CASE f # n
    BY <1>02, <1>8, <2>2 DEF n
  <2> QED
    BY <2>1, <2>2
<1> QED
  BY <1>0, <1>1, <1>8, <1>9, <1>01 DEF Since, Leads, JvmInv, JvmTypeOK

LEMMA JvmStep ==
    JvmInv /\ [JvmNext]_jvmVars => JvmInv'
<1> SUFFICES ASSUME JvmInv, [JvmNext]_jvmVars PROVE JvmInv'
  OBVIOUS
<1>1. CASE JvmNext
  BY <1>1, EdenAlloc, MinorGc, PushFrame, PopFrame, AddRef DEF JvmNext
<1>2. CASE UNCHANGED jvmVars
  BY <1>2 DEF jvmVars, JvmInv, JvmTypeOK, Since, Leads
<1> QED
  BY <1>1, <1>2

LEMMA ReferencesAreTold ==
    JvmInv => NothingGrowsOld
<1> SUFFICES ASSUME JvmInv PROVE NothingGrowsOld
  OBVIOUS
<1>0. /\ eden \in Seq(EdenObject) /\ stack \in Seq(Seq(Reference)) /\ old_gen = << >>
      /\ serials \in Nat /\ wiped \in Seq(Nat) /\ Since \in Nat /\ Since <= serials
      /\ Len(eden) = serials - Since /\ Len(eden) \in Nat /\ Len(stack) \in Nat /\ Len(wiped) \in Nat
  BY DomainsAre, LenProperties DEF JvmInv, JvmTypeOK
<1>01. \A i \in 1 .. Len(eden) : eden[i] = [serial |-> Since + i, gc_age |-> 0]
  BY DEF JvmInv
<1>02. \A f \in 1 .. Len(stack) : \A k \in 1 .. Len(stack[f]) : Leads(stack[f][k]) /\ stack[f][k] \in Reference
  BY DomainsAre, ElementOfSeq DEF JvmInv
<1> DEFINE refs == UNION {ToSet(stack[f]) : f \in DOMAIN stack}
           there(r) == r.address \in DOMAIN eden /\ eden[r.address].serial = r.serial
<1>1. Len(eden) \in Nat /\ DOMAIN eden = 1 .. Len(eden)
  BY <1>0, LenProperties
<1>2. (IF wiped = << >> THEN 0 ELSE Last(wiped)) = Since
  BY DEF Since, Last
<1>3. ASSUME NEW r \in refs
      PROVE  there(r) <=> r.serial > Since
  <2>1. PICK f \in DOMAIN stack : r \in ToSet(stack[f])
    BY <1>3
  <2>2. f \in 1 .. Len(stack) /\ DOMAIN stack[f] = 1 .. Len(stack[f])
    BY <1>0, ElementOfSeq, LenProperties
  <2>3. PICK k \in 1 .. Len(stack[f]) : r = stack[f][k]
    BY <2>1, <2>2 DEF ToSet
  <2>4. r \in Reference /\ Leads(r)
    BY <1>02, <2>2, <2>3
  <2>5. CASE r.serial > Since
    <3>1. r.address = r.serial - Since /\ r.address \in 1 .. Len(eden)
      <4>1. r.serial \in Nat /\ r.address \in Nat
        BY <2>4 DEF Reference
      <4>2. r.serial <= serials /\ r.address = r.serial - Since
        BY <2>4, <2>5 DEF Leads
      <4> QED
        BY <1>0, <2>5, <4>1, <4>2
    <3> QED
      BY <1>0, <1>01, <1>1, <2>4, <2>5, <3>1 DEF Reference
  <2>6. CASE ~ r.serial > Since
    <3> SUFFICES ASSUME there(r) PROVE FALSE
      BY <2>6
    <3>1. r.address \in 1 .. Len(eden) /\ r.serial = Since + r.address
      BY <1>01, <1>1
    <3> QED
      BY <1>0, <2>4, <2>6, <3>1 DEF Reference
  <2> QED
    BY <2>5, <2>6
<1>4. [i \in DOMAIN eden |-> eden[i].serial] = [i \in 1 .. serials - Since |-> Since + i]
  BY <1>0, <1>01, <1>1
<1> HIDE DEF refs
<1> QED
  BY <1>0, <1>01, <1>1, <1>2, <1>3, <1>4 DEF NothingGrowsOld, refs

\* For a heap, a stack and a number of collections of any size: a reference leads to
\* its object exactly until the next collection, and no object reaches the old
\* generation, heap_stack_model.c.
THEOREM NobodyGrowsOld == JvmSpec => [](JvmTypeOK /\ NothingGrowsOld)
<1>1. JvmInv => JvmTypeOK /\ NothingGrowsOld
  BY ReferencesAreTold DEF JvmInv
<1> QED
  BY <1>1, JvmStart, JvmStep, PTL DEF JvmSpec
-----------------------------------------------------------------------------
(***************************************************************************)
(* The counters.  What the threads have left is added up by a recursive    *)
(* function, whose values are compared up to the first place where they would *)
(* differ.                                                                 *)
(***************************************************************************)

CountersTypeOK ==
    /\ counting \in {"race", "atomic"}
    /\ counter \in Nat
    /\ counters \in [1 .. NUM_THREADS -> [left : 0 .. INCREMENTS, loaded : Nat \cup {Nothing}]]

Total == NUM_THREADS * INCREMENTS

\* Whoever has stored has seen a 1, so the counter is 1 again only while somebody
\* has all increments but one before it; and it loses but never invents one.
CountersInv ==
    /\ CountersTypeOK
    /\ \A t \in 1 .. NUM_THREADS :
          /\ counters[t].left < INCREMENTS => counter >= 1
          /\ counters[t].loaded # Nothing =>
                /\ counting = "race" /\ counters[t].left > 0
                /\ counters[t].left < INCREMENTS => counters[t].loaded >= 1
                /\ counters[t].loaded <= Total - IncrementsLeft(counters)
    /\ counter <= 1 => \E t \in 1 .. NUM_THREADS : counters[t].left >= INCREMENTS - 1
    /\ counter <= Total - IncrementsLeft(counters)
    /\ counting = "atomic" => counter = Total - IncrementsLeft(counters)

\* f adds up what the threads up to n have left.
AddsLeft(f, c, n) ==
    f = [k \in 0 .. n |-> IF k = 0 THEN 0 ELSE f[k - 1] + c[k].left]

LEMMA AddsLeftExists ==
    ASSUME NEW c, NEW n \in Nat
    PROVE  \E f : AddsLeft(f, c, n)
<1> DEFINE T == {m \in Nat : ~ \E f : AddsLeft(f, c, m)}
<1> SUFFICES ASSUME T # {} PROVE FALSE
  OBVIOUS
<1>1. PICK m \in T : \A k \in T : m <= k
  BY Least
<1>2. CASE m = 0
  <2> DEFINE f == [k \in 0 .. 0 |-> 0]
  <2>1. AddsLeft(f, c, 0)
    BY DEF AddsLeft
  <2> QED
    BY <1>2, <2>1
<1>3. CASE m # 0
  <2>1. m - 1 \in Nat /\ m - 1 \notin T
    BY <1>1, <1>3
  <2>2. PICK f : AddsLeft(f, c, m - 1)
    BY <2>1
  <2> DEFINE g == [k \in 0 .. m |-> IF k < m THEN f[k] ELSE f[m - 1] + c[m].left]
  <2>3. ASSUME NEW k \in 0 .. m
        PROVE  g[k] = IF k = 0 THEN 0 ELSE g[k - 1] + c[k].left
    <3>1. CASE k = m
      <4>1. g[k] = f[m - 1] + c[m].left
        BY <3>1
      <4>2. g[m - 1] = f[m - 1]
        BY <2>1
      <4> QED
        BY <1>3, <3>1, <4>1, <4>2
    <3>2. CASE k # m
      <4>1. k \in 0 .. m - 1 /\ g[k] = f[k] /\ (k # 0 => g[k - 1] = f[k - 1])
        BY <2>1, <3>2
      <4>2. f[k] = IF k = 0 THEN 0 ELSE f[k - 1] + c[k].left
        BY <2>2, <4>1 DEF AddsLeft
      <4> QED
        BY <4>1, <4>2
    <3> QED
      BY <3>1, <3>2
  <2>4. AddsLeft(g, c, m)
    BY <2>3 DEF AddsLeft
  <2> QED
    BY <2>4
<1> QED
  BY <1>2, <1>3

LEMMA LeftIsLast ==
    ASSUME NEW c
    PROVE  \E f : AddsLeft(f, c, NUM_THREADS) /\ IncrementsLeft(c) = f[NUM_THREADS]
<1> DEFINE f == CHOOSE f : AddsLeft(f, c, NUM_THREADS)
<1>1. AddsLeft(f, c, NUM_THREADS)
  BY CounterConstants, AddsLeftExists
<1>2. IncrementsLeft(c) = f[NUM_THREADS]
  BY DEF IncrementsLeft, AddsLeft
<1> QED
  BY <1>1, <1>2

Lefts == [1 .. NUM_THREADS -> [left : 0 .. INCREMENTS, loaded : Nat \cup {Nothing}]]

\* The sum is a number, and 0 only if nobody has anything left.
LEMMA LeftIsNat ==
    ASSUME NEW c \in Lefts
    PROVE  /\ IncrementsLeft(c) \in Nat
           /\ IncrementsLeft(c) = 0 => \A t \in 1 .. NUM_THREADS : c[t].left = 0
<1> DEFINE N == NUM_THREADS
<1>1. PICK f : AddsLeft(f, c, N) /\ IncrementsLeft(c) = f[N]
  BY LeftIsLast
<1>2. N \in Nat /\ INCREMENTS \in Nat
  BY CounterConstants
<1>3. \A t \in 1 .. N : c[t].left \in Nat
  BY <1>2 DEF Lefts
<1>4. /\ f[0] = 0
      /\ \A k \in 1 .. N : f[k] = f[k - 1] + c[k].left
  BY <1>1, <1>2 DEF AddsLeft
<1> DEFINE Fine(k) == f[k] \in Nat /\ (f[k] = 0 => \A t \in 1 .. k : c[t].left = 0)
           T == {k \in 0 .. N : ~ Fine(k)}
<1> HIDE DEF N
<1>5. T = {}
  <2> SUFFICES ASSUME T # {} PROVE FALSE
    OBVIOUS
  <2>1. PICK m \in T : \A k \in T : m <= k
    <3>1. T \subseteq Nat
      BY <1>2
    <3> QED
      BY <3>1, Least
  <2>2. m \in 0 .. N /\ ~ Fine(m)
    OBVIOUS
  <2>3. m # 0
    <3>1. Fine(0)
      BY <1>4
    <3> QED
      BY <2>2, <3>1
  <2>4. m \in 1 .. N /\ m - 1 \in 0 .. N /\ m - 1 \notin T
    BY <1>2, <2>1, <2>2, <2>3
  <2>5. f[m - 1] \in Nat /\ (f[m - 1] = 0 => \A t \in 1 .. m - 1 : c[t].left = 0)
    BY <2>4
  <2>6. f[m] = f[m - 1] + c[m].left /\ c[m].left \in Nat
    BY <1>3, <1>4, <2>4
  <2>7. f[m] \in Nat /\ (f[m] = 0 => \A t \in 1 .. m : c[t].left = 0)
    <3>1. f[m] \in Nat
      BY <2>5, <2>6
    <3>2. ASSUME f[m] = 0, NEW t \in 1 .. m PROVE c[t].left = 0
      <4>1. f[m - 1] = 0 /\ c[m].left = 0
        BY <2>5, <2>6, <3>2
      <4>2. t = m \/ t \in 1 .. m - 1
        BY <2>4
      <4> QED
        BY <2>5, <4>1, <4>2
    <3> QED
      BY <3>1, <3>2
  <2> QED
    BY <2>2, <2>7
<1>6. Fine(N)
  BY <1>2, <1>5
<1> QED
  BY <1>1, <1>6 DEF N

\* One thread that makes an increment takes one off the sum; loads take nothing.
LEMMA LeftAfter ==
    ASSUME NEW c \in Lefts, NEW d \in Lefts, NEW t \in 1 .. NUM_THREADS, NEW k \in {0, 1},
           d[t].left = c[t].left - k,
           \A u \in 1 .. NUM_THREADS : u # t => d[u].left = c[u].left
    PROVE  IncrementsLeft(d) = IncrementsLeft(c) - k
<1> DEFINE N == NUM_THREADS
<1>1. PICK f : AddsLeft(f, c, N) /\ IncrementsLeft(c) = f[N]
  BY LeftIsLast
<1>2. PICK g : AddsLeft(g, d, N) /\ IncrementsLeft(d) = g[N]
  BY LeftIsLast
<1>3. N \in Nat /\ INCREMENTS \in Nat
  BY CounterConstants
<1>4. \A u \in 1 .. N : c[u].left \in Nat /\ d[u].left \in Nat
  BY <1>3 DEF Lefts
<1>5. /\ f[0] = 0 /\ g[0] = 0
      /\ \A i \in 1 .. N : f[i] = f[i - 1] + c[i].left /\ g[i] = g[i - 1] + d[i].left
  BY <1>1, <1>2, <1>3 DEF AddsLeft
<1>6. /\ t \in 1 .. N /\ d[t].left = c[t].left - k
      /\ \A u \in 1 .. N : u # t => d[u].left = c[u].left
  OBVIOUS
<1> DEFINE Fine(i) == f[i] \in Int /\ g[i] = f[i] - IF t <= i THEN k ELSE 0
           T == {i \in 0 .. N : ~ Fine(i)}
<1> HIDE DEF N
<1>7. T = {}
  <2> SUFFICES ASSUME T # {} PROVE FALSE
    OBVIOUS
  <2>1. PICK m \in T : \A i \in T : m <= i
    <3>1. T \subseteq Nat
      BY <1>3
    <3> QED
      BY <3>1, Least
  <2>2. m \in 0 .. N /\ ~ Fine(m)
    OBVIOUS
  <2>3. m # 0
    <3>1. ~ (t <= 0)
      BY <1>3, <1>6
    <3>2. f[0] \in Int /\ g[0] = f[0] - 0
      BY <1>5
    <3>3. (IF t <= 0 THEN k ELSE 0) = 0
      BY <3>1
    <3>4. Fine(0)
      BY <3>2, <3>3
    <3> QED
      BY <2>2, <3>4
  <2>4. m \in 1 .. N /\ m - 1 \in 0 .. N /\ m - 1 \notin T
    BY <1>3, <2>1, <2>2, <2>3
  <2>5. f[m - 1] \in Int /\ g[m - 1] = f[m - 1] - IF t <= m - 1 THEN k ELSE 0
    BY <2>4
  <2>6. /\ f[m] = f[m - 1] + c[m].left /\ g[m] = g[m - 1] + d[m].left
        /\ c[m].left \in Nat /\ d[m].left \in Nat
    BY <1>4, <1>5, <2>4
  <2>7. f[m] \in Int /\ g[m] = f[m] - IF t <= m THEN k ELSE 0
    <3>1. CASE m = t
      <4>1. d[m].left = c[m].left - k /\ ~ (t <= m - 1) /\ t <= m
        BY <1>6, <2>4, <3>1
      <4> QED
        BY <2>5, <2>6, <4>1
    <3>2. CASE m # t
      <4>1. d[m].left = c[m].left /\ (t <= m - 1 <=> t <= m)
        BY <1>6, <2>4, <3>2
      <4> QED
        BY <2>5, <2>6, <4>1
    <3> QED
      BY <3>1, <3>2
  <2> QED
    BY <2>2, <2>7
<1>8. Fine(N)
  BY <1>3, <1>7
<1>9. t <= N
  BY <1>3, <1>6
<1> QED
  BY <1>1, <1>2, <1>8, <1>9 DEF N

LEMMA LeftAtStart ==
    ASSUME NEW c, \A t \in 1 .. NUM_THREADS : c[t].left = INCREMENTS
    PROVE  IncrementsLeft(c) = Total
<1> DEFINE N == NUM_THREADS
<1>1. PICK f : AddsLeft(f, c, N) /\ IncrementsLeft(c) = f[N]
  BY LeftIsLast
<1>2. N \in Nat /\ INCREMENTS \in Nat
  BY CounterConstants
<1>3. /\ f[0] = 0
      /\ \A i \in 1 .. N : f[i] = f[i - 1] + INCREMENTS
  BY <1>1, <1>2 DEF AddsLeft
<1> DEFINE T == {i \in 0 .. N : f[i] # i * INCREMENTS}
<1> HIDE DEF N
<1>4. T = {}
  <2> SUFFICES ASSUME T # {} PROVE FALSE
    OBVIOUS
  <2>1. PICK m \in T : \A i \in T : m <= i
    <3>1. T \subseteq Nat
      BY <1>2
    <3> QED
      BY <3>1, Least
  <2>2. m # 0
    BY <1>2, <1>3
  <2>3. m \in 1 .. N /\ m - 1 \in 0 .. N /\ m - 1 \notin T
    BY <1>2, <2>1, <2>2
  <2>4. f[m] = (m - 1) * INCREMENTS + INCREMENTS
    BY <1>3, <2>3
  <2>5. m \in Int /\ INCREMENTS \in Int
    BY <1>2, <2>3
  <2>6. (m - 1) * INCREMENTS + INCREMENTS = m * INCREMENTS
    BY <2>5
  <2> QED
    BY <2>4, <2>6
<1>5. f[N] = N * INCREMENTS
  BY <1>2, <1>4
<1> QED
  BY <1>1, <1>5 DEF N, Total

LEMMA CountersStart ==
    CountersInit => CountersInv
<1> SUFFICES ASSUME CountersInit PROVE CountersInv
  OBVIOUS
<1>0. /\ counting \in {"race", "atomic"} /\ counter = 0
      /\ counters = [t \in 1 .. NUM_THREADS |-> [left |-> INCREMENTS, loaded |-> Nothing]]
  BY DEF CountersInit
<1>1. NUM_THREADS \in Nat \ {0} /\ INCREMENTS \in Nat \ {0} /\ Total \in Nat
  BY CounterConstants DEF Total
<1>2. \A t \in 1 .. NUM_THREADS : counters[t].left = INCREMENTS /\ counters[t].loaded = Nothing
  BY <1>0
<1>3. IncrementsLeft(counters) = Total
  BY <1>2, LeftAtStart
<1>4. CountersTypeOK
  BY <1>0, <1>1 DEF CountersTypeOK
<1>5. 1 \in 1 .. NUM_THREADS
  BY <1>1
<1>6. \E t \in 1 .. NUM_THREADS : counters[t].left >= INCREMENTS - 1
  BY <1>1, <1>2, <1>5
<1> QED
  BY <1>0, <1>1, <1>2, <1>3, <1>4, <1>6 DEF CountersInv

LEMMA CountersStep ==
    CountersInv /\ [CountersNext]_counterVars => CountersInv'
<1> SUFFICES ASSUME CountersInv, [CountersNext]_counterVars PROVE CountersInv'
  OBVIOUS
<1> DEFINE N == NUM_THREADS
           made == Total - IncrementsLeft(counters)
           madeThen == Total - IncrementsLeft(counters')
<1>0. /\ N \in Nat \ {0, 1} /\ INCREMENTS \in Nat \ {0} /\ Total \in Nat
      /\ counting \in {"race", "atomic"} /\ counter \in Nat
      /\ counters \in Lefts /\ made \in Int
  <2>1. N \in Nat \ {0, 1} /\ INCREMENTS \in Nat \ {0} /\ Total \in Nat
    BY CounterConstants DEF Total
  <2>2. counters \in Lefts
    BY DEF CountersInv, CountersTypeOK, Lefts
  <2> QED
    BY <2>1, <2>2, LeftIsNat DEF CountersInv, CountersTypeOK
<1>01. /\ \A t \in 1 .. N :
             /\ counters[t].left < INCREMENTS => counter >= 1
             /\ counters[t].loaded # Nothing =>
                   /\ counting = "race" /\ counters[t].left > 0
                   /\ counters[t].left < INCREMENTS => counters[t].loaded >= 1
                   /\ counters[t].loaded <= made
       /\ counter <= 1 => \E t \in 1 .. N : counters[t].left >= INCREMENTS - 1
       /\ counter <= made
       /\ counting = "atomic" => counter = made
  BY DEF CountersInv
<1>02. \A t \in 1 .. N : counters[t].left \in 0 .. INCREMENTS /\ counters[t].loaded \in Nat \cup {Nothing}
  BY <1>0 DEF Lefts
<1>1. ASSUME NEW t \in 1 .. N, race_load(t) PROVE CountersInv'
  <2>1. /\ counting = "race" /\ counters[t].left > 0 /\ counters[t].loaded = Nothing
        /\ counters' = [counters EXCEPT ![t].loaded = counter]
        /\ counting' = counting /\ counter' = counter
    BY <1>1 DEF race_load
  <2>2. /\ counters' \in Lefts
        /\ \A u \in 1 .. N : counters'[u].left = counters[u].left
        /\ \A u \in 1 .. N : u # t => counters'[u] = counters[u]
        /\ counters'[t].loaded = counter
    BY <1>0, <2>1 DEF Lefts
  <2>3. madeThen = made
    <3>1. counters'[t].left = counters[t].left - 0
      BY <1>02, <2>2
    <3>2. IncrementsLeft(counters') = IncrementsLeft(counters) - 0
      BY <1>0, <2>2, <3>1, LeftAfter
    <3> QED
      BY <1>0, <3>2, LeftIsNat
  <2>4. CountersTypeOK'
    BY <1>0, <2>1, <2>2 DEF CountersTypeOK, Lefts
  <2> HIDE DEF made, madeThen
  <2>5. \A u \in 1 .. N :
          /\ counters'[u].left < INCREMENTS => counter' >= 1
          /\ counters'[u].loaded # Nothing =>
                /\ counting' = "race" /\ counters'[u].left > 0
                /\ counters'[u].left < INCREMENTS => counters'[u].loaded >= 1
                /\ counters'[u].loaded <= madeThen
    <3> TAKE u \in 1 .. N
    <3>1. CASE u = t
      BY <1>01, <2>1, <2>2, <2>3, <3>1
    <3>2. CASE u # t
      BY <1>01, <2>1, <2>2, <2>3, <3>2
    <3> QED
      BY <3>1, <3>2
  <2>6. counter' <= 1 => \E u \in 1 .. N : counters'[u].left >= INCREMENTS - 1
    BY <1>01, <2>1, <2>2
  <2>7. counter' <= madeThen /\ (counting' = "atomic" => counter' = madeThen)
    BY <1>01, <2>1, <2>3
  <2> QED
    BY <2>4, <2>5, <2>6, <2>7 DEF CountersInv, madeThen
<1>2. ASSUME NEW t \in 1 .. N, counters[t].left > 0,
             counters' \in Lefts, counters'[t].left = counters[t].left - 1, counters'[t].loaded = Nothing,
             \A u \in 1 .. N : u # t => counters'[u] = counters[u],
             counting' = counting, counter' \in Nat, counter' >= 1, counter' <= made + 1,
             counting = "atomic" => counter' = made + 1,
             counter' <= 1 => counters[t].left = INCREMENTS
      PROVE CountersInv'
  <2>1. madeThen = made + 1
    <3>1. \A u \in 1 .. N : u # t => counters'[u].left = counters[u].left
      BY <1>2
    <3>2. IncrementsLeft(counters') = IncrementsLeft(counters) - 1
      BY <1>0, <1>2, <3>1, LeftAfter
    <3> QED
      BY <1>0, <3>2, LeftIsNat
  <2>2. CountersTypeOK'
    BY <1>0, <1>2 DEF CountersTypeOK, Lefts
  <2> HIDE DEF made, madeThen
  <2>3. \A u \in 1 .. N :
          /\ counters'[u].left < INCREMENTS => counter' >= 1
          /\ counters'[u].loaded # Nothing =>
                /\ counting' = "race" /\ counters'[u].left > 0
                /\ counters'[u].left < INCREMENTS => counters'[u].loaded >= 1
                /\ counters'[u].loaded <= madeThen
    <3> TAKE u \in 1 .. N
    <3>1. CASE u = t
      BY <1>2, <3>1
    <3>2. CASE u # t
      BY <1>0, <1>01, <1>02, <1>2, <2>1, <3>2 DEF Nothing
    <3> QED
      BY <3>1, <3>2
  <2>4. counter' <= 1 => \E u \in 1 .. N : counters'[u].left >= INCREMENTS - 1
    BY <1>0, <1>02, <1>2
  <2>5. counter' <= madeThen /\ (counting' = "atomic" => counter' = madeThen)
    BY <1>2, <2>1
  <2> QED
    BY <2>2, <2>3, <2>4, <2>5 DEF CountersInv, madeThen
<1>3. ASSUME NEW t \in 1 .. N, race_store(t) PROVE CountersInv'
  <2> DEFINE new == [left |-> counters[t].left - 1, loaded |-> Nothing]
  <2>1. /\ counters[t].loaded # Nothing
        /\ counter' = counters[t].loaded + 1
        /\ counters' = [counters EXCEPT ![t] = new]
        /\ counting' = counting
    BY <1>3 DEF race_store
  <2>2. /\ counters[t].loaded \in Nat /\ counting = "race" /\ counters[t].left > 0
        /\ (counters[t].left < INCREMENTS => counters[t].loaded >= 1)
        /\ counters[t].loaded <= made
    BY <1>01, <1>02, <2>1
  <2>3. new \in [left : 0 .. INCREMENTS, loaded : Nat \cup {Nothing}]
    BY <1>0, <1>02, <2>2
  <2>4. /\ counters' \in Lefts /\ counters'[t] = new
        /\ \A u \in 1 .. N : u # t => counters'[u] = counters[u]
    <3> HIDE DEF new
    <3> QED
      BY <1>0, <2>1, <2>3 DEF Lefts
  <2> HIDE DEF made
  <2>5. counter' \in Nat /\ counter' >= 1 /\ counter' <= made + 1
        /\ (counter' <= 1 => counters[t].left = INCREMENTS)
    BY <1>0, <1>02, <2>1, <2>2
  <2> QED
    BY <1>2, <2>1, <2>2, <2>4, <2>5
<1>4. ASSUME NEW t \in 1 .. N, atomic_thread(t) PROVE CountersInv'
  <2>1. /\ counting = "atomic" /\ counters[t].left > 0
        /\ counter' = counter + 1
        /\ counters' = [counters EXCEPT ![t].left = counters[t].left - 1]
        /\ counting' = counting
    BY <1>4 DEF atomic_thread
  <2>2. counters[t].loaded = Nothing
    BY <1>01, <2>1
  <2>3. counters[t].left - 1 \in 0 .. INCREMENTS
    BY <1>0, <1>02, <2>1
  <2>4. /\ counters' \in Lefts /\ counters'[t].left = counters[t].left - 1 /\ counters'[t].loaded = Nothing
        /\ \A u \in 1 .. N : u # t => counters'[u] = counters[u]
    BY <1>0, <2>1, <2>2, <2>3 DEF Lefts
  <2> HIDE DEF made
  <2>5. counter' \in Nat /\ counter' >= 1 /\ counter' <= made + 1 /\ counter' = made + 1
        /\ (counter' <= 1 => counters[t].left = INCREMENTS)
    BY <1>0, <1>01, <1>02, <2>1
  <2> QED
    BY <1>2, <2>1, <2>4, <2>5
<1>5. CASE UNCHANGED counterVars
  BY <1>5 DEF counterVars, CountersInv, CountersTypeOK
<1> QED
  BY <1>1, <1>3, <1>4, <1>5 DEF CountersNext

LEMMA CountersAreBounded ==
    CountersInv => CountersTypeOK /\ IncrementsAreBounded
<1> SUFFICES ASSUME CountersInv PROVE IncrementsAreBounded
  BY DEF CountersInv
<1> DEFINE made == Total - IncrementsLeft(counters)
<1>0. /\ NUM_THREADS \in Nat \ {0, 1} /\ INCREMENTS \in Nat \ {0} /\ Total \in Nat
      /\ counter \in Nat /\ counters \in Lefts /\ IncrementsLeft(counters) \in Nat
  <2>1. NUM_THREADS \in Nat \ {0, 1} /\ INCREMENTS \in Nat \ {0} /\ Total \in Nat
    BY CounterConstants DEF Total
  <2>2. counters \in Lefts
    BY DEF CountersInv, CountersTypeOK, Lefts
  <2> QED
    BY <2>1, <2>2, LeftIsNat DEF CountersInv, CountersTypeOK
<1>1. counter <= made /\ (counting = "atomic" => counter = made)
  BY DEF CountersInv
<1>2. ASSUME made = Total PROVE counter >= Min({2, INCREMENTS})
  <2> DEFINE m == Min({2, INCREMENTS})
  <2>1. m \in {2, INCREMENTS} /\ m <= 2 /\ m <= INCREMENTS
    <3>1. \E x \in {2, INCREMENTS} : \A y \in {2, INCREMENTS} : x <= y
      BY <1>0
    <3>2. m = CHOOSE x \in {2, INCREMENTS} : \A y \in {2, INCREMENTS} : x <= y
      BY DEF Min
    <3> QED
      BY <3>1, <3>2
  <2> HIDE DEF m
  <2>2. \A t \in 1 .. NUM_THREADS : counters[t].left = 0
    BY <1>0, <1>2, LeftIsNat
  <2>3. counter >= 1
    <3>1. 1 \in 1 .. NUM_THREADS
      BY <1>0
    <3> QED
      BY <1>0, <2>2, <3>1 DEF CountersInv
  <2>4. counter <= 1 => 0 >= INCREMENTS - 1
    BY <2>2 DEF CountersInv
  <2>5. counter >= m
    BY <1>0, <2>1, <2>3, <2>4
  <2> QED
    BY <2>5 DEF m
<1> QED
  BY <1>1, <1>2 DEF IncrementsAreBounded, Total

\* With any number of threads and of increments, the counters end as the demos say:
\* the atomic one with all of them, the other with two at least and with no more than
\* were made.  volatile_visibility.c:73-179.
THEOREM CountersEndAsTold == CountersSpec => [](CountersTypeOK /\ IncrementsAreBounded)
BY CountersStart, CountersStep, CountersAreBounded, PTL DEF CountersSpec

-----------------------------------------------------------------------------
(***************************************************************************)
(* The wire protocol.  The place of every message in all that was ever     *)
(* written does not change; reading moves the place where the stream begins. *)
(***************************************************************************)

PayloadCells == UNION {ToSet(p) : p \in Payloads}

WireHeader == [type : {"query", "result"}, length : Nat, sequence : Nat]

WireMessage == [type : {"query", "result"}, length : Nat, sequence : Nat, payload : Seq(PayloadCells)]

StreamCell == WireHeader \cup {"unwritten"} \cup PayloadCells

WireTypeOK ==
    /\ next_sequence \in Nat \ {0}
    /\ posted \in Seq(WireMessage) /\ fetched \in Seq(WireMessage)
    /\ stream \in Seq(StreamCell)
    /\ arrived \in 0 .. Len(stream)

\* Message k begins behind cell off[k] of all that was ever written.
Offsets(off) ==
    /\ off \in [1 .. Len(posted) + 1 -> Nat]
    /\ \A k \in 1 .. Len(posted) : off[k + 1] = off[k] + HEADER_CELLS + posted[k].length
    /\ \A j, k \in 1 .. Len(posted) + 1 : j <= k => off[j] <= off[k]

\* The stream is what was written without the messages that were fetched.
Laid(off) ==
    LET base == off[Len(fetched) + 1] IN
    /\ Len(stream) = off[Len(posted) + 1] - base
    /\ \A k \in Len(fetched) + 1 .. Len(posted) :
          \A i \in 1 .. HEADER_CELLS + posted[k].length :
              stream[off[k] - base + i] = Serialized(posted[k])[i]

WireInv ==
    /\ WireTypeOK
    /\ Len(fetched) <= Len(posted)
    /\ \A k \in 1 .. Len(fetched) : fetched[k] = posted[k]
    /\ \A k \in 1 .. Len(posted) : posted[k].length = Len(posted[k].payload)
    /\ \A k \in 1 .. Len(posted) : posted[k].sequence < next_sequence
    /\ \A j, k \in 1 .. Len(posted) : j < k => posted[j].sequence < posted[k].sequence
    /\ \E off : Offsets(off) /\ Laid(off)

LEMMA WireStart ==
    WireInit => WireInv
<1> SUFFICES ASSUME WireInit PROVE WireInv
  OBVIOUS
<1>1. next_sequence = 1 /\ posted = << >> /\ stream = << >> /\ arrived = 0 /\ fetched = << >>
  BY DEF WireInit
<1> DEFINE off == [k \in 1 .. 1 |-> 0]
<1>2. Offsets(off)
  BY <1>1 DEF Offsets
<1>3. Laid(off)
  BY <1>1 DEF Laid
<1> QED
  BY <1>1, <1>2, <1>3 DEF WireInv, WireTypeOK

LEMMA PayloadsAre ==
    ASSUME NEW p \in Payloads
    PROVE  p \in Seq(PayloadCells) /\ Len(p) \in Nat
<1>1. p \in Seq(ToSet(p)) /\ ToSet(p) \subseteq PayloadCells
  BY ProtocolAssumption DEF PayloadCells
<1>2. Len(p) \in Nat /\ p \in [1 .. Len(p) -> ToSet(p)]
  BY <1>1, LenProperties
<1>3. p \in [1 .. Len(p) -> PayloadCells]
  BY <1>1, <1>2
<1> QED
  BY <1>2, <1>3, SeqDef

\* A message in the stream: its header, cells that nobody wrote, its payload.
LEMMA SerializedIs ==
    ASSUME NEW msg \in WireMessage, msg.length = Len(msg.payload)
    PROVE  /\ Serialized(msg) \in Seq(StreamCell)
           /\ Len(Serialized(msg)) = HEADER_CELLS + msg.length
           /\ Serialized(msg)[1] = HeaderOf(msg)
           /\ \A i \in 1 .. msg.length : Serialized(msg)[HEADER_CELLS + i] = msg.payload[i]
<1> DEFINE first == <<HeaderOf(msg)>>
           hole == [i \in 1 .. HEADER_CELLS - 1 |-> "unwritten"]
           H == HEADER_CELLS
           n == msg.length
<1>0. H \in Nat \ {0} /\ n \in Nat /\ msg.payload \in Seq(PayloadCells) /\ Len(msg.payload) = n
  BY ProtocolAssumption DEF WireMessage
<1>1. HeaderOf(msg) \in StreamCell
  BY DEF WireMessage, WireHeader, HeaderOf, StreamCell
<1>2. first \in Seq(StreamCell) /\ Len(first) = 1 /\ first[1] = HeaderOf(msg)
  <2> DEFINE h == HeaderOf(msg)
  <2> HIDE DEF h
  <2>1. h \in StreamCell
    BY <1>1 DEF h
  <2>2. <<h>> \in Seq(StreamCell) /\ Len(<<h>>) = 1 /\ <<h>>[1] = h
    BY <2>1
  <2> QED
    BY <2>2 DEF h
<1>3. hole \in Seq(StreamCell) /\ Len(hole) = H - 1
  <2> HIDE DEF H
  <2>1. "unwritten" \in StreamCell
    BY DEF StreamCell
  <2>2. H - 1 \in Nat /\ hole \in [1 .. H - 1 -> StreamCell]
    BY <1>0, <2>1 DEF H
  <2> HIDE DEF hole
  <2>3. hole \in Seq(StreamCell)
    BY <2>2, SeqDef
  <2>4. Len(hole) \in Nat /\ DOMAIN hole = 1 .. Len(hole) /\ DOMAIN hole = 1 .. H - 1
    BY <2>2, <2>3, LenProperties
  <2> QED
    BY <2>2, <2>3, <2>4
<1>4. msg.payload \in Seq(StreamCell)
  <2>1. msg.payload \in [1 .. n -> PayloadCells]
    BY <1>0, LenProperties
  <2>2. msg.payload \in [1 .. n -> StreamCell]
    BY <2>1 DEF StreamCell
  <2> QED
    BY <1>0, <2>2, SeqDef
<1> DEFINE front == first \o hole
<1> HIDE DEF first, hole, H, n
<1>5. /\ front \in Seq(StreamCell) /\ Len(front) = 1 + (H - 1)
      /\ \A i \in 1 .. 1 + (H - 1) : front[i] = IF i <= 1 THEN first[i] ELSE hole[i - 1]
  BY <1>2, <1>3, ConcatProperties
<1>6. Len(front) = H /\ front[1] = HeaderOf(msg)
  <2>1. 1 \in 1 .. 1 + (H - 1) /\ 1 <= 1
    BY <1>0
  <2> QED
    BY <1>0, <1>2, <1>5, <2>1
<1> HIDE DEF front
<1>7. Serialized(msg) = front \o msg.payload
  BY DEF Serialized, front, first, hole
<1>8. /\ Serialized(msg) \in Seq(StreamCell) /\ Len(Serialized(msg)) = H + n
      /\ \A i \in 1 .. H + n : Serialized(msg)[i] = IF i <= H THEN front[i] ELSE msg.payload[i - H]
  <2> DEFINE rest == msg.payload
  <2>1. rest \in Seq(StreamCell) /\ Len(rest) = n
    BY <1>0, <1>4
  <2> HIDE DEF rest
  <2>2. front \in Seq(StreamCell)
    BY <1>5
  <2>3. /\ front \o rest \in Seq(StreamCell) /\ Len(front \o rest) = Len(front) + Len(rest)
        /\ \A i \in 1 .. Len(front) + Len(rest) :
              (front \o rest)[i] = IF i <= Len(front) THEN front[i] ELSE rest[i - Len(front)]
    <3>1. rest \in Seq(StreamCell)
      BY <2>1
    <3> HIDE DEF StreamCell
    <3>2. \A a, b \in Seq(StreamCell) :
             /\ a \o b \in Seq(StreamCell) /\ Len(a \o b) = Len(a) + Len(b)
             /\ \A i \in 1 .. Len(a) + Len(b) : (a \o b)[i] = IF i <= Len(a) THEN a[i] ELSE b[i - Len(a)]
      BY ConcatProperties
    <3> QED
      BY <2>2, <3>1, <3>2
  <2>4. Serialized(msg) = front \o rest
    BY <1>7 DEF rest
  <2> DEFINE whole == front \o rest
  <2>5. /\ whole \in Seq(StreamCell) /\ Len(whole) = H + n
        /\ \A i \in 1 .. H + n : whole[i] = IF i <= H THEN front[i] ELSE rest[i - H]
    BY <1>6, <2>1, <2>3
  <2> HIDE DEF whole
  <2> QED
    BY <2>4, <2>5 DEF rest, whole
<1>9. \A i \in 1 .. n : Serialized(msg)[H + i] = msg.payload[i]
  <2> TAKE i \in 1 .. n
  <2>1. H + i \in 1 .. H + n /\ ~ (H + i <= H) /\ (H + i) - H = i
    BY <1>0
  <2> QED
    BY <1>8, <2>1
<1>10. 1 \in 1 .. H + n /\ 1 <= H
  BY <1>0
<1> QED
  BY <1>6, <1>8, <1>9, <1>10 DEF H, n

LEMMA WireTyped ==
    ASSUME WireInv
    PROVE  /\ next_sequence \in Nat \ {0}
           /\ posted \in Seq(WireMessage) /\ Len(posted) \in Nat
           /\ fetched \in Seq(WireMessage) /\ Len(fetched) \in Nat /\ Len(fetched) <= Len(posted)
           /\ stream \in Seq(StreamCell) /\ Len(stream) \in Nat
           /\ arrived \in 0 .. Len(stream)
           /\ HEADER_CELLS \in Nat \ {0}
           /\ \A k \in 1 .. Len(posted) :
                 /\ posted[k] \in WireMessage /\ posted[k].length \in Nat
                 /\ posted[k].length = Len(posted[k].payload) /\ posted[k].sequence \in Nat
<1>1. posted \in Seq(WireMessage) /\ fetched \in Seq(WireMessage) /\ stream \in Seq(StreamCell)
  BY DEF WireInv, WireTypeOK
<1>2. \A k \in 1 .. Len(posted) : posted[k] \in WireMessage
  BY <1>1, ElementOfSeq
<1> QED
  BY <1>1, <1>2, LenProperties, ProtocolAssumption DEF WireInv, WireTypeOK, WireMessage

\* A message that fits lies behind all others.
LEMMA WirePost ==
    ASSUME WireInv, NEW type \in {"query", "result"}, NEW payload \in Payloads,
           protocol_serialize_message(type, payload)
    PROVE  WireInv'
<1> DEFINE msg == protocol_create_message(type, payload)
           P == Len(posted)
           H == HEADER_CELLS
<1>0. /\ next_sequence \in Nat \ {0}
      /\ posted \in Seq(WireMessage) /\ P \in Nat
      /\ fetched \in Seq(WireMessage) /\ Len(fetched) \in Nat /\ Len(fetched) <= P
      /\ stream \in Seq(StreamCell) /\ Len(stream) \in Nat
      /\ arrived \in 0 .. Len(stream) /\ H \in Nat \ {0}
  BY WireTyped
<1>01. \A k \in 1 .. P : /\ posted[k] \in WireMessage /\ posted[k].length \in Nat
                         /\ posted[k].length = Len(posted[k].payload) /\ posted[k].sequence \in Nat
  BY WireTyped
<1>02. /\ \A k \in 1 .. Len(fetched) : fetched[k] = posted[k]
       /\ \A k \in 1 .. P : posted[k].sequence < next_sequence
       /\ \A j, k \in 1 .. P : j < k => posted[j].sequence < posted[k].sequence
  BY DEF WireInv
<1>1. payload \in Seq(PayloadCells) /\ Len(payload) \in Nat
  BY PayloadsAre
<1>2. /\ msg \in WireMessage /\ msg.length = Len(msg.payload) /\ msg.length \in Nat
      /\ msg.sequence = next_sequence
  BY <1>0, <1>1 DEF protocol_create_message, WireMessage
<1>3. /\ next_sequence' = next_sequence + 1
      /\ arrived' = arrived /\ fetched' = fetched
      /\ \/ posted' = posted /\ stream' = stream
         \/ posted' = Append(posted, msg) /\ stream' = stream \o Serialized(msg)
  BY DEF protocol_serialize_message
<1> HIDE DEF msg
<1>4. CASE posted' = posted /\ stream' = stream
  <2>1. PICK off : Offsets(off) /\ Laid(off)
    BY DEF WireInv
  <2>2. Offsets(off)' /\ Laid(off)'
    BY <1>3, <1>4, <2>1 DEF Offsets, Laid
  <2>3. \A k \in 1 .. P : posted[k].sequence < next_sequence'
    BY <1>0, <1>01, <1>02, <1>3
  <2> QED
    BY <1>0, <1>01, <1>02, <1>3, <1>4, <2>2, <2>3 DEF WireInv, WireTypeOK
<1>5. CASE posted' = Append(posted, msg) /\ stream' = stream \o Serialized(msg)
  <2> DEFINE cells == Serialized(msg)
             n == H + msg.length
  <2>1. cells \in Seq(StreamCell) /\ Len(cells) = n /\ n \in Nat \ {0}
    BY <1>0, <1>2, SerializedIs
  <2>2. /\ posted' \in Seq(WireMessage) /\ Len(posted') = P + 1
        /\ \A k \in 1 .. P : posted'[k] = posted[k]
        /\ posted'[P + 1] = msg
    BY <1>0, <1>2, <1>5, AppendProperties
  <2> HIDE DEF cells
  <2>3. /\ stream' \in Seq(StreamCell) /\ Len(stream') = Len(stream) + n
        /\ \A i \in 1 .. Len(stream) + n : stream'[i] = IF i <= Len(stream) THEN stream[i] ELSE cells[i - Len(stream)]
    <3>1. /\ stream \o cells \in Seq(StreamCell) /\ Len(stream \o cells) = Len(stream) + Len(cells)
          /\ \A i \in 1 .. Len(stream) + Len(cells) :
                (stream \o cells)[i] = IF i <= Len(stream) THEN stream[i] ELSE cells[i - Len(stream)]
      BY <1>0, <2>1, ConcatProperties
    <3> QED
      BY <1>5, <2>1, <3>1 DEF cells
  <2>4. PICK off : Offsets(off) /\ Laid(off)
    BY DEF WireInv
  <2>41. PICK new : new = [k \in 1 .. (P + 1) + 1 |-> IF k = P + 2 THEN off[P + 1] + n ELSE off[k]]
    OBVIOUS
  <2> DEFINE F == Len(fetched)
  <2>5. /\ off \in [1 .. P + 1 -> Nat]
        /\ \A k \in 1 .. P : off[k + 1] = off[k] + H + posted[k].length
        /\ \A j, k \in 1 .. P + 1 : j <= k => off[j] <= off[k]
    BY <2>4 DEF Offsets
  <2>6. /\ Len(stream) = off[P + 1] - off[F + 1]
        /\ \A k \in F + 1 .. P : \A i \in 1 .. H + posted[k].length :
              stream[off[k] - off[F + 1] + i] = Serialized(posted[k])[i]
    BY <2>4 DEF Laid
  <2> HIDE DEF n, P, H, F
  <2>7. F \in Nat /\ P \in Nat /\ F <= P /\ H \in Nat \ {0} /\ n \in Nat \ {0} /\ n = H + msg.length
    BY <1>0, <2>1 DEF F, n
  <2>8. /\ new \in [1 .. (P + 1) + 1 -> Nat]
        /\ new[P + 2] = off[P + 1] + n
        /\ \A k \in 1 .. P + 1 : new[k] = off[k]
    <3>1. \A k \in 1 .. (P + 1) + 1 : k # P + 2 => k \in 1 .. P + 1
      BY <2>7
    <3>2. P + 1 \in 1 .. P + 1 /\ P + 2 \in 1 .. (P + 1) + 1 /\ \A k \in 1 .. P + 1 : k # P + 2 /\ k \in 1 .. (P + 1) + 1
      BY <2>7
    <3> QED
      BY <2>41, <2>5, <2>7, <3>1, <3>2
  <2>9. Offsets(new)'
    <3>1. new \in [1 .. Len(posted') + 1 -> Nat]
      BY <2>2, <2>8
    <3>2. ASSUME NEW k \in 1 .. Len(posted')
          PROVE  new[k + 1] = new[k] + H + posted'[k].length
      <4>1. CASE k = P + 1
        <5>1. new[k + 1] = off[P + 1] + n /\ new[k] = off[P + 1] /\ posted'[k] = msg
          BY <2>2, <2>7, <2>8, <4>1
        <5>2. off[P + 1] \in Nat
          BY <2>5, <2>7
        <5> QED
          BY <1>2, <2>7, <5>1, <5>2
      <4>2. CASE k # P + 1
        <5>1. k \in 1 .. P /\ k \in 1 .. P + 1 /\ k + 1 \in 1 .. P + 1
          BY <2>2, <2>7, <4>2
        <5> QED
          BY <2>2, <2>5, <2>8, <5>1
      <4> QED
        BY <4>1, <4>2
    <3>3. ASSUME NEW j \in 1 .. Len(posted') + 1, NEW k \in 1 .. Len(posted') + 1, j <= k
          PROVE  new[j] <= new[k]
      <4>1. CASE k = P + 2
        <5>1. CASE j = P + 2
          BY <2>7, <2>8, <4>1, <5>1, <2>5
        <5>2. CASE j # P + 2
          <6>1. j \in 1 .. P + 1 /\ P + 1 \in 1 .. P + 1 /\ j <= P + 1
            BY <2>2, <2>7, <5>2
          <6>2. off[j] <= off[P + 1] /\ off[j] \in Nat /\ off[P + 1] \in Nat
            BY <2>5, <6>1
          <6> QED
            BY <2>7, <2>8, <4>1, <6>1, <6>2
        <5> QED
          BY <5>1, <5>2
      <4>2. CASE k # P + 2
        <5>1. k \in 1 .. P + 1 /\ j \in 1 .. P + 1
          BY <2>2, <2>7, <3>3, <4>2
        <5> QED
          BY <2>5, <2>8, <3>3, <5>1
      <4> QED
        BY <4>1, <4>2
    <3> QED
      BY <3>1, <3>2, <3>3 DEF Offsets, H
  <2>10. Laid(new)'
    <3>1. /\ new[F + 1] = off[F + 1] /\ off[F + 1] \in Nat /\ off[P + 1] \in Nat
          /\ off[F + 1] <= off[P + 1]
      BY <2>5, <2>7, <2>8
    <3>2. Len(stream') = new[Len(posted') + 1] - new[F + 1]
      <4>1. Len(posted') + 1 = P + 2
        BY <2>2, <2>7
      <4> QED
        <5>1. Len(stream') = (off[P + 1] - off[F + 1]) + n
          BY <2>3, <2>6
        <5>2. new[Len(posted') + 1] = off[P + 1] + n
          BY <2>8, <4>1
        <5> QED
          BY <2>7, <3>1, <5>1, <5>2
    <3>3. ASSUME NEW k \in F + 1 .. Len(posted'), NEW i \in 1 .. H + posted'[k].length
          PROVE  stream'[new[k] - new[F + 1] + i] = Serialized(posted'[k])[i]
      <4>1. CASE k = P + 1
        <5>1. posted'[k] = msg /\ new[k] = off[P + 1] /\ i \in 1 .. n
          BY <2>2, <2>7, <2>8, <3>3, <4>1
        <5>2. new[k] - new[F + 1] + i = Len(stream) + i
          BY <2>6, <3>1, <5>1
        <5>3. Len(stream) + i \in 1 .. Len(stream) + n /\ ~ (Len(stream) + i <= Len(stream))
              /\ (Len(stream) + i) - Len(stream) = i
          BY <1>0, <2>7, <5>1
        <5> QED
          BY <2>3, <5>1, <5>2, <5>3 DEF cells
      <4>2. CASE k # P + 1
        <5>1. k \in F + 1 .. P /\ k \in 1 .. P /\ k \in 1 .. P + 1 /\ k + 1 \in 1 .. P + 1 /\ P + 1 \in 1 .. P + 1
              /\ F + 1 \in 1 .. P + 1 /\ F + 1 <= k /\ k + 1 <= P + 1
          BY <2>2, <2>7, <4>2
        <5>2. posted'[k] = posted[k] /\ new[k] = off[k] /\ i \in 1 .. H + posted[k].length
          BY <2>2, <2>8, <3>3, <5>1
        <5>3. /\ off[k + 1] = off[k] + H + posted[k].length /\ off[k + 1] <= off[P + 1] /\ off[F + 1] <= off[k]
              /\ off[k] \in Nat /\ posted[k].length \in Nat
          BY <1>01, <2>5, <5>1 DEF P
        <5>4. off[k] - off[F + 1] + i \in 1 .. Len(stream)
          <6>1. off[k] - off[F + 1] + i >= 1
            BY <3>1, <5>2, <5>3
          <6>2. off[k] - off[F + 1] + i <= off[P + 1] - off[F + 1]
            <7> DEFINE a == off[k]
                       b == off[F + 1]
                       c == off[P + 1]
                       d == posted[k].length
            <7>1. /\ a \in Nat /\ b \in Nat /\ c \in Nat /\ d \in Nat /\ H \in Nat /\ i \in 1 .. H + d
                  /\ a + H + d <= c
              BY <2>7, <3>1, <5>2, <5>3
            <7> HIDE DEF a, b, c, d
            <7>2. a - b + i <= c - b
              BY <7>1
            <7> QED
              BY <7>2 DEF a, b, c
          <6>3. off[k] - off[F + 1] + i \in Int
            BY <3>1, <5>3
          <6> QED
            BY <1>0, <2>6, <6>1, <6>2, <6>3
        <5> DEFINE at == off[k] - off[F + 1] + i
        <5>5. stream[at] = Serialized(posted[k])[i]
          BY <2>6, <5>1, <5>2
        <5>6. new[k] - new[F + 1] + i = at
          BY <3>1, <5>2
        <5> HIDE DEF at
        <5>7. at \in 1 .. Len(stream) + n /\ at <= Len(stream)
          BY <1>0, <2>7, <5>4 DEF at
        <5> QED
          BY <2>3, <5>2, <5>5, <5>6, <5>7
      <4> QED
        BY <4>1, <4>2
    <3> QED
      BY <1>3, <3>2, <3>3 DEF Laid, H, F
  <2>11. \A k \in 1 .. Len(posted') : /\ posted'[k].length = Len(posted'[k].payload)
                                      /\ posted'[k].sequence < next_sequence'
    <3> TAKE k \in 1 .. Len(posted')
    <3>1. CASE k = P + 1
      BY <1>0, <1>2, <1>3, <2>2, <3>1
    <3>2. CASE k # P + 1
      <4>1. k \in 1 .. P
        BY <2>2, <2>7, <3>2
      <4> QED
        BY <1>0, <1>01, <1>02, <1>3, <2>2, <4>1 DEF P
    <3> QED
      BY <3>1, <3>2
  <2>12. \A j, k \in 1 .. Len(posted') : j < k => posted'[j].sequence < posted'[k].sequence
    <3> SUFFICES ASSUME NEW j \in 1 .. Len(posted'), NEW k \in 1 .. Len(posted'), j < k
                 PROVE  posted'[j].sequence < posted'[k].sequence
      OBVIOUS
    <3>1. j \in 1 .. P
      BY <2>2, <2>7
    <3>2. CASE k = P + 1
      BY <1>02, <1>2, <2>2, <3>1, <3>2 DEF P
    <3>3. CASE k # P + 1
      <4>1. k \in 1 .. P
        BY <2>2, <2>7, <3>3
      <4> QED
        BY <1>02, <2>2, <3>1, <4>1 DEF P
    <3> QED
      BY <3>2, <3>3
  <2>13. \A k \in 1 .. Len(fetched') : fetched'[k] = posted'[k]
    <3> TAKE k \in 1 .. Len(fetched')
    <3>1. k \in 1 .. F /\ k \in 1 .. P
      BY <1>3, <2>7 DEF F
    <3> QED
      BY <1>02, <1>3, <2>2, <3>1 DEF F
  <2>14. next_sequence' \in Nat \ {0} /\ Len(fetched') <= Len(posted') /\ arrived' \in 0 .. Len(stream')
    <3>1. next_sequence' \in Nat \ {0}
      BY <1>0, <1>3
    <3>2. Len(fetched') <= Len(posted')
      <4>1. Len(fetched') = F /\ Len(posted') = P + 1
        BY <1>3, <2>2 DEF F
      <4> QED
        BY <2>7, <4>1
    <3>3. arrived' \in 0 .. Len(stream')
      <4>1. arrived' = arrived /\ Len(stream') = Len(stream) + n /\ Len(stream) \in Nat /\ arrived \in 0 .. Len(stream)
        BY <1>0, <1>3, <2>3
      <4> QED
        BY <2>7, <4>1
    <3> QED
      BY <3>1, <3>2, <3>3
  <2> QED
    BY <1>0, <1>3, <2>2, <2>3, <2>9, <2>10, <2>11, <2>12, <2>13, <2>14 DEF WireInv, WireTypeOK
<1> QED
  BY <1>3, <1>4, <1>5

\* What is there of the first message is all of it, and it is the next one.
LEMMA WireFetch ==
    ASSUME WireInv, protocol_deserialize_message
    PROVE  WireInv'
<1> DEFINE P == Len(posted)
           F == Len(fetched)
           H == HEADER_CELLS
           S == Len(stream)
<1>0. /\ next_sequence \in Nat \ {0}
      /\ posted \in Seq(WireMessage) /\ P \in Nat
      /\ fetched \in Seq(WireMessage) /\ F \in Nat /\ F <= P
      /\ stream \in Seq(StreamCell) /\ S \in Nat
      /\ arrived \in 0 .. S /\ H \in Nat \ {0}
  BY WireTyped
<1>01. \A k \in 1 .. P : /\ posted[k] \in WireMessage /\ posted[k].length \in Nat
                         /\ posted[k].length = Len(posted[k].payload) /\ posted[k].sequence \in Nat
  BY WireTyped
<1>02. /\ \A k \in 1 .. F : fetched[k] = posted[k]
       /\ \A k \in 1 .. P : posted[k].sequence < next_sequence
       /\ \A j, k \in 1 .. P : j < k => posted[j].sequence < posted[k].sequence
  BY DEF WireInv
<1>1. PICK off : Offsets(off) /\ Laid(off)
  BY DEF WireInv
<1> DEFINE total == H + stream[1].length
           payload == SubSeq(stream, H + 1, total)
           got == [type |-> stream[1].type, length |-> stream[1].length, sequence |-> stream[1].sequence,
                   payload |-> payload]
<1>2. /\ arrived >= H /\ total <= arrived
      /\ fetched' = Append(fetched, got)
      /\ stream' = SubSeq(stream, total + 1, S)
      /\ arrived' = arrived - total
      /\ UNCHANGED <<next_sequence, posted>>
  BY DEF protocol_deserialize_message
<1>3. /\ off \in [1 .. P + 1 -> Nat]
      /\ \A k \in 1 .. P : off[k + 1] = off[k] + H + posted[k].length
      /\ \A j, k \in 1 .. P + 1 : j <= k => off[j] <= off[k]
  BY <1>1 DEF Offsets
<1>4. /\ S = off[P + 1] - off[F + 1]
      /\ \A k \in F + 1 .. P : \A i \in 1 .. H + posted[k].length :
            stream[off[k] - off[F + 1] + i] = Serialized(posted[k])[i]
  BY <1>1 DEF Laid
<1> DEFINE base == off[F + 1]
           msg == posted[F + 1]
<1> HIDE DEF P, F, H, S, total, payload, got, base, msg
<1>5. F + 1 \in 1 .. P /\ F + 1 \in F + 1 .. P
  <2>1. S > 0
    BY <1>0, <1>2
  <2>2. F # P
    <3>1. P + 1 \in 1 .. P + 1
      BY <1>0
    <3>2. F = P => S = 0
      BY <1>3, <1>4, <3>1
    <3> QED
      BY <2>1, <3>2
  <2> QED
    BY <1>0, <2>2
<1>6. /\ msg \in WireMessage /\ msg.length \in Nat /\ msg.length = Len(msg.payload)
      /\ base \in Nat /\ off[F + 2] = base + H + msg.length
  <2>1. F + 1 \in 1 .. P + 1 /\ (F + 1) + 1 = F + 2
    BY <1>0, <1>5
  <2> QED
    BY <1>01, <1>3, <1>5, <2>1 DEF base, msg
<1>7. \A i \in 1 .. H + msg.length : stream[i] = Serialized(msg)[i]
  <2> TAKE i \in 1 .. H + msg.length
  <2>1. base - base + i = i
    BY <1>6
  <2>2. stream[base - base + i] = Serialized(msg)[i]
    BY <1>4, <1>5 DEF base, msg
  <2> QED
    BY <2>1, <2>2
<1>8. /\ Serialized(msg)[1] = HeaderOf(msg)
      /\ \A i \in 1 .. msg.length : Serialized(msg)[H + i] = msg.payload[i]
  BY <1>6, SerializedIs DEF H
<1>9. stream[1] = HeaderOf(msg) /\ total = H + msg.length
  <2>1. 1 \in 1 .. H + msg.length
    BY <1>0, <1>6
  <2>2. stream[1] = HeaderOf(msg)
    BY <1>7, <1>8, <2>1
  <2>3. stream[1].length = msg.length
    BY <2>2 DEF HeaderOf
  <2> QED
    BY <2>2, <2>3 DEF total
<1>10. payload = msg.payload
  <2>1. msg.payload \in Seq(PayloadCells)
    BY <1>6 DEF WireMessage
  <2> DEFINE n == msg.length
             body == msg.payload
  <2>2. body \in Seq(PayloadCells) /\ Len(body) = n /\ n \in Nat /\ total = H + n
    BY <1>6, <1>9, <2>1
  <2>3. \A i \in 1 .. n : stream[H + i] = body[i]
    <3> TAKE i \in 1 .. n
    <3>1. H + i \in 1 .. H + msg.length
      BY <1>0, <2>2
    <3> QED
      BY <1>7, <1>8, <3>1
  <2> HIDE DEF n, body
  <2>4. \A i \in 1 .. n : body[i] \in PayloadCells
    BY <2>2, ElementOfSeq
  <2>5. ASSUME NEW i \in H + 1 .. total PROVE stream[i] \in PayloadCells
    <3>1. i - H \in 1 .. n /\ H + (i - H) = i
      BY <1>0, <2>2
    <3> QED
      BY <2>3, <2>4, <3>1
  <2>6. /\ payload \in Seq(PayloadCells)
        /\ Len(payload) = IF H + 1 <= total THEN total - (H + 1) + 1 ELSE 0
        /\ \A i \in 1 .. total - (H + 1) + 1 : payload[i] = stream[(H + 1) + i - 1]
    <3>1. H + 1 \in Int /\ total \in Int
      BY <1>0, <2>2
    <3> QED
      BY <2>5, <3>1, SubSeqProperties DEF payload
  <2>7. Len(payload) = n
    BY <1>0, <2>2, <2>6
  <2>8. ASSUME NEW i \in 1 .. n PROVE payload[i] = body[i]
    <3>1. i \in 1 .. total - (H + 1) + 1 /\ (H + 1) + i - 1 = H + i
      BY <1>0, <2>2
    <3> QED
      BY <2>3, <2>6, <3>1
  <2>9. payload = body
    BY <2>2, <2>6, <2>7, <2>8, SeqEqual
  <2> QED
    BY <2>9 DEF body
<1>11. got = msg
  <2>1. got = [type |-> msg.type, length |-> msg.length, sequence |-> msg.sequence, payload |-> msg.payload]
    BY <1>9, <1>10 DEF got, HeaderOf
  <2> QED
    BY <1>6, <2>1 DEF WireMessage
<1>12. /\ fetched' \in Seq(WireMessage) /\ Len(fetched') = F + 1
       /\ \A k \in 1 .. F : fetched'[k] = fetched[k]
       /\ fetched'[F + 1] = msg
  BY <1>0, <1>2, <1>6, <1>11, AppendProperties DEF F
<1>13. \A k \in 1 .. Len(fetched') : fetched'[k] = posted[k]
  <2> TAKE k \in 1 .. Len(fetched')
  <2>1. CASE k = F + 1
    BY <1>12, <2>1 DEF msg
  <2>2. CASE k # F + 1
    <3>1. k \in 1 .. F
      BY <1>0, <1>12, <2>2
    <3> QED
      BY <1>02, <1>12, <3>1
  <2> QED
    BY <2>1, <2>2
<1>14. total \in Nat \ {0} /\ total <= S
  BY <1>0, <1>2, <1>6, <1>9
<1>15. /\ stream' \in Seq(StreamCell) /\ Len(stream') = S - total
       /\ \A i \in 1 .. S - total : stream'[i] = stream[total + i]
  <2>1. \A i \in 1 .. S : stream[i] \in StreamCell
    BY <1>0, ElementOfSeq DEF S
  <2>2. \A i \in total + 1 .. S : stream[i] \in StreamCell
    BY <1>0, <1>14, <2>1
  <2>3. /\ stream' \in Seq(StreamCell)
        /\ Len(stream') = IF total + 1 <= S THEN S - (total + 1) + 1 ELSE 0
        /\ \A i \in 1 .. S - (total + 1) + 1 : stream'[i] = stream[(total + 1) + i - 1]
    <3>1. total + 1 \in Int /\ S \in Int
      BY <1>0, <1>14
    <3> QED
      BY <1>2, <2>2, <3>1, SubSeqProperties
  <2>4. Len(stream') = S - total
    BY <1>0, <1>14, <2>3
  <2>5. ASSUME NEW i \in 1 .. S - total PROVE stream'[i] = stream[total + i]
    <3>1. i \in 1 .. S - (total + 1) + 1 /\ (total + 1) + i - 1 = total + i
      BY <1>0, <1>14
    <3> QED
      BY <2>3, <3>1
  <2> QED
    BY <2>3, <2>4, <2>5
<1>16. Offsets(off)'
  BY <1>1, <1>2 DEF Offsets
<1>17. Laid(off)'
  <2>1. F + 2 \in 1 .. P + 1 /\ P + 1 \in 1 .. P + 1 /\ (F + 1) + 1 = F + 2
    BY <1>0, <1>5
  <2>2. off[F + 2] = base + total /\ off[F + 2] \in Nat /\ off[P + 1] \in Nat
    <3>1. off[F + 2] \in Nat /\ off[P + 1] \in Nat
      BY <1>3, <2>1
    <3>2. off[F + 2] = base + H + msg.length /\ total = H + msg.length
          /\ base \in Nat /\ H \in Nat /\ msg.length \in Nat
      BY <1>0, <1>6, <1>9
    <3> QED
      BY <3>1, <3>2
  <2>3. Len(stream') = off[P + 1] - off[F + 2]
    BY <1>4, <1>6, <1>14, <1>15, <2>2 DEF base
  <2>4. ASSUME NEW k \in F + 2 .. P, NEW i \in 1 .. H + posted[k].length
        PROVE  stream'[off[k] - off[F + 2] + i] = Serialized(posted[k])[i]
    <3>1. k \in F + 1 .. P /\ k \in 1 .. P /\ k \in 1 .. P + 1 /\ k + 1 \in 1 .. P + 1 /\ F + 2 <= k /\ k + 1 <= P + 1
      BY <1>0
    <3>2. /\ off[k + 1] = off[k] + H + posted[k].length /\ off[k + 1] <= off[P + 1] /\ off[F + 2] <= off[k]
          /\ off[k] \in Nat /\ posted[k].length \in Nat /\ off[k + 1] \in Nat
      BY <1>01, <1>3, <2>1, <3>1
    <3> DEFINE at == off[k] - off[F + 2] + i
    <3>3. at >= 1 /\ at \in Int
      BY <2>2, <3>2
    <3>4. at <= off[P + 1] - off[F + 2]
      <4> DEFINE a == off[k]
                 b == off[F + 2]
                 c == off[P + 1]
                 d == posted[k].length
      <4>1. /\ a \in Nat /\ b \in Nat /\ c \in Nat /\ d \in Nat /\ H \in Nat /\ i \in 1 .. H + d
            /\ a + H + d <= c
        BY <1>0, <2>2, <2>4, <3>2
      <4> HIDE DEF a, b, c, d
      <4>2. a - b + i <= c - b
        BY <4>1
      <4> QED
        BY <4>2 DEF a, b, c
    <3>5. off[k] - base + i = total + at
      BY <1>6, <1>14, <2>2, <3>2
    <3>6. stream[off[k] - base + i] = Serialized(posted[k])[i]
      BY <1>4, <2>4, <3>1 DEF base
    <3> HIDE DEF at
    <3>7. at \in 1 .. S - total
      BY <1>15, <2>3, <3>3, <3>4
    <3>8. stream'[at] = Serialized(posted[k])[i]
      BY <1>15, <3>5, <3>6, <3>7
    <3> QED
      BY <3>8 DEF at
  <2>5. Len(fetched') + 1 = F + 2
    BY <1>0, <1>12
  <2>6. Len(stream') = off[Len(posted') + 1] - off[Len(fetched') + 1]
    BY <1>2, <2>3, <2>5 DEF P
  <2>7. ASSUME NEW k \in Len(fetched') + 1 .. Len(posted'), NEW i \in 1 .. HEADER_CELLS + posted'[k].length
        PROVE  stream'[off[k] - off[Len(fetched') + 1] + i] = Serialized(posted'[k])[i]
    <3>1. k \in F + 2 .. P /\ i \in 1 .. H + posted[k].length /\ posted' = posted
      BY <1>2, <2>5, <2>7 DEF P, H
    <3> QED
      BY <2>4, <2>5, <3>1
  <2> QED
    BY <2>6, <2>7 DEF Laid
<1>18. Len(fetched') <= Len(posted') /\ arrived' \in 0 .. Len(stream')
  <2>1. Len(fetched') <= P
    BY <1>0, <1>5, <1>12
  <2>2. arrived' \in 0 .. S - total
    BY <1>0, <1>2, <1>14
  <2> QED
    BY <1>2, <1>15, <2>1, <2>2 DEF P
<1> QED
  BY <1>0, <1>01, <1>02, <1>2, <1>12, <1>13, <1>15, <1>16, <1>17, <1>18 DEF WireInv, WireTypeOK, P

LEMMA WireStep ==
    WireInv /\ [WireNext]_wireVars => WireInv'
<1> SUFFICES ASSUME WireInv, [WireNext]_wireVars PROVE WireInv'
  OBVIOUS
<1>1. CASE CellsArrive
  <2>1. PICK n \in arrived + 1 .. Len(stream) : arrived' = n
    BY <1>1 DEF CellsArrive
  <2>2. UNCHANGED <<next_sequence, posted, stream, fetched>>
    BY <1>1 DEF CellsArrive
  <2>3. arrived' \in 0 .. Len(stream)
    BY <2>1, WireTyped
  <2>4. PICK off : Offsets(off) /\ Laid(off)
    BY DEF WireInv
  <2>5. Offsets(off)' /\ Laid(off)'
    BY <2>2, <2>4 DEF Offsets, Laid
  <2> QED
    BY <2>2, <2>3, <2>5 DEF WireInv, WireTypeOK
<1>2. CASE UNCHANGED wireVars
  <2>1. UNCHANGED <<next_sequence, posted, stream, arrived, fetched>>
    BY <1>2 DEF wireVars
  <2>4. PICK off : Offsets(off) /\ Laid(off)
    BY DEF WireInv
  <2>5. Offsets(off)' /\ Laid(off)'
    BY <2>1, <2>4 DEF Offsets, Laid
  <2> QED
    BY <2>1, <2>5 DEF WireInv, WireTypeOK
<1> QED
  BY <1>1, <1>2, WirePost, WireFetch DEF WireNext

LEMMA MessagesAreWhole ==
    WireInv => WireTypeOK /\ MessagesArriveWhole
<1> SUFFICES ASSUME WireInv PROVE MessagesArriveWhole
  BY DEF WireInv
<1> DEFINE P == Len(posted)
           F == Len(fetched)
<1>0. /\ posted \in Seq(WireMessage) /\ P \in Nat /\ DOMAIN posted = 1 .. P
      /\ fetched \in Seq(WireMessage) /\ F \in Nat /\ F <= P /\ DOMAIN fetched = 1 .. F
      /\ \A k \in 1 .. F : fetched[k] = posted[k]
      /\ \A j, k \in 1 .. P : j < k => posted[j].sequence < posted[k].sequence
  BY WireTyped, LenProperties DEF WireInv
<1> HIDE DEF P, F
<1>1. \A k \in 1 .. F : k \in 1 .. P
  BY <1>0
<1>2. IsPrefix(fetched, posted)
  <2>1. \A k \in 1 .. F : posted[k] \in WireMessage
    BY <1>0, <1>1, ElementOfSeq DEF P
  <2>2. /\ SubSeq(posted, 1, F) \in Seq(WireMessage)
        /\ Len(SubSeq(posted, 1, F)) = F
        /\ \A i \in 1 .. F : SubSeq(posted, 1, F)[i] = posted[i]
    <3>1. /\ SubSeq(posted, 1, F) \in Seq(WireMessage)
          /\ Len(SubSeq(posted, 1, F)) = IF 1 <= F THEN F - 1 + 1 ELSE 0
          /\ \A i \in 1 .. F - 1 + 1 : SubSeq(posted, 1, F)[i] = posted[1 + i - 1]
      <4>1. 1 \in Int /\ F \in Int
        BY <1>0
      <4> QED
        BY <2>1, <4>1, SubSeqProperties
    <3>2. Len(SubSeq(posted, 1, F)) = F
      BY <1>0, <3>1
    <3>3. \A i \in 1 .. F : i \in 1 .. F - 1 + 1 /\ 1 + i - 1 = i
      BY <1>0
    <3> QED
      BY <3>1, <3>2, <3>3
  <2>3. fetched = SubSeq(posted, 1, F)
    BY <1>0, <2>2, SeqEqual DEF F
  <2>4. SubSeq(fetched, 1, F) = fetched
    BY <1>0, SubSeqFull DEF F
  <2> QED
    BY <1>0, <2>3, <2>4 DEF IsPrefix, P, F
<1> QED
  BY <1>0, <1>1, <1>2 DEF MessagesArriveWhole

\* For messages of any kind and a stream cut into pieces anywhere, the reader has the
\* messages that were written, whole and in their order: protocol.c:48-88.
THEOREM MessagesAreExact == WireSpec => [](WireTypeOK /\ MessagesArriveWhole)
BY WireStart, WireStep, MessagesAreWhole, PTL DEF WireSpec

-----------------------------------------------------------------------------
(***************************************************************************)
(* The interpreter.  First what each instruction makes of the stack and    *)
(* the locals; then, for each method, an assertion at every pc about the   *)
(* values on the stack and in the locals, the loops by what they keep.     *)
(***************************************************************************)

\* The machine at pc p, with stack s and these locals.
Machine(p, s, x, y, z) ==
    /\ interp_pc = p /\ operand_stack = s
    /\ DOMAIN local_vars = 0 .. 2
    /\ local_vars[0] = x /\ local_vars[1] = y /\ local_vars[2] = z

LEMMA PushedOn ==
    ASSUME NEW a, NEW b, NEW v
    PROVE  Pushed(<< >>, v) = <<v>> /\ Pushed(<<a>>, v) = <<a, v>> /\ Pushed(<<a, b>>, v) = <<a, b, v>>
<1>1. Pushed(<< >>, v) = <<v>>
  BY InterpreterConstants, SMT DEF Pushed
<1> DEFINE S == {a, b, v}
<1>2. Pushed(<<a>>, v) = <<a, v>>
  <2>1. <<a, v>> \in Seq(S) /\ Append(<<a>>, v) \in Seq(S)
    OBVIOUS
  <2>2. Len(<<a, v>>) = 2 /\ Len(<<a>>) = 1 /\ Len(Append(<<a>>, v)) = 2
    OBVIOUS
  <2>3. \A j \in 1 .. 2 : Append(<<a>>, v)[j] = <<a, v>>[j]
    OBVIOUS
  <2> HIDE DEF S
  <2>4. Append(<<a>>, v) = <<a, v>>
    BY <2>1, <2>2, <2>3, SeqEqual
  <2> QED BY <2>2, <2>4, InterpreterConstants DEF Pushed
<1>3. Pushed(<<a, b>>, v) = <<a, b, v>>
  <2>1. <<a, b, v>> \in Seq(S) /\ Append(<<a, b>>, v) \in Seq(S)
    OBVIOUS
  <2>2. Len(<<a, b, v>>) = 3 /\ Len(<<a, b>>) = 2 /\ Len(Append(<<a, b>>, v)) = 3
    OBVIOUS
  <2>3. \A j \in 1 .. 3 : Append(<<a, b>>, v)[j] = <<a, b, v>>[j]
    OBVIOUS
  <2> HIDE DEF S
  <2>4. Append(<<a, b>>, v) = <<a, b, v>>
    BY <2>1, <2>2, <2>3, SeqEqual
  <2> QED BY <2>2, <2>4, InterpreterConstants DEF Pushed
<1> QED BY <1>1, <1>2, <1>3

LEMMA TopsAre ==
    ASSUME NEW a, NEW b, NEW c
    PROVE  TopOf(<< >>) = 0 /\ TopOf(<<a>>) = a /\ TopOf(<<a, b>>) = b /\ TopOf(<<a, b, c>>) = c
BY SMT DEF TopOf, Last

LEMMA PoppedFrom ==
    ASSUME NEW a, NEW b, NEW c
    PROVE  /\ Popped(<< >>) = << >> /\ Popped(<<a>>) = << >>
           /\ Popped(<<a, b>>) = <<a>> /\ Popped(<<a, b, c>>) = <<a, b>>
<1>1. Popped(<< >>) = << >>
  BY SMT DEF Popped
<1>2. Popped(<<a>>) = << >>
  BY SMT DEF Popped, Front
<1> DEFINE S == {a, b, c}
<1>3. Popped(<<a, b>>) = <<a>>
  <2> DEFINE f == SubSeq(<<a, b>>, 1, 1)
  <2>1. <<a>> \in Seq(S) /\ f \in Seq(S)
    OBVIOUS
  <2>2. Len(<<a>>) = 1 /\ Len(<<a, b>>) = 2 /\ Len(f) = 1 /\ <<a, b>> # << >>
    OBVIOUS
  <2>3. \A j \in 1 .. 1 : f[j] = <<a>>[j]
    OBVIOUS
  <2>4. Popped(<<a, b>>) = f
    BY <2>2 DEF Popped, Front
  <2> HIDE DEF S, f
  <2> QED BY <2>1, <2>2, <2>3, <2>4, SeqEqual
<1>4. Popped(<<a, b, c>>) = <<a, b>>
  <2> DEFINE f == SubSeq(<<a, b, c>>, 1, 2)
  <2>1. <<a, b>> \in Seq(S) /\ f \in Seq(S)
    OBVIOUS
  <2>2. Len(<<a, b>>) = 2 /\ Len(<<a, b, c>>) = 3 /\ Len(f) = 2 /\ <<a, b, c>> # << >>
    OBVIOUS
  <2>3. \A j \in 1 .. 2 : f[j] = <<a, b>>[j]
    OBVIOUS
  <2>4. Popped(<<a, b, c>>) = f
    BY <2>2 DEF Popped, Front
  <2> HIDE DEF S, f
  <2> QED BY <2>1, <2>2, <2>3, <2>4, SeqEqual
<1> QED BY <1>1, <1>2, <1>3, <1>4

LEMMA Dispatches ==
    ASSUME NEW i, Dispatch(i)
    PROVE  /\ i[2] \in {"iadd", "isub", "imul", "idiv", "irem"} => exec_arithmetic(i[2])
           /\ i[2] \in Conditions => exec_if_icmp(i[2], i[3])
           /\ i[2] = "ineg"       => exec_ineg
           /\ i[2] = "goto"       => exec_goto(i[3])
           /\ i[2] = "return"     => exec_return
           /\ i[2] = "iload"      => exec_iload(i[3])
           /\ i[2] = "istore"     => exec_istore(i[3])
           /\ i[2] = "iconst"     => exec_iconst(i[3])
           /\ i[2] = "bipush"     => exec_bipush
           /\ i[2] = "new"        => exec_new
           /\ i[2] = "getfield"   => exec_getfield
           /\ i[2] = "putfield"   => exec_putfield
           /\ i[2] = "getstatic"  => exec_getstatic
           /\ i[2] = "putstatic"  => exec_putstatic
BY DEF Dispatch, Arithmetic, Conditions

LEMMA Loads ==
    ASSUME NEW p, NEW s, NEW x, NEW y, NEW z, Machine(p, s, x, y, z), NEW i, Dispatch(i), i[2] = "iload",
           NEW q, q = p + 2, NEW t
    PROVE  /\ i[3] = 0 /\ t = Pushed(s, x) => Machine(q, t, x, y, z)'
           /\ i[3] = 1 /\ t = Pushed(s, y) => Machine(q, t, x, y, z)'
           /\ i[3] = 2 /\ t = Pushed(s, z) => Machine(q, t, x, y, z)'
<1>1. exec_iload(i[3])
  BY Dispatches
<1> QED BY <1>1, SMT DEF exec_iload, Leaves, Machine

LEMMA Stores ==
    ASSUME NEW p, NEW s, NEW x, NEW y, NEW z, Machine(p, s, x, y, z), NEW i, Dispatch(i), i[2] = "istore",
           NEW q, q = p + 2, NEW t, t = Popped(s), NEW v, v = TopOf(s)
    PROVE  /\ i[3] = 0 => Machine(q, t, v, y, z)'
           /\ i[3] = 1 => Machine(q, t, x, v, z)'
           /\ i[3] = 2 => Machine(q, t, x, y, v)'
<1>1. exec_istore(i[3])
  BY Dispatches
<1>2. operand_stack' = t /\ interp_pc' = q
  BY <1>1 DEF exec_istore, Leaves, Machine
<1>0. PICK k : k = i[3]
  OBVIOUS
<1>3. PICK f : f = local_vars
  OBVIOUS
<1>4. DOMAIN f = 0 .. 2 /\ f[0] = x /\ f[1] = y /\ f[2] = z
  BY <1>3 DEF Machine
<1>5. PICK g : g = [f EXCEPT ![k] = v]
  OBVIOUS
<1>6. local_vars' = g
  <2>1. v = TopOf(operand_stack)
    BY DEF Machine
  <2> QED BY <2>1, <1>0, <1>1, <1>3, <1>5, Zenon DEF exec_istore
<1>7. DOMAIN g = 0 .. 2 /\ \A j \in 0 .. 2 : g[j] = IF j = k THEN v ELSE f[j]
  BY <1>4, <1>5
<1>8. k = 0 => Machine(q, t, v, y, z)'
  BY <1>2, <1>4, <1>6, <1>7, SMT DEF Machine
<1>9. k = 1 => Machine(q, t, x, v, z)'
  BY <1>2, <1>4, <1>6, <1>7, SMT DEF Machine
<1>10. k = 2 => Machine(q, t, x, y, v)'
  BY <1>2, <1>4, <1>6, <1>7, SMT DEF Machine
<1> QED BY <1>0, <1>8, <1>9, <1>10

LEMMA Constants ==
    ASSUME NEW p, NEW s, NEW x, NEW y, NEW z, Machine(p, s, x, y, z), NEW i, Dispatch(i), NEW q, NEW t
    PROVE  /\ i[2] = "iconst" /\ q = p + 1 /\ t = Pushed(s, i[3]) => Machine(q, t, x, y, z)'
           /\ i[2] = "bipush" /\ q = p + 2 /\ t = Pushed(s, 42) => Machine(q, t, x, y, z)'
BY Dispatches, SMT DEF exec_iconst, exec_bipush, Leaves, Machine

LEMMA Jumps ==
    ASSUME NEW p, NEW s, NEW x, NEW y, NEW z, Machine(p, s, x, y, z), NEW i, Dispatch(i), NEW q
    PROVE  /\ i[2] = "goto" /\ q = i[3] => Machine(q, s, x, y, z)'
           /\ i[2] = "return" /\ q = RETURNED => Machine(q, s, x, y, z)'
BY Dispatches, SMT DEF exec_goto, exec_return, Machine

LEMMA Negates ==
    ASSUME NEW p, NEW s, NEW x, NEW y, NEW z, Machine(p, s, x, y, z), NEW i, Dispatch(i), i[2] = "ineg",
           NEW q, q = p + 1, NEW t, t = Pushed(Popped(s), - TopOf(s))
    PROVE  Machine(q, t, x, y, z)'
BY Dispatches, SMT DEF exec_ineg, Leaves, Machine

LEMMA Branches ==
    ASSUME NEW p, NEW s, NEW x, NEW y, NEW z, Machine(p, s, x, y, z), NEW i, Dispatch(i), i[2] \in Conditions,
           NEW t, t = Popped(Popped(s))
    PROVE  /\ Holds(i[2], TopOf(Popped(s)), TopOf(s)) => \A q : q = i[3] => Machine(q, t, x, y, z)'
           /\ ~ Holds(i[2], TopOf(Popped(s)), TopOf(s)) => \A q : q = p + 3 => Machine(q, t, x, y, z)'
<1>1. exec_if_icmp(i[2], i[3])
  BY Dispatches
<1> QED BY <1>1, SMT DEF exec_if_icmp, Machine

LEMMA Calculates ==
    ASSUME NEW p, NEW s, NEW x, NEW y, NEW z, Machine(p, s, x, y, z), NEW i, Dispatch(i), i[2] \in Arithmetic,
           NEW q, q = p + 1, NEW t
    PROVE  /\ /\ i[2] \notin {"idiv", "irem"} \/ TopOf(s) # 0
              /\ t = Pushed(Popped(Popped(s)), Computed(i[2], TopOf(Popped(s)), TopOf(s)))
              => Machine(q, t, x, y, z)'
           /\ i[2] \in {"idiv", "irem"} /\ TopOf(s) = 0 /\ t = Popped(Popped(s)) => Machine(q, t, x, y, z)'
<1>1. exec_arithmetic(i[2])
  BY Dispatches DEF Arithmetic
<1> QED BY <1>1, SMT DEF exec_arithmetic, Leaves, Machine

LEMMA UsesFields ==
    ASSUME NEW p, NEW s, NEW x, NEW y, NEW z, Machine(p, s, x, y, z), NEW i, Dispatch(i), NEW q, q = p + 3,
         NEW t
    PROVE  /\ i[2] = "getfield" /\ t = Pushed(Popped(s), 42) => Machine(q, t, x, y, z)'
           /\ i[2] = "putfield" /\ t = Popped(Popped(s)) => Machine(q, t, x, y, z)'
           /\ i[2] = "getstatic" /\ t = Pushed(s, 42) => Machine(q, t, x, y, z)'
           /\ i[2] = "putstatic" /\ t = Popped(s) => Machine(q, t, x, y, z)'
BY Dispatches, SMT DEF exec_getfield, exec_putfield, exec_getstatic, exec_putstatic, Leaves, Machine

LEMMA Allocates ==
    ASSUME NEW p, NEW s, NEW x, NEW y, NEW z, Machine(p, s, x, y, z), NEW i, Dispatch(i), i[2] = "new",
           NEW q, q = p + 3, NEW o \in Int, next_free = o, NEW t
    PROVE  /\ o < HEAP_OBJECTS /\ t = Pushed(s, o + 1) => Machine(q, t, x, y, z)' /\ next_free' = o + 1
           /\ o >= HEAP_OBJECTS /\ t = s => Machine(q, t, x, y, z)' /\ next_free' = o
<1>1. exec_new /\ HEAP_OBJECTS \in Nat /\ o \in Int
  BY Dispatches, InterpreterConstants
<1> QED BY <1>1, SMT DEF exec_new, Leaves, Machine
-----------------------------------------------------------------------------
(* The sum                                                                 *)
\* What the loop of the sum keeps.
Sums(n, x, z) == 2 * z + x * (x + 1) = n * (n + 1)

\* The sum at each pc.
SumPoint(n, k, x, z) ==
    \/ Machine(0, << >>, x, k, z) /\ x = n /\ z = 0
    \/ Machine(1, <<0>>, x, k, z) /\ x = n
    \/ Machine(3, << >>, x, k, z) /\ Sums(n, x, z)
    \/ Machine(5, <<x>>, x, k, z) /\ Sums(n, x, z)
    \/ Machine(6, <<x, 0>>, x, k, z) /\ Sums(n, x, z)
    \/ Machine(9, << >>, x, k, z) /\ Sums(n, x, z)
    \/ Machine(11, <<z>>, x, k, z) /\ Sums(n, x, z)
    \/ Machine(13, <<z, x>>, x, k, z) /\ Sums(n, x, z)
    \/ Machine(14, <<z + x>>, x, k, z) /\ Sums(n, x, z)
    \/ Machine(16, << >>, x, k, z) /\ Sums(n, x - 1, z)
    \/ Machine(18, <<x>>, x, k, z) /\ Sums(n, x - 1, z)
    \/ Machine(19, <<x, 1>>, x, k, z) /\ Sums(n, x - 1, z)
    \/ Machine(20, <<x - 1>>, x, k, z) /\ Sums(n, x - 1, z)
    \/ Machine(22, << >>, x, k, z) /\ Sums(n, x, z)
    \/ Machine(25, << >>, x, k, z) /\ x = 0 /\ Sums(n, x, z)
    \/ Machine(-1, << >>, x, k, z) /\ x = 0 /\ Sums(n, x, z)

\* An instruction leads from one of them to another.
LEMMA SumPointStep ==
    ASSUME NEW n \in Int, NEW k \in Int,
           NEW x \in Int, NEW z \in Int, SumPoint(n, k, x, z),
           NEW i \in SumCode, i[1] = interp_pc, Dispatch(i)
    PROVE  \E x1 \in Int, z1 \in Int : SumPoint(n, k, x1, z1)'
<1>1. CASE Machine(0, << >>, x, k, z) /\ x = n /\ z = 0
  <2>1. i[2] = "iconst" /\ i[3] = 0
    BY <1>1, SMT DEF SumCode, Machine
  <2>2. Pushed(<< >>, 0) = <<0>>
    BY PushedOn
  <2>3. Machine(1, <<0>>, x, k, z)'
    BY <1>1, <2>1, <2>2, Constants
  <2> QED BY <1>1, <2>3 DEF SumPoint
<1>2. CASE Machine(1, <<0>>, x, k, z) /\ x = n
  <2>1. i[2] = "istore" /\ i[3] = 2
    BY <1>2, SMT DEF SumCode, Machine
  <2>2. Popped(<<0>>) = << >> /\ TopOf(<<0>>) = 0
    BY PoppedFrom, TopsAre
  <2>3. Machine(3, << >>, x, k, 0)'
    BY <1>2, <2>1, <2>2, Stores
  <2>4. Sums(n, x, 0) /\ 0 \in Int
    BY <1>2 DEF Sums
  <2>5. SumPoint(n, k, x, 0)'
    BY <1>2, <2>3, <2>4 DEF SumPoint
  <2> QED BY <2>5, <2>4
<1>3. CASE Machine(3, << >>, x, k, z) /\ Sums(n, x, z)
  <2>1. i[2] = "iload" /\ i[3] = 0
    BY <1>3, SMT DEF SumCode, Machine
  <2>2. Pushed(<< >>, x) = <<x>>
    BY PushedOn
  <2>3. Machine(5, <<x>>, x, k, z)'
    BY <1>3, <2>1, <2>2, Loads
  <2> QED BY <1>3, <2>3 DEF SumPoint
<1>4. CASE Machine(5, <<x>>, x, k, z) /\ Sums(n, x, z)
  <2>1. i[2] = "iconst" /\ i[3] = 0
    BY <1>4, SMT DEF SumCode, Machine
  <2>2. Pushed(<<x>>, 0) = <<x, 0>>
    BY PushedOn
  <2>3. Machine(6, <<x, 0>>, x, k, z)'
    BY <1>4, <2>1, <2>2, Constants
  <2> QED BY <1>4, <2>3 DEF SumPoint
<1>5. CASE Machine(6, <<x, 0>>, x, k, z) /\ Sums(n, x, z)
  <2>1. i[2] = "if_icmpeq" /\ i[3] = 25
    BY <1>5, SMT DEF SumCode, Machine
  <2>2. /\ Popped(<<x, 0>>) = <<x>>
         /\ TopOf(<<x, 0>>) = 0
         /\ Popped(<<x>>) = << >>
         /\ TopOf(<<x>>) = x
    BY PoppedFrom, TopsAre
  <2>3. x = 0 => Machine(25, << >>, x, k, z)'
    BY <1>5, <2>1, <2>2, Branches DEF Conditions, Holds
  <2>4. ~ (x = 0) => Machine(9, << >>, x, k, z)'
    BY <1>5, <2>1, <2>2, Branches DEF Conditions, Holds
  <2>5. CASE x = 0
    BY <1>5, <2>3, <2>5 DEF SumPoint
  <2>6. CASE ~ (x = 0)
    BY <1>5, <2>4, <2>6 DEF SumPoint
  <2> QED BY <2>5, <2>6
<1>6. CASE Machine(9, << >>, x, k, z) /\ Sums(n, x, z)
  <2>1. i[2] = "iload" /\ i[3] = 2
    BY <1>6, SMT DEF SumCode, Machine
  <2>2. Pushed(<< >>, z) = <<z>>
    BY PushedOn
  <2>3. Machine(11, <<z>>, x, k, z)'
    BY <1>6, <2>1, <2>2, Loads
  <2> QED BY <1>6, <2>3 DEF SumPoint
<1>7. CASE Machine(11, <<z>>, x, k, z) /\ Sums(n, x, z)
  <2>1. i[2] = "iload" /\ i[3] = 0
    BY <1>7, SMT DEF SumCode, Machine
  <2>2. Pushed(<<z>>, x) = <<z, x>>
    BY PushedOn
  <2>3. Machine(13, <<z, x>>, x, k, z)'
    BY <1>7, <2>1, <2>2, Loads
  <2> QED BY <1>7, <2>3 DEF SumPoint
<1>8. CASE Machine(13, <<z, x>>, x, k, z) /\ Sums(n, x, z)
  <2>1. i[2] = "iadd"
    BY <1>8, SMT DEF SumCode, Machine
  <2>2. /\ Popped(<<z, x>>) = <<z>>
         /\ TopOf(<<z, x>>) = x
         /\ Popped(<<z>>) = << >>
         /\ TopOf(<<z>>) = z
         /\ Pushed(<< >>, z + x) = <<z + x>>
    BY PoppedFrom, TopsAre, PushedOn
  <2>3. Machine(14, <<z + x>>, x, k, z)'
    BY <1>8, <2>1, <2>2, Calculates DEF Arithmetic, Computed
  <2> QED BY <1>8, <2>3 DEF SumPoint
<1>9. CASE Machine(14, <<z + x>>, x, k, z) /\ Sums(n, x, z)
  <2>1. i[2] = "istore" /\ i[3] = 2
    BY <1>9, SMT DEF SumCode, Machine
  <2>2. Popped(<<z + x>>) = << >> /\ TopOf(<<z + x>>) = z + x
    BY PoppedFrom, TopsAre
  <2>3. Machine(16, << >>, x, k, z + x)'
    BY <1>9, <2>1, <2>2, Stores
  <2>4. Sums(n, x - 1, z + x) /\ z + x \in Int
    BY <1>9 DEF Sums
  <2>5. SumPoint(n, k, x, z + x)'
    BY <1>9, <2>3, <2>4 DEF SumPoint
  <2> QED BY <2>5, <2>4
<1>10. CASE Machine(16, << >>, x, k, z) /\ Sums(n, x - 1, z)
  <2>1. i[2] = "iload" /\ i[3] = 0
    BY <1>10, SMT DEF SumCode, Machine
  <2>2. Pushed(<< >>, x) = <<x>>
    BY PushedOn
  <2>3. Machine(18, <<x>>, x, k, z)'
    BY <1>10, <2>1, <2>2, Loads
  <2> QED BY <1>10, <2>3 DEF SumPoint
<1>11. CASE Machine(18, <<x>>, x, k, z) /\ Sums(n, x - 1, z)
  <2>1. i[2] = "iconst" /\ i[3] = 1
    BY <1>11, SMT DEF SumCode, Machine
  <2>2. Pushed(<<x>>, 1) = <<x, 1>>
    BY PushedOn
  <2>3. Machine(19, <<x, 1>>, x, k, z)'
    BY <1>11, <2>1, <2>2, Constants
  <2> QED BY <1>11, <2>3 DEF SumPoint
<1>12. CASE Machine(19, <<x, 1>>, x, k, z) /\ Sums(n, x - 1, z)
  <2>1. i[2] = "isub"
    BY <1>12, SMT DEF SumCode, Machine
  <2>2. /\ Popped(<<x, 1>>) = <<x>>
         /\ TopOf(<<x, 1>>) = 1
         /\ Popped(<<x>>) = << >>
         /\ TopOf(<<x>>) = x
         /\ Pushed(<< >>, x - 1) = <<x - 1>>
    BY PoppedFrom, TopsAre, PushedOn
  <2>3. Machine(20, <<x - 1>>, x, k, z)'
    BY <1>12, <2>1, <2>2, Calculates DEF Arithmetic, Computed
  <2> QED BY <1>12, <2>3 DEF SumPoint
<1>13. CASE Machine(20, <<x - 1>>, x, k, z) /\ Sums(n, x - 1, z)
  <2>1. i[2] = "istore" /\ i[3] = 0
    BY <1>13, SMT DEF SumCode, Machine
  <2>2. Popped(<<x - 1>>) = << >> /\ TopOf(<<x - 1>>) = x - 1
    BY PoppedFrom, TopsAre
  <2>3. Machine(22, << >>, x - 1, k, z)'
    BY <1>13, <2>1, <2>2, Stores
  <2>4. x - 1 \in Int
    BY <1>13
  <2>5. SumPoint(n, k, x - 1, z)'
    BY <1>13, <2>3 DEF SumPoint
  <2> QED BY <2>5, <2>4
<1>14. CASE Machine(22, << >>, x, k, z) /\ Sums(n, x, z)
  <2>1. i[2] = "goto" /\ i[3] = 3
    BY <1>14, SMT DEF SumCode, Machine
  <2>2. Machine(3, << >>, x, k, z)'
    BY <1>14, <2>1, Jumps
  <2> QED BY <1>14, <2>2 DEF SumPoint
<1>15. CASE Machine(25, << >>, x, k, z) /\ x = 0 /\ Sums(n, x, z)
  <2>1. i[2] = "return"
    BY <1>15, SMT DEF SumCode, Machine
  <2>2. Machine(-1, << >>, x, k, z)'
    BY <1>15, <2>1, Jumps DEF RETURNED
  <2> QED BY <1>15, <2>2 DEF SumPoint
<1>16. ~ Machine(-1, << >>, x, k, z)
  BY SMT DEF SumCode, Machine
<1> QED BY <1>1, <1>2, <1>3, <1>4, <1>5, <1>6, <1>7, <1>8, <1>9, <1>10, <1>11, <1>12, <1>13, <1>14, <1>15,
     <1>16 DEF SumPoint

LEMMA SumPointIsThere ==
    ASSUME NEW n, NEW k, NEW x, NEW z, SumPoint(n, k, x, z)
    PROVE  interp_pc = RETURNED \/ \E i \in SumCode : i[1] = interp_pc
<1>1. <<0, "iconst", 0>> \in SumCode /\ <<0, "iconst", 0>>[1] = 0
  BY DEF SumCode
<1>2. <<1, "istore", 2>> \in SumCode /\ <<1, "istore", 2>>[1] = 1
  BY DEF SumCode
<1>3. <<3, "iload", 0>> \in SumCode /\ <<3, "iload", 0>>[1] = 3
  BY DEF SumCode
<1>4. <<5, "iconst", 0>> \in SumCode /\ <<5, "iconst", 0>>[1] = 5
  BY DEF SumCode
<1>5. <<6, "if_icmpeq", 25>> \in SumCode /\ <<6, "if_icmpeq", 25>>[1] = 6
  BY DEF SumCode
<1>6. <<9, "iload", 2>> \in SumCode /\ <<9, "iload", 2>>[1] = 9
  BY DEF SumCode
<1>7. <<11, "iload", 0>> \in SumCode /\ <<11, "iload", 0>>[1] = 11
  BY DEF SumCode
<1>8. <<13, "iadd">> \in SumCode /\ <<13, "iadd">>[1] = 13
  BY DEF SumCode
<1>9. <<14, "istore", 2>> \in SumCode /\ <<14, "istore", 2>>[1] = 14
  BY DEF SumCode
<1>10. <<16, "iload", 0>> \in SumCode /\ <<16, "iload", 0>>[1] = 16
  BY DEF SumCode
<1>11. <<18, "iconst", 1>> \in SumCode /\ <<18, "iconst", 1>>[1] = 18
  BY DEF SumCode
<1>12. <<19, "isub">> \in SumCode /\ <<19, "isub">>[1] = 19
  BY DEF SumCode
<1>13. <<20, "istore", 0>> \in SumCode /\ <<20, "istore", 0>>[1] = 20
  BY DEF SumCode
<1>14. <<22, "goto", 3>> \in SumCode /\ <<22, "goto", 3>>[1] = 22
  BY DEF SumCode
<1>15. <<25, "return">> \in SumCode /\ <<25, "return">>[1] = 25
  BY DEF SumCode
<1>16. interp_pc \in {-1, 0, 1, 3, 5, 6, 9, 11, 13, 14, 16, 18, 19, 20, 22, 25}
  BY SMT DEF SumPoint, Machine
<1> HIDE DEF SumCode
<1> QED BY <1>1, <1>2, <1>3, <1>4, <1>5, <1>6, <1>7, <1>8, <1>9, <1>10, <1>11, <1>12, <1>13, <1>14, <1>15,
     <1>16, SMT DEF RETURNED

-----------------------------------------------------------------------------
(* The factorial                                                           *)

MultipliesUp(f, n) == f = [k \in 0 .. n |-> IF k = 0 THEN 1 ELSE k * f[k - 1]]

LEMMA MultipliesUpExist ==
    ASSUME NEW n \in Nat
    PROVE  \E f : MultipliesUp(f, n)
<1> DEFINE T == {m \in Nat : ~ \E f : MultipliesUp(f, m)}
<1> SUFFICES ASSUME T # {} PROVE FALSE
  OBVIOUS
<1>1. PICK m \in T : \A k \in T : m <= k
  BY Least
<1>2. CASE m = 0
  <2> DEFINE f == [k \in 0 .. 0 |-> 1]
  <2>1. f = [k \in 0 .. 0 |-> IF k = 0 THEN 1 ELSE k * f[k - 1]]
    OBVIOUS
  <2>2. MultipliesUp(f, 0)
    BY <2>1 DEF MultipliesUp
  <2> QED
    BY <1>2, <2>2
<1>3. CASE m # 0
  <2>1. m - 1 \in Nat /\ m - 1 \notin T
    BY <1>1, <1>3
  <2>2. PICK f : MultipliesUp(f, m - 1)
    BY <2>1
  <2> DEFINE g == [k \in 0 .. m |-> IF k < m THEN f[k] ELSE m * f[m - 1]]
  <2>3. ASSUME NEW k \in 0 .. m
        PROVE  g[k] = IF k = 0 THEN 1 ELSE k * g[k - 1]
    <3>1. CASE k = m
      <4>1. g[k] = m * f[m - 1] /\ g[m - 1] = f[m - 1]
        BY <2>1, <3>1
      <4> QED
        BY <1>3, <3>1, <4>1
    <3>2. CASE k # m
      <4>1. k \in 0 .. m - 1 /\ g[k] = f[k] /\ (k # 0 => g[k - 1] = f[k - 1])
        BY <2>1, <3>2
      <4>2. f[k] = IF k = 0 THEN 1 ELSE k * f[k - 1]
        BY <2>2, <4>1 DEF MultipliesUp
      <4> QED
        BY <4>1, <4>2
    <3> QED
      BY <3>1, <3>2
  <2>4. MultipliesUp(g, m)
    BY <2>3 DEF MultipliesUp
  <2> QED
    BY <2>4
<1> QED
  BY <1>2, <1>3

LEMMA FactorialsAre ==
    ASSUME NEW n \in Nat
    PROVE  /\ Factorials(n)[0] = 1
           /\ \A k \in 1 .. n : Factorials(n)[k] = k * Factorials(n)[k - 1]
           /\ \A k \in 0 .. n : Factorials(n)[k] \in Nat
<1> DEFINE f == CHOOSE f : MultipliesUp(f, n)
<1>1. MultipliesUp(f, n)
  BY MultipliesUpExist
<1>2. Factorials(n) = f
  BY DEF Factorials, MultipliesUp
<1> HIDE DEF f
<1>3. f[0] = 1 /\ \A k \in 1 .. n : f[k] = k * f[k - 1]
  BY <1>1 DEF MultipliesUp
<1> DEFINE T == {k \in 0 .. n : f[k] \notin Nat}
<1>4. T = {}
  <2> SUFFICES ASSUME T # {} PROVE FALSE
    OBVIOUS
  <2>0. T \subseteq Nat
    OBVIOUS
  <2>1. PICK k \in T : \A j \in T : k <= j
    BY <2>0, Least, Zenon
  <2>2. k # 0 /\ k \in 1 .. n /\ k - 1 \in 0 .. n /\ k - 1 \notin T
    BY <1>3, <2>1
  <2>3. PICK a \in Nat : a = f[k - 1]
    BY <2>2
  <2>4. f[k] = k * a
    BY <1>3, <2>2, <2>3
  <2> QED
    BY <2>1, <2>2, <2>4
<1> QED
  BY <1>2, <1>3, <1>4

\* What the loop of the factorial keeps.
Multiplied(n, x, z) == x <= n /\ z * Factorials(n)[x] = Factorials(n)[n]

LEMMA MultipliedFirst ==
    ASSUME NEW n \in Nat
    PROVE  Multiplied(n, n, 1)
BY FactorialsAre DEF Multiplied

LEMMA MultipliedNext ==
    ASSUME NEW n \in Nat, NEW x \in Nat, NEW z \in Int, x > 1, Multiplied(n, x, z)
    PROVE  Multiplied(n, x - 1, z * x) /\ z * x \in Int
<1>1. x \in 1 .. n /\ x - 1 \in 0 .. n
  BY DEF Multiplied
<1>2. PICK a \in Nat : a = Factorials(n)[x - 1]
  BY <1>1, FactorialsAre
<1>3. Factorials(n)[x] = x * a
  BY <1>1, <1>2, FactorialsAre
<1>4. (z * x) * a = z * (x * a)
  OBVIOUS
<1> QED
  BY <1>1, <1>2, <1>3, <1>4 DEF Multiplied

LEMMA MultipliedLast ==
    ASSUME NEW n \in Nat, NEW x \in Nat, NEW z \in Int, x <= 1, Multiplied(n, x, z)
    PROVE  z = Factorials(n)[n]
<1>1. x \in 0 .. n /\ x \in {0, 1}
  BY DEF Multiplied
<1>2. Factorials(n)[x] = 1
  <2>1. CASE x = 0
    BY <2>1, FactorialsAre
  <2>2. CASE x = 1
    BY <1>1, <2>2, FactorialsAre
  <2> QED
    BY <1>1, <2>1, <2>2
<1> QED
  BY <1>2 DEF Multiplied

\* The factorial at each pc.
FactorialPoint(n, k, x, z) ==
    \/ Machine(0, << >>, x, k, z) /\ x = n /\ z = 0
    \/ Machine(1, <<1>>, x, k, z) /\ x = n
    \/ Machine(3, << >>, x, k, z) /\ Multiplied(n, x, z)
    \/ Machine(5, <<x>>, x, k, z) /\ Multiplied(n, x, z)
    \/ Machine(6, <<x, 1>>, x, k, z) /\ Multiplied(n, x, z)
    \/ Machine(9, << >>, x, k, z) /\ x > 1 /\ Multiplied(n, x, z)
    \/ Machine(11, <<z>>, x, k, z) /\ x > 1 /\ Multiplied(n, x, z)
    \/ Machine(13, <<z, x>>, x, k, z) /\ x > 1 /\ Multiplied(n, x, z)
    \/ Machine(14, <<z * x>>, x, k, z) /\ x > 1 /\ Multiplied(n, x, z)
    \/ Machine(16, << >>, x, k, z) /\ x > 1 /\ Multiplied(n, x - 1, z)
    \/ Machine(18, <<x>>, x, k, z) /\ x > 1 /\ Multiplied(n, x - 1, z)
    \/ Machine(19, <<x, 1>>, x, k, z) /\ x > 1 /\ Multiplied(n, x - 1, z)
    \/ Machine(20, <<x - 1>>, x, k, z) /\ x > 1 /\ Multiplied(n, x - 1, z)
    \/ Machine(22, << >>, x, k, z) /\ Multiplied(n, x, z)
    \/ Machine(25, << >>, x, k, z) /\ x <= 1 /\ Multiplied(n, x, z)
    \/ Machine(-1, << >>, x, k, z) /\ x <= 1 /\ Multiplied(n, x, z)

\* An instruction leads from one of them to another.
LEMMA FactorialPointStep ==
    ASSUME NEW n \in Nat, NEW k \in Int,
           NEW x \in Nat, NEW z \in Int, FactorialPoint(n, k, x, z),
           NEW i \in FactorialCode, i[1] = interp_pc, Dispatch(i)
    PROVE  \E x1 \in Nat, z1 \in Int : FactorialPoint(n, k, x1, z1)'
<1>1. CASE Machine(0, << >>, x, k, z) /\ x = n /\ z = 0
  <2>1. i[2] = "iconst" /\ i[3] = 1
    BY <1>1, SMT DEF FactorialCode, Machine
  <2>2. Pushed(<< >>, 1) = <<1>>
    BY PushedOn
  <2>3. Machine(1, <<1>>, x, k, z)'
    BY <1>1, <2>1, <2>2, Constants
  <2> QED BY <1>1, <2>3 DEF FactorialPoint
<1>2. CASE Machine(1, <<1>>, x, k, z) /\ x = n
  <2>1. i[2] = "istore" /\ i[3] = 2
    BY <1>2, SMT DEF FactorialCode, Machine
  <2>2. Popped(<<1>>) = << >> /\ TopOf(<<1>>) = 1
    BY PoppedFrom, TopsAre
  <2>3. Machine(3, << >>, x, k, 1)'
    BY <1>2, <2>1, <2>2, Stores
  <2>4. Multiplied(n, x, 1)
    BY <1>2, MultipliedFirst
  <2>5. FactorialPoint(n, k, x, 1)'
    BY <1>2, <2>3, <2>4 DEF FactorialPoint
  <2> QED BY <2>5, <2>4
<1>3. CASE Machine(3, << >>, x, k, z) /\ Multiplied(n, x, z)
  <2>1. i[2] = "iload" /\ i[3] = 0
    BY <1>3, SMT DEF FactorialCode, Machine
  <2>2. Pushed(<< >>, x) = <<x>>
    BY PushedOn
  <2>3. Machine(5, <<x>>, x, k, z)'
    BY <1>3, <2>1, <2>2, Loads
  <2> QED BY <1>3, <2>3 DEF FactorialPoint
<1>4. CASE Machine(5, <<x>>, x, k, z) /\ Multiplied(n, x, z)
  <2>1. i[2] = "iconst" /\ i[3] = 1
    BY <1>4, SMT DEF FactorialCode, Machine
  <2>2. Pushed(<<x>>, 1) = <<x, 1>>
    BY PushedOn
  <2>3. Machine(6, <<x, 1>>, x, k, z)'
    BY <1>4, <2>1, <2>2, Constants
  <2> QED BY <1>4, <2>3 DEF FactorialPoint
<1>5. CASE Machine(6, <<x, 1>>, x, k, z) /\ Multiplied(n, x, z)
  <2>1. i[2] = "if_icmple" /\ i[3] = 25
    BY <1>5, SMT DEF FactorialCode, Machine
  <2>2. /\ Popped(<<x, 1>>) = <<x>>
         /\ TopOf(<<x, 1>>) = 1
         /\ Popped(<<x>>) = << >>
         /\ TopOf(<<x>>) = x
    BY PoppedFrom, TopsAre
  <2>3. x <= 1 => Machine(25, << >>, x, k, z)'
    BY <1>5, <2>1, <2>2, Branches DEF Conditions, Holds
  <2>4. ~ (x <= 1) => Machine(9, << >>, x, k, z)'
    BY <1>5, <2>1, <2>2, Branches DEF Conditions, Holds
  <2>5. CASE x <= 1
    BY <1>5, <2>3, <2>5 DEF FactorialPoint
  <2>6. CASE ~ (x <= 1)
    BY <1>5, <2>4, <2>6 DEF FactorialPoint
  <2> QED BY <2>5, <2>6
<1>6. CASE Machine(9, << >>, x, k, z) /\ x > 1 /\ Multiplied(n, x, z)
  <2>1. i[2] = "iload" /\ i[3] = 2
    BY <1>6, SMT DEF FactorialCode, Machine
  <2>2. Pushed(<< >>, z) = <<z>>
    BY PushedOn
  <2>3. Machine(11, <<z>>, x, k, z)'
    BY <1>6, <2>1, <2>2, Loads
  <2> QED BY <1>6, <2>3 DEF FactorialPoint
<1>7. CASE Machine(11, <<z>>, x, k, z) /\ x > 1 /\ Multiplied(n, x, z)
  <2>1. i[2] = "iload" /\ i[3] = 0
    BY <1>7, SMT DEF FactorialCode, Machine
  <2>2. Pushed(<<z>>, x) = <<z, x>>
    BY PushedOn
  <2>3. Machine(13, <<z, x>>, x, k, z)'
    BY <1>7, <2>1, <2>2, Loads
  <2> QED BY <1>7, <2>3 DEF FactorialPoint
<1>8. CASE Machine(13, <<z, x>>, x, k, z) /\ x > 1 /\ Multiplied(n, x, z)
  <2>1. i[2] = "imul"
    BY <1>8, SMT DEF FactorialCode, Machine
  <2>2. /\ Popped(<<z, x>>) = <<z>>
         /\ TopOf(<<z, x>>) = x
         /\ Popped(<<z>>) = << >>
         /\ TopOf(<<z>>) = z
         /\ Pushed(<< >>, z * x) = <<z * x>>
    BY PoppedFrom, TopsAre, PushedOn
  <2>3. Machine(14, <<z * x>>, x, k, z)'
    BY <1>8, <2>1, <2>2, Calculates DEF Arithmetic, Computed
  <2> QED BY <1>8, <2>3 DEF FactorialPoint
<1>9. CASE Machine(14, <<z * x>>, x, k, z) /\ x > 1 /\ Multiplied(n, x, z)
  <2>1. i[2] = "istore" /\ i[3] = 2
    BY <1>9, SMT DEF FactorialCode, Machine
  <2>2. Popped(<<z * x>>) = << >> /\ TopOf(<<z * x>>) = z * x
    BY PoppedFrom, TopsAre
  <2>3. Machine(16, << >>, x, k, z * x)'
    BY <1>9, <2>1, <2>2, Stores
  <2>4. Multiplied(n, x - 1, z * x) /\ z * x \in Int
    BY <1>9, MultipliedNext
  <2>5. FactorialPoint(n, k, x, z * x)'
    BY <1>9, <2>3, <2>4 DEF FactorialPoint
  <2> QED BY <2>5, <2>4
<1>10. CASE Machine(16, << >>, x, k, z) /\ x > 1 /\ Multiplied(n, x - 1, z)
  <2>1. i[2] = "iload" /\ i[3] = 0
    BY <1>10, SMT DEF FactorialCode, Machine
  <2>2. Pushed(<< >>, x) = <<x>>
    BY PushedOn
  <2>3. Machine(18, <<x>>, x, k, z)'
    BY <1>10, <2>1, <2>2, Loads
  <2> QED BY <1>10, <2>3 DEF FactorialPoint
<1>11. CASE Machine(18, <<x>>, x, k, z) /\ x > 1 /\ Multiplied(n, x - 1, z)
  <2>1. i[2] = "iconst" /\ i[3] = 1
    BY <1>11, SMT DEF FactorialCode, Machine
  <2>2. Pushed(<<x>>, 1) = <<x, 1>>
    BY PushedOn
  <2>3. Machine(19, <<x, 1>>, x, k, z)'
    BY <1>11, <2>1, <2>2, Constants
  <2> QED BY <1>11, <2>3 DEF FactorialPoint
<1>12. CASE Machine(19, <<x, 1>>, x, k, z) /\ x > 1 /\ Multiplied(n, x - 1, z)
  <2>1. i[2] = "isub"
    BY <1>12, SMT DEF FactorialCode, Machine
  <2>2. /\ Popped(<<x, 1>>) = <<x>>
         /\ TopOf(<<x, 1>>) = 1
         /\ Popped(<<x>>) = << >>
         /\ TopOf(<<x>>) = x
         /\ Pushed(<< >>, x - 1) = <<x - 1>>
    BY PoppedFrom, TopsAre, PushedOn
  <2>3. Machine(20, <<x - 1>>, x, k, z)'
    BY <1>12, <2>1, <2>2, Calculates DEF Arithmetic, Computed
  <2> QED BY <1>12, <2>3 DEF FactorialPoint
<1>13. CASE Machine(20, <<x - 1>>, x, k, z) /\ x > 1 /\ Multiplied(n, x - 1, z)
  <2>1. i[2] = "istore" /\ i[3] = 0
    BY <1>13, SMT DEF FactorialCode, Machine
  <2>2. Popped(<<x - 1>>) = << >> /\ TopOf(<<x - 1>>) = x - 1
    BY PoppedFrom, TopsAre
  <2>3. Machine(22, << >>, x - 1, k, z)'
    BY <1>13, <2>1, <2>2, Stores
  <2>4. x - 1 \in Nat
    BY <1>13
  <2>5. FactorialPoint(n, k, x - 1, z)'
    BY <1>13, <2>3 DEF FactorialPoint
  <2> QED BY <2>5, <2>4
<1>14. CASE Machine(22, << >>, x, k, z) /\ Multiplied(n, x, z)
  <2>1. i[2] = "goto" /\ i[3] = 3
    BY <1>14, SMT DEF FactorialCode, Machine
  <2>2. Machine(3, << >>, x, k, z)'
    BY <1>14, <2>1, Jumps
  <2> QED BY <1>14, <2>2 DEF FactorialPoint
<1>15. CASE Machine(25, << >>, x, k, z) /\ x <= 1 /\ Multiplied(n, x, z)
  <2>1. i[2] = "return"
    BY <1>15, SMT DEF FactorialCode, Machine
  <2>2. Machine(-1, << >>, x, k, z)'
    BY <1>15, <2>1, Jumps DEF RETURNED
  <2> QED BY <1>15, <2>2 DEF FactorialPoint
<1>16. ~ Machine(-1, << >>, x, k, z)
  BY SMT DEF FactorialCode, Machine
<1> QED BY <1>1, <1>2, <1>3, <1>4, <1>5, <1>6, <1>7, <1>8, <1>9, <1>10, <1>11, <1>12, <1>13, <1>14, <1>15,
     <1>16 DEF FactorialPoint

LEMMA FactorialPointIsThere ==
    ASSUME NEW n, NEW k, NEW x, NEW z, FactorialPoint(n, k, x, z)
    PROVE  interp_pc = RETURNED \/ \E i \in FactorialCode : i[1] = interp_pc
<1>1. <<0, "iconst", 1>> \in FactorialCode /\ <<0, "iconst", 1>>[1] = 0
  BY DEF FactorialCode
<1>2. <<1, "istore", 2>> \in FactorialCode /\ <<1, "istore", 2>>[1] = 1
  BY DEF FactorialCode
<1>3. <<3, "iload", 0>> \in FactorialCode /\ <<3, "iload", 0>>[1] = 3
  BY DEF FactorialCode
<1>4. <<5, "iconst", 1>> \in FactorialCode /\ <<5, "iconst", 1>>[1] = 5
  BY DEF FactorialCode
<1>5. <<6, "if_icmple", 25>> \in FactorialCode /\ <<6, "if_icmple", 25>>[1] = 6
  BY DEF FactorialCode
<1>6. <<9, "iload", 2>> \in FactorialCode /\ <<9, "iload", 2>>[1] = 9
  BY DEF FactorialCode
<1>7. <<11, "iload", 0>> \in FactorialCode /\ <<11, "iload", 0>>[1] = 11
  BY DEF FactorialCode
<1>8. <<13, "imul">> \in FactorialCode /\ <<13, "imul">>[1] = 13
  BY DEF FactorialCode
<1>9. <<14, "istore", 2>> \in FactorialCode /\ <<14, "istore", 2>>[1] = 14
  BY DEF FactorialCode
<1>10. <<16, "iload", 0>> \in FactorialCode /\ <<16, "iload", 0>>[1] = 16
  BY DEF FactorialCode
<1>11. <<18, "iconst", 1>> \in FactorialCode /\ <<18, "iconst", 1>>[1] = 18
  BY DEF FactorialCode
<1>12. <<19, "isub">> \in FactorialCode /\ <<19, "isub">>[1] = 19
  BY DEF FactorialCode
<1>13. <<20, "istore", 0>> \in FactorialCode /\ <<20, "istore", 0>>[1] = 20
  BY DEF FactorialCode
<1>14. <<22, "goto", 3>> \in FactorialCode /\ <<22, "goto", 3>>[1] = 22
  BY DEF FactorialCode
<1>15. <<25, "return">> \in FactorialCode /\ <<25, "return">>[1] = 25
  BY DEF FactorialCode
<1>16. interp_pc \in {-1, 0, 1, 3, 5, 6, 9, 11, 13, 14, 16, 18, 19, 20, 22, 25}
  BY SMT DEF FactorialPoint, Machine
<1> HIDE DEF FactorialCode
<1> QED BY <1>1, <1>2, <1>3, <1>4, <1>5, <1>6, <1>7, <1>8, <1>9, <1>10, <1>11, <1>12, <1>13, <1>14, <1>15,
     <1>16, SMT DEF RETURNED

-----------------------------------------------------------------------------
(* The greatest common divisor                                             *)

\* What the loop of the greatest common divisor keeps.
Common(n, k, x, y) ==
    \A d \in Nat : Divides(d, n) /\ Divides(d, k) <=> Divides(d, x) /\ Divides(d, y)

LEMMA DividesIs ==
    ASSUME NEW d \in Nat, NEW n \in Nat
    PROVE  Divides(d, n) <=> \E q \in Nat : q * d = n
<1>1. ASSUME NEW q \in Nat, q * d = n
      PROVE  Divides(d, n)
  <2>1. CASE d = 0
    <3>1. 0 \in 0 .. n /\ 0 * d = n
      BY <1>1, <2>1
    <3> QED
      BY <3>1 DEF Divides
  <2>2. CASE d # 0
    <3>1. PICK e \in Nat : d = e + 1
      BY <2>2
    <3>2. q * d = q * e + q /\ q * e \in Nat
      BY <3>1
    <3>3. q \in 0 .. n
      BY <1>1, <3>2
    <3> QED
      BY <1>1, <3>3 DEF Divides
  <2> QED
    BY <2>1, <2>2
<1> QED
  BY <1>1 DEF Divides

LEMMA QuotientOfNaturals ==
    ASSUME NEW x \in Nat, NEW y \in Nat, y # 0
    PROVE  /\ Quotient(x, y) \in Nat
           /\ x - y * Quotient(x, y) \in Nat
           /\ x - y * Quotient(x, y) < y
<1>1. Quotient(x, y) = x \div y
  BY SMT DEF Quotient
<1>2. PICK q : q = x \div y
  OBVIOUS
<1>3. q \in Nat /\ y * q <= x /\ x < y * q + y
  BY <1>2, SMT
<1> QED
  BY <1>1, <1>2, <1>3

\* The remainder keeps the common divisors.
LEMMA Euclid ==
    ASSUME NEW x \in Nat, NEW y \in Nat, y # 0, NEW r \in Nat, NEW q \in Nat, r = x - y * q,
           NEW d \in Nat
    PROVE  Divides(d, x) /\ Divides(d, y) <=> Divides(d, y) /\ Divides(d, r)
<1>1. ASSUME Divides(d, x), Divides(d, y)
      PROVE  Divides(d, r)
  <2>1. PICK a \in Nat, b \in Nat : a * d = x /\ b * d = y
    BY <1>1, DividesIs
  <2>2. d > 0
    BY <2>1
  <2>3. (b * q) * d = (b * d) * q
    OBVIOUS
  <2>4. (a - b * q) * d = a * d - (b * q) * d
    OBVIOUS
  <2>5. (a - b * q) * d = r
    BY <2>1, <2>3, <2>4
  <2>6. PICK c \in Int : c = a - b * q
    OBVIOUS
  <2>7. c * d = r
    BY <2>5, <2>6
  <2>8. c >= 0
    <3>1. SUFFICES ASSUME c <= -1 PROVE FALSE
      BY SMT
    <3>2. c * d = (c + 1) * d - d
      OBVIOUS
    <3>3. (c + 1) * d <= 0
      <4>1. PICK e \in Nat : c + 1 = - e
        BY <3>1
      <4>2. e * d \in Nat /\ (- e) * d = - (e * d)
        OBVIOUS
      <4> QED
        BY <4>1, <4>2
    <3> QED
      BY <2>2, <2>7, <3>2, <3>3
  <2> QED
    BY <2>7, <2>8, DividesIs
<1>2. ASSUME Divides(d, y), Divides(d, r)
      PROVE  Divides(d, x)
  <2>5. PICK b \in Nat : b * d = y
    BY <1>2, DividesIs
  <2>6. PICK c \in Nat : c * d = r
    BY <1>2, DividesIs
  <2>1. b * d = y /\ c * d = r
    BY <2>5, <2>6
  <2>2. (b * q) * d = (b * d) * q
    OBVIOUS
  <2>3. (c + b * q) * d = c * d + (b * q) * d
    OBVIOUS
  <2>4. (c + b * q) * d = x /\ c + b * q \in Nat
    BY <2>1, <2>2, <2>3
  <2> QED
    BY <2>4, DividesIs
<1> QED
  BY <1>1, <1>2

LEMMA CommonNext ==
    ASSUME NEW n \in Nat, NEW k \in Nat, NEW x \in Nat, NEW y \in Nat, y # 0, Common(n, k, x, y)
    PROVE  /\ x - y * Quotient(x, y) \in Nat
           /\ Common(n, k, y, x - y * Quotient(x, y))
<1>1. PICK q : q = Quotient(x, y)
  OBVIOUS
<1>2. q \in Nat /\ x - y * q \in Nat
  BY <1>1, QuotientOfNaturals
<1>3. \A d \in Nat : Divides(d, x) /\ Divides(d, y) <=> Divides(d, y) /\ Divides(d, x - y * q)
  BY <1>2, Euclid
<1> QED
  BY <1>1, <1>2, <1>3, Zenon DEF Common

LEMMA CommonLast ==
    ASSUME NEW n \in Nat, NEW k \in Nat, NEW x \in Nat, Common(n, k, x, 0)
    PROVE  /\ Divides(x, n) /\ Divides(x, k)
           /\ \A d \in 1 .. n : Divides(d, n) /\ Divides(d, k) => d <= x
<1>1. \A d \in Nat : Divides(d, 0)
  <2> TAKE d \in Nat
  <2>1. 0 * d = 0
    OBVIOUS
  <2> QED
    BY <2>1, DividesIs
<1>2. Divides(x, x)
  <2>1. 1 * x = x
    OBVIOUS
  <2> QED
    BY <2>1, DividesIs
<1>3. Divides(x, n) /\ Divides(x, k)
  BY <1>1, <1>2 DEF Common
<1>4. ASSUME NEW d \in 1 .. n, Divides(d, n), Divides(d, k)
      PROVE  d <= x
  <2>1. d \in Nat /\ Divides(d, x)
    BY <1>4 DEF Common
  <2>2. PICK q \in Nat : q * d = x
    BY <2>1, DividesIs
  <2>3. x # 0
    <3>1. SUFFICES ASSUME x = 0 PROVE FALSE
      OBVIOUS
    <3>2. PICK p \in Nat : p * x = n
      BY <1>3, DividesIs
    <3> QED
      BY <1>4, <3>1, <3>2
  <2>4. q # 0
    BY <2>2, <2>3
  <2>5. PICK e \in Nat : q = e + 1
    BY <2>4
  <2>6. q * d = e * d + d /\ e * d \in Nat
    BY <2>1, <2>5
  <2> QED
    BY <2>2, <2>6
<1> QED
  BY <1>3, <1>4

\* The divisor at each pc.
GcdPoint(n, k, x, y, z, v) ==
    \/ Machine(0, << >>, x, y, z) /\ Common(n, k, x, y)
    \/ Machine(2, <<y>>, x, y, z) /\ Common(n, k, x, y)
    \/ Machine(3, <<y, 0>>, x, y, z) /\ Common(n, k, x, y)
    \/ Machine(6, << >>, x, y, z) /\ y = 0 /\ Common(n, k, x, y)
    \/ Machine(8, <<x>>, x, y, z) /\ y = 0 /\ Common(n, k, x, y)
    \/ Machine(10, << >>, x, y, x) /\ y = 0 /\ Common(n, k, x, y)
    \/ Machine(13, << >>, x, y, z) /\ y # 0 /\ Common(n, k, x, y)
    \/ Machine(15, <<y>>, x, y, z) /\ y # 0 /\ Common(n, k, x, y)
    \/ Machine(17, <<y, x>>, x, y, z) /\ y # 0 /\ Common(n, k, x, y)
    \/ Machine(19, <<y, x, y>>, x, y, z) /\ y # 0 /\ Common(n, k, x, y)
    \/ Machine(20, <<y, v>>, x, y, z) /\ Common(n, k, y, v)
    \/ Machine(22, <<v>>, x, y, z) /\ Common(n, k, v, y)
    \/ Machine(24, << >>, x, y, z) /\ Common(n, k, x, y)
    \/ Machine(27, << >>, x, y, x) /\ y = 0 /\ Common(n, k, x, y)
    \/ Machine(-1, << >>, x, y, x) /\ y = 0 /\ Common(n, k, x, y)

\* An instruction leads from one of them to another.
LEMMA GcdPointStep ==
    ASSUME NEW n \in Nat, NEW k \in Nat,
           NEW x \in Nat, NEW y \in Nat, NEW z \in Nat, NEW v \in Nat, GcdPoint(n, k, x, y, z, v),
           NEW i \in GcdCode, i[1] = interp_pc, Dispatch(i)
    PROVE  \E x1 \in Nat, y1 \in Nat, z1 \in Nat, v1 \in Nat : GcdPoint(n, k, x1, y1, z1, v1)'
<1>1. CASE Machine(0, << >>, x, y, z) /\ Common(n, k, x, y)
  <2>1. i[2] = "iload" /\ i[3] = 1
    BY <1>1, SMT DEF GcdCode, Machine
  <2>2. Pushed(<< >>, y) = <<y>>
    BY PushedOn
  <2>3. Machine(2, <<y>>, x, y, z)'
    BY <1>1, <2>1, <2>2, Loads
  <2> QED BY <1>1, <2>3 DEF GcdPoint
<1>2. CASE Machine(2, <<y>>, x, y, z) /\ Common(n, k, x, y)
  <2>1. i[2] = "iconst" /\ i[3] = 0
    BY <1>2, SMT DEF GcdCode, Machine
  <2>2. Pushed(<<y>>, 0) = <<y, 0>>
    BY PushedOn
  <2>3. Machine(3, <<y, 0>>, x, y, z)'
    BY <1>2, <2>1, <2>2, Constants
  <2> QED BY <1>2, <2>3 DEF GcdPoint
<1>3. CASE Machine(3, <<y, 0>>, x, y, z) /\ Common(n, k, x, y)
  <2>1. i[2] = "if_icmpne" /\ i[3] = 13
    BY <1>3, SMT DEF GcdCode, Machine
  <2>2. /\ Popped(<<y, 0>>) = <<y>>
         /\ TopOf(<<y, 0>>) = 0
         /\ Popped(<<y>>) = << >>
         /\ TopOf(<<y>>) = y
    BY PoppedFrom, TopsAre
  <2>3. y # 0 => Machine(13, << >>, x, y, z)'
    BY <1>3, <2>1, <2>2, Branches DEF Conditions, Holds
  <2>4. ~ (y # 0) => Machine(6, << >>, x, y, z)'
    BY <1>3, <2>1, <2>2, Branches DEF Conditions, Holds
  <2>5. CASE y # 0
    BY <1>3, <2>3, <2>5 DEF GcdPoint
  <2>6. CASE ~ (y # 0)
    BY <1>3, <2>4, <2>6 DEF GcdPoint
  <2> QED BY <2>5, <2>6
<1>4. CASE Machine(6, << >>, x, y, z) /\ y = 0 /\ Common(n, k, x, y)
  <2>1. i[2] = "iload" /\ i[3] = 0
    BY <1>4, SMT DEF GcdCode, Machine
  <2>2. Pushed(<< >>, x) = <<x>>
    BY PushedOn
  <2>3. Machine(8, <<x>>, x, y, z)'
    BY <1>4, <2>1, <2>2, Loads
  <2> QED BY <1>4, <2>3 DEF GcdPoint
<1>5. CASE Machine(8, <<x>>, x, y, z) /\ y = 0 /\ Common(n, k, x, y)
  <2>1. i[2] = "istore" /\ i[3] = 2
    BY <1>5, SMT DEF GcdCode, Machine
  <2>2. Popped(<<x>>) = << >> /\ TopOf(<<x>>) = x
    BY PoppedFrom, TopsAre
  <2>3. Machine(10, << >>, x, y, x)'
    BY <1>5, <2>1, <2>2, Stores
  <2> QED BY <1>5, <2>3 DEF GcdPoint
<1>6. CASE Machine(10, << >>, x, y, x) /\ y = 0 /\ Common(n, k, x, y)
  <2>1. i[2] = "goto" /\ i[3] = 27
    BY <1>6, SMT DEF GcdCode, Machine
  <2>2. Machine(27, << >>, x, y, x)'
    BY <1>6, <2>1, Jumps
  <2> QED BY <1>6, <2>2 DEF GcdPoint
<1>7. CASE Machine(13, << >>, x, y, z) /\ y # 0 /\ Common(n, k, x, y)
  <2>1. i[2] = "iload" /\ i[3] = 1
    BY <1>7, SMT DEF GcdCode, Machine
  <2>2. Pushed(<< >>, y) = <<y>>
    BY PushedOn
  <2>3. Machine(15, <<y>>, x, y, z)'
    BY <1>7, <2>1, <2>2, Loads
  <2> QED BY <1>7, <2>3 DEF GcdPoint
<1>8. CASE Machine(15, <<y>>, x, y, z) /\ y # 0 /\ Common(n, k, x, y)
  <2>1. i[2] = "iload" /\ i[3] = 0
    BY <1>8, SMT DEF GcdCode, Machine
  <2>2. Pushed(<<y>>, x) = <<y, x>>
    BY PushedOn
  <2>3. Machine(17, <<y, x>>, x, y, z)'
    BY <1>8, <2>1, <2>2, Loads
  <2> QED BY <1>8, <2>3 DEF GcdPoint
<1>9. CASE Machine(17, <<y, x>>, x, y, z) /\ y # 0 /\ Common(n, k, x, y)
  <2>1. i[2] = "iload" /\ i[3] = 1
    BY <1>9, SMT DEF GcdCode, Machine
  <2>2. Pushed(<<y, x>>, y) = <<y, x, y>>
    BY PushedOn
  <2>3. Machine(19, <<y, x, y>>, x, y, z)'
    BY <1>9, <2>1, <2>2, Loads
  <2> QED BY <1>9, <2>3 DEF GcdPoint
<1>10. CASE Machine(19, <<y, x, y>>, x, y, z) /\ y # 0 /\ Common(n, k, x, y)
  <2>1. i[2] = "irem"
    BY <1>10, SMT DEF GcdCode, Machine
  <2>2. /\ Popped(<<y, x, y>>) = <<y, x>>
         /\ TopOf(<<y, x, y>>) = y
         /\ Popped(<<y, x>>) = <<y>>
         /\ TopOf(<<y, x>>) = x
         /\ Pushed(<<y>>, x - y * Quotient(x, y)) = <<y, x - y * Quotient(x, y)>>
    BY PoppedFrom, TopsAre, PushedOn
  <2>3. Machine(20, <<y, x - y * Quotient(x, y)>>, x, y, z)'
    BY <1>10, <2>1, <2>2, Calculates DEF Arithmetic, Computed
  <2>4. x - y * Quotient(x, y) \in Nat /\ Common(n, k, y, x - y * Quotient(x, y))
    BY <1>10, CommonNext
  <2>5. GcdPoint(n, k, x, y, z, x - y * Quotient(x, y))'
    BY <1>10, <2>3, <2>4 DEF GcdPoint
  <2> QED BY <2>5, <2>4
<1>11. CASE Machine(20, <<y, v>>, x, y, z) /\ Common(n, k, y, v)
  <2>1. i[2] = "istore" /\ i[3] = 1
    BY <1>11, SMT DEF GcdCode, Machine
  <2>2. Popped(<<y, v>>) = <<y>> /\ TopOf(<<y, v>>) = v
    BY PoppedFrom, TopsAre
  <2>3. Machine(22, <<y>>, x, v, z)'
    BY <1>11, <2>1, <2>2, Stores
  <2>4. GcdPoint(n, k, x, v, z, y)'
    BY <1>11, <2>3 DEF GcdPoint
  <2> QED BY <2>4
<1>12. CASE Machine(22, <<v>>, x, y, z) /\ Common(n, k, v, y)
  <2>1. i[2] = "istore" /\ i[3] = 0
    BY <1>12, SMT DEF GcdCode, Machine
  <2>2. Popped(<<v>>) = << >> /\ TopOf(<<v>>) = v
    BY PoppedFrom, TopsAre
  <2>3. Machine(24, << >>, v, y, z)'
    BY <1>12, <2>1, <2>2, Stores
  <2>4. GcdPoint(n, k, v, y, z, v)'
    BY <1>12, <2>3 DEF GcdPoint
  <2> QED BY <2>4
<1>13. CASE Machine(24, << >>, x, y, z) /\ Common(n, k, x, y)
  <2>1. i[2] = "goto" /\ i[3] = 0
    BY <1>13, SMT DEF GcdCode, Machine
  <2>2. Machine(0, << >>, x, y, z)'
    BY <1>13, <2>1, Jumps
  <2> QED BY <1>13, <2>2 DEF GcdPoint
<1>14. CASE Machine(27, << >>, x, y, x) /\ y = 0 /\ Common(n, k, x, y)
  <2>1. i[2] = "return"
    BY <1>14, SMT DEF GcdCode, Machine
  <2>2. Machine(-1, << >>, x, y, x)'
    BY <1>14, <2>1, Jumps DEF RETURNED
  <2> QED BY <1>14, <2>2 DEF GcdPoint
<1>15. ~ Machine(-1, << >>, x, y, x)
  BY SMT DEF GcdCode, Machine
<1> QED BY <1>1, <1>2, <1>3, <1>4, <1>5, <1>6, <1>7, <1>8, <1>9, <1>10, <1>11, <1>12, <1>13, <1>14,
     <1>15 DEF GcdPoint

LEMMA GcdPointIsThere ==
    ASSUME NEW n, NEW k, NEW x, NEW y, NEW z, NEW v, GcdPoint(n, k, x, y, z, v)
    PROVE  interp_pc = RETURNED \/ \E i \in GcdCode : i[1] = interp_pc
<1>1. <<0, "iload", 1>> \in GcdCode /\ <<0, "iload", 1>>[1] = 0
  BY DEF GcdCode
<1>2. <<2, "iconst", 0>> \in GcdCode /\ <<2, "iconst", 0>>[1] = 2
  BY DEF GcdCode
<1>3. <<3, "if_icmpne", 13>> \in GcdCode /\ <<3, "if_icmpne", 13>>[1] = 3
  BY DEF GcdCode
<1>4. <<6, "iload", 0>> \in GcdCode /\ <<6, "iload", 0>>[1] = 6
  BY DEF GcdCode
<1>5. <<8, "istore", 2>> \in GcdCode /\ <<8, "istore", 2>>[1] = 8
  BY DEF GcdCode
<1>6. <<10, "goto", 27>> \in GcdCode /\ <<10, "goto", 27>>[1] = 10
  BY DEF GcdCode
<1>7. <<13, "iload", 1>> \in GcdCode /\ <<13, "iload", 1>>[1] = 13
  BY DEF GcdCode
<1>8. <<15, "iload", 0>> \in GcdCode /\ <<15, "iload", 0>>[1] = 15
  BY DEF GcdCode
<1>9. <<17, "iload", 1>> \in GcdCode /\ <<17, "iload", 1>>[1] = 17
  BY DEF GcdCode
<1>10. <<19, "irem">> \in GcdCode /\ <<19, "irem">>[1] = 19
  BY DEF GcdCode
<1>11. <<20, "istore", 1>> \in GcdCode /\ <<20, "istore", 1>>[1] = 20
  BY DEF GcdCode
<1>12. <<22, "istore", 0>> \in GcdCode /\ <<22, "istore", 0>>[1] = 22
  BY DEF GcdCode
<1>13. <<24, "goto", 0>> \in GcdCode /\ <<24, "goto", 0>>[1] = 24
  BY DEF GcdCode
<1>14. <<27, "return">> \in GcdCode /\ <<27, "return">>[1] = 27
  BY DEF GcdCode
<1>15. interp_pc \in {-1, 0, 2, 3, 6, 8, 10, 13, 15, 17, 19, 20, 22, 24, 27}
  BY SMT DEF GcdPoint, Machine
<1> HIDE DEF GcdCode
<1> QED BY <1>1, <1>2, <1>3, <1>4, <1>5, <1>6, <1>7, <1>8, <1>9, <1>10, <1>11, <1>12, <1>13, <1>14, <1>15,
     SMT DEF RETURNED

-----------------------------------------------------------------------------
(* The logarithm                                                           *)

Doubles(f, n) == f = [k \in 0 .. n |-> IF k = 0 THEN 1 ELSE 2 * f[k - 1]]

LEMMA DoublesExist ==
    ASSUME NEW n \in Nat
    PROVE  \E f : Doubles(f, n)
<1> DEFINE T == {m \in Nat : ~ \E f : Doubles(f, m)}
<1> SUFFICES ASSUME T # {} PROVE FALSE
  OBVIOUS
<1>1. PICK m \in T : \A k \in T : m <= k
  BY Least
<1>2. CASE m = 0
  <2> DEFINE f == [k \in 0 .. 0 |-> 1]
  <2>1. f = [k \in 0 .. 0 |-> IF k = 0 THEN 1 ELSE 2 * f[k - 1]]
    OBVIOUS
  <2>2. Doubles(f, 0)
    BY <2>1 DEF Doubles
  <2> QED
    BY <1>2, <2>2
<1>3. CASE m # 0
  <2>1. m - 1 \in Nat /\ m - 1 \notin T
    BY <1>1, <1>3
  <2>2. PICK f : Doubles(f, m - 1)
    BY <2>1
  <2> DEFINE g == [k \in 0 .. m |-> IF k < m THEN f[k] ELSE 2 * f[m - 1]]
  <2>3. ASSUME NEW k \in 0 .. m
        PROVE  g[k] = IF k = 0 THEN 1 ELSE 2 * g[k - 1]
    <3>1. CASE k = m
      <4>1. g[k] = 2 * f[m - 1] /\ g[m - 1] = f[m - 1]
        BY <2>1, <3>1
      <4> QED
        BY <1>3, <3>1, <4>1
    <3>2. CASE k # m
      <4>1. k \in 0 .. m - 1 /\ g[k] = f[k] /\ (k # 0 => g[k - 1] = f[k - 1])
        BY <2>1, <3>2
      <4>2. f[k] = IF k = 0 THEN 1 ELSE 2 * f[k - 1]
        BY <2>2, <4>1 DEF Doubles
      <4> QED
        BY <4>1, <4>2
    <3> QED
      BY <3>1, <3>2
  <2>4. Doubles(g, m)
    BY <2>3 DEF Doubles
  <2> QED
    BY <2>4
<1> QED
  BY <1>2, <1>3

LEMMA PowersOfTwoAre ==
    ASSUME NEW n \in Nat
    PROVE  /\ PowersOfTwo(n)[0] = 1
           /\ \A k \in 1 .. n : PowersOfTwo(n)[k] = 2 * PowersOfTwo(n)[k - 1]
           /\ \A k \in 0 .. n : PowersOfTwo(n)[k] \in Nat
<1> DEFINE f == CHOOSE f : Doubles(f, n)
<1>1. Doubles(f, n)
  BY DoublesExist
<1>2. PowersOfTwo(n) = f
  BY DEF PowersOfTwo, Doubles
<1> HIDE DEF f
<1>3. f[0] = 1 /\ \A k \in 1 .. n : f[k] = 2 * f[k - 1]
  BY <1>1 DEF Doubles
<1> DEFINE T == {k \in 0 .. n : f[k] \notin Nat}
<1>4. T = {}
  <2> SUFFICES ASSUME T # {} PROVE FALSE
    OBVIOUS
  <2>0. T \subseteq Nat
    OBVIOUS
  <2>1. PICK k \in T : \A j \in T : k <= j
    BY <2>0, Least, Zenon
  <2>2. k # 0 /\ k \in 1 .. n /\ k - 1 \in 0 .. n /\ k - 1 \notin T
    BY <1>3, <2>1
  <2>3. PICK a \in Nat : a = f[k - 1]
    BY <2>2
  <2>4. f[k] = 2 * a
    BY <1>3, <2>2, <2>3
  <2> QED
    BY <2>1, <2>2, <2>4
<1> QED
  BY <1>2, <1>3, <1>4

LEMMA PowersGrow ==
    ASSUME NEW n \in Nat
    PROVE  \A k \in 0 .. n : PowersOfTwo(n)[k] >= k + 1
<1> DEFINE p == PowersOfTwo(n)
           T == {k \in 0 .. n : ~ (p[k] >= k + 1)}
<1>1. p[0] = 1 /\ (\A k \in 1 .. n : p[k] = 2 * p[k - 1]) /\ \A k \in 0 .. n : p[k] \in Nat
  BY PowersOfTwoAre
<1> HIDE DEF p
<1> SUFFICES ASSUME T # {} PROVE FALSE
  BY DEF p
<1>2. T \subseteq Nat
  OBVIOUS
<1>3. PICK k \in T : \A j \in T : k <= j
  BY <1>2, Least, Zenon
<1>4. k \in 1 .. n /\ k - 1 \in 0 .. n /\ k - 1 \notin T
  BY <1>1, <1>3
<1>5. p[k - 1] >= k /\ p[k] = 2 * p[k - 1] /\ p[k - 1] \in Nat
  BY <1>1, <1>4
<1> QED
  BY <1>3, <1>4, <1>5

\* What the loop of the logarithm keeps.
Halved(n, x, z) ==
    /\ n = 0 => x = 0
    /\ n > 0 => /\ x >= 1 /\ z <= n
                /\ x * PowersOfTwo(n)[z] <= n /\ n < (x + 1) * PowersOfTwo(n)[z]

LEMMA HalvedFirst ==
    ASSUME NEW n \in Nat
    PROVE  Halved(n, n, 0)
BY PowersOfTwoAre DEF Halved

LEMMA HalvedNext ==
    ASSUME NEW n \in Nat, NEW x \in Nat, NEW z \in Nat, x > 1, Halved(n, x, z)
    PROVE  Quotient(x, 2) \in Nat /\ Halved(n, Quotient(x, 2), z + 1)
<1>1. PICK q : q = Quotient(x, 2)
  OBVIOUS
<1>2. q \in Nat /\ x - 2 * q \in Nat /\ x - 2 * q < 2
  BY <1>1, QuotientOfNaturals
<1>3. n > 0 /\ z \in 0 .. n
  BY DEF Halved
<1>4. PICK a \in Nat : a = PowersOfTwo(n)[z]
  BY <1>3, PowersOfTwoAre
<1>5. x * a <= n /\ n < (x + 1) * a /\ a >= z + 1
  BY <1>3, <1>4, PowersGrow DEF Halved
<1>6. PICK e \in {0, 1} : x = 2 * q + e
  BY <1>2
<1>7. q >= 1
  BY <1>2, <1>6
<1>8. x * a = 2 * (q * a) + e * a /\ (x + 1) * a = 2 * (q * a) + e * a + a
  BY <1>2, <1>6
<1>9. e * a \in Nat /\ e * a <= a
  BY <1>6
<1>10. q * a >= a
  <2>1. PICK r \in Nat : q = r + 1
    BY <1>2, <1>7
  <2>2. q * a = r * a + a /\ r * a \in Nat
    BY <2>1
  <2> QED
    BY <2>2
<1>11. q * a \in Nat
  BY <1>2
<1>12. z + 1 \in 1 .. n
  BY <1>3, <1>5, <1>8, <1>9, <1>10, <1>11
<1>13. PowersOfTwo(n)[z + 1] = 2 * a
  <2>1. PowersOfTwo(n)[z + 1] = 2 * PowersOfTwo(n)[(z + 1) - 1] /\ (z + 1) - 1 = z
    BY <1>12, PowersOfTwoAre
  <2> QED
    BY <1>4, <2>1
<1>14. q * (2 * a) = 2 * (q * a) /\ (q + 1) * (2 * a) = 2 * (q * a) + 2 * a
  BY <1>2
<1>15. q * (2 * a) <= n /\ n < (q + 1) * (2 * a)
  BY <1>2, <1>5, <1>8, <1>9, <1>11, <1>14
<1> QED
  BY <1>1, <1>2, <1>3, <1>7, <1>12, <1>13, <1>15 DEF Halved

LEMMA HalvedLast ==
    ASSUME NEW n \in Nat, NEW x \in Nat, NEW z \in Nat, x <= 1, Halved(n, x, z), n > 0
    PROVE  PowersOfTwo(n)[z] <= n /\ n < 2 * PowersOfTwo(n)[z]
<1>1. x = 1 /\ z \in 0 .. n
  BY DEF Halved
<1>2. PICK a \in Nat : a = PowersOfTwo(n)[z]
  BY <1>1, PowersOfTwoAre
<1>3. x * a <= n /\ n < (x + 1) * a
  BY <1>2 DEF Halved
<1>4. x * a = a /\ (x + 1) * a = 2 * a
  BY <1>1
<1> QED
  BY <1>2, <1>3, <1>4

\* The logarithm at each pc.
LogPoint(n, k, x, z, v) ==
    \/ Machine(0, << >>, x, k, z) /\ x = n
    \/ Machine(1, <<0>>, x, k, z) /\ x = n
    \/ Machine(3, << >>, x, k, z) /\ Halved(n, x, z)
    \/ Machine(5, <<x>>, x, k, z) /\ Halved(n, x, z)
    \/ Machine(6, <<x, 1>>, x, k, z) /\ Halved(n, x, z)
    \/ Machine(9, << >>, x, k, z) /\ ~ (x > 1) /\ Halved(n, x, z)
    \/ Machine(12, << >>, x, k, z) /\ x > 1 /\ Halved(n, x, z)
    \/ Machine(14, <<x>>, x, k, z) /\ x > 1 /\ Halved(n, x, z)
    \/ Machine(15, <<x, 2>>, x, k, z) /\ x > 1 /\ Halved(n, x, z)
    \/ Machine(16, <<v>>, x, k, z) /\ Halved(n, v, z + 1)
    \/ Machine(18, << >>, x, k, z) /\ Halved(n, x, z + 1)
    \/ Machine(20, <<z>>, x, k, z) /\ Halved(n, x, z + 1)
    \/ Machine(21, <<z, 1>>, x, k, z) /\ Halved(n, x, z + 1)
    \/ Machine(22, <<z + 1>>, x, k, z) /\ Halved(n, x, z + 1)
    \/ Machine(24, << >>, x, k, z) /\ Halved(n, x, z)
    \/ Machine(27, << >>, x, k, z) /\ ~ (x > 1) /\ Halved(n, x, z)
    \/ Machine(-1, << >>, x, k, z) /\ ~ (x > 1) /\ Halved(n, x, z)

\* An instruction leads from one of them to another.
LEMMA LogPointStep ==
    ASSUME NEW n \in Nat, NEW k \in Nat,
           NEW x \in Nat, NEW z \in Nat, NEW v \in Nat, LogPoint(n, k, x, z, v),
           NEW i \in LogCode, i[1] = interp_pc, Dispatch(i)
    PROVE  \E x1 \in Nat, z1 \in Nat, v1 \in Nat : LogPoint(n, k, x1, z1, v1)'
<1>1. CASE Machine(0, << >>, x, k, z) /\ x = n
  <2>1. i[2] = "iconst" /\ i[3] = 0
    BY <1>1, SMT DEF LogCode, Machine
  <2>2. Pushed(<< >>, 0) = <<0>>
    BY PushedOn
  <2>3. Machine(1, <<0>>, x, k, z)'
    BY <1>1, <2>1, <2>2, Constants
  <2> QED BY <1>1, <2>3 DEF LogPoint
<1>2. CASE Machine(1, <<0>>, x, k, z) /\ x = n
  <2>1. i[2] = "istore" /\ i[3] = 2
    BY <1>2, SMT DEF LogCode, Machine
  <2>2. Popped(<<0>>) = << >> /\ TopOf(<<0>>) = 0
    BY PoppedFrom, TopsAre
  <2>3. Machine(3, << >>, x, k, 0)'
    BY <1>2, <2>1, <2>2, Stores
  <2>4. Halved(n, x, 0)
    BY <1>2, HalvedFirst
  <2>5. LogPoint(n, k, x, 0, v)'
    BY <1>2, <2>3, <2>4 DEF LogPoint
  <2> QED BY <2>5, <2>4
<1>3. CASE Machine(3, << >>, x, k, z) /\ Halved(n, x, z)
  <2>1. i[2] = "iload" /\ i[3] = 0
    BY <1>3, SMT DEF LogCode, Machine
  <2>2. Pushed(<< >>, x) = <<x>>
    BY PushedOn
  <2>3. Machine(5, <<x>>, x, k, z)'
    BY <1>3, <2>1, <2>2, Loads
  <2> QED BY <1>3, <2>3 DEF LogPoint
<1>4. CASE Machine(5, <<x>>, x, k, z) /\ Halved(n, x, z)
  <2>1. i[2] = "iconst" /\ i[3] = 1
    BY <1>4, SMT DEF LogCode, Machine
  <2>2. Pushed(<<x>>, 1) = <<x, 1>>
    BY PushedOn
  <2>3. Machine(6, <<x, 1>>, x, k, z)'
    BY <1>4, <2>1, <2>2, Constants
  <2> QED BY <1>4, <2>3 DEF LogPoint
<1>5. CASE Machine(6, <<x, 1>>, x, k, z) /\ Halved(n, x, z)
  <2>1. i[2] = "if_icmpgt" /\ i[3] = 12
    BY <1>5, SMT DEF LogCode, Machine
  <2>2. /\ Popped(<<x, 1>>) = <<x>>
         /\ TopOf(<<x, 1>>) = 1
         /\ Popped(<<x>>) = << >>
         /\ TopOf(<<x>>) = x
    BY PoppedFrom, TopsAre
  <2>3. x > 1 => Machine(12, << >>, x, k, z)'
    BY <1>5, <2>1, <2>2, Branches DEF Conditions, Holds
  <2>4. ~ (x > 1) => Machine(9, << >>, x, k, z)'
    BY <1>5, <2>1, <2>2, Branches DEF Conditions, Holds
  <2>5. CASE x > 1
    BY <1>5, <2>3, <2>5 DEF LogPoint
  <2>6. CASE ~ (x > 1)
    BY <1>5, <2>4, <2>6 DEF LogPoint
  <2> QED BY <2>5, <2>6
<1>6. CASE Machine(9, << >>, x, k, z) /\ ~ (x > 1) /\ Halved(n, x, z)
  <2>1. i[2] = "goto" /\ i[3] = 27
    BY <1>6, SMT DEF LogCode, Machine
  <2>2. Machine(27, << >>, x, k, z)'
    BY <1>6, <2>1, Jumps
  <2> QED BY <1>6, <2>2 DEF LogPoint
<1>7. CASE Machine(12, << >>, x, k, z) /\ x > 1 /\ Halved(n, x, z)
  <2>1. i[2] = "iload" /\ i[3] = 0
    BY <1>7, SMT DEF LogCode, Machine
  <2>2. Pushed(<< >>, x) = <<x>>
    BY PushedOn
  <2>3. Machine(14, <<x>>, x, k, z)'
    BY <1>7, <2>1, <2>2, Loads
  <2> QED BY <1>7, <2>3 DEF LogPoint
<1>8. CASE Machine(14, <<x>>, x, k, z) /\ x > 1 /\ Halved(n, x, z)
  <2>1. i[2] = "iconst" /\ i[3] = 2
    BY <1>8, SMT DEF LogCode, Machine
  <2>2. Pushed(<<x>>, 2) = <<x, 2>>
    BY PushedOn
  <2>3. Machine(15, <<x, 2>>, x, k, z)'
    BY <1>8, <2>1, <2>2, Constants
  <2> QED BY <1>8, <2>3 DEF LogPoint
<1>9. CASE Machine(15, <<x, 2>>, x, k, z) /\ x > 1 /\ Halved(n, x, z)
  <2>1. i[2] = "idiv"
    BY <1>9, SMT DEF LogCode, Machine
  <2>2. /\ Popped(<<x, 2>>) = <<x>>
         /\ TopOf(<<x, 2>>) = 2
         /\ Popped(<<x>>) = << >>
         /\ TopOf(<<x>>) = x
         /\ Pushed(<< >>, Quotient(x, 2)) = <<Quotient(x, 2)>>
    BY PoppedFrom, TopsAre, PushedOn
  <2>3. Machine(16, <<Quotient(x, 2)>>, x, k, z)'
    BY <1>9, <2>1, <2>2, Calculates DEF Arithmetic, Computed
  <2>4. Quotient(x, 2) \in Nat /\ Halved(n, Quotient(x, 2), z + 1)
    BY <1>9, HalvedNext
  <2>5. LogPoint(n, k, x, z, Quotient(x, 2))'
    BY <1>9, <2>3, <2>4 DEF LogPoint
  <2> QED BY <2>5, <2>4
<1>10. CASE Machine(16, <<v>>, x, k, z) /\ Halved(n, v, z + 1)
  <2>1. i[2] = "istore" /\ i[3] = 0
    BY <1>10, SMT DEF LogCode, Machine
  <2>2. Popped(<<v>>) = << >> /\ TopOf(<<v>>) = v
    BY PoppedFrom, TopsAre
  <2>3. Machine(18, << >>, v, k, z)'
    BY <1>10, <2>1, <2>2, Stores
  <2>4. LogPoint(n, k, v, z, v)'
    BY <1>10, <2>3 DEF LogPoint
  <2> QED BY <2>4
<1>11. CASE Machine(18, << >>, x, k, z) /\ Halved(n, x, z + 1)
  <2>1. i[2] = "iload" /\ i[3] = 2
    BY <1>11, SMT DEF LogCode, Machine
  <2>2. Pushed(<< >>, z) = <<z>>
    BY PushedOn
  <2>3. Machine(20, <<z>>, x, k, z)'
    BY <1>11, <2>1, <2>2, Loads
  <2> QED BY <1>11, <2>3 DEF LogPoint
<1>12. CASE Machine(20, <<z>>, x, k, z) /\ Halved(n, x, z + 1)
  <2>1. i[2] = "iconst" /\ i[3] = 1
    BY <1>12, SMT DEF LogCode, Machine
  <2>2. Pushed(<<z>>, 1) = <<z, 1>>
    BY PushedOn
  <2>3. Machine(21, <<z, 1>>, x, k, z)'
    BY <1>12, <2>1, <2>2, Constants
  <2> QED BY <1>12, <2>3 DEF LogPoint
<1>13. CASE Machine(21, <<z, 1>>, x, k, z) /\ Halved(n, x, z + 1)
  <2>1. i[2] = "iadd"
    BY <1>13, SMT DEF LogCode, Machine
  <2>2. /\ Popped(<<z, 1>>) = <<z>>
         /\ TopOf(<<z, 1>>) = 1
         /\ Popped(<<z>>) = << >>
         /\ TopOf(<<z>>) = z
         /\ Pushed(<< >>, z + 1) = <<z + 1>>
    BY PoppedFrom, TopsAre, PushedOn
  <2>3. Machine(22, <<z + 1>>, x, k, z)'
    BY <1>13, <2>1, <2>2, Calculates DEF Arithmetic, Computed
  <2> QED BY <1>13, <2>3 DEF LogPoint
<1>14. CASE Machine(22, <<z + 1>>, x, k, z) /\ Halved(n, x, z + 1)
  <2>1. i[2] = "istore" /\ i[3] = 2
    BY <1>14, SMT DEF LogCode, Machine
  <2>2. Popped(<<z + 1>>) = << >> /\ TopOf(<<z + 1>>) = z + 1
    BY PoppedFrom, TopsAre
  <2>3. Machine(24, << >>, x, k, z + 1)'
    BY <1>14, <2>1, <2>2, Stores
  <2>4. z + 1 \in Nat
    OBVIOUS
  <2>5. LogPoint(n, k, x, z + 1, v)'
    BY <1>14, <2>3 DEF LogPoint
  <2> QED BY <2>5, <2>4
<1>15. CASE Machine(24, << >>, x, k, z) /\ Halved(n, x, z)
  <2>1. i[2] = "goto" /\ i[3] = 3
    BY <1>15, SMT DEF LogCode, Machine
  <2>2. Machine(3, << >>, x, k, z)'
    BY <1>15, <2>1, Jumps
  <2> QED BY <1>15, <2>2 DEF LogPoint
<1>16. CASE Machine(27, << >>, x, k, z) /\ ~ (x > 1) /\ Halved(n, x, z)
  <2>1. i[2] = "return"
    BY <1>16, SMT DEF LogCode, Machine
  <2>2. Machine(-1, << >>, x, k, z)'
    BY <1>16, <2>1, Jumps DEF RETURNED
  <2> QED BY <1>16, <2>2 DEF LogPoint
<1>17. ~ Machine(-1, << >>, x, k, z)
  BY SMT DEF LogCode, Machine
<1> QED BY <1>1, <1>2, <1>3, <1>4, <1>5, <1>6, <1>7, <1>8, <1>9, <1>10, <1>11, <1>12, <1>13, <1>14, <1>15,
     <1>16, <1>17 DEF LogPoint

LEMMA LogPointIsThere ==
    ASSUME NEW n, NEW k, NEW x, NEW z, NEW v, LogPoint(n, k, x, z, v)
    PROVE  interp_pc = RETURNED \/ \E i \in LogCode : i[1] = interp_pc
<1>1. <<0, "iconst", 0>> \in LogCode /\ <<0, "iconst", 0>>[1] = 0
  BY DEF LogCode
<1>2. <<1, "istore", 2>> \in LogCode /\ <<1, "istore", 2>>[1] = 1
  BY DEF LogCode
<1>3. <<3, "iload", 0>> \in LogCode /\ <<3, "iload", 0>>[1] = 3
  BY DEF LogCode
<1>4. <<5, "iconst", 1>> \in LogCode /\ <<5, "iconst", 1>>[1] = 5
  BY DEF LogCode
<1>5. <<6, "if_icmpgt", 12>> \in LogCode /\ <<6, "if_icmpgt", 12>>[1] = 6
  BY DEF LogCode
<1>6. <<9, "goto", 27>> \in LogCode /\ <<9, "goto", 27>>[1] = 9
  BY DEF LogCode
<1>7. <<12, "iload", 0>> \in LogCode /\ <<12, "iload", 0>>[1] = 12
  BY DEF LogCode
<1>8. <<14, "iconst", 2>> \in LogCode /\ <<14, "iconst", 2>>[1] = 14
  BY DEF LogCode
<1>9. <<15, "idiv">> \in LogCode /\ <<15, "idiv">>[1] = 15
  BY DEF LogCode
<1>10. <<16, "istore", 0>> \in LogCode /\ <<16, "istore", 0>>[1] = 16
  BY DEF LogCode
<1>11. <<18, "iload", 2>> \in LogCode /\ <<18, "iload", 2>>[1] = 18
  BY DEF LogCode
<1>12. <<20, "iconst", 1>> \in LogCode /\ <<20, "iconst", 1>>[1] = 20
  BY DEF LogCode
<1>13. <<21, "iadd">> \in LogCode /\ <<21, "iadd">>[1] = 21
  BY DEF LogCode
<1>14. <<22, "istore", 2>> \in LogCode /\ <<22, "istore", 2>>[1] = 22
  BY DEF LogCode
<1>15. <<24, "goto", 3>> \in LogCode /\ <<24, "goto", 3>>[1] = 24
  BY DEF LogCode
<1>16. <<27, "return">> \in LogCode /\ <<27, "return">>[1] = 27
  BY DEF LogCode
<1>17. interp_pc \in {-1, 0, 1, 3, 5, 6, 9, 12, 14, 15, 16, 18, 20, 21, 22, 24, 27}
  BY SMT DEF LogPoint, Machine
<1> HIDE DEF LogCode
<1> QED BY <1>1, <1>2, <1>3, <1>4, <1>5, <1>6, <1>7, <1>8, <1>9, <1>10, <1>11, <1>12, <1>13, <1>14, <1>15,
     <1>16, <1>17, SMT DEF RETURNED

-----------------------------------------------------------------------------
(* The absolute value                                                      *)

\* The absolute value at each pc.
AbsPoint(n, k, z, v) ==
    \/ Machine(0, << >>, n, k, z)
    \/ Machine(2, <<n>>, n, k, z)
    \/ Machine(3, <<n, 0>>, n, k, z)
    \/ Machine(6, << >>, n, k, z) /\ n < 0
    \/ Machine(8, <<n>>, n, k, z) /\ n < 0
    \/ Machine(9, <<- n>>, n, k, z) /\ n < 0
    \/ Machine(12, << >>, n, k, z) /\ n >= 0
    \/ Machine(14, <<v>>, n, k, z) /\ v \in {n, - n} /\ v >= 0
    \/ Machine(16, << >>, n, k, v) /\ v \in {n, - n} /\ v >= 0
    \/ Machine(-1, << >>, n, k, v) /\ v \in {n, - n} /\ v >= 0

\* An instruction leads from one of them to another.
LEMMA AbsPointStep ==
    ASSUME NEW n \in Int, NEW k \in Int,
           NEW z \in Int, NEW v \in Int, AbsPoint(n, k, z, v),
           NEW i \in AbsCode, i[1] = interp_pc, Dispatch(i)
    PROVE  \E z1 \in Int, v1 \in Int : AbsPoint(n, k, z1, v1)'
<1>1. CASE Machine(0, << >>, n, k, z)
  <2>1. i[2] = "iload" /\ i[3] = 0
    BY <1>1, SMT DEF AbsCode, Machine
  <2>2. Pushed(<< >>, n) = <<n>>
    BY PushedOn
  <2>3. Machine(2, <<n>>, n, k, z)'
    BY <1>1, <2>1, <2>2, Loads
  <2> QED BY <1>1, <2>3 DEF AbsPoint
<1>2. CASE Machine(2, <<n>>, n, k, z)
  <2>1. i[2] = "iconst" /\ i[3] = 0
    BY <1>2, SMT DEF AbsCode, Machine
  <2>2. Pushed(<<n>>, 0) = <<n, 0>>
    BY PushedOn
  <2>3. Machine(3, <<n, 0>>, n, k, z)'
    BY <1>2, <2>1, <2>2, Constants
  <2> QED BY <1>2, <2>3 DEF AbsPoint
<1>3. CASE Machine(3, <<n, 0>>, n, k, z)
  <2>1. i[2] = "if_icmpge" /\ i[3] = 12
    BY <1>3, SMT DEF AbsCode, Machine
  <2>2. /\ Popped(<<n, 0>>) = <<n>>
         /\ TopOf(<<n, 0>>) = 0
         /\ Popped(<<n>>) = << >>
         /\ TopOf(<<n>>) = n
    BY PoppedFrom, TopsAre
  <2>3. n >= 0 => Machine(12, << >>, n, k, z)'
    BY <1>3, <2>1, <2>2, Branches DEF Conditions, Holds
  <2>4. ~ (n >= 0) => Machine(6, << >>, n, k, z)'
    BY <1>3, <2>1, <2>2, Branches DEF Conditions, Holds
  <2>5. CASE n >= 0
    BY <1>3, <2>3, <2>5 DEF AbsPoint
  <2>6. CASE ~ (n >= 0)
    BY <1>3, <2>4, <2>6 DEF AbsPoint
  <2> QED BY <2>5, <2>6
<1>4. CASE Machine(6, << >>, n, k, z) /\ n < 0
  <2>1. i[2] = "iload" /\ i[3] = 0
    BY <1>4, SMT DEF AbsCode, Machine
  <2>2. Pushed(<< >>, n) = <<n>>
    BY PushedOn
  <2>3. Machine(8, <<n>>, n, k, z)'
    BY <1>4, <2>1, <2>2, Loads
  <2> QED BY <1>4, <2>3 DEF AbsPoint
<1>5. CASE Machine(8, <<n>>, n, k, z) /\ n < 0
  <2>1. i[2] = "ineg"
    BY <1>5, SMT DEF AbsCode, Machine
  <2>2. /\ Popped(<<n>>) = << >>
         /\ TopOf(<<n>>) = n
         /\ Pushed(<< >>, - n) = <<- n>>
    BY PoppedFrom, TopsAre, PushedOn
  <2>3. Machine(9, <<- n>>, n, k, z)'
    BY <1>5, <2>1, <2>2, Negates
  <2> QED BY <1>5, <2>3 DEF AbsPoint
<1>6. CASE Machine(9, <<- n>>, n, k, z) /\ n < 0
  <2>1. i[2] = "goto" /\ i[3] = 14
    BY <1>6, SMT DEF AbsCode, Machine
  <2>2. Machine(14, <<- n>>, n, k, z)'
    BY <1>6, <2>1, Jumps
  <2>3. - n \in Int /\ - n >= 0
    BY <1>6
  <2>4. AbsPoint(n, k, z, - n)'
    BY <1>6, <2>2, <2>3 DEF AbsPoint
  <2> QED BY <2>4, <2>3
<1>7. CASE Machine(12, << >>, n, k, z) /\ n >= 0
  <2>1. i[2] = "iload" /\ i[3] = 0
    BY <1>7, SMT DEF AbsCode, Machine
  <2>2. Pushed(<< >>, n) = <<n>>
    BY PushedOn
  <2>3. Machine(14, <<n>>, n, k, z)'
    BY <1>7, <2>1, <2>2, Loads
  <2>4. AbsPoint(n, k, z, n)'
    BY <1>7, <2>3 DEF AbsPoint
  <2> QED BY <2>4
<1>8. CASE Machine(14, <<v>>, n, k, z) /\ v \in {n, - n} /\ v >= 0
  <2>1. i[2] = "istore" /\ i[3] = 2
    BY <1>8, SMT DEF AbsCode, Machine
  <2>2. Popped(<<v>>) = << >> /\ TopOf(<<v>>) = v
    BY PoppedFrom, TopsAre
  <2>3. Machine(16, << >>, n, k, v)'
    BY <1>8, <2>1, <2>2, Stores
  <2> QED BY <1>8, <2>3 DEF AbsPoint
<1>9. CASE Machine(16, << >>, n, k, v) /\ v \in {n, - n} /\ v >= 0
  <2>1. i[2] = "return"
    BY <1>9, SMT DEF AbsCode, Machine
  <2>2. Machine(-1, << >>, n, k, v)'
    BY <1>9, <2>1, Jumps DEF RETURNED
  <2> QED BY <1>9, <2>2 DEF AbsPoint
<1>10. ~ Machine(-1, << >>, n, k, v)
  BY SMT DEF AbsCode, Machine
<1> QED BY <1>1, <1>2, <1>3, <1>4, <1>5, <1>6, <1>7, <1>8, <1>9, <1>10 DEF AbsPoint

LEMMA AbsPointIsThere ==
    ASSUME NEW n, NEW k, NEW z, NEW v, AbsPoint(n, k, z, v)
    PROVE  interp_pc = RETURNED \/ \E i \in AbsCode : i[1] = interp_pc
<1>1. <<0, "iload", 0>> \in AbsCode /\ <<0, "iload", 0>>[1] = 0
  BY DEF AbsCode
<1>2. <<2, "iconst", 0>> \in AbsCode /\ <<2, "iconst", 0>>[1] = 2
  BY DEF AbsCode
<1>3. <<3, "if_icmpge", 12>> \in AbsCode /\ <<3, "if_icmpge", 12>>[1] = 3
  BY DEF AbsCode
<1>4. <<6, "iload", 0>> \in AbsCode /\ <<6, "iload", 0>>[1] = 6
  BY DEF AbsCode
<1>5. <<8, "ineg">> \in AbsCode /\ <<8, "ineg">>[1] = 8
  BY DEF AbsCode
<1>6. <<9, "goto", 14>> \in AbsCode /\ <<9, "goto", 14>>[1] = 9
  BY DEF AbsCode
<1>7. <<12, "iload", 0>> \in AbsCode /\ <<12, "iload", 0>>[1] = 12
  BY DEF AbsCode
<1>8. <<14, "istore", 2>> \in AbsCode /\ <<14, "istore", 2>>[1] = 14
  BY DEF AbsCode
<1>9. <<16, "return">> \in AbsCode /\ <<16, "return">>[1] = 16
  BY DEF AbsCode
<1>10. interp_pc \in {-1, 0, 2, 3, 6, 8, 9, 12, 14, 16}
  BY SMT DEF AbsPoint, Machine
<1> HIDE DEF AbsCode
<1> QED BY <1>1, <1>2, <1>3, <1>4, <1>5, <1>6, <1>7, <1>8, <1>9, <1>10, SMT DEF RETURNED

-----------------------------------------------------------------------------
(* The minimum                                                             *)

\* The minimum at each pc.
MinPoint(n, k, z, v) ==
    \/ Machine(0, << >>, n, k, z)
    \/ Machine(2, <<n>>, n, k, z)
    \/ Machine(4, <<n, k>>, n, k, z)
    \/ Machine(7, << >>, n, k, z) /\ n >= k
    \/ Machine(9, <<k>>, n, k, z) /\ n >= k
    \/ Machine(12, << >>, n, k, z) /\ n < k
    \/ Machine(14, <<v>>, n, k, z) /\ v \in {n, k} /\ v <= n /\ v <= k
    \/ Machine(16, << >>, n, k, v) /\ v \in {n, k} /\ v <= n /\ v <= k
    \/ Machine(-1, << >>, n, k, v) /\ v \in {n, k} /\ v <= n /\ v <= k

\* An instruction leads from one of them to another.
LEMMA MinPointStep ==
    ASSUME NEW n \in Int, NEW k \in Int,
           NEW z \in Int, NEW v \in Int, MinPoint(n, k, z, v),
           NEW i \in MinCode, i[1] = interp_pc, Dispatch(i)
    PROVE  \E z1 \in Int, v1 \in Int : MinPoint(n, k, z1, v1)'
<1>1. CASE Machine(0, << >>, n, k, z)
  <2>1. i[2] = "iload" /\ i[3] = 0
    BY <1>1, SMT DEF MinCode, Machine
  <2>2. Pushed(<< >>, n) = <<n>>
    BY PushedOn
  <2>3. Machine(2, <<n>>, n, k, z)'
    BY <1>1, <2>1, <2>2, Loads
  <2> QED BY <1>1, <2>3 DEF MinPoint
<1>2. CASE Machine(2, <<n>>, n, k, z)
  <2>1. i[2] = "iload" /\ i[3] = 1
    BY <1>2, SMT DEF MinCode, Machine
  <2>2. Pushed(<<n>>, k) = <<n, k>>
    BY PushedOn
  <2>3. Machine(4, <<n, k>>, n, k, z)'
    BY <1>2, <2>1, <2>2, Loads
  <2> QED BY <1>2, <2>3 DEF MinPoint
<1>3. CASE Machine(4, <<n, k>>, n, k, z)
  <2>1. i[2] = "if_icmplt" /\ i[3] = 12
    BY <1>3, SMT DEF MinCode, Machine
  <2>2. /\ Popped(<<n, k>>) = <<n>>
         /\ TopOf(<<n, k>>) = k
         /\ Popped(<<n>>) = << >>
         /\ TopOf(<<n>>) = n
    BY PoppedFrom, TopsAre
  <2>3. n < k => Machine(12, << >>, n, k, z)'
    BY <1>3, <2>1, <2>2, Branches DEF Conditions, Holds
  <2>4. ~ (n < k) => Machine(7, << >>, n, k, z)'
    BY <1>3, <2>1, <2>2, Branches DEF Conditions, Holds
  <2>5. CASE n < k
    BY <1>3, <2>3, <2>5 DEF MinPoint
  <2>6. CASE ~ (n < k)
    BY <1>3, <2>4, <2>6 DEF MinPoint
  <2> QED BY <2>5, <2>6
<1>4. CASE Machine(7, << >>, n, k, z) /\ n >= k
  <2>1. i[2] = "iload" /\ i[3] = 1
    BY <1>4, SMT DEF MinCode, Machine
  <2>2. Pushed(<< >>, k) = <<k>>
    BY PushedOn
  <2>3. Machine(9, <<k>>, n, k, z)'
    BY <1>4, <2>1, <2>2, Loads
  <2> QED BY <1>4, <2>3 DEF MinPoint
<1>5. CASE Machine(9, <<k>>, n, k, z) /\ n >= k
  <2>1. i[2] = "goto" /\ i[3] = 14
    BY <1>5, SMT DEF MinCode, Machine
  <2>2. Machine(14, <<k>>, n, k, z)'
    BY <1>5, <2>1, Jumps
  <2>3. MinPoint(n, k, z, k)'
    BY <1>5, <2>2 DEF MinPoint
  <2> QED BY <2>3
<1>6. CASE Machine(12, << >>, n, k, z) /\ n < k
  <2>1. i[2] = "iload" /\ i[3] = 0
    BY <1>6, SMT DEF MinCode, Machine
  <2>2. Pushed(<< >>, n) = <<n>>
    BY PushedOn
  <2>3. Machine(14, <<n>>, n, k, z)'
    BY <1>6, <2>1, <2>2, Loads
  <2>4. MinPoint(n, k, z, n)'
    BY <1>6, <2>3 DEF MinPoint
  <2> QED BY <2>4
<1>7. CASE Machine(14, <<v>>, n, k, z) /\ v \in {n, k} /\ v <= n /\ v <= k
  <2>1. i[2] = "istore" /\ i[3] = 2
    BY <1>7, SMT DEF MinCode, Machine
  <2>2. Popped(<<v>>) = << >> /\ TopOf(<<v>>) = v
    BY PoppedFrom, TopsAre
  <2>3. Machine(16, << >>, n, k, v)'
    BY <1>7, <2>1, <2>2, Stores
  <2> QED BY <1>7, <2>3 DEF MinPoint
<1>8. CASE Machine(16, << >>, n, k, v) /\ v \in {n, k} /\ v <= n /\ v <= k
  <2>1. i[2] = "return"
    BY <1>8, SMT DEF MinCode, Machine
  <2>2. Machine(-1, << >>, n, k, v)'
    BY <1>8, <2>1, Jumps DEF RETURNED
  <2> QED BY <1>8, <2>2 DEF MinPoint
<1>9. ~ Machine(-1, << >>, n, k, v)
  BY SMT DEF MinCode, Machine
<1> QED BY <1>1, <1>2, <1>3, <1>4, <1>5, <1>6, <1>7, <1>8, <1>9 DEF MinPoint

LEMMA MinPointIsThere ==
    ASSUME NEW n, NEW k, NEW z, NEW v, MinPoint(n, k, z, v)
    PROVE  interp_pc = RETURNED \/ \E i \in MinCode : i[1] = interp_pc
<1>1. <<0, "iload", 0>> \in MinCode /\ <<0, "iload", 0>>[1] = 0
  BY DEF MinCode
<1>2. <<2, "iload", 1>> \in MinCode /\ <<2, "iload", 1>>[1] = 2
  BY DEF MinCode
<1>3. <<4, "if_icmplt", 12>> \in MinCode /\ <<4, "if_icmplt", 12>>[1] = 4
  BY DEF MinCode
<1>4. <<7, "iload", 1>> \in MinCode /\ <<7, "iload", 1>>[1] = 7
  BY DEF MinCode
<1>5. <<9, "goto", 14>> \in MinCode /\ <<9, "goto", 14>>[1] = 9
  BY DEF MinCode
<1>6. <<12, "iload", 0>> \in MinCode /\ <<12, "iload", 0>>[1] = 12
  BY DEF MinCode
<1>7. <<14, "istore", 2>> \in MinCode /\ <<14, "istore", 2>>[1] = 14
  BY DEF MinCode
<1>8. <<16, "return">> \in MinCode /\ <<16, "return">>[1] = 16
  BY DEF MinCode
<1>9. interp_pc \in {-1, 0, 2, 4, 7, 9, 12, 14, 16}
  BY SMT DEF MinPoint, Machine
<1> HIDE DEF MinCode
<1> QED BY <1>1, <1>2, <1>3, <1>4, <1>5, <1>6, <1>7, <1>8, <1>9, SMT DEF RETURNED

-----------------------------------------------------------------------------
(* The quotient                                                            *)

\* Division rounds towards zero: the remainder has the sign of what is divided.
LEMMA QuotientRounds ==
    ASSUME NEW n \in Int, NEW k \in Int, k # 0
    PROVE  /\ (n - k * Quotient(n, k)) * n >= 0
           /\ (n - k * Quotient(n, k)) * (n - k * Quotient(n, k)) < k * k
<1> DEFINE a == IF n < 0 THEN - n ELSE n
           b == IF k < 0 THEN - k ELSE k
           q == a \div b
           r == a - b * q
<1>1. a \in Nat /\ b \in Nat /\ b > 0
  OBVIOUS
<1>2. Quotient(n, k) = q * (IF (n < 0) = (k < 0) THEN 1 ELSE -1)
  BY DEF Quotient
<1>3. q \in Nat /\ b * q <= a /\ a < b * q + b
  <2> HIDE DEF a, b
  <2> QED
    BY <1>1, SMT
<1>4. r \in Nat /\ r < b
  <2> HIDE DEF a, b, q
  <2> QED
    BY <1>1, <1>3
<1>5. n - k * Quotient(n, k) = IF n < 0 THEN - r ELSE r
  <2>1. CASE n < 0 /\ k < 0
    <3>1. Quotient(n, k) = q /\ a = - n /\ b = - k
      BY <1>2, <1>3, <2>1
    <3> HIDE DEF a, b, q
    <3>2. (- k) * q = - (k * q)
      BY <1>3
    <3> QED
      BY <1>3, <2>1, <3>1, <3>2
  <2>2. CASE n < 0 /\ ~ (k < 0)
    <3>1. Quotient(n, k) = q * (-1) /\ a = - n /\ b = k
      BY <1>2, <1>3, <2>2
    <3> HIDE DEF a, b, q
    <3>2. k * (q * (-1)) = - (k * q)
      BY <1>3
    <3> QED
      BY <1>3, <2>2, <3>1, <3>2
  <2>3. CASE ~ (n < 0) /\ k < 0
    <3>1. Quotient(n, k) = q * (-1) /\ a = n /\ b = - k
      BY <1>2, <1>3, <2>3
    <3> HIDE DEF a, b, q
    <3>2. k * (q * (-1)) = - (k * q) /\ (- k) * q = - (k * q)
      BY <1>3
    <3> QED
      BY <1>3, <2>3, <3>1, <3>2
  <2>4. CASE ~ (n < 0) /\ ~ (k < 0)
    <3>1. Quotient(n, k) = q /\ a = n /\ b = k
      BY <1>2, <1>3, <2>4
    <3> HIDE DEF a, b, q
    <3> QED
      BY <1>3, <2>4, <3>1
  <2> QED
    BY <2>1, <2>2, <2>3, <2>4
<1>6. PICK t : t = r
  OBVIOUS
<1>7. PICK s : s = n - k * Quotient(n, k)
  OBVIOUS
<1>8. t \in Nat /\ t < b /\ s = IF n < 0 THEN - t ELSE t
  BY <1>4, <1>5, <1>6, <1>7
<1>9. s * n = t * a
  BY <1>1, <1>8
<1>10. s * s = t * t
  BY <1>8
<1>11. b * b = k * k
  OBVIOUS
<1>12. t * a >= 0
  BY <1>1, <1>8
<1>13. t * t < b * b
  <2> HIDE DEF a, b
  <2>1. PICK e \in Nat : b = t + 1 + e
    <3>1. b - t - 1 \in Nat /\ b = t + 1 + (b - t - 1)
      BY <1>1, <1>8
    <3> QED
      BY <3>1
  <2>2. (t + 1 + e) * (t + 1 + e) = t * t + 2 * (t * (1 + e)) + (1 + e) * (1 + e)
    BY <1>8, <2>1
  <2>3. t * (1 + e) \in Nat /\ (1 + e) * (1 + e) >= 1
    BY <1>8, <2>1
  <2> QED
    BY <1>8, <2>1, <2>2, <2>3
<1> QED
  BY <1>7, <1>8, <1>9, <1>10, <1>11, <1>12, <1>13

\* The quotient at each pc.
QuotientPoint(n, k, z) ==
    \/ Machine(0, << >>, n, k, z)
    \/ Machine(2, <<n>>, n, k, z)
    \/ Machine(4, <<n, k>>, n, k, z)
    \/ Machine(5, <<Quotient(n, k)>>, n, k, z) /\ k # 0
    \/ Machine(5, << >>, n, k, z) /\ k = 0
    \/ Machine(7, << >>, n, k, Quotient(n, k)) /\ k # 0
    \/ Machine(7, << >>, n, k, 0) /\ k = 0
    \/ Machine(-1, << >>, n, k, Quotient(n, k)) /\ k # 0
    \/ Machine(-1, << >>, n, k, 0) /\ k = 0

\* An instruction leads from one of them to another.
LEMMA QuotientPointStep ==
    ASSUME NEW n \in Int, NEW k \in Int,
           NEW z \in Int, QuotientPoint(n, k, z),
           NEW i \in QuotientCode, i[1] = interp_pc, Dispatch(i)
    PROVE  \E z1 \in Int : QuotientPoint(n, k, z1)'
<1>1. CASE Machine(0, << >>, n, k, z)
  <2>1. i[2] = "iload" /\ i[3] = 0
    BY <1>1, SMT DEF QuotientCode, Machine
  <2>2. Pushed(<< >>, n) = <<n>>
    BY PushedOn
  <2>3. Machine(2, <<n>>, n, k, z)'
    BY <1>1, <2>1, <2>2, Loads
  <2> QED BY <1>1, <2>3 DEF QuotientPoint
<1>2. CASE Machine(2, <<n>>, n, k, z)
  <2>1. i[2] = "iload" /\ i[3] = 1
    BY <1>2, SMT DEF QuotientCode, Machine
  <2>2. Pushed(<<n>>, k) = <<n, k>>
    BY PushedOn
  <2>3. Machine(4, <<n, k>>, n, k, z)'
    BY <1>2, <2>1, <2>2, Loads
  <2> QED BY <1>2, <2>3 DEF QuotientPoint
<1>3. CASE Machine(4, <<n, k>>, n, k, z)
  <2>1. i[2] = "idiv"
    BY <1>3, SMT DEF QuotientCode, Machine
  <2>2. /\ Popped(<<n, k>>) = <<n>>
         /\ TopOf(<<n, k>>) = k
         /\ Popped(<<n>>) = << >>
         /\ TopOf(<<n>>) = n
         /\ Pushed(<< >>, Quotient(n, k)) = <<Quotient(n, k)>>
    BY PoppedFrom, TopsAre, PushedOn
  <2>3. k # 0 => Machine(5, <<Quotient(n, k)>>, n, k, z)'
    BY <1>3, <2>1, <2>2, Calculates DEF Arithmetic, Computed
  <2>4. ~ (k # 0) => Machine(5, << >>, n, k, z)'
    BY <1>3, <2>1, <2>2, Calculates DEF Arithmetic, Computed
  <2>5. CASE k # 0
    BY <1>3, <2>3, <2>5 DEF QuotientPoint
  <2>6. CASE ~ (k # 0)
    BY <1>3, <2>4, <2>6 DEF QuotientPoint
  <2> QED BY <2>5, <2>6
<1>4. CASE Machine(5, <<Quotient(n, k)>>, n, k, z) /\ k # 0
  <2>1. i[2] = "istore" /\ i[3] = 2
    BY <1>4, SMT DEF QuotientCode, Machine
  <2>2. Popped(<<Quotient(n, k)>>) = << >> /\ TopOf(<<Quotient(n, k)>>) = Quotient(n, k)
    BY PoppedFrom, TopsAre
  <2>3. Machine(7, << >>, n, k, Quotient(n, k))'
    BY <1>4, <2>1, <2>2, Stores
  <2> QED BY <1>4, <2>3 DEF QuotientPoint
<1>5. CASE Machine(5, << >>, n, k, z) /\ k = 0
  <2>1. i[2] = "istore" /\ i[3] = 2
    BY <1>5, SMT DEF QuotientCode, Machine
  <2>2. Popped(<< >>) = << >> /\ TopOf(<< >>) = 0
    BY PoppedFrom, TopsAre
  <2>3. Machine(7, << >>, n, k, 0)'
    BY <1>5, <2>1, <2>2, Stores
  <2> QED BY <1>5, <2>3 DEF QuotientPoint
<1>6. CASE Machine(7, << >>, n, k, Quotient(n, k)) /\ k # 0
  <2>1. i[2] = "return"
    BY <1>6, SMT DEF QuotientCode, Machine
  <2>2. Machine(-1, << >>, n, k, Quotient(n, k))'
    BY <1>6, <2>1, Jumps DEF RETURNED
  <2> QED BY <1>6, <2>2 DEF QuotientPoint
<1>7. CASE Machine(7, << >>, n, k, 0) /\ k = 0
  <2>1. i[2] = "return"
    BY <1>7, SMT DEF QuotientCode, Machine
  <2>2. Machine(-1, << >>, n, k, 0)'
    BY <1>7, <2>1, Jumps DEF RETURNED
  <2> QED BY <1>7, <2>2 DEF QuotientPoint
<1>8. ~ Machine(-1, << >>, n, k, Quotient(n, k))
  BY SMT DEF QuotientCode, Machine
<1>9. ~ Machine(-1, << >>, n, k, 0)
  BY SMT DEF QuotientCode, Machine
<1> QED BY <1>1, <1>2, <1>3, <1>4, <1>5, <1>6, <1>7, <1>8, <1>9 DEF QuotientPoint

LEMMA QuotientPointIsThere ==
    ASSUME NEW n, NEW k, NEW z, QuotientPoint(n, k, z)
    PROVE  interp_pc = RETURNED \/ \E i \in QuotientCode : i[1] = interp_pc
<1>1. <<0, "iload", 0>> \in QuotientCode /\ <<0, "iload", 0>>[1] = 0
  BY DEF QuotientCode
<1>2. <<2, "iload", 1>> \in QuotientCode /\ <<2, "iload", 1>>[1] = 2
  BY DEF QuotientCode
<1>3. <<4, "idiv">> \in QuotientCode /\ <<4, "idiv">>[1] = 4
  BY DEF QuotientCode
<1>4. <<5, "istore", 2>> \in QuotientCode /\ <<5, "istore", 2>>[1] = 5
  BY DEF QuotientCode
<1>5. <<7, "return">> \in QuotientCode /\ <<7, "return">>[1] = 7
  BY DEF QuotientCode
<1>6. interp_pc \in {-1, 0, 2, 4, 5, 7}
  BY SMT DEF QuotientPoint, Machine
<1> HIDE DEF QuotientCode
<1> QED BY <1>1, <1>2, <1>3, <1>4, <1>5, <1>6, SMT DEF RETURNED

-----------------------------------------------------------------------------
(* Objects and fields                                                      *)

LEMMA KeepsObjects ==
    ASSUME NEW i, Dispatch(i), i[2] # "new"
    PROVE  next_free' = next_free
BY DEF Dispatch, exec_arithmetic, exec_if_icmp, exec_ineg, exec_goto, exec_return, exec_iload, exec_istore,
       exec_iconst, exec_bipush, exec_getfield, exec_putfield, exec_getstatic, exec_putstatic

\* The object that local i gets, and how many there are when i were asked for.
ObjectOf(i) == IF i < HEAP_OBJECTS THEN i + 1 ELSE 0

HeldAfter(i) == IF i < HEAP_OBJECTS THEN i ELSE HEAP_OBJECTS

\* The method with objects at each pc.
ObjectsPoint(n, k, x, y, z) ==
    \/ Machine(0, << >>, x, y, z) /\ next_free = HeldAfter(0)
    \/ Machine(3, <<1>>, x, y, z) /\ 0 < HEAP_OBJECTS /\ next_free = HeldAfter(1)
    \/ Machine(3, << >>, x, y, z) /\ ~ (0 < HEAP_OBJECTS) /\ next_free = HeldAfter(1)
    \/ Machine(5, << >>, x, y, z) /\ x = ObjectOf(0) /\ next_free = HeldAfter(1)
    \/ Machine(8, <<2>>, x, y, z) /\ 1 < HEAP_OBJECTS /\ x = ObjectOf(0) /\ next_free = HeldAfter(2)
    \/ Machine(8, << >>, x, y, z) /\ ~ (1 < HEAP_OBJECTS) /\ x = ObjectOf(0) /\ next_free = HeldAfter(2)
    \/ Machine(10, << >>, x, y, z) /\ x = ObjectOf(0) /\ y = ObjectOf(1) /\ next_free = HeldAfter(2)
    \/ Machine(12, <<x>>, x, y, z) /\ x = ObjectOf(0) /\ y = ObjectOf(1) /\ next_free = HeldAfter(2)
    \/ Machine(14, <<x, 42>>, x, y, z) /\ x = ObjectOf(0) /\ y = ObjectOf(1) /\ next_free = HeldAfter(2)
    \/ Machine(17, << >>, x, y, z) /\ x = ObjectOf(0) /\ y = ObjectOf(1) /\ next_free = HeldAfter(2)
    \/ Machine(19, <<x>>, x, y, z) /\ x = ObjectOf(0) /\ y = ObjectOf(1) /\ next_free = HeldAfter(2)
    \/ Machine(22, <<42>>, x, y, z) /\ x = ObjectOf(0) /\ y = ObjectOf(1) /\ next_free = HeldAfter(2)
    \/ Machine(25, << >>, x, y, z) /\ x = ObjectOf(0) /\ y = ObjectOf(1) /\ next_free = HeldAfter(2)
    \/ Machine(28, <<42>>, x, y, z) /\ x = ObjectOf(0) /\ y = ObjectOf(1) /\ next_free = HeldAfter(2)
    \/ Machine(31, << >>, x, y, z) /\ x = ObjectOf(0) /\ y = ObjectOf(1) /\ next_free = HeldAfter(2)
    \/ Machine(34, <<3>>, x, y, z) /\ 2 < HEAP_OBJECTS /\ x = ObjectOf(0) /\ y = ObjectOf(1)
    \/ Machine(34, << >>, x, y, z) /\ ~ (2 < HEAP_OBJECTS) /\ x = ObjectOf(0) /\ y = ObjectOf(1)
    \/ Machine(36, << >>, x, y, z) /\ x = ObjectOf(0) /\ y = ObjectOf(1) /\ z = ObjectOf(2)
    \/ Machine(-1, << >>, x, y, z) /\ x = ObjectOf(0) /\ y = ObjectOf(1) /\ z = ObjectOf(2)

\* An instruction leads from one of them to another.
LEMMA ObjectsPointStep ==
    ASSUME NEW n \in Int, NEW k \in Int,
           NEW x \in Nat, NEW y \in Nat, NEW z \in Nat, ObjectsPoint(n, k, x, y, z),
           NEW i \in ObjectsCode, i[1] = interp_pc, Dispatch(i)
    PROVE  \E x1 \in Nat, y1 \in Nat, z1 \in Nat : ObjectsPoint(n, k, x1, y1, z1)'
<1>1. CASE Machine(0, << >>, x, y, z) /\ next_free = HeldAfter(0)
  <2>1. i[2] = "new"
    BY <1>1, SMT DEF ObjectsCode, Machine
  <2>6. Pushed(<< >>, 1) = <<1>>
    BY PushedOn
  <2>2. Pushed(<< >>, 0 + 1) = <<1>>
    BY <2>6, SMT
  <2>3. HeldAfter(0) \in Int /\ HEAP_OBJECTS \in Nat
    BY InterpreterConstants DEF HeldAfter
  <2>4. CASE 0 < HEAP_OBJECTS
    <3>1. next_free = 0 /\ HeldAfter(0) = 0 /\ HeldAfter(1) = 1
      BY <1>1, <2>3, <2>4 DEF HeldAfter
    <3>2. Machine(3, <<1>>, x, y, z)' /\ next_free' = 1
      BY <1>1, <2>1, <2>2, <2>4, <3>1, Allocates
    <3> QED BY <1>1, <2>4, <3>1, <3>2 DEF ObjectsPoint
  <2>5. CASE ~ (0 < HEAP_OBJECTS)
    <3>1. next_free = HEAP_OBJECTS /\ HeldAfter(1) = HEAP_OBJECTS
      BY <1>1, <2>3, <2>5 DEF HeldAfter
    <3>2. Machine(3, << >>, x, y, z)' /\ next_free' = HEAP_OBJECTS
      BY <1>1, <2>1, <2>3, <3>1, Allocates
    <3> QED BY <1>1, <2>5, <3>1, <3>2 DEF ObjectsPoint
  <2> QED BY <2>4, <2>5
<1>2. CASE Machine(3, <<1>>, x, y, z) /\ 0 < HEAP_OBJECTS /\ next_free = HeldAfter(1)
  <2>1. i[2] = "istore" /\ i[3] = 0
    BY <1>2, SMT DEF ObjectsCode, Machine
  <2>2. Popped(<<1>>) = << >> /\ TopOf(<<1>>) = 1
    BY PoppedFrom, TopsAre
  <2>3. Machine(5, << >>, 1, y, z)'
    BY <1>2, <2>1, <2>2, Stores
  <2>4. next_free' = next_free
    BY <2>1, KeepsObjects
  <2>5. ObjectOf(0) = 1 /\ 1 \in Nat
    BY <1>2 DEF ObjectOf
  <2>6. ObjectsPoint(n, k, 1, y, z)'
    BY <1>2, <2>3, <2>4, <2>5 DEF ObjectsPoint
  <2> QED BY <2>6, <2>5
<1>3. CASE Machine(3, << >>, x, y, z) /\ ~ (0 < HEAP_OBJECTS) /\ next_free = HeldAfter(1)
  <2>1. i[2] = "istore" /\ i[3] = 0
    BY <1>3, SMT DEF ObjectsCode, Machine
  <2>2. Popped(<< >>) = << >> /\ TopOf(<< >>) = 0
    BY PoppedFrom, TopsAre
  <2>3. Machine(5, << >>, 0, y, z)'
    BY <1>3, <2>1, <2>2, Stores
  <2>4. next_free' = next_free
    BY <2>1, KeepsObjects
  <2>5. ObjectOf(0) = 0 /\ 0 \in Nat
    BY <1>3 DEF ObjectOf
  <2>6. ObjectsPoint(n, k, 0, y, z)'
    BY <1>3, <2>3, <2>4, <2>5 DEF ObjectsPoint
  <2> QED BY <2>6, <2>5
<1>4. CASE Machine(5, << >>, x, y, z) /\ x = ObjectOf(0) /\ next_free = HeldAfter(1)
  <2>1. i[2] = "new"
    BY <1>4, SMT DEF ObjectsCode, Machine
  <2>6. Pushed(<< >>, 2) = <<2>>
    BY PushedOn
  <2>2. Pushed(<< >>, 1 + 1) = <<2>>
    BY <2>6, SMT
  <2>3. HeldAfter(1) \in Int /\ HEAP_OBJECTS \in Nat
    BY InterpreterConstants DEF HeldAfter
  <2>4. CASE 1 < HEAP_OBJECTS
    <3>1. next_free = 1 /\ HeldAfter(1) = 1 /\ HeldAfter(2) = 2
      BY <1>4, <2>3, <2>4 DEF HeldAfter
    <3>2. Machine(8, <<2>>, x, y, z)' /\ next_free' = 2
      BY <1>4, <2>1, <2>2, <2>4, <3>1, Allocates
    <3> QED BY <1>4, <2>4, <3>1, <3>2 DEF ObjectsPoint
  <2>5. CASE ~ (1 < HEAP_OBJECTS)
    <3>1. next_free = HEAP_OBJECTS /\ HeldAfter(2) = HEAP_OBJECTS
      BY <1>4, <2>3, <2>5 DEF HeldAfter
    <3>2. Machine(8, << >>, x, y, z)' /\ next_free' = HEAP_OBJECTS
      BY <1>4, <2>1, <2>3, <3>1, Allocates
    <3> QED BY <1>4, <2>5, <3>1, <3>2 DEF ObjectsPoint
  <2> QED BY <2>4, <2>5
<1>5. CASE Machine(8, <<2>>, x, y, z) /\ 1 < HEAP_OBJECTS /\ x = ObjectOf(0) /\ next_free = HeldAfter(2)
  <2>1. i[2] = "istore" /\ i[3] = 1
    BY <1>5, SMT DEF ObjectsCode, Machine
  <2>2. Popped(<<2>>) = << >> /\ TopOf(<<2>>) = 2
    BY PoppedFrom, TopsAre
  <2>3. Machine(10, << >>, x, 2, z)'
    BY <1>5, <2>1, <2>2, Stores
  <2>4. next_free' = next_free
    BY <2>1, KeepsObjects
  <2>5. ObjectOf(1) = 2 /\ 2 \in Nat
    BY <1>5 DEF ObjectOf
  <2>6. ObjectsPoint(n, k, x, 2, z)'
    BY <1>5, <2>3, <2>4, <2>5 DEF ObjectsPoint
  <2> QED BY <2>6, <2>5
<1>6. CASE Machine(8, << >>, x, y, z) /\ ~ (1 < HEAP_OBJECTS) /\ x = ObjectOf(0) /\ next_free = HeldAfter(2)
  <2>1. i[2] = "istore" /\ i[3] = 1
    BY <1>6, SMT DEF ObjectsCode, Machine
  <2>2. Popped(<< >>) = << >> /\ TopOf(<< >>) = 0
    BY PoppedFrom, TopsAre
  <2>3. Machine(10, << >>, x, 0, z)'
    BY <1>6, <2>1, <2>2, Stores
  <2>4. next_free' = next_free
    BY <2>1, KeepsObjects
  <2>5. ObjectOf(1) = 0 /\ 0 \in Nat
    BY <1>6 DEF ObjectOf
  <2>6. ObjectsPoint(n, k, x, 0, z)'
    BY <1>6, <2>3, <2>4, <2>5 DEF ObjectsPoint
  <2> QED BY <2>6, <2>5
<1>7. CASE Machine(10, << >>, x, y, z) /\ x = ObjectOf(0) /\ y = ObjectOf(1) /\ next_free = HeldAfter(2)
  <2>1. i[2] = "iload" /\ i[3] = 0
    BY <1>7, SMT DEF ObjectsCode, Machine
  <2>2. Pushed(<< >>, x) = <<x>>
    BY PushedOn
  <2>3. Machine(12, <<x>>, x, y, z)'
    BY <1>7, <2>1, <2>2, Loads
  <2>4. next_free' = next_free
    BY <2>1, KeepsObjects
  <2> QED BY <1>7, <2>3, <2>4 DEF ObjectsPoint
<1>8. CASE Machine(12, <<x>>, x, y, z) /\ x = ObjectOf(0) /\ y = ObjectOf(1) /\ next_free = HeldAfter(2)
  <2>1. i[2] = "bipush"
    BY <1>8, SMT DEF ObjectsCode, Machine
  <2>2. Pushed(<<x>>, 42) = <<x, 42>>
    BY PushedOn
  <2>3. Machine(14, <<x, 42>>, x, y, z)'
    BY <1>8, <2>1, <2>2, Constants
  <2>4. next_free' = next_free
    BY <2>1, KeepsObjects
  <2> QED BY <1>8, <2>3, <2>4 DEF ObjectsPoint
<1>9. CASE Machine(14, <<x, 42>>, x, y, z) /\ x = ObjectOf(0) /\ y = ObjectOf(1) /\ next_free = HeldAfter(2)
  <2>1. i[2] = "putfield"
    BY <1>9, SMT DEF ObjectsCode, Machine
  <2>2. Popped(<<x, 42>>) = <<x>> /\ Popped(<<x>>) = << >>
    BY PoppedFrom
  <2>3. Machine(17, << >>, x, y, z)'
    BY <1>9, <2>1, <2>2, UsesFields
  <2>4. next_free' = next_free
    BY <2>1, KeepsObjects
  <2> QED BY <1>9, <2>3, <2>4 DEF ObjectsPoint
<1>10. CASE Machine(17, << >>, x, y, z) /\ x = ObjectOf(0) /\ y = ObjectOf(1) /\ next_free = HeldAfter(2)
  <2>1. i[2] = "iload" /\ i[3] = 0
    BY <1>10, SMT DEF ObjectsCode, Machine
  <2>2. Pushed(<< >>, x) = <<x>>
    BY PushedOn
  <2>3. Machine(19, <<x>>, x, y, z)'
    BY <1>10, <2>1, <2>2, Loads
  <2>4. next_free' = next_free
    BY <2>1, KeepsObjects
  <2> QED BY <1>10, <2>3, <2>4 DEF ObjectsPoint
<1>11. CASE Machine(19, <<x>>, x, y, z) /\ x = ObjectOf(0) /\ y = ObjectOf(1) /\ next_free = HeldAfter(2)
  <2>1. i[2] = "getfield"
    BY <1>11, SMT DEF ObjectsCode, Machine
  <2>2. Popped(<<x>>) = << >> /\ Pushed(<< >>, 42) = <<42>>
    BY PoppedFrom, PushedOn
  <2>3. Machine(22, <<42>>, x, y, z)'
    BY <1>11, <2>1, <2>2, UsesFields
  <2>4. next_free' = next_free
    BY <2>1, KeepsObjects
  <2> QED BY <1>11, <2>3, <2>4 DEF ObjectsPoint
<1>12. CASE Machine(22, <<42>>, x, y, z) /\ x = ObjectOf(0) /\ y = ObjectOf(1) /\ next_free = HeldAfter(2)
  <2>1. i[2] = "putstatic"
    BY <1>12, SMT DEF ObjectsCode, Machine
  <2>2. Popped(<<42>>) = << >>
    BY PoppedFrom
  <2>3. Machine(25, << >>, x, y, z)'
    BY <1>12, <2>1, <2>2, UsesFields
  <2>4. next_free' = next_free
    BY <2>1, KeepsObjects
  <2> QED BY <1>12, <2>3, <2>4 DEF ObjectsPoint
<1>13. CASE Machine(25, << >>, x, y, z) /\ x = ObjectOf(0) /\ y = ObjectOf(1) /\ next_free = HeldAfter(2)
  <2>1. i[2] = "getstatic"
    BY <1>13, SMT DEF ObjectsCode, Machine
  <2>2. Pushed(<< >>, 42) = <<42>>
    BY PushedOn
  <2>3. Machine(28, <<42>>, x, y, z)'
    BY <1>13, <2>1, <2>2, UsesFields
  <2>4. next_free' = next_free
    BY <2>1, KeepsObjects
  <2> QED BY <1>13, <2>3, <2>4 DEF ObjectsPoint
<1>14. CASE Machine(28, <<42>>, x, y, z) /\ x = ObjectOf(0) /\ y = ObjectOf(1) /\ next_free = HeldAfter(2)
  <2>1. i[2] = "putstatic"
    BY <1>14, SMT DEF ObjectsCode, Machine
  <2>2. Popped(<<42>>) = << >>
    BY PoppedFrom
  <2>3. Machine(31, << >>, x, y, z)'
    BY <1>14, <2>1, <2>2, UsesFields
  <2>4. next_free' = next_free
    BY <2>1, KeepsObjects
  <2> QED BY <1>14, <2>3, <2>4 DEF ObjectsPoint
<1>15. CASE Machine(31, << >>, x, y, z) /\ x = ObjectOf(0) /\ y = ObjectOf(1) /\ next_free = HeldAfter(2)
  <2>1. i[2] = "new"
    BY <1>15, SMT DEF ObjectsCode, Machine
  <2>6. Pushed(<< >>, 3) = <<3>>
    BY PushedOn
  <2>2. Pushed(<< >>, 2 + 1) = <<3>>
    BY <2>6, SMT
  <2>3. HeldAfter(2) \in Int /\ HEAP_OBJECTS \in Nat
    BY InterpreterConstants DEF HeldAfter
  <2>4. CASE 2 < HEAP_OBJECTS
    <3>1. next_free = 2 /\ HeldAfter(2) = 2 /\ HeldAfter(3) = 3
      BY <1>15, <2>3, <2>4 DEF HeldAfter
    <3>2. Machine(34, <<3>>, x, y, z)' /\ next_free' = 3
      BY <1>15, <2>1, <2>2, <2>4, <3>1, Allocates
    <3> QED BY <1>15, <2>4, <3>1, <3>2 DEF ObjectsPoint
  <2>5. CASE ~ (2 < HEAP_OBJECTS)
    <3>1. next_free = HEAP_OBJECTS /\ HeldAfter(3) = HEAP_OBJECTS
      BY <1>15, <2>3, <2>5 DEF HeldAfter
    <3>2. Machine(34, << >>, x, y, z)' /\ next_free' = HEAP_OBJECTS
      BY <1>15, <2>1, <2>3, <3>1, Allocates
    <3> QED BY <1>15, <2>5, <3>1, <3>2 DEF ObjectsPoint
  <2> QED BY <2>4, <2>5
<1>16. CASE Machine(34, <<3>>, x, y, z) /\ 2 < HEAP_OBJECTS /\ x = ObjectOf(0) /\ y = ObjectOf(1)
  <2>1. i[2] = "istore" /\ i[3] = 2
    BY <1>16, SMT DEF ObjectsCode, Machine
  <2>2. Popped(<<3>>) = << >> /\ TopOf(<<3>>) = 3
    BY PoppedFrom, TopsAre
  <2>3. Machine(36, << >>, x, y, 3)'
    BY <1>16, <2>1, <2>2, Stores
  <2>4. next_free' = next_free
    BY <2>1, KeepsObjects
  <2>5. ObjectOf(2) = 3 /\ 3 \in Nat
    BY <1>16 DEF ObjectOf
  <2>6. ObjectsPoint(n, k, x, y, 3)'
    BY <1>16, <2>3, <2>4, <2>5 DEF ObjectsPoint
  <2> QED BY <2>6, <2>5
<1>17. CASE Machine(34, << >>, x, y, z) /\ ~ (2 < HEAP_OBJECTS) /\ x = ObjectOf(0) /\ y = ObjectOf(1)
  <2>1. i[2] = "istore" /\ i[3] = 2
    BY <1>17, SMT DEF ObjectsCode, Machine
  <2>2. Popped(<< >>) = << >> /\ TopOf(<< >>) = 0
    BY PoppedFrom, TopsAre
  <2>3. Machine(36, << >>, x, y, 0)'
    BY <1>17, <2>1, <2>2, Stores
  <2>4. next_free' = next_free
    BY <2>1, KeepsObjects
  <2>5. ObjectOf(2) = 0 /\ 0 \in Nat
    BY <1>17 DEF ObjectOf
  <2>6. ObjectsPoint(n, k, x, y, 0)'
    BY <1>17, <2>3, <2>4, <2>5 DEF ObjectsPoint
  <2> QED BY <2>6, <2>5
<1>18. CASE Machine(36, << >>, x, y, z) /\ x = ObjectOf(0) /\ y = ObjectOf(1) /\ z = ObjectOf(2)
  <2>1. i[2] = "return"
    BY <1>18, SMT DEF ObjectsCode, Machine
  <2>2. Machine(-1, << >>, x, y, z)'
    BY <1>18, <2>1, Jumps DEF RETURNED
  <2>3. next_free' = next_free
    BY <2>1, KeepsObjects
  <2> QED BY <1>18, <2>2, <2>3 DEF ObjectsPoint
<1>19. ~ Machine(-1, << >>, x, y, z)
  BY SMT DEF ObjectsCode, Machine
<1> QED BY <1>1, <1>2, <1>3, <1>4, <1>5, <1>6, <1>7, <1>8, <1>9, <1>10, <1>11, <1>12, <1>13, <1>14, <1>15,
     <1>16, <1>17, <1>18, <1>19 DEF ObjectsPoint

LEMMA ObjectsPointIsThere ==
    ASSUME NEW n, NEW k, NEW x, NEW y, NEW z, ObjectsPoint(n, k, x, y, z)
    PROVE  interp_pc = RETURNED \/ \E i \in ObjectsCode : i[1] = interp_pc
<1>1. <<0, "new">> \in ObjectsCode /\ <<0, "new">>[1] = 0
  BY DEF ObjectsCode
<1>2. <<3, "istore", 0>> \in ObjectsCode /\ <<3, "istore", 0>>[1] = 3
  BY DEF ObjectsCode
<1>3. <<5, "new">> \in ObjectsCode /\ <<5, "new">>[1] = 5
  BY DEF ObjectsCode
<1>4. <<8, "istore", 1>> \in ObjectsCode /\ <<8, "istore", 1>>[1] = 8
  BY DEF ObjectsCode
<1>5. <<10, "iload", 0>> \in ObjectsCode /\ <<10, "iload", 0>>[1] = 10
  BY DEF ObjectsCode
<1>6. <<12, "bipush">> \in ObjectsCode /\ <<12, "bipush">>[1] = 12
  BY DEF ObjectsCode
<1>7. <<14, "putfield">> \in ObjectsCode /\ <<14, "putfield">>[1] = 14
  BY DEF ObjectsCode
<1>8. <<17, "iload", 0>> \in ObjectsCode /\ <<17, "iload", 0>>[1] = 17
  BY DEF ObjectsCode
<1>9. <<19, "getfield">> \in ObjectsCode /\ <<19, "getfield">>[1] = 19
  BY DEF ObjectsCode
<1>10. <<22, "putstatic">> \in ObjectsCode /\ <<22, "putstatic">>[1] = 22
  BY DEF ObjectsCode
<1>11. <<25, "getstatic">> \in ObjectsCode /\ <<25, "getstatic">>[1] = 25
  BY DEF ObjectsCode
<1>12. <<28, "putstatic">> \in ObjectsCode /\ <<28, "putstatic">>[1] = 28
  BY DEF ObjectsCode
<1>13. <<31, "new">> \in ObjectsCode /\ <<31, "new">>[1] = 31
  BY DEF ObjectsCode
<1>14. <<34, "istore", 2>> \in ObjectsCode /\ <<34, "istore", 2>>[1] = 34
  BY DEF ObjectsCode
<1>15. <<36, "return">> \in ObjectsCode /\ <<36, "return">>[1] = 36
  BY DEF ObjectsCode
<1>16. interp_pc \in {-1, 0, 3, 5, 8, 10, 12, 14, 17, 19, 22, 25, 28, 31, 34, 36}
  BY SMT DEF ObjectsPoint, Machine
<1> HIDE DEF ObjectsCode
<1> QED BY <1>1, <1>2, <1>3, <1>4, <1>5, <1>6, <1>7, <1>8, <1>9, <1>10, <1>11, <1>12, <1>13, <1>14, <1>15,
     <1>16, SMT DEF RETURNED

-----------------------------------------------------------------------------
(* The methods together                                                    *)

Asked ==
    /\ method \in [name : CountingMethods \cup OtherMethods, args : Int \X Int]
    /\ method.name \in CountingMethods => method.args[1] >= 0 /\ method.args[2] >= 0

\* Where the method for n and k may be.
Underway(n, k) ==
    \/ method.name = "sum" /\ \E x, z \in Int : SumPoint(n, k, x, z)
    \/ method.name = "factorial" /\ \E x \in Nat, z \in Int : FactorialPoint(n, k, x, z)
    \/ method.name = "gcd" /\ \E x, y, z, v \in Nat : GcdPoint(n, k, x, y, z, v)
    \/ method.name = "log" /\ \E x, z, v \in Nat : LogPoint(n, k, x, z, v)
    \/ method.name = "abs" /\ \E z, v \in Int : AbsPoint(n, k, z, v)
    \/ method.name = "min" /\ \E z, v \in Int : MinPoint(n, k, z, v)
    \/ method.name = "quotient" /\ \E z \in Int : QuotientPoint(n, k, z)
    \/ method.name = "objects" /\ \E x, y, z \in Nat : ObjectsPoint(n, k, x, y, z)

InterpInv == Asked /\ Underway(method.args[1], method.args[2])

LEMMA InterpStart == InterpInit => InterpInv
<1> SUFFICES ASSUME InterpInit PROVE InterpInv
  OBVIOUS
<1>1. Asked
  BY InterpreterConstants, SMT DEF InterpInit, Asked
<1>2. PICK n \in Int, k \in Int : method.args = <<n, k>>
  BY <1>1 DEF Asked
<1>3. method.args[1] = n /\ method.args[2] = k
  BY <1>2
<1>4. Machine(0, << >>, n, k, 0) /\ next_free = 0
  BY <1>3, SMT DEF InterpInit, Machine
<1>5. method.name \in {"sum", "factorial", "gcd", "log", "objects"} => n \in Nat /\ k \in Nat
  BY <1>1, <1>3 DEF Asked, CountingMethods
<1> SUFFICES Underway(n, k)
  BY <1>1, <1>3 DEF InterpInv
<1>6. CASE method.name = "sum"
  <2>1. SumPoint(n, k, n, 0)
    BY <1>4, <1>5, <1>6 DEF SumPoint
  <2>3. 0 \in Int /\ n \in Int
    BY <1>5, <1>6
  <2>2. \E x, z \in Int : SumPoint(n, k, x, z)
    BY <2>1, <2>3, Zenon
  <2> QED BY <1>6, <2>2 DEF Underway
<1>7. CASE method.name = "factorial"
  <2>1. FactorialPoint(n, k, n, 0)
    BY <1>4, <1>5, <1>7 DEF FactorialPoint
  <2>3. 0 \in Int /\ n \in Nat
    BY <1>5, <1>7
  <2>2. \E x \in Nat, z \in Int : FactorialPoint(n, k, x, z)
    BY <2>1, <2>3, Zenon
  <2> QED BY <1>7, <2>2 DEF Underway
<1>8. CASE method.name = "gcd"
  <2>1. GcdPoint(n, k, n, k, 0, 0)
    BY <1>4, <1>5, <1>8 DEF GcdPoint, Common
  <2>3. 0 \in Nat /\ k \in Nat /\ n \in Nat
    BY <1>5, <1>8
  <2>2. \E x, y, z, v \in Nat : GcdPoint(n, k, x, y, z, v)
    BY <2>1, <2>3, Zenon
  <2> QED BY <1>8, <2>2 DEF Underway
<1>9. CASE method.name = "log"
  <2>1. LogPoint(n, k, n, 0, 0)
    BY <1>4, <1>5, <1>9 DEF LogPoint
  <2>3. 0 \in Nat /\ n \in Nat
    BY <1>5, <1>9
  <2>2. \E x, z, v \in Nat : LogPoint(n, k, x, z, v)
    BY <2>1, <2>3, Zenon
  <2> QED BY <1>9, <2>2 DEF Underway
<1>10. CASE method.name = "abs"
  <2>1. AbsPoint(n, k, 0, 0)
    BY <1>4, <1>5, <1>10 DEF AbsPoint
  <2>3. 0 \in Int
    BY <1>5, <1>10
  <2>2. \E z, v \in Int : AbsPoint(n, k, z, v)
    BY <2>1, <2>3, Zenon
  <2> QED BY <1>10, <2>2 DEF Underway
<1>11. CASE method.name = "min"
  <2>1. MinPoint(n, k, 0, 0)
    BY <1>4, <1>5, <1>11 DEF MinPoint
  <2>3. 0 \in Int
    BY <1>5, <1>11
  <2>2. \E z, v \in Int : MinPoint(n, k, z, v)
    BY <2>1, <2>3, Zenon
  <2> QED BY <1>11, <2>2 DEF Underway
<1>12. CASE method.name = "quotient"
  <2>1. QuotientPoint(n, k, 0)
    BY <1>4, <1>5, <1>12 DEF QuotientPoint
  <2>3. 0 \in Int
    BY <1>5, <1>12
  <2>2. \E z \in Int : QuotientPoint(n, k, z)
    BY <2>1, <2>3, Zenon
  <2> QED BY <1>12, <2>2 DEF Underway
<1>13. CASE method.name = "objects"
  <2>1. ObjectsPoint(n, k, n, k, 0)
    BY <1>4, <1>5, <1>13, InterpreterConstants DEF ObjectsPoint, HeldAfter
  <2>3. 0 \in Nat /\ k \in Nat /\ n \in Nat
    BY <1>5, <1>13
  <2>2. \E x, y, z \in Nat : ObjectsPoint(n, k, x, y, z)
    BY <2>1, <2>3, Zenon
  <2> QED BY <1>13, <2>2 DEF Underway
<1>14. method.name \in {"sum", "factorial", "gcd", "log", "objects", "abs", "min", "quotient"}
  BY <1>1 DEF Asked, CountingMethods, OtherMethods
<1> QED BY <1>14, <1>6, <1>7, <1>8, <1>9, <1>10, <1>11, <1>12, <1>13

LEMMA InterpStep == InterpInv /\ [InterpNext]_interpVars => InterpInv'
<1> SUFFICES ASSUME InterpInv, [InterpNext]_interpVars PROVE InterpInv'
  OBVIOUS
<1>1. method' = method
  BY DEF InterpNext, Runs, interpVars
<1>2. PICK n \in Int, k \in Int : method.args = <<n, k>>
  BY DEF InterpInv, Asked
<1>3. method.args[1] = n /\ method.args[2] = k /\ method'.args[1] = n /\ method'.args[2] = k
  BY <1>1, <1>2
<1>4. Asked /\ Asked' /\ Underway(n, k)
  BY <1>1, <1>3 DEF InterpInv, Asked
<1>5. method.name \in {"sum", "factorial", "gcd", "log", "objects"} => n \in Nat /\ k \in Nat
  BY <1>3, <1>4 DEF Asked, CountingMethods
<1>6. SUFFICES Underway(n, k)'
  BY <1>3, <1>4 DEF InterpInv
<1>7. CASE Runs("sum", SumCode)
  <2>1. PICK i \in SumCode : i[1] = interp_pc /\ Dispatch(i)
    BY <1>7 DEF Runs
  <2>2. method.name = "sum" /\ method'.name = "sum"
    BY <1>7 DEF Runs
  <2>3. PICK x, z \in Int : SumPoint(n, k, x, z)
    BY <1>4, <2>2 DEF Underway
  <2>4. PICK x1, z1 \in Int : SumPoint(n, k, x1, z1)'
    BY <1>5, <2>1, <2>2, <2>3, SumPointStep
  <2> QED BY <2>2, <2>4 DEF Underway
<1>8. CASE Runs("factorial", FactorialCode)
  <2>1. PICK i \in FactorialCode : i[1] = interp_pc /\ Dispatch(i)
    BY <1>8 DEF Runs
  <2>2. method.name = "factorial" /\ method'.name = "factorial"
    BY <1>8 DEF Runs
  <2>3. PICK x \in Nat, z \in Int : FactorialPoint(n, k, x, z)
    BY <1>4, <2>2 DEF Underway
  <2>4. PICK x1 \in Nat, z1 \in Int : FactorialPoint(n, k, x1, z1)'
    BY <1>5, <2>1, <2>2, <2>3, FactorialPointStep
  <2> QED BY <2>2, <2>4 DEF Underway
<1>9. CASE Runs("gcd", GcdCode)
  <2>1. PICK i \in GcdCode : i[1] = interp_pc /\ Dispatch(i)
    BY <1>9 DEF Runs
  <2>2. method.name = "gcd" /\ method'.name = "gcd"
    BY <1>9 DEF Runs
  <2>3. PICK x, y, z, v \in Nat : GcdPoint(n, k, x, y, z, v)
    BY <1>4, <2>2 DEF Underway
  <2>4. PICK x1, y1, z1, v1 \in Nat : GcdPoint(n, k, x1, y1, z1, v1)'
    BY <1>5, <2>1, <2>2, <2>3, GcdPointStep
  <2> QED BY <2>2, <2>4 DEF Underway
<1>10. CASE Runs("log", LogCode)
  <2>1. PICK i \in LogCode : i[1] = interp_pc /\ Dispatch(i)
    BY <1>10 DEF Runs
  <2>2. method.name = "log" /\ method'.name = "log"
    BY <1>10 DEF Runs
  <2>3. PICK x, z, v \in Nat : LogPoint(n, k, x, z, v)
    BY <1>4, <2>2 DEF Underway
  <2>4. PICK x1, z1, v1 \in Nat : LogPoint(n, k, x1, z1, v1)'
    BY <1>5, <2>1, <2>2, <2>3, LogPointStep
  <2> QED BY <2>2, <2>4 DEF Underway
<1>11. CASE Runs("abs", AbsCode)
  <2>1. PICK i \in AbsCode : i[1] = interp_pc /\ Dispatch(i)
    BY <1>11 DEF Runs
  <2>2. method.name = "abs" /\ method'.name = "abs"
    BY <1>11 DEF Runs
  <2>3. PICK z, v \in Int : AbsPoint(n, k, z, v)
    BY <1>4, <2>2 DEF Underway
  <2>4. PICK z1, v1 \in Int : AbsPoint(n, k, z1, v1)'
    BY <1>5, <2>1, <2>2, <2>3, AbsPointStep
  <2> QED BY <2>2, <2>4 DEF Underway
<1>12. CASE Runs("min", MinCode)
  <2>1. PICK i \in MinCode : i[1] = interp_pc /\ Dispatch(i)
    BY <1>12 DEF Runs
  <2>2. method.name = "min" /\ method'.name = "min"
    BY <1>12 DEF Runs
  <2>3. PICK z, v \in Int : MinPoint(n, k, z, v)
    BY <1>4, <2>2 DEF Underway
  <2>4. PICK z1, v1 \in Int : MinPoint(n, k, z1, v1)'
    BY <1>5, <2>1, <2>2, <2>3, MinPointStep
  <2> QED BY <2>2, <2>4 DEF Underway
<1>13. CASE Runs("quotient", QuotientCode)
  <2>1. PICK i \in QuotientCode : i[1] = interp_pc /\ Dispatch(i)
    BY <1>13 DEF Runs
  <2>2. method.name = "quotient" /\ method'.name = "quotient"
    BY <1>13 DEF Runs
  <2>3. PICK z \in Int : QuotientPoint(n, k, z)
    BY <1>4, <2>2 DEF Underway
  <2>4. PICK z1 \in Int : QuotientPoint(n, k, z1)'
    BY <1>5, <2>1, <2>2, <2>3, QuotientPointStep
  <2> QED BY <2>2, <2>4 DEF Underway
<1>14. CASE Runs("objects", ObjectsCode)
  <2>1. PICK i \in ObjectsCode : i[1] = interp_pc /\ Dispatch(i)
    BY <1>14 DEF Runs
  <2>2. method.name = "objects" /\ method'.name = "objects"
    BY <1>14 DEF Runs
  <2>3. PICK x, y, z \in Nat : ObjectsPoint(n, k, x, y, z)
    BY <1>4, <2>2 DEF Underway
  <2>4. PICK x1, y1, z1 \in Nat : ObjectsPoint(n, k, x1, y1, z1)'
    BY <1>5, <2>1, <2>2, <2>3, ObjectsPointStep
  <2> QED BY <2>2, <2>4 DEF Underway
<1>15. CASE UNCHANGED interpVars
  <2>1. operand_stack' = operand_stack /\ interp_pc' = interp_pc /\ local_vars' = local_vars /\ next_free' = next_free
    BY <1>15 DEF interpVars
  <2>2. CASE method.name = "sum"
    <3>1. PICK x, z \in Int : SumPoint(n, k, x, z)
      BY <1>4, <2>2 DEF Underway
    <3>2. SumPoint(n, k, x, z)'
      BY <2>1, <3>1 DEF SumPoint, Machine
    <3> QED BY <1>1, <2>2, <3>2 DEF Underway
  <2>3. CASE method.name = "factorial"
    <3>1. PICK x \in Nat, z \in Int : FactorialPoint(n, k, x, z)
      BY <1>4, <2>3 DEF Underway
    <3>2. FactorialPoint(n, k, x, z)'
      BY <2>1, <3>1 DEF FactorialPoint, Machine
    <3> QED BY <1>1, <2>3, <3>2 DEF Underway
  <2>4. CASE method.name = "gcd"
    <3>1. PICK x, y, z, v \in Nat : GcdPoint(n, k, x, y, z, v)
      BY <1>4, <2>4 DEF Underway
    <3>2. GcdPoint(n, k, x, y, z, v)'
      BY <2>1, <3>1 DEF GcdPoint, Machine
    <3> QED BY <1>1, <2>4, <3>2 DEF Underway
  <2>5. CASE method.name = "log"
    <3>1. PICK x, z, v \in Nat : LogPoint(n, k, x, z, v)
      BY <1>4, <2>5 DEF Underway
    <3>2. LogPoint(n, k, x, z, v)'
      BY <2>1, <3>1 DEF LogPoint, Machine
    <3> QED BY <1>1, <2>5, <3>2 DEF Underway
  <2>6. CASE method.name = "abs"
    <3>1. PICK z, v \in Int : AbsPoint(n, k, z, v)
      BY <1>4, <2>6 DEF Underway
    <3>2. AbsPoint(n, k, z, v)'
      BY <2>1, <3>1 DEF AbsPoint, Machine
    <3> QED BY <1>1, <2>6, <3>2 DEF Underway
  <2>7. CASE method.name = "min"
    <3>1. PICK z, v \in Int : MinPoint(n, k, z, v)
      BY <1>4, <2>7 DEF Underway
    <3>2. MinPoint(n, k, z, v)'
      BY <2>1, <3>1 DEF MinPoint, Machine
    <3> QED BY <1>1, <2>7, <3>2 DEF Underway
  <2>8. CASE method.name = "quotient"
    <3>1. PICK z \in Int : QuotientPoint(n, k, z)
      BY <1>4, <2>8 DEF Underway
    <3>2. QuotientPoint(n, k, z)'
      BY <2>1, <3>1 DEF QuotientPoint, Machine
    <3> QED BY <1>1, <2>8, <3>2 DEF Underway
  <2>9. CASE method.name = "objects"
    <3>1. PICK x, y, z \in Nat : ObjectsPoint(n, k, x, y, z)
      BY <1>4, <2>9 DEF Underway
    <3>2. ObjectsPoint(n, k, x, y, z)'
      BY <2>1, <3>1 DEF ObjectsPoint, Machine
    <3> QED BY <1>1, <2>9, <3>2 DEF Underway
  <2> QED BY <1>4, <2>2, <2>3, <2>4, <2>5, <2>6, <2>7, <2>8, <2>9 DEF Asked, CountingMethods, OtherMethods
<1> QED BY <1>7, <1>8, <1>9, <1>10, <1>11, <1>12, <1>13, <1>14, <1>15 DEF InterpNext

LEMMA SumResult ==
    ASSUME NEW n \in Nat, NEW k \in Nat, NEW x \in Int, NEW z \in Int,
           SumPoint(n, k, x, z), interp_pc = RETURNED,
           method.name = "sum", method.args[1] = n, method.args[2] = k
    PROVE  operand_stack = << >> /\ IsResult(method, local_vars)
<1>1. Machine(-1, << >>, x, k, z) /\ x = 0 /\ Sums(n, x, z)
  BY SMT DEF SumPoint, Machine, RETURNED
<1>2. operand_stack = << >> /\ local_vars[2] = z /\ 2 * z = n * (n + 1)
  BY <1>1 DEF Machine, Sums
<1> QED BY <1>2 DEF IsResult

LEMMA FactorialResult ==
    ASSUME NEW n \in Nat, NEW k \in Nat, NEW x \in Nat, NEW z \in Int,
           FactorialPoint(n, k, x, z), interp_pc = RETURNED,
           method.name = "factorial", method.args[1] = n, method.args[2] = k
    PROVE  operand_stack = << >> /\ IsResult(method, local_vars)
<1>1. Machine(-1, << >>, x, k, z) /\ x <= 1 /\ Multiplied(n, x, z)
  BY SMT DEF FactorialPoint, Machine, RETURNED
<1>2. operand_stack = << >> /\ local_vars[2] = z /\ z = Factorials(n)[n]
  BY <1>1, MultipliedLast DEF Machine
<1> QED BY <1>2 DEF IsResult

LEMMA GcdResult ==
    ASSUME NEW n \in Nat, NEW k \in Nat, NEW x \in Nat, NEW y \in Nat, NEW z \in Nat, NEW v \in Nat,
           GcdPoint(n, k, x, y, z, v), interp_pc = RETURNED,
           method.name = "gcd", method.args[1] = n, method.args[2] = k
    PROVE  operand_stack = << >> /\ IsResult(method, local_vars)
<1>1. Machine(-1, << >>, x, y, x) /\ y = 0 /\ Common(n, k, x, y)
  BY SMT DEF GcdPoint, Machine, RETURNED
<1>2. operand_stack = << >> /\ local_vars[2] = x /\ Common(n, k, x, 0)
  BY <1>1 DEF Machine
<1>3. /\ Divides(x, n) /\ Divides(x, k)
      /\ \A d \in 1 .. n : Divides(d, n) /\ Divides(d, k) => d <= x
  BY <1>2, CommonLast
<1> QED BY <1>2, <1>3 DEF IsResult

LEMMA LogResult ==
    ASSUME NEW n \in Nat, NEW k \in Nat, NEW x \in Nat, NEW z \in Nat, NEW v \in Nat,
           LogPoint(n, k, x, z, v), interp_pc = RETURNED,
           method.name = "log", method.args[1] = n, method.args[2] = k
    PROVE  operand_stack = << >> /\ IsResult(method, local_vars)
<1>1. Machine(-1, << >>, x, k, z) /\ ~ (x > 1) /\ Halved(n, x, z)
  BY SMT DEF LogPoint, Machine, RETURNED
<1>2. operand_stack = << >> /\ local_vars[2] = z /\ Halved(n, x, z) /\ x <= 1
  BY <1>1 DEF Machine
<1>3. n > 0 => PowersOfTwo(n)[z] <= n /\ n < 2 * PowersOfTwo(n)[z]
  BY <1>2, HalvedLast
<1> QED BY <1>2, <1>3 DEF IsResult

LEMMA AbsResult ==
    ASSUME NEW n \in Int, NEW k \in Int, NEW z \in Int, NEW v \in Int,
           AbsPoint(n, k, z, v), interp_pc = RETURNED,
           method.name = "abs", method.args[1] = n, method.args[2] = k
    PROVE  operand_stack = << >> /\ IsResult(method, local_vars)
<1>1. Machine(-1, << >>, n, k, v) /\ v \in {n, - n} /\ v >= 0
  BY SMT DEF AbsPoint, Machine, RETURNED
<1>2. operand_stack = << >> /\ local_vars[2] = v
  BY <1>1 DEF Machine
<1> QED BY <1>1, <1>2 DEF IsResult

LEMMA MinResult ==
    ASSUME NEW n \in Int, NEW k \in Int, NEW z \in Int, NEW v \in Int,
           MinPoint(n, k, z, v), interp_pc = RETURNED,
           method.name = "min", method.args[1] = n, method.args[2] = k
    PROVE  operand_stack = << >> /\ IsResult(method, local_vars)
<1>1. Machine(-1, << >>, n, k, v) /\ v \in {n, k} /\ v <= n /\ v <= k
  BY SMT DEF MinPoint, Machine, RETURNED
<1>2. operand_stack = << >> /\ local_vars[2] = v
  BY <1>1 DEF Machine
<1> QED BY <1>1, <1>2 DEF IsResult

LEMMA QuotientResult ==
    ASSUME NEW n \in Int, NEW k \in Int, NEW z \in Int,
           QuotientPoint(n, k, z), interp_pc = RETURNED,
           method.name = "quotient", method.args[1] = n, method.args[2] = k
    PROVE  operand_stack = << >> /\ IsResult(method, local_vars)
<1>1. (Machine(-1, << >>, n, k, Quotient(n, k)) /\ k # 0) \/ (Machine(-1, << >>, n, k, 0) /\ k = 0)
  BY SMT DEF QuotientPoint, Machine, RETURNED
<1>2. operand_stack = << >> /\ local_vars[2] = IF k = 0 THEN 0 ELSE Quotient(n, k)
  BY <1>1 DEF Machine
<1>3. CASE k = 0
  BY <1>2, <1>3 DEF IsResult
<1>4. CASE k # 0
  BY <1>2, <1>4, QuotientRounds DEF IsResult
<1> QED BY <1>3, <1>4

LEMMA ObjectsResult ==
    ASSUME NEW n \in Nat, NEW k \in Nat, NEW x \in Nat, NEW y \in Nat, NEW z \in Nat,
           ObjectsPoint(n, k, x, y, z), interp_pc = RETURNED,
           method.name = "objects", method.args[1] = n, method.args[2] = k
    PROVE  operand_stack = << >> /\ IsResult(method, local_vars)
<1>1. Machine(-1, << >>, x, y, z) /\ x = ObjectOf(0) /\ y = ObjectOf(1) /\ z = ObjectOf(2)
  BY SMT DEF ObjectsPoint, Machine, RETURNED
<1>2. operand_stack = << >> /\ \A i \in 0 .. 2 : local_vars[i] = ObjectOf(i)
  BY <1>1, SMT DEF Machine
<1> QED BY <1>2 DEF IsResult, ObjectOf

LEMMA MethodsCompute == InterpInv => BytecodeComputes
<1> SUFFICES ASSUME InterpInv PROVE BytecodeComputes
  OBVIOUS
<1>1. PICK n \in Int, k \in Int : method.args = <<n, k>>
  BY DEF InterpInv, Asked
<1>2. method.args[1] = n /\ method.args[2] = k
  BY <1>1
<1>3. Asked /\ Underway(n, k)
  BY <1>2 DEF InterpInv
<1>4. method.name \in {"sum", "factorial", "gcd", "log", "objects"} => n \in Nat /\ k \in Nat
  BY <1>2, <1>3 DEF Asked, CountingMethods
<1>5. CASE method.name = "sum"
  <2>1. PICK x, z \in Int : SumPoint(n, k, x, z)
    BY <1>3, <1>5 DEF Underway
  <2>2. interp_pc = RETURNED \/ \E i \in SumCode : i[1] = interp_pc
    BY <2>1, SumPointIsThere
  <2>3. interp_pc = RETURNED => operand_stack = << >> /\ IsResult(method, local_vars)
    BY <1>2, <1>4, <1>5, <2>1, SumResult
  <2> QED BY <1>5, <2>2, <2>3, Zenon DEF BytecodeComputes
<1>6. CASE method.name = "factorial"
  <2>1. PICK x \in Nat, z \in Int : FactorialPoint(n, k, x, z)
    BY <1>3, <1>6 DEF Underway
  <2>2. interp_pc = RETURNED \/ \E i \in FactorialCode : i[1] = interp_pc
    BY <2>1, FactorialPointIsThere
  <2>3. interp_pc = RETURNED => operand_stack = << >> /\ IsResult(method, local_vars)
    BY <1>2, <1>4, <1>6, <2>1, FactorialResult
  <2> QED BY <1>6, <2>2, <2>3, Zenon DEF BytecodeComputes
<1>7. CASE method.name = "gcd"
  <2>1. PICK x, y, z, v \in Nat : GcdPoint(n, k, x, y, z, v)
    BY <1>3, <1>7 DEF Underway
  <2>2. interp_pc = RETURNED \/ \E i \in GcdCode : i[1] = interp_pc
    BY <2>1, GcdPointIsThere
  <2>3. interp_pc = RETURNED => operand_stack = << >> /\ IsResult(method, local_vars)
    BY <1>2, <1>4, <1>7, <2>1, GcdResult
  <2> QED BY <1>7, <2>2, <2>3, Zenon DEF BytecodeComputes
<1>8. CASE method.name = "log"
  <2>1. PICK x, z, v \in Nat : LogPoint(n, k, x, z, v)
    BY <1>3, <1>8 DEF Underway
  <2>2. interp_pc = RETURNED \/ \E i \in LogCode : i[1] = interp_pc
    BY <2>1, LogPointIsThere
  <2>3. interp_pc = RETURNED => operand_stack = << >> /\ IsResult(method, local_vars)
    BY <1>2, <1>4, <1>8, <2>1, LogResult
  <2> QED BY <1>8, <2>2, <2>3, Zenon DEF BytecodeComputes
<1>9. CASE method.name = "abs"
  <2>1. PICK z, v \in Int : AbsPoint(n, k, z, v)
    BY <1>3, <1>9 DEF Underway
  <2>2. interp_pc = RETURNED \/ \E i \in AbsCode : i[1] = interp_pc
    BY <2>1, AbsPointIsThere
  <2>3. interp_pc = RETURNED => operand_stack = << >> /\ IsResult(method, local_vars)
    BY <1>2, <1>4, <1>9, <2>1, AbsResult
  <2> QED BY <1>9, <2>2, <2>3, Zenon DEF BytecodeComputes
<1>10. CASE method.name = "min"
  <2>1. PICK z, v \in Int : MinPoint(n, k, z, v)
    BY <1>3, <1>10 DEF Underway
  <2>2. interp_pc = RETURNED \/ \E i \in MinCode : i[1] = interp_pc
    BY <2>1, MinPointIsThere
  <2>3. interp_pc = RETURNED => operand_stack = << >> /\ IsResult(method, local_vars)
    BY <1>2, <1>4, <1>10, <2>1, MinResult
  <2> QED BY <1>10, <2>2, <2>3, Zenon DEF BytecodeComputes
<1>11. CASE method.name = "quotient"
  <2>1. PICK z \in Int : QuotientPoint(n, k, z)
    BY <1>3, <1>11 DEF Underway
  <2>2. interp_pc = RETURNED \/ \E i \in QuotientCode : i[1] = interp_pc
    BY <2>1, QuotientPointIsThere
  <2>3. interp_pc = RETURNED => operand_stack = << >> /\ IsResult(method, local_vars)
    BY <1>2, <1>4, <1>11, <2>1, QuotientResult
  <2> QED BY <1>11, <2>2, <2>3, Zenon DEF BytecodeComputes
<1>12. CASE method.name = "objects"
  <2>1. PICK x, y, z \in Nat : ObjectsPoint(n, k, x, y, z)
    BY <1>3, <1>12 DEF Underway
  <2>2. interp_pc = RETURNED \/ \E i \in ObjectsCode : i[1] = interp_pc
    BY <2>1, ObjectsPointIsThere
  <2>3. interp_pc = RETURNED => operand_stack = << >> /\ IsResult(method, local_vars)
    BY <1>2, <1>4, <1>12, <2>1, ObjectsResult
  <2> QED BY <1>12, <2>2, <2>3, Zenon DEF BytecodeComputes
<1> QED BY <1>3, <1>5, <1>6, <1>7, <1>8, <1>9, <1>10, <1>11, <1>12 DEF Asked, CountingMethods, OtherMethods

\* The instructions compute what their methods stand for, for any arguments, on
\* any stack with three places and in a heap of any size.
THEOREM BytecodeIsExact == InterpSpec => []BytecodeComputes
<1>1. InterpInit => InterpInv
  BY InterpStart
<1>2. InterpInv /\ [InterpNext]_interpVars => InterpInv'
  BY InterpStep
<1>3. InterpInv => BytecodeComputes
  BY MethodsCompute
<1> QED BY <1>1, <1>2, <1>3, PTL DEF InterpSpec

-----------------------------------------------------------------------------
(***************************************************************************)
(* The programs side by side.  Each of them takes only its own steps, so   *)
(* what is proved of one alone holds of the behaviours that are checked.   *)
(***************************************************************************)

LEMMA ProgramsStandApart ==
    [Next]_sharedVars => /\ [CacheNext]_cacheVars /\ [ShareNext]_shareVars /\ [CountersNext]_counterVars
                         /\ [LifeNext]_lifeVars /\ [WireNext]_wireVars /\ [HeapNext]_heapVars
                         /\ [JvmNext]_jvmVars /\ [InterpNext]_interpVars
<1> SUFFICES ASSUME [Next]_sharedVars
             PROVE  /\ [CacheNext]_cacheVars /\ [ShareNext]_shareVars /\ [CountersNext]_counterVars
                    /\ [LifeNext]_lifeVars /\ [WireNext]_wireVars /\ [HeapNext]_heapVars
                    /\ [JvmNext]_jvmVars /\ [InterpNext]_interpVars
  OBVIOUS
<1>1. CASE Next
  BY <1>1 DEF Next
<1>2. CASE UNCHANGED sharedVars
  BY <1>2 DEF sharedVars
<1> QED
  BY <1>1, <1>2

\* What is read is what was written, in every program and for every size of it: the
\* cache on its ring, values published through a flag or a pointer, counters, the state
\* of a thread, and messages off a stream.
THEOREM ReadsStayCurrent == Spec => []ReadsAreCurrent
<1>1. Init => CacheInit /\ ShareInit /\ CountersInit /\ LifeInit /\ WireInit
  BY DEF Init
<1>2. NeverStale /\ PublishedIsComplete /\ IncrementsAreBounded /\ ThreadsEndAsTold /\ MessagesArriveWhole
        => ReadsAreCurrent
  BY DEF ReadsAreCurrent
<1>3. Spec => CacheSpec /\ ShareSpec /\ CountersSpec /\ LifeSpec /\ WireSpec
  BY <1>1, ProgramsStandApart, PTL DEF Spec, CacheSpec, ShareSpec, CountersSpec, LifeSpec, WireSpec
<1> QED
  BY <1>2, <1>3, CacheIsNeverStale, PublishedWhole, CountersEndAsTold, ThreadsAreToldOf, MessagesAreExact, PTL

\* What the machine computes is exact, for a heap of any size and any arguments: the
\* collector takes the garbage and nothing else, references of phase 1 lead where they
\* did until a collection, and methods return what they stand for.
THEOREM MachineStaysExact == Spec => []MachineIsExact
<1>1. Init => HeapInit /\ JvmInit /\ InterpInit
  BY DEF Init
<1>2. CollectsGarbageOnly /\ NothingGrowsOld /\ BytecodeComputes => MachineIsExact
  BY DEF MachineIsExact
<1>3. Spec => HeapSpec /\ JvmSpec /\ InterpSpec
  BY <1>1, ProgramsStandApart, PTL DEF Spec, HeapSpec, JvmSpec, InterpSpec
<1> QED
  BY <1>2, <1>3, CollectorIsExact, NobodyGrowsOld, BytecodeIsExact, PTL
=============================================================================
