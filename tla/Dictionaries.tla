---------------------------- MODULE Dictionaries ----------------------------
(***************************************************************************)
(* What the exercises and the java_collections examples look keys up in:   *)
(* hash tables with their filters and sets, the search tree, and the trie  *)
(* with its autocompletion and routes.                                     *)
(***************************************************************************)
EXTENDS Integers, Sequences, FiniteSets, SequencesExt

-----------------------------------------------------------------------------
(***************************************************************************)
(* The hash tables of the examples: linear probing and chaining            *)
(* (Algorithm/08_Hashing.c), one entry for each hash (04_HashTable.c), the *)
(* Bloom filter (09_BloomFilter.c), and the                                *)
(* HashMap and HashSet of java_collections.  One caller uses one of them.  *)
(* What the hash functions make of a key is any of HashTriples, the same   *)
(* for the key each time; sums and shifts of characters are left out, and  *)
(* so are the counters of calls and collisions.                            *)
(***************************************************************************)

CONSTANTS
    TableKeys, TableValues,
    HashTriples,                \* values of the three hash functions
    NotFound,
    HASH_TABLE_SIZE,
    DEFAULT_INITIAL_CAPACITY,   \* of HashMap and HashSet: a power of two
    FILTER_BYTES, BYTE_BITS,    \* FILTER_SIZE / 8 bytes of 8 bits
    MAX_CHAINED                 \* bound: entries in the chained table

ASSUME HashAssumption == NotFound \notin TableValues /\ HASH_TABLE_SIZE > 0

VARIABLES
    structure,  \* the table that is used
    hash,       \* hash[k]: what the hash functions return for k
    table,      \* the table
    other,      \* the second HashSet
    dict,       \* auxiliary: the dictionary that a reader expects
    others      \* auxiliary: the elements expected in the second HashSet

hashVars == <<structure, hash, table, other, dict, others>>

TableEntry(k, v) == [key |-> k, value |-> v]

NoEntry == TableEntry(NotFound, NotFound)

\* A chain that is walked to the first entry of the key.
InChain(chain, k) ==
    LET at == {i \in DOMAIN chain : chain[i].key = k}
    IN  IF at = {} THEN NotFound ELSE chain[Min(at)].value

ExpectKey(k, v) == dict' = [x \in DOMAIN dict \cup {k} |-> IF x = k THEN v ELSE dict[x]]

-----------------------------------------------------------------------------
(* Linear probing                                                          *)

hash_table_create == [i \in 0 .. HASH_TABLE_SIZE - 1 |-> NoEntry]

\* The first index, from the key's own around the table, that satisfies P.
Probe(k, P(_)) ==
    LET at(d) == (hash[k][1] + d) % HASH_TABLE_SIZE
        ds == {d \in 0 .. HASH_TABLE_SIZE - 1 : P(at(d))}
    IN  IF ds = {} THEN -1 ELSE at(Min(ds))

Unused(i) == table[i] = NoEntry

\* A key that is there already is inserted again, behind its first entry; a
\* full table takes no more.
hash_insert_linear_probe(k, v) ==
    LET i == Probe(k, Unused)
    IN  IF i = -1 THEN UNCHANGED <<table, dict>>
        ELSE /\ table' = [table EXCEPT ![i] = TableEntry(k, v)]
             /\ IF k \in DOMAIN dict THEN UNCHANGED dict ELSE ExpectKey(k, v)

hash_lookup_linear_probe(k) ==
    LET i == Probe(k, LAMBDA j : Unused(j) \/ table[j].key = k)
    IN  IF i = -1 THEN NotFound ELSE table[i].value

-----------------------------------------------------------------------------
(* One entry for each hash                                                 *)

createHashTable == hash_table_create

hash_slot(k) == hash[k][1] % HASH_TABLE_SIZE

\* Whatever is there is overwritten.
insert_entry(k, v) ==
    /\ table' = [table EXCEPT ![hash_slot(k)] = TableEntry(k, v)]
    /\ dict' = [x \in {x \in DOMAIN dict : hash_slot(x) # hash_slot(k)} \cup {k} |->
                  IF x = k THEN v ELSE dict[x]]

lookup_entry(k) == IF table[hash_slot(k)].key = k THEN table[hash_slot(k)].value ELSE NotFound

-----------------------------------------------------------------------------
(* Chaining                                                                *)

chain_hash_create == [i \in 0 .. HASH_TABLE_SIZE - 1 |-> << >>]

ChainOf(k) == hash[k][2] % HASH_TABLE_SIZE

chain_hash_insert(k, v) ==
    /\ FoldFunction(LAMBDA c, n : n + Len(c), 0, table) < MAX_CHAINED
    /\ table' = [table EXCEPT ![ChainOf(k)] = <<TableEntry(k, v)>> \o @]
    /\ ExpectKey(k, v)

chain_hash_lookup(k) == InChain(table[ChainOf(k)], k)

-----------------------------------------------------------------------------
(* HashMap, and HashSet, which is the same table without values            *)

hashmap_new ==
    [capacity |-> DEFAULT_INITIAL_CAPACITY, size |-> 0,
     table |-> [i \in 0 .. DEFAULT_INITIAL_CAPACITY - 1 |-> << >>]]

Threshold(capacity) == (capacity * 3) \div 4

bucket_index(k, capacity) == hash[k][3] % capacity

\* The mutant that forgets that the capacity has changed.
hashmap_resize_stale(map) ==
    [capacity |-> 2 * map.capacity, size |-> map.size,
     table |-> [j \in 0 .. 2 * map.capacity - 1 |->
                  IF j < map.capacity THEN map.table[j] ELSE << >>]]

\* Node by node, from the first bucket on, to the head of its new bucket.
hashmap_resize(map) ==
    LET cap == 2 * map.capacity
        nodes == FlattenSeq([i \in 1 .. map.capacity |-> map.table[i - 1]])
    IN  [capacity |-> cap, size |-> map.size,
         table |-> [j \in 0 .. cap - 1 |->
                      Reverse(SelectSeq(nodes, LAMBDA n : bucket_index(n.key, cap) = j))]]

hashmap_get(map, k) == InChain(map.table[bucket_index(k, map.capacity)], k)

hashmap_put(map, k, v) ==
    LET i == bucket_index(k, map.capacity)
        chain == map.table[i]
        added == [map EXCEPT !.table[i] = <<TableEntry(k, v)>> \o chain, !.size = @ + 1]
    IN  IF \E n \in DOMAIN chain : chain[n].key = k
        THEN [map EXCEPT !.table[i] = [n \in DOMAIN chain |->
                                         IF chain[n].key = k THEN TableEntry(k, v) ELSE chain[n]]]
        ELSE IF added.size > Threshold(added.capacity) THEN hashmap_resize(added) ELSE added

hashmap_remove(map, k) ==
    LET i == bucket_index(k, map.capacity)
        found == {n \in DOMAIN map.table[i] : map.table[i][n].key = k}
    IN  IF found = {} THEN map
        ELSE [map EXCEPT !.table[i] = RemoveAt(@, Min(found)), !.size = @ - 1]

PRESENT == CHOOSE v \in TableValues : TRUE

hashset_contains(set, k) == hashmap_get(set, k) # NotFound

hashset_add(set, k) == IF hashset_contains(set, k) THEN set ELSE hashmap_put(set, k, PRESENT)

Elements(set) == FlattenSeq([i \in 1 .. set.capacity |-> set.table[i - 1]])

AddAll(set, nodes) == FoldSeq(LAMBDA n, s : hashset_add(s, n.key), set, Reverse(nodes))

hashset_union(a, b) == AddAll(AddAll(hashmap_new, Elements(a)), Elements(b))

hashset_intersection(a, b) ==
    AddAll(hashmap_new, SelectSeq(Elements(a), LAMBDA n : hashset_contains(b, n.key)))

hashset_difference(a, b) ==
    AddAll(hashmap_new, SelectSeq(Elements(a), LAMBDA n : ~ hashset_contains(b, n.key)))

-----------------------------------------------------------------------------
(* The Bloom filter: bytes of bits                                         *)

bloom_filter_create == [i \in 0 .. FILTER_BYTES - 1 |-> {}]

set_bit(bf, index) == [bf EXCEPT ![index \div BYTE_BITS] = @ \cup {index % BYTE_BITS}]

get_bit(bf, index) == index % BYTE_BITS \in bf[index \div BYTE_BITS]

bloom_filter_insert(bf, k) == FoldSeq(LAMBDA h, b : set_bit(b, h), bf, hash[k])

bloom_filter_contains(bf, k) == \A j \in DOMAIN hash[k] : get_bit(bf, hash[k][j])

-----------------------------------------------------------------------------
(* The caller                                                              *)

HashInit ==
    /\ structure \in {"linear", "direct", "chain", "map", "set", "bloom"}
    /\ hash \in [TableKeys -> HashTriples]
    /\ table = CASE structure = "linear" -> hash_table_create
                 [] structure = "direct" -> createHashTable
                 [] structure = "chain" -> chain_hash_create
                 [] structure = "bloom" -> bloom_filter_create
                 [] OTHER -> hashmap_new
    /\ other = hashmap_new
    /\ dict = << >> /\ others = {}

InsertKey(k, v) ==
    /\ \/ structure = "linear" /\ hash_insert_linear_probe(k, v)
       \/ structure = "direct" /\ insert_entry(k, v)
       \/ structure = "chain" /\ chain_hash_insert(k, v)
       \/ structure = "map" /\ table' = hashmap_put(table, k, v) /\ ExpectKey(k, v)
       \/ structure = "set" /\ v = PRESENT /\ table' = hashset_add(table, k) /\ ExpectKey(k, v)
       \/ structure = "bloom" /\ v = PRESENT /\ table' = bloom_filter_insert(table, k) /\ ExpectKey(k, v)
    /\ UNCHANGED <<structure, hash, other, others>>

RemoveKey(k) ==
    /\ structure \in {"map", "set"}
    /\ table' = hashmap_remove(table, k)
    /\ dict' = [x \in DOMAIN dict \ {k} |-> dict[x]]
    /\ UNCHANGED <<structure, hash, other, others>>

AddToOther(k) ==
    /\ structure = "set"
    /\ other' = hashset_add(other, k) /\ others' = others \cup {k}
    /\ UNCHANGED <<structure, hash, table, dict>>

HashNext == \E k \in TableKeys :
    \/ \E v \in TableValues : InsertKey(k, v)
    \/ RemoveKey(k)
    \/ AddToOther(k)

HashSpec == HashInit /\ [][HashNext]_hashVars

-----------------------------------------------------------------------------
(* Properties                                                              *)

LookupKey(k) ==
    CASE structure = "linear" -> hash_lookup_linear_probe(k)
      [] structure = "direct" -> lookup_entry(k)
      [] structure = "chain" -> chain_hash_lookup(k)
      [] OTHER -> hashmap_get(table, k)

Holds(set, keys) == \A k \in TableKeys : hashset_contains(set, k) <=> k \in keys

\* Whatever collides, and however often the table has grown, a key is found
\* with its value - the first one inserted with linear probing, the last one
\* elsewhere, unless another key has taken its entry - and no other key is; size counts the keys; the operations on two
\* sets are those of sets.  The Bloom filter forgets nothing, and answers yes only
\* where others have set each bit.  08_Hashing.c:116-219, 03_HashMap.c:124-225,
\* 04_HashSet.c:97-226, 09_BloomFilter.c:97-134.
TablesFindKeys ==
    /\ structure # "bloom" =>
          \A k \in TableKeys : LookupKey(k) = IF k \in DOMAIN dict THEN dict[k] ELSE NotFound
    /\ structure \in {"map", "set"} => table.size = Cardinality(DOMAIN dict)
    /\ structure = "set" =>
          /\ Holds(other, others)
          /\ Holds(hashset_union(table, other), DOMAIN dict \cup others)
          /\ Holds(hashset_intersection(table, other), DOMAIN dict \cap others)
          /\ Holds(hashset_difference(table, other), DOMAIN dict \ others)
    /\ structure = "bloom" =>
          \A k \in TableKeys : bloom_filter_contains(table, k) <=>
              \A j \in DOMAIN hash[k] : \E m \in DOMAIN dict : hash[k][j] \in ToSet(hash[m])

-----------------------------------------------------------------------------
(***************************************************************************)
(* The binary search tree of the examples (06_BinarySearchTree.c).  A tree *)
(* is NULL or a record that holds its two subtrees.  The counter of        *)
(* comparisons is left out; nothing removes a key.                         *)
(***************************************************************************)

CONSTANTS
    TreeKeys,    \* set of integers
    TreeValues,
    NULL_TREE

ASSUME TreeKeysAssumption == TreeKeys \subseteq Int

VARIABLES
    root, nodes_created,   \* BST
    routes                 \* auxiliary: the value last inserted for each key

treeVars == <<root, nodes_created, routes>>

create_node(key, value) ==
    [key |-> key, value |-> value, left |-> NULL_TREE, right |-> NULL_TREE, height |-> 1]

TreeInit == root = NULL_TREE /\ nodes_created = 0 /\ routes = << >>

get_height(node) == IF node = NULL_TREE THEN 0 ELSE node.height

update_height(node) ==
    LET l == get_height(node.left)
        r == get_height(node.right)
    IN  [node EXCEPT !.height = 1 + (IF l > r THEN l ELSE r)]

RECURSIVE Inserted(_, _, _)
Inserted(node, key, value) ==
    IF node = NULL_TREE THEN create_node(key, value)
    ELSE IF key < node.key THEN update_height([node EXCEPT !.left = Inserted(@, key, value)])
    ELSE IF key > node.key THEN update_height([node EXCEPT !.right = Inserted(@, key, value)])
    ELSE [node EXCEPT !.value = value]

RECURSIVE bst_search(_, _)
bst_search(node, key) ==
    IF node = NULL_TREE \/ node.key = key THEN node
    ELSE bst_search(IF key < node.key THEN node.left ELSE node.right, key)

RECURSIVE inorder_traversal(_)
inorder_traversal(node) ==
    IF node = NULL_TREE THEN << >>
    ELSE inorder_traversal(node.left) \o <<node.key>> \o inorder_traversal(node.right)

\* The array that is filled: result[count ...] of a call is what it returns.  A
\* call writes its own key behind what the left subtree has written.
RECURSIVE range_query(_, _, _)
range_query(node, min_key, max_key) ==
    IF node = NULL_TREE THEN << >>
    ELSE (IF node.key > min_key THEN range_query(node.left, min_key, max_key) ELSE << >>)
           \o (IF node.key >= min_key /\ node.key <= max_key THEN <<node.key>> ELSE << >>)
           \o (IF node.key < max_key THEN range_query(node.right, min_key, max_key) ELSE << >>)

bst_insert(key, value) ==
    /\ root' = Inserted(root, key, value)
    /\ nodes_created' = nodes_created + (IF bst_search(root, key) = NULL_TREE THEN 1 ELSE 0)
    /\ routes' = [k \in DOMAIN routes \cup {key} |-> IF k = key THEN value ELSE routes[k]]

TreeNext == \E k \in TreeKeys, v \in TreeValues : bst_insert(k, v)

TreeSpec == TreeInit /\ [][TreeNext]_treeVars

-----------------------------------------------------------------------------
(* Properties                                                              *)

RECURSIVE Depth(_)
Depth(node) ==
    IF node = NULL_TREE THEN 0 ELSE 1 + Max({Depth(node.left), Depth(node.right)})

SortedKeys(keys) == SetToSortSeq(keys, LAMBDA a, b : a < b)

\* In whatever order keys are inserted, again or for the first time, a search
\* finds the last value of a key and no other key, a traversal gives the keys in
\* order, a range query exactly those in the range, in order, and the height kept
\* in the root is the height.  06_BinarySearchTree.c:79-165.
TreeFindsKeys ==
    /\ \A k \in TreeKeys :
          LET node == bst_search(root, k)
          IN  IF k \in DOMAIN routes THEN node # NULL_TREE /\ node.value = routes[k] ELSE node = NULL_TREE
    /\ inorder_traversal(root) = SortedKeys(DOMAIN routes)
    /\ nodes_created = Cardinality(DOMAIN routes)
    /\ \A lo, hi \in TreeKeys :
          range_query(root, lo, hi) = SortedKeys({k \in DOMAIN routes : lo <= k /\ k <= hi})
    /\ get_height(root) = Depth(root)

-----------------------------------------------------------------------------
(***************************************************************************)
(* The trie of the examples (08_Trie.c), a routing table of prefixes.  A   *)
(* node is the word its path spells: children[c] of node w is there when   *)
(* w followed by c is.  MAX_WORD_LEN, which nothing checks, is longer than *)
(* the words here.                                                         *)
(***************************************************************************)

CONSTANTS
    Alphabet,      \* characters, by their codes
    MAX_LEN,       \* bound: length of a word
    TrieValues,
    NoValue

VARIABLES
    trie,          \* trie[w]: [isEndOfWord, value] of the node at w
    nodeCount, wordCount,
    words          \* auxiliary: the words inserted with their values

trieVars == <<trie, nodeCount, wordCount, words>>

Words == UNION {[1 .. n -> Alphabet] : n \in 0 .. MAX_LEN}

NewNode == [isEndOfWord |-> FALSE, value |-> NoValue]

TrieInit ==
    /\ trie = [w \in {<< >>} |-> NewNode]
    /\ nodeCount = 1 /\ wordCount = 0 /\ words = << >>

Prefixes_of(key) == {SubSeq(key, 1, n) : n \in 0 .. Len(key)}

\* The walk creates the nodes that are missing, and marks the last one.
trie_insert(key, value) ==
    LET missing == Prefixes_of(key) \ DOMAIN trie
    IN  /\ trie' = [w \in DOMAIN trie \cup missing |->
                      IF w = key THEN [isEndOfWord |-> TRUE, value |-> value]
                      ELSE IF w \in missing THEN NewNode ELSE trie[w]]
        /\ nodeCount' = nodeCount + Cardinality(missing)
        /\ wordCount' = wordCount + (IF key \in DOMAIN trie /\ trie[key].isEndOfWord THEN 0 ELSE 1)
        /\ words' = [w \in DOMAIN words \cup {key} |-> IF w = key THEN value ELSE words[w]]

\* The walk stops at the first character without a child.
Walk(key) ==
    LET gone == {n \in 0 .. Len(key) : SubSeq(key, 1, n) \notin DOMAIN trie}
    IN  IF gone = {} THEN Len(key) ELSE Min(gone) - 1

trie_search(key) ==
    IF Walk(key) < Len(key) \/ ~ trie[key].isEndOfWord THEN NoValue ELSE trie[key].value

\* The words below a node, each node before its children, these in order.
RECURSIVE trie_prefix_search(_)
trie_prefix_search(prefix) ==
    LET children == SetToSortSeq({c \in Alphabet : Append(prefix, c) \in DOMAIN trie}, LAMBDA a, b : a < b)
    IN  (IF trie[prefix].isEndOfWord THEN <<prefix>> ELSE << >>)
          \o FlattenSeq([i \in DOMAIN children |-> trie_prefix_search(Append(prefix, children[i]))])

\* The last end of a word that the walk passes, the root not included.
trie_longest_prefix_match(key) ==
    LET ends == {n \in 1 .. Walk(key) : trie[SubSeq(key, 1, n)].isEndOfWord}
    IN  IF ends = {} THEN NoValue ELSE trie[SubSeq(key, 1, Max(ends))].value

TrieNext == \E w \in Words, v \in TrieValues : trie_insert(w, v)

TrieSpec == TrieInit /\ [][TrieNext]_trieVars

-----------------------------------------------------------------------------
(* Properties                                                              *)

Below(prefix) == {w \in DOMAIN words : IsPrefix(prefix, w)}

\* A word is found, with its last value, when it was inserted itself and not
\* only words that begin like it; the words below a prefix are listed once each;
\* a key is routed by the longest word, other than the empty one, that it begins
\* with; the counts are right.  08_Trie.c:84-185.
TrieFindsPrefixes ==
    /\ \A w \in Words :
          /\ trie_search(w) = IF w \in DOMAIN words THEN words[w] ELSE NoValue
          /\ LET matches == {u \in DOMAIN words \ {<< >>} : IsPrefix(u, w)}
             IN  trie_longest_prefix_match(w) =
                    IF matches = {} THEN NoValue
                    ELSE words[CHOOSE u \in matches : \A t \in matches : Len(t) <= Len(u)]
          /\ w \in DOMAIN trie =>
                LET found == trie_prefix_search(w)
                IN  ToSet(found) = Below(w) /\ Len(found) = Cardinality(Below(w))
    /\ nodeCount = Cardinality(UNION {Prefixes_of(w) : w \in DOMAIN words} \cup {<< >>})
    /\ wordCount = Cardinality(DOMAIN words)
=============================================================================
