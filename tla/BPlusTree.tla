------------------------------ MODULE BPlusTree ------------------------------
(***************************************************************************)
(* The index of btree.c (database, phase 2): a B+ tree whose leaves hold   *)
(* the entries and are linked, with insertion that splits full nodes on    *)
(* the way down, search and range search.  Nodes are numbered in the order *)
(* in which they are allocated; an entry moves with its key and is the key *)
(* here; prev is never read and left out.  Keys are inserted once: the     *)
(* code handles no duplicates (phase2/src/main.c:248).                     *)
(***************************************************************************)
EXTENDS Integers, Sequences, FiniteSets, SequencesExt

CONSTANTS
    IndexKeys,
    BTREE_ORDER

ASSUME OrderConstants == BTREE_ORDER \in Nat /\ BTREE_ORDER > 2 /\ IndexKeys \subseteq Int

MAX_KEYS == BTREE_ORDER - 1

NULL_NODE == 0

VARIABLES
    btree_nodes,   \* allocated nodes, in order
    btree_root,
    btree_height,
    entry_count,
    inserted,      \* auxiliary: the keys inserted
    freed          \* nodes that btree_destroy freed, in order

btreeVars == <<btree_nodes, btree_root, btree_height, entry_count, inserted, freed>>

Addresses == 0 .. Len(btree_nodes)

BTreeTypeOK ==
    /\ btree_nodes \in Seq([is_leaf : BOOLEAN, keys : Seq(IndexKeys), children : Seq(Nat), next : Nat])
    /\ \A n \in DOMAIN btree_nodes : LET x == btree_nodes[n] IN
          /\ x.next \in Addresses /\ Range(x.children) \subseteq Addresses
          /\ Len(x.keys) <= MAX_KEYS
          /\ Len(x.children) = IF x.is_leaf THEN 0 ELSE Len(x.keys) + 1
    /\ btree_root \in DOMAIN btree_nodes
    /\ btree_height \in Nat /\ entry_count \in Nat
    /\ inserted \subseteq IndexKeys
    /\ freed \in Seq(DOMAIN btree_nodes)

\* node_create
LeafNode(keys, next) == [is_leaf |-> TRUE, keys |-> keys, children |-> << >>, next |-> next]

InternalNode(keys, children) ==
    [is_leaf |-> FALSE, keys |-> keys, children |-> children, next |-> NULL_NODE]

\* btree_create
BTreeInit ==
    /\ btree_nodes = <<LeafNode(<< >>, NULL_NODE)>>
    /\ btree_root = 1
    /\ btree_height = 0
    /\ entry_count = 0
    /\ inserted = {}
    /\ freed = << >>

-----------------------------------------------------------------------------
(* The operators take the nodes ns as an argument: an insertion is a       *)
(* sequence of changes to them.                                            *)

node_is_full(x) == Len(x.keys) >= MAX_KEYS

\* Where a search for k continues: at the first key that is not below k.
node_find_child(x, k) == Min({i \in DOMAIN x.keys : k <= x.keys[i]} \cup {Len(x.keys) + 1})

\* Where an insertion of k continues: behind the last key that is not above k.
InsertPosition(x, k) == 1 + Max({i \in DOMAIN x.keys : k >= x.keys[i]} \cup {0})

Mid == MAX_KEYS \div 2

\* The key that separates the halves of a full node: the last one that stays.
Separator_moves(full) == full.keys[Mid + 1]

Separator(full) == full.keys[Mid]

\* The upper half of the full child moves to a new node.  The child in the middle
\* of an internal node stays in both.
btree_split_child(ns, parent, i) ==
    LET c    == ns[parent].children[i]
        full == ns[c]
        new  == Len(ns) + 1
        keys == SubSeq(full.keys, Mid + 1, MAX_KEYS)
    IN  Append([ns EXCEPT ![c].keys = SubSeq(@, 1, Mid),
                          ![c].children = IF full.is_leaf THEN @ ELSE SubSeq(@, 1, Mid + 1),
                          ![c].next = IF full.is_leaf THEN new ELSE @,
                          ![parent].keys = InsertAt(@, i, Separator(full)),
                          ![parent].children = InsertAt(@, i + 1, new)],
               IF full.is_leaf THEN LeafNode(keys, full.next)
               ELSE InternalNode(keys, SubSeq(full.children, Mid + 1, MAX_KEYS + 1)))

RECURSIVE btree_insert_non_full(_, _, _)
btree_insert_non_full(ns, n, k) ==
    LET x == ns[n]
        i == InsertPosition(x, k)
    IN  IF x.is_leaf THEN [ns EXCEPT ![n].keys = InsertAt(@, i, k)]
        ELSE IF ~ node_is_full(ns[x.children[i]]) THEN btree_insert_non_full(ns, x.children[i], k)
        ELSE LET split == btree_split_child(ns, n, i)
                 j     == IF k > split[n].keys[i] THEN i + 1 ELSE i
             IN  btree_insert_non_full(split, split[n].children[j], k)

btree_insert(k) ==
    /\ freed = << >> /\ k \notin inserted
    /\ IF node_is_full(btree_nodes[btree_root])
       THEN LET new   == Len(btree_nodes) + 1
                grown == Append(btree_nodes, InternalNode(<< >>, <<btree_root>>))
            IN  /\ btree_nodes' = btree_insert_non_full(btree_split_child(grown, new, 1), new, k)
                /\ btree_root' = new
                /\ btree_height' = btree_height + 1
       ELSE /\ btree_nodes' = btree_insert_non_full(btree_nodes, btree_root, k)
            /\ UNCHANGED <<btree_root, btree_height>>
    /\ entry_count' = entry_count + 1
    /\ inserted' = inserted \cup {k}
    /\ UNCHANGED freed

RECURSIVE btree_search_internal(_, _)
btree_search_internal(n, k) ==
    LET x == btree_nodes[n] IN
    IF x.is_leaf THEN k \in Range(x.keys)
    ELSE btree_search_internal(x.children[node_find_child(x, k)], k)

btree_search(k) == btree_search_internal(btree_root, k)

\* The keys from node n on, up to the first one above max_key.
RECURSIVE ScanFrom(_, _, _)
ScanFrom(n, min_key, max_key) ==
    IF n = NULL_NODE THEN << >>
    ELSE LET keys == btree_nodes[n].keys
             over == {i \in DOMAIN keys : keys[i] > max_key}
             here == SelectSeq(SubSeq(keys, 1, IF over = {} THEN Len(keys) ELSE Min(over) - 1),
                               LAMBDA k : k >= min_key)
         IN  IF over # {} THEN here ELSE here \o ScanFrom(btree_nodes[n].next, min_key, max_key)

RECURSIVE LeafFor(_, _)
LeafFor(n, k) == LET x == btree_nodes[n] IN
                 IF x.is_leaf THEN n ELSE LeafFor(x.children[node_find_child(x, k)], k)

btree_range_search(min_key, max_key) == ScanFrom(LeafFor(btree_root, min_key), min_key, max_key)

\* What is freed, in order; a node that is reached again is freed again.
RECURSIVE node_destroy(_)
node_destroy(n) ==
    LET x == btree_nodes[n]
    IN  Append(FoldLeft(LAMBDA s, c : s \o node_destroy(c), << >>, x.children), n)

btree_destroy ==
    /\ freed = << >>
    /\ freed' = node_destroy(btree_root)
    /\ UNCHANGED <<btree_nodes, btree_root, btree_height, entry_count, inserted>>

BTreeNext == btree_destroy \/ \E k \in IndexKeys : btree_insert(k)

BTreeSpec == BTreeInit /\ [][BTreeNext]_btreeVars

-----------------------------------------------------------------------------
(* Properties                                                              *)

RECURSIVE LeafDepths(_)
LeafDepths(n) == LET x == btree_nodes[n] IN
    IF x.is_leaf THEN {0} ELSE {d + 1 : d \in UNION {LeafDepths(c) : c \in Range(x.children)}}

\* Whatever the order of the insertions and the splits they cause, the index is
\* the set of keys inserted: search finds these and no other, a range search
\* visits those in the range in ascending order, each once, every leaf is at
\* the depth the height says and the count is right; and no leaf that the leaf
\* chain has is out of reach of btree_destroy.
\* btree_insert and the searches, btree.c:198-464.
IndexIsExact ==
    /\ {k \in IndexKeys : btree_search(k)} = inserted
    /\ \A lo, hi \in IndexKeys : LET found == btree_range_search(lo, hi) IN
          /\ Range(found) = {k \in inserted : lo <= k /\ k <= hi}
          /\ \A i, j \in DOMAIN found : i < j => found[i] < found[j]
    /\ LeafDepths(btree_root) = {btree_height}
    /\ entry_count = Cardinality(inserted)
    /\ freed # << >> => Range(freed) = DOMAIN btree_nodes

\* btree.h:99 "btree_destroy - Free all memory used by tree": no node is freed
\* twice.
FreedOnce == \A i, j \in DOMAIN freed : freed[i] = freed[j] => i = j
=============================================================================
