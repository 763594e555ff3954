----------------------------- MODULE RecordStore -----------------------------
(***************************************************************************)
(* The key-value store of the database, phase 1: a hash table of chains    *)
(* (storage.c) and the file it is saved to and loaded from (serializer.c). *)
(* The file is the sequence of the items that are whole in it: the magic   *)
(* number, the version, the number of entries, and the entries; of an item *)
(* cut short nothing stays, for a key without its value is read and freed. *)
(* Whatever ends a save early (a full disk, noticed by fwrite or unnoticed *)
(* by fclose, or a crash) leaves a beginning of it.  Keys and values are   *)
(* short enough and memory suffices.                                       *)
(***************************************************************************)
EXTENDS Integers, Sequences, FiniteSets, SequencesExt

CONSTANTS
    StoreKeys, StoreValues,
    HASH_TABLE_SIZE,
    Hash,                 \* hash_function: the bucket of each key
    NULL,
    SERIALIZER_MAGIC, SERIALIZER_VERSION

Buckets == 0 .. HASH_TABLE_SIZE - 1

ASSUME StoreConstants ==
    /\ HASH_TABLE_SIZE \in Nat \ {0} /\ Hash \in [StoreKeys -> Buckets]
    /\ NULL \notin StoreValues

VARIABLES
    store,     \* table and entry_count
    file,      \* is there one, and its items
    saved      \* auxiliary: what was in the store when it was last saved

storeVars == <<store, file, saved>>

KeyValuePair(k, v) == [key |-> k, value |-> v]

Pairs == [key : StoreKeys, value : StoreValues]

StoreTypeOK ==
    /\ store \in [table : [Buckets -> Seq(Pairs)], entry_count : Nat]
    /\ file \in [exists : BOOLEAN, items : Seq(Pairs \cup Nat \cup {SERIALIZER_MAGIC, SERIALIZER_VERSION})]
    /\ \E D \in SUBSET StoreKeys : saved \in [D -> StoreValues]

EmptyStore == [table |-> [i \in Buckets |-> << >>], entry_count |-> 0]

StoreInit == store = EmptyStore /\ file = [exists |-> FALSE, items |-> << >>] /\ saved = [k \in {} |-> NULL]

-----------------------------------------------------------------------------
(* The hash table                                                          *)

\* The positions of a key in its chain.
Found(s, k) == LET chain == s.table[Hash[k]] IN {i \in DOMAIN chain : chain[i].key = k}

storage_get(s, k) ==
    IF Found(s, k) = {} THEN NULL ELSE s.table[Hash[k]][Min(Found(s, k))].value

\* The value of a key that is there is replaced, a new key heads its chain.
storage_put(s, k, v) ==
    IF Found(s, k) # {} THEN [s EXCEPT !.table[Hash[k]] = [@ EXCEPT ![Min(Found(s, k))].value = v]]
    ELSE [table |-> [s.table EXCEPT ![Hash[k]] = <<KeyValuePair(k, v)>> \o @],
          entry_count |-> s.entry_count + 1]

storage_delete(s, k) ==
    IF Found(s, k) = {} THEN s
    ELSE [table |-> [s.table EXCEPT ![Hash[k]] = RemoveAt(@, Min(Found(s, k)))],
          entry_count |-> s.entry_count - 1]

\* storage_list: bucket by bucket, each chain from its head.
Entries(s) ==
    LET upTo[b \in 0 .. HASH_TABLE_SIZE] == IF b = 0 THEN << >> ELSE upTo[b - 1] \o s.table[b - 1]
    IN  upTo[HASH_TABLE_SIZE]

-----------------------------------------------------------------------------
(* The file                                                                *)

serializer_write_header == <<SERIALIZER_MAGIC, SERIALIZER_VERSION>>

serializer_read_header(f) == Len(f) >= 2 /\ SubSeq(f, 1, 2) = serializer_write_header

Stream(s) == serializer_write_header \o <<s.entry_count>> \o Entries(s)

Contents(s) == [k \in {x \in StoreKeys : storage_get(s, x) # NULL} |-> storage_get(s, k)]

\* fopen empties the file; n items of the stream reach the disk.
storage_save ==
    /\ \E n \in 0 .. Len(Stream(store)) :
          file' = [exists |-> TRUE, items |-> SubSeq(Stream(store), 1, n)]
    /\ saved' = Contents(store)
    /\ UNCHANGED store

\* How many of the announced entries are whole.
Readable(f) == Min({f[3], Len(f) - 3})

\* The file's entries, put one after another into s until one cannot be read.
ReadInto(s, f) ==
    LET after[i \in 0 .. Readable(f)] ==
            IF i = 0 THEN s ELSE storage_put(after[i - 1], f[i + 3].key, f[i + 3].value)
    IN  after[Readable(f)]

CanLoad == file.exists /\ serializer_read_header(file.items) /\ Len(file.items) >= 3

storage_load_unclearing ==
    /\ CanLoad
    /\ store' = ReadInto(store, file.items)
    /\ UNCHANGED <<file, saved>>

\* Without a file, or with one whose beginning is missing, the store stays; it is
\* cleared before the first entry is read, and keeps what was read before a failure.
storage_load ==
    /\ CanLoad
    /\ store' = ReadInto(EmptyStore, file.items)
    /\ UNCHANGED <<file, saved>>

\* storage_clear; storage_destroy, or a crash, and storage_create.
storage_clear == store' = EmptyStore /\ UNCHANGED <<file, saved>>

StoreNext ==
    \/ \E k \in StoreKeys :
          /\ \/ \E v \in StoreValues : store' = storage_put(store, k, v)
             \/ store' = storage_delete(store, k)
          /\ UNCHANGED <<file, saved>>
    \/ storage_clear
    \/ storage_save
    \/ storage_load

StoreSpec == StoreInit /\ [][StoreNext]_storeVars

-----------------------------------------------------------------------------
(* Properties                                                              *)

\* The file, for those who do not know how it is written.
Whole(f) == Len(f) >= 3 /\ Readable(f) = f[3]

Disk == [state |-> IF ~ file.exists THEN "none" ELSE IF Whole(file.items) THEN "whole" ELSE "torn",
         map |-> saved]

KV == INSTANCE KeyValueStore
        WITH K <- StoreKeys, V <- StoreValues, map <- Contents(store),
             count <- store.entry_count, disk <- Disk

\* The chains are a map whatever was put, updated and deleted, counted right, and
\* a file that is whole gives back what was in the store when it was saved, in
\* whatever order the chains come back; out of a torn file, however short, only
\* entries that were saved come, with nothing of what the store held before.
\* storage.c:165-313 and 395-531.
ImplementsKeyValueStore == KV!KvSpec
=============================================================================
