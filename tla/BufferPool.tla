------------------------------ MODULE BufferPool ------------------------------
(***************************************************************************)
(* The page cache of the database (Database/Oracle/C/phase4): buffer       *)
(* frames, the page table, the free list and the LRU list of               *)
(* buffer_pool.c and lru.c over the file of disk_manager.c, together with  *)
(* clients that keep its protocol: fetch a page (which pins it), write     *)
(* through the pointer, unpin it and say whether it was written.           *)
(*                                                                         *)
(* A Page pointer is the frame the page was loaded into; hit, miss, flush  *)
(* and eviction counters and access times are left out.  Memory does not   *)
(* run out and the file can be extended; reading and writing it may fail.  *)
(***************************************************************************)
EXTENDS Integers, Sequences, FiniteSets, SequencesExt

CONSTANTS
    Clients,
    pool_size,        \* number of frames
    PAGE_TABLE_SIZE,  \* slots of the page table; one page per slot, no chains
    MAX_PAGES,        \* bound: pages ever allocated on disk
    Values, Zero,     \* what a page may hold; a new page is all Zero
    NoPage, Dangling, NoFrame, NoHandle

Frames == 0 .. pool_size - 1
Pages  == 0 .. MAX_PAGES - 1
Slots  == 0 .. PAGE_TABLE_SIZE - 1

ASSUME PoolConstants ==
    /\ IsFiniteSet(Clients)
    /\ pool_size \in Nat \ {0}
    /\ PAGE_TABLE_SIZE \in Nat \ {0}
    /\ MAX_PAGES \in Nat
    /\ Zero \in Values

\* Page of page.h, without its access time.
Page == [page_id : Pages, data : Values, is_dirty : BOOLEAN, pin_count : Nat]

\* A client's pointer to a fetched page.
Handle == [frame : Frames, page : Pages, wrote : BOOLEAN]

ASSUME PoolSentinels ==
    /\ NoPage \notin Page /\ Dangling \notin Page /\ NoPage # Dangling
    /\ NoFrame \notin Frames
    /\ NoHandle \notin Handle

VARIABLES
    frames,      \* frames[f]: the page loaded, NoPage, or a pointer to a freed page
    page_table,  \* slot -> frame
    free_list,   \* frames free for use (a stack; which one is taken is left open)
    lru_list,    \* the frames of the pages in the list, most recent first
    disk,        \* the database file
    page_count,  \* pages the file has
    handle,      \* the pointer each client holds
    faulty       \* whether reads and writes may fail and clients fetch ids that do not exist

bufferVars == <<frames, page_table, free_list, lru_list, disk, page_count, handle, faulty>>

BufferTypeOK ==
    /\ frames \in [Frames -> Page \cup {NoPage, Dangling}]
    /\ page_table \in [Slots -> Frames \cup {NoFrame}]
    /\ free_list \subseteq Frames
    /\ lru_list \in Seq(Frames)
    /\ disk \in [Pages -> Values]
    /\ page_count \in 0 .. MAX_PAGES
    /\ handle \in [Clients -> Handle \cup {NoHandle}]
    /\ faulty \in BOOLEAN

BufferInit ==
    /\ frames = [f \in Frames |-> NoPage]
    /\ page_table = [s \in Slots |-> NoFrame]
    /\ free_list = Frames
    /\ lru_list = << >>
    /\ disk = [p \in Pages |-> Zero]
    /\ page_count = 0
    /\ handle = [c \in Clients |-> NoHandle]
    /\ faulty \in BOOLEAN

-----------------------------------------------------------------------------
(* Page table, LRU list and disk                                           *)

hash_page_id(p) == p % PAGE_TABLE_SIZE

Loaded(f) == frames[f] \notin {NoPage, Dangling}

\* The page table leads to a frame that holds page p.
InPool(p) ==
    LET f == page_table[hash_page_id(p)]
    IN  f # NoFrame /\ Loaded(f) /\ frames[f].page_id = p

FrameOf(p) == page_table[hash_page_id(p)]

\* lru_remove_page and lru_move_to_front find the first node by page id.
Position(p) == SelectInSeq(lru_list, LAMBDA f : frames[f].page_id = p)

lru_remove_page(p) ==
    IF Position(p) = 0 THEN lru_list ELSE RemoveAt(lru_list, Position(p))

lru_add_page(lru, f) == <<f>> \o lru

lru_move_to_front(p) ==
    IF Position(p) = 0 THEN lru_list
    ELSE <<lru_list[Position(p)]>> \o lru_remove_page(p)

\* A page of a file of n pages is read, unless reading it fails.
disk_manager_read_page(p, n, failed) == p < n /\ ~ (failed /\ faulty)

\* A write stores the page and makes it clean, or fails and changes neither.
disk_manager_write_page(page, failed) ==
    /\ failed => faulty
    /\ disk' = IF failed THEN disk ELSE [disk EXCEPT ![page.page_id] = page.data]

\* After these the program works on freed memory, and the model stops.
Broken ==
    \/ \E f \in Frames : frames[f] = Dangling
    \/ \E c \in Clients :
          /\ handle[c] # NoHandle
          /\ ~ Loaded(handle[c].frame) \/ frames[handle[c].frame].page_id # handle[c].page
    \/ \E i, j \in 1 .. Len(lru_list) : i < j /\ lru_list[i] = lru_list[j]

-----------------------------------------------------------------------------
(* buffer_pool_fetch_page.  n is the number of pages the file has when it  *)
(* is read: buffer_pool_new_page extends the file first.                   *)

Take(c, f, p) ==
    /\ handle[c] = NoHandle
    /\ handle' = [handle EXCEPT ![c] = [frame |-> f, page |-> p, wrote |-> FALSE]]

Hit(c, p) ==
    /\ InPool(p)
    /\ frames' = [frames EXCEPT ![FrameOf(p)].pin_count = @ + 1]
    /\ lru_list' = lru_move_to_front(p)
    /\ Take(c, FrameOf(p), p)
    /\ UNCHANGED <<page_table, free_list, disk>>

\* The page read from the file enters frame f, pinned, at the front of the LRU.
Load(c, p, f, data, table, lru) ==
    /\ frames' = [frames EXCEPT ![f] = [page_id   |-> p,     data      |-> data,
                                         is_dirty  |-> FALSE, pin_count |-> 1]]
    /\ page_table' = [table EXCEPT ![hash_page_id(p)] = f]
    /\ lru_list' = lru_add_page(lru, f)
    /\ Take(c, f, p)

\* A free frame is taken; it is not given back when the read fails.
MissFree(c, p, n) ==
    /\ ~ InPool(p)
    /\ \E f \in free_list, failed \in BOOLEAN :
          /\ free_list' = free_list \ {f}
          /\ IF disk_manager_read_page(p, n, failed)
             THEN Load(c, p, f, disk[p], page_table, lru_list)
             ELSE UNCHANGED <<frames, page_table, lru_list, handle>>
    /\ UNCHANGED disk

MissEvict_ignoresPin(c, p, n) ==
    /\ ~ InPool(p) /\ free_list = {} /\ lru_list # << >> /\ p < n
    /\ LET v      == Last(lru_list)
           victim == frames[v]
           table  == [page_table EXCEPT ![hash_page_id(victim.page_id)] = NoFrame]
       IN  /\ disk' = [disk EXCEPT ![victim.page_id] = victim.data]
           /\ Load(c, p, v, disk'[p], table, lru_remove_page(victim.page_id))
    /\ UNCHANGED free_list

MissEvict_unflushed(c, p, n) ==
    /\ ~ InPool(p) /\ free_list = {} /\ lru_list # << >> /\ p < n
    /\ LET v      == Last(lru_list)
           victim == frames[v]
           table  == [page_table EXCEPT ![hash_page_id(victim.page_id)] = NoFrame]
       IN  /\ victim.pin_count = 0
           /\ Load(c, p, v, disk[p], table, lru_remove_page(victim.page_id))
    /\ UNCHANGED <<free_list, disk>>

\* The page at the tail of the LRU gives up its frame.  The result of the write
\* is not looked at, and its slot is cleared whatever the slot holds.
MissEvict(c, p, n) ==
    /\ ~ InPool(p) /\ free_list = {} /\ lru_list # << >>
    /\ LET v      == Last(lru_list)
           victim == frames[v]
           table  == [page_table EXCEPT ![hash_page_id(victim.page_id)] = NoFrame]
       IN  /\ victim.pin_count = 0
           /\ \E failed \in BOOLEAN :
                 IF victim.is_dirty THEN disk_manager_write_page(victim, failed)
                 ELSE UNCHANGED disk /\ ~ failed
           /\ \E failed \in BOOLEAN :
                 IF disk_manager_read_page(p, n, failed)
                 THEN Load(c, p, v, disk'[p], table, lru_remove_page(victim.page_id))
                 ELSE
                    /\ frames' = [frames EXCEPT ![v] = Dangling]
                    /\ page_table' = table
                    /\ lru_list' = lru_remove_page(victim.page_id)
                    /\ UNCHANGED handle
    /\ UNCHANGED free_list

\* Only the tail is looked at, however many other pages are unpinned.
NoEvictable ==
    /\ free_list = {}
    /\ lru_list # << >> => frames[Last(lru_list)].pin_count > 0

FetchFails(p) ==
    /\ ~ InPool(p) /\ NoEvictable
    /\ UNCHANGED <<frames, page_table, free_list, lru_list, disk, handle>>

fetch_page(c, p, n) ==
    /\ handle[c] = NoHandle
    /\ Hit(c, p) \/ MissFree(c, p, n) \/ MissEvict(c, p, n) \/ FetchFails(p)

buffer_pool_fetch_page(c, p) ==
    /\ ~ Broken
    /\ p < page_count \/ faulty
    /\ fetch_page(c, p, page_count)
    /\ UNCHANGED page_count

\* The file grows by a page of zeros, then the page is fetched; the page stays
\* allocated when the fetch fails.
buffer_pool_new_page(c) ==
    /\ ~ Broken
    /\ page_count < MAX_PAGES
    /\ page_count' = page_count + 1
    /\ fetch_page(c, page_count, page_count + 1)

-----------------------------------------------------------------------------
\* A client writes through the pointer it holds.
Write(c, v) ==
    /\ ~ Broken
    /\ handle[c] # NoHandle
    /\ frames' = [frames EXCEPT ![handle[c].frame].data = v]
    /\ handle' = [handle EXCEPT ![c].wrote = TRUE]
    /\ UNCHANGED <<page_table, free_list, lru_list, disk, page_count>>

\* The page is looked up by its id again; a client whose page is not found drops
\* its pointer and nothing else happens.
buffer_pool_unpin_page(c) ==
    /\ ~ Broken
    /\ handle[c] # NoHandle
    /\ LET p == handle[c].page
           f == FrameOf(p)
       IN  IF InPool(p)
           THEN frames' = [frames EXCEPT
                    ![f].is_dirty = @ \/ handle[c].wrote,
                    ![f].pin_count = IF @ = 0 THEN 0 ELSE @ - 1]
           ELSE UNCHANGED frames
    /\ handle' = [handle EXCEPT ![c] = NoHandle]
    /\ UNCHANGED <<page_table, free_list, lru_list, disk, page_count>>

buffer_pool_flush_page(p) ==
    /\ ~ Broken
    /\ InPool(p) /\ frames[FrameOf(p)].is_dirty
    /\ \E failed \in BOOLEAN :
          /\ disk_manager_write_page(frames[FrameOf(p)], failed)
          /\ frames' = [frames EXCEPT ![FrameOf(p)].is_dirty = failed]
    /\ UNCHANGED <<page_table, free_list, lru_list, page_count, handle>>

Dirty(f) == Loaded(f) /\ frames[f].is_dirty

\* buffer_pool_flush_all writes the frames below `stop` in turn; a write that
\* fails ends the loop there.
FlushBelow(stop) ==
    LET written(p) == {f \in 0 .. stop - 1 : Dirty(f) /\ frames[f].page_id = p}
    IN  /\ stop < pool_size => faulty /\ Dirty(stop)
        /\ disk' = [p \in Pages |-> IF written(p) = {} THEN disk[p]
                                    ELSE frames[Max(written(p))].data]

buffer_pool_flush_all ==
    /\ ~ Broken
    /\ \E stop \in 0 .. pool_size :
          /\ FlushBelow(stop)
          /\ frames' = [f \in Frames |-> IF f < stop /\ Dirty(f)
                                         THEN [frames[f] EXCEPT !.is_dirty = FALSE]
                                         ELSE frames[f]]
    /\ UNCHANGED <<page_table, free_list, lru_list, page_count, handle>>

\* When no client holds a page the pool is destroyed, which flushes it and does
\* not look at the result, and a new pool is created on the same file.
Restart ==
    /\ ~ Broken
    /\ \A c \in Clients : handle[c] = NoHandle
    /\ \E stop \in 0 .. pool_size : FlushBelow(stop)
    /\ frames' = [f \in Frames |-> NoPage]
    /\ page_table' = [s \in Slots |-> NoFrame]
    /\ free_list' = Frames
    /\ lru_list' = << >>
    /\ UNCHANGED <<page_count, handle>>

\* The cached page is dropped, dirty or not; the file keeps what it has.
buffer_pool_delete_page(p) ==
    /\ ~ Broken
    /\ InPool(p) /\ frames[FrameOf(p)].pin_count = 0
    /\ lru_list' = lru_remove_page(p)
    /\ page_table' = [page_table EXCEPT ![hash_page_id(p)] = NoFrame]
    /\ frames' = [frames EXCEPT ![FrameOf(p)] = NoPage]
    /\ free_list' = free_list \cup {FrameOf(p)}
    /\ UNCHANGED <<disk, page_count, handle>>

PoolStep ==
    \/ \E c \in Clients :
          \/ \E p \in Pages : buffer_pool_fetch_page(c, p)
          \/ buffer_pool_new_page(c)
          \/ \E v \in Values : Write(c, v)
          \/ buffer_pool_unpin_page(c)
    \/ \E p \in Pages : buffer_pool_flush_page(p) \/ buffer_pool_delete_page(p)
    \/ buffer_pool_flush_all
    \/ Restart

BufferNext == PoolStep /\ UNCHANGED faulty

BufferSpec == BufferInit /\ [][BufferNext]_bufferVars
-----------------------------------------------------------------------------
(* Properties                                                              *)

InLru(f) == \E i \in 1 .. Len(lru_list) : lru_list[i] = f

\* Every loaded page is reached by its own slot of the page table, is once in the
\* LRU list and is in no free frame; the page table and the LRU list name loaded
\* pages only, also after reads and writes failed; and while nothing fails no
\* frame is lost: one that holds no page is free.  fetch_page and delete_page,
\* buffer_pool.c:153-388.
PagesReachable ==
    /\ \A f \in Frames : IF Loaded(f)
         THEN /\ f \notin free_list
              /\ page_table[hash_page_id(frames[f].page_id)] = f
              /\ InLru(f)
         ELSE f \in free_list \/ faulty
    /\ \A s \in Slots : page_table[s] # NoFrame =>
          Loaded(page_table[s]) /\ hash_page_id(frames[page_table[s]].page_id) = s
    /\ \A i \in 1 .. Len(lru_list) : Loaded(lru_list[i])
    /\ \A i, j \in 1 .. Len(lru_list) : lru_list[i] = lru_list[j] => i = j

\* A client's pointer stays good: whatever is fetched, evicted or deleted by
\* the others, the frame holds the client's page until the client unpins it.
PinnedStays ==
    \A c \in Clients : handle[c] # NoHandle =>
        Loaded(handle[c].frame) /\ frames[handle[c].frame].page_id = handle[c].page

Holders(f) == {c \in Clients : handle[c] # NoHandle /\ handle[c].frame = f}

\* pin_count is the number of clients that hold the page: an unpin too many
\* would let it be evicted under a reader, one too few would keep it for ever.
PinsCounted ==
    \A f \in Frames : Loaded(f) => frames[f].pin_count = Cardinality(Holders(f))

\* What differs from the file is marked dirty, or is being written by a client
\* that holds it: a flush that fails half way clears the marks of no page that it
\* did not write, and no unpin clears the mark of another client.
ChangesAreMarked ==
    \A f \in Frames : Loaded(f) /\ ~ frames[f].is_dirty /\ (\A c \in Holders(f) : ~ handle[c].wrote) =>
        frames[f].data = disk[frames[f].page_id]

\* The four together: while clients come and go and reads and writes fail, every
\* page in the pool is where fetch and eviction look for it, a page that is held
\* is never taken, and a change that is not in the file will be written.  A
\* fault may still lose a frame (a failed read, line 219) or a change (a failed
\* write of the victim, line 191, or at the end, line 124).
PinsProtectPages == PagesReachable /\ PinnedStays /\ PinsCounted /\ ChangesAreMarked

\* What a page holds, wherever it is.
ContentOf(p) ==
    IF \E f \in Frames : Loaded(f) /\ frames[f].page_id = p
    THEN frames[CHOOSE f \in Frames : Loaded(f) /\ frames[f].page_id = p].data
    ELSE disk[p]

Nobody == -1

PS == INSTANCE PageStore
      WITH count   <- IF faulty THEN 0 ELSE page_count,
           content <- [p \in Pages |-> IF faulty THEN Zero ELSE ContentOf(p)],
           open    <- [c \in Clients |-> IF faulty \/ handle[c] = NoHandle THEN Nobody
                                         ELSE handle[c].page]

\* While nothing fails the cache is transparent: loading, evicting and flushing
\* change no page, and clients of one page see each other's writes.
ImplementsPageStore == PS!StoreSpec
=============================================================================
