--------------------------- MODULE BufferPool_proof ---------------------------
(***************************************************************************)
(* Proofs about the database's two stores.                                 *)
(*                                                                         *)
(* BufferPool, for any clients, frames, pages and values.  The page table  *)
(* has no chains: two pages of one slot overwrite each other's entry, and  *)
(* then a page that is held can no longer be found.  So what is proved is  *)
(* proved of files in which no two pages share a slot, such as all files   *)
(* of at most PAGE_TABLE_SIZE (997) pages.                                 *)
(*                                                                         *)
(* RecordStore, for any keys, values, buckets and hash function: the table *)
(* and its file are the map that KeyValueStore promises.                   *)
(***************************************************************************)
EXTENDS BufferPool, RecordStore, Selection, FiniteSetTheorems, SequenceTheorems, TLAPS

OnePagePerSlot == \A p, q \in Pages : hash_page_id(p) = hash_page_id(q) => p = q

LoadedFrames == {f \in Frames : Loaded(f)}

\* The list l names each frame of S once and no other.
Lists(l, S) ==
    /\ l \in Seq(Frames)
    /\ \A i, j \in 1 .. Len(l) : l[i] = l[j] => i = j
    /\ \A i \in 1 .. Len(l) : l[i] \in S
    /\ \A f \in S : \E i \in 1 .. Len(l) : l[i] = f

\* The page table leads to each loaded frame from its page's slot, and nowhere
\* else.
TableFits ==
    /\ \A f \in LoadedFrames : page_table[hash_page_id(frames[f].page_id)] = f
    /\ \A s \in Slots : page_table[s] # NoFrame =>
          page_table[s] \in LoadedFrames /\ hash_page_id(frames[page_table[s]].page_id) = s

\* No free frame is loaded, and while nothing fails the others are.
FreeFits == \A f \in Frames : IF Loaded(f) THEN f \notin free_list ELSE f \in free_list \/ faulty

LruFits == Lists(lru_list, LoadedFrames)

IInv == BufferTypeOK /\ TableFits /\ FreeFits /\ LruFits /\ PinnedStays /\ PinsCounted

\* A loaded page is in the file; if it neither is marked dirty nor was written by
\* a client that still holds it, it is as the file has it; and the file holds
\* zeros where it has yet to grow.
CleanIsOnDisk ==
    /\ \A f \in LoadedFrames :
          /\ frames[f].page_id < page_count
          /\ ~ frames[f].is_dirty /\ (\A c \in Holders(f) : ~ handle[c].wrote) =>
                frames[f].data = disk[frames[f].page_id]
    /\ \A p \in Pages : p >= page_count => disk[p] = Zero

DInv == IInv /\ CleanIsOnDisk

-----------------------------------------------------------------------------
(* Lists of frames                                                         *)

\* What is removed is gone, and only that.
LEMMA Removed ==
    ASSUME NEW S, NEW l, Lists(l, S), NEW k \in 1 .. Len(l)
    PROVE  Lists(RemoveAt(l, k), S \ {l[k]})
<1> DEFINE r == RemoveAt(l, k)
<1>1. l \in Seq(Frames) /\ Len(l) \in Nat
  BY LenProperties DEF Lists
<1>2. /\ r \in Seq(Frames) /\ Len(r) = Len(l) - 1
      /\ \A i \in 1 .. Len(l) - 1 : r[i] = IF i < k THEN l[i] ELSE l[i + 1]
  BY <1>1, RemoveAtIs
<1> HIDE DEF r
<1> DEFINE old(i) == IF i < k THEN i ELSE i + 1
<1>3. \A i \in 1 .. Len(r) : old(i) \in 1 .. Len(l) /\ old(i) # k /\ r[i] = l[old(i)]
  BY <1>1, <1>2
<1>4. \A i, j \in 1 .. Len(r) : r[i] = r[j] => i = j
  <2> SUFFICES ASSUME NEW i \in 1 .. Len(r), NEW j \in 1 .. Len(r), r[i] = r[j]
               PROVE  i = j
    OBVIOUS
  <2>1. old(i) = old(j)
    BY <1>3 DEF Lists
  <2> QED
    BY <1>1, <1>2, <2>1
<1>5. \A i \in 1 .. Len(r) : r[i] \in S \ {l[k]}
  <2> SUFFICES ASSUME NEW i \in 1 .. Len(r) PROVE r[i] \in S \ {l[k]}
    OBVIOUS
  <2> HIDE DEF old
  <2> QED
    BY <1>3 DEF Lists
<1>6. ASSUME NEW f \in S \ {l[k]} PROVE \E i \in 1 .. Len(r) : r[i] = f
  <2>1. PICK j \in 1 .. Len(l) : l[j] = f
    BY DEF Lists
  <2>2. j # k
    BY <2>1
  <2>3. CASE j < k
    <3>1. j \in 1 .. Len(r) /\ r[j] = f
      BY <1>1, <1>2, <2>1, <2>3
    <3> QED
      BY <3>1
  <2>4. CASE j > k
    <3>1. j - 1 \in 1 .. Len(r) /\ ~ (j - 1 < k) /\ (j - 1) + 1 = j
      BY <1>1, <1>2, <2>4
    <3>2. r[j - 1] = f
      BY <1>2, <2>1, <3>1
    <3> QED
      BY <3>1, <3>2
  <2> QED
    BY <1>1, <2>2, <2>3, <2>4
<1> QED
  BY <1>2, <1>4, <1>5, <1>6 DEF Lists, r

\* A frame that is not in the list becomes its first.
LEMMA AddedFirst ==
    ASSUME NEW S, NEW l, Lists(l, S), NEW f \in Frames, f \notin S
    PROVE  Lists(<<f>> \o l, S \cup {f})
<1> DEFINE a == <<f>> \o l
<1>1. l \in Seq(Frames) /\ Len(l) \in Nat
  BY LenProperties DEF Lists
<1>2. <<f>> \in Seq(Frames) /\ Len(<<f>>) = 1 /\ <<f>>[1] = f
  OBVIOUS
<1>3. /\ a \in Seq(Frames) /\ Len(a) = 1 + Len(l)
      /\ \A i \in 1 .. 1 + Len(l) : a[i] = IF i <= 1 THEN <<f>>[i] ELSE l[i - 1]
  BY <1>1, <1>2, ConcatProperties
<1> HIDE DEF a
<1>4. a[1] = f /\ \A i \in 2 .. Len(a) : i - 1 \in 1 .. Len(l) /\ a[i] = l[i - 1]
  BY <1>1, <1>2, <1>3
<1>5. \A i \in 2 .. Len(a) : a[i] \in S /\ a[i] # f
  BY <1>4 DEF Lists
<1>6. \A i, j \in 1 .. Len(a) : a[i] = a[j] => i = j
  <2> SUFFICES ASSUME NEW i \in 1 .. Len(a), NEW j \in 1 .. Len(a), a[i] = a[j]
               PROVE  i = j
    OBVIOUS
  <2>1. CASE i = 1 \/ j = 1
    BY <1>1, <1>3, <1>4, <1>5, <2>1
  <2>2. CASE i # 1 /\ j # 1
    <3>1. i \in 2 .. Len(a) /\ j \in 2 .. Len(a)
      BY <1>1, <1>3, <2>2
    <3>2. i - 1 = j - 1
      BY <1>4, <3>1 DEF Lists
    <3> QED
      BY <3>2
  <2> QED
    BY <2>1, <2>2
<1>7. ASSUME NEW g \in S PROVE \E i \in 1 .. Len(a) : a[i] = g
  <2>1. PICK j \in 1 .. Len(l) : l[j] = g
    BY DEF Lists
  <2>2. j + 1 \in 2 .. Len(a) /\ (j + 1) - 1 = j
    BY <1>1, <1>3
  <2>3. a[j + 1] = g /\ j + 1 \in 1 .. Len(a)
    BY <1>4, <2>1, <2>2
  <2> QED
    BY <2>3
<1>8. 1 \in 1 .. Len(a) /\ \A i \in 1 .. Len(a) : i = 1 \/ i \in 2 .. Len(a)
  BY <1>1, <1>3
<1> QED
  BY <1>3, <1>4, <1>5, <1>6, <1>7, <1>8 DEF Lists, a

-----------------------------------------------------------------------------
(* Slots, pages and frames                                                 *)

LEMMA SlotOf == \A p \in Pages : hash_page_id(p) \in Slots
<1> SUFFICES ASSUME NEW p \in Pages PROVE hash_page_id(p) \in Slots
  OBVIOUS
<1>1. p \in Nat /\ PAGE_TABLE_SIZE \in Nat /\ PAGE_TABLE_SIZE > 0
  BY PoolConstants DEF Pages
<1>2. p % PAGE_TABLE_SIZE \in 0 .. PAGE_TABLE_SIZE - 1
  BY <1>1
<1> QED
  BY <1>2 DEF hash_page_id, Slots

\* What is loaded is a page, and a page is loaded.
LEMMA PageOf ==
    ASSUME BufferTypeOK
    PROVE  /\ \A f \in LoadedFrames :
                 /\ frames[f] \in Page /\ frames[f].page_id \in Pages /\ frames[f].data \in Values
                 /\ frames[f].is_dirty \in BOOLEAN /\ frames[f].pin_count \in Nat
           /\ \A f \in Frames : frames[f] \in Page => f \in LoadedFrames
<1>1. \A f \in LoadedFrames : frames[f] \in Page
  BY DEF BufferTypeOK, LoadedFrames, Loaded
<1>2. \A f \in Frames : frames[f] \in Page => f \in LoadedFrames
  BY PoolSentinels DEF LoadedFrames, Loaded
<1> QED
  BY <1>1, <1>2 DEF Page

\* No page is in two frames, and one that is loaded is found.
LEMMA OneFrame ==
    ASSUME BufferTypeOK, TableFits, OnePagePerSlot
    PROVE  /\ \A f, g \in LoadedFrames : frames[f].page_id = frames[g].page_id => f = g
           /\ \A p \in Pages : InPool(p) <=> \E f \in LoadedFrames : frames[f].page_id = p
           /\ \A f \in LoadedFrames : FrameOf(frames[f].page_id) = f
           /\ \A p \in Pages : InPool(p) => FrameOf(p) \in LoadedFrames /\ frames[FrameOf(p)].page_id = p
<1>1. \A f \in LoadedFrames : f \in Frames /\ f # NoFrame /\ Loaded(f)
  BY PoolSentinels DEF LoadedFrames
<1>2. \A f \in LoadedFrames : FrameOf(frames[f].page_id) = f
  BY DEF FrameOf, TableFits
<1>3. \A p \in Pages : InPool(p) => FrameOf(p) \in LoadedFrames /\ frames[FrameOf(p)].page_id = p
  BY SlotOf DEF InPool, FrameOf, BufferTypeOK, LoadedFrames
<1>4. \A f \in LoadedFrames : InPool(frames[f].page_id)
  BY <1>1, <1>2 DEF InPool, FrameOf
<1> QED
  BY <1>2, <1>3, <1>4

\* The list is searched by page id.
LEMMA PositionIs ==
    ASSUME BufferTypeOK, TableFits, OnePagePerSlot, LruFits, NEW f \in LoadedFrames
    PROVE  /\ Position(frames[f].page_id) \in 1 .. Len(lru_list)
           /\ lru_list[Position(frames[f].page_id)] = f
<1> DEFINE p == frames[f].page_id
           I == {i \in 1 .. Len(lru_list) : frames[lru_list[i]].page_id = p}
<1>1. PICK k \in 1 .. Len(lru_list) : lru_list[k] = f
  BY DEF LruFits, Lists
<1>2. k \in I
  BY <1>1
<1>3. \A i \in I : lru_list[i] = f
  BY OneFrame DEF LruFits, Lists
<1>4. \A i \in I : i = k
  BY <1>1, <1>3 DEF LruFits, Lists
<1>5. I = {k} /\ k \in Int
  BY <1>2, <1>4
<1>6. Min(I) = k
  BY <1>5 DEF Min
<1>7. Position(p) = Min(I)
  BY <1>2 DEF Position, SelectInSeq
<1> QED
  BY <1>1, <1>6, <1>7

\* What the list operations of the pool do.
LEMMA LruOperations ==
    ASSUME BufferTypeOK, TableFits, OnePagePerSlot, LruFits, NEW f \in LoadedFrames
    PROVE  /\ Lists(lru_remove_page(frames[f].page_id), LoadedFrames \ {f})
           /\ Lists(lru_move_to_front(frames[f].page_id), LoadedFrames)
<1> DEFINE p == frames[f].page_id
<1>1. Position(p) \in 1 .. Len(lru_list) /\ lru_list[Position(p)] = f /\ Position(p) # 0
  BY PositionIs
<1>2. lru_remove_page(p) = RemoveAt(lru_list, Position(p))
  BY <1>1 DEF lru_remove_page
<1>3. Lists(lru_remove_page(p), LoadedFrames \ {f})
  BY <1>1, <1>2, Removed DEF LruFits
<1>4. lru_move_to_front(p) = <<f>> \o lru_remove_page(p)
  BY <1>1 DEF lru_move_to_front
<1>5. f \in Frames /\ (LoadedFrames \ {f}) \cup {f} = LoadedFrames
  BY DEF LoadedFrames
<1>6. Lists(lru_move_to_front(p), LoadedFrames)
  <2>1. f \notin LoadedFrames \ {f}
    OBVIOUS
  <2>2. Lists(<<f>> \o lru_remove_page(p), (LoadedFrames \ {f}) \cup {f})
    BY <1>3, <1>5, <2>1, AddedFirst
  <2> QED
    BY <1>4, <1>5, <2>2
<1> QED
  BY <1>3, <1>6

\* The victim of an eviction is a loaded frame.
LEMMA VictimIsLoaded ==
    ASSUME LruFits, lru_list # << >>
    PROVE  Last(lru_list) \in LoadedFrames
<1>1. lru_list \in Seq(Frames) /\ Len(lru_list) \in 1 .. Len(lru_list)
  BY EmptySeq, LenProperties DEF LruFits, Lists
<1> QED
  BY <1>1 DEF Last, LruFits, Lists

-----------------------------------------------------------------------------
(* Steps that leave each page in its frame                                 *)

LEMMA SamePages ==
    ASSUME IInv, OnePagePerSlot,
           frames' \in [Frames -> Page \cup {NoPage, Dangling}],
           \A f \in Frames : Loaded(f)' <=> Loaded(f),
           \A f \in LoadedFrames : frames'[f].page_id = frames[f].page_id,
           UNCHANGED <<page_table, free_list, faulty>>,
           Lists(lru_list', LoadedFrames)
    PROVE  /\ LoadedFrames' = LoadedFrames
           /\ TableFits' /\ FreeFits' /\ LruFits'
<1>1. LoadedFrames' = LoadedFrames
  BY DEF LoadedFrames
<1>2. TableFits'
  BY <1>1 DEF IInv, TableFits
<1>3. FreeFits'
  BY DEF IInv, FreeFits
<1>4. LruFits'
  BY <1>1 DEF LruFits
<1> QED
  BY <1>1, <1>2, <1>3, <1>4

\* Who holds a frame is a finite set; the one who takes it joins.
LEMMA HoldersFinite ==
    \A f : IsFiniteSet(Holders(f)) /\ Cardinality(Holders(f)) \in Nat
           /\ (Cardinality(Holders(f)) = 0 <=> Holders(f) = {})
  BY FS_Subset, FS_CardinalityType, FS_EmptySet, PoolConstants DEF Holders

LEMMA TakeCounts ==
    ASSUME BufferTypeOK, NEW c \in Clients, NEW f \in Frames, NEW p \in Pages, Take(c, f, p)
    PROVE  /\ handle' \in [Clients -> Handle \cup {NoHandle}]
           /\ handle'[c] = [frame |-> f, page |-> p, wrote |-> FALSE] /\ handle'[c] # NoHandle
           /\ \A d \in Clients : d # c => handle'[d] = handle[d]
           /\ \A g \in Frames : Cardinality(Holders(g)') =
                                  Cardinality(Holders(g)) + (IF g = f THEN 1 ELSE 0)
           /\ \A g \in Frames : Holders(g)' = IF g = f THEN Holders(g) \cup {c} ELSE Holders(g)
<1> DEFINE h == [frame |-> f, page |-> p, wrote |-> FALSE]
<1>1. h \in Handle /\ h # NoHandle /\ h.frame = f
  <2>1. h \in Handle
    BY DEF Handle
  <2> QED
    BY <2>1, PoolSentinels
<1>2. handle' = [handle EXCEPT ![c] = h] /\ handle[c] = NoHandle
  BY DEF Take
<1> HIDE DEF h
<1>3. /\ handle' \in [Clients -> Handle \cup {NoHandle}]
      /\ handle'[c] = h /\ \A d \in Clients : d # c => handle'[d] = handle[d]
  BY <1>1, <1>2 DEF BufferTypeOK
<1>4. \A g \in Frames : Holders(g)' = IF g = f THEN Holders(g) \cup {c} ELSE Holders(g)
  BY <1>1, <1>3 DEF Holders, Take
<1>5. c \notin Holders(f)
  BY DEF Holders, Take
<1>6. Cardinality(Holders(f) \cup {c}) = Cardinality(Holders(f)) + 1
  BY <1>5, FS_AddElement, HoldersFinite
<1>7. \A g \in Frames : Cardinality(Holders(g)') = Cardinality(Holders(g)) + (IF g = f THEN 1 ELSE 0)
  <2> SUFFICES ASSUME NEW g \in Frames
               PROVE  Cardinality(Holders(g)') = Cardinality(Holders(g)) + (IF g = f THEN 1 ELSE 0)
    OBVIOUS
  <2>1. CASE g = f
    BY <1>4, <1>6, <2>1
  <2>2. CASE g # f
    BY <1>4, <2>2, HoldersFinite
  <2> QED
    BY <2>1, <2>2
<1> QED
  BY <1>1, <1>3, <1>4, <1>7 DEF h

\* The file of a step: it keeps its type, does not shrink and has zeros where it
\* has yet to grow.
FileGrows ==
    /\ UNCHANGED faulty
    /\ disk' \in [Pages -> Values]
    /\ page_count' \in 0 .. MAX_PAGES /\ page_count' >= page_count
    /\ \A q \in Pages : q >= page_count' => disk'[q] = Zero

\* A page of the pool is fetched once more.
LEMMA HitKeeps ==
    ASSUME DInv, OnePagePerSlot, NEW c \in Clients, NEW p \in Pages, Hit(c, p), FileGrows
    PROVE  DInv'
<1> DEFINE f == FrameOf(p)
           new == [frames[f] EXCEPT !.pin_count = @ + 1]
<1>1. BufferTypeOK /\ TableFits /\ LruFits /\ IInv
  BY DEF DInv, IInv
<1>2. InPool(p) /\ f \in LoadedFrames /\ frames[f].page_id = p /\ f \in Frames
  BY <1>1, OneFrame DEF Hit, LoadedFrames
<1>3. /\ frames' = [frames EXCEPT ![f] = new]
      /\ lru_list' = lru_move_to_front(p) /\ Take(c, f, p)
      /\ UNCHANGED <<page_table, free_list, disk>>
  BY DEF Hit
<1>4. /\ new \in Page /\ new.page_id = p /\ new.data = frames[f].data
      /\ new.is_dirty = frames[f].is_dirty /\ new.pin_count = frames[f].pin_count + 1
  BY <1>1, <1>2, PageOf DEF Page
<1> HIDE DEF f, new
<1>5. /\ frames' \in [Frames -> Page \cup {NoPage, Dangling}]
      /\ frames'[f] = new /\ \A g \in Frames : g # f => frames'[g] = frames[g]
  BY <1>1, <1>2, <1>3, <1>4 DEF BufferTypeOK
<1>6. \A g \in Frames : Loaded(g)' <=> Loaded(g)
  BY <1>2, <1>4, <1>5, PoolSentinels DEF Loaded, LoadedFrames
<1>7. \A g \in LoadedFrames : frames'[g].page_id = frames[g].page_id
  BY <1>2, <1>4, <1>5 DEF LoadedFrames
<1>8. Lists(lru_list', LoadedFrames)
  BY <1>1, <1>2, <1>3, LruOperations
<1>9. LoadedFrames' = LoadedFrames /\ TableFits' /\ FreeFits' /\ LruFits'
  BY <1>1, <1>3, <1>5, <1>6, <1>7, <1>8, SamePages DEF FileGrows
<1>10. /\ handle' \in [Clients -> Handle \cup {NoHandle}]
       /\ handle'[c] = [frame |-> f, page |-> p, wrote |-> FALSE] /\ handle'[c] # NoHandle
       /\ \A d \in Clients : d # c => handle'[d] = handle[d]
       /\ \A g \in Frames : Cardinality(Holders(g)') =
                              Cardinality(Holders(g)) + (IF g = f THEN 1 ELSE 0)
       /\ \A g \in Frames : Holders(g)' = IF g = f THEN Holders(g) \cup {c} ELSE Holders(g)
  BY <1>1, <1>2, <1>3, TakeCounts
<1>11. BufferTypeOK'
  BY <1>1, <1>3, <1>5, <1>8, <1>10 DEF BufferTypeOK, FileGrows, Lists
<1>12. PinnedStays'
  <2> SUFFICES ASSUME NEW d \in Clients, handle'[d] # NoHandle
               PROVE  /\ frames'[handle'[d].frame] \notin {NoPage, Dangling}
                      /\ frames'[handle'[d].frame].page_id = handle'[d].page
    BY DEF PinnedStays, Loaded
  <2>1. CASE d = c
    BY <1>2, <1>4, <1>5, <1>6, <1>10, <2>1 DEF LoadedFrames, Loaded
  <2>2. CASE d # c
    <3>1. handle'[d] = handle[d] /\ handle[d] \in Handle /\ handle[d].frame \in Frames
      BY <1>1, <1>10, <2>2 DEF BufferTypeOK, Handle
    <3>2. Loaded(handle[d].frame) /\ frames[handle[d].frame].page_id = handle[d].page
      BY <1>1, <3>1 DEF IInv, PinnedStays
    <3> QED
      BY <1>6, <1>7, <3>1, <3>2 DEF LoadedFrames, Loaded
  <2> QED
    BY <2>1, <2>2
<1>13. PinsCounted'
  <2> SUFFICES ASSUME NEW g \in Frames, Loaded(g)'
               PROVE  frames'[g].pin_count = Cardinality(Holders(g)')
    BY DEF PinsCounted
  <2>1. frames[g].pin_count = Cardinality(Holders(g))
    BY <1>1, <1>6 DEF IInv, PinsCounted
  <2> QED
    BY <1>4, <1>5, <1>10, <2>1, HoldersFinite
<1>14. CleanIsOnDisk'
  <2> SUFFICES ASSUME NEW g \in LoadedFrames
               PROVE  /\ frames'[g].page_id < page_count'
                      /\ ~ frames'[g].is_dirty /\ (\A d \in Holders(g)' : ~ handle'[d].wrote) =>
                            frames'[g].data = disk'[frames'[g].page_id]
    BY <1>9 DEF CleanIsOnDisk, FileGrows
  <2>1. /\ frames[g].page_id < page_count /\ frames[g].page_id \in Pages /\ g \in Frames
        /\ ~ frames[g].is_dirty /\ (\A d \in Holders(g) : ~ handle[d].wrote) =>
              frames[g].data = disk[frames[g].page_id]
    BY <1>1, PageOf DEF DInv, CleanIsOnDisk, LoadedFrames
  <2>2. frames'[g].page_id < page_count'
    BY <1>1, <1>7, <2>1 DEF FileGrows, BufferTypeOK, Pages
  <2>3. frames'[g].is_dirty = frames[g].is_dirty /\ frames'[g].data = frames[g].data
    BY <1>4, <1>5, <2>1
  <2>4. c \notin Holders(g)
    BY <1>3 DEF Take, Holders
  <2>5. \A d \in Holders(g) : d \in Holders(g)' /\ handle'[d] = handle[d]
    BY <1>10, <2>1, <2>4 DEF Holders
  <2> QED
    BY <1>3, <1>7, <2>1, <2>2, <2>3, <2>5
<1> QED
  BY <1>9, <1>11, <1>12, <1>13, <1>14 DEF DInv, IInv

\* A page comes into frame f, which nobody holds, while the other loaded frames S
\* stay as they are.
LEMMA LoadKeeps ==
    ASSUME DInv, OnePagePerSlot, FileGrows,
           NEW c \in Clients, NEW p \in Pages, NEW f \in Frames, NEW data \in Values,
           NEW S, S = LoadedFrames \ {f}, ~ InPool(p), Holders(f) = {},
           NEW table \in [Slots -> Frames \cup {NoFrame}], NEW lru, Lists(lru, S),
           \A g \in S : table[hash_page_id(frames[g].page_id)] = g,
           \A s \in Slots : table[s] # NoFrame =>
              table[s] \in S /\ hash_page_id(frames[table[s]].page_id) = s,
           Load(c, p, f, data, table, lru),
           free_list' \subseteq Frames, f \notin free_list',
           \A g \in Frames \ {f} : IF Loaded(g) THEN g \notin free_list' ELSE g \in free_list' \/ faulty,
           p < page_count' /\ data = disk'[p],
           \A g \in S : disk'[frames[g].page_id] = disk[frames[g].page_id]
    PROVE  DInv'
<1> DEFINE new == [page_id |-> p, data |-> data, is_dirty |-> FALSE, pin_count |-> 1]
<1>1. BufferTypeOK /\ TableFits /\ LruFits /\ IInv
  BY DEF DInv, IInv
<1>2. /\ frames' = [frames EXCEPT ![f] = new]
      /\ page_table' = [table EXCEPT ![hash_page_id(p)] = f]
      /\ lru_list' = <<f>> \o lru /\ Take(c, f, p)
  BY DEF Load, lru_add_page
<1>3. new \in Page /\ new.page_id = p /\ new.data = data /\ new.is_dirty = FALSE /\ new.pin_count = 1
  BY DEF Page
<1> HIDE DEF new
<1>4. /\ frames' \in [Frames -> Page \cup {NoPage, Dangling}]
      /\ frames'[f] = new /\ \A g \in Frames : g # f => frames'[g] = frames[g]
  BY <1>1, <1>2, <1>3 DEF BufferTypeOK
<1>5. /\ Loaded(f)' /\ \A g \in Frames : g # f => (Loaded(g)' <=> Loaded(g))
      /\ LoadedFrames' = S \cup {f} /\ f \notin S /\ S \subseteq Frames
  <2>1. Loaded(f)' /\ \A g \in Frames : g # f => (Loaded(g)' <=> Loaded(g))
    BY <1>3, <1>4, PoolSentinels DEF Loaded
  <2> QED
    BY <2>1 DEF LoadedFrames
<1>6. \A g \in S : /\ frames'[g] = frames[g] /\ frames[g].page_id \in Pages
                   /\ hash_page_id(frames[g].page_id) # hash_page_id(p)
  <2> SUFFICES ASSUME NEW g \in S
               PROVE  /\ frames'[g] = frames[g] /\ frames[g].page_id \in Pages
                      /\ hash_page_id(frames[g].page_id) # hash_page_id(p)
    OBVIOUS
  <2>1. g \in LoadedFrames /\ g # f /\ g \in Frames
    BY DEF LoadedFrames
  <2>2. frames[g].page_id \in Pages /\ frames[g].page_id # p
    BY <1>1, <2>1, PageOf, OneFrame
  <2> QED
    BY <1>4, <2>1, <2>2 DEF OnePagePerSlot
<1>7. hash_page_id(p) \in Slots /\ \A g \in S : hash_page_id(frames[g].page_id) \in Slots
  BY <1>6, SlotOf
<1>8. /\ page_table' \in [Slots -> Frames \cup {NoFrame}]
      /\ page_table'[hash_page_id(p)] = f
      /\ \A s \in Slots : s # hash_page_id(p) => page_table'[s] = table[s]
  BY <1>2, <1>7
<1>9. TableFits'
  <2>1. \A g \in S \cup {f} : page_table'[hash_page_id(frames'[g].page_id)] = g
    BY <1>3, <1>4, <1>6, <1>7, <1>8
  <2>2. \A s \in Slots : page_table'[s] # NoFrame =>
           page_table'[s] \in S \cup {f} /\ hash_page_id(frames'[page_table'[s]].page_id) = s
    <3> SUFFICES ASSUME NEW s \in Slots, page_table'[s] # NoFrame
                 PROVE  page_table'[s] \in S \cup {f} /\ hash_page_id(frames'[page_table'[s]].page_id) = s
      OBVIOUS
    <3>1. CASE s = hash_page_id(p)
      BY <1>3, <1>4, <1>8, <3>1
    <3>2. CASE s # hash_page_id(p)
      BY <1>6, <1>8, <3>2
    <3> QED
      BY <3>1, <3>2
  <2>3. TableFits' = /\ \A g \in LoadedFrames' : page_table'[hash_page_id(frames'[g].page_id)] = g
                     /\ \A s \in Slots : page_table'[s] # NoFrame =>
                           page_table'[s] \in LoadedFrames' /\ hash_page_id(frames'[page_table'[s]].page_id) = s
    BY DEF TableFits, hash_page_id
  <2> QED
    BY <1>5, <2>1, <2>2, <2>3
<1>10. FreeFits'
  BY <1>5 DEF FreeFits, FileGrows
<1>11. LruFits' /\ lru_list' \in Seq(Frames)
  <2>1. Lists(lru_list', S \cup {f})
    BY <1>2, <1>5, AddedFirst
  <2> QED
    BY <1>5, <2>1 DEF LruFits, Lists
<1>12. /\ handle' \in [Clients -> Handle \cup {NoHandle}]
       /\ handle'[c] = [frame |-> f, page |-> p, wrote |-> FALSE] /\ handle'[c] # NoHandle
       /\ \A d \in Clients : d # c => handle'[d] = handle[d]
       /\ \A g \in Frames : Cardinality(Holders(g)') =
                              Cardinality(Holders(g)) + (IF g = f THEN 1 ELSE 0)
       /\ \A g \in Frames : Holders(g)' = IF g = f THEN Holders(g) \cup {c} ELSE Holders(g)
  BY <1>1, <1>2, TakeCounts
<1>13. BufferTypeOK'
  BY <1>1, <1>4, <1>8, <1>11, <1>12 DEF BufferTypeOK, FileGrows
<1>14. PinnedStays'
  <2> SUFFICES ASSUME NEW d \in Clients, handle'[d] # NoHandle
               PROVE  /\ frames'[handle'[d].frame] \notin {NoPage, Dangling}
                      /\ frames'[handle'[d].frame].page_id = handle'[d].page
    BY DEF PinnedStays, Loaded
  <2>1. CASE d = c
    BY <1>3, <1>4, <1>5, <1>12, <2>1 DEF Loaded
  <2>2. CASE d # c
    <3>1. handle'[d] = handle[d] /\ handle[d] \in Handle /\ handle[d].frame \in Frames
      BY <1>1, <1>12, <2>2 DEF BufferTypeOK, Handle
    <3>2. Loaded(handle[d].frame) /\ frames[handle[d].frame].page_id = handle[d].page
      BY <1>1, <3>1 DEF IInv, PinnedStays
    <3>3. handle[d].frame # f
      BY <3>1 DEF Holders
    <3> QED
      BY <1>4, <1>5, <3>1, <3>2, <3>3 DEF Loaded
  <2> QED
    BY <2>1, <2>2
<1>15. PinsCounted'
  <2> SUFFICES ASSUME NEW g \in Frames, Loaded(g)'
               PROVE  frames'[g].pin_count = Cardinality(Holders(g)')
    BY DEF PinsCounted
  <2>1. CASE g = f
    BY <1>3, <1>4, <1>12, <2>1, HoldersFinite
  <2>2. CASE g # f
    <3>1. frames[g].pin_count = Cardinality(Holders(g))
      BY <1>1, <1>5, <2>2 DEF IInv, PinsCounted
    <3> QED
      BY <1>4, <1>12, <2>2, <3>1, HoldersFinite
  <2> QED
    BY <2>1, <2>2
<1>16. CleanIsOnDisk'
  <2> SUFFICES ASSUME NEW g \in S \cup {f}
               PROVE  /\ frames'[g].page_id < page_count'
                      /\ ~ frames'[g].is_dirty /\ (\A d \in Holders(g)' : ~ handle'[d].wrote) =>
                            frames'[g].data = disk'[frames'[g].page_id]
    BY <1>5 DEF CleanIsOnDisk, FileGrows
  <2>1. CASE g = f
    BY <1>3, <1>4, <2>1
  <2>2. CASE g \in S
    <3>1. /\ frames[g].page_id < page_count
          /\ ~ frames[g].is_dirty /\ (\A d \in Holders(g) : ~ handle[d].wrote) =>
                frames[g].data = disk[frames[g].page_id]
      BY <2>2 DEF DInv, CleanIsOnDisk
    <3>2. frames[g].page_id < page_count'
      BY <1>1, <1>6, <2>2, <3>1 DEF FileGrows, BufferTypeOK, Pages
    <3>3. c \notin Holders(g) /\ Holders(g)' = Holders(g)
      BY <1>2, <1>5, <1>12, <2>2 DEF Take, Holders
    <3>4. \A d \in Holders(g) : handle'[d] = handle[d]
      BY <1>12, <3>3 DEF Holders
    <3> QED
      BY <1>6, <2>2, <3>1, <3>2, <3>3, <3>4
  <2> QED
    BY <2>1, <2>2
<1> QED
  BY <1>9, <1>10, <1>11, <1>13, <1>14, <1>15, <1>16 DEF DInv, IInv

\* The page table without the page of frame f.
TableWithout(f) == [page_table EXCEPT ![hash_page_id(frames[f].page_id)] = NoFrame]

\* When a frame gives up its page, the table and the list name the others.
LEMMA FrameOut ==
    ASSUME IInv, OnePagePerSlot, NEW f \in LoadedFrames, frames[f].pin_count = 0
    PROVE  LET S == LoadedFrames \ {f}
               table == TableWithout(f) IN
           /\ f \in Frames /\ Holders(f) = {}
           /\ table \in [Slots -> Frames \cup {NoFrame}]
           /\ Lists(lru_remove_page(frames[f].page_id), S)
           /\ \A g \in S : table[hash_page_id(frames[g].page_id)] = g
           /\ \A s \in Slots : table[s] # NoFrame =>
                 table[s] \in S /\ hash_page_id(frames[table[s]].page_id) = s
<1> DEFINE S == LoadedFrames \ {f}
           table == TableWithout(f)
           h == hash_page_id(frames[f].page_id)
<1>1. BufferTypeOK /\ TableFits /\ LruFits
  BY DEF IInv
<1>2. f \in Frames /\ Holders(f) = {}
  BY HoldersFinite DEF IInv, PinsCounted, LoadedFrames
<1>3. h \in Slots /\ page_table[h] = f
  BY <1>1, SlotOf, PageOf DEF TableFits
<1>4. \A g \in S : hash_page_id(frames[g].page_id) \in Slots /\ hash_page_id(frames[g].page_id) # h
  <2> SUFFICES ASSUME NEW g \in S
               PROVE  hash_page_id(frames[g].page_id) \in Slots /\ hash_page_id(frames[g].page_id) # h
    OBVIOUS
  <2>1. frames[g].page_id \in Pages /\ frames[f].page_id \in Pages /\ frames[g].page_id # frames[f].page_id
    BY <1>1, PageOf, OneFrame
  <2> QED
    BY <2>1, SlotOf DEF OnePagePerSlot
<1> HIDE DEF h, table
<1>5. /\ table \in [Slots -> Frames \cup {NoFrame}]
      /\ table[h] = NoFrame /\ \A s \in Slots : s # h => table[s] = page_table[s]
  BY <1>1, <1>3 DEF BufferTypeOK, h, table, TableWithout
<1>6. \A g \in S : table[hash_page_id(frames[g].page_id)] = g
  BY <1>1, <1>4, <1>5 DEF TableFits
<1>7. \A s \in Slots : table[s] # NoFrame =>
         table[s] \in S /\ hash_page_id(frames[table[s]].page_id) = s
  <2> SUFFICES ASSUME NEW s \in Slots, table[s] # NoFrame
               PROVE  table[s] \in S /\ hash_page_id(frames[table[s]].page_id) = s
    OBVIOUS
  <2>1. s # h /\ table[s] = page_table[s]
    BY <1>5
  <2>2. table[s] \in LoadedFrames /\ hash_page_id(frames[table[s]].page_id) = s
    BY <1>1, <2>1 DEF TableFits
  <2>3. table[s] # f
    BY <2>1, <2>2 DEF h
  <2> QED
    BY <2>2, <2>3
<1>8. Lists(lru_remove_page(frames[f].page_id), S)
  BY <1>1, LruOperations
<1> QED
  BY <1>2, <1>5, <1>6, <1>7, <1>8 DEF table

\* A frame that nobody holds gives up its page and takes no other.
LEMMA UnloadKeeps ==
    ASSUME DInv, OnePagePerSlot, FileGrows,
           NEW f \in LoadedFrames, frames[f].pin_count = 0, NEW x \in {NoPage, Dangling},
           frames' = [frames EXCEPT ![f] = x],
           page_table' = TableWithout(f),
           lru_list' = lru_remove_page(frames[f].page_id), UNCHANGED handle,
           free_list' \subseteq Frames, f \in free_list' \/ faulty,
           \A g \in Frames \ {f} : g \in free_list' <=> g \in free_list,
           \A g \in LoadedFrames \ {f} : disk'[frames[g].page_id] = disk[frames[g].page_id]
    PROVE  DInv'
<1> DEFINE S == LoadedFrames \ {f}
<1>1. BufferTypeOK /\ IInv
  BY DEF DInv, IInv
<1>2. /\ f \in Frames /\ Holders(f) = {}
      /\ page_table' \in [Slots -> Frames \cup {NoFrame}]
      /\ Lists(lru_list', S)
      /\ \A g \in S : page_table'[hash_page_id(frames[g].page_id)] = g
      /\ \A s \in Slots : page_table'[s] # NoFrame =>
            page_table'[s] \in S /\ hash_page_id(frames[page_table'[s]].page_id) = s
  BY <1>1, FrameOut
<1>3. /\ frames' \in [Frames -> Page \cup {NoPage, Dangling}]
      /\ frames'[f] = x /\ \A g \in Frames : g # f => frames'[g] = frames[g]
  BY <1>1, <1>2 DEF BufferTypeOK
<1>4. LoadedFrames' = S /\ S \subseteq Frames
  BY <1>3 DEF LoadedFrames, Loaded
<1>5. TableFits'
  BY <1>2, <1>3, <1>4 DEF TableFits, hash_page_id
<1>6. FreeFits'
  <2> SUFFICES ASSUME NEW g \in Frames
               PROVE  IF g \in S THEN g \notin free_list' ELSE g \in free_list' \/ faulty
    BY <1>4 DEF FreeFits, FileGrows, LoadedFrames
  <2>1. IF Loaded(g) THEN g \notin free_list ELSE g \in free_list \/ faulty
    BY <1>1 DEF IInv, FreeFits
  <2> QED
    BY <2>1 DEF LoadedFrames
<1>7. LruFits' /\ lru_list' \in Seq(Frames)
  BY <1>2, <1>4 DEF LruFits, Lists
<1>8. BufferTypeOK'
  BY <1>1, <1>2, <1>3, <1>7 DEF BufferTypeOK, FileGrows
<1>9. PinnedStays'
  <2> SUFFICES ASSUME NEW d \in Clients, handle[d] # NoHandle
               PROVE  /\ frames'[handle[d].frame] \notin {NoPage, Dangling}
                      /\ frames'[handle[d].frame].page_id = handle[d].page
    BY DEF PinnedStays, Loaded
  <2>1. handle[d] \in Handle /\ handle[d].frame \in Frames
    BY <1>1 DEF BufferTypeOK, Handle
  <2>2. Loaded(handle[d].frame) /\ frames[handle[d].frame].page_id = handle[d].page
    BY <1>1 DEF IInv, PinnedStays
  <2>3. handle[d].frame # f
    BY <1>2 DEF Holders
  <2> QED
    BY <1>3, <2>1, <2>2, <2>3 DEF Loaded
<1>10. PinsCounted'
  <2> SUFFICES ASSUME NEW g \in S PROVE frames'[g].pin_count = Cardinality(Holders(g)')
    BY <1>4 DEF PinsCounted, LoadedFrames
  <2>1. frames[g].pin_count = Cardinality(Holders(g))
    BY <1>1 DEF IInv, PinsCounted, LoadedFrames
  <2>2. Holders(g)' = Holders(g)
    BY DEF Holders
  <2> QED
    BY <1>3, <1>4, <2>1, <2>2
<1>11. CleanIsOnDisk'
  <2> SUFFICES ASSUME NEW g \in S
               PROVE  /\ frames'[g].page_id < page_count'
                      /\ ~ frames'[g].is_dirty /\ (\A d \in Holders(g)' : ~ handle'[d].wrote) =>
                            frames'[g].data = disk'[frames'[g].page_id]
    BY <1>4 DEF CleanIsOnDisk, FileGrows
  <2>1. /\ frames[g].page_id < page_count /\ frames[g].page_id \in Pages
        /\ ~ frames[g].is_dirty /\ (\A d \in Holders(g) : ~ handle[d].wrote) =>
              frames[g].data = disk[frames[g].page_id]
    BY <1>1, PageOf DEF DInv, CleanIsOnDisk
  <2>2. frames[g].page_id < page_count'
    BY <1>1, <2>1 DEF FileGrows, BufferTypeOK, Pages
  <2>3. Holders(g)' = Holders(g) /\ frames'[g] = frames[g]
    BY <1>3, <1>4 DEF Holders
  <2> QED
    BY <2>1, <2>2, <2>3
<1> QED
  BY <1>5, <1>6, <1>7, <1>8, <1>9, <1>10, <1>11 DEF DInv, IInv

-----------------------------------------------------------------------------
(* Fetching a page                                                         *)

\* What fetch_page and new_page have in common: the file has page_count' pages
\* when it is read, and the page is one of them unless something may fail.
Fetching(p) ==
    /\ UNCHANGED faulty
    /\ page_count' \in 0 .. MAX_PAGES /\ page_count' >= page_count
    /\ ~ faulty => p < page_count'

LEMMA MissFreeKeeps ==
    ASSUME DInv, OnePagePerSlot, NEW c \in Clients, NEW p \in Pages, Fetching(p),
           MissFree(c, p, page_count')
    PROVE  DInv' /\ FileGrows
<1>1. BufferTypeOK /\ TableFits /\ FreeFits /\ LruFits /\ PinnedStays /\ CleanIsOnDisk
  BY DEF DInv, IInv
<1>2. ~ InPool(p) /\ UNCHANGED disk
  BY DEF MissFree
<1>3. PICK f \in free_list, failed \in BOOLEAN :
         /\ free_list' = free_list \ {f}
         /\ IF disk_manager_read_page(p, page_count', failed) THEN Load(c, p, f, disk[p], page_table, lru_list)
            ELSE UNCHANGED <<frames, page_table, lru_list, handle>>
  BY DEF MissFree
<1>4. FileGrows
  BY <1>1, <1>2 DEF Fetching, FileGrows, CleanIsOnDisk, BufferTypeOK, Pages
<1>5. f \in Frames /\ ~ Loaded(f) /\ f \notin LoadedFrames
  BY <1>1 DEF BufferTypeOK, FreeFits, LoadedFrames
<1>6. Holders(f) = {}
  BY <1>1, <1>5 DEF Holders, PinnedStays
<1>7. \A g \in Frames \ {f} : IF Loaded(g) THEN g \notin free_list' ELSE g \in free_list' \/ faulty
  BY <1>1, <1>3 DEF FreeFits
<1>8. free_list' \subseteq Frames /\ f \notin free_list'
  BY <1>1, <1>3 DEF BufferTypeOK
<1>9. CASE disk_manager_read_page(p, page_count', failed)
  <2>1. Load(c, p, f, disk[p], page_table, lru_list)
    BY <1>3, <1>9
  <2>2. disk[p] \in Values /\ page_table \in [Slots -> Frames \cup {NoFrame}] /\ disk'[p] = disk[p]
    BY <1>1, <1>2 DEF BufferTypeOK
  <2>3. LoadedFrames = LoadedFrames \ {f}
    BY <1>5
  <2>4. Lists(lru_list, LoadedFrames)
    BY <1>1 DEF LruFits
  <2>5. /\ \A g \in LoadedFrames : page_table[hash_page_id(frames[g].page_id)] = g
        /\ \A s \in Slots : page_table[s] # NoFrame =>
              page_table[s] \in LoadedFrames /\ hash_page_id(frames[page_table[s]].page_id) = s
    BY <1>1 DEF TableFits
  <2>6. \A g \in LoadedFrames : disk'[frames[g].page_id] = disk[frames[g].page_id]
    BY <1>2
  <2>7. p < page_count'
    BY <1>9 DEF disk_manager_read_page
  <2> QED
    BY <1>2, <1>4, <1>5, <1>6, <1>7, <1>8, <2>1, <2>2, <2>3, <2>4, <2>5, <2>6, <2>7, LoadKeeps
<1>10. CASE ~ disk_manager_read_page(p, page_count', failed)
  <2>1. UNCHANGED <<frames, page_table, lru_list, handle>>
    BY <1>3, <1>10
  <2> faulty
    BY <1>10 DEF Fetching, disk_manager_read_page
  <2>2. FreeFits'
    BY <1>5, <1>7, <2>1 DEF FreeFits, Loaded, FileGrows, Fetching
  <2>3. BufferTypeOK'
    BY <1>1, <1>4, <1>8, <2>1 DEF BufferTypeOK, FileGrows
  <2>4. TableFits' /\ LruFits' /\ PinnedStays'
    BY <1>1, <2>1 DEF TableFits, LruFits, PinnedStays, LoadedFrames, Loaded
  <2>5. PinsCounted'
    BY <2>1 DEF DInv, IInv, PinsCounted, Holders, Loaded
  <2>6. CleanIsOnDisk'
    <3> SUFFICES ASSUME NEW g \in LoadedFrames PROVE frames[g].page_id < page_count'
      BY <1>1, <1>2, <1>4, <2>1 DEF CleanIsOnDisk, FileGrows, LoadedFrames, Loaded, Holders
    <3>1. frames[g].page_id < page_count /\ frames[g].page_id \in Pages
      BY <1>1, PageOf DEF CleanIsOnDisk
    <3> QED
      BY <1>1, <3>1 DEF Fetching, BufferTypeOK, Pages
  <2> QED
    BY <1>4, <2>2, <2>3, <2>4, <2>5, <2>6 DEF DInv, IInv
<1> QED
  BY <1>9, <1>10

LEMMA MissEvictKeeps ==
    ASSUME DInv, OnePagePerSlot, NEW c \in Clients, NEW p \in Pages, Fetching(p),
           MissEvict(c, p, page_count')
    PROVE  DInv' /\ FileGrows
<1> DEFINE v == Last(lru_list)
           victim == frames[v]
           table == TableWithout(v)
           S == LoadedFrames \ {v}
<1>1. BufferTypeOK /\ TableFits /\ FreeFits /\ LruFits /\ PinnedStays /\ CleanIsOnDisk /\ IInv
  BY DEF DInv, IInv
<1>2. /\ ~ InPool(p) /\ free_list = {} /\ lru_list # << >> /\ UNCHANGED free_list
      /\ victim.pin_count = 0
      /\ \E failed \in BOOLEAN : IF victim.is_dirty THEN disk_manager_write_page(victim, failed)
                                 ELSE UNCHANGED disk /\ ~ failed
      /\ \E failed \in BOOLEAN :
            IF disk_manager_read_page(p, page_count', failed)
            THEN Load(c, p, v, disk'[p], table, lru_remove_page(victim.page_id))
            ELSE /\ frames' = [frames EXCEPT ![v] = Dangling]
                 /\ page_table' = table
                 /\ lru_list' = lru_remove_page(victim.page_id)
                 /\ UNCHANGED handle
  BY DEF MissEvict, TableWithout
<1>3. v \in LoadedFrames
  BY <1>1, <1>2, VictimIsLoaded
<1>4. victim.page_id \in Pages /\ victim.data \in Values
  BY <1>1, <1>3, PageOf
<1>5. /\ v \in Frames /\ Holders(v) = {}
      /\ table \in [Slots -> Frames \cup {NoFrame}]
      /\ Lists(lru_remove_page(victim.page_id), S)
      /\ \A g \in S : table[hash_page_id(frames[g].page_id)] = g
      /\ \A s \in Slots : table[s] # NoFrame =>
            table[s] \in S /\ hash_page_id(frames[table[s]].page_id) = s
  <2> HIDE DEF v
  <2> QED
    BY <1>1, <1>2, <1>3, FrameOut
<1>6. disk' = disk \/ disk' = [disk EXCEPT ![victim.page_id] = victim.data]
  BY <1>2 DEF disk_manager_write_page
<1> HIDE DEF v, victim, table
<1>7. /\ disk' \in [Pages -> Values]
      /\ \A q \in Pages : q # victim.page_id => disk'[q] = disk[q]
  BY <1>1, <1>4, <1>6 DEF BufferTypeOK
<1>8. \A g \in S : disk'[frames[g].page_id] = disk[frames[g].page_id]
  BY <1>1, <1>3, <1>7, OneFrame, PageOf DEF victim
<1>9. FileGrows
  <2>1. victim.page_id < page_count /\ victim.page_id < page_count'
    BY <1>1, <1>3, <1>4 DEF CleanIsOnDisk, victim, Fetching, Pages, BufferTypeOK
  <2>2. \A q \in Pages : q >= page_count' => disk'[q] = Zero
    <3> SUFFICES ASSUME NEW q \in Pages, q >= page_count' PROVE disk'[q] = Zero
      OBVIOUS
    <3>1. q >= page_count /\ q # victim.page_id
      BY <1>1, <1>4, <2>1 DEF Fetching, Pages, BufferTypeOK
    <3> QED
      BY <1>1, <1>7, <3>1 DEF CleanIsOnDisk
  <2> QED
    BY <1>7, <2>2 DEF FileGrows, Fetching
<1>10. PICK failed \in BOOLEAN :
          IF disk_manager_read_page(p, page_count', failed)
          THEN Load(c, p, v, disk'[p], table, lru_remove_page(victim.page_id))
          ELSE /\ frames' = [frames EXCEPT ![v] = Dangling]
               /\ page_table' = table
               /\ lru_list' = lru_remove_page(victim.page_id)
               /\ UNCHANGED handle
  BY <1>2
<1>11. CASE disk_manager_read_page(p, page_count', failed)
  <2>1. Load(c, p, v, disk'[p], table, lru_remove_page(victim.page_id))
    BY <1>10, <1>11
  <2>2. disk'[p] \in Values
    BY <1>7
  <2>3. free_list' \subseteq Frames /\ v \notin free_list'
    BY <1>2
  <2>4. \A g \in Frames \ {v} : IF Loaded(g) THEN g \notin free_list' ELSE g \in free_list' \/ faulty
    BY <1>1, <1>2 DEF FreeFits
  <2>5. p < page_count'
    BY <1>11 DEF disk_manager_read_page
  <2> HIDE DEF S
  <2> QED
    BY <1>2, <1>5, <1>8, <1>9, <2>1, <2>2, <2>3, <2>4, <2>5, LoadKeeps DEF S
<1>12. CASE ~ disk_manager_read_page(p, page_count', failed)
  <2>1. /\ frames' = [frames EXCEPT ![v] = Dangling]
        /\ page_table' = TableWithout(v)
        /\ lru_list' = lru_remove_page(frames[v].page_id)
        /\ UNCHANGED handle /\ faulty
    BY <1>10, <1>12 DEF victim, table, Fetching, disk_manager_read_page
  <2>2. frames[v].pin_count = 0
    BY <1>2 DEF victim
  <2>3. free_list' \subseteq Frames
    BY <1>2
  <2> QED
    BY <1>2, <1>3, <1>8, <1>9, <2>1, <2>2, <2>3, UnloadKeeps
<1> QED
  BY <1>9, <1>11, <1>12

\* A fetch keeps the invariant, whether it hits, misses or fails.
LEMMA FetchKeeps ==
    ASSUME DInv, OnePagePerSlot, NEW c \in Clients, NEW p \in Pages, Fetching(p),
           fetch_page(c, p, page_count')
    PROVE  DInv' /\ FileGrows
<1>1. CASE UNCHANGED disk
  <2>1. FileGrows
    BY <1>1 DEF Fetching, FileGrows, DInv, IInv, CleanIsOnDisk, BufferTypeOK, Pages
  <2>2. CASE Hit(c, p)
    BY <2>1, <2>2, HitKeeps
  <2>3. CASE MissFree(c, p, page_count') \/ MissEvict(c, p, page_count')
    BY <2>3, MissFreeKeeps, MissEvictKeeps
  <2>4. CASE FetchFails(p)
    <3>1. UNCHANGED <<frames, page_table, free_list, lru_list, disk, handle, faulty>>
      BY <2>4 DEF FetchFails, Fetching
    <3>2. BufferTypeOK'
      BY <2>1, <3>1 DEF DInv, IInv, BufferTypeOK, FileGrows
    <3>3. TableFits' /\ FreeFits' /\ LruFits' /\ PinnedStays'
      BY <3>1 DEF DInv, IInv, TableFits, FreeFits, LruFits, PinnedStays, LoadedFrames, Loaded
    <3>4. PinsCounted'
      BY <3>1 DEF DInv, IInv, PinsCounted, Holders, Loaded
    <3>5. CleanIsOnDisk'
      <4> SUFFICES ASSUME NEW f \in LoadedFrames PROVE frames[f].page_id < page_count'
        BY <2>1, <3>1 DEF DInv, CleanIsOnDisk, FileGrows, LoadedFrames, Loaded, Holders
      <4>1. frames[f].page_id < page_count /\ frames[f].page_id \in Pages
        BY PageOf DEF DInv, IInv, CleanIsOnDisk
      <4> QED
        BY <4>1 DEF Fetching, DInv, IInv, BufferTypeOK, Pages
    <3> QED
      BY <2>1, <3>2, <3>3, <3>4, <3>5 DEF DInv, IInv
  <2> QED
    BY <2>2, <2>3, <2>4 DEF fetch_page
<1>2. CASE ~ UNCHANGED disk
  <2>1. MissEvict(c, p, page_count')
    BY <1>2 DEF fetch_page, Hit, MissFree, FetchFails
  <2> QED
    BY <2>1, MissEvictKeeps
<1> QED
  BY <1>1, <1>2

-----------------------------------------------------------------------------
(* The other steps                                                         *)

\* What steps keep that move no page and give nobody a pointer.
LEMMA StayKeeps ==
    ASSUME DInv, OnePagePerSlot, FileGrows, UNCHANGED <<page_table, free_list, lru_list>>,
           frames' \in [Frames -> Page \cup {NoPage, Dangling}],
           handle' \in [Clients -> Handle \cup {NoHandle}],
           \A g \in Frames : g \notin LoadedFrames => frames'[g] = frames[g],
           \A g \in LoadedFrames : /\ frames'[g] \in Page
                                   /\ frames'[g].page_id = frames[g].page_id
                                   /\ frames'[g].pin_count = Cardinality(Holders(g)'),
           \A c \in Clients : handle'[c] # NoHandle =>
              /\ handle[c] # NoHandle
              /\ handle'[c].frame = handle[c].frame /\ handle'[c].page = handle[c].page,
           \A g \in LoadedFrames :
              ~ frames'[g].is_dirty /\ (\A d \in Holders(g)' : ~ handle'[d].wrote) =>
                 frames'[g].data = disk'[frames[g].page_id]
    PROVE  DInv' /\ LoadedFrames' = LoadedFrames
<1>1. BufferTypeOK /\ IInv /\ LruFits
  BY DEF DInv, IInv
<1>2. \A g \in Frames : Loaded(g)' <=> Loaded(g)
  BY PoolSentinels DEF Loaded, LoadedFrames
<1>3. LoadedFrames' = LoadedFrames /\ TableFits' /\ FreeFits' /\ LruFits'
  BY <1>1, <1>2, SamePages DEF FileGrows, LruFits
<1>4. BufferTypeOK'
  BY <1>1 DEF BufferTypeOK, FileGrows
<1>5. PinnedStays'
  <2> SUFFICES ASSUME NEW d \in Clients, handle'[d] # NoHandle
               PROVE  /\ frames'[handle'[d].frame] \notin {NoPage, Dangling}
                      /\ frames'[handle'[d].frame].page_id = handle'[d].page
    BY DEF PinnedStays, Loaded
  <2>1. handle[d] \in Handle /\ handle[d].frame \in Frames
    BY <1>1 DEF BufferTypeOK, Handle
  <2>2. handle[d].frame \in LoadedFrames /\ frames[handle[d].frame].page_id = handle[d].page
    BY <1>1, <2>1 DEF IInv, PinnedStays, LoadedFrames
  <2> QED
    BY <2>2, PoolSentinels
<1>6. PinsCounted'
  BY <1>2 DEF PinsCounted, LoadedFrames
<1>7. CleanIsOnDisk'
  <2> SUFFICES ASSUME NEW g \in LoadedFrames PROVE frames'[g].page_id < page_count'
    BY <1>3 DEF CleanIsOnDisk, FileGrows
  <2>1. frames[g].page_id < page_count /\ frames[g].page_id \in Pages
    BY <1>1, PageOf DEF DInv, CleanIsOnDisk
  <2> QED
    BY <1>1, <2>1 DEF FileGrows, BufferTypeOK, Pages
<1> QED
  BY <1>3, <1>4, <1>5, <1>6, <1>7 DEF DInv, IInv

\* A client's pointer leads to a loaded frame.
LEMMA HeldFrame ==
    ASSUME IInv, NEW c \in Clients, handle[c] # NoHandle
    PROVE  /\ handle[c] \in Handle /\ handle[c].frame \in LoadedFrames /\ handle[c].page \in Pages
           /\ frames[handle[c].frame].page_id = handle[c].page /\ handle[c].wrote \in BOOLEAN
<1>1. handle[c] \in Handle
  BY DEF IInv, BufferTypeOK
<1> QED
  BY <1>1 DEF IInv, PinnedStays, LoadedFrames, Handle

LEMMA WriteKeeps ==
    ASSUME DInv, OnePagePerSlot, NEW c \in Clients, NEW v \in Values, Write(c, v), UNCHANGED faulty
    PROVE  /\ DInv' /\ LoadedFrames' = LoadedFrames
           /\ \A g \in LoadedFrames : frames'[g].page_id = frames[g].page_id
           /\ \A g \in LoadedFrames : frames'[g].data = IF g = handle[c].frame THEN v ELSE frames[g].data
<1> DEFINE f == handle[c].frame
           new == [frames[f] EXCEPT !.data = v]
<1>1. BufferTypeOK /\ IInv
  BY DEF DInv, IInv
<1>2. /\ handle[c] # NoHandle
      /\ frames' = [frames EXCEPT ![f] = new] /\ handle' = [handle EXCEPT ![c].wrote = TRUE]
      /\ UNCHANGED <<page_table, free_list, lru_list, disk, page_count>>
  BY DEF Write
<1>3. handle[c] \in Handle /\ f \in LoadedFrames /\ f \in Frames
  BY <1>1, <1>2, HeldFrame DEF LoadedFrames
<1>4. /\ new \in Page /\ new.page_id = frames[f].page_id /\ new.data = v
      /\ new.pin_count = frames[f].pin_count
  BY <1>1, <1>3, PageOf DEF Page
<1> HIDE DEF f, new
<1>5. /\ frames' \in [Frames -> Page \cup {NoPage, Dangling}]
      /\ frames'[f] = new /\ \A g \in Frames : g # f => frames'[g] = frames[g]
  BY <1>1, <1>2, <1>3, <1>4 DEF BufferTypeOK
<1>6. /\ handle' \in [Clients -> Handle \cup {NoHandle}]
      /\ handle'[c] \in Handle /\ handle'[c] # NoHandle /\ handle'[c].wrote = TRUE
      /\ handle'[c].frame = f /\ handle'[c].page = handle[c].page
      /\ \A d \in Clients : d # c => handle'[d] = handle[d]
  <2>1. handle'[c] = [handle[c] EXCEPT !.wrote = TRUE]
    BY <1>1, <1>2 DEF BufferTypeOK
  <2>2. /\ handle'[c] \in Handle /\ handle'[c].wrote = TRUE
        /\ handle'[c].frame = f /\ handle'[c].page = handle[c].page
    BY <1>3, <2>1 DEF Handle, f
  <2>3. handle'[c] # NoHandle
    BY <2>2, PoolSentinels
  <2> QED
    BY <1>1, <1>2, <2>2, <2>3 DEF BufferTypeOK
<1>7. \A g \in Frames : Holders(g)' = Holders(g)
  BY <1>2, <1>6 DEF Holders, f
<1>8. \A g \in LoadedFrames : g \in Frames /\ frames[g] \in Page /\ frames[g].pin_count = Cardinality(Holders(g))
  BY <1>1, PageOf DEF IInv, PinsCounted, LoadedFrames
<1>9. \A g \in LoadedFrames : /\ frames'[g] \in Page
                              /\ frames'[g].page_id = frames[g].page_id
                              /\ frames'[g].pin_count = Cardinality(Holders(g)')
  <2> SUFFICES ASSUME NEW g \in LoadedFrames
               PROVE  /\ frames'[g] \in Page
                      /\ frames'[g].page_id = frames[g].page_id
                      /\ frames'[g].pin_count = Cardinality(Holders(g)')
    OBVIOUS
  <2>1. Cardinality(Holders(g)') = Cardinality(Holders(g))
    BY <1>7, <1>8
  <2> QED
    BY <1>4, <1>5, <1>8, <2>1
<1>10. \A g \in LoadedFrames :
          ~ frames'[g].is_dirty /\ (\A d \in Holders(g)' : ~ handle'[d].wrote) =>
             frames'[g].data = disk'[frames[g].page_id]
  <2> SUFFICES ASSUME NEW g \in LoadedFrames,
                      ~ frames'[g].is_dirty, \A d \in Holders(g)' : ~ handle'[d].wrote
               PROVE  frames'[g].data = disk'[frames[g].page_id]
    OBVIOUS
  <2>1. c \in Holders(f)
    BY <1>2 DEF Holders, f
  <2>2. g # f
    BY <1>3, <1>6, <1>7, <2>1
  <2>3. frames'[g] = frames[g] /\ \A d \in Holders(g) : ~ handle[d].wrote
    BY <1>5, <1>6, <1>7, <1>8, <2>2 DEF Holders, f
  <2> QED
    BY <1>2, <2>3 DEF DInv, CleanIsOnDisk
<1>11. FileGrows
  BY <1>1, <1>2 DEF FileGrows, DInv, CleanIsOnDisk, BufferTypeOK
<1>12. DInv' /\ LoadedFrames' = LoadedFrames
  BY <1>2, <1>3, <1>5, <1>6, <1>9, <1>10, <1>11, StayKeeps DEF f
<1> QED
  BY <1>4, <1>5, <1>8, <1>9, <1>12 DEF f

LEMMA UnpinKeeps ==
    ASSUME DInv, OnePagePerSlot, NEW c \in Clients, buffer_pool_unpin_page(c), UNCHANGED faulty
    PROVE  /\ DInv' /\ LoadedFrames' = LoadedFrames
           /\ \A g \in LoadedFrames : frames'[g].page_id = frames[g].page_id
           /\ \A g \in LoadedFrames : frames'[g].data = frames[g].data
<1> DEFINE f == handle[c].frame
           new == [frames[f] EXCEPT !.is_dirty = @ \/ handle[c].wrote,
                                    !.pin_count = IF @ = 0 THEN 0 ELSE @ - 1]
<1>1. BufferTypeOK /\ IInv /\ TableFits
  BY DEF DInv, IInv
<1>2. /\ handle[c] # NoHandle /\ handle' = [handle EXCEPT ![c] = NoHandle]
      /\ UNCHANGED <<page_table, free_list, lru_list, disk, page_count>>
  BY DEF buffer_pool_unpin_page
<1>3. /\ handle[c] \in Handle /\ f \in LoadedFrames /\ f \in Frames
      /\ frames[f].page_id = handle[c].page /\ handle[c].page \in Pages /\ handle[c].wrote \in BOOLEAN
  BY <1>1, <1>2, HeldFrame DEF LoadedFrames
<1>4. InPool(handle[c].page) /\ FrameOf(handle[c].page) = f
  BY <1>1, <1>3, OneFrame
<1>5. frames' = [frames EXCEPT ![f] = new]
  BY <1>4 DEF buffer_pool_unpin_page
<1>6. c \in Holders(f) /\ frames[f].pin_count = Cardinality(Holders(f)) /\ frames[f].pin_count # 0
  BY <1>1, <1>2, <1>3, HoldersFinite DEF Holders, IInv, PinsCounted, LoadedFrames
<1>7. /\ new \in Page /\ new.page_id = frames[f].page_id /\ new.data = frames[f].data
      /\ new.is_dirty = (frames[f].is_dirty \/ handle[c].wrote)
      /\ new.pin_count = frames[f].pin_count - 1
  <2> DEFINE dirty == frames[f].is_dirty \/ handle[c].wrote
             pins == IF frames[f].pin_count = 0 THEN 0 ELSE frames[f].pin_count - 1
  <2>1. frames[f] \in Page /\ frames[f].pin_count \in Nat
    BY <1>1, <1>3, PageOf
  <2>2. dirty \in BOOLEAN /\ pins \in Nat /\ pins = frames[f].pin_count - 1
    BY <1>6, <2>1
  <2>3. new = [[frames[f] EXCEPT !.is_dirty = dirty] EXCEPT !.pin_count = pins]
    BY <2>1 DEF Page
  <2> HIDE DEF dirty, pins, new
  <2>4. /\ new \in Page /\ new.page_id = frames[f].page_id /\ new.data = frames[f].data
        /\ new.is_dirty = dirty /\ new.pin_count = pins
    BY <2>1, <2>2, <2>3 DEF Page
  <2> QED
    BY <2>2, <2>4 DEF dirty
<1> HIDE DEF f, new
<1>8. /\ frames' \in [Frames -> Page \cup {NoPage, Dangling}]
      /\ frames'[f] = new /\ \A g \in Frames : g # f => frames'[g] = frames[g]
  BY <1>1, <1>3, <1>5, <1>7 DEF BufferTypeOK
<1>9. /\ handle' \in [Clients -> Handle \cup {NoHandle}]
      /\ handle'[c] = NoHandle /\ \A d \in Clients : d # c => handle'[d] = handle[d]
  BY <1>1, <1>2 DEF BufferTypeOK
<1>10. \A g \in Frames : Holders(g)' = IF g = f THEN Holders(g) \ {c} ELSE Holders(g)
  BY <1>2, <1>9 DEF Holders, f
<1>11. Cardinality(Holders(f) \ {c}) = Cardinality(Holders(f)) - 1
  BY <1>6, FS_RemoveElement, HoldersFinite
<1>12. \A g \in LoadedFrames : g \in Frames /\ frames[g] \in Page /\ frames[g].pin_count = Cardinality(Holders(g))
  BY <1>1, PageOf DEF IInv, PinsCounted, LoadedFrames
<1>13. \A g \in LoadedFrames : /\ frames'[g] \in Page
                               /\ frames'[g].page_id = frames[g].page_id
                               /\ frames'[g].data = frames[g].data
                               /\ frames'[g].pin_count = Cardinality(Holders(g)')
  <2> SUFFICES ASSUME NEW g \in LoadedFrames
               PROVE  /\ frames'[g] \in Page
                      /\ frames'[g].page_id = frames[g].page_id
                      /\ frames'[g].data = frames[g].data
                      /\ frames'[g].pin_count = Cardinality(Holders(g)')
    OBVIOUS
  <2>1. CASE g = f
    BY <1>3, <1>6, <1>7, <1>8, <1>10, <1>11, <2>1
  <2>2. CASE g # f
    <3>1. Cardinality(Holders(g)') = Cardinality(Holders(g))
      BY <1>10, <1>12, <2>2
    <3> QED
      BY <1>8, <1>12, <2>2, <3>1
  <2> QED
    BY <2>1, <2>2
<1>14. \A g \in LoadedFrames :
          ~ frames'[g].is_dirty /\ (\A d \in Holders(g)' : ~ handle'[d].wrote) =>
             frames'[g].data = disk'[frames[g].page_id]
  <2> SUFFICES ASSUME NEW g \in LoadedFrames,
                      ~ frames'[g].is_dirty, \A d \in Holders(g)' : ~ handle'[d].wrote
               PROVE  frames'[g].data = disk'[frames[g].page_id]
    OBVIOUS
  <2>1. \A d \in Holders(g) : ~ handle[d].wrote
    <3> SUFFICES ASSUME NEW d \in Holders(g) PROVE ~ handle[d].wrote
      OBVIOUS
    <3>1. CASE d = c
      <4>1. g = f
        BY <3>1 DEF Holders, f
      <4> QED
        BY <1>7, <1>8, <3>1, <4>1
    <3>2. CASE d # c
      <4>1. d \in Holders(g)' /\ handle'[d] = handle[d]
        BY <1>9, <1>10, <1>12, <3>2 DEF Holders
      <4> QED
        BY <4>1
    <3> QED
      BY <3>1, <3>2
  <2>2. ~ frames[g].is_dirty
    BY <1>7, <1>8, <1>12
  <2> QED
    BY <1>2, <1>13, <2>1, <2>2 DEF DInv, CleanIsOnDisk
<1>15. FileGrows
  BY <1>1, <1>2 DEF FileGrows, DInv, CleanIsOnDisk, BufferTypeOK
<1>16. DInv' /\ LoadedFrames' = LoadedFrames
  <2>1. \A g \in Frames : g \notin LoadedFrames => frames'[g] = frames[g]
    BY <1>3, <1>8
  <2>2. \A d \in Clients : handle'[d] # NoHandle =>
           /\ handle[d] # NoHandle
           /\ handle'[d].frame = handle[d].frame /\ handle'[d].page = handle[d].page
    BY <1>9
  <2> QED
    BY <1>2, <1>8, <1>9, <1>13, <1>14, <1>15, <2>1, <2>2, StayKeeps
<1> QED
  BY <1>13, <1>16

LEMMA FlushPageKeeps ==
    ASSUME DInv, OnePagePerSlot, NEW p \in Pages, buffer_pool_flush_page(p), UNCHANGED faulty
    PROVE  /\ DInv' /\ LoadedFrames' = LoadedFrames
           /\ \A g \in LoadedFrames : frames'[g].page_id = frames[g].page_id
           /\ \A g \in LoadedFrames : frames'[g].data = frames[g].data
           /\ \A q \in Pages : ~ InPool(q) => disk'[q] = disk[q]
<1> DEFINE f == FrameOf(p)
<1>1. BufferTypeOK /\ IInv /\ TableFits
  BY DEF DInv, IInv
<1>2. /\ InPool(p) /\ UNCHANGED <<page_table, free_list, lru_list, page_count, handle>>
      /\ \E failed \in BOOLEAN : disk_manager_write_page(frames[f], failed)
                                 /\ frames' = [frames EXCEPT ![f].is_dirty = failed]
  BY DEF buffer_pool_flush_page
<1>3. f \in LoadedFrames /\ f \in Frames /\ frames[f].page_id = p
  BY <1>1, <1>2, OneFrame DEF LoadedFrames
<1> HIDE DEF f
<1>4. PICK failed \in BOOLEAN :
         /\ disk' = IF failed THEN disk ELSE [disk EXCEPT ![p] = frames[f].data]
         /\ frames' = [frames EXCEPT ![f].is_dirty = failed]
  BY <1>2, <1>3 DEF disk_manager_write_page
<1> DEFINE new == [frames[f] EXCEPT !.is_dirty = failed]
<1>5. /\ new \in Page /\ new.page_id = p /\ new.data = frames[f].data
      /\ new.is_dirty = failed /\ new.pin_count = frames[f].pin_count
  BY <1>1, <1>3, PageOf DEF Page
<1>6. frames' = [frames EXCEPT ![f] = new]
  BY <1>4
<1> HIDE DEF new
<1>7. /\ frames' \in [Frames -> Page \cup {NoPage, Dangling}]
      /\ frames'[f] = new /\ \A g \in Frames : g # f => frames'[g] = frames[g]
  BY <1>1, <1>3, <1>5, <1>6 DEF BufferTypeOK
<1>8. /\ disk' \in [Pages -> Values]
      /\ \A q \in Pages : q # p => disk'[q] = disk[q]
      /\ failed \/ disk'[p] = frames[f].data
  BY <1>1, <1>3, <1>4, PageOf DEF BufferTypeOK
<1>9. \A g \in LoadedFrames : g \in Frames /\ frames[g] \in Page /\ frames[g].pin_count = Cardinality(Holders(g))
  BY <1>1, PageOf DEF IInv, PinsCounted, LoadedFrames
<1>10. \A g \in LoadedFrames : /\ frames'[g] \in Page
                               /\ frames'[g].page_id = frames[g].page_id
                               /\ frames'[g].data = frames[g].data
                               /\ frames'[g].pin_count = Cardinality(Holders(g)')
  <2> SUFFICES ASSUME NEW g \in LoadedFrames
               PROVE  /\ frames'[g] \in Page
                      /\ frames'[g].page_id = frames[g].page_id
                      /\ frames'[g].data = frames[g].data
                      /\ frames'[g].pin_count = Cardinality(Holders(g)')
    OBVIOUS
  <2>1. Holders(g)' = Holders(g)
    BY <1>2 DEF Holders
  <2>2. Cardinality(Holders(g)') = Cardinality(Holders(g))
    BY <2>1
  <2> QED
    BY <1>3, <1>5, <1>7, <1>9, <2>2
<1>11. \A g \in LoadedFrames :
          ~ frames'[g].is_dirty /\ (\A d \in Holders(g)' : ~ handle'[d].wrote) =>
             frames'[g].data = disk'[frames[g].page_id]
  <2> SUFFICES ASSUME NEW g \in LoadedFrames,
                      ~ frames'[g].is_dirty, \A d \in Holders(g)' : ~ handle'[d].wrote
               PROVE  frames'[g].data = disk'[frames[g].page_id]
    OBVIOUS
  <2>1. CASE g = f
    BY <1>3, <1>5, <1>7, <1>8, <2>1
  <2>2. CASE g # f
    <3>1. frames'[g] = frames[g] /\ \A d \in Holders(g) : ~ handle[d].wrote
      BY <1>2, <1>7, <1>9, <2>2 DEF Holders
    <3>2. frames[g].page_id \in Pages /\ frames[g].page_id # p
      BY <1>1, <1>3, <2>2, PageOf, OneFrame
    <3> QED
      BY <1>8, <3>1, <3>2 DEF DInv, CleanIsOnDisk
  <2> QED
    BY <2>1, <2>2
<1>12. FileGrows
  <2>1. p < page_count
    BY <1>3 DEF DInv, CleanIsOnDisk
  <2>2. \A q \in Pages : q >= page_count' => disk'[q] = Zero
    <3> SUFFICES ASSUME NEW q \in Pages, q >= page_count PROVE disk'[q] = Zero
      BY <1>2
    <3>1. q # p
      BY <1>1, <2>1 DEF BufferTypeOK, Pages
    <3> QED
      BY <1>8, <3>1 DEF DInv, CleanIsOnDisk
  <2> QED
    BY <1>1, <1>2, <1>8, <2>2 DEF FileGrows, BufferTypeOK
<1>13. DInv' /\ LoadedFrames' = LoadedFrames
  <2>1. \A g \in Frames : g \notin LoadedFrames => frames'[g] = frames[g]
    BY <1>3, <1>7
  <2>2. handle' \in [Clients -> Handle \cup {NoHandle}]
    BY <1>1, <1>2 DEF BufferTypeOK
  <2> QED
    BY <1>2, <1>7, <1>10, <1>11, <1>12, <2>1, <2>2, StayKeeps
<1> QED
  BY <1>2, <1>8, <1>10, <1>13

\* What the file holds when the frames below stop were written.
LEMMA FlushedBelow ==
    ASSUME DInv, OnePagePerSlot, NEW stop \in 0 .. pool_size, FlushBelow(stop)
    PROVE  /\ disk' \in [Pages -> Values]
           /\ \A f \in LoadedFrames : disk'[frames[f].page_id] =
                 IF f < stop /\ frames[f].is_dirty THEN frames[f].data ELSE disk[frames[f].page_id]
           /\ \A p \in Pages : ~ InPool(p) => disk'[p] = disk[p]
           /\ stop < pool_size => faulty
<1> DEFINE written(p) == {f \in 0 .. stop - 1 : Dirty(f) /\ frames[f].page_id = p}
<1>1. BufferTypeOK /\ TableFits /\ stop \in Nat /\ pool_size \in Nat
  BY PoolConstants DEF DInv, IInv
<1>2. /\ disk' = [p \in Pages |-> IF written(p) = {} THEN disk[p] ELSE frames[Max(written(p))].data]
      /\ stop < pool_size => faulty
  BY DEF FlushBelow
<1>3. \A f \in 0 .. stop - 1 : f \in Frames
  BY <1>1 DEF Frames
<1>4. \A f \in 0 .. stop - 1 : Dirty(f) <=> f \in LoadedFrames /\ frames[f].is_dirty
  BY <1>3 DEF Dirty, LoadedFrames
<1>5. \A f \in LoadedFrames : f \in Frames /\ frames[f].page_id \in Pages /\ (f < stop <=> f \in 0 .. stop - 1)
  BY <1>1, PageOf DEF LoadedFrames, Frames
<1>6. ASSUME NEW f \in LoadedFrames
      PROVE  disk'[frames[f].page_id] =
                IF f < stop /\ frames[f].is_dirty THEN frames[f].data ELSE disk[frames[f].page_id]
  <2> DEFINE p == frames[f].page_id
  <2>1. \A g \in written(p) : g = f
    BY <1>1, <1>4, OneFrame
  <2>2. p \in Pages
    BY <1>5
  <2>3. disk'[p] = IF written(p) = {} THEN disk[p] ELSE frames[Max(written(p))].data
    BY <1>2, <2>2
  <2>4. CASE f < stop /\ frames[f].is_dirty
    <3>1. f \in written(p)
      BY <1>4, <1>5, <2>4
    <3>2. written(p) = {f} /\ f \in Int
      BY <2>1, <3>1
    <3>3. Max(written(p)) = f
      BY <3>2 DEF Max
    <3> QED
      BY <2>3, <2>4, <3>1, <3>3
  <2>5. CASE ~ (f < stop /\ frames[f].is_dirty)
    <3>1. f \notin written(p)
      BY <1>4, <1>5, <2>5
    <3>2. written(p) = {}
      BY <2>1, <3>1
    <3> QED
      BY <2>3, <2>5, <3>2
  <2> QED
    BY <2>4, <2>5
<1>7. ASSUME NEW p \in Pages, ~ InPool(p) PROVE disk'[p] = disk[p]
  <2>1. written(p) = {}
    BY <1>1, <1>4, <1>7, OneFrame
  <2> QED
    BY <1>2, <2>1
<1>8. ASSUME NEW p \in Pages PROVE disk'[p] \in Values
  <2>1. CASE InPool(p)
    <3>1. PICK f \in LoadedFrames : frames[f].page_id = p
      BY <1>1, <2>1, OneFrame
    <3> QED
      BY <1>1, <1>6, <3>1, PageOf DEF BufferTypeOK
  <2>2. CASE ~ InPool(p)
    BY <1>1, <1>7, <2>2 DEF BufferTypeOK
  <2> QED
    BY <2>1, <2>2
<1>9. disk' \in [Pages -> Values]
  <2>1. disk' = [p \in Pages |-> disk'[p]]
    BY <1>2
  <2> QED
    BY <1>8, <2>1
<1> QED
  BY <1>2, <1>6, <1>7, <1>9

\* What flushing leaves behind the end of the file.
LEMMA FlushedFile ==
    ASSUME DInv, OnePagePerSlot, NEW stop \in 0 .. pool_size, FlushBelow(stop),
           UNCHANGED <<page_count, faulty>>
    PROVE  FileGrows
<1>1. BufferTypeOK /\ TableFits
  BY DEF DInv, IInv
<1>2. \A q \in Pages : q >= page_count' => disk'[q] = Zero
  <2> SUFFICES ASSUME NEW q \in Pages, q >= page_count PROVE disk'[q] = Zero
    OBVIOUS
  <2>1. ~ InPool(q)
    <3> SUFFICES ASSUME InPool(q) PROVE FALSE
      OBVIOUS
    <3>1. PICK f \in LoadedFrames : frames[f].page_id = q
      BY <1>1, OneFrame
    <3>2. q < page_count
      BY <3>1 DEF DInv, CleanIsOnDisk
    <3> QED
      BY <1>1, <3>2 DEF BufferTypeOK, Pages
  <2> QED
    BY <2>1, FlushedBelow DEF DInv, CleanIsOnDisk
<1> QED
  BY <1>1, <1>2, FlushedBelow DEF FileGrows, BufferTypeOK

LEMMA FlushAllKeeps ==
    ASSUME DInv, OnePagePerSlot, buffer_pool_flush_all, UNCHANGED faulty
    PROVE  /\ DInv' /\ LoadedFrames' = LoadedFrames
           /\ \A g \in LoadedFrames : frames'[g].page_id = frames[g].page_id
           /\ \A g \in LoadedFrames : frames'[g].data = frames[g].data
           /\ \A q \in Pages : ~ InPool(q) => disk'[q] = disk[q]
<1>1. BufferTypeOK /\ IInv /\ pool_size \in Nat
  BY PoolConstants DEF DInv, IInv
<1>2. PICK stop \in 0 .. pool_size :
         /\ FlushBelow(stop)
         /\ frames' = [f \in Frames |-> IF f < stop /\ Dirty(f)
                                        THEN [frames[f] EXCEPT !.is_dirty = FALSE]
                                        ELSE frames[f]]
  BY DEF buffer_pool_flush_all
<1>3. UNCHANGED <<page_table, free_list, lru_list, page_count, handle, faulty>>
  BY DEF buffer_pool_flush_all
<1>4. /\ disk' \in [Pages -> Values]
      /\ \A f \in LoadedFrames : disk'[frames[f].page_id] =
            IF f < stop /\ frames[f].is_dirty THEN frames[f].data ELSE disk[frames[f].page_id]
      /\ \A p \in Pages : ~ InPool(p) => disk'[p] = disk[p]
  BY <1>2, FlushedBelow
<1>5. FileGrows
  BY <1>2, <1>3, FlushedFile
<1>6. \A g \in LoadedFrames :
         /\ g \in Frames /\ frames[g] \in Page /\ frames[g].is_dirty \in BOOLEAN
         /\ frames[g].pin_count = Cardinality(Holders(g))
  BY <1>1, PageOf DEF IInv, PinsCounted, LoadedFrames
<1>7. ASSUME NEW g \in LoadedFrames
      PROVE  /\ frames'[g] \in Page
             /\ frames'[g].page_id = frames[g].page_id /\ frames'[g].data = frames[g].data
             /\ frames'[g].pin_count = frames[g].pin_count
             /\ frames'[g].is_dirty = (frames[g].is_dirty /\ ~ g < stop)
  <2>1. frames'[g] = IF g < stop /\ frames[g].is_dirty
                     THEN [frames[g] EXCEPT !.is_dirty = FALSE] ELSE frames[g]
    BY <1>2, <1>6 DEF Dirty, LoadedFrames
  <2>2. CASE g < stop /\ frames[g].is_dirty
    <3>1. frames'[g] = [frames[g] EXCEPT !.is_dirty = FALSE]
      BY <2>1, <2>2
    <3> QED
      BY <1>6, <2>2, <3>1 DEF Page
  <2>3. CASE ~ (g < stop /\ frames[g].is_dirty)
    <3>1. frames'[g] = frames[g]
      BY <2>1, <2>3
    <3> QED
      BY <1>6, <2>3, <3>1
  <2> QED
    BY <2>2, <2>3
<1>8. \A g \in Frames : g \notin LoadedFrames => frames'[g] = frames[g]
  BY <1>2 DEF Dirty, LoadedFrames
<1>9. frames' \in [Frames -> Page \cup {NoPage, Dangling}]
  <2>1. \A g \in Frames : frames'[g] \in Page \cup {NoPage, Dangling}
    BY <1>1, <1>7, <1>8 DEF BufferTypeOK
  <2>2. frames' = [g \in Frames |-> frames'[g]]
    BY <1>2
  <2> QED
    BY <2>1, <2>2
<1>10. \A g \in LoadedFrames : frames'[g].pin_count = Cardinality(Holders(g)')
  <2> SUFFICES ASSUME NEW g \in LoadedFrames
               PROVE  frames'[g].pin_count = Cardinality(Holders(g)')
    OBVIOUS
  <2>1. Holders(g)' = Holders(g)
    BY <1>3 DEF Holders
  <2>2. Cardinality(Holders(g)') = Cardinality(Holders(g))
    BY <2>1
  <2> QED
    BY <1>6, <1>7, <2>2
<1>11. \A g \in LoadedFrames :
          ~ frames'[g].is_dirty /\ (\A d \in Holders(g)' : ~ handle'[d].wrote) =>
             frames'[g].data = disk'[frames[g].page_id]
  <2> SUFFICES ASSUME NEW g \in LoadedFrames,
                      ~ frames'[g].is_dirty, \A d \in Holders(g)' : ~ handle'[d].wrote
               PROVE  frames'[g].data = disk'[frames[g].page_id]
    OBVIOUS
  <2>1. CASE g < stop /\ frames[g].is_dirty
    BY <1>4, <1>7, <2>1
  <2>2. CASE ~ (g < stop /\ frames[g].is_dirty)
    <3>1. ~ frames[g].is_dirty
      BY <1>7, <2>2
    <3>2. \A d \in Holders(g) : ~ handle[d].wrote
      BY <1>3 DEF Holders
    <3>3. frames[g].data = disk[frames[g].page_id]
      BY <3>1, <3>2 DEF DInv, CleanIsOnDisk
    <3> QED
      BY <1>4, <1>7, <2>2, <3>3
  <2> QED
    BY <2>1, <2>2
<1>12. DInv' /\ LoadedFrames' = LoadedFrames
  <2>1. handle' \in [Clients -> Handle \cup {NoHandle}]
    BY <1>1, <1>3 DEF BufferTypeOK
  <2> QED
    BY <1>3, <1>5, <1>7, <1>8, <1>9, <1>10, <1>11, <2>1, StayKeeps
<1> QED
  BY <1>4, <1>7, <1>12

\* A deleted page leaves the pool and the file as it is.
LEMMA DeleteKeeps ==
    ASSUME DInv, OnePagePerSlot, NEW p \in Pages, buffer_pool_delete_page(p), UNCHANGED faulty
    PROVE  /\ DInv' /\ LoadedFrames' = LoadedFrames \ {FrameOf(p)}
           /\ FrameOf(p) \in LoadedFrames /\ frames[FrameOf(p)].page_id = p
           /\ Holders(FrameOf(p)) = {}
           /\ \A g \in LoadedFrames' : frames'[g] = frames[g]
<1> DEFINE f == FrameOf(p)
<1>1. BufferTypeOK /\ IInv /\ TableFits /\ FreeFits
  BY DEF DInv, IInv
<1>2. /\ InPool(p) /\ frames[f].pin_count = 0
      /\ lru_list' = lru_remove_page(p)
      /\ page_table' = [page_table EXCEPT ![hash_page_id(p)] = NoFrame]
      /\ frames' = [frames EXCEPT ![f] = NoPage]
      /\ free_list' = free_list \cup {f}
      /\ UNCHANGED <<disk, page_count, handle, faulty>>
  BY DEF buffer_pool_delete_page
<1>3. f \in LoadedFrames /\ f \in Frames /\ frames[f].page_id = p
  BY <1>1, <1>2, OneFrame DEF LoadedFrames
<1> HIDE DEF f
<1>4. page_table' = TableWithout(f) /\ lru_list' = lru_remove_page(frames[f].page_id)
  BY <1>2, <1>3 DEF TableWithout
<1>5. FileGrows
  BY <1>1, <1>2 DEF FileGrows, DInv, CleanIsOnDisk, BufferTypeOK
<1>6. /\ free_list' \subseteq Frames /\ f \in free_list'
      /\ \A g \in Frames \ {f} : g \in free_list' <=> g \in free_list
  BY <1>1, <1>2, <1>3 DEF BufferTypeOK
<1>7. DInv'
  <2>1. NoPage \in {NoPage, Dangling}
    OBVIOUS
  <2>2. f \in free_list' \/ faulty
    BY <1>6
  <2>3. \A g \in LoadedFrames \ {f} : disk'[frames[g].page_id] = disk[frames[g].page_id]
    BY <1>2
  <2>4. UNCHANGED handle
    BY <1>2
  <2> QED
    BY <1>2, <1>3, <1>4, <1>5, <1>6, <2>1, <2>2, <2>3, <2>4, UnloadKeeps
<1>8. frames'[f] = NoPage /\ \A g \in Frames : g # f => frames'[g] = frames[g]
  BY <1>1, <1>2, <1>3 DEF BufferTypeOK
<1>9. LoadedFrames' = LoadedFrames \ {f}
  BY <1>8 DEF LoadedFrames, Loaded
<1>10. Holders(f) = {}
  BY <1>1, <1>2, <1>3, FrameOut
<1> QED
  BY <1>3, <1>7, <1>8, <1>9, <1>10 DEF f, LoadedFrames

\* An empty pool fits any file that has zeros where it has yet to grow.
LEMMA EmptyPool ==
    ASSUME frames = [f \in Frames |-> NoPage], page_table = [s \in Slots |-> NoFrame],
           free_list = Frames, lru_list = << >>, handle = [c \in Clients |-> NoHandle],
           disk \in [Pages -> Values], page_count \in 0 .. MAX_PAGES, faulty \in BOOLEAN,
           \A p \in Pages : p >= page_count => disk[p] = Zero
    PROVE  DInv /\ LoadedFrames = {}
<1>1. \A f \in Frames : ~ Loaded(f)
  BY DEF Loaded
<1>2. LoadedFrames = {}
  BY <1>1 DEF LoadedFrames
<1>3. BufferTypeOK
  <2>1. lru_list \in Seq(Frames)
    OBVIOUS
  <2> QED
    BY <2>1 DEF BufferTypeOK
<1>4. TableFits
  BY <1>2 DEF TableFits
<1>5. FreeFits
  BY <1>1 DEF FreeFits
<1>6. LruFits
  BY <1>2 DEF LruFits, Lists
<1>7. PinnedStays /\ PinsCounted /\ CleanIsOnDisk
  BY <1>1, <1>2 DEF PinnedStays, PinsCounted, CleanIsOnDisk
<1> QED
  BY <1>2, <1>3, <1>4, <1>5, <1>6, <1>7 DEF DInv, IInv

LEMMA InitHolds == BufferInit => DInv /\ LoadedFrames = {}
<1> SUFFICES ASSUME BufferInit PROVE DInv /\ LoadedFrames = {}
  OBVIOUS
<1>1. disk \in [Pages -> Values] /\ page_count \in 0 .. MAX_PAGES /\ \A p \in Pages : disk[p] = Zero
  BY PoolConstants DEF BufferInit
<1> QED
  BY <1>1, EmptyPool DEF BufferInit

\* A pool that is closed leaves an empty one, and the pages on disk.
LEMMA RestartKeeps ==
    ASSUME DInv, OnePagePerSlot, Restart, UNCHANGED faulty
    PROVE  /\ DInv' /\ LoadedFrames' = {} /\ handle' = handle
           /\ \A f \in LoadedFrames : ~ faulty => disk'[frames[f].page_id] = frames[f].data
           /\ \A q \in Pages : ~ InPool(q) => disk'[q] = disk[q]
<1>1. BufferTypeOK /\ IInv /\ pool_size \in Nat
  BY PoolConstants DEF DInv, IInv
<1>2. PICK stop \in 0 .. pool_size : FlushBelow(stop)
  BY DEF Restart
<1>3. /\ frames' = [f \in Frames |-> NoPage] /\ page_table' = [s \in Slots |-> NoFrame]
      /\ free_list' = Frames /\ lru_list' = << >>
      /\ UNCHANGED <<page_count, handle, faulty>>
      /\ \A c \in Clients : handle[c] = NoHandle
  BY DEF Restart
<1>4. handle' = [c \in Clients |-> NoHandle]
  BY <1>1, <1>3 DEF BufferTypeOK
<1>5. FileGrows
  BY <1>2, <1>3, FlushedFile
<1>6. DInv' /\ LoadedFrames' = {}
  <2>1. /\ \A f \in Frames : frames'[f] = NoPage
        /\ \A f \in Frames : ~ Loaded(f)'
    BY <1>3 DEF Loaded
  <2>2. LoadedFrames' = {}
    BY <2>1 DEF LoadedFrames
  <2>3. BufferTypeOK'
    <3>1. lru_list' \in Seq(Frames)
      BY <1>3
    <3> QED
      BY <1>1, <1>3, <1>4, <1>5, <3>1 DEF BufferTypeOK, FileGrows
  <2>4. TableFits'
    BY <1>3, <2>2 DEF TableFits
  <2>5. FreeFits'
    BY <1>3, <2>1 DEF FreeFits
  <2>6. LruFits'
    BY <1>3, <2>2 DEF LruFits, Lists
  <2>7. PinnedStays'
    BY <1>4 DEF PinnedStays
  <2>8. PinsCounted'
    BY <2>1 DEF PinsCounted
  <2>9. CleanIsOnDisk'
    BY <1>5, <2>2 DEF CleanIsOnDisk, FileGrows
  <2> QED
    BY <2>2, <2>3, <2>4, <2>5, <2>6, <2>7, <2>8, <2>9 DEF DInv, IInv
<1>7. ASSUME NEW f \in LoadedFrames, ~ faulty PROVE disk'[frames[f].page_id] = frames[f].data
  <2>1. stop = pool_size /\ f < stop
    BY <1>1, <1>2, <1>7, FlushedBelow DEF LoadedFrames, Frames
  <2>2. disk'[frames[f].page_id] =
           IF frames[f].is_dirty THEN frames[f].data ELSE disk[frames[f].page_id]
    BY <1>2, <2>1, FlushedBelow
  <2>3. Holders(f) = {}
    BY <1>3 DEF Holders
  <2>4. ~ frames[f].is_dirty => frames[f].data = disk[frames[f].page_id]
    BY <1>7, <2>3 DEF DInv, CleanIsOnDisk
  <2> QED
    BY <2>2, <2>4
<1>8. \A q \in Pages : ~ InPool(q) => disk'[q] = disk[q]
  BY <1>2, FlushedBelow
<1> QED
  BY <1>3, <1>6, <1>7, <1>8

\* A fetch, of a page that exists or of a new one, is a fetch from the file of
\* the next state.
LEMMA FetchStep ==
    ASSUME DInv, NEW c \in Clients, UNCHANGED faulty
    PROVE  /\ \A p \in Pages : buffer_pool_fetch_page(c, p) =>
                 Fetching(p) /\ fetch_page(c, p, page_count') /\ page_count' = page_count
                 /\ (~ faulty => p \in 0 .. page_count - 1)
           /\ buffer_pool_new_page(c) =>
                 /\ page_count \in Pages /\ Fetching(page_count)
                 /\ fetch_page(c, page_count, page_count') /\ page_count' = page_count + 1
                 /\ page_count < MAX_PAGES
<1>1. page_count \in 0 .. MAX_PAGES /\ MAX_PAGES \in Nat
  BY PoolConstants DEF DInv, IInv, BufferTypeOK
<1>2. ASSUME NEW p \in Pages, buffer_pool_fetch_page(c, p)
      PROVE  /\ Fetching(p) /\ fetch_page(c, p, page_count') /\ page_count' = page_count
             /\ ~ faulty => p \in 0 .. page_count - 1
  <2>1. page_count' = page_count /\ (p < page_count \/ faulty) /\ fetch_page(c, p, page_count)
    BY <1>2 DEF buffer_pool_fetch_page
  <2>2. fetch_page(c, p, page_count')
    BY <2>1
  <2> QED
    BY <1>1, <2>1, <2>2 DEF Fetching, Pages
<1>3. ASSUME buffer_pool_new_page(c)
      PROVE  /\ page_count \in Pages /\ Fetching(page_count)
             /\ fetch_page(c, page_count, page_count') /\ page_count' = page_count + 1
             /\ page_count < MAX_PAGES
  <2>1. /\ page_count < MAX_PAGES /\ page_count' = page_count + 1
        /\ fetch_page(c, page_count, page_count + 1)
    BY <1>3 DEF buffer_pool_new_page
  <2>2. fetch_page(c, page_count, page_count')
    BY <2>1
  <2> QED
    BY <1>1, <2>1, <2>2 DEF Fetching, Pages
<1> QED
  BY <1>2, <1>3

LEMMA NextKeeps ==
    ASSUME DInv, OnePagePerSlot, [BufferNext]_bufferVars
    PROVE  DInv'
<1>1. CASE UNCHANGED bufferVars
  <2>1. BufferTypeOK' /\ TableFits' /\ FreeFits' /\ LruFits' /\ PinnedStays' /\ CleanIsOnDisk'
    BY <1>1 DEF DInv, IInv, BufferTypeOK, TableFits, FreeFits, LruFits, PinnedStays, CleanIsOnDisk,
       LoadedFrames, Loaded, Holders, bufferVars
  <2>2. PinsCounted'
    BY <1>1 DEF DInv, IInv, PinsCounted, Holders, Loaded, bufferVars
  <2> QED
    BY <2>1, <2>2 DEF DInv, IInv
<1>2. CASE BufferNext
  <2>1. UNCHANGED faulty
    BY <1>2 DEF BufferNext
  <2>2. ASSUME NEW c \in Clients, NEW p \in Pages, buffer_pool_fetch_page(c, p) PROVE DInv'
    BY <2>1, <2>2, FetchStep, FetchKeeps
  <2>3. ASSUME NEW c \in Clients, buffer_pool_new_page(c) PROVE DInv'
    BY <2>1, <2>3, FetchStep, FetchKeeps
  <2>4. ASSUME NEW c \in Clients, NEW v \in Values, Write(c, v) PROVE DInv'
    BY <2>1, <2>4, WriteKeeps
  <2>5. ASSUME NEW c \in Clients, buffer_pool_unpin_page(c) PROVE DInv'
    BY <2>1, <2>5, UnpinKeeps
  <2>6. ASSUME NEW p \in Pages, buffer_pool_flush_page(p) PROVE DInv'
    BY <2>1, <2>6, FlushPageKeeps
  <2>7. ASSUME NEW p \in Pages, buffer_pool_delete_page(p) PROVE DInv'
    BY <2>1, <2>7, DeleteKeeps
  <2>8. CASE buffer_pool_flush_all
    BY <2>1, <2>8, FlushAllKeeps
  <2>9. CASE Restart
    BY <2>1, <2>9, RestartKeeps
  <2> QED
    BY <1>2, <2>2, <2>3, <2>4, <2>5, <2>6, <2>7, <2>8, <2>9 DEF BufferNext, PoolStep
<1> QED
  BY <1>1, <1>2

-----------------------------------------------------------------------------
(* The theorems                                                            *)

\* A file of no more pages than the table has slots has no two pages of a slot.
LEMMA SmallFiles ==
    ASSUME MAX_PAGES <= PAGE_TABLE_SIZE
    PROVE  OnePagePerSlot
<1> SUFFICES ASSUME NEW p \in Pages PROVE hash_page_id(p) = p
  BY DEF OnePagePerSlot
<1>1. p \in Nat /\ p < PAGE_TABLE_SIZE /\ PAGE_TABLE_SIZE \in Nat
  BY PoolConstants DEF Pages
<1> QED
  BY <1>1 DEF hash_page_id

LEMMA Inductive ==
    ASSUME OnePagePerSlot
    PROVE  BufferSpec => []DInv
<1>1. BufferInit => DInv
  BY InitHolds
<1>2. DInv /\ [BufferNext]_bufferVars => DInv'
  BY NextKeeps
<1> QED
  BY <1>1, <1>2, PTL DEF BufferSpec

\* While clients come and go, every page is where fetch and eviction look for it,
\* the pin counts are the numbers of holders, and a page that is held stays in
\* its frame (buffer_pool.c:153-388), for any clients, frames and pages; and the
\* variables keep their types, a pin count never goes below zero.
THEOREM PagesAreProtected ==
    ASSUME OnePagePerSlot
    PROVE  BufferSpec => [](BufferTypeOK /\ PinsProtectPages)
<1>1. DInv => PagesReachable
  <2> SUFFICES ASSUME DInv PROVE
         /\ \A f \in Frames : IF Loaded(f)
              THEN /\ f \notin free_list
                   /\ page_table[hash_page_id(frames[f].page_id)] = f
                   /\ InLru(f)
              ELSE f \in free_list \/ faulty
         /\ \A s \in Slots : page_table[s] # NoFrame =>
               Loaded(page_table[s]) /\ hash_page_id(frames[page_table[s]].page_id) = s
         /\ \A i \in 1 .. Len(lru_list) : Loaded(lru_list[i])
         /\ \A i, j \in 1 .. Len(lru_list) : lru_list[i] = lru_list[j] => i = j
    BY DEF PagesReachable
  <2>1. \A f \in LoadedFrames : InLru(f)
    BY DEF DInv, IInv, LruFits, Lists, InLru
  <2>2. \A f \in Frames : IF Loaded(f)
              THEN /\ f \notin free_list
                   /\ page_table[hash_page_id(frames[f].page_id)] = f
                   /\ InLru(f)
              ELSE f \in free_list \/ faulty
    BY <2>1 DEF DInv, IInv, FreeFits, TableFits, LoadedFrames
  <2>3. \A s \in Slots : page_table[s] # NoFrame =>
               Loaded(page_table[s]) /\ hash_page_id(frames[page_table[s]].page_id) = s
    BY DEF DInv, IInv, TableFits, LoadedFrames
  <2>4. /\ \A i \in 1 .. Len(lru_list) : Loaded(lru_list[i])
        /\ \A i, j \in 1 .. Len(lru_list) : lru_list[i] = lru_list[j] => i = j
    BY DEF DInv, IInv, LruFits, Lists, LoadedFrames
  <2> QED
    BY <2>2, <2>3, <2>4
<1>2. DInv => ChangesAreMarked
  BY DEF DInv, CleanIsOnDisk, ChangesAreMarked, LoadedFrames
<1>3. DInv => BufferTypeOK /\ PinsProtectPages
  BY <1>1, <1>2 DEF PinsProtectPages, DInv, IInv
<1> QED
  BY <1>3, Inductive, PTL

-----------------------------------------------------------------------------
(* The cache is transparent                                                *)

\* A loaded page is what its frame has, another what the file has.
ContentIs ==
    /\ \A f \in LoadedFrames : ContentOf(frames[f].page_id) = frames[f].data
    /\ \A q \in Pages : (\A f \in LoadedFrames : frames[f].page_id # q) => ContentOf(q) = disk[q]

LEMMA ContentHolds ==
    ASSUME OnePagePerSlot
    PROVE  DInv => ContentIs
<1> SUFFICES ASSUME DInv PROVE ContentIs
  OBVIOUS
<1>1. BufferTypeOK /\ TableFits
  BY DEF DInv, IInv
<1>2. ASSUME NEW f \in LoadedFrames PROVE ContentOf(frames[f].page_id) = frames[f].data
  <2> DEFINE q == frames[f].page_id
             g == CHOOSE h \in Frames : Loaded(h) /\ frames[h].page_id = q
  <2>1. f \in Frames /\ Loaded(f)
    BY DEF LoadedFrames
  <2>2. g \in LoadedFrames /\ frames[g].page_id = q
    BY <2>1 DEF LoadedFrames
  <2>3. g = f
    BY <1>1, <2>2, OneFrame
  <2> QED
    BY <2>1, <2>3 DEF ContentOf
<1>3. ASSUME NEW q \in Pages, \A f \in LoadedFrames : frames[f].page_id # q
      PROVE  ContentOf(q) = disk[q]
  BY <1>3 DEF ContentOf, LoadedFrames
<1> QED
  BY <1>2, <1>3 DEF ContentIs

LEMMA ContentHoldsNext ==
    ASSUME OnePagePerSlot
    PROVE  DInv' => ContentIs'
<1>1. DInv => ContentIs
  BY ContentHolds
<1> QED
  BY <1>1, PTL

SameContent == \A q \in Pages : ContentOf(q)' = ContentOf(q)

\* Steps that leave the pages in their frames, and the file for the others.
LEMMA StayContent ==
    ASSUME OnePagePerSlot, DInv, DInv', LoadedFrames' = LoadedFrames,
           \A g \in LoadedFrames : frames'[g].page_id = frames[g].page_id,
           \A g \in LoadedFrames : frames'[g].data = frames[g].data,
           \A q \in Pages : ~ InPool(q) => disk'[q] = disk[q]
    PROVE  SameContent
<1>1. ContentIs /\ ContentIs' /\ BufferTypeOK /\ TableFits
  BY ContentHolds, ContentHoldsNext DEF DInv, IInv
<1> SUFFICES ASSUME NEW q \in Pages PROVE ContentOf(q)' = ContentOf(q)
  BY DEF SameContent
<1>2. CASE \E f \in LoadedFrames : frames[f].page_id = q
  BY <1>1, <1>2 DEF ContentIs
<1>3. CASE \A f \in LoadedFrames : frames[f].page_id # q
  <2>1. ~ InPool(q)
    BY <1>1, <1>3, OneFrame
  <2>2. \A f \in LoadedFrames' : frames'[f].page_id # q
    BY <1>3
  <2> QED
    BY <1>1, <1>3, <2>1, <2>2 DEF ContentIs
<1> QED
  BY <1>2, <1>3

\* A page that is loaded into a frame is as the file has it.
LEMMA LoadContent ==
    ASSUME OnePagePerSlot, DInv, DInv', NEW f \in Frames, NEW p \in Pages, ~ InPool(p),
           frames'[f] \in Page, frames'[f].page_id = p, frames'[f].data = disk[p],
           \A g \in Frames : g # f => frames'[g] = frames[g],
           \A q \in Pages : IF f \in LoadedFrames /\ frames[f].page_id = q
                            THEN disk'[q] = frames[f].data ELSE disk'[q] = disk[q]
    PROVE  SameContent
<1>1. ContentIs /\ ContentIs' /\ BufferTypeOK /\ TableFits
  BY ContentHolds, ContentHoldsNext DEF DInv, IInv
<1>2. LoadedFrames' = LoadedFrames \cup {f} /\ LoadedFrames \subseteq Frames
  BY PoolSentinels DEF LoadedFrames, Loaded
<1>3. \A g \in LoadedFrames : frames[g].page_id # p /\ frames[g].page_id \in Pages
  BY <1>1, OneFrame, PageOf
<1> SUFFICES ASSUME NEW q \in Pages PROVE ContentOf(q)' = ContentOf(q)
  BY DEF SameContent
<1>4. CASE q = p
  BY <1>1, <1>2, <1>3, <1>4 DEF ContentIs
<1>5. CASE f \in LoadedFrames /\ frames[f].page_id = q
  <2>1. \A g \in LoadedFrames' : frames'[g].page_id # q
    BY <1>1, <1>2, <1>3, <1>5, OneFrame
  <2> QED
    BY <1>1, <1>5, <2>1 DEF ContentIs
<1>6. CASE \E g \in LoadedFrames : g # f /\ frames[g].page_id = q
  BY <1>1, <1>2, <1>6 DEF ContentIs
<1>7. CASE q # p /\ \A g \in LoadedFrames : frames[g].page_id # q
  <2>1. \A g \in LoadedFrames' : frames'[g].page_id # q
    BY <1>2, <1>7
  <2>2. disk'[q] = disk[q]
    BY <1>7
  <2> QED
    BY <1>1, <1>7, <2>1, <2>2 DEF ContentIs
<1> QED
  BY <1>4, <1>5, <1>6, <1>7

\* A fetch changes no page, whatever is evicted for it.
LEMMA FetchContent ==
    ASSUME OnePagePerSlot, DInv, DInv', ~ faulty, NEW c \in Clients, NEW p \in Pages,
           Fetching(p), fetch_page(c, p, page_count')
    PROVE  /\ SameContent
           /\ UNCHANGED handle \/ \E f \in Frames : Take(c, f, p)
<1>1. BufferTypeOK /\ IInv /\ TableFits /\ LruFits /\ FreeFits
  BY DEF DInv, IInv
<1>2. \A failed \in BOOLEAN : disk_manager_read_page(p, page_count', failed)
  BY DEF Fetching, disk_manager_read_page
<1>3. CASE Hit(c, p)
  <2> DEFINE f == FrameOf(p)
             new == [frames[f] EXCEPT !.pin_count = @ + 1]
  <2>1. f \in LoadedFrames /\ f \in Frames
    BY <1>1, <1>3, OneFrame DEF Hit, LoadedFrames
  <2>2. frames' = [frames EXCEPT ![f] = new] /\ Take(c, f, p) /\ UNCHANGED disk
    BY <1>3 DEF Hit
  <2>3. new \in Page /\ new.page_id = frames[f].page_id /\ new.data = frames[f].data
    BY <1>1, <2>1, PageOf DEF Page
  <2> HIDE DEF f, new
  <2>4. frames'[f] = new /\ \A g \in Frames : g # f => frames'[g] = frames[g]
    BY <1>1, <2>1, <2>2 DEF BufferTypeOK
  <2>5. LoadedFrames' = LoadedFrames
    BY <2>1, <2>3, <2>4, PoolSentinels DEF LoadedFrames, Loaded
  <2>6. \A g \in LoadedFrames : frames'[g].page_id = frames[g].page_id
    BY <2>3, <2>4 DEF LoadedFrames
  <2>7. \A g \in LoadedFrames : frames'[g].data = frames[g].data
    BY <2>3, <2>4 DEF LoadedFrames
  <2>8. SameContent
    BY <2>2, <2>5, <2>6, <2>7, StayContent
  <2> QED
    BY <2>1, <2>2, <2>8
<1>4. CASE MissFree(c, p, page_count')
  <2>1. PICK f \in free_list : Load(c, p, f, disk[p], page_table, lru_list)
    BY <1>2, <1>4 DEF MissFree
  <2>2. ~ InPool(p) /\ UNCHANGED disk
    BY <1>4 DEF MissFree
  <2>3. f \in Frames /\ f \notin LoadedFrames
    BY <1>1 DEF BufferTypeOK, FreeFits, LoadedFrames
  <2>4. /\ frames'[f] = [page_id |-> p, data |-> disk[p], is_dirty |-> FALSE, pin_count |-> 1]
        /\ \A g \in Frames : g # f => frames'[g] = frames[g]
        /\ Take(c, f, p)
    BY <1>1, <2>1, <2>3 DEF Load, BufferTypeOK
  <2>5. frames'[f] \in Page /\ frames'[f].page_id = p /\ frames'[f].data = disk[p]
    BY <1>1, <2>4 DEF Page, BufferTypeOK
  <2>6. SameContent
    BY <2>2, <2>3, <2>4, <2>5, LoadContent
  <2> QED
    BY <2>3, <2>4, <2>6
<1>5. CASE MissEvict(c, p, page_count')
  <2> DEFINE v == Last(lru_list)
             victim == frames[v]
             table == [page_table EXCEPT ![hash_page_id(victim.page_id)] = NoFrame]
  <2>1. /\ ~ InPool(p) /\ lru_list # << >> /\ victim.pin_count = 0
        /\ \E failed \in BOOLEAN :
              IF victim.is_dirty THEN disk_manager_write_page(victim, failed)
              ELSE UNCHANGED disk /\ ~ failed
        /\ Load(c, p, v, disk'[p], table, lru_remove_page(victim.page_id))
    BY <1>2, <1>5 DEF MissEvict
  <2>2. v \in LoadedFrames /\ v \in Frames
    BY <1>1, <2>1, VictimIsLoaded DEF LoadedFrames
  <2>3. Holders(v) = {}
    BY <1>1, <2>1, <2>2, FrameOut
  <2> HIDE DEF v, table
  <2>4. victim.page_id \in Pages /\ victim.page_id # p
    BY <1>1, <2>1, <2>2, PageOf, OneFrame
  <2>5. /\ disk'[victim.page_id] = victim.data
        /\ \A q \in Pages : q # victim.page_id => disk'[q] = disk[q]
    <3>1. CASE victim.is_dirty
      <4>1. disk' = [disk EXCEPT ![victim.page_id] = victim.data]
        BY <2>1, <3>1 DEF disk_manager_write_page
      <4> QED
        BY <1>1, <2>4, <4>1 DEF BufferTypeOK
    <3>2. CASE ~ victim.is_dirty
      <4>1. UNCHANGED disk
        BY <2>1, <3>2
      <4>2. victim.data = disk[victim.page_id]
        BY <2>2, <2>3, <3>2 DEF DInv, CleanIsOnDisk
      <4> QED
        BY <4>1, <4>2
    <3> QED
      BY <3>1, <3>2
  <2>6. disk'[p] = disk[p]
    BY <2>4, <2>5
  <2>7. /\ frames'[v] = [page_id |-> p, data |-> disk[p], is_dirty |-> FALSE, pin_count |-> 1]
        /\ \A g \in Frames : g # v => frames'[g] = frames[g]
        /\ Take(c, v, p)
    BY <1>1, <2>1, <2>2, <2>6 DEF Load, BufferTypeOK
  <2>8. frames'[v] \in Page /\ frames'[v].page_id = p /\ frames'[v].data = disk[p]
    BY <1>1, <2>7 DEF Page, BufferTypeOK
  <2>9. SameContent
    BY <2>1, <2>2, <2>5, <2>7, <2>8, LoadContent
  <2> QED
    BY <2>2, <2>7, <2>9
<1>6. CASE FetchFails(p)
  <2>1. UNCHANGED <<frames, disk, handle>>
    BY <1>6 DEF FetchFails
  <2>2. LoadedFrames' = LoadedFrames
    BY <2>1 DEF LoadedFrames, Loaded
  <2>3. SameContent
    BY <2>1, <2>2, StayContent
  <2> QED
    BY <2>1, <2>3
<1> QED
  BY <1>3, <1>4, <1>5, <1>6 DEF fetch_page

\* The page store that the pool stands for, as PS is instantiated.
Count == IF faulty THEN 0 ELSE page_count
Content == [p \in Pages |-> IF faulty THEN Zero ELSE ContentOf(p)]
Open == [c \in Clients |-> IF faulty \/ handle[c] = NoHandle THEN Nobody ELSE handle[c].page]

SameOpen == \A c \in Clients : handle'[c] = handle[c]

\* The page store's view, one client and one page at a time.
LEMMA ViewIs ==
    ASSUME DInv, ~ faulty
    PROVE  /\ Count = page_count /\ page_count \in 0 .. MAX_PAGES
           /\ \A p \in Pages : Content[p] = ContentOf(p)
           /\ \A c \in Clients : Open[c] = IF handle[c] = NoHandle THEN Nobody ELSE handle[c].page
           /\ \A c \in Clients : Open[c] = Nobody <=> handle[c] = NoHandle
<1>1. BufferTypeOK
  BY DEF DInv, IInv
<1>2. \A c \in Clients : handle[c] # NoHandle => handle[c].page # Nobody
  BY <1>1 DEF BufferTypeOK, Handle, Pages, Nobody
<1> QED
  BY <1>1, <1>2 DEF Count, Content, Open, BufferTypeOK

\* Steps that change no page and no pointer are no step of the page store.
LEMMA ViewStays ==
    ASSUME SameContent, SameOpen, UNCHANGED <<page_count, faulty>>
    PROVE  UNCHANGED <<Count, Content, Open>>
<1>1. Count' = Count
  BY DEF Count
<1>2. Content' = Content
  BY DEF Content, SameContent
<1>3. Open' = Open
  BY DEF Open, SameOpen
<1> QED
  BY <1>1, <1>2, <1>3

\* While something may fail the view is of an empty store.
LEMMA FaultyStays ==
    ASSUME faulty, UNCHANGED faulty
    PROVE  UNCHANGED <<Count, Content, Open>>
<1>1. Count' = Count
  BY DEF Count
<1>2. Content' = Content
  BY DEF Content
<1>3. Open' = Open
  BY DEF Open
<1> QED
  BY <1>1, <1>2, <1>3

\* A client that takes a page opens it.
LEMMA TakeOpens ==
    ASSUME DInv, ~ faulty, UNCHANGED faulty,
           NEW c \in Clients, NEW f \in Frames, NEW p \in Pages, Take(c, f, p)
    PROVE  Open[c] = Nobody /\ Open' = [Open EXCEPT ![c] = p]
<1>1. BufferTypeOK
  BY DEF DInv, IInv
<1>2. /\ handle'[c].page = p /\ handle'[c] # NoHandle
      /\ \A d \in Clients : d # c => handle'[d] = handle[d]
  <2>1. /\ handle'[c] = [frame |-> f, page |-> p, wrote |-> FALSE] /\ handle'[c] # NoHandle
        /\ \A d \in Clients : d # c => handle'[d] = handle[d]
    BY <1>1, TakeCounts
  <2> QED
    BY <2>1
<1>3. handle[c] = NoHandle
  BY DEF Take
<1>4. Open[c] = Nobody
  BY <1>3, ViewIs
<1>5. Open' = [d \in Clients |-> IF handle'[d] = NoHandle THEN Nobody ELSE handle'[d].page]
  BY DEF Open
<1>6. [Open EXCEPT ![c] = p] = [d \in Clients |-> IF d = c THEN p ELSE Open[d]]
  BY DEF Open
<1>7. \A d \in Clients : (IF handle'[d] = NoHandle THEN Nobody ELSE handle'[d].page)
                         = (IF d = c THEN p ELSE Open[d])
  BY <1>2, ViewIs
<1> QED
  BY <1>4, <1>5, <1>6, <1>7

StoreSteps ==
    \/ UNCHANGED <<Count, Content, Open>>
    \/ /\ Count < MAX_PAGES /\ Count' = Count + 1 /\ UNCHANGED Content
       /\ \/ UNCHANGED Open
          \/ \E c \in Clients : Open[c] = Nobody /\ Open' = [Open EXCEPT ![c] = Count]
    \/ \E c \in Clients :
          \/ \E p \in 0 .. Count - 1 : /\ Open[c] = Nobody /\ Open' = [Open EXCEPT ![c] = p]
                                       /\ UNCHANGED <<Count, Content>>
          \/ /\ Open[c] # Nobody /\ Open' = [Open EXCEPT ![c] = Nobody]
             /\ UNCHANGED <<Count, Content>>
          \/ \E v \in Values : /\ Open[c] # Nobody
                               /\ Content' = [Content EXCEPT ![Open[c]] = v]
                               /\ UNCHANGED <<Count, Open>>
    \/ \E p \in Pages, v \in Values :
          /\ \A c \in Clients : Open[c] # p
          /\ Content' = [Content EXCEPT ![p] = v]
          /\ UNCHANGED <<Count, Open>>

LEMMA StoreStepsAre == StoreSteps => [PS!StoreNext]_(PS!storeVars)
BY DEF StoreSteps, PS!StoreNext, PS!storeVars, PS!Extend, PS!OpenPage, PS!ClosePage, PS!WritePage,
   PS!DeletePage, PS!Pages, Pages, Count, Content, Open

\* Each step of the pool is a step of the page store, or none.
LEMMA StepsImplement ==
    ASSUME OnePagePerSlot, DInv, DInv', [BufferNext]_bufferVars
    PROVE  StoreSteps
<1>1. CASE UNCHANGED bufferVars
  <2>1. UNCHANGED <<frames, disk, handle, page_count, faulty>>
    BY <1>1 DEF bufferVars
  <2>2. SameContent
    BY <2>1 DEF SameContent, ContentOf, Loaded
  <2>3. SameOpen
    BY <2>1 DEF SameOpen
  <2> QED
    BY <2>1, <2>2, <2>3, ViewStays DEF StoreSteps
<1>2. CASE BufferNext /\ faulty
  BY <1>2, FaultyStays DEF BufferNext, StoreSteps
<1>3. CASE BufferNext /\ ~ faulty
  <2>1. UNCHANGED faulty /\ ~ faulty
    BY <1>3 DEF BufferNext
  <2>2. /\ Count = page_count /\ page_count \in 0 .. MAX_PAGES
        /\ \A p \in Pages : Content[p] = ContentOf(p)
        /\ \A c \in Clients : Open[c] = IF handle[c] = NoHandle THEN Nobody ELSE handle[c].page
        /\ \A c \in Clients : Open[c] = Nobody <=> handle[c] = NoHandle
    BY <2>1, ViewIs
  <2>3. BufferTypeOK /\ IInv /\ TableFits
    BY DEF DInv, IInv
  <2>4. ASSUME SameContent PROVE UNCHANGED Content
    BY <2>1, <2>4 DEF Content, SameContent
  <2>5. ASSUME SameContent, UNCHANGED <<handle, page_count>> PROVE StoreSteps
    <3>1. SameOpen
      BY <2>5 DEF SameOpen
    <3> QED
      BY <2>1, <2>5, <3>1, ViewStays DEF StoreSteps
  <2>6. ASSUME NEW c \in Clients, NEW p \in Pages, buffer_pool_fetch_page(c, p) PROVE StoreSteps
    <3>1. Fetching(p) /\ fetch_page(c, p, page_count') /\ page_count' = page_count /\ p \in 0 .. page_count - 1
      BY <2>1, <2>6, FetchStep
    <3>2. SameContent /\ (UNCHANGED handle \/ \E f \in Frames : Take(c, f, p))
      BY <2>1, <3>1, FetchContent
    <3>3. CASE UNCHANGED handle
      BY <2>5, <3>1, <3>2, <3>3
    <3>4. CASE \E f \in Frames : Take(c, f, p)
      <4>1. Open[c] = Nobody /\ Open' = [Open EXCEPT ![c] = p]
        BY <2>1, <3>4, TakeOpens
      <4>2. UNCHANGED <<Count, Content>>
        BY <2>1, <2>4, <3>1, <3>2 DEF Count
      <4> QED
        BY <2>2, <3>1, <4>1, <4>2 DEF StoreSteps
    <3> QED
      BY <3>2, <3>3, <3>4
  <2>7. ASSUME NEW c \in Clients, buffer_pool_new_page(c) PROVE StoreSteps
    <3>1. /\ page_count \in Pages /\ Fetching(page_count) /\ fetch_page(c, page_count, page_count')
          /\ page_count' = page_count + 1 /\ page_count < MAX_PAGES
      BY <2>1, <2>7, FetchStep
    <3>2. SameContent /\ (UNCHANGED handle \/ \E f \in Frames : Take(c, f, page_count))
      BY <2>1, <3>1, FetchContent
    <3>3. Count < MAX_PAGES /\ Count' = Count + 1 /\ UNCHANGED Content
      BY <2>1, <2>2, <2>4, <3>1, <3>2 DEF Count
    <3>4. CASE UNCHANGED handle
      <4>1. UNCHANGED Open
        BY <2>1, <3>4 DEF Open
      <4> QED
        BY <3>3, <4>1 DEF StoreSteps
    <3>5. CASE \E f \in Frames : Take(c, f, page_count)
      <4>1. Open[c] = Nobody /\ Open' = [Open EXCEPT ![c] = page_count]
        BY <2>1, <3>1, <3>5, TakeOpens
      <4> QED
        BY <2>2, <3>3, <4>1 DEF StoreSteps
    <3> QED
      BY <3>2, <3>4, <3>5
  <2>8. ASSUME NEW c \in Clients, NEW v \in Values, Write(c, v) PROVE StoreSteps
    <3> DEFINE f == handle[c].frame
               p == handle[c].page
    <3>1. /\ LoadedFrames' = LoadedFrames
          /\ \A g \in LoadedFrames : frames'[g].page_id = frames[g].page_id
          /\ \A g \in LoadedFrames : frames'[g].data = IF g = f THEN v ELSE frames[g].data
      BY <2>1, <2>8, WriteKeeps
    <3>2. /\ handle[c] # NoHandle /\ handle' = [handle EXCEPT ![c].wrote = TRUE]
          /\ UNCHANGED <<disk, page_count>>
      BY <2>8 DEF Write
    <3>3. f \in LoadedFrames /\ p \in Pages /\ frames[f].page_id = p /\ handle[c] \in Handle
      BY <2>3, <3>2, HeldFrame
    <3> HIDE DEF f, p
    <3>4. ContentIs /\ ContentIs'
      BY ContentHolds, ContentHoldsNext
    <3>5. \A q \in Pages : ContentOf(q)' = IF q = p THEN v ELSE ContentOf(q)
      <4> SUFFICES ASSUME NEW q \in Pages PROVE ContentOf(q)' = IF q = p THEN v ELSE ContentOf(q)
        OBVIOUS
      <4>1. CASE q = p
        BY <3>1, <3>3, <3>4, <4>1 DEF ContentIs
      <4>2. CASE q # p /\ \E g \in LoadedFrames : frames[g].page_id = q
        BY <3>1, <3>3, <3>4, <4>2 DEF ContentIs
      <4>3. CASE q # p /\ \A g \in LoadedFrames : frames[g].page_id # q
        <5>1. \A g \in LoadedFrames' : frames'[g].page_id # q
          BY <3>1, <4>3
        <5> QED
          BY <3>2, <3>4, <4>3, <5>1 DEF ContentIs
      <4> QED
        BY <4>1, <4>2, <4>3
    <3>6. Content' = [Content EXCEPT ![p] = v]
      <4>1. Content' = [q \in Pages |-> ContentOf(q)']
        BY <2>1 DEF Content
      <4>2. [Content EXCEPT ![p] = v] = [q \in Pages |-> IF q = p THEN v ELSE Content[q]]
        BY DEF Content
      <4>3. \A q \in Pages : ContentOf(q)' = IF q = p THEN v ELSE Content[q]
        BY <2>2, <3>5
      <4> QED
        BY <4>1, <4>2, <4>3
    <3>7. \A d \in Clients : /\ handle'[d] = NoHandle <=> handle[d] = NoHandle
                             /\ handle[d] # NoHandle => handle'[d].page = handle[d].page
      <4>1. [handle[c] EXCEPT !.wrote = TRUE] \in Handle
        BY <3>3 DEF Handle
      <4>2. /\ handle'[c] = [handle[c] EXCEPT !.wrote = TRUE]
            /\ \A d \in Clients : d # c => handle'[d] = handle[d]
        BY <2>3, <3>2 DEF BufferTypeOK
      <4>3. handle'[c] # NoHandle /\ handle'[c].page = handle[c].page
        <5>1. handle'[c] # NoHandle
          BY <4>1, <4>2, PoolSentinels
        <5>2. handle'[c].page = handle[c].page
          BY <3>3, <4>2 DEF Handle
        <5> QED
          BY <5>1, <5>2
      <4> QED
        BY <3>2, <4>2, <4>3
    <3>8. UNCHANGED <<Count, Open>>
      <4>1. Open' = [d \in Clients |-> IF handle'[d] = NoHandle THEN Nobody ELSE handle'[d].page]
        BY <2>1 DEF Open
      <4>2. Open = [d \in Clients |-> IF handle[d] = NoHandle THEN Nobody ELSE handle[d].page]
        BY <2>1 DEF Open
      <4>3. Open' = Open
        BY <3>7, <4>1, <4>2
      <4> QED
        BY <2>1, <3>2, <4>3 DEF Count
    <3>9. Open[c] # Nobody /\ Open[c] = p
      BY <2>2, <3>2 DEF p
    <3> QED
      BY <3>6, <3>8, <3>9 DEF StoreSteps
  <2>9. ASSUME NEW c \in Clients, buffer_pool_unpin_page(c) PROVE StoreSteps
    <3>1. /\ LoadedFrames' = LoadedFrames
          /\ \A g \in LoadedFrames : frames'[g].page_id = frames[g].page_id
          /\ \A g \in LoadedFrames : frames'[g].data = frames[g].data
      BY <2>1, <2>9, UnpinKeeps
    <3>2. /\ handle[c] # NoHandle /\ handle' = [handle EXCEPT ![c] = NoHandle]
          /\ UNCHANGED <<disk, page_count>>
      BY <2>9 DEF buffer_pool_unpin_page
    <3>3. UNCHANGED <<Count, Content>>
      <4>1. SameContent
        BY <3>1, <3>2, StayContent
      <4> QED
        BY <2>1, <2>4, <3>2, <4>1 DEF Count
    <3>4. Open' = [Open EXCEPT ![c] = Nobody]
      <4>1. Open' = [d \in Clients |-> IF handle'[d] = NoHandle THEN Nobody ELSE handle'[d].page]
        BY <2>1 DEF Open
      <4>2. [Open EXCEPT ![c] = Nobody] = [d \in Clients |-> IF d = c THEN Nobody ELSE Open[d]]
        BY DEF Open
      <4>3. handle'[c] = NoHandle /\ \A d \in Clients : d # c => handle'[d] = handle[d]
        BY <2>3, <3>2 DEF BufferTypeOK
      <4>4. \A d \in Clients : (IF handle'[d] = NoHandle THEN Nobody ELSE handle'[d].page)
                               = (IF d = c THEN Nobody ELSE Open[d])
        BY <2>2, <4>3
      <4> QED
        BY <4>1, <4>2, <4>4
    <3>5. Open[c] # Nobody
      BY <2>2, <3>2
    <3> QED
      BY <3>3, <3>4, <3>5 DEF StoreSteps
  <2>10. ASSUME NEW p \in Pages, buffer_pool_flush_page(p) PROVE StoreSteps
    <3>1. SameContent
      BY <2>1, <2>10, FlushPageKeeps, StayContent
    <3> QED
      BY <2>5, <2>10, <3>1 DEF buffer_pool_flush_page
  <2>11. ASSUME buffer_pool_flush_all PROVE StoreSteps
    <3>1. SameContent
      BY <2>1, <2>11, FlushAllKeeps, StayContent
    <3> QED
      BY <2>5, <2>11, <3>1 DEF buffer_pool_flush_all
  <2>12. ASSUME Restart PROVE StoreSteps
    <3>1. /\ LoadedFrames' = {}
          /\ \A f \in LoadedFrames : disk'[frames[f].page_id] = frames[f].data
          /\ \A q \in Pages : ~ InPool(q) => disk'[q] = disk[q]
      BY <2>1, <2>12, RestartKeeps
    <3>2. ContentIs /\ ContentIs'
      BY ContentHolds, ContentHoldsNext
    <3>3. SameContent
      <4> SUFFICES ASSUME NEW q \in Pages PROVE ContentOf(q)' = ContentOf(q)
        BY DEF SameContent
      <4>1. ContentOf(q)' = disk'[q]
        BY <3>1, <3>2 DEF ContentIs
      <4>2. CASE \E f \in LoadedFrames : frames[f].page_id = q
        BY <3>1, <3>2, <4>1, <4>2 DEF ContentIs
      <4>3. CASE \A f \in LoadedFrames : frames[f].page_id # q
        <5>1. ~ InPool(q)
          BY <2>3, <4>3, OneFrame
        <5> QED
          BY <3>1, <3>2, <4>1, <4>3, <5>1 DEF ContentIs
      <4> QED
        BY <4>2, <4>3
    <3> QED
      BY <2>5, <2>12, <3>3 DEF Restart
  <2>13. ASSUME NEW p \in Pages, buffer_pool_delete_page(p) PROVE StoreSteps
    <3> DEFINE f == FrameOf(p)
    <3>1. /\ LoadedFrames' = LoadedFrames \ {f}
          /\ f \in LoadedFrames /\ frames[f].page_id = p
          /\ Holders(f) = {}
          /\ \A g \in LoadedFrames' : frames'[g] = frames[g]
      BY <2>1, <2>13, DeleteKeeps
    <3>2. UNCHANGED <<disk, page_count, handle>>
      BY <2>13 DEF buffer_pool_delete_page
    <3> HIDE DEF f
    <3>3. ContentIs /\ ContentIs'
      BY ContentHolds, ContentHoldsNext
    <3>4. \A q \in Pages : ContentOf(q)' = IF q = p THEN disk[p] ELSE ContentOf(q)
      <4> SUFFICES ASSUME NEW q \in Pages PROVE ContentOf(q)' = IF q = p THEN disk[p] ELSE ContentOf(q)
        OBVIOUS
      <4>1. CASE q = p
        <5>1. \A g \in LoadedFrames' : frames'[g].page_id # q
          BY <2>3, <3>1, <4>1, OneFrame
        <5> QED
          BY <3>2, <3>3, <4>1, <5>1 DEF ContentIs
      <4>2. CASE q # p /\ \E g \in LoadedFrames : frames[g].page_id = q
        BY <3>1, <3>3, <4>2 DEF ContentIs
      <4>3. CASE q # p /\ \A g \in LoadedFrames : frames[g].page_id # q
        <5>1. \A g \in LoadedFrames' : frames'[g].page_id # q
          BY <3>1, <4>3
        <5> QED
          BY <3>2, <3>3, <4>3, <5>1 DEF ContentIs
      <4> QED
        BY <4>1, <4>2, <4>3
    <3>5. Content' = [Content EXCEPT ![p] = disk[p]]
      <4>1. Content' = [q \in Pages |-> ContentOf(q)']
        BY <2>1 DEF Content
      <4>2. [Content EXCEPT ![p] = disk[p]] = [q \in Pages |-> IF q = p THEN disk[p] ELSE Content[q]]
        BY DEF Content
      <4>3. \A q \in Pages : ContentOf(q)' = IF q = p THEN disk[p] ELSE Content[q]
        BY <2>2, <3>4
      <4> QED
        BY <4>1, <4>2, <4>3
    <3>6. \A c \in Clients : Open[c] # p
      <4> SUFFICES ASSUME NEW c \in Clients, Open[c] = p PROVE FALSE
        OBVIOUS
      <4>1. handle[c] # NoHandle /\ handle[c].page = p
        <5>1. p # Nobody
          BY DEF Pages, Nobody
        <5>2. Open[c] = IF handle[c] = NoHandle THEN Nobody ELSE handle[c].page
          BY <2>2
        <5>3. Open[c] # Nobody
          BY <5>1
        <5> QED
          BY <2>2, <5>2, <5>3
      <4>2. handle[c].frame \in LoadedFrames /\ frames[handle[c].frame].page_id = p
        BY <2>3, <4>1, HeldFrame
      <4>3. handle[c].frame = f
        BY <2>3, <3>1, <4>2, OneFrame
      <4> QED
        BY <3>1, <4>1, <4>3 DEF Holders
    <3>7. UNCHANGED <<Count, Open>>
      BY <2>1, <3>2 DEF Count, Open
    <3>8. disk[p] \in Values
      BY <2>3 DEF BufferTypeOK
    <3> QED
      BY <3>5, <3>6, <3>7, <3>8 DEF StoreSteps
  <2> QED
    BY <1>3, <2>6, <2>7, <2>8, <2>9, <2>10, <2>11, <2>12, <2>13 DEF BufferNext, PoolStep
<1> QED
  BY <1>1, <1>2, <1>3

\* While nothing fails, the cache is transparent for any clients, frames and
\* pages: whatever is loaded, evicted, flushed or closed and opened again, a page
\* holds what was last written to it (buffer_pool.c:153-448, lru.c, disk_manager.c).
THEOREM PoolIsPageStore ==
    ASSUME OnePagePerSlot
    PROVE  BufferSpec => ImplementsPageStore
<1>1. BufferInit => PS!StoreInit
  <2> SUFFICES ASSUME BufferInit PROVE PS!StoreInit
    OBVIOUS
  <2>1. DInv /\ LoadedFrames = {} /\ ContentIs
    BY InitHolds, ContentHolds
  <2>2. Count = 0
    BY DEF BufferInit, Count
  <2>3. Content = [p \in Pages |-> Zero]
    <3>1. \A p \in Pages : ContentOf(p) = Zero
      BY <2>1 DEF ContentIs, BufferInit
    <3> QED
      BY <3>1 DEF Content
  <2>4. Open = [c \in Clients |-> Nobody]
    BY DEF BufferInit, Open
  <2> QED
    BY <2>2, <2>3, <2>4 DEF PS!StoreInit, PS!Pages, Pages, Count, Content, Open
<1>2. DInv /\ DInv' /\ [BufferNext]_bufferVars => [PS!StoreNext]_(PS!storeVars)
  BY StepsImplement, StoreStepsAre
<1> QED
  BY <1>1, <1>2, Inductive, PTL DEF BufferSpec, ImplementsPageStore, PS!StoreSpec

-----------------------------------------------------------------------------
(* The table of the record store                                           *)

\* c lists the entries of the map m with keys in S, each once.
Holds(c, m, S) ==
    /\ c \in Seq(Pairs)
    /\ \A i \in 1 .. Len(c) : c[i].key \in S /\ c[i].key \in DOMAIN m /\ c[i].value = m[c[i].key]
    /\ \A i, j \in 1 .. Len(c) : c[i].key = c[j].key => i = j
    /\ \A k \in DOMAIN m \cap S : \E i \in 1 .. Len(c) : c[i].key = k

InBucket(b) == {k \in StoreKeys : Hash[k] = b}

IsMap(m) == DOMAIN m \subseteq StoreKeys /\ IsFiniteSet(DOMAIN m) /\ m \in [DOMAIN m -> StoreValues]

\* Every chain holds its part of the map, and the entries are counted.
Represents(s, m) ==
    /\ IsMap(m)
    /\ s \in [table : [Buckets -> Seq(Pairs)], entry_count : Nat]
    /\ \A b \in Buckets : Holds(s.table[b], m, InBucket(b))
    /\ s.entry_count = Cardinality(DOMAIN m)

LEMMA HoldsIs ==
    ASSUME NEW c, NEW m, NEW S, Holds(c, m, S)
    PROVE  /\ Len(c) \in Nat /\ DOMAIN c = 1 .. Len(c) /\ c \in Seq(Pairs)
           /\ \A i \in 1 .. Len(c) : c[i] \in Pairs /\ c[i].key \in StoreKeys /\ c[i].value \in StoreValues
<1>1. c \in Seq(Pairs) /\ Len(c) \in Nat /\ DOMAIN c = 1 .. Len(c)
  BY LenProperties DEF Holds
<1>2. \A i \in 1 .. Len(c) : c[i] \in Pairs
  BY <1>1, ElementOfSeq
<1> QED
  BY <1>1, <1>2 DEF Pairs

\* What happens to other keys does not concern a chain.
LEMMA HoldsStill ==
    ASSUME NEW c, NEW m, NEW n, NEW S, Holds(c, m, S),
           \A k \in S : (k \in DOMAIN m <=> k \in DOMAIN n) /\ (k \in DOMAIN m => n[k] = m[k])
    PROVE  Holds(c, n, S)
BY DEF Holds

\* What a key is found to have.
LEMMA GetIs ==
    ASSUME NEW s, NEW m, Represents(s, m), NEW k \in StoreKeys
    PROVE  /\ Hash[k] \in Buckets /\ Holds(s.table[Hash[k]], m, InBucket(Hash[k]))
           /\ k \notin DOMAIN m => Found(s, k) = {} /\ storage_get(s, k) = NULL
           /\ k \in DOMAIN m => /\ Found(s, k) # {} /\ storage_get(s, k) = m[k] /\ m[k] \in StoreValues
                                /\ Min(Found(s, k)) \in 1 .. Len(s.table[Hash[k]])
                                /\ s.table[Hash[k]][Min(Found(s, k))].key = k
<1> DEFINE c == s.table[Hash[k]]
<1>1. Hash[k] \in Buckets /\ Holds(c, m, InBucket(Hash[k]))
  BY StoreConstants DEF Represents
<1> HIDE DEF c
<1>2. DOMAIN c = 1 .. Len(c) /\ Len(c) \in Nat
  BY <1>1, HoldsIs
<1>3. Found(s, k) = {i \in 1 .. Len(c) : c[i].key = k}
  BY <1>2 DEF Found, c
<1>4. CASE k \notin DOMAIN m
  <2>1. Found(s, k) = {}
    BY <1>1, <1>3, <1>4 DEF Holds
  <2> QED
    BY <1>1, <1>4, <2>1 DEF storage_get, c
<1>5. CASE k \in DOMAIN m
  <2>1. k \in InBucket(Hash[k])
    BY DEF InBucket
  <2>2. PICK i \in 1 .. Len(c) : c[i].key = k
    BY <1>1, <1>5, <2>1 DEF Holds
  <2>3. Found(s, k) = {i}
    BY <1>1, <1>3, <2>2 DEF Holds
  <2>4. Min(Found(s, k)) = i
    <3>1. i \in Nat
      BY <1>2
    <3> QED
      BY <2>3, <3>1 DEF Min
  <2>5. storage_get(s, k) = c[i].value
    BY <2>3, <2>4 DEF storage_get, c
  <2>6. c[i].value = m[k]
    BY <1>1, <2>2 DEF Holds
  <2>7. m[k] \in StoreValues
    BY <1>5 DEF Represents, IsMap
  <2>8. c[Min(Found(s, k))].key = k /\ Min(Found(s, k)) \in 1 .. Len(c) /\ Found(s, k) # {}
    BY <2>2, <2>3, <2>4
  <2> QED
    BY <1>1, <1>5, <2>5, <2>6, <2>7, <2>8 DEF c
<1> QED
  BY <1>4, <1>5

LEMMA ContentsAre ==
    ASSUME NEW s, NEW m, Represents(s, m)
    PROVE  Contents(s) = m
<1>1. DOMAIN m \subseteq StoreKeys /\ m \in [DOMAIN m -> StoreValues]
  BY DEF Represents, IsMap
<1>2. ASSUME NEW k \in StoreKeys
      PROVE  (storage_get(s, k) # NULL <=> k \in DOMAIN m) /\ (k \in DOMAIN m => storage_get(s, k) = m[k])
  <2>1. CASE k \notin DOMAIN m
    BY <2>1, GetIs
  <2>2. CASE k \in DOMAIN m
    <3>1. storage_get(s, k) = m[k] /\ m[k] \in StoreValues
      BY <2>2, GetIs
    <3> QED
      BY <2>2, <3>1, StoreConstants
  <2> QED
    BY <2>1, <2>2
<1>3. {x \in StoreKeys : storage_get(s, x) # NULL} = DOMAIN m
  BY <1>1, <1>2
<1>4. Contents(s) = [k \in DOMAIN m |-> storage_get(s, k)]
  BY <1>3 DEF Contents
<1>5. Contents(s) = [k \in DOMAIN m |-> m[k]]
  BY <1>1, <1>2, <1>4
<1> QED
  BY <1>1, <1>5

LEMMA EmptyIs ==
    ASSUME NEW m \in [{} -> StoreValues]
    PROVE  Represents(EmptyStore, m)
<1>1. IsMap(m) /\ Cardinality(DOMAIN m) = 0
  <2>1. IsFiniteSet({}) /\ Cardinality({}) = 0
    BY FS_EmptySet
  <2> QED
    BY <2>1 DEF IsMap
<1>2. << >> \in Seq(Pairs) /\ Len(<< >>) = 0
  OBVIOUS
<1>3. \A S : Holds(<< >>, m, S)
  BY <1>2 DEF Holds
<1>4. /\ EmptyStore.entry_count = 0
      /\ EmptyStore \in [table : [Buckets -> Seq(Pairs)], entry_count : Nat]
      /\ \A b \in Buckets : EmptyStore.table[b] = << >>
  BY <1>2 DEF EmptyStore
<1> QED
  BY <1>1, <1>3, <1>4 DEF Represents

\* The map with v for k, and the map without k.
With(m, k, v) == [x \in DOMAIN m \cup {k} |-> IF x = k THEN v ELSE m[x]]
Without(m, k) == Restrict(m, DOMAIN m \ {k})

LEMMA WithIs ==
    ASSUME NEW m, IsMap(m), NEW k \in StoreKeys, NEW v \in StoreValues
    PROVE  /\ IsMap(With(m, k, v)) /\ DOMAIN With(m, k, v) = DOMAIN m \cup {k} /\ With(m, k, v)[k] = v
           /\ \A x \in DOMAIN m : x # k => With(m, k, v)[x] = m[x]
           /\ Cardinality(DOMAIN m) \in Nat
           /\ Cardinality(DOMAIN With(m, k, v)) =
                 IF k \in DOMAIN m THEN Cardinality(DOMAIN m) ELSE Cardinality(DOMAIN m) + 1
<1> DEFINE n == With(m, k, v)
<1>1. DOMAIN n = DOMAIN m \cup {k} /\ n[k] = v /\ \A x \in DOMAIN m : x # k => n[x] = m[x]
  BY DEF With
<1>2. n \in [DOMAIN n -> StoreValues]
  BY <1>1 DEF With, IsMap
<1>3. /\ IsFiniteSet(DOMAIN m \cup {k}) /\ Cardinality(DOMAIN m) \in Nat
      /\ Cardinality(DOMAIN m \cup {k}) =
            IF k \in DOMAIN m THEN Cardinality(DOMAIN m) ELSE Cardinality(DOMAIN m) + 1
  BY FS_AddElement, FS_CardinalityType DEF IsMap
<1> HIDE DEF n
<1>4. IsMap(n)
  BY <1>1, <1>2, <1>3 DEF IsMap
<1> QED
  BY <1>1, <1>3, <1>4 DEF n

LEMMA WithoutIs ==
    ASSUME NEW m, IsMap(m), NEW k \in DOMAIN m
    PROVE  /\ IsMap(Without(m, k)) /\ DOMAIN Without(m, k) = DOMAIN m \ {k}
           /\ \A x \in DOMAIN m : x # k => Without(m, k)[x] = m[x]
           /\ Cardinality(DOMAIN m) \in Nat /\ Cardinality(DOMAIN m) - 1 \in Nat
           /\ Cardinality(DOMAIN Without(m, k)) = Cardinality(DOMAIN m) - 1
<1> DEFINE n == Without(m, k)
<1>1. DOMAIN n = DOMAIN m \ {k} /\ \A x \in DOMAIN m : x # k => n[x] = m[x]
  BY DEF Without, Restrict
<1>2. n \in [DOMAIN n -> StoreValues]
  BY <1>1 DEF Without, Restrict, IsMap
<1>3. /\ IsFiniteSet(DOMAIN m \ {k}) /\ Cardinality(DOMAIN m) \in Nat
      /\ Cardinality(DOMAIN m \ {k}) = Cardinality(DOMAIN m) - 1
      /\ Cardinality(DOMAIN m \ {k}) \in Nat
  BY FS_RemoveElement, FS_CardinalityType DEF IsMap
<1> HIDE DEF n
<1>4. IsMap(n)
  BY <1>1, <1>2, <1>3 DEF IsMap
<1> QED
  BY <1>1, <1>3, <1>4 DEF n

\* One chain changes, and with it what the map has for keys of that chain.
ChainChanged(s, m, t, n, b, c) ==
    /\ b \in Buckets /\ IsMap(n) /\ Holds(c, n, InBucket(b))
    /\ \A k \in StoreKeys : Hash[k] # b =>
           (k \in DOMAIN m <=> k \in DOMAIN n) /\ (k \in DOMAIN m => n[k] = m[k])
    /\ t \in [table : [Buckets -> Seq(Pairs)], entry_count : Nat]
    /\ t.table = [s.table EXCEPT ![b] = c]
    /\ t.entry_count = Cardinality(DOMAIN n)

LEMMA ChainChanges ==
    ASSUME NEW s, NEW m, Represents(s, m), NEW t, NEW n, NEW b, NEW c, ChainChanged(s, m, t, n, b, c)
    PROVE  Represents(t, n)
<1>0. /\ b \in Buckets /\ IsMap(n) /\ Holds(c, n, InBucket(b))
      /\ \A k \in StoreKeys : Hash[k] # b =>
             (k \in DOMAIN m <=> k \in DOMAIN n) /\ (k \in DOMAIN m => n[k] = m[k])
      /\ t \in [table : [Buckets -> Seq(Pairs)], entry_count : Nat]
      /\ t.table = [s.table EXCEPT ![b] = c]
      /\ t.entry_count = Cardinality(DOMAIN n)
  BY DEF ChainChanged
<1>1. ASSUME NEW d \in Buckets PROVE Holds(t.table[d], n, InBucket(d))
  <2>1. CASE d = b
    <3>1. t.table[d] = c
      BY <1>0, <2>1 DEF Represents
    <3> QED
      BY <1>0, <2>1, <3>1
  <2>2. CASE d # b
    <3>1. t.table[d] = s.table[d]
      BY <1>0, <2>2 DEF Represents
    <3>2. Holds(s.table[d], m, InBucket(d))
      BY DEF Represents
    <3>3. \A k \in InBucket(d) : (k \in DOMAIN m <=> k \in DOMAIN n) /\ (k \in DOMAIN m => n[k] = m[k])
      BY <1>0, <2>2 DEF InBucket
    <3> QED
      BY <3>1, <3>2, <3>3, HoldsStill
  <2> QED
    BY <2>1, <2>2
<1> QED
  BY <1>0, <1>1 DEF Represents

Replaced(c, p, v) == [c EXCEPT ![p].value = v]

LEMMA ReplacedIs ==
    ASSUME NEW c \in Seq(Pairs), NEW p \in 1 .. Len(c), NEW v \in StoreValues
    PROVE  /\ Replaced(c, p, v) \in Seq(Pairs) /\ Len(Replaced(c, p, v)) = Len(c)
           /\ \A i \in 1 .. Len(c) : /\ Replaced(c, p, v)[i].key = c[i].key
                                     /\ Replaced(c, p, v)[i].value = IF i = p THEN v ELSE c[i].value
<1> DEFINE r == Replaced(c, p, v)
<1>1. Len(c) \in Nat /\ DOMAIN c = 1 .. Len(c) /\ \A i \in 1 .. Len(c) : c[i] \in Pairs
  BY LenProperties, ElementOfSeq
<1>2. r[p] = [c[p] EXCEPT !.value = v] /\ \A i \in 1 .. Len(c) : i # p => r[i] = c[i]
  BY <1>1 DEF Replaced
<1>3. r[p] \in Pairs /\ r[p].key = c[p].key /\ r[p].value = v
  BY <1>1, <1>2 DEF Pairs
<1>4. \A i \in 1 .. Len(c) : r[i] \in Pairs
  BY <1>1, <1>2, <1>3
<1>5. DOMAIN r = 1 .. Len(c)
  BY <1>1 DEF Replaced
<1>6. r \in [1 .. Len(c) -> Pairs]
  <2>1. r = [i \in 1 .. Len(c) |-> r[i]]
    BY <1>1 DEF Replaced
  <2> HIDE DEF r
  <2> QED
    BY <1>4, <2>1
<1> HIDE DEF r
<1>7. r \in Seq(Pairs) /\ Len(r) = Len(c)
  BY <1>1, <1>6
<1> QED
  BY <1>2, <1>3, <1>7 DEF r

LEMMA PutIs ==
    ASSUME NEW s, NEW m, Represents(s, m), NEW k \in StoreKeys, NEW v \in StoreValues
    PROVE  Represents(storage_put(s, k, v), With(m, k, v))
<1> DEFINE b == Hash[k]
           c == s.table[b]
           n == With(m, k, v)
           t == storage_put(s, k, v)
<1>1. b \in Buckets /\ Holds(c, m, InBucket(b)) /\ k \in InBucket(b)
  BY GetIs DEF InBucket
<1>2. /\ c \in Seq(Pairs) /\ Len(c) \in Nat /\ DOMAIN c = 1 .. Len(c)
      /\ s.table \in [Buckets -> Seq(Pairs)] /\ s.entry_count = Cardinality(DOMAIN m)
      /\ s \in [table : [Buckets -> Seq(Pairs)], entry_count : Nat]
  BY <1>1, HoldsIs DEF Represents
<1>3. /\ IsMap(n) /\ DOMAIN n = DOMAIN m \cup {k} /\ n[k] = v
      /\ \A x \in DOMAIN m : x # k => n[x] = m[x]
      /\ Cardinality(DOMAIN m) \in Nat
      /\ Cardinality(DOMAIN n) = IF k \in DOMAIN m THEN Cardinality(DOMAIN m) ELSE Cardinality(DOMAIN m) + 1
  <2>1. IsMap(m)
    BY DEF Represents
  <2> QED
    BY <2>1, WithIs
<1>4. \A x \in StoreKeys : Hash[x] # b =>
          (x \in DOMAIN m <=> x \in DOMAIN n) /\ (x \in DOMAIN m => n[x] = m[x])
  BY <1>3
<1>5. CASE k \in DOMAIN m
  <2> DEFINE p == Min(Found(s, k))
             d == Replaced(c, p, v)
  <2>1. Found(s, k) # {} /\ p \in 1 .. Len(c) /\ c[p].key = k
    BY <1>5, GetIs
  <2>2. t = [s EXCEPT !.table[b] = d]
    BY <2>1 DEF storage_put, Replaced
  <2> HIDE DEF p
  <2>3. /\ d \in Seq(Pairs) /\ Len(d) = Len(c)
        /\ \A i \in 1 .. Len(c) : d[i].key = c[i].key /\ d[i].value = IF i = p THEN v ELSE c[i].value
    BY <1>2, <2>1, ReplacedIs
  <2> HIDE DEF d
  <2>4. Holds(d, n, InBucket(b))
    <3>1. \A i \in 1 .. Len(c) : i # p => c[i].key # k
      BY <1>1, <2>1 DEF Holds
    <3>2. \A i \in 1 .. Len(c) : c[i].key \in InBucket(b) /\ c[i].key \in DOMAIN m /\ c[i].value = m[c[i].key]
      BY <1>1 DEF Holds
    <3>3. \A i \in 1 .. Len(c) : d[i].key \in InBucket(b) /\ d[i].key \in DOMAIN n /\ d[i].value = n[d[i].key]
      BY <1>3, <2>1, <2>3, <3>1, <3>2
    <3>4. DOMAIN n = DOMAIN m
      BY <1>3, <1>5
    <3> HIDE DEF b, c, n
    <3>5. \A i, j \in 1 .. Len(c) : d[i].key = d[j].key => i = j
      BY <1>1, <2>3 DEF Holds
    <3>6. ASSUME NEW x \in DOMAIN n \cap InBucket(b) PROVE \E i \in 1 .. Len(c) : d[i].key = x
      <4>1. PICK i \in 1 .. Len(c) : c[i].key = x
        BY <1>1, <3>4 DEF Holds
      <4> QED
        BY <2>3, <4>1
    <3> QED
      BY <2>3, <3>3, <3>5, <3>6 DEF Holds
  <2>5. /\ t.table = [s.table EXCEPT ![b] = d] /\ t.entry_count = s.entry_count
        /\ t \in [table : [Buckets -> Seq(Pairs)], entry_count : Nat]
    <3> HIDE DEF b, c, n, t
    <3>1. t.table = [s.table EXCEPT ![b] = d] /\ t.entry_count = s.entry_count
      BY <1>2, <2>2
    <3>2. [s.table EXCEPT ![b] = d] \in [Buckets -> Seq(Pairs)] /\ s.entry_count \in Nat
      BY <1>1, <1>2, <2>3
    <3>3. t = [table |-> [s.table EXCEPT ![b] = d], entry_count |-> s.entry_count]
      BY <1>2, <2>2
    <3> QED
      BY <3>1, <3>2, <3>3
  <2>6. t.entry_count = Cardinality(DOMAIN n)
    BY <1>2, <1>3, <1>5, <2>5
  <2>7. ChainChanged(s, m, t, n, b, d)
    <3> HIDE DEF b, c, n, t
    <3> QED
      BY <1>1, <1>3, <1>4, <2>4, <2>5, <2>6 DEF ChainChanged
  <2> HIDE DEF b, c, n, t
  <2>8. Represents(t, n)
    BY <2>7, ChainChanges
  <2> QED
    BY <2>8 DEF t, n
<1>6. CASE k \notin DOMAIN m
  <2> DEFINE e == KeyValuePair(k, v)
             d == <<e>> \o c
  <2>1. Found(s, k) = {} /\ e \in Pairs /\ e.key = k /\ e.value = v
    BY <1>6, GetIs DEF KeyValuePair, Pairs
  <2>2. t = [table |-> [s.table EXCEPT ![b] = d], entry_count |-> s.entry_count + 1]
    BY <2>1 DEF storage_put
  <2> HIDE DEF e
  <2>3. /\ d \in Seq(Pairs) /\ Len(d) = Len(c) + 1 /\ d[1] = e
        /\ \A i \in 1 .. Len(c) : d[i + 1] = c[i]
    BY <1>2, <2>1
  <2> HIDE DEF d
  <2>4. Holds(d, n, InBucket(b))
    <3> HIDE DEF b, c, n
    <3>1. ASSUME NEW i \in 1 .. Len(d) PROVE i = 1 \/ (i - 1 \in 1 .. Len(c) /\ d[i] = c[i - 1])
      <4>1. CASE i # 1
        <5>1. i - 1 \in 1 .. Len(c) /\ (i - 1) + 1 = i
          BY <1>2, <2>3, <4>1
        <5>2. d[(i - 1) + 1] = c[i - 1]
          BY <2>3, <5>1
        <5> QED
          BY <5>1, <5>2
      <4> QED
        BY <4>1
    <3>2. \A i \in 1 .. Len(c) : /\ c[i].key \in InBucket(b) /\ c[i].key \in DOMAIN m
                                 /\ c[i].value = m[c[i].key] /\ c[i].key # k
      BY <1>1, <1>6 DEF Holds
    <3>3. ASSUME NEW i \in 1 .. Len(d)
          PROVE  d[i].key \in InBucket(b) /\ d[i].key \in DOMAIN n /\ d[i].value = n[d[i].key]
      <4>1. CASE i = 1
        BY <1>1, <1>3, <2>1, <2>3, <4>1
      <4>2. CASE i - 1 \in 1 .. Len(c) /\ d[i] = c[i - 1]
        BY <1>3, <3>2, <4>2
      <4> QED
        BY <3>1, <4>1, <4>2
    <3>4. ASSUME NEW i \in 1 .. Len(d), NEW j \in 1 .. Len(d), d[i].key = d[j].key PROVE i = j
      <4>1. CASE i = 1 \/ j = 1
        <5>1. d[1].key = k
          BY <2>1, <2>3
        <5>2. \A x \in 1 .. Len(d) : x = 1 \/ d[x].key # k
          BY <3>1, <3>2
        <5> QED
          BY <3>4, <4>1, <5>1, <5>2
      <4>2. CASE i # 1 /\ j # 1
        <5>1. i - 1 \in 1 .. Len(c) /\ j - 1 \in 1 .. Len(c) /\ c[i - 1].key = c[j - 1].key
          BY <3>1, <3>4, <4>2
        <5>2. i - 1 = j - 1
          BY <1>1, <5>1 DEF Holds
        <5> QED
          BY <1>2, <2>3, <5>2
      <4> QED
        BY <4>1, <4>2
    <3>5. ASSUME NEW x \in DOMAIN n \cap InBucket(b) PROVE \E i \in 1 .. Len(d) : d[i].key = x
      <4>1. CASE x = k
        <5>1. 1 \in 1 .. Len(d) /\ d[1].key = x
          BY <1>2, <2>1, <2>3, <4>1
        <5> QED
          BY <5>1
      <4>2. CASE x # k
        <5>1. PICK i \in 1 .. Len(c) : c[i].key = x
          BY <1>1, <1>3, <4>2 DEF Holds
        <5>2. i + 1 \in 1 .. Len(d) /\ d[i + 1].key = x
          BY <1>2, <2>3, <5>1
        <5> QED
          BY <5>2
      <4> QED
        BY <4>1, <4>2
    <3> QED
      BY <2>3, <3>3, <3>4, <3>5 DEF Holds
  <2>5. /\ t.table = [s.table EXCEPT ![b] = d] /\ t.entry_count = s.entry_count + 1
        /\ t \in [table : [Buckets -> Seq(Pairs)], entry_count : Nat]
    BY <1>1, <1>2, <1>3, <2>2, <2>3
  <2>6. t.entry_count = Cardinality(DOMAIN n)
    BY <1>2, <1>3, <1>6, <2>5
  <2>7. ChainChanged(s, m, t, n, b, d)
    <3> HIDE DEF b, c, n, t
    <3> QED
      BY <1>1, <1>3, <1>4, <2>4, <2>5, <2>6 DEF ChainChanged
  <2> HIDE DEF b, c, n, t
  <2>8. Represents(t, n)
    BY <2>7, ChainChanges
  <2> QED
    BY <2>8 DEF t, n
<1> QED
  BY <1>5, <1>6

LEMMA DeleteIs ==
    ASSUME NEW s, NEW m, Represents(s, m), NEW k \in StoreKeys
    PROVE  Represents(storage_delete(s, k), Without(m, k))
<1> DEFINE b == Hash[k]
           c == s.table[b]
           n == Without(m, k)
           t == storage_delete(s, k)
<1>1. b \in Buckets /\ Holds(c, m, InBucket(b)) /\ k \in InBucket(b)
  BY GetIs DEF InBucket
<1>2. /\ c \in Seq(Pairs) /\ Len(c) \in Nat /\ DOMAIN c = 1 .. Len(c)
      /\ s.table \in [Buckets -> Seq(Pairs)] /\ s.entry_count = Cardinality(DOMAIN m)
      /\ s \in [table : [Buckets -> Seq(Pairs)], entry_count : Nat]
  BY <1>1, HoldsIs DEF Represents
<1>3. CASE k \notin DOMAIN m
  <2>1. t = s
    BY <1>3, GetIs DEF storage_delete
  <2>2. n = m
    <3>1. m \in [DOMAIN m -> StoreValues] /\ DOMAIN m \ {k} = DOMAIN m
      BY <1>3 DEF Represents, IsMap
    <3>2. n = [x \in DOMAIN m |-> m[x]]
      BY <3>1 DEF Without, Restrict
    <3> QED
      BY <3>1, <3>2
  <2> QED
    BY <2>1, <2>2
<1>4. CASE k \in DOMAIN m
  <2> DEFINE p == Min(Found(s, k))
             d == RemoveAt(c, p)
  <2>1. Found(s, k) # {} /\ p \in 1 .. Len(c) /\ c[p].key = k
    BY <1>4, GetIs
  <2>2. t = [table |-> [s.table EXCEPT ![b] = d], entry_count |-> s.entry_count - 1]
    BY <2>1 DEF storage_delete
  <2> HIDE DEF p
  <2>3. /\ d \in Seq(Pairs) /\ Len(d) = Len(c) - 1
        /\ \A i \in 1 .. Len(c) - 1 : d[i] = IF i < p THEN c[i] ELSE c[i + 1]
    BY <1>2, <2>1, RemoveAtIs
  <2> HIDE DEF d
  <2>4. /\ IsMap(n) /\ DOMAIN n = DOMAIN m \ {k}
        /\ \A x \in DOMAIN m : x # k => n[x] = m[x]
        /\ Cardinality(DOMAIN m) \in Nat /\ Cardinality(DOMAIN m) - 1 \in Nat
        /\ Cardinality(DOMAIN n) = Cardinality(DOMAIN m) - 1
    BY <1>4, WithoutIs DEF Represents
  <2>5. \A x \in StoreKeys : Hash[x] # b =>
            (x \in DOMAIN m <=> x \in DOMAIN n) /\ (x \in DOMAIN m => n[x] = m[x])
    BY <2>4
  <2>6. Holds(d, n, InBucket(b))
    <3> DEFINE old(i) == IF i < p THEN i ELSE i + 1
    <3>1. \A i \in 1 .. Len(d) : old(i) \in 1 .. Len(c) /\ old(i) # p /\ d[i] = c[old(i)]
      BY <1>2, <2>1, <2>3
    <3>2. \A i \in 1 .. Len(c) : i # p =>
              /\ c[i].key \in InBucket(b) /\ c[i].key \in DOMAIN m
              /\ c[i].value = m[c[i].key] /\ c[i].key # k
      BY <1>1, <2>1 DEF Holds
    <3>3. \A i \in 1 .. Len(d) : d[i].key \in InBucket(b) /\ d[i].key \in DOMAIN n /\ d[i].value = n[d[i].key]
      <4> HIDE DEF old, b, c, n
      <4>1. \A x \in DOMAIN m : x # k => x \in DOMAIN n /\ n[x] = m[x]
        BY <2>4
      <4>2. \A i \in 1 .. Len(c) : i # p =>
                c[i].key \in InBucket(b) /\ c[i].key \in DOMAIN n /\ c[i].value = n[c[i].key]
        BY <3>2, <4>1
      <4> QED
        BY <3>1, <4>2
    <3>4. ASSUME NEW i \in 1 .. Len(d), NEW j \in 1 .. Len(d), d[i].key = d[j].key PROVE i = j
      <4>1. old(i) = old(j)
        <5> HIDE DEF old, c
        <5>1. old(i) \in 1 .. Len(c) /\ old(j) \in 1 .. Len(c)
          BY <3>1
        <5>2. c[old(i)].key = c[old(j)].key
          BY <3>1, <3>4
        <5>3. \A x, y \in 1 .. Len(c) : c[x].key = c[y].key => x = y
          BY <1>1 DEF Holds
        <5> QED
          BY <5>1, <5>2, <5>3
      <4> QED
        BY <1>2, <2>1, <2>3, <4>1
    <3>5. ASSUME NEW x \in DOMAIN n \cap InBucket(b) PROVE \E i \in 1 .. Len(d) : d[i].key = x
      <4>1. PICK i \in 1 .. Len(c) : c[i].key = x
        BY <1>1, <2>4 DEF Holds
      <4>2. i # p
        BY <2>1, <2>4, <4>1
      <4>3. CASE i < p
        <5>1. i \in 1 .. Len(d) /\ d[i] = c[i]
          BY <1>2, <2>1, <2>3, <4>3
        <5> QED
          BY <4>1, <5>1
      <4>4. CASE i > p
        <5>1. i - 1 \in 1 .. Len(d) /\ d[i - 1] = c[i]
          BY <1>2, <2>1, <2>3, <4>4
        <5> QED
          BY <4>1, <5>1
      <4> QED
        BY <1>2, <2>1, <4>2, <4>3, <4>4
    <3> QED
      BY <2>3, <3>3, <3>4, <3>5 DEF Holds
  <2>7. /\ t.table = [s.table EXCEPT ![b] = d] /\ t.entry_count = s.entry_count - 1
        /\ t \in [table : [Buckets -> Seq(Pairs)], entry_count : Nat]
    BY <1>1, <1>2, <2>2, <2>3, <2>4
  <2>8. t.entry_count = Cardinality(DOMAIN n)
    BY <1>2, <2>4, <2>7
  <2>9. ChainChanged(s, m, t, n, b, d)
    <3> HIDE DEF b, c, n, t
    <3> QED
      BY <1>1, <2>4, <2>5, <2>6, <2>7, <2>8 DEF ChainChanged
  <2> HIDE DEF b, c, n, t
  <2>10. Represents(t, n)
    BY <2>9, ChainChanges
  <2> QED
    BY <2>10 DEF t, n
<1> QED
  BY <1>3, <1>4

-----------------------------------------------------------------------------
(* What is written, and what is read                                       *)

\* As many entries are listed as the map has.
LEMMA HoldsCount ==
    ASSUME NEW c, NEW m, IsMap(m), Holds(c, m, StoreKeys)
    PROVE  Len(c) = Cardinality(DOMAIN m)
<1> DEFINE f == [i \in 1 .. Len(c) |-> c[i].key]
<1>1. Len(c) \in Nat
  BY HoldsIs
<1>2. f \in [1 .. Len(c) -> DOMAIN m]
  BY DEF Holds
<1>3. \A i, j \in 1 .. Len(c) : f[i] = f[j] => i = j
  BY DEF Holds
<1>4. \A k \in DOMAIN m : \E i \in 1 .. Len(c) : f[i] = k
  <2> SUFFICES ASSUME NEW k \in DOMAIN m PROVE \E i \in 1 .. Len(c) : f[i] = k
    OBVIOUS
  <2>1. k \in DOMAIN m \cap StoreKeys
    BY DEF IsMap
  <2>2. PICK i \in 1 .. Len(c) : c[i].key = k
    BY <2>1 DEF Holds
  <2> QED
    BY <2>2
<1> HIDE DEF f
<1>5. f \in Bijection(1 .. Len(c), DOMAIN m)
  BY <1>2, <1>3, <1>4, Fun_IsBij
<1>6. ExistsBijection(1 .. Len(c), DOMAIN m)
  BY <1>5, Fun_ExistsBij
<1> QED
  BY <1>1, <1>6, FS_CountingElements

\* Lists of different keys may be joined.
LEMMA HoldsBoth ==
    ASSUME NEW c, NEW d, NEW m, NEW S, NEW T, Holds(c, m, S), Holds(d, m, T), S \cap T = {}
    PROVE  Holds(c \o d, m, S \cup T)
<1> DEFINE e == c \o d
<1>1. /\ c \in Seq(Pairs) /\ d \in Seq(Pairs) /\ Len(c) \in Nat /\ Len(d) \in Nat
  BY HoldsIs
<1>2. /\ e \in Seq(Pairs) /\ Len(e) = Len(c) + Len(d)
      /\ \A i \in 1 .. Len(c) : e[i] = c[i]
      /\ \A i \in 1 .. Len(d) : e[Len(c) + i] = d[i]
  BY <1>1
<1> HIDE DEF e
<1>3. \A i \in 1 .. Len(e) : i \in 1 .. Len(c) \/ (i > Len(c) /\ i - Len(c) \in 1 .. Len(d))
  BY <1>1, <1>2
<1>4. \A i \in 1 .. Len(e) : i > Len(c) => e[i] = d[i - Len(c)]
  <2> SUFFICES ASSUME NEW i \in 1 .. Len(e), i > Len(c) PROVE e[i] = d[i - Len(c)]
    OBVIOUS
  <2>1. i - Len(c) \in 1 .. Len(d) /\ Len(c) + (i - Len(c)) = i
    BY <1>1, <1>2
  <2> QED
    BY <1>2, <2>1
<1>5. ASSUME NEW i \in 1 .. Len(e)
      PROVE  /\ e[i].key \in DOMAIN m /\ e[i].value = m[e[i].key]
             /\ IF i > Len(c) THEN e[i].key \in T ELSE e[i].key \in S
  <2>1. CASE i \in 1 .. Len(c)
    BY <1>1, <1>2, <2>1 DEF Holds
  <2>2. CASE i > Len(c) /\ i - Len(c) \in 1 .. Len(d)
    BY <1>1, <1>4, <2>2 DEF Holds
  <2> QED
    BY <1>3, <2>1, <2>2
<1>6. ASSUME NEW i \in 1 .. Len(e), NEW j \in 1 .. Len(e), e[i].key = e[j].key PROVE i = j
  <2>1. i > Len(c) <=> j > Len(c)
    BY <1>5, <1>6
  <2>2. CASE i > Len(c)
    <3>1. i - Len(c) \in 1 .. Len(d) /\ j - Len(c) \in 1 .. Len(d)
      BY <1>1, <1>2, <2>1, <2>2
    <3>2. d[i - Len(c)].key = d[j - Len(c)].key
      BY <1>4, <1>6, <2>1, <2>2
    <3>3. i - Len(c) = j - Len(c)
      BY <3>1, <3>2 DEF Holds
    <3> QED
      BY <1>1, <1>2, <3>3
  <2>3. CASE ~ (i > Len(c))
    <3>1. i \in 1 .. Len(c) /\ j \in 1 .. Len(c)
      BY <1>1, <1>2, <2>1, <2>3
    <3>2. c[i].key = c[j].key
      BY <1>2, <1>6, <3>1
    <3> QED
      BY <3>1, <3>2 DEF Holds
  <2> QED
    BY <2>2, <2>3
<1>7. ASSUME NEW k \in DOMAIN m \cap (S \cup T) PROVE \E i \in 1 .. Len(e) : e[i].key = k
  <2>1. CASE k \in S
    <3>1. PICK i \in 1 .. Len(c) : c[i].key = k
      BY <2>1 DEF Holds
    <3>2. i \in 1 .. Len(e) /\ e[i].key = k
      BY <1>1, <1>2, <3>1
    <3> QED
      BY <3>2
  <2>2. CASE k \in T
    <3>1. PICK i \in 1 .. Len(d) : d[i].key = k
      BY <2>2 DEF Holds
    <3>2. Len(c) + i \in 1 .. Len(e) /\ e[Len(c) + i].key = k
      BY <1>1, <1>2, <3>1
    <3> QED
      BY <3>2
  <2> QED
    BY <2>1, <2>2
<1>8. \A i \in 1 .. Len(e) : e[i].key \in S \cup T /\ e[i].key \in DOMAIN m /\ e[i].value = m[e[i].key]
  BY <1>5
<1>9. Holds(e, m, S \cup T)
  BY <1>2, <1>6, <1>7, <1>8 DEF Holds
<1> QED
  BY <1>9 DEF e

\* f holds the entries of the first b buckets.
Collects(f, s, n) ==
    f = [b \in 0 .. n |-> IF b = 0 THEN << >> ELSE f[b - 1] \o s.table[b - 1]]

LEMMA CollectsExists ==
    ASSUME NEW s, NEW n \in Nat
    PROVE  \E f : Collects(f, s, n)
<1> DEFINE next(l, b) == l \o s.table[b - 1]
           T == {k \in Nat : ~ \E f : Collects(f, s, k)}
<1>1. \A f, k : Collects(f, s, k) <=> f = [b \in 0 .. k |-> IF b = 0 THEN << >> ELSE next(f[b - 1], b)]
  BY DEF Collects
<1> HIDE DEF next
<1> SUFFICES ASSUME T # {} PROVE FALSE
  OBVIOUS
<1>2. PICK k \in T : \A l \in T : k <= l
  BY Least
<1>3. CASE k = 0
  <2> DEFINE f == [b \in 0 .. 0 |-> << >>]
  <2>1. f = [b \in 0 .. 0 |-> IF b = 0 THEN << >> ELSE next(f[b - 1], b)]
    OBVIOUS
  <2>2. Collects(f, s, 0)
    BY <1>1, <2>1
  <2> QED
    BY <1>3, <2>2
<1>4. CASE k # 0
  <2>1. k - 1 \in Nat /\ k - 1 \notin T
    BY <1>2, <1>4
  <2>2. PICK f : Collects(f, s, k - 1)
    BY <2>1
  <2> DEFINE g == [b \in 0 .. k |-> IF b < k THEN f[b] ELSE next(f[k - 1], k)]
  <2>3. ASSUME NEW b \in 0 .. k
        PROVE  g[b] = IF b = 0 THEN << >> ELSE next(g[b - 1], b)
    <3>1. CASE b = k
      <4>1. g[b] = next(f[k - 1], k) /\ g[k - 1] = f[k - 1]
        BY <2>1, <3>1
      <4> QED
        BY <1>4, <3>1, <4>1
    <3>2. CASE b # k
      <4>1. b \in 0 .. k - 1 /\ g[b] = f[b] /\ (b # 0 => g[b - 1] = f[b - 1])
        BY <2>1, <3>2
      <4>2. f[b] = IF b = 0 THEN << >> ELSE next(f[b - 1], b)
        BY <1>1, <2>2, <4>1
      <4> QED
        BY <4>1, <4>2
    <3> QED
      BY <3>1, <3>2
  <2>4. g = [b \in 0 .. k |-> IF b = 0 THEN << >> ELSE next(g[b - 1], b)]
    BY <2>3
  <2> HIDE DEF g
  <2>5. Collects(g, s, k)
    BY <1>1, <2>4
  <2> QED
    BY <2>5
<1> QED
  BY <1>3, <1>4

LEMMA EntriesAre ==
    ASSUME NEW s, NEW m, Represents(s, m)
    PROVE  Holds(Entries(s), m, StoreKeys) /\ Len(Entries(s)) = s.entry_count
<1> DEFINE f == CHOOSE f : Collects(f, s, HASH_TABLE_SIZE)
           Below(b) == {k \in StoreKeys : Hash[k] < b}
<1>1. HASH_TABLE_SIZE \in Nat /\ Buckets = 0 .. HASH_TABLE_SIZE - 1 /\ Hash \in [StoreKeys -> Buckets]
  BY StoreConstants DEF Buckets
<1>2. Collects(f, s, HASH_TABLE_SIZE)
  BY <1>1, CollectsExists
<1>3. Entries(s) = f[HASH_TABLE_SIZE]
  BY DEF Entries, Collects
<1> HIDE DEF f
<1>4. f[0] = << >>
  BY <1>1, <1>2 DEF Collects
<1>5. ASSUME NEW b \in 1 .. HASH_TABLE_SIZE PROVE f[b] = f[b - 1] \o s.table[b - 1]
  <2>1. b \in 0 .. HASH_TABLE_SIZE /\ b # 0
    BY <1>1
  <2> QED
    BY <1>2, <2>1 DEF Collects
<1> DEFINE T == {b \in 0 .. HASH_TABLE_SIZE : ~ Holds(f[b], m, Below(b))}
<1>6. T = {}
  <2> SUFFICES ASSUME T # {} PROVE FALSE
    OBVIOUS
  <2>1. T \subseteq Nat
    BY <1>1
  <2>2. PICK b \in T : \A d \in T : b <= d
    BY <2>1, Least
  <2>3. CASE b = 0
    <3>1. Below(0) = {}
      BY <1>1
    <3>2. << >> \in Seq(Pairs) /\ Len(<< >>) = 0
      OBVIOUS
    <3>3. Holds(<< >>, m, {})
      BY <3>2 DEF Holds
    <3> HIDE DEF Below
    <3> QED
      BY <1>4, <2>3, <3>1, <3>3
  <2>4. CASE b # 0
    <3>1. b \in 0 .. HASH_TABLE_SIZE /\ b \in Nat
      BY <2>1, <2>2
    <3>2. b \in 1 .. HASH_TABLE_SIZE /\ b - 1 \in 0 .. HASH_TABLE_SIZE /\ b - 1 \in Buckets /\ ~ (b <= b - 1)
      BY <1>1, <2>4, <3>1
    <3>3. b - 1 \notin T
      <4> HIDE DEF T
      <4> QED
        BY <2>2, <3>2
    <3>4. b \in 1 .. HASH_TABLE_SIZE /\ b - 1 \in 0 .. HASH_TABLE_SIZE /\ b - 1 \notin T /\ b - 1 \in Buckets
      BY <3>2, <3>3
    <3>5. Holds(f[b - 1], m, Below(b - 1)) /\ Holds(s.table[b - 1], m, InBucket(b - 1))
      BY <3>4 DEF Represents
    <3>6. Below(b - 1) \cap InBucket(b - 1) = {} /\ Below(b - 1) \cup InBucket(b - 1) = Below(b)
      BY <1>1, <3>4 DEF InBucket
    <3> HIDE DEF Below
    <3>7. Holds(f[b - 1] \o s.table[b - 1], m, Below(b - 1) \cup InBucket(b - 1))
      BY <3>5, <3>6, HoldsBoth
    <3>8. Holds(f[b], m, Below(b))
      BY <1>5, <3>4, <3>6, <3>7
    <3> QED
      BY <3>8
  <2> QED
    BY <2>3, <2>4
<1>7. Below(HASH_TABLE_SIZE) = StoreKeys
  BY <1>1
<1>8. HASH_TABLE_SIZE \in 0 .. HASH_TABLE_SIZE
  BY <1>1
<1>9. Holds(f[HASH_TABLE_SIZE], m, StoreKeys)
  <2> HIDE DEF Below
  <2> QED
    BY <1>6, <1>7, <1>8
<1>10. Len(f[HASH_TABLE_SIZE]) = s.entry_count
  BY <1>9, HoldsCount DEF Represents
<1> QED
  BY <1>3, <1>9, <1>10

Items == Pairs \cup Nat \cup {SERIALIZER_MAGIC, SERIALIZER_VERSION}

\* f is a beginning of the stream that announces and holds es.
Begins(f, es) ==
    /\ f \in Seq(Items) /\ Len(f) <= Len(es) + 3
    /\ Len(f) >= 3 => f[3] = Len(es)
    /\ \A i \in 1 .. Len(f) - 3 : f[i + 3] = es[i]

LEMMA StreamIs ==
    ASSUME NEW s, NEW m, Represents(s, m), NEW n \in 0 .. Len(Stream(s))
    PROVE  Begins(SubSeq(Stream(s), 1, n), Entries(s))
<1> DEFINE es == Entries(s)
           h == <<SERIALIZER_MAGIC, SERIALIZER_VERSION, s.entry_count>>
           t == Stream(s)
           f == SubSeq(t, 1, n)
<1>1. /\ es \in Seq(Pairs) /\ Len(es) \in Nat /\ s.entry_count = Len(es) /\ s.entry_count \in Nat
  BY EntriesAre, HoldsIs DEF Represents
<1>2. es \in Seq(Items)
  <2>1. \A i \in 1 .. Len(es) : es[i] \in Pairs
    BY <1>1, ElementOfSeq
  <2>2. DOMAIN es = 1 .. Len(es) /\ es = [i \in 1 .. Len(es) |-> es[i]]
    BY <1>1, LenProperties
  <2> HIDE DEF es
  <2>3. es \in [1 .. Len(es) -> Items]
    BY <2>1, <2>2 DEF Items
  <2> QED
    BY <1>1, <2>3
<1> HIDE DEF es
<1>3. h \in Seq(Items) /\ Len(h) = 3 /\ h[3] = s.entry_count
  BY <1>1 DEF Items
<1>4. t = h \o es
  BY DEF Stream, serializer_write_header, es
<1> HIDE DEF h, t
<1>5. /\ t \in Seq(Items) /\ Len(t) = Len(es) + 3 /\ t[3] = Len(es)
      /\ \A i \in 1 .. Len(es) : t[i + 3] = es[i]
  <2>1. /\ t \in Seq(Items) /\ Len(t) = 3 + Len(es)
        /\ \A i \in 1 .. Len(h) + Len(es) : t[i] = IF i <= Len(h) THEN h[i] ELSE es[i - Len(h)]
    <3>1. /\ h \o es \in Seq(Items) /\ Len(h \o es) = Len(h) + Len(es)
          /\ \A i \in 1 .. Len(h) + Len(es) : (h \o es)[i] = IF i <= Len(h) THEN h[i] ELSE es[i - Len(h)]
      BY <1>2, <1>3, ConcatProperties
    <3> QED
      BY <1>3, <1>4, <3>1
  <2>2. t[3] = h[3]
    <3>1. 3 \in 1 .. Len(h) + Len(es) /\ 3 <= Len(h)
      BY <1>1, <1>3
    <3> QED
      BY <2>1, <3>1
  <2>3. ASSUME NEW i \in 1 .. Len(es) PROVE t[i + 3] = es[i]
    <3>1. i + 3 \in 1 .. Len(h) + Len(es) /\ ~ (i + 3 <= Len(h)) /\ (i + 3) - Len(h) = i
      BY <1>1, <1>3
    <3> QED
      BY <2>1, <3>1
  <2> QED
    BY <1>1, <1>3, <2>1, <2>2, <2>3
<1>6. n \in 0 .. Len(t)
  BY DEF t
<1>7. /\ f \in Seq(Items) /\ Len(f) = n
      /\ \A i \in 1 .. n : f[i] = t[i]
  <2>1. n \in Nat /\ Len(t) \in Nat /\ \A i \in 1 .. n : t[i] \in Items
    BY <1>1, <1>5, <1>6, ElementOfSeq
  <2>2. 1 \in Int /\ n \in Int
    BY <2>1
  <2>3. /\ f \in Seq(Items) /\ Len(f) = IF 1 <= n THEN n - 1 + 1 ELSE 0
        /\ \A i \in 1 .. n - 1 + 1 : f[i] = t[1 + i - 1]
    BY SMTT(30), <2>1, <2>2, SubSeqProperties
  <2> HIDE DEF f
  <2> QED
    BY <2>1, <2>3
<1> HIDE DEF f
<1>8. Begins(f, es)
  <2>1. n \in Nat /\ n <= Len(es) + 3
    BY <1>1, <1>5, <1>6
  <2>2. ASSUME n >= 3 PROVE f[3] = Len(es)
    BY <1>5, <1>7, <2>1, <2>2
  <2>3. ASSUME NEW i \in 1 .. n - 3 PROVE f[i + 3] = es[i]
    <3>1. i + 3 \in 1 .. n /\ i \in 1 .. Len(es)
      BY <1>1, <2>1
    <3> QED
      BY <1>5, <1>7, <3>1
  <2> QED
    BY <1>7, <2>1, <2>2, <2>3 DEF Begins
<1> QED
  BY <1>8 DEF f, t, es

\* g holds the store after the first n entries of f.
Reads(g, s, f, n) ==
    g = [i \in 0 .. n |-> IF i = 0 THEN s ELSE storage_put(g[i - 1], f[i + 3].key, f[i + 3].value)]

LEMMA ReadsExists ==
    ASSUME NEW s, NEW f, NEW n \in Nat
    PROVE  \E g : Reads(g, s, f, n)
<1> DEFINE next(t, i) == storage_put(t, f[i + 3].key, f[i + 3].value)
           T == {k \in Nat : ~ \E g : Reads(g, s, f, k)}
<1>1. \A g, k : Reads(g, s, f, k) <=> g = [i \in 0 .. k |-> IF i = 0 THEN s ELSE next(g[i - 1], i)]
  BY DEF Reads
<1> HIDE DEF next
<1> SUFFICES ASSUME T # {} PROVE FALSE
  OBVIOUS
<1>2. PICK k \in T : \A l \in T : k <= l
  BY Least
<1>3. CASE k = 0
  <2> DEFINE g == [i \in 0 .. 0 |-> s]
  <2>1. g = [i \in 0 .. 0 |-> IF i = 0 THEN s ELSE next(g[i - 1], i)]
    OBVIOUS
  <2>2. Reads(g, s, f, 0)
    BY <1>1, <2>1
  <2> QED
    BY <1>3, <2>2
<1>4. CASE k # 0
  <2>1. k - 1 \in Nat /\ k - 1 \notin T
    BY <1>2, <1>4
  <2>2. PICK g : Reads(g, s, f, k - 1)
    BY <2>1
  <2> DEFINE r == [i \in 0 .. k |-> IF i < k THEN g[i] ELSE next(g[k - 1], k)]
  <2>3. ASSUME NEW i \in 0 .. k
        PROVE  r[i] = IF i = 0 THEN s ELSE next(r[i - 1], i)
    <3>1. CASE i = k
      <4>1. r[i] = next(g[k - 1], k) /\ r[k - 1] = g[k - 1]
        BY <2>1, <3>1
      <4> QED
        BY <1>4, <3>1, <4>1
    <3>2. CASE i # k
      <4>1. i \in 0 .. k - 1 /\ r[i] = g[i] /\ (i # 0 => r[i - 1] = g[i - 1])
        BY <2>1, <3>2
      <4>2. g[i] = IF i = 0 THEN s ELSE next(g[i - 1], i)
        BY <1>1, <2>2, <4>1
      <4> QED
        BY <4>1, <4>2
    <3> QED
      BY <3>1, <3>2
  <2>4. r = [i \in 0 .. k |-> IF i = 0 THEN s ELSE next(r[i - 1], i)]
    BY <2>3
  <2> HIDE DEF r
  <2>5. Reads(r, s, f, k)
    BY <1>1, <2>4
  <2> QED
    BY <2>5
<1> QED
  BY <1>3, <1>4

KeysUpTo(es, n) == {es[i].key : i \in 1 .. n}

\* Reading what was written gives the part of the map that was read.
LEMMA ReadIs ==
    ASSUME NEW m, IsMap(m), NEW es, Holds(es, m, StoreKeys), NEW f, Begins(f, es), Len(f) >= 3
    PROVE  /\ Readable(f) \in 0 .. Len(es) /\ (Readable(f) = f[3] <=> Readable(f) = Len(es))
           /\ Represents(ReadInto(EmptyStore, f), Restrict(m, KeysUpTo(es, Readable(f))))
<1> DEFINE n == Readable(f)
           g == CHOOSE g : Reads(g, EmptyStore, f, n)
           part(i) == Restrict(m, KeysUpTo(es, i))
<1>1. /\ es \in Seq(Pairs) /\ Len(es) \in Nat /\ Len(f) \in Nat /\ Len(f) <= Len(es) + 3
      /\ f[3] = Len(es) /\ \A i \in 1 .. Len(f) - 3 : f[i + 3] = es[i]
      /\ \A i \in 1 .. Len(es) : es[i].key \in StoreKeys /\ es[i].value \in StoreValues
  BY HoldsIs, LenProperties DEF Begins
<1>2. n = Len(f) - 3
  <2>1. \A x, y \in Nat : y <= x => Min({x, y}) = y
    BY DEF Min
  <2>2. Len(f) - 3 \in Nat /\ f[3] \in Nat /\ Len(f) - 3 <= f[3]
    BY <1>1
  <2> QED
    BY <2>1, <2>2 DEF Readable
<1>3. n \in 0 .. Len(es) /\ n \in Nat
  BY <1>1, <1>2
<1> HIDE DEF n
<1>4. Reads(g, EmptyStore, f, n)
  BY <1>3, ReadsExists
<1>5. ReadInto(EmptyStore, f) = g[n]
  BY DEF ReadInto, Reads, n
<1> HIDE DEF g
<1>6. g[0] = EmptyStore
  BY <1>3, <1>4 DEF Reads
<1>7. ASSUME NEW i \in 1 .. n PROVE g[i] = storage_put(g[i - 1], es[i].key, es[i].value)
  <2>1. i \in 0 .. n /\ i # 0 /\ f[i + 3] = es[i]
    BY <1>1, <1>2, <1>3
  <2> QED
    BY <1>4, <2>1 DEF Reads
<1> DEFINE T == {i \in 0 .. n : ~ Represents(g[i], part(i))}
<1>8. T = {}
  <2> SUFFICES ASSUME T # {} PROVE FALSE
    OBVIOUS
  <2>1. T \subseteq Nat
    BY <1>3
  <2>2. PICK i \in T : \A j \in T : i <= j
    BY <2>1, Least
  <2>3. CASE i = 0
    <3>1. part(0) \in [{} -> StoreValues]
      BY DEF Restrict, KeysUpTo
    <3>2. Represents(EmptyStore, part(0))
      <4> HIDE DEF part
      <4> QED
        BY <3>1, EmptyIs
    <3> HIDE DEF part
    <3> QED
      BY <1>6, <2>3, <3>2
  <2>4. CASE i # 0
    <3>1. /\ i \in 1 .. n /\ i - 1 \in 0 .. n /\ i - 1 \notin T /\ i \in 1 .. Len(es)
      BY <1>3, <2>2, <2>4
    <3>2. Represents(g[i - 1], part(i - 1))
      BY <3>1
    <3>3. part(i) = With(part(i - 1), es[i].key, es[i].value)
      <4>1. KeysUpTo(es, i) = KeysUpTo(es, i - 1) \cup {es[i].key}
        <5>1. \A j \in 1 .. i : j = i \/ j \in 1 .. i - 1
          BY <3>1, <1>1
        <5>2. i \in 1 .. i /\ \A j \in 1 .. i - 1 : j \in 1 .. i
          BY <3>1, <1>1
        <5> QED
          BY <5>1, <5>2 DEF KeysUpTo
      <4>2. es[i].value = m[es[i].key]
        BY <3>1 DEF Holds
      <4>3. /\ DOMAIN part(i - 1) = KeysUpTo(es, i - 1)
            /\ \A x \in KeysUpTo(es, i - 1) : part(i - 1)[x] = m[x]
        BY DEF Restrict
      <4>4. part(i) = [x \in KeysUpTo(es, i - 1) \cup {es[i].key} |-> m[x]]
        BY <4>1 DEF Restrict
      <4> HIDE DEF part
      <4> QED
        BY <4>2, <4>3, <4>4 DEF With
    <3> HIDE DEF part
    <3>4. Represents(storage_put(g[i - 1], es[i].key, es[i].value), With(part(i - 1), es[i].key, es[i].value))
      BY <1>1, <3>1, <3>2, PutIs
    <3>5. Represents(g[i], part(i))
      BY <1>7, <3>1, <3>3, <3>4
    <3> QED
      BY <3>5
  <2> QED
    BY <2>3, <2>4
<1>9. Represents(g[n], part(n))
  <2>1. n \in 0 .. n
    BY <1>3
  <2> HIDE DEF part
  <2> QED
    BY <1>8, <2>1
<1>10. Represents(ReadInto(EmptyStore, f), part(n))
  BY <1>5, <1>9
<1> QED
  BY <1>1, <1>3, <1>10 DEF n

LEMMA KeysUpToAll ==
    ASSUME NEW m, IsMap(m), NEW es, Holds(es, m, StoreKeys)
    PROVE  /\ Restrict(m, KeysUpTo(es, Len(es))) = m
           /\ \A n \in 0 .. Len(es) : KeysUpTo(es, n) \in SUBSET DOMAIN m
<1>1. Len(es) \in Nat
  BY HoldsIs
<1>2. \A i \in 1 .. Len(es) : es[i].key \in DOMAIN m
  BY DEF Holds
<1>3. ASSUME NEW n \in 0 .. Len(es) PROVE KeysUpTo(es, n) \in SUBSET DOMAIN m
  <2>1. \A i \in 1 .. n : i \in 1 .. Len(es)
    BY <1>1
  <2> QED
    BY <1>2, <2>1 DEF KeysUpTo
<1>4. DOMAIN m \subseteq KeysUpTo(es, Len(es))
  <2> SUFFICES ASSUME NEW k \in DOMAIN m PROVE k \in KeysUpTo(es, Len(es))
    OBVIOUS
  <2>1. k \in DOMAIN m \cap StoreKeys
    BY DEF IsMap
  <2>2. PICK i \in 1 .. Len(es) : es[i].key = k
    BY <2>1 DEF Holds
  <2> QED
    BY <2>2 DEF KeysUpTo
<1>5. KeysUpTo(es, Len(es)) = DOMAIN m
  <2>1. Len(es) \in 0 .. Len(es)
    BY <1>1
  <2> QED
    BY <1>3, <1>4, <2>1
<1>6. m = [k \in DOMAIN m |-> m[k]]
  BY DEF IsMap
<1> QED
  BY <1>3, <1>5, <1>6 DEF Restrict
-----------------------------------------------------------------------------
(* The record store implements the key-value store                         *)

\* The table holds a map, and a file holds a beginning of some list of the map
\* that was saved.
StoreInv ==
    /\ Represents(store, Contents(store))
    /\ IsMap(saved)
    /\ file \in [exists : BOOLEAN, items : Seq(Items)]
    /\ file.exists => \E es : Holds(es, saved, StoreKeys) /\ Begins(file.items, es)

\* The abstract store counts and restricts with the same operators.
LEMMA StoreCardinality == \A S : KV!Cardinality(S) = Cardinality(S)
  BY DEF KV!Cardinality, Cardinality

LEMMA StoreRestrict == \A f, S : KV!Restrict(f, S) = Restrict(f, S)
  BY DEF KV!Restrict, Restrict

LEMMA StoreInit_Inv == StoreInit => StoreInv /\ KV!KvInit /\ store.entry_count = 0
<1> SUFFICES ASSUME StoreInit PROVE StoreInv /\ KV!KvInit /\ store.entry_count = 0
  OBVIOUS
<1>1. store = EmptyStore /\ file = [exists |-> FALSE, items |-> << >>] /\ saved = [k \in {} |-> NULL]
  BY DEF StoreInit
<1>2. saved \in [{} -> StoreValues]
  BY <1>1
<1>3. Represents(store, saved)
  BY <1>1, <1>2, EmptyIs
<1>4. Contents(store) = saved
  BY <1>3, ContentsAre
<1>5. saved = KV!Empty
  BY <1>1 DEF KV!Empty
<1>6. Disk = [state |-> "none", map |-> saved]
  BY <1>1 DEF Disk
<1>7. KV!KvInit
  BY <1>4, <1>5, <1>6 DEF KV!KvInit
<1>8. StoreInv
  <2>1. IsMap(saved) /\ ~ file.exists /\ file \in [exists : BOOLEAN, items : Seq(Items)]
    BY <1>1, <1>3 DEF Represents
  <2> QED
    BY <1>3, <1>4, <2>1 DEF StoreInv
<1>9. store.entry_count = 0
  BY <1>1 DEF EmptyStore
<1> QED
  BY <1>7, <1>8, <1>9

\* A step that leaves the file alone, and puts the map n in the table.
LEMMA TableStep ==
    ASSUME StoreInv, NEW n, Represents(store', n), UNCHANGED <<file, saved>>
    PROVE  /\ StoreInv' /\ Contents(store)' = n /\ Disk' = Disk
           /\ store'.entry_count = Cardinality(DOMAIN n)
<1>1. Contents(store') = n
  BY ContentsAre
<1>2. Disk' = Disk
  BY DEF Disk
<1>3. StoreInv'
  BY <1>1 DEF StoreInv
<1>4. store'.entry_count = Cardinality(DOMAIN n)
  BY DEF Represents
<1> QED
  BY <1>1, <1>2, <1>3, <1>4

LEMMA PutStep ==
    ASSUME StoreInv, NEW k \in StoreKeys, NEW v \in StoreValues,
           store' = storage_put(store, k, v), UNCHANGED <<file, saved>>
    PROVE  StoreInv' /\ KV!KvNext
<1> DEFINE n == With(Contents(store), k, v)
<1>1. Represents(store', n)
  BY PutIs DEF StoreInv
<1>2. n = [x \in DOMAIN Contents(store) \cup {k} |-> IF x = k THEN v ELSE Contents(store)[x]]
  BY DEF With
<1> HIDE DEF n
<1>3. StoreInv' /\ Contents(store)' = n /\ Disk' = Disk /\ store'.entry_count = Cardinality(DOMAIN n)
  BY <1>1, TableStep
<1>4. KV!Change
  BY <1>2, <1>3 DEF KV!Change
<1> QED
  BY <1>3, <1>4, StoreCardinality DEF KV!KvNext

LEMMA DeleteStep ==
    ASSUME StoreInv, NEW k \in StoreKeys,
           store' = storage_delete(store, k), UNCHANGED <<file, saved>>
    PROVE  StoreInv' /\ KV!KvNext
<1> DEFINE n == Without(Contents(store), k)
<1>1. Represents(store', n)
  BY DeleteIs DEF StoreInv
<1>2. n = KV!Restrict(Contents(store), DOMAIN Contents(store) \ {k})
  BY StoreRestrict DEF Without
<1> HIDE DEF n
<1>3. StoreInv' /\ Contents(store)' = n /\ Disk' = Disk /\ store'.entry_count = Cardinality(DOMAIN n)
  BY <1>1, TableStep
<1>4. KV!Change
  BY <1>2, <1>3 DEF KV!Change
<1> QED
  BY <1>3, <1>4, StoreCardinality DEF KV!KvNext

LEMMA ClearStep ==
    ASSUME StoreInv, storage_clear
    PROVE  StoreInv' /\ KV!KvNext
<1> DEFINE n == [k \in {} |-> {}]
<1>1. n \in [{} -> StoreValues] /\ n = KV!Empty
  BY DEF KV!Empty
<1> HIDE DEF n
<1>2. Represents(store', n) /\ UNCHANGED <<file, saved>>
  BY <1>1, EmptyIs DEF storage_clear
<1>3. StoreInv' /\ Contents(store)' = n /\ Disk' = Disk /\ store'.entry_count = Cardinality(DOMAIN n)
  BY <1>2, TableStep
<1>4. KV!Change
  BY <1>1, <1>3 DEF KV!Change
<1> QED
  BY <1>3, <1>4, StoreCardinality DEF KV!KvNext

\* A save, however much of it reaches the disk.
LEMMA SaveStep ==
    ASSUME StoreInv, storage_save
    PROVE  StoreInv' /\ KV!KvNext
<1> DEFINE m == Contents(store)
<1>1. PICK n \in 0 .. Len(Stream(store)) : file' = [exists |-> TRUE, items |-> SubSeq(Stream(store), 1, n)]
  BY DEF storage_save
<1>2. saved' = m /\ store' = store /\ file'.exists /\ file'.items = SubSeq(Stream(store), 1, n)
  BY <1>1 DEF storage_save
<1>3. Represents(store, m) /\ IsMap(m) /\ store.entry_count = Cardinality(DOMAIN m)
  BY DEF StoreInv, Represents
<1>4. Contents(store)' = m
  BY <1>2
<1>5. Holds(Entries(store), m, StoreKeys) /\ Begins(file'.items, Entries(store))
  BY <1>2, <1>3, EntriesAre, StreamIs
<1> HIDE DEF m
<1>6. StoreInv'
  <2>1. file' \in [exists : BOOLEAN, items : Seq(Items)]
    BY <1>1, <1>2, <1>5 DEF Begins
  <2>2. Represents(store', Contents(store)') /\ IsMap(saved')
    BY <1>2, <1>3, <1>4
  <2>3. \E es : Holds(es, saved', StoreKeys) /\ Begins(file'.items, es)
    BY <1>2, <1>5
  <2> QED
    BY <2>1, <2>2, <2>3 DEF StoreInv
<1>7. Disk' = [state |-> IF Whole(file'.items) THEN "whole" ELSE "torn", map |-> m]
  BY <1>2 DEF Disk
<1>8. Disk' \in [state : {"whole", "torn"}, map : {m}]
  BY <1>7
<1>9. KV!Save
  BY <1>8 DEF KV!Save, m
<1> QED
  BY <1>2, <1>3, <1>4, <1>6, <1>9, StoreCardinality DEF KV!KvNext, m

\* A load, of all that was saved or of some of it.
LEMMA LoadStep ==
    ASSUME StoreInv, storage_load
    PROVE  StoreInv' /\ KV!KvNext
<1> DEFINE f == file.items
<1>1. /\ file.exists /\ Len(f) >= 3 /\ store' = ReadInto(EmptyStore, f)
      /\ UNCHANGED <<file, saved>>
  BY DEF storage_load, CanLoad
<1>2. PICK es : Holds(es, saved, StoreKeys) /\ Begins(f, es)
  BY <1>1 DEF StoreInv
<1> DEFINE r == Readable(f)
           n == Restrict(saved, KeysUpTo(es, r))
<1>3. IsMap(saved)
  BY DEF StoreInv
<1>4. /\ r \in 0 .. Len(es) /\ (r = f[3] <=> r = Len(es))
      /\ Represents(ReadInto(EmptyStore, f), n)
  BY <1>1, <1>2, <1>3, ReadIs
<1>5. /\ Restrict(saved, KeysUpTo(es, Len(es))) = saved
      /\ KeysUpTo(es, r) \in SUBSET DOMAIN saved
  BY <1>2, <1>3, <1>4, KeysUpToAll
<1>6. Disk = [state |-> IF Whole(f) THEN "whole" ELSE "torn", map |-> saved]
  BY <1>1 DEF Disk
<1>7. Whole(f) <=> r = Len(es)
  BY <1>1, <1>4 DEF Whole
<1>8. Whole(f) => n = saved
  BY <1>5, <1>7
<1>9. n = KV!Restrict(saved, KeysUpTo(es, r))
  BY StoreRestrict
<1> HIDE DEF n, r, f
<1>10. StoreInv' /\ Contents(store)' = n /\ Disk' = Disk /\ store'.entry_count = Cardinality(DOMAIN n)
  BY <1>1, <1>4, TableStep
<1>11. KV!Load
  <2>1. CASE Whole(f)
    BY <1>6, <1>8, <1>10, <2>1 DEF KV!Load
  <2>2. CASE ~ Whole(f)
    <3>1. Disk.state = "torn" /\ Disk.map = saved
      BY <1>6, <2>2
    <3>2. \E D \in SUBSET DOMAIN Disk.map : Contents(store)' = KV!Restrict(Disk.map, D)
      BY <1>5, <1>9, <1>10, <3>1
    <3> QED
      BY <3>1, <3>2 DEF KV!Load
  <2> QED
    BY <2>1, <2>2
<1> QED
  BY <1>10, <1>11, StoreCardinality DEF KV!KvNext

LEMMA StoreStep ==
    ASSUME StoreInv, [StoreNext]_storeVars
    PROVE  StoreInv' /\ [KV!KvNext]_<<Contents(store), store.entry_count, Disk>>
<1>1. CASE UNCHANGED storeVars
  BY <1>1 DEF storeVars, StoreInv, Disk
<1>2. CASE storage_clear
  BY <1>2, ClearStep
<1>3. CASE storage_save
  BY <1>3, SaveStep
<1>4. CASE storage_load
  BY <1>4, LoadStep
<1>5. ASSUME NEW k \in StoreKeys, NEW v \in StoreValues,
             store' = storage_put(store, k, v), UNCHANGED <<file, saved>>
      PROVE  StoreInv' /\ KV!KvNext
  BY <1>5, PutStep
<1>6. ASSUME NEW k \in StoreKeys, store' = storage_delete(store, k), UNCHANGED <<file, saved>>
      PROVE  StoreInv' /\ KV!KvNext
  BY <1>6, DeleteStep
<1> QED
  BY <1>1, <1>2, <1>3, <1>4, <1>5, <1>6 DEF StoreNext

\* Whatever was put, changed, deleted, saved and loaded, and however a save ended,
\* the table is a map that is counted right, a file that is whole gives back what
\* was saved, and a torn one nothing else; for any number of keys and buckets and
\* any hash function.  storage.c:165-313 and 395-531.
THEOREM StoreIsKeyValueStore == StoreSpec => ImplementsKeyValueStore
<1>1. StoreInit => StoreInv /\ KV!KvInit /\ store.entry_count = 0
  BY StoreInit_Inv
<1>2. StoreInv /\ [StoreNext]_storeVars => StoreInv' /\ [KV!KvNext]_<<Contents(store), store.entry_count, Disk>>
  BY StoreStep
<1> QED
  BY <1>1, <1>2, PTL DEF StoreSpec, ImplementsKeyValueStore, KV!KvSpec

\* The table, the file and what was saved keep their types.
THEOREM StoreTypeCorrect == StoreSpec => []StoreTypeOK
<1>1. StoreInit => StoreInv
  BY StoreInit_Inv
<1>2. StoreInv /\ [StoreNext]_storeVars => StoreInv'
  BY StoreStep
<1>3. StoreInv => StoreTypeOK
  <2> SUFFICES ASSUME StoreInv PROVE StoreTypeOK
    OBVIOUS
  <2>1. saved \in [DOMAIN saved -> StoreValues] /\ DOMAIN saved \in SUBSET StoreKeys
    BY DEF StoreInv, IsMap
  <2>2. store \in [table : [Buckets -> Seq(Pairs)], entry_count : Nat]
    BY DEF StoreInv, Represents
  <2>3. file \in [exists : BOOLEAN, items : Seq(Pairs \cup Nat \cup {SERIALIZER_MAGIC, SERIALIZER_VERSION})]
    BY DEF StoreInv, Items
  <2> QED
    BY <2>1, <2>2, <2>3 DEF StoreTypeOK
<1> QED
  BY <1>1, <1>2, <1>3, PTL DEF StoreSpec
=============================================================================
