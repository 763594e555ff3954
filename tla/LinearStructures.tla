-------------------------- MODULE LinearStructures --------------------------
(***************************************************************************)
(* The lists, stacks and queues of the exercises and of the                *)
(* java_collections examples, against the sequences and orders a reader    *)
(* expects of them.                                                        *)
(***************************************************************************)
EXTENDS Integers, Sequences, FiniteSets, SequencesExt

-----------------------------------------------------------------------------
(***************************************************************************)
(* The lists of the examples: the doubly linked LinkedList and the         *)
(* ArrayList of java_collections, the singly linked list                   *)
(* (DataStructure/02_LinkedList.c) and the dynamic array                   *)
(* (01_Array_ArrayList.c).  One caller uses one of them.  A node is a      *)
(* number; malloc gives the smallest one that is free.  An index outside   *)
(* the list is refused by each of them and left out.  A sublist of fewer   *)
(* than two elements is read only: arraylist_grow adds half the capacity,  *)
(* which is nothing, and the next element would go behind the array.       *)
(***************************************************************************)

CONSTANTS
    ListItems,                    \* set of integers
    ARRAYLIST_DEFAULT_CAPACITY,
    MAX_ITEMS,                    \* bound: length of a list
    NULL_NODE_PTR

ASSUME ListsAssumption == ARRAYLIST_DEFAULT_CAPACITY > 1

VARIABLES
    class,      \* the list that is used
    list,       \* its fields
    links,      \* links[n]: the nodes that are allocated
    expected    \* auxiliary: the sequence it stands for

listVars == <<class, list, links, expected>>

NULL == NULL_NODE_PTR

Fresh == CHOOSE n \in 1 .. MAX_ITEMS : n \notin DOMAIN links /\ \A m \in 1 .. n - 1 : m \in DOMAIN links

Allocated(n, contents, nodes) == [m \in DOMAIN nodes \cup {n} |-> IF m = n THEN contents ELSE nodes[m]]

Freed(n, nodes) == [m \in DOMAIN nodes \ {n} |-> nodes[m]]

-----------------------------------------------------------------------------
(* LinkedList: [first, last, size], nodes [prev, item, next]               *)

linkedlist_new == [first |-> NULL, last |-> NULL, size |-> 0]

new_node(prev, item, next) == [prev |-> prev, item |-> item, next |-> next]

link_first(e) ==
    LET n == Fresh
        nodes == Allocated(n, new_node(NULL, e, list.first), links)
    IN  /\ list' = [list EXCEPT !.first = n, !.last = IF list.first = NULL THEN n ELSE @, !.size = @ + 1]
        /\ links' = IF list.first = NULL THEN nodes ELSE [nodes EXCEPT ![list.first].prev = n]

link_last(e) ==
    LET n == Fresh
        nodes == Allocated(n, new_node(list.last, e, NULL), links)
    IN  /\ list' = [list EXCEPT !.last = n, !.first = IF list.last = NULL THEN n ELSE @, !.size = @ + 1]
        /\ links' = IF list.last = NULL THEN nodes ELSE [nodes EXCEPT ![list.last].next = n]

RECURSIVE Forward(_, _), Backward(_, _)
Forward(n, steps) == IF steps = 0 THEN n ELSE Forward(links[n].next, steps - 1)
Backward(n, steps) == IF steps = 0 THEN n ELSE Backward(links[n].prev, steps - 1)

\* The walk starts at the nearer end.
node_at(index) ==
    IF index < list.size \div 2 THEN Forward(list.first, index)
    ELSE Backward(list.last, list.size - 1 - index)

unlink(n) ==
    LET prev == links[n].prev
        next == links[n].next
    IN  /\ list' = [list EXCEPT !.first = IF prev = NULL THEN next ELSE @,
                                !.last = IF next = NULL THEN prev ELSE @,
                                !.size = @ - 1]
        /\ links' = Freed(n, [m \in DOMAIN links |->
                               [links[m] EXCEPT !.next = IF m = prev THEN next ELSE @,
                                               !.prev = IF m = next THEN prev ELSE @]])

linkedlist_add_at(index, e) ==
    IF index = list.size THEN link_last(e)
    ELSE LET succ == node_at(index)
             pred == links[succ].prev
             n == Fresh
             nodes == [Allocated(n, new_node(pred, e, succ), links) EXCEPT ![succ].prev = n]
         IN  /\ list' = [list EXCEPT !.first = IF pred = NULL THEN n ELSE @, !.size = @ + 1]
             /\ links' = IF pred = NULL THEN nodes ELSE [nodes EXCEPT ![pred].next = n]

-----------------------------------------------------------------------------
(* The singly linked list: [head, size], nodes [data, next]                *)

createLinkedList == [head |-> NULL, size |-> 0]

pushFront(e) ==
    /\ links' = Allocated(Fresh, [data |-> e, next |-> list.head], links)
    /\ list' = [head |-> Fresh, size |-> list.size + 1]

pushBack(e) ==
    LET nodes == Allocated(Fresh, [data |-> e, next |-> NULL], links)
    IN  IF list.head = NULL THEN links' = nodes /\ list' = [head |-> Fresh, size |-> list.size + 1]
        ELSE /\ links' = [nodes EXCEPT ![CHOOSE n \in DOMAIN links : links[n].next = NULL].next = Fresh]
             /\ list' = [list EXCEPT !.size = @ + 1]

removeAt_list(index) ==
    IF index = 0
    THEN /\ list' = [head |-> links[list.head].next, size |-> list.size - 1]
         /\ links' = Freed(list.head, links)
    ELSE LET prev == Forward(list.head, index - 1)
             toDelete == links[prev].next
         IN  /\ links' = Freed(toDelete, [links EXCEPT ![prev].next = links[toDelete].next])
             /\ list' = [list EXCEPT !.size = @ - 1]

-----------------------------------------------------------------------------
(* The arrays: [data, size]; the capacity is the length of data            *)

Unset == 0

NewArray(capacity) == [data |-> [i \in 1 .. capacity |-> Unset], size |-> 0]

\* The element that is appended is written at index size, grown before if full.
Grown(a, capacity) ==
    IF a.size < Len(a.data) THEN a
    ELSE [a EXCEPT !.data = [i \in 1 .. capacity |-> IF i <= a.size THEN a.data[i] ELSE Unset]]

ensure_capacity(a) == Grown(a, Len(a.data) + Len(a.data) \div 2)

resize(a) == Grown(a, 2 * Len(a.data))

\* memmove by one, then the element.
arraylist_add_at(index, e) ==
    LET a == ensure_capacity(list)
    IN  list' = [a EXCEPT !.size = @ + 1,
                          !.data = [i \in DOMAIN @ |-> IF i = index + 1 THEN e
                                                       ELSE IF i > index + 1 /\ i <= a.size + 1 THEN @[i - 1]
                                                       ELSE @[i]]]

arraylist_remove(index) ==
    list' = [list EXCEPT !.size = @ - 1,
                         !.data = [i \in DOMAIN @ |-> IF i > index /\ i < list.size THEN @[i + 1]
                                                      ELSE IF i = list.size THEN Unset ELSE @[i]]]

arraylist_set(index, e) == list' = [list EXCEPT !.data[index + 1] = e]

arraylist_clear ==
    list' = [list EXCEPT !.size = 0, !.data = [i \in DOMAIN @ |-> IF i <= list.size THEN Unset ELSE @[i]]]

\* Insertion sort: each key goes behind the last one that is not greater.
arraylist_sort ==
    LET InsertSorted(key, sorted) ==
            LET greater == {i \in DOMAIN sorted : sorted[i] > key}
                j == IF greater = {} THEN Len(sorted) + 1 ELSE Min(greater)
            IN  InsertAt(sorted, j, key)
        keys == FoldLeft(LAMBDA sorted, key : InsertSorted(key, sorted), << >>, SubSeq(list.data, 1, list.size))
    IN  list' = [list EXCEPT !.data = [i \in DOMAIN @ |-> IF i <= list.size THEN keys[i] ELSE @[i]]]

\* The new list, of capacity to - from, takes the place of the old one.
arraylist_sublist(from, to) ==
    list' = [data |-> SubSeq(list.data, from + 1, to), size |-> to - from]

array_push(e) ==
    LET a == resize(list) IN list' = [a EXCEPT !.data[a.size + 1] = e, !.size = @ + 1]

array_pop == list' = [list EXCEPT !.size = @ - 1]

removeAt_array(index) ==
    list' = [list EXCEPT !.size = @ - 1,
                         !.data = [i \in DOMAIN @ |-> IF i > index /\ i < list.size THEN @[i + 1] ELSE @[i]]]

-----------------------------------------------------------------------------
(* The caller                                                              *)

Arrays == {"ArrayList", "DynamicArray"}

ListsInit ==
    /\ class \in Arrays \cup {"LinkedList", "SinglyLinked"}
    /\ list = CASE class = "LinkedList" -> linkedlist_new
                [] class = "SinglyLinked" -> createLinkedList
                [] OTHER -> NewArray(ARRAYLIST_DEFAULT_CAPACITY)
    /\ links = << >> /\ expected = << >>

\* The operations that add e before the element at index, where a list has them.
AddAt(index, e) ==
    /\ Len(expected) < MAX_ITEMS
    /\ \/ class = "LinkedList" /\ linkedlist_add_at(index, e)
       \/ class = "LinkedList" /\ index = 0 /\ link_first(e)
       \/ class = "LinkedList" /\ index = Len(expected) /\ link_last(e)
       \/ class = "SinglyLinked" /\ index = 0 /\ pushFront(e)
       \/ class = "SinglyLinked" /\ index = Len(expected) /\ pushBack(e)
       \/ class = "ArrayList" /\ Len(list.data) > 1 /\ arraylist_add_at(index, e) /\ UNCHANGED links
       \/ class = "DynamicArray" /\ index = Len(expected) /\ array_push(e) /\ UNCHANGED links
    /\ expected' = InsertAt(expected, index + 1, e)

RemoveIndex(index) ==
    /\ \/ class = "LinkedList" /\ unlink(node_at(index))
       \/ class = "SinglyLinked" /\ removeAt_list(index)
       \/ class = "ArrayList" /\ arraylist_remove(index) /\ UNCHANGED links
       \/ class = "DynamicArray" /\ removeAt_array(index) /\ UNCHANGED links
       \/ class = "DynamicArray" /\ index = Len(expected) - 1 /\ array_pop /\ UNCHANGED links
    /\ expected' = RemoveAt(expected, index + 1)

Rearrange ==
    /\ class = "ArrayList" /\ UNCHANGED links
    /\ \/ arraylist_clear /\ expected' = << >>
       \/ arraylist_sort /\ expected' = SortSeq(expected, LAMBDA a, b : a < b)
       \/ \E i \in DOMAIN expected, e \in ListItems :
             arraylist_set(i - 1, e) /\ expected' = [expected EXCEPT ![i] = e]
       \/ \E from, to \in 0 .. Len(expected) :
             from <= to /\ arraylist_sublist(from, to) /\ expected' = SubSeq(expected, from + 1, to)

ListsNext ==
    /\ \/ \E index \in 0 .. Len(expected), e \in ListItems : AddAt(index, e)
       \/ \E index \in 0 .. Len(expected) - 1 : RemoveIndex(index)
       \/ Rearrange
    /\ UNCHANGED class

ListsSpec == ListsInit /\ [][ListsNext]_listVars

-----------------------------------------------------------------------------
(* Properties                                                              *)

Indices == 1 .. Len(expected)

\* After any sequence of insertions and removals anywhere, a list stands for the
\* sequence its callers expect: read from the front, from the back and by index,
\* with every node that is allocated in it and its ends where they belong; an
\* array never ends before its elements.  java_collections/01_ArrayList.c:84-208
\* and 02_LinkedList.c:94-235, 02_LinkedList.c:101-251, 01_Array_ArrayList.c:76-196.
ListsAreSequences ==
    /\ list.size = Len(expected)
    /\ class \in Arrays => Len(expected) <= Len(list.data) /\ \A i \in Indices : list.data[i] = expected[i]
    /\ class = "LinkedList" =>
          /\ Cardinality(DOMAIN links) = Len(expected)
          /\ expected = << >> <=> list.first = NULL
          /\ expected = << >> <=> list.last = NULL
          /\ \A i \in Indices :
                /\ links[Forward(list.first, i - 1)].item = expected[i]
                /\ links[Backward(list.last, i - 1)].item = expected[Len(expected) + 1 - i]
                /\ links[node_at(i - 1)].item = expected[i]
    /\ class = "SinglyLinked" =>
          /\ Cardinality(DOMAIN links) = Len(expected)
          /\ \A i \in Indices : links[Forward(list.head, i - 1)].data = expected[i]

-----------------------------------------------------------------------------
(***************************************************************************)
(* The stacks, queues and heaps of the examples: fixed and circular ones   *)
(* (DataStructure/03_Stack_Queue.c), those that grow                       *)
(* (java_collections/05_Stack_Queue.c), and the heaps (05_Heap.c,          *)
(* 05_Heap.java and the PriorityQueue).  One caller uses one of them.      *)
(* Arrays are indexed from 0, as in the code; what an element that was     *)
(* never written holds is Unwritten.  The queue of 03_Stack_Queue.c that   *)
(* is not circular never uses an index again: its caller here, as in main, *)
(* enqueues no more in all than the capacity.                              *)
(***************************************************************************)

CONSTANTS
    QueueItems,   \* set of natural numbers
    CAPACITY,     \* of those that do not grow, and at first of the others
    MAX_QUEUED,   \* bound: items in one that grows
    Brackets      \* pairs <<open, close>>

Unwritten == 0

ASSUME QueuesAssumption == CAPACITY \in Nat \ {0} /\ QueueItems \subseteq Nat \ {0}

VARIABLES
    kind,    \* the structure that is used
    cells,   \* data[0 .. capacity - 1]
    ends,    \* its indices and its size
    model,   \* auxiliary: the contents as a sequence
    text, balanced   \* the expression the brackets of which are matched

queueVars == <<kind, cells, ends, model, text, balanced>>

Cells(capacity) == [i \in 0 .. capacity - 1 |-> Unwritten]

capacity == Cardinality(DOMAIN cells)

Stacks == {"Stack", "GrowingStack", "brackets"}
Rings == {"CircularQueue", "GrowingQueue"}
Heaps == {"PriorityQueue", "MinHeap", "MinHeap.java"}

Open_brackets == {b[1] : b \in Brackets}
Close_brackets == {b[2] : b \in Brackets}

QueuesInit ==
    /\ kind \in Stacks \cup Rings \cup Heaps \cup {"Queue"}
    /\ cells = IF kind = "MinHeap.java" THEN Cells(0) ELSE Cells(CAPACITY)
    /\ ends = CASE kind \in {"Stack"} -> [top |-> -1]
                [] kind \in {"GrowingStack", "brackets"} -> [top |-> 0]
                [] kind \in {"Queue", "CircularQueue"} -> [front |-> 0, rear |-> -1, size |-> 0]
                [] kind = "GrowingQueue" -> [head |-> 0, tail |-> 0, size |-> 0]
                [] OTHER -> [size |-> 0]
    /\ model = << >> /\ text = << >> /\ balanced = TRUE

-----------------------------------------------------------------------------
(* Stacks: top is the index of the last element, or the number of elements *)

push(e) ==
    IF ends.top >= CAPACITY - 1 THEN UNCHANGED <<cells, ends, model>>
    ELSE /\ ends' = [top |-> ends.top + 1]
         /\ cells' = [cells EXCEPT ![ends.top + 1] = e]
         /\ model' = Append(model, e)

pop ==
    IF ends.top < 0 THEN UNCHANGED <<cells, ends, model>>
    ELSE ends' = [top |-> ends.top - 1] /\ UNCHANGED cells /\ model' = Front(model)

stack_grow == [i \in 0 .. 2 * capacity - 1 |-> IF i < capacity THEN cells[i] ELSE Unwritten]

GrowingStack_push(e) ==
    /\ cells' = [IF ends.top = capacity THEN stack_grow ELSE cells EXCEPT ![ends.top] = e]
    /\ ends' = [top |-> ends.top + 1]
    /\ model' = Append(model, e)

GrowingStack_pop ==
    /\ ends.top > 0
    /\ ends' = [top |-> ends.top - 1] /\ UNCHANGED cells
    /\ model' = Front(model)

\* The loop of demo_stack over an expression: it ends at the first mismatch.
Match(c) ==
    /\ balanced /\ Len(text) < MAX_QUEUED /\ text' = Append(text, c)
    /\ \/ c \in Open_brackets /\ GrowingStack_push(c) /\ UNCHANGED balanced
       \/ c \in Close_brackets /\ ends.top = 0 /\ balanced' = FALSE /\ UNCHANGED <<cells, ends, model>>
       \/ c \in Close_brackets /\ GrowingStack_pop
             /\ balanced' = (<<cells[ends.top - 1], c>> \in Brackets)

-----------------------------------------------------------------------------
(* Queues                                                                  *)

enqueue(e) ==
    IF ends.size >= capacity THEN UNCHANGED <<cells, ends, model>>
    ELSE /\ ends.rear + 1 < capacity
         /\ ends' = [ends EXCEPT !.rear = @ + 1, !.size = @ + 1]
         /\ cells' = [cells EXCEPT ![ends.rear + 1] = e]
         /\ model' = Append(model, e)

dequeue ==
    IF ends.size <= 0 THEN UNCHANGED <<cells, ends, model>>
    ELSE ends' = [ends EXCEPT !.front = @ + 1, !.size = @ - 1] /\ UNCHANGED cells /\ model' = Tail(model)

enqueueCircular(e) ==
    IF ends.size >= capacity THEN UNCHANGED <<cells, ends, model>>
    ELSE LET rear == (ends.rear + 1) % capacity
         IN  /\ ends' = [ends EXCEPT !.rear = rear, !.size = @ + 1]
             /\ cells' = [cells EXCEPT ![rear] = e]
             /\ model' = Append(model, e)

dequeueCircular ==
    IF ends.size <= 0 THEN UNCHANGED <<cells, ends, model>>
    ELSE /\ ends' = [ends EXCEPT !.front = (@ + 1) % capacity, !.size = @ - 1]
         /\ UNCHANGED cells /\ model' = Tail(model)

\* The mutant that copies the array as it lies.
queue_grow_copied ==
    [cells |-> [i \in 0 .. 2 * capacity - 1 |-> IF i < capacity THEN cells[i] ELSE Unwritten],
     ends |-> [ends EXCEPT !.head = 0, !.tail = ends.size]]

\* The elements are copied from the head on, around the end of the old array.
queue_grow ==
    [cells |-> [i \in 0 .. 2 * capacity - 1 |->
                  IF i < ends.size THEN cells[(ends.head + i) % capacity] ELSE Unwritten],
     ends |-> [ends EXCEPT !.head = 0, !.tail = ends.size]]

queue_offer(e) ==
    LET q == IF ends.size = capacity THEN queue_grow ELSE [cells |-> cells, ends |-> ends]
    IN  /\ cells' = [q.cells EXCEPT ![q.ends.tail] = e]
        /\ ends' = [q.ends EXCEPT !.tail = (@ + 1) % Cardinality(DOMAIN q.cells), !.size = @ + 1]
        /\ model' = Append(model, e)

queue_poll ==
    /\ ends.size > 0
    /\ ends' = [ends EXCEPT !.head = (@ + 1) % capacity, !.size = @ - 1]
    /\ UNCHANGED cells /\ model' = Tail(model)

-----------------------------------------------------------------------------
(* Heaps                                                                   *)

Swapped(d, i, j) == [d EXCEPT ![i] = d[j], ![j] = d[i]]

RECURSIVE sift_up(_, _)
sift_up(d, i) ==
    LET parent == (i - 1) \div 2
    IN  IF i = 0 \/ d[parent] <= d[i] THEN d ELSE sift_up(Swapped(d, i, parent), parent)

\* The left child is taken when both are as small.
Smallest(d, n, i) ==
    LET left == 2 * i + 1
        right == 2 * i + 2
        s == IF left < n /\ d[left] < d[i] THEN left ELSE i
    IN  IF right < n /\ d[right] < d[s] THEN right ELSE s

RECURSIVE sift_down(_, _, _)
sift_down(d, n, i) ==
    LET s == Smallest(d, n, i) IN IF s = i THEN d ELSE sift_down(Swapped(d, i, s), n, s)

\* The heap array of a PriorityQueue grows by half.
pq_offer(e) ==
    LET grown == IF ends.size < capacity THEN cells
                 ELSE [i \in 0 .. capacity + capacity \div 2 - 1 |-> IF i < capacity THEN cells[i] ELSE Unwritten]
    IN  /\ cells' = sift_up([grown EXCEPT ![ends.size] = e], ends.size)
        /\ ends' = [size |-> ends.size + 1]

pq_poll ==
    LET n == ends.size - 1
        moved == [cells EXCEPT ![0] = cells[n]]
    IN  /\ cells' = IF n > 0 THEN sift_down(moved, n, 0) ELSE moved
        /\ ends' = [size |-> n]

\* A full MinHeap takes no more.
insert(e) ==
    IF ends.size >= capacity THEN UNCHANGED <<cells, ends>>
    ELSE cells' = sift_up([cells EXCEPT ![ends.size] = e], ends.size) /\ ends' = [size |-> ends.size + 1]

extractMin ==
    LET n == ends.size - 1
    IN  cells' = sift_down([cells EXCEPT ![0] = cells[n]], n, 0) /\ ends' = [size |-> n]

\* In Java the array is a list that ends with the last element.
MinHeap_insert(e) ==
    /\ cells' = sift_up([i \in 0 .. ends.size |-> IF i = ends.size THEN e ELSE cells[i]], ends.size)
    /\ ends' = [size |-> ends.size + 1]

MinHeap_extractMin ==
    LET n == ends.size - 1
        rest == [i \in 0 .. n - 1 |-> IF i = 0 THEN cells[n] ELSE cells[i]]
    IN  cells' = sift_down(rest, n, 0) /\ ends' = [size |-> n]

HeapAdd(e) ==
    /\ \/ kind = "PriorityQueue" /\ pq_offer(e)
       \/ kind = "MinHeap" /\ insert(e)
       \/ kind = "MinHeap.java" /\ MinHeap_insert(e)
    /\ model' = IF ends' = ends THEN model ELSE SortSeq(Append(model, e), LAMBDA a, b : a < b)

HeapTake ==
    /\ ends.size > 0
    /\ \/ kind = "PriorityQueue" /\ pq_poll
       \/ kind = "MinHeap" /\ extractMin
       \/ kind = "MinHeap.java" /\ MinHeap_extractMin
    /\ model' = Tail(model)

-----------------------------------------------------------------------------
(* The caller                                                              *)

Add(e) ==
    /\ Len(model) < MAX_QUEUED
    /\ \/ kind = "Stack" /\ push(e)
       \/ kind = "GrowingStack" /\ GrowingStack_push(e)
       \/ kind = "Queue" /\ enqueue(e)
       \/ kind = "CircularQueue" /\ enqueueCircular(e)
       \/ kind = "GrowingQueue" /\ queue_offer(e)
       \/ kind \in Heaps /\ HeapAdd(e)

Take ==
    \/ kind = "Stack" /\ pop
    \/ kind = "GrowingStack" /\ GrowingStack_pop
    \/ kind = "Queue" /\ dequeue
    \/ kind = "CircularQueue" /\ dequeueCircular
    \/ kind = "GrowingQueue" /\ queue_poll
    \/ kind \in Heaps /\ HeapTake

QueuesNext ==
    \/ (Take \/ \E e \in QueueItems : Add(e)) /\ UNCHANGED <<kind, text, balanced>>
    \/ kind = "brackets" /\ (\E c \in Open_brackets \cup Close_brackets : Match(c)) /\ UNCHANGED kind

QueuesSpec == QueuesInit /\ [][QueuesNext]_queueVars

-----------------------------------------------------------------------------
(* Properties                                                              *)

\* What is in the array, in the order in which it will come out.
RECURSIVE DrainedHeap(_, _)
DrainedHeap(d, n) ==
    IF n = 0 THEN << >>
    ELSE <<d[0]>> \o DrainedHeap(sift_down([d EXCEPT ![0] = d[n - 1]], n - 1, 0), n - 1)

Contents ==
    CASE kind = "Stack" -> [i \in 1 .. ends.top + 1 |-> cells[i - 1]]
      [] kind \in {"GrowingStack", "brackets"} -> [i \in 1 .. ends.top |-> cells[i - 1]]
      [] kind = "Queue" -> [i \in 1 .. ends.size |-> cells[ends.front + i - 1]]
      [] kind = "CircularQueue" -> [i \in 1 .. ends.size |-> cells[(ends.front + i - 1) % capacity]]
      [] kind = "GrowingQueue" -> [i \in 1 .. ends.size |-> cells[(ends.head + i - 1) % capacity]]
      [] OTHER -> DrainedHeap(cells, ends.size)

\* A text is balanced when it is empty, or a balanced text in brackets before another.
RECURSIVE IsBalanced(_)
IsBalanced(t) ==
    t = << >> \/ \E n \in 2 .. Len(t) :
        <<t[1], t[n]>> \in Brackets /\ IsBalanced(SubSeq(t, 2, n - 1)) /\ IsBalanced(SubSeq(t, n + 1, Len(t)))

\* Through every wrap around the end of an array, every growth and every refusal,
\* a stack gives back the last item, a queue the first and a heap the smallest,
\* and the matching of brackets on the stack accepts exactly the balanced texts.
\* 03_Stack_Queue.c:59-278, 05_Heap.c:24-66, 05_Heap.java:84-150,
\* java_collections/05_Stack_Queue.c:58-330.
QueuesKeepTheirOrder ==
    /\ Contents = model
    /\ kind = "brackets" => ((balanced /\ ends.top = 0) <=> IsBalanced(text))
=============================================================================
