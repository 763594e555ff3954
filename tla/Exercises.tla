----------------------------- MODULE Exercises ------------------------------
(***************************************************************************)
(* The heaps, the graph algorithms and the algorithms on sequences of the  *)
(* exercises (DataStructutreAndAlgorithm), against exhaustive definitions  *)
(* of what they compute.                                                   *)
(***************************************************************************)
EXTENDS Integers, Sequences, FiniteSets, SequencesExt, Functions

-----------------------------------------------------------------------------
(***************************************************************************)
(* Heaps in arrays, as several of the examples write them out: the parent  *)
(* of element i of a sequence is element i \div 2.  Elements have a key,   *)
(* by which they are ordered.                                              *)
(***************************************************************************)

LOCAL Swap(h, i, j) == [h EXCEPT ![i] = h[j], ![j] = h[i]]

\* Up while smaller than the parent.
RECURSIVE SiftUp(_, _)
SiftUp(h, i) ==
    IF i = 1 \/ h[i].key >= h[i \div 2].key THEN h
    ELSE SiftUp(Swap(h, i, i \div 2), i \div 2)

\* Down to the smaller child while it is smaller; the left one of two equal ones.
RECURSIVE SiftDown(_, _)
SiftDown(h, i) ==
    LET l == 2 * i
        a == IF l <= Len(h) /\ h[l].key < h[i].key THEN l ELSE i
        s == IF l + 1 <= Len(h) /\ h[l + 1].key < h[a].key THEN l + 1 ELSE a
    IN  IF s = i THEN h ELSE SiftDown(Swap(h, i, s), s)

HeapPushed(h, e) == SiftUp(Append(h, e), Len(h) + 1)

\* The last element takes the place of the first.
HeapPopped(h) ==
    LET n == Len(h) - 1
    IN  IF n = 0 THEN << >> ELSE SiftDown([SubSeq(h, 1, n) EXCEPT ![1] = h[n + 1]], 1)

-----------------------------------------------------------------------------
(***************************************************************************)
(* The graph algorithms of the examples: Dijkstra's (04_Dijkstra.c),       *)
(* breadth and depth first search (03_Graph_BFS_DFS.c), and breadth first  *)
(* search by levels (07_Graph.java).  Edges have two directions; an edge   *)
(* of weight 0 is none.  A step is one round of the main loop.  The second *)
(* example of 04_Dijkstra.c passes an array of 6 columns where 100 are     *)
(* declared, which has no meaning in C; here a matrix is a matrix.         *)
(***************************************************************************)

CONSTANTS
    NODE_COUNT,
    Weights,     \* weights of an edge; 0 is no edge
    INF

Vertices == 0 .. NODE_COUNT - 1

ASSUME GraphAssumption ==
    /\ NODE_COUNT \in Nat \ {0} /\ Weights \subseteq Nat
    /\ \A w \in Weights : w * NODE_COUNT < INF

VARIABLES
    algorithm,
    graph,                       \* graph[u, v]: weight of the edge, or 0
    distance, visited, parent,   \* DijkstraState; the searches use visited
    frontier,                    \* the heap, or the queue of a search
    order,                       \* what a search printed
    level, levelSize, nextLevelSize, levels   \* of the search by levels

graphVars == <<algorithm, graph, distance, visited, parent, frontier, order,
               level, levelSize, nextLevelSize, levels>>

Source == 0

VertexPairs == {<<u, v>> \in Vertices \X Vertices : u < v}

addEdge(edges, u, v) == IF u = v THEN 0 ELSE IF u < v THEN edges[<<u, v>>] ELSE edges[<<v, u>>]

GraphInit ==
    /\ algorithm \in {"dijkstra", "BFS", "DFS", "bfs.java"}
    /\ \E edges \in [VertexPairs -> IF algorithm = "dijkstra" THEN Weights ELSE {0, 1}] :
          graph = [p \in Vertices \X Vertices |-> addEdge(edges, p[1], p[2])]
    /\ distance = [v \in Vertices |-> IF v = Source THEN 0 ELSE INF]
    /\ visited = IF algorithm \in {"BFS", "bfs.java"} THEN {Source} ELSE {}
    /\ parent = [v \in Vertices |-> -1]
    /\ frontier = IF algorithm = "dijkstra" THEN <<[node |-> Source, key |-> 0]>> ELSE <<Source>>
    /\ order = << >>
    /\ level = 0 /\ levelSize = 1 /\ nextLevelSize = 0 /\ levels = [v \in {Source} |-> 0]

Neighbours(u) == SetToSortSeq({v \in Vertices : graph[u, v] # 0}, LAMBDA a, b : a < b)

-----------------------------------------------------------------------------
(* Dijkstra                                                                *)

heap_push(h, v, dist) == HeapPushed(h, [node |-> v, key |-> dist])

heap_pop(h) == HeapPopped(h)

\* The mutant that keeps the first distance found for a node.
Relaxed_first(u) == {v \in Vertices \ visited : graph[u, v] # 0 /\ distance[v] = INF}

\* The nodes that are reached on a shorter way through u.
Relaxed(u) == {v \in Vertices \ visited : graph[u, v] # 0 /\ distance[u] + graph[u, v] < distance[v]}

\* A node that was visited since it was pushed is skipped.
dijkstra ==
    /\ algorithm = "dijkstra" /\ frontier # << >>
    /\ LET u == Head(frontier).node
           better == SetToSortSeq(Relaxed(u) \ {u}, LAMBDA a, b : a < b)
           via(v) == distance[u] + graph[u, v]
       IN  IF u \in visited
           THEN frontier' = heap_pop(frontier) /\ UNCHANGED <<visited, distance, parent>>
           ELSE /\ visited' = visited \cup {u}
                /\ distance' = [v \in Vertices |-> IF v \in ToSet(better) THEN via(v) ELSE distance[v]]
                /\ parent' = [v \in Vertices |-> IF v \in ToSet(better) THEN u ELSE parent[v]]
                /\ frontier' = FoldLeft(LAMBDA h, v : heap_push(h, v, via(v)), heap_pop(frontier), better)
    /\ UNCHANGED <<algorithm, graph, order, level, levelSize, nextLevelSize, levels>>

-----------------------------------------------------------------------------
(* The searches                                                            *)

\* A node is marked when it is queued, and printed when it is dequeued.
BFS ==
    /\ algorithm = "BFS" /\ frontier # << >>
    /\ LET node == Head(frontier)
           found == SelectSeq(Neighbours(node), LAMBDA v : v \notin visited)
       IN  /\ visited' = visited \cup ToSet(found)
           /\ frontier' = Tail(frontier) \o found
           /\ order' = Append(order, node)
    /\ UNCHANGED <<algorithm, graph, distance, parent, level, levelSize, nextLevelSize, levels>>

\* A node is printed when it is queued, on the level of the nodes that are counted.
bfs_levels ==
    /\ algorithm = "bfs.java" /\ frontier # << >>
    /\ LET node == Head(frontier)
           found == SelectSeq(Neighbours(node), LAMBDA v : v \notin visited)
           next == nextLevelSize + Len(found)
           done == levelSize = 1 /\ Tail(frontier) \o found # << >>
       IN  /\ visited' = visited \cup ToSet(found)
           /\ frontier' = Tail(frontier) \o found
           /\ levels' = [v \in DOMAIN levels \cup ToSet(found) |->
                           IF v \in DOMAIN levels THEN levels[v] ELSE level + 1]
           /\ level' = IF done THEN level + 1 ELSE level
           /\ levelSize' = IF done THEN next ELSE levelSize - 1
           /\ nextLevelSize' = IF done THEN 0 ELSE next
    /\ UNCHANGED <<algorithm, graph, distance, parent, order>>

\* The nodes a call prints, given those printed before.
RECURSIVE DFSUtil(_, _)
DFSUtil(node, printed) ==
    FoldLeft(LAMBDA seen, v : IF v \in ToSet(seen) THEN seen ELSE DFSUtil(v, seen),
             Append(printed, node), Neighbours(node))

DFS ==
    /\ algorithm = "DFS" /\ frontier # << >>
    /\ order' = DFSUtil(Source, << >>)
    /\ frontier' = << >>
    /\ visited' = ToSet(DFSUtil(Source, << >>))
    /\ UNCHANGED <<algorithm, graph, distance, parent, level, levelSize, nextLevelSize, levels>>

\* findConnectedComponents: each node that is not yet visited starts a component.
Components ==
    FoldLeft(LAMBDA cs, v : IF \E c \in ToSet(cs) : v \in ToSet(c) THEN cs ELSE Append(cs, DFSUtil(v, << >>)),
             << >>, [i \in 1 .. NODE_COUNT |-> i - 1])

GraphNext == dijkstra \/ BFS \/ bfs_levels \/ DFS

GraphSpec == GraphInit /\ [][GraphNext]_graphVars

-----------------------------------------------------------------------------
(* Properties                                                              *)

\* Shortest ways of at most n edges, as a reference.
Within[n \in 0 .. NODE_COUNT, v \in Vertices] ==
    IF n = 0 THEN IF v = Source THEN 0 ELSE INF
    ELSE Min({Within[n - 1, v]} \cup {Within[n - 1, u] + graph[u, v] : u \in {u \in Vertices : graph[u, v] # 0}})

Shortest(v) == LET d == Within[NODE_COUNT, v] IN IF d >= INF THEN INF ELSE d

ReachableVertices == {v \in Vertices : Shortest(v) < INF}

Finished == frontier = << >>

\* A node that Dijkstra has visited has its final, shortest distance, however often
\* it was pushed, and its parent is on such a way; at the end all have.  Breadth
\* first prints the nodes in the order of their distance, and the levels that
\* 07_Graph.java counts are those distances; both searches print what can be reached,
\* once, and the components are the classes of nodes that reach one another.
\* 04_Dijkstra.c:58-158, 03_Graph_BFS_DFS.c:47-81, 07_Graph.java:95-203.
SearchesAreRight ==
    /\ algorithm = "dijkstra" =>
          \A v \in IF Finished THEN Vertices ELSE visited :
              /\ distance[v] = Shortest(v)
              /\ v # Source /\ distance[v] < INF =>
                    parent[v] # -1 /\ distance[v] = Shortest(parent[v]) + graph[parent[v], v]
    /\ algorithm \in {"BFS", "DFS"} =>
          /\ Len(order) = Cardinality(ToSet(order))
          /\ Finished => ToSet(order) = ReachableVertices
          /\ algorithm = "BFS" =>
                \A i, j \in DOMAIN order : i < j => Shortest(order[i]) <= Shortest(order[j])
    /\ algorithm = "bfs.java" =>
          /\ \A v \in DOMAIN levels : levels[v] = Shortest(v)
          /\ Finished => DOMAIN levels = ReachableVertices
    /\ algorithm = "DFS" /\ ~ Finished =>
          /\ \E c \in ToSet(Components) : ToSet(c) = ReachableVertices
          /\ \A v \in Vertices : Cardinality({i \in DOMAIN Components : v \in ToSet(Components[i])}) = 1
          /\ \A u, v \in Vertices : graph[u, v] # 0 =>
                \E c \in ToSet(Components) : {u, v} \subseteq ToSet(c)

-----------------------------------------------------------------------------
(***************************************************************************)
(* The algorithms of the examples that work on one caller's data:          *)
(* 02_Sorting.c, 01_Binary_Search.c, 05_DynamicProgramming.c, 06_Greedy.c  *)
(* and 07_Backtracking.c.  A behaviour is one call: task is what it is     *)
(* given, answer what it returns.  Arrays are sequences, whose first index *)
(* is 1.  qsort leaves elements that compare equal in any order.           *)
(***************************************************************************)

CONSTANTS
    Tasks,           \* the calls: records with an algorithm and its arguments
    MAX_SOLUTIONS,   \* solutions that are kept
    BOX              \* side of a box of the sudoku, 3 in the code

VARIABLES task, answered, answer

taskVars == <<task, answered, answer>>

NoAnswer == << >>

TaskInit == task \in Tasks /\ answered = FALSE /\ answer = NoAnswer

Exchanged(a, i, j) == [a EXCEPT ![i] = a[j], ![j] = a[i]]

LOCAL Sum(s) == FoldLeft(LAMBDA x, y : x + y, 0, s)

-----------------------------------------------------------------------------
(* Sorting and searching                                                   *)

\* Elements smaller than the last are swapped to the front; the place of the pivot is returned.
partition(a, low, high) ==
    LET part == FoldLeft(LAMBDA p, j : IF p.a[j] < a[high]
                                       THEN [a |-> Exchanged(p.a, p.i + 1, j), i |-> p.i + 1] ELSE p,
                         [a |-> a, i |-> low - 1], [k \in 1 .. high - low |-> low + k - 1])
    IN  [a |-> Exchanged(part.a, part.i + 1, high), pi |-> part.i + 1]

RECURSIVE quickSort(_, _, _)
quickSort(a, low, high) ==
    IF low >= high THEN a
    ELSE LET p == partition(a, low, high)
         IN  quickSort(quickSort(p.a, low, p.pi - 1), p.pi + 1, high)

RECURSIVE merge(_, _)
merge(L, R) ==
    IF L = << >> \/ R = << >> THEN L \o R
    ELSE IF Head(L) <= Head(R) THEN <<Head(L)>> \o merge(Tail(L), R)
    ELSE <<Head(R)>> \o merge(L, Tail(R))

RECURSIVE mergeSort(_)
mergeSort(a) ==
    IF Len(a) <= 1 THEN a
    ELSE LET mid == (Len(a) + 1) \div 2
         IN  merge(mergeSort(SubSeq(a, 1, mid)), mergeSort(SubSeq(a, mid + 1, Len(a))))

Sort ==
    /\ task.algorithm = "sort"
    /\ answer' = [quick |-> quickSort(task.a, 1, Len(task.a)), merge |-> mergeSort(task.a)]

RECURSIVE binarySearch(_, _, _, _)
binarySearch(a, target, left, right) ==
    LET mid == left + (right - left) \div 2
    IN  IF left > right THEN -1
        ELSE IF a[mid] = target THEN mid
        ELSE IF a[mid] < target THEN binarySearch(a, target, mid + 1, right)
        ELSE binarySearch(a, target, left, mid - 1)

\* Goes on to the left of what it has found.
RECURSIVE findFirst(_, _, _, _, _)
findFirst(a, target, left, right, result) ==
    LET mid == left + (right - left) \div 2
    IN  IF left > right THEN result
        ELSE IF a[mid] = target THEN findFirst(a, target, left, mid - 1, mid)
        ELSE IF a[mid] < target THEN findFirst(a, target, mid + 1, right, result)
        ELSE findFirst(a, target, left, mid - 1, result)

Search ==
    /\ task.algorithm = "search"
    /\ LET n == Len(task.a)
       IN  answer' = [any |-> binarySearch(task.a, task.target, 1, n),
                      first |-> findFirst(task.a, task.target, 1, n, -1)]

-----------------------------------------------------------------------------
(* Dynamic programming                                                     *)

\* The cache and the value; what is cached is not computed again.
RECURSIVE fibonacci_memo(_, _)
fibonacci_memo(n, m) ==
    IF n <= 1 THEN [value |-> n, cache |-> m]
    ELSE IF n \in DOMAIN m THEN [value |-> m[n], cache |-> m]
    ELSE LET a == fibonacci_memo(n - 1, m)
             b == fibonacci_memo(n - 2, a.cache)
             v == a.value + b.value
         IN  [value |-> v,
              cache |-> [i \in DOMAIN b.cache \cup {n} |-> IF i = n THEN v ELSE b.cache[i]]]

fibonacci_tab(n) ==
    FoldLeft(LAMBDA dp, i : Append(dp, dp[i] + dp[i - 1]), <<0, 1>>, [i \in 1 .. n - 1 |-> i + 1])[n + 1]

Fibonacci ==
    /\ task.algorithm = "fibonacci"
    /\ answer' = [memo |-> fibonacci_memo(task.n, << >>).value, tab |-> fibonacci_tab(task.n)]

\* The best value of the first i items in a capacity of w.
KnapsackTable(weights, values, capacity) ==
    LET dp[i \in 0 .. Len(weights), w \in 0 .. capacity] ==
            IF i = 0 THEN 0
            ELSE LET without == dp[i - 1, w]
                 IN  IF weights[i] <= w /\ values[i] + dp[i - 1, w - weights[i]] > without
                     THEN values[i] + dp[i - 1, w - weights[i]] ELSE without
    IN  dp

\* From the last item on: one is taken when the value differs without it.
RECURSIVE TakenItems(_, _, _, _)
TakenItems(dp, weights, i, w) ==
    IF i = 0 THEN {}
    ELSE IF dp[i, w] # dp[i - 1, w]
    THEN {i} \cup TakenItems(dp, weights, i - 1, w - weights[i])
    ELSE TakenItems(dp, weights, i - 1, w)

knapsack_solve ==
    /\ task.algorithm = "knapsack"
    /\ LET dp == KnapsackTable(task.weights, task.values, task.capacity)
           n == Len(task.weights)
       IN  answer' = [best |-> dp[n, task.capacity],
                      taken |-> TakenItems(dp, task.weights, n, task.capacity)]

coin_change ==
    /\ task.algorithm = "coins"
    /\ LET none == task.amount + 1
           dp[i \in 0 .. task.amount] ==
               IF i = 0 THEN 0
               ELSE FoldLeft(LAMBDA least, c : IF c <= i /\ dp[i - c] + 1 < least THEN dp[i - c] + 1 ELSE least,
                             none, task.coins)
       IN  answer' = IF dp[task.amount] > task.amount THEN -1 ELSE dp[task.amount]

lcs_length ==
    /\ task.algorithm = "lcs"
    /\ LET dp[i \in 0 .. Len(task.str1), j \in 0 .. Len(task.str2)] ==
               IF i = 0 \/ j = 0 THEN 0
               ELSE IF task.str1[i] = task.str2[j] THEN dp[i - 1, j - 1] + 1
               ELSE IF dp[i - 1, j] > dp[i, j - 1] THEN dp[i - 1, j] ELSE dp[i, j - 1]
       IN  answer' = dp[Len(task.str1), Len(task.str2)]

-----------------------------------------------------------------------------
(* Greedy algorithms                                                       *)

\* The orders qsort may leave a in.
SortedBy(a, Before(_, _)) ==
    {s \in {[i \in DOMAIN a |-> a[p[i]]] : p \in Permutations(DOMAIN a)} :
        \A i, j \in DOMAIN s : i < j => ~ Before(s[j], s[i])}

\* The mutant that lets no activity start when another ends.
Selected_strict(s) ==
    FoldLeft(LAMBDA chosen, a : IF chosen = << >> \/ a.start > Last(chosen).end THEN Append(chosen, a) ELSE chosen,
             << >>, s)

\* The first, and each that starts when the last one has ended.
Selected(s) ==
    FoldLeft(LAMBDA chosen, a : IF chosen = << >> \/ a.start >= Last(chosen).end THEN Append(chosen, a) ELSE chosen,
             << >>, s)

activity_selection ==
    /\ task.algorithm = "activities"
    /\ \E s \in SortedBy(task.list, LAMBDA a, b : a.end < b.end) : answer' = Selected(s)

min_heap_push(h, freq, leaves) == HeapPushed(h, [key |-> freq, leaves |-> leaves])

min_heap_pop(h) == HeapPopped(h)

\* The two rarest nodes become one until there is one; leaves gives the depth of each.
RECURSIVE Merged(_)
Merged(heap) ==
    IF Len(heap) <= 1 THEN heap
    ELSE LET left == Head(heap)
             rest == min_heap_pop(heap)
             right == Head(rest)
             deeper == {<<l[1], l[2] + 1>> : l \in left.leaves \cup right.leaves}
         IN  Merged(min_heap_push(min_heap_pop(rest), left.key + right.key, deeper))

huffman_coding ==
    /\ task.algorithm = "huffman"
    /\ LET heap == FoldLeft(LAMBDA h, i : min_heap_push(h, task.freqs[i], {<<i, 0>>}),
                            << >>, [i \in DOMAIN task.freqs |-> i])
       IN  answer' = Head(Merged(heap)).leaves

\* Values are in units of one WEIGHTS-th, such that a fraction of an item has a whole value.
FractionUnits == 12

\* Whole items as long as they fit, a part of the next, and no more.
Filled(items, capacity) ==
    FoldLeft(LAMBDA k, it :
                IF k.stopped THEN k
                ELSE IF k.remaining >= it.weight
                THEN [k EXCEPT !.total = @ + FractionUnits * it.value, !.remaining = @ - it.weight]
                ELSE IF k.remaining > 0
                THEN [total |-> k.total + (FractionUnits * it.value * k.remaining) \div it.weight,
                      remaining |-> 0, stopped |-> TRUE]
                ELSE k,
             [total |-> 0, remaining |-> capacity, stopped |-> FALSE], items).total

fractional_knapsack ==
    /\ task.algorithm = "fractions"
    /\ \E s \in SortedBy(task.items, LAMBDA a, b : a.value * b.weight > b.value * a.weight) :
          answer' = Filled(s, task.capacity)

\* Each job, the most profitable first, into the latest free slot before its deadline.
Scheduled(jobs) ==
    FoldLeft(LAMBDA schedule, job :
                LET free == {j \in 1 .. job.deadline : j \notin DOMAIN schedule}
                IN  IF free = {} THEN schedule
                    ELSE [j \in DOMAIN schedule \cup {Max(free)} |-> IF j = Max(free) THEN job ELSE schedule[j]],
             << >>, jobs)

job_sequencing ==
    /\ task.algorithm = "jobs"
    /\ \E s \in SortedBy(task.jobs, LAMBDA a, b : a.profit > b.profit) : answer' = Scheduled(s)

-----------------------------------------------------------------------------
(* Backtracking                                                            *)

\* All solutions are counted; the first MAX_SOLUTIONS are kept.
Kept(all) ==
    [kept |-> SubSeq(all, 1, IF Len(all) < MAX_SOLUTIONS THEN Len(all) ELSE MAX_SOLUTIONS),
     count |-> Len(all)]

AbsDiff(a, b) == IF a > b THEN a - b ELSE b - a

\* Rows and columns are counted from 1; board holds the rows that have their queen.
is_safe(board, col) ==
    LET row == Len(board) + 1
    IN  \A i \in DOMAIN board : board[i] # col /\ AbsDiff(board[i], col) # row - i

RECURSIVE solve_queens(_, _)
solve_queens(board, n) ==
    IF Len(board) = n THEN <<board>>
    ELSE FlattenSeq([col \in 1 .. n |->
             IF is_safe(board, col) THEN solve_queens(Append(board, col), n) ELSE << >>])

Queens ==
    /\ task.algorithm = "queens"
    /\ answer' = Kept(solve_queens(<< >>, task.n))

Side == BOX * BOX
SudokuCells == (0 .. Side - 1) \X (0 .. Side - 1)

\* SudokuCells of the row, the column and the box of one cell.
Peers(cell) ==
    {c \in SudokuCells : c[1] = cell[1] \/ c[2] = cell[2]
                          \/ (c[1] \div BOX = cell[1] \div BOX /\ c[2] \div BOX = cell[2] \div BOX)}

is_valid(board, cell, num) == \A c \in Peers(cell) : board[c] # num

\* The first empty cell takes each number that is valid; the board is empty there
\* again when none leads to a solution.
RECURSIVE solve_sudoku(_)
solve_sudoku(board) ==
    LET empty == {c \in SudokuCells : board[c] = 0}
        cell == CHOOSE c \in empty : \A d \in empty : c[1] < d[1] \/ (c[1] = d[1] /\ c[2] <= d[2])
    IN  IF empty = {} THEN [solved |-> TRUE, board |-> board]
        ELSE FoldLeft(LAMBDA result, num :
                         IF result.solved \/ ~ is_valid(board, cell, num) THEN result
                         ELSE LET tried == solve_sudoku([board EXCEPT ![cell] = num])
                              IN  IF tried.solved THEN tried ELSE result,
                      [solved |-> FALSE, board |-> board], [num \in 1 .. Side |-> num])

Sudoku ==
    /\ task.algorithm = "sudoku"
    /\ answer' = solve_sudoku(task.board)

\* Every element of the rest comes first once, and is put back.
RECURSIVE generate_permutations(_, _)
generate_permutations(arr, start) ==
    IF start = Len(arr) THEN <<arr>>
    ELSE FlattenSeq([i \in 1 .. Len(arr) - start + 1 |->
             generate_permutations(Exchanged(arr, start, start + i - 1), start + 1)])

PermutationsOf ==
    /\ task.algorithm = "permutations"
    /\ answer' = Kept(generate_permutations(task.arr, 1))

\* With the element at index, then without; current holds the indices that are in.
RECURSIVE find_subsets(_, _, _, _)
find_subsets(arr, index, current, missing) ==
    IF missing = 0 THEN <<current>>
    ELSE IF index > Len(arr) \/ missing < 0 THEN << >>
    ELSE find_subsets(arr, index + 1, Append(current, index), missing - arr[index])
           \o find_subsets(arr, index + 1, current, missing)

SubsetSums ==
    /\ task.algorithm = "subsets"
    /\ answer' = Kept(find_subsets(task.arr, 1, << >>, task.target))

-----------------------------------------------------------------------------

TaskNext ==
    /\ ~ answered /\ answered' = TRUE
    /\ \/ Sort \/ Search
       \/ Fibonacci \/ knapsack_solve \/ coin_change \/ lcs_length
       \/ activity_selection \/ huffman_coding \/ fractional_knapsack \/ job_sequencing
       \/ Queens \/ Sudoku \/ PermutationsOf \/ SubsetSums
    /\ UNCHANGED task

TaskSpec == TaskInit /\ [][TaskNext]_taskVars

-----------------------------------------------------------------------------
(* What the answers are measured against                                   *)

Answered(call) == task.algorithm = call /\ answered

Occurrences(a, x) == Cardinality({i \in DOMAIN a : a[i] = x})

IsSortingOf(s, a) ==
    /\ DOMAIN s = DOMAIN a
    /\ \A i \in DOMAIN a : Occurrences(s, a[i]) = Occurrences(a, a[i])
    /\ \A i, j \in DOMAIN s : i < j => s[i] <= s[j]

LOCAL SumOf(S, f(_)) == FoldSet(LAMBDA x, sum : f(x) + sum, 0, S)

Best(S, value(_)) == Max({value(x) : x \in S})

Subsequence(a, I) == [k \in 1 .. Cardinality(I) |-> a[SetToSortSeq(I, LAMBDA i, j : i < j)[k]]]

\* The least cost of merging nodes of these frequencies into one, in any order.
RECURSIVE LeastMerge(_)
LeastMerge(f) ==
    IF Len(f) <= 1 THEN 0
    ELSE Min({LET i == p[1]
                  j == p[2]
                  both == f[i] + f[j]
                  rest == SelectSeq([k \in DOMAIN f |-> IF k \in {i, j} THEN -1 ELSE f[k]], LAMBDA x : x # -1)
              IN  both + LeastMerge(Append(rest, both)) : p \in {p \in (DOMAIN f) \X (DOMAIN f) : p[1] < p[2]}})

SearchIsRight ==
    /\ Answered("sort") => IsSortingOf(answer.quick, task.a) /\ answer.merge = answer.quick
    /\ Answered("search") =>
          LET at == {i \in DOMAIN task.a : task.a[i] = task.target}
          IN  IF at = {} THEN answer = [any |-> -1, first |-> -1]
              ELSE answer.any \in at /\ answer.first = Min(at)

Fib[n \in Nat] == IF n <= 1 THEN n ELSE Fib[n - 1] + Fib[n - 2]

Weight(I) == SumOf(I, LAMBDA i : task.weights[i])
Value(I) == SumOf(I, LAMBDA i : task.values[i])

\* Ways to pay: how often each coin is used.
Payments ==
    {use \in [DOMAIN task.coins -> 0 .. task.amount] :
        SumOf(DOMAIN use, LAMBDA c : use[c] * task.coins[c]) = task.amount}

Coins(use) == SumOf(DOMAIN use, LAMBDA c : use[c])

CommonSubsequences(a, b) ==
    {Subsequence(a, I) : I \in SUBSET DOMAIN a} \cap {Subsequence(b, I) : I \in SUBSET DOMAIN b}

TablesAreRight ==
    /\ Answered("fibonacci") => answer.memo = Fib[task.n] /\ answer.tab = Fib[task.n]
    /\ Answered("knapsack") =>
          /\ answer.best = Max({Value(I) : I \in {I \in SUBSET DOMAIN task.weights : Weight(I) <= task.capacity}})
          /\ Weight(answer.taken) <= task.capacity /\ Value(answer.taken) = answer.best
    /\ Answered("coins") => answer = IF Payments = {} THEN -1 ELSE Min({Coins(use) : use \in Payments})
    /\ Answered("lcs") => answer = Max({Len(c) : c \in CommonSubsequences(task.str1, task.str2)})

Apart(a, b) == a.end <= b.start \/ b.end <= a.start

\* The most that whole items and a part of one more can be worth.
BestFraction(items, capacity) ==
    LET weight(I) == SumOf(I, LAMBDA i : items[i].weight)
        value(I) == FractionUnits * SumOf(I, LAMBDA i : items[i].value)
        part(I, i) == LET room == capacity - weight(I)
                      IN  IF room >= items[i].weight THEN FractionUnits * items[i].value
                          ELSE (FractionUnits * items[i].value * room) \div items[i].weight
        fitting == {I \in SUBSET DOMAIN items : weight(I) <= capacity}
    IN  Max({value(I) : I \in fitting}
              \cup UNION {{value(I) + part(I, i) : i \in DOMAIN items \ I} : I \in fitting})

\* Jobs that can all be done: by each time not more are due than there are slots.
Feasible(I) == \A t \in 1 .. Len(task.jobs) : Cardinality({i \in I : task.jobs[i].deadline <= t}) <= t

GreedyIsBest ==
    /\ Answered("activities") =>
          /\ \A i, j \in DOMAIN answer : i < j => Apart(answer[i], answer[j])
          /\ Len(answer) = Max({Cardinality(I) : I \in {I \in SUBSET DOMAIN task.list :
                                   \A i, j \in I : i # j => Apart(task.list[i], task.list[j])}})
    /\ Answered("huffman") =>
          SumOf(answer, LAMBDA l : task.freqs[l[1]] * l[2]) = LeastMerge(task.freqs)
    /\ Answered("fractions") => answer = BestFraction(task.items, task.capacity)
    /\ Answered("jobs") =>
          /\ \A t \in DOMAIN answer : t <= answer[t].deadline
          /\ SumOf(DOMAIN answer, LAMBDA t : answer[t].profit)
               = Max({SumOf(I, LAMBDA i : task.jobs[i].profit) : I \in {I \in SUBSET DOMAIN task.jobs : Feasible(I)}})

Queenly(b) == \A i, j \in DOMAIN b : i < j => b[i] # b[j] /\ AbsDiff(b[i], b[j]) # j - i

\* found holds every element of S, once, as long as there is room.
Finds(found, S) ==
    /\ found.count = Cardinality(S)
    /\ ToSet(found.kept) \subseteq S /\ Cardinality(ToSet(found.kept)) = Len(found.kept)
    /\ Len(found.kept) = IF Cardinality(S) < MAX_SOLUTIONS THEN Cardinality(S) ELSE MAX_SOLUTIONS

Proper(b) == \A c, d \in SudokuCells : c # d /\ d \in Peers(c) => b[c] # b[d]

Empty(b) == {c \in SudokuCells : b[c] = 0}

\* A number that no completion of the board has in some empty cell is found by trying all.
Completions(b) ==
    {f \in {[c \in SudokuCells |-> IF c \in Empty(b) THEN g[c] ELSE b[c]] : g \in [Empty(b) -> 1 .. Side]} : Proper(f)}

SearchesAreExhaustive ==
    /\ Answered("queens") => Finds(answer, {b \in [1 .. task.n -> 1 .. task.n] : Queenly(b)})
    /\ Answered("sudoku") =>
          IF Completions(task.board) = {} THEN answer = [solved |-> FALSE, board |-> task.board]
          ELSE answer.solved /\ answer.board \in Completions(task.board)
    /\ Answered("permutations") =>
          Finds(answer, {[i \in DOMAIN task.arr |-> task.arr[p[i]]] : p \in Permutations(DOMAIN task.arr)})
    /\ Answered("subsets") =>
          Finds(answer, {SetToSortSeq(I, LAMBDA i, j : i < j) : I \in
                          {I \in SUBSET DOMAIN task.arr : SumOf(I, LAMBDA i : task.arr[i]) = task.target}})

\* What the algorithms return is right, measured against all there is to choose from:
\* both sorts give a sorted permutation, a search some and the first index of what is
\* there; the tables give the best value, and the items read back from them are worth
\* it; each greedy choice is as good as the best choice, in whatever order qsort leaves
\* equals; backtracking finds every solution once, keeps the first MAX_SOLUTIONS and
\* leaves a board that has no solution as it was.
\* 02_Sorting.c:7-62, 01_Binary_Search.c:5-27, 05_DynamicProgramming.c:61-224,
\* 06_Greedy.c:71-390, 07_Backtracking.c:60-342.
ChoicesAreBest == SearchIsRight /\ TablesAreRight /\ GreedyIsBest /\ SearchesAreExhaustive
=============================================================================
