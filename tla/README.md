# Models and proofs for Nature_Of_IT

This directory holds TLA+ models of the programs of the repository that keep state,
or compute something that can be done wrong, the TLC configurations that check them
on small instances, and theorems about most of those that share memory, wait or survive crashes, which
TLAPS proves for every size.

Nature_Of_IT is a collection of programs, most of them in C, each of which shows
how one kind of infrastructure works: a database in seven phases, memory
management and threads in ten, Spring and Spring Boot rebuilt in C, an operating
system for a person's day, a web server, a Java virtual machine, exercises on data
structures, algorithms and networking, the message translation of a bank's ATM
switch. The phases share ideas but hardly any code: with few exceptions a source
file is a program or a library of its own.

## How to run it

    tlc -config LockManager_readers.cfg LockManager.tla       # any run below
    tlapm ThreadPool_proof.tla                                # any proof module

`PROJECT.json` lists the components, the runs, the mutants (a plausible bug for
each property, which must break it), the source lines behind each definition,
the hazards and the theorems. The source lines are those of whole operations: a helper
that stands for some lines of the operation that uses it has no entry of its own.

## The system and its models

### The database (`Database/Oracle/C`)

| Part | Module | State | What is hard |
|---|---|---|---|
| Record store, phase 1 | `RecordStore`, of `KeyValueStore` | chains of a hash table, the file | a save that is cut short anywhere; a load that clears first |
| Index, phase 2 | `BPlusTree` | nodes, links between leaves | splits on the way down |
| Lexer and parser, phase 3 | `SqlFrontEnd` | position, buffers, tree | one shared position through optional parts and lists |
| Buffer pool, phase 4 | `BufferPool`, of `PageStore` | frames, page table, LRU list, free list, file | four structures that must agree; pins; failing reads and writes |
| Log, transactions, checkpoints, phase 5 | `WriteAheadLog`, of `DurableLog` | entries, flush marks, LSNs, clients | what is on disk when a commit returns; a full log |
| Recovery, phase 5 | `Recovery` (extends `WriteAheadLog`) | counters | which entries each phase visits |
| Lock manager, phase 6 | `LockManager`, of `LockTable` | lock table, holders, queues | four answers, arrays that fill up, a counter beside an array |
| Deadlock detector, phase 6 | `DeadlockDetector` | edges, transactions, policy | search and victim work on different lists |
| Versions, phase 6 | `MVCC` | chains, read sets | collection while others point at versions |
| Connection pool, server, protocol, phase 7 | `ConnectionPools`, of `ConnectionLease` | slots, counters; connections; a stream | four operations maintain two counters; elements that are closed stay |

The phases are meant to be layers, but they are not linked to each other: the lock
manager does not call the deadlock detector or the version manager, the log knows
nothing of the buffer pool, redo and undo only count and print ("In a real
implementation, would apply the write"), and server and protocol do not call one
another. Within a phase the parts call each other directly, and the modules compose
them: `WriteAheadLog` joins `wal.c`, `log_manager.c`, `checkpoint.c` and
`transaction.c`, and `Recovery` reads what they wrote; `BufferPool` joins
`buffer_pool.c`, `lru.c` and `disk_manager.c`, since one fetch changes all three;
`RecordStore` joins `storage.c` and `serializer.c`. The database code has no lock of
its own: a call runs to its end, a step of a model is a call, and the interleaving
is that of the calls of several clients.

### Memory management and threads (`Platform/MemoryManagement`)

| Part | Module | A step is | What is hard |
|---|---|---|---|
| Heap and stack, phase 1; visibility, phase 3; thread life cycle, phase 4 | `JavaMachine` | a load, a store, an allocation, a collection | what may still be read of a location; states written by two threads |
| Collector, phase 2 | `JavaMachine` | one grey object, a sweep, a compaction | cycles; an object blackened too early |
| Monitor queue, phase 5; latch, phase 6 | `Synchronizers` | a critical section, or an atomic operation | one condition for two kinds of waiters; a count that falls outside the mutex |
| Lock-free stack, phase 6 | `LockFreeStack`, of `LifoStack` | an atomic operation | a head read before; addresses used again |
| Thread pool, phase 7 | `ThreadPool`, of `TaskExecutor` | a critical section, or an atomic operation | wake-ups; a shutdown that races with submitters |
| Hash map, phase 8 | `ConcurrentMap` | a critical section; a read of one node, or half a value | readers take no lock |
| Asynchronous requests, phase 9 | `Synchronizers`, of `TaskExecutor` | a critical section | workers that still work while the pool closes |
| Connection starvation, phase 10 | `Synchronizers` | a critical section or a deadline | a timeout that races with a signal |

These are the programs with POSIX threads, mutexes, conditions and C11 atomics. A
signal wakes any one sleeper, a broadcast all of them, and wherever the code waits in
a loop wake-ups for no reason are modelled too.

### The other programs

 - `SpringContainers`: bean factory (Spring phase 1), injection (2), proxy chain (5).
   `SpringRuntime`: scanner (Spring 3), dispatcher (Spring 4), application start
   (Spring Boot 1), property binder (3), embedded server (4), meters and health (6),
   tracing (10). `SpringBoot`: auto-configuration (2), graceful shutdown (8). The
   pool of Spring phase 6 is the second part of `ConnectionPools` and implements the
   same `ConnectionLease`. Each is called by one thread; what is hard is the order of
   the calls, tables that fill up, and decisions that are made once.
 - `SelectServer`: the event loop of the web server's phase 3 with its table of
   connections and the browsers. What is hard: a report of `select` that is used
   while browsers go on, responses prepared a round later and written another round
   later, descriptors that are used again.
 - `NetworkServices`: message queue (of `MessageBroker`), load balancer, topics,
   services behind circuit breakers, name server, content delivery, client and server,
   router with a cache, web sockets. `DistributedCache`: keys on a ring of nodes that
   grows.
 - `Dictionaries`, `LinearStructures`, `Exercises`: the exercises on data structures
   and algorithms and the collections in `JavaVirtualMachine/examples`, as operators
   and small machines, against what a reader expects of them: functions, sequences,
   orders, or an exhaustive search for the best answer.
 - `HumanOS`: task table (phase 1), day planner (2), learning (5), the whole (6).
 - `Iso8583`: the translation between the card network's messages and the host's.
 - `JavaMachine`, next to last part: the instructions of the interpreter, an action
   each over the operand stack, the locals, the pc and the heap's next free place.
   `interpreter_run` calls none of them yet, so here they run eight small methods as
   javac would compile them (`SumCode` to `ObjectsCode`, the instruction at each pc);
   methods and dispatch are marked external. A `long` is an integer: overflow is
   left out.

Names follow the source. Operators whose names carry a suffix, such as
`tq_put_silent`, are the faulty variants used as mutants; no specification uses them.

## The runs

Most programs share nothing, so several are checked in one run: `MCDatabase`,
`MCShared`, `MCPrograms` and `MCServices` have a variable `program` that picks one of
them at the start, and the variables of the others stay as they are. A behaviour is
then a behaviour of one program, and the states of the run are the sum of theirs, not
the product. A property of such a run is a property of one program, or a conjunction
with one conjunct per program, each defined and explained in its own module.

### lock_readers

Three transactions, two resources, one table entry, a queue of two.
Three transactions are the fewest that give two readers and a writer in conflict;
one entry and a queue of two both fill up. `HoldersConsistent` (counter, readers and
writer agree), `AnswersStayTrue` (who was told GRANTED holds a lock and who was told
WAITING is queued, whatever the others did since; one that is queued and never served,
as the code has it, satisfies this), and the refinement of `LockTable`.

### recovery_log

Two transactions of one write, a log of five entries (six are needed, so every append
is refused in some behaviour), checkpoints that list one transaction and of which two
fit, recovery phases at any moment. `FlushedIsPrefix`, `CommittedIsDurable`,
`LogTellsTheStory` (each transaction's entries are what its client believes, and a
checkpoint counts exactly the open ones), `ReplayIsOrdered` (redo replays committed
writes in order, undo takes a transaction's writes back last to first), and the
refinement of `DurableLog`. Being on disk is `is_flushed`, as in the code. A crash
loses the suffix that is not flushed; the program keeps its log in memory and has no
code that reads it back, so a crash is no action: the first two properties are what
such a crash would leave.

### pool_races

Two workers, two submitters, three tasks, one slot: both kinds of sleepers, two
threads racing for one slot or one task, shutdown at any moment, wake-ups for no
reason. `TaskIsInOnePlace`, `ShutdownDrains`, under fairness `EveryCallReturns`, and
the refinement of `TaskExecutor` with its promise that accepted tasks are executed.

### database

 - pages: two clients, three pages, two frames, a page table of three slots; three
   pages in two frames force evictions. `faulty` says whether reads and writes of the
   file may fail and clients may ask for ids that were never allocated; memory and the
   growth of the file do not fail. `PinsProtectPages` holds in both cases: a page that
   is held is never taken, every page is where fetch and eviction look, and what differs
   from the file is marked; only while nothing fails it adds that no frame is lost. A
   failed read loses a frame, and a failed write of a victim its change: both happen in
   the model. The refinement of `PageStore` speaks of behaviours without faults.
 - versions: three records of which two fit, two transactions, three versions, read sets
   of two slots. `ReadReturnsNewest` compares what a read finds with all versions that
   were ever committed for the record, which a history variable keeps after the
   collector freed them: it is the newest, with the exception of those that a second
   history variable names, committed versions that the collector met when their
   transactions were older than every active one. The exception is the code's (see
   below). `WritersKeepTheirVersions`.
 - store: three keys, two chains, saves that stop after any item, loads of what is
   then in the file. Refinement of `KeyValueStore`.
 - index: eight keys in every order in nodes of order 4: leaves and an internal node
   split. `IndexIsExact`.
 - lexer and parser: every text of up to three pieces and longer quoted ones; every
   statement of a small grammar, and every text one token away from one.
   `WritingIsTakenBack`: reading gives back what was written. The parser's lists have
   two slots (100 in the code) and statements up to three elements, so that exactly the
   lists that do not fit pass the end of their array.

### shared

 - map: three threads with a call each on two keys of one bucket, values written half
   by half. `MapIsRegular`.
 - stack: three threads, one of which pops; more than one popper is the run
   `stack_aba`. `ImplementsLifo`.
 - cache: two keys, up to three nodes of one virtual node and one entry each, every
   outcome of the hash modulo 3. pool and hikari: three users, a pool of three (and of
   two), connections that expire. server: three connections, three requests.
   `ConnectionsAreLent` joins the refinements of `ConnectionLease` with the server's
   account of its connections.
 - counters, sharing, thread, cache, wire: `ReadsAreCurrent`. What is loaded through
   the released flag or pointer is complete, no stale entry of the cache comes back,
   an unsynchronized counter loses no more than it can lose, a joined thread has
   ended, and messages come off the stream whole and in order, however it is cut.
 - heap, jvm, bytecode: `MachineIsExact`. The collector takes the garbage and nothing
   else; the heap of phase 1 keeps nothing; methods return what they stand for, with
   an empty stack, for all small arguments.

### programs

Thirty-three programs of one caller at a time: `LookupsAreExact` (tables, trees,
tries, names, edges, routes), `SequencesAreKept` (lists, stacks, queues, heaps),
`AlgorithmsAreExact` (searches, shortest ways, sorting, tables, greedy choices,
backtracking), `MessagesArrive` (the switch, requests, sockets, topics, the balancer,
circuit breakers), `BeansAndProxiesNest`, `ShutdownMirrorsStartup`,
`ApplicationsStand`, `DaysAreManaged`, and the refinement of `MessageBroker`.
Arrays have two to five elements, so each of them fills up, wraps around or grows;
keys and hash values are few, so they collide; algorithms get every input of the
bounded families in `MCPrograms`, and are measured against trying everything.

### services

Six programs whose threads wait for one another, under fairness: a latch of three
services and two waiters, a monitor queue of one place with two producers and two
consumers, an executor with two workers and three requests, the select server with
two browsers and two connections, four request threads at two connections, and wait
graphs of three transactions, the smallest with cycles of two lengths and a bystander.
`LatchOpensOnce`, `AllIsConsumed`, `ImplementsAsyncExecutor`, `AnsweredWhenAwake`,
`NobodyStarvesBesideAConnection`, `DeadlocksEnd`, and `DetectIsExact`: the depth first
search with its two arrays reports a deadlock exactly if there is one.

### Runs that end in a counterexample

Each contradicts a line of the repository, quoted under `findings`:

 - `lock_upgrade`: a reader that asks for EXCLUSIVE is answered GRANTED by the test
   for any lock already held, without an upgrade, against `lock.h:10`.
 - `recovery_undo`: the undo phase visits writes of committed transactions, against
   `recovery.c:149`.
 - `mvcc_readset`: the collector frees the newest committed version of a record while
   an active transaction's read set points at it; what `ReadReturnsNewest` excepts is
   the same line seen by a later read, which finds an older version or none.
 - `stack_aba`: a node is freed, allocated again and pushed between a pop's read of
   its successor and its compare-and-exchange.
 - `btree_free`: the split of an internal node leaves one child in both halves, and
   destroying the tree frees it twice.

## Bounds

Every bound is a constant of a cfg: the sizes of arrays are the code's names with
small values, chosen so that the arrays fill up; counters of calls, ticks of a clock
and ids that grow are cut off by constants called MAX_ in the guards, each commented
"bound" where it is declared. Deadlock is checked in the runs of the lock manager, the
log and the thread pool; the union runs switch it off, because their programs end:
all tasks are done, all texts are read, a bound is reached.

## Fairness

`ThreadPool!FairSpec` and `MCServices!Fairness` state weak fairness of every thread
that is in a call: the operating system runs runnable threads, a mutex is not withheld
from one thread for ever, and tasks return. A thread asleep on a condition is not
runnable, so no wake-up is assumed. Nobody has to submit, to call shutdown or to wake
the select loop, and nothing makes wake-ups for no reason happen. Browsers may stop at
any point; `AnsweredWhenAwake` speaks of loops that are woken again and again. The
resolver of deadlocks is called sooner or later once one was detected, as the README
of phase 6 shows the calls together, and `DeadlocksEnd` assumes that transactions stop
adding waits.

## What is proved

`LockManager_proof`, `WriteAheadLog_proof`, `ThreadPool_proof`,
`Services_proof`, `BufferPool_proof`, `MVCC_proof` and `SharedState_proof`
prove their theorems from the assumptions on constants named in the component modules
and the library's facts about finite sets and sequences; TLC evaluates those
assumptions in the runs. `Selection` holds lemmas about the elements of a sequence at
chosen positions, which the versions, the recovery, the deadlock detector, the record
store, the collectors, the publication, the shutdown and the containers use:
SelectSeq of the standard module has no definition the provers can use, so these
models select with a recursive function, and what it computes is proved by looking at
the least position where it would be wrong.

 - Locks: `TypeCorrect`, `HoldersCorrect`, `AnswersCorrect`, `Refinement`. The
   inductive invariant joins the types, `HoldersConsistent` and `TableBounded`:
   `shared_count` is decremented and stays a natural number only because it counts the
   readers, and it counts them only because `has_lock` finds every holder, which it
   does for resources that have an entry. With it `AnswersStayTrue` is inductive: an
   answer speaks of a lock that only its own transaction gives back, or of a request
   in a queue that only grows.
 - Deadlocks (in `LockManager_proof`): `SearchFindsDeadlocks`, for any number of
   transactions and edges: the search says yes exactly if some transactions all wait
   for one of their number. `has_cycle_dfs` is a recursive function whose second call
   takes what the first returned, so the first thing proved is that such a function
   exists: a rank, the unvisited transactions and then the edges left, falls with every
   call, and arrays only ever gain marks. Along the same rank a search is then shown to
   keep what the code relies on and does not say: each transaction on the recursion
   stack waits for another one on it, up to the one that is searched from, so that an
   edge back to the stack closes a cycle; and those that were left are settled, with no
   wait that leads out and no deadlock among them. That the searches from all listed
   transactions miss nobody takes an invariant of the operations: the transactions of
   every edge are listed, since the list holds nobody twice and so never lacks room.
 - Log: `TypeCorrect`, `LsnCorrect`, `PrefixOnDisk`, `Durability`, `StoryTold`,
   `Refinement`, and of the recovery `ReplayInOrder`. The inductive invariant is the types with `LsnIsPosition`,
   `FlushedIsPrefix` and `CommittedIsDurable`. `LsnIsPosition` is the key: only
   because an LSN is a position does "flush up to LSN n" mark a prefix, and only
   because the marks are a prefix does flushing the COMMIT entry take the writes with
   it. For the story a second invariant says of each transaction that ids not yet
   given have no entries and that an abort that is believed has its entry. A
   checkpoint is compared with the log when it is taken; later entries lie behind its
   LSN, so it stays right. For the replay the log needs one thing more, that a
   transaction has at least as many writes in it as its client counts; that what redo
   visits is in order then follows from LSNs being positions, and undo visits the same
   entries the other way round.
 - Thread pool: `TypeCorrect`, `QueueKeepsToCapacity`, `OnePlace`, `Drained`,
   `Refinement` (the safety part). The inductive invariant has four parts beside the
   types. `Counted`: each atomic counter is the number of workers in a range of
   places, and `tasks_completed` lags behind by the workers that still have to count
   theirs. `Placed`: each pending task has one submitter, each accepted one is queued,
   held or has run, in one place only. `Closing`: a worker leaves only when the queue
   is closed and empty, and then it stays so, since `tq_put` refuses once `closed` is
   set; this is why draining needs no wait beyond the join. And the queue keeps to
   its capacity.
 - Connections: `DatabasePoolLends`, `SpringPoolLends`, `ServerAccount` and, of the
   three, `PoolsLend`. Both pools are shown to implement `ConnectionLease` and to keep
   two counts. For the database's pool the invariant says that an element without a
   client is a closed one and that clients differ (so the search by address finds one
   element), that who has a connection has that of an active element and nobody else
   has it, and that `allocated` holds the clients of the array. Only with all of it
   does the clean-up close nothing that is lent, and the bound on open connections
   follows as there are no more clients than elements. The server's invariant is that
   it has an open connection only while it runs: a request on a closed one must
   leave it closed, though the code does not look.

 - Buffer pool: `PagesAreProtected` and `PoolIsPageStore` (the whole refinement). The
   table of pages has no chains: two ids of one slot overwrite each other's entry
   (see below), and then a held page can be loaded a second time. So both theorems
   assume `OnePagePerSlot`, that no two pages of the file share a slot, which
   `SmallFiles` proves of files of at most PAGE_TABLE_SIZE (997) pages. The invariant
   says that the four structures agree: the page table leads to the frame of each
   loaded page and nowhere else, the LRU list names the loaded frames once each, the
   free list none of them, and all others while no read has failed, and a frame's pin
   count is the number of clients that hold it. That already protects pinned pages,
   since a victim is taken only with a count of 0. The contents are part of it too: a
   frame that is neither dirty nor written by a client still holding it equals the page
   in the file, whatever reads and writes fail. The refinement rests on that, as an
   eviction would lose a write otherwise.
 - Record store (in `BufferPool_proof`): `StoreIsKeyValueStore`, the whole refinement,
   and `StoreTypeCorrect`, for any keys, buckets and hash function. A chain lists its
   part of a map, each key once; putting, updating and deleting keep that for the chain
   they touch, and other keys' chains are not concerned. So what is listed bucket by
   bucket is a list of the whole map as long as it is large, which is what makes the
   count written before it right. A file then holds a beginning of some list of the
   map that was saved, and reading i entries gives the map cut down to the first i
   keys, wherever the file breaks off; it depends on the table being cleared first.
   That list exists only in the invariant: the chains come back in another order.
 - Versions: `TypeCorrect`, `NewestIsRead` and `WritersAreSpared`. The invariant is
   that identifiers fall along each chain, were given out before and belong to one
   record. New versions go in front, so they keep falling; collection selects
   positions, which keeps their order; and the first committed version met is the
   newest of the chain because of it. That it is the newest of all takes the history:
   the statuses in the chain agree with what was committed (`HistoryIsKnown`), and what
   was committed and is gone was given up (`FreedWereGivenUp`), because a collected
   version is older than the smallest active transaction, and so than each of them.
 - Hash map (in `LockManager_proof`): `MapTypeCorrect` and `RegularMap`, for any number of threads and calls. The
   mutex has one holder, a key one node, both counters lag behind the chain by what
   the holder has still to count, and a call that walks the chain without the lock has
   seen, in what its key held since it began, whatever it may still return: the value
   of either half, or that there was none.
 - Lock-free stack (in `LockManager_proof`): `StackIsLifo`, the whole refinement,
   for one popping thread. The invariant names the chain: its nodes are distinct and
   allocated, a node that is owned (about to be pushed, or popped and not yet freed)
   has one owner and is not in the chain, and what the popper read, the head and its
   next, is still in the chain and still its next. Only the last part needs the single
   popper: pushes change nothing behind the head, and nobody else frees. A push may
   well see an address that was freed and pushed again in between; its exchange is
   right all the same, as it relies on the head alone. The chain of the model is what
   a walk from the head collects, and that this walk yields the invariant's chain is
   proved by its least wrong step.
 - Distributed cache (in `SharedState_proof`): `CacheIsNeverStale`, `NeverStale` and the
   types, for any number of nodes and points and any hash values. `NeverStale` is not
   inductive: a rebuilt ring may send a key anywhere. What saves it is that nodes that
   are not yet on the ring are empty, as sets go to nodes of the ring, and
   `KeysMoveToNewNodes`: with more nodes the nearest one is the old one or one that
   joined. The second needs the tie to be broken by the order of the nodes, as the
   strict comparison in `cache_find_node` does.
 - Collector (in `SharedState_proof`): `CollectorIsExact`, for any size of the heap and
   any references. What marking keeps is that roots are not white, a black object refers
   to no white one, and whatever is coloured is reachable; when no grey object is left
   the black ones are a closed set with the roots in it, and so all that is reachable. Compaction is about ranks: the slot an object moves to is the number of
   live objects below it, so that the live ones fill the first slots.
 - Publication (in `SharedState_proof`): `PublishedWhole`, for any number of threads.
   A value is stored by the one thread that is about to publish it, what is published
   carries the view of the value, and each thread that has the pointer has seen the
   value behind it, so that even a plain load finds it. For the singleton the mutex
   hands on that something was published, so that the second check under it, unlike
   the first, is never stale.
 - Counters, threads and the stream (in `SharedState_proof`): `CountersEndAsTold`,
   `ThreadsAreToldOf` and `MessagesAreExact`, and of them, the publication and the
   distributed cache, `ReadsStayCurrent`, which is `ReadsAreCurrent` of the run `shared`.
   The counter that loses increments needs the most: what a thread has loaded is no
   more than was made; a thread that has stored before finds 1 or more; and as long as
   the counter is no more than 1, some thread has at most one increment behind it, so
   that not all of them can be done.
   What threads have left is a sum over them, proved by the least thread at which it
   would be wrong. For a thread's life the invariant relates its state to where it and
   its joiner are. For the stream there are offsets at which the messages that were not
   taken yet begin, each behind the end of the one before, and the cells from an offset
   on are that message's header and payload, so that a reader that takes a whole message
   takes exactly the first of them, however much has arrived behind it.
 - Heap of phase 1 (in `SharedState_proof`): `NobodyGrowsOld`. Eden lists the objects
   allocated since the last collection, in order, each at the place of its number, and
   references carry the number of the object they were made for.
 - Bytecode (in `SharedState_proof`): `BytecodeIsExact`, for any arguments. Every method
   has an assertion at each pc, which gives the values on the stack and what the locals
   have to do with the arguments; where a loop begins it is the loop's invariant: what
   is summed and what is left (`Sums`), the product and the factorial of what is left
   (`Multiplied`), that the common divisors stay those of the arguments (`Common`), and
   that the argument lies between the powers of two that the quotients so far stand for
   (`Halved`). An instruction is then one step from the assertion at its pc to that at
   the next. `QuotientRounds` says what a division towards zero leaves. The stack needs
   room for three values, or a push would be dropped without a word.
   `MachineStaysExact` joins it with `CollectorIsExact` and `NobodyGrowsOld`: it is
   `MachineIsExact` of the run `shared`.
 - Shutdown (in `Services_proof`): `ShutdownIsMirrored`, for any number of beans,
   phases and requests. The exchange sort of `shutdown_hook.c` is proved first: after i
   passes the order is still a permutation and its first i places are right, and within
   a pass the bean at i precedes none of those it was compared with. Start and stop each
   sort for themselves, so the mirror rests on two more facts: a phase never changes,
   and the beans that run are exactly those that were started, until they are stopped,
   so that skipping what does not run skips nothing that was started.
 - Containers (in `Services_proof`): `ContainersNest`, which is `BeansAndProxiesNest`,
   for any names, capacities and numbers of beans and interceptors. Of the beans the
   invariant says that the numbers of those created rise with the places of their
   entries, which is what makes the order of destruction, last entry first, that of
   the numbers; and that whoever was handed a bean finds it in the first entry of the
   name, which later registrations do not change. Of the injection it says that what a
   field points to is what the container *still* gives for its type: beans are added
   behind those of their type, so a first one stays the first. Of the proxies it says
   where an invocation is: m interceptors entered, a call, r of them left, and the
   frames of the m - r others, the last entered on top.
 - Embedded server (in `Services_proof`): `ServerStandsReady`, which is
   `StartedMeansReady`, for any ports, threads and limits. It needs one more fact to be
   inductive: the threads are those of the *last* configuration, or what `tomcat_create`
   sets, ten spare of two hundred. A request is queued only if all threads are active,
   and as only a start makes them active, that takes a configuration whose spare threads
   are no fewer than all.
 - Traces (in `Services_proof`): `SpansAreTrees`, which is `TracesAreTrees`. In the
   registry a span's parent stands before it and its trace is the number of its root,
   which no tag, event or end changes; the calls that nest are composed of such steps.
   That an error shows holds of `span_error` as a whole, not between its two steps. How
   far a span is indented is a recursive function of the steps `print_trace` may climb;
   whoever may climb one less gets as far or to its limit, so that a child is one deeper
   than its parent up to the eleventh.
 - Waiting (in `Services_proof`), the safety halves of the four properties of
   `Synchronizers`, for any numbers. `LatchKeeps`: the count is the number of services
   still starting, and while anybody sleeps it is positive or a broadcast is pending,
   which is what keeps the decrement without the mutex from losing a wake-up.
   `ItemsKeepTheirOrder`: the items taken followed by those in the ring are all that was
   put, in order, and taking moves only the border between the two; slots are equal only
   modulo the capacity, so each step carries the arithmetic of the wrap.
   `EmailsAreExecuted`: an email is in one place, in the queue, with a worker or sent, and
   a worker ends only on a closed and empty queue, so that the pool, freed when all have
   ended, has nothing left; it needs at least one worker, as the code has four.
   `ConnectionsAddUp`: the threads that have waited and are on their way number at least
   the free connections while anybody sleeps, which is inductive because a thread that
   comes late takes a connection away without taking one of them along.

What stays with TLC: liveness and the fair parts of refinements, which the proof
system does not reason about (`EveryCallReturns`, `AnsweredWhenAwake`,
`DeadlocksEnd` and the others of the run `services`); what searches, parsers, sorts,
trees and other recursive operators compute (`BPlusTree`, `SqlFrontEnd`,
`Dictionaries`, `LinearStructures`, `Exercises`, `HumanOS`, parts of
`NetworkServices`), for the provers do not work in modules that declare such operators:
so of the invariants `IndexIsExact`, `WritingIsTakenBack`, `LookupsAreExact`,
`SequencesAreKept`, `AlgorithmsAreExact`, `MessagesArrive` and `DaysAreManaged` stay
with TLC. So does `ApplicationsStand` as a whole: beside the server and the traces it
is about folds, sorts and selections of sequences with the operators of the community
modules. And so do the components not listed here.

## Where the code and its documentation differ

Beside the five findings, these were met while reading. Where a model covers the code
it has them as the code does; no run is spent on them.

Database:

 - Record store: the result of `fclose` is not looked at, so a save may return 0 with
   a torn file; a failed save has destroyed the previous file.
 - Index: a key that is inserted twice is kept twice.
 - Lexer: a string of exactly MAX_TOKEN_LENGTH - 1 characters leaves its closing quote
   to open another (`lexer.c:291`); the end token may be written behind MAX_TOKENS
   (`lexer.c:474`); identifiers beyond 255 characters are split.
 - Parser: of two conditions the second is left unread (`parser.h:261`,
   `parser.c:349`); arithmetic operators become "="; any token is taken as a column's
   type, INT; what follows a statement is ignored; the arrays of 100 columns,
   values and definitions are written without a look at their end
   (`parser.c:183,235,555`).
 - Buffer pool: two ids of one slot overwrite each other's entry (`buffer_pool.c:227`,
   against `buffer_pool.h:9`); a fetch fails when the LRU tail is pinned, although
   others could be evicted (`buffer_pool.c:184`, phase 4 `README.md:217`); a read that
   fails leaks the frame or leaves a pointer to freed memory (`buffer_pool.c:219`); a
   deleted page stays on disk; an eviction ignores a failed write.
 - Log: `flushed_lsn` can move back; `begin` on a full log returns an id without a
   BEGIN entry; a checkpoint on a full log records LSN 0; `active_count` can exceed the
   list it counts; redo visits writes of transactions that did not commit.
 - Locks: queued requests are never served (`lock.c:107`, `lock.h:12,149`); entries of
   the lock table are never given back (`lock.c:46`).
 - Deadlocks: the victim need not be part of the deadlock; transaction ids index the
   search's arrays unchecked. Versions: a read takes the newest committed version
   whoever reads, newest by creation and not by commit, and a decision can be reversed.
   The collector frees a record's newest committed version too if its transaction is
   older than the active ones, so a read may fall back to an older version, of a later
   transaction and below it in the chain, or find nothing (`mvcc.c:217-226`, against
   `mvcc.h:166` and `mvcc.h:238`).
 - Connections: closed elements are never used again (`connection_pool.c:88`); the
   server's count only grows and requests on closed connections, or after a stop, are
   processed (`server.c:71,115`); a message that does not fit the buffer takes its
   sequence number along.

Memory management:

 - Compaction leaves roots and references pointing at the old places
   (`mark_sweep.c:298`). A minor collection of phase 1 wipes what survived, so nothing
   reaches the old generation (`heap_stack_model.c:164`).
 - `race_counter` may lose all but two increments (`volatile_visibility.c:78`);
   `thread_join` overwrites the joined thread's state, which may say WAITING for ever,
   against `thread_lifecycle.c:11` (`thread_lifecycle.c:133`).
 - A full queue makes submitters wait, where `executor_service.c:75` and `:231`
   promise a rejection; a capacity of 0 means no bound.
 - A request may time out beside a free connection that was signalled to another
   (`singleton_race_condition.c:305`).

Spring and Spring Boot:

 - A bean registered after the refresh is NULL, and a second refresh leaks
   (`bean_factory.c:328`); a required dependency that is missing is only printed, and
   full tables drop silently (`field_injection.c:149`, `proxy_chain.c:297`);
   `authorized` is always 1 (`proxy_chain.c:170`); `is_valid` is never set to 0.
 - Any longer path reaches a handler with a path variable (`dispatcher_servlet.c:316`),
   and the second halves of interceptors are not called after 401 or 404. The scanner
   registers a class once for each scan that covers it.
 - The default pool is configured beside a user's own DataSource, and the condition
   report resets the beans, so a decision is reported positive and negative.
 - `normalize_key` says "MY_DB_URL" becomes "my-db-url" and makes "m-y-d-b-u-r-l"
   (`property_binder.c:90`); the keys of the source are not normalized, so relaxed
   binding works one way; `profile_matches` is true for any of several negated
   profiles that differs.
 - Meters are found by name only, so later callers' tags are dropped
   (`metrics_registry.c:147`); a base package matches classes of packages whose names
   only begin like it (`annotation_scanner.c:240`); a request gives its
   thread back within the call, so the demonstration of an exhausted pool neither
   queues nor rejects (`embedded_tomcat.c:577`), and what would be queued is never
   served; a full trace registry returns NULL, which callers use
   (`tracing_context.c:126`); `step_failed` is never called; configuring a started
   server resets it to INITIALIZED.
 - Beans of equal phases do not stop in the mirrored order of their start.

Servers and networking:

 - Select server: a response is prepared only at the next wake-up, so a lone browser
   may wait for ever (`DEPLOYMENT_TESTING.md:110`); a second request on a kept
   connection is never answered; FD_ISSET is asked about -1 after a close.
 - Router: `match_route` walks two strings with `strtok`, which has one position, so
   after the first segments both loops go on in the request's path
   (`02_RestAPI.c:193`). A route with a parameter is answered 404 for its own paths,
   `/users/:id` takes `/users`, and the example at `02_RestAPI.c:160`, which extracts
   "123" from a path of three segments, does not come out; the handler of a deletion reads `params[1]`, which its
   route never sets (`02_RestAPI.c:294`).
 - Message queue: the back-off `nextRetryAt` is never read; an unknown consumer or a
   full dead letter queue loses the message. Load balancer: unhealthy servers are
   routed to (`04_LoadBalancer.c:169`). Circuit breaker: never closes again
   (`08_Microservices.c:164`). Name server: entries that expired are never removed, so
   the cache fills up for good (`11_DNS.c:87`). Content delivery: an eviction is
   counted and nothing evicted (`10_CDN.c:158`). Web sockets: messages that a full
   ring dropped count as published (`03_WebSocket.c:310`), and subscribing twice
   delivers twice.

Exercises, Human OS, banking, virtual machine:

 - An ArrayList of capacity 0 or 1 never grows and the next add writes behind it
   (`01_ArrayList.c:84`); the plain queue of `03_Stack_Queue.c:155` runs past its
   array; a HashMap cannot tell a stored -1 from none; linear probing keeps the first
   value of a key and chaining the last; signed characters may give a negative hash
   (`08_Hashing.c:72`); Dijkstra's second example passes an array of another shape
   than declared (`04_Dijkstra.c:299`); results behind the hundredth are printed
   without having been kept (`07_Backtracking.c:369`).
 - A task started too early is BLOCKED for ever (`task.c:189`) and one that was never
   started can be completed (`task.c:220`); the first-in plan orders by urgency; a
   plan drops slots silently at 50; streaks count practices, not days; an emergency
   does not keep other tasks from coming first (`human_os.h`: "only critical tasks").
 - Messages: a field the table does not know shifts all behind it; when field 63 is
   absent the last ten characters of field 60 are blanked; a primary bitmap alone is
   misread by `recvNetworkMgmt`; the length of field 55 is that of the raw bytes.
 - Interpreter: `bipush` always pushes 42 (`load_store.c:16`); a division by zero and
   an object without room leave nothing on the stack; class files are read in the
   host's byte order, and the constant pool is one entry short (`parser.c:58`).

For whoever builds the code: `lock.h:35` defines a macro with the name of an
enumerator at line 56, so that phase does not compile as it stands, and tests of phase
5 call functions with signatures the headers no longer have.

## Not modelled

Left out of the modelled components: statistics that nothing reads, times that
decide nothing, contents beyond a value, printing, memory that is only allocated and
freed together with its owner.

Not modelled at all, with the reasons in `PROJECT.json`: the isolation manager (a
table of permissions nobody consults), starters, profiles and test slices (one call
that resolves and prints), the first two phases of the web server (one function from
accept to close), phases 3 and 4 of Human OS (weighted sums of floating point
numbers), the distributed database and Java versions of the exercises, the Pro*C
programs of the bank (their state lies in tables of a database that is not here), the
chat bot and the compiler driver.

Next in the plan, by what they would tell: the distributed database's quorums beside
`DistributedCache`; more calls per thread of `ConcurrentMap`.
