---------------------------- MODULE JavaMachine -----------------------------
(***************************************************************************)
(* A Java machine in C: its memory and threads (memory management phases 1 *)
(* to 4), counters, publication through an atomic flag or pointer, the     *)
(* states of a thread, a heap with its young generation, and a collector;  *)
(* and the instructions of the interpreter (src/JavaVirtualMachine).       *)
(***************************************************************************)
EXTENDS Integers, Sequences, FiniteSets, SequencesExt, FiniteSetsExt, Selection

-----------------------------------------------------------------------------
(***************************************************************************)
(* Counters (volatile_visibility.c, demos 1 and 2).  race_counter++ is a   *)
(* load and a store; the data race is taken for what the build makes of a  *)
(* volatile int.                                                           *)
(***************************************************************************)

CONSTANTS
    NUM_THREADS,
    INCREMENTS    \* increments_per_thread

ASSUME CounterConstants == NUM_THREADS \in Nat \ {0, 1} /\ INCREMENTS \in Nat \ {0}

VARIABLES
    counting,   \* "race" or "atomic": which of the two counters
    counter,
    counters    \* of each thread: increments left, and what it loaded, or Nothing

counterVars == <<counting, counter, counters>>

Nothing == -1

CountersInit ==
    /\ counting \in {"race", "atomic"} /\ counter = 0
    /\ counters = [t \in 1 .. NUM_THREADS |-> [left |-> INCREMENTS, loaded |-> Nothing]]

race_load(t) ==
    /\ counting = "race" /\ counters[t].left > 0 /\ counters[t].loaded = Nothing
    /\ counters' = [counters EXCEPT ![t].loaded = counter]
    /\ UNCHANGED <<counting, counter>>

race_store(t) ==
    /\ counters[t].loaded # Nothing
    /\ counter' = counters[t].loaded + 1
    /\ counters' = [counters EXCEPT ![t] = [left |-> @.left - 1, loaded |-> Nothing]]
    /\ UNCHANGED counting

\* atomic_fetch_add
atomic_thread(t) ==
    /\ counting = "atomic" /\ counters[t].left > 0
    /\ counter' = counter + 1
    /\ counters' = [counters EXCEPT ![t].left = @ - 1]
    /\ UNCHANGED counting

CountersNext == \E t \in 1 .. NUM_THREADS : race_load(t) \/ race_store(t) \/ atomic_thread(t)

CountersSpec == CountersInit /\ [][CountersNext]_counterVars

\* What the threads have left to do, together.
IncrementsLeft(c) ==
    LET upTo[n \in 0 .. NUM_THREADS] == IF n = 0 THEN 0 ELSE upTo[n - 1] + c[n].left
    IN  upTo[NUM_THREADS]

\* When the threads are joined the atomic counter has every increment; the other may
\* have lost all but two of them, whatever the number of threads, but never more and
\* never all but one: the first store of the last thread to start is followed by the
\* rest of its own.  volatile_visibility.c:73-179.
IncrementsAreBounded ==
    LET total == NUM_THREADS * INCREMENTS
        made == total - IncrementsLeft(counters)
    IN  /\ counter <= made
        /\ counting = "atomic" => counter = made
        /\ made = total => counter >= Min({2, INCREMENTS})

-----------------------------------------------------------------------------
(***************************************************************************)
(* Publication (volatile_visibility.c, demos 3 and 4): one thread fills a  *)
(* value and stores a flag, or a pointer, with release; others load it     *)
(* with acquire.  A location keeps every value that was stored, in order;  *)
(* a thread may load any that is not older than what it has seen, so a     *)
(* plain load may be stale.  A released value carries what its thread had  *)
(* seen.  Location 0 is ready, or singleton_instance; location t is        *)
(* data_value, or the fields of the singleton that thread t allocated.     *)
(***************************************************************************)

CONSTANT Sharers    \* threads: 1 .. n

ASSUME SharerConstants == IsFiniteSet(Sharers) /\ Sharers = 1 .. Cardinality(Sharers) /\ {1, 2} \subseteq Sharers

VARIABLES
    demo,     \* "flag" or "singleton"
    memory,   \* of each location, what was stored: [value, view]
    seen,     \* of each thread and location, the oldest that it may load
    mutex,    \* singleton_mutex: [holder, or 0; what the last holder had seen]
    sharer    \* of each thread: [at, inst, got: what it found in the value]

shareVars == <<demo, memory, seen, mutex, sharer>>

Locations == {0} \cup Sharers
NULL_INST == 0
UNFILLED == 0    \* what the memory held before
FILLED == 999

NothingSeen == [l \in Locations |-> 1]

ShareInit ==
    /\ demo \in {"flag", "singleton"}
    /\ memory = [l \in Locations |-> <<[value |-> 0, view |-> NothingSeen]>>]
    /\ seen = [t \in Sharers |-> NothingSeen]
    /\ mutex = [holder |-> 0, view |-> NothingSeen]
    /\ sharer = [t \in Sharers |-> [at |-> "start", inst |-> NULL_INST, got |-> UNFILLED]]

Joined(u, v) == [l \in Locations |-> Max({u[l], v[l]})]

StandsAt(t, place) == sharer[t].at = place

Goes(t, place) == sharer' = [sharer EXCEPT ![t].at = place]

StoreTo(t, l, value) ==
    LET now == [seen[t] EXCEPT ![l] = Len(memory[l]) + 1]
    IN  /\ memory' = [memory EXCEPT ![l] = Append(@, [value |-> value, view |-> now])]
        /\ seen' = [seen EXCEPT ![t] = now]

\* A load with acquire also sees what the thread that stored the value had seen.
AcquireView(t, l, i) == Joined([seen[t] EXCEPT ![l] = i], memory[l][i].view)

Loadable(t, l) == seen[t][l] .. Len(memory[l])

\* producer_thread
produce ==
    /\ demo = "flag" /\ StandsAt(1, "start")
    /\ StoreTo(1, 1, FILLED) /\ Goes(1, "publish")
    /\ UNCHANGED <<demo, mutex>>

\* consumer_thread spins, the first check of get_singleton goes on with what it finds.
first_check(t) ==
    /\ StandsAt(t, "start") /\ (demo = "flag" => t # 1)
    /\ \E i \in Loadable(t, 0) : LET inst == memory[0][i].value IN
          /\ seen' = [seen EXCEPT ![t] = AcquireView(t, 0, i)]
          /\ sharer' = [sharer EXCEPT ![t].inst = inst,
                           ![t].at = IF inst # NULL_INST THEN "use"
                                     ELSE IF demo = "flag" THEN "start" ELSE "lock"]
    /\ UNCHANGED <<demo, memory, mutex>>

lock(t) ==
    /\ StandsAt(t, "lock") /\ mutex.holder = 0
    /\ mutex' = [mutex EXCEPT !.holder = t]
    /\ seen' = [seen EXCEPT ![t] = Joined(@, mutex.view)]
    /\ Goes(t, "check")
    /\ UNCHANGED <<demo, memory>>

second_check(t) ==
    /\ StandsAt(t, "check")
    /\ \E i \in Loadable(t, 0) : LET inst == memory[0][i].value IN
          /\ seen' = [seen EXCEPT ![t] = AcquireView(t, 0, i)]
          /\ sharer' = [sharer EXCEPT ![t].inst = inst,
                           ![t].at = IF inst = NULL_INST THEN "fill" ELSE "unlock"]
    /\ UNCHANGED <<demo, memory, mutex>>

fill(t) ==
    /\ StandsAt(t, "fill")
    /\ StoreTo(t, t, FILLED) /\ Goes(t, "publish")
    /\ UNCHANGED <<demo, mutex>>

\* atomic_store_explicit(memory_order_release)
publish(t) ==
    /\ StandsAt(t, "publish")
    /\ StoreTo(t, 0, t)
    /\ sharer' = [sharer EXCEPT ![t].inst = t, ![t].at = IF demo = "flag" THEN "done" ELSE "unlock"]
    /\ UNCHANGED <<demo, mutex>>

unlock(t) ==
    /\ StandsAt(t, "unlock")
    /\ mutex' = [holder |-> 0, view |-> seen[t]]
    /\ Goes(t, "use")
    /\ UNCHANGED <<demo, memory, seen>>

\* A plain load of the value behind the flag, or of a field of the singleton.
use(t) ==
    /\ StandsAt(t, "use")
    /\ \E i \in Loadable(t, sharer[t].inst) :
          /\ seen' = [seen EXCEPT ![t][sharer[t].inst] = i]
          /\ sharer' = [sharer EXCEPT ![t].got = memory[sharer[t].inst][i].value, ![t].at = "done"]
    /\ UNCHANGED <<demo, memory, mutex>>

ShareNext ==
    \/ produce
    \/ \E t \in Sharers : \/ first_check(t) \/ lock(t) \/ second_check(t) \/ fill(t)
                          \/ publish(t) \/ unlock(t) \/ use(t)

ShareSpec == ShareInit /\ [][ShareNext]_shareVars

\* Whoever gets past the flag, or gets the singleton, on the path without the lock
\* too, finds it filled, although the fields themselves are loaded without any
\* order; and there is one singleton however many threads come first.
\* volatile_visibility.c:206-253, 297-340.
PublishedIsComplete ==
    /\ \A t \in Sharers : StandsAt(t, "done") /\ ~ (demo = "flag" /\ t = 1) => sharer[t].got = FILLED
    /\ Cardinality({t \in Sharers : Len(memory[t]) > 1}) <= 1
    /\ \A t, u \in Sharers : StandsAt(t, "done") /\ StandsAt(u, "done") => sharer[t].inst = sharer[u].inst


-----------------------------------------------------------------------------
(***************************************************************************)
(* The life of a thread (thread_lifecycle.c): state is written by the      *)
(* thread itself and, without a lock, by the one that joins it.            *)
(***************************************************************************)

CONSTANT WORK_UNITS

ASSUME LifeConstants == WORK_UNITS \in Nat \ {0}

VARIABLES
    jt,      \* JavaThread: state, interrupted
    worker,  \* worker_run: [at, units]
    main,    \* the demos: where they are
    late     \* auxiliary: units begun after the interrupt

lifeVars == <<jt, worker, main, late>>

LifeInit ==
    /\ jt = [state |-> "NEW", interrupted |-> FALSE]
    /\ worker = [at |-> "none", units |-> 0]
    /\ main = "start" /\ late = 0

thread_transition(to) == jt' = [jt EXCEPT !.state = to]

thread_start ==
    /\ main = "start"
    /\ thread_transition("RUNNABLE") /\ main' = "create"
    /\ UNCHANGED <<worker, late>>

pthread_create ==
    /\ main = "create"
    /\ main' = "created" /\ worker' = [worker EXCEPT !.at = "check"]
    /\ UNCHANGED <<jt, late>>

interrupt ==
    /\ main = "created" /\ ~ jt.interrupted
    /\ jt' = [jt EXCEPT !.interrupted = TRUE]
    /\ UNCHANGED <<worker, main, late>>

thread_join ==
    /\ main = "created"
    /\ thread_transition("WAITING") /\ main' = "join"
    /\ UNCHANGED <<worker, late>>

pthread_join ==
    /\ main = "join" /\ worker.at = "ended"
    /\ main' = "joined"
    /\ UNCHANGED <<jt, worker, late>>

WorkerGoes(place) == worker' = [worker EXCEPT !.at = place] /\ UNCHANGED main

\* The head of the loop: all units done, interrupted, or the next unit.
worker_check ==
    /\ worker.at = "check"
    /\ WorkerGoes(IF worker.units = WORK_UNITS \/ jt.interrupted THEN "end" ELSE "sleep")
    /\ UNCHANGED <<jt, late>>

worker_sleep ==
    /\ worker.at = "sleep"
    /\ thread_transition("TIMED_WAITING") /\ WorkerGoes("asleep")
    /\ late' = late + IF jt.interrupted THEN 1 ELSE 0

worker_wake ==
    /\ worker.at = "asleep"
    /\ thread_transition("RUNNABLE")
    /\ worker' = [at |-> "check", units |-> worker.units + 1]
    /\ UNCHANGED <<main, late>>

worker_end ==
    /\ worker.at = "end"
    /\ thread_transition("TERMINATED") /\ WorkerGoes("ended")
    /\ UNCHANGED late

LifeNext ==
    \/ thread_start \/ pthread_create \/ interrupt \/ thread_join \/ pthread_join
    \/ worker_check \/ worker_sleep \/ worker_wake \/ worker_end

LifeSpec == LifeInit /\ [][LifeNext]_lifeVars

\* Whoever joins a thread finds its function ended: all units done, or cut short by
\* an interrupt that at most one more unit followed, begun before it was seen.  What
\* says TERMINATED has ended and stays so but for the joiner's own WAITING, which is
\* then the last word.  thread_lifecycle.c:87-136, 155-176.
ThreadsEndAsTold ==
    /\ main = "joined" => worker.at = "ended" /\ jt.state \in {"TERMINATED", "WAITING"}
    /\ jt.state = "TERMINATED" => worker.at = "ended"
    /\ worker.at = "ended" /\ ~ jt.interrupted => worker.units = WORK_UNITS
    /\ worker.at = "ended" /\ jt.state # "TERMINATED" => main \in {"join", "joined"}
    /\ late <= 1

-----------------------------------------------------------------------------
(***************************************************************************)
(* The heap of heap_stack_model.c: a young generation, an old one, and the *)
(* stack of one thread.  All objects have one size, an address is a place  *)
(* in Eden.  What lives through a minor collection is counted and printed, *)
(* but copied nowhere: Eden is emptied.                                    *)
(***************************************************************************)

CONSTANTS
    EDEN_OBJECTS, OLD_OBJECTS,         \* EDEN_SIZE and OLD_GEN_SIZE, in objects
    MAX_GC_AGE,
    MAX_STACK_FRAMES, MAX_LOCALS,
    MAX_ALLOCATIONS, MAX_COLLECTIONS   \* bounds

ASSUME JvmConstants == MAX_GC_AGE \in Nat \ {0, 1}

VARIABLES
    eden,       \* eden_space up to eden_top: [serial, gc_age]
    old_gen,
    stack,      \* ThreadStack: the local references of each frame: [address, serial]
    serials,  \* auxiliary: the serial numbers given out
    wiped       \* auxiliary: those given out before each collection

jvmVars == <<eden, old_gen, stack, serials, wiped>>

JvmInit == eden = << >> /\ old_gen = << >> /\ stack = << >> /\ serials = 0 /\ wiped = << >>

eden_alloc ==
    /\ Len(eden) < EDEN_OBJECTS /\ serials < MAX_ALLOCATIONS
    /\ serials' = serials + 1
    /\ eden' = Append(eden, [serial |-> serials + 1, gc_age |-> 0])
    /\ UNCHANGED <<old_gen, stack, wiped>>

old_gen_alloc(old, obj) ==
    IF Len(old) < OLD_OBJECTS THEN Append(old, [obj EXCEPT !.gc_age = MAX_GC_AGE]) ELSE old

\* roots are addresses: one from before the last collection makes the object live
\* that is there now.
simulate_minor_gc(roots) ==
    LET aged == [i \in DOMAIN eden |-> [eden[i] EXCEPT !.gc_age = @ + IF i \in roots THEN 1 ELSE 0]]
    IN  /\ Len(wiped) < MAX_COLLECTIONS
        /\ old_gen' = FoldLeft(old_gen_alloc, old_gen,
                        Selection(aged, {i \in DOMAIN aged : aged[i].gc_age >= MAX_GC_AGE}))
        /\ eden' = << >>
        /\ wiped' = Append(wiped, serials)
        /\ UNCHANGED <<stack, serials>>

stack_push_frame ==
    /\ Len(stack) < MAX_STACK_FRAMES
    /\ stack' = Append(stack, << >>)
    /\ UNCHANGED <<eden, old_gen, serials, wiped>>

stack_pop_frame ==
    /\ stack # << >>
    /\ stack' = Front(stack)
    /\ UNCHANGED <<eden, old_gen, serials, wiped>>

\* A local of the frame on top; in the demos it refers to an object just serials,
\* or is a parameter, a local of the frame below.
frame_add_ref ==
    /\ stack # << >> /\ Len(Last(stack)) < MAX_LOCALS
    /\ \E ref \in {[address |-> i, serial |-> eden[i].serial] : i \in DOMAIN eden}
                    \cup UNION {ToSet(stack[f]) : f \in {Len(stack) - 1} \ {0}} :
          stack' = [stack EXCEPT ![Len(stack)] = Append(@, ref)]
    /\ UNCHANGED <<eden, old_gen, serials, wiped>>

\* The roots are found on the stack.
JvmNext ==
    \/ eden_alloc \/ stack_push_frame \/ stack_pop_frame \/ frame_add_ref
    \/ simulate_minor_gc({r.address : r \in UNION {ToSet(stack[f]) : f \in DOMAIN stack}})

JvmSpec == JvmInit /\ [][JvmNext]_jvmVars

\* A reference leads to the object that it was made for exactly if there was no
\* collection since that object's allocation: the stack protects nothing.  Eden holds
\* what was serials since the last one, all of age 0, so nothing ever grows old
\* enough for the old generation.  heap_stack_model.c:98-222, 267-307.
NothingGrowsOld ==
    LET since == IF wiped = << >> THEN 0 ELSE Last(wiped)
        refs == UNION {ToSet(stack[f]) : f \in DOMAIN stack}
    IN  /\ \A r \in refs : LET there == r.address \in DOMAIN eden /\ eden[r.address].serial = r.serial
                           IN  there <=> r.serial > since
        /\ [i \in DOMAIN eden |-> eden[i].serial] = [i \in 1 .. serials - since |-> since + i]
        /\ \A i \in DOMAIN eden : eden[i].gc_age = 0
        /\ old_gen = << >>


-----------------------------------------------------------------------------
(***************************************************************************)
(* The instructions of the interpreter (JavaVirtualMachine/src/jvm), one   *)
(* action each.  interpreter_run does not call them yet; here they run     *)
(* small methods, given as the instruction and its operand at each pc.     *)
(* A long is an integer: the methods stay small.                           *)
(***************************************************************************)

CONSTANTS
    MAX_STACK_SIZE,
    HEAP_OBJECTS,    \* 64 KB, in the 64 bytes that every object takes
    Arguments        \* of the methods: the first two locals

\* The stack of 1024 values has room for what the methods put there.
ASSUME InterpreterConstants ==
    MAX_STACK_SIZE \in Nat /\ MAX_STACK_SIZE >= 3 /\ HEAP_OBJECTS \in Nat /\ Arguments \subseteq Int \X Int

VARIABLES
    operand_stack, local_vars,
    interp_pc,    \* pc, or RETURNED
    next_free,    \* how many objects the heap holds
    method        \* auxiliary: which method runs, on which arguments

interpVars == <<operand_stack, local_vars, interp_pc, next_free, method>>

RETURNED == -1

\* A full stack drops what is pushed, an empty one gives 0.
Pushed(s, value) == IF Len(s) < MAX_STACK_SIZE THEN Append(s, value) ELSE s

TopOf(s) == IF s = << >> THEN 0 ELSE Last(s)

Popped(s) == IF s = << >> THEN s ELSE Front(s)

\* C divides towards zero.
Quotient(a, b) ==
    LET size(x) == IF x < 0 THEN -x ELSE x
    IN  (size(a) \div size(b)) * (IF (a < 0) = (b < 0) THEN 1 ELSE -1)

Arithmetic == {"iadd", "isub", "imul", "idiv", "irem"}

Computed(op, a, b) ==
    IF op = "iadd" THEN a + b
    ELSE IF op = "isub" THEN a - b
    ELSE IF op = "imul" THEN a * b
    ELSE IF op = "idiv" THEN Quotient(a, b)
    ELSE a - b * Quotient(a, b)

\* The stack that an instruction leaves, and how far the pc moves.
Leaves(values, bytes) ==
    /\ operand_stack' = values
    /\ interp_pc' = interp_pc + bytes

\* A division by zero takes its operands and leaves no result.
exec_arithmetic(op) ==
    LET b == TopOf(operand_stack)
        a == TopOf(Popped(operand_stack))
        rest == Popped(Popped(operand_stack))
    IN  /\ Leaves(IF op \in {"idiv", "irem"} /\ b = 0 THEN rest ELSE Pushed(rest, Computed(op, a, b)), 1)
        /\ UNCHANGED <<local_vars, next_free>>

exec_ineg ==
    /\ Leaves(Pushed(Popped(operand_stack), - TopOf(operand_stack)), 1)
    /\ UNCHANGED <<local_vars, next_free>>

Conditions == {"if_icmpeq", "if_icmpne", "if_icmplt", "if_icmpge", "if_icmpgt", "if_icmple"}

Holds(op, a, b) ==
    \/ op = "if_icmpeq" /\ a = b
    \/ op = "if_icmpne" /\ a # b
    \/ op = "if_icmplt" /\ a < b
    \/ op = "if_icmpge" /\ a >= b
    \/ op = "if_icmpgt" /\ a > b
    \/ op = "if_icmple" /\ a <= b

exec_if_icmp(op, target) ==
    LET b == TopOf(operand_stack)
        a == TopOf(Popped(operand_stack))
    IN  /\ operand_stack' = Popped(Popped(operand_stack))
        /\ interp_pc' = IF Holds(op, a, b) THEN target ELSE interp_pc + 3
        /\ UNCHANGED <<local_vars, next_free>>

exec_goto(target) ==
    /\ interp_pc' = target
    /\ UNCHANGED <<operand_stack, local_vars, next_free>>

exec_return ==
    /\ interp_pc' = RETURNED
    /\ UNCHANGED <<operand_stack, local_vars, next_free>>

exec_iload(index) ==
    /\ Leaves(Pushed(operand_stack, local_vars[index]), 2)
    /\ UNCHANGED <<local_vars, next_free>>

exec_istore(index) ==
    /\ local_vars' = [local_vars EXCEPT ![index] = TopOf(operand_stack)]
    /\ Leaves(Popped(operand_stack), 2)
    /\ UNCHANGED next_free

exec_iconst(value) ==
    /\ Leaves(Pushed(operand_stack, value), 1)
    /\ UNCHANGED <<local_vars, next_free>>

\* Whatever the byte says.
exec_bipush ==
    /\ Leaves(Pushed(operand_stack, 42), 2)
    /\ UNCHANGED <<local_vars, next_free>>

\* heap_allocate; without room there is nothing to push.
exec_new ==
    /\ \/ /\ next_free < HEAP_OBJECTS
          /\ next_free' = next_free + 1
          /\ Leaves(Pushed(operand_stack, next_free'), 3)
       \/ /\ next_free >= HEAP_OBJECTS
          /\ Leaves(operand_stack, 3)
          /\ UNCHANGED next_free
    /\ UNCHANGED local_vars

\* Fields have no values yet.
exec_getfield ==
    /\ Leaves(Pushed(Popped(operand_stack), 42), 3)
    /\ UNCHANGED <<local_vars, next_free>>

exec_putfield ==
    /\ Leaves(Popped(Popped(operand_stack)), 3)
    /\ UNCHANGED <<local_vars, next_free>>

exec_getstatic ==
    /\ Leaves(Pushed(operand_stack, 42), 3)
    /\ UNCHANGED <<local_vars, next_free>>

exec_putstatic ==
    /\ Leaves(Popped(operand_stack), 3)
    /\ UNCHANGED <<local_vars, next_free>>

\* Methods as a compiler lays them out: at each pc, the instruction and its operand.
\* Their result is in local 2: n + ... + 1, n!, the greatest common divisor, the
\* logarithm, the absolute value, the minimum, the quotient; the last allocates objects
\* and uses fields.
SumCode ==
    {<<0, "iconst", 0>>, <<1, "istore", 2>>,
     <<3, "iload", 0>>, <<5, "iconst", 0>>, <<6, "if_icmpeq", 25>>,
     <<9, "iload", 2>>, <<11, "iload", 0>>, <<13, "iadd">>, <<14, "istore", 2>>,
     <<16, "iload", 0>>, <<18, "iconst", 1>>, <<19, "isub">>, <<20, "istore", 0>>,
     <<22, "goto", 3>>, <<25, "return">>}

FactorialCode ==
    {<<0, "iconst", 1>>, <<1, "istore", 2>>,
     <<3, "iload", 0>>, <<5, "iconst", 1>>, <<6, "if_icmple", 25>>,
     <<9, "iload", 2>>, <<11, "iload", 0>>, <<13, "imul">>, <<14, "istore", 2>>,
     <<16, "iload", 0>>, <<18, "iconst", 1>>, <<19, "isub">>, <<20, "istore", 0>>,
     <<22, "goto", 3>>, <<25, "return">>}

GcdCode ==
    {<<0, "iload", 1>>, <<2, "iconst", 0>>, <<3, "if_icmpne", 13>>,
     <<6, "iload", 0>>, <<8, "istore", 2>>, <<10, "goto", 27>>,
     <<13, "iload", 1>>, <<15, "iload", 0>>, <<17, "iload", 1>>, <<19, "irem">>,
     <<20, "istore", 1>>, <<22, "istore", 0>>, <<24, "goto", 0>>, <<27, "return">>}

LogCode ==
    {<<0, "iconst", 0>>, <<1, "istore", 2>>,
     <<3, "iload", 0>>, <<5, "iconst", 1>>, <<6, "if_icmpgt", 12>>, <<9, "goto", 27>>,
     <<12, "iload", 0>>, <<14, "iconst", 2>>, <<15, "idiv">>, <<16, "istore", 0>>,
     <<18, "iload", 2>>, <<20, "iconst", 1>>, <<21, "iadd">>, <<22, "istore", 2>>,
     <<24, "goto", 3>>, <<27, "return">>}

AbsCode ==
    {<<0, "iload", 0>>, <<2, "iconst", 0>>, <<3, "if_icmpge", 12>>,
     <<6, "iload", 0>>, <<8, "ineg">>, <<9, "goto", 14>>,
     <<12, "iload", 0>>, <<14, "istore", 2>>, <<16, "return">>}

MinCode ==
    {<<0, "iload", 0>>, <<2, "iload", 1>>, <<4, "if_icmplt", 12>>,
     <<7, "iload", 1>>, <<9, "goto", 14>>,
     <<12, "iload", 0>>, <<14, "istore", 2>>, <<16, "return">>}

QuotientCode ==
    {<<0, "iload", 0>>, <<2, "iload", 1>>, <<4, "idiv">>, <<5, "istore", 2>>, <<7, "return">>}

ObjectsCode ==
    {<<0, "new">>, <<3, "istore", 0>>, <<5, "new">>, <<8, "istore", 1>>,
     <<10, "iload", 0>>, <<12, "bipush">>, <<14, "putfield">>,
     <<17, "iload", 0>>, <<19, "getfield">>, <<22, "putstatic">>,
     <<25, "getstatic">>, <<28, "putstatic">>,
     <<31, "new">>, <<34, "istore", 2>>, <<36, "return">>}

\* Methods that are asked about numbers that are not negative, and about any.
CountingMethods == {"sum", "factorial", "gcd", "log", "objects"}
OtherMethods == {"abs", "min", "quotient"}

InterpInit ==
    /\ method \in [name : CountingMethods \cup OtherMethods, args : Arguments]
    /\ method.name \in CountingMethods => method.args[1] >= 0 /\ method.args[2] >= 0
    /\ operand_stack = << >> /\ interp_pc = 0 /\ next_free = 0
    /\ local_vars = [i \in 0 .. 2 |-> IF i = 2 THEN 0 ELSE method.args[i + 1]]

\* The dispatcher that interpreter_run leaves out.
Dispatch(i) ==
    \/ i[2] \in Arithmetic /\ exec_arithmetic(i[2])
    \/ i[2] \in Conditions /\ exec_if_icmp(i[2], i[3])
    \/ i[2] = "ineg"       /\ exec_ineg
    \/ i[2] = "goto"       /\ exec_goto(i[3])
    \/ i[2] = "return"     /\ exec_return
    \/ i[2] = "iload"      /\ exec_iload(i[3])
    \/ i[2] = "istore"     /\ exec_istore(i[3])
    \/ i[2] = "iconst"     /\ exec_iconst(i[3])
    \/ i[2] = "bipush"     /\ exec_bipush
    \/ i[2] = "new"        /\ exec_new
    \/ i[2] = "getfield"   /\ exec_getfield
    \/ i[2] = "putfield"   /\ exec_putfield
    \/ i[2] = "getstatic"  /\ exec_getstatic
    \/ i[2] = "putstatic"  /\ exec_putstatic

Runs(name, code) ==
    /\ method.name = name /\ interp_pc # RETURNED
    /\ \E i \in code : i[1] = interp_pc /\ Dispatch(i)
    /\ UNCHANGED method

InterpNext ==
    \/ Runs("sum", SumCode)
    \/ Runs("factorial", FactorialCode)
    \/ Runs("gcd", GcdCode)
    \/ Runs("log", LogCode)
    \/ Runs("abs", AbsCode)
    \/ Runs("min", MinCode)
    \/ Runs("quotient", QuotientCode)
    \/ Runs("objects", ObjectsCode)

InterpSpec == InterpInit /\ [][InterpNext]_interpVars

Divides(d, n) == \E q \in 0 .. n : q * d = n

Factorials(n) ==
    LET f[k \in 0 .. n] == IF k = 0 THEN 1 ELSE k * f[k - 1]
    IN  f

PowersOfTwo(n) ==
    LET p[k \in 0 .. n] == IF k = 0 THEN 1 ELSE 2 * p[k - 1]
    IN  p

\* What method m has in its locals when it returns, the last the result.
IsResult(m, locals) ==
    LET n == m.args[1]
        k == m.args[2]
        result == locals[2]
    IN  \/ m.name = "sum" /\ 2 * result = n * (n + 1)
        \/ m.name = "factorial" /\ result = Factorials(n)[n]
        \/ /\ m.name = "gcd" /\ Divides(result, n) /\ Divides(result, k)
           /\ \A d \in 1 .. n : Divides(d, n) /\ Divides(d, k) => d <= result
        \/ m.name = "log" /\ (n > 0 => PowersOfTwo(n)[result] <= n /\ n < 2 * PowersOfTwo(n)[result])
        \/ m.name = "abs" /\ result \in {n, -n} /\ result >= 0
        \/ m.name = "min" /\ result \in {n, k} /\ result <= n /\ result <= k
        \/ m.name = "quotient" /\ k = 0 /\ result = 0
        \/ m.name = "quotient" /\ k # 0 /\ LET r == n - k * result IN r * n >= 0 /\ r * r < k * k
        \/ m.name = "objects" /\ \A i \in 0 .. 2 : locals[i] = IF i < HEAP_OBJECTS THEN i + 1 ELSE 0

\* Whatever way through its loops a method takes, it goes on until it returns, and
\* what it returns is what it stands for, with the stack as it was before; what is
\* divided by zero, and an object that finds no room, is the 0 of an empty stack.
\* interpreter/instructions, runtime/stack.c:16-27, runtime/memory.c:28-36.
BytecodeComputes ==
    LET At(name, code) == method.name = name /\ \E i \in code : i[1] = interp_pc
    IN  /\ \/ interp_pc = RETURNED
           \/ At("sum", SumCode) \/ At("factorial", FactorialCode) \/ At("gcd", GcdCode)
           \/ At("log", LogCode) \/ At("abs", AbsCode) \/ At("min", MinCode)
           \/ At("quotient", QuotientCode) \/ At("objects", ObjectsCode)
        /\ interp_pc = RETURNED => operand_stack = << >> /\ IsResult(method, local_vars)

-----------------------------------------------------------------------------
(***************************************************************************)
(* The collector of mark_sweep.c (memory management, phase 2): an array of *)
(* objects, the roots, and a stop-the-world cycle that marks with three    *)
(* colours, sweeps, and slides the live objects to the front.  An object   *)
(* is the slot it is in, as a pointer is the address of a slot; the        *)
(* program may use any object that is allocated.  Which grey object is     *)
(* scanned next is left open; ages, names and values are left out.         *)
(***************************************************************************)

CONSTANTS
    HEAP_CAPACITY,
    MAX_REFS_PER_OBJ,
    MAX_GC_ROOTS

ASSUME HeapConstants == HEAP_CAPACITY \in Nat /\ MAX_REFS_PER_OBJ \in Nat /\ MAX_GC_ROOTS \in Nat

HeapSlots == 0 .. HEAP_CAPACITY - 1

Colours == {"WHITE", "GRAY", "BLACK"}

HeapObject == [free : BOOLEAN, gc_color : Colours, refs : SUBSET HeapSlots, ref_count : Nat]

VARIABLES
    objects,      \* the heap
    live_count,
    gc_roots,     \* slots the roots point to
    gc_root_count,
    gc_phase      \* what the collector does next; "app" while the program runs

heapVars == <<objects, live_count, gc_roots, gc_root_count, gc_phase>>

HeapTypeOK ==
    /\ objects \in [HeapSlots -> HeapObject]
    /\ live_count \in Int
    /\ gc_roots \subseteq HeapSlots
    /\ gc_root_count \in Nat
    /\ gc_phase \in {"app", "mark", "sweep", "compact"}

\* Every slot starts free.
HeapInit ==
    /\ objects = [s \in HeapSlots |-> [free |-> TRUE, gc_color |-> "WHITE",
                                       refs |-> {}, ref_count |-> 0]]
    /\ live_count = 0
    /\ gc_roots = {} /\ gc_root_count = 0
    /\ gc_phase = "app"

-----------------------------------------------------------------------------

Live == {s \in HeapSlots : ~ objects[s].free}

\* The first free slot is taken; a full heap gives NULL and changes nothing.
heap_alloc ==
    /\ gc_phase = "app"
    /\ \E s \in HeapSlots \ Live :
          /\ 0 .. s - 1 \subseteq Live
          /\ objects' = [objects EXCEPT ![s] = [free |-> FALSE, gc_color |-> "WHITE",
                                                refs |-> {}, ref_count |-> 0]]
    /\ live_count' = live_count + 1
    /\ UNCHANGED <<gc_roots, gc_root_count, gc_phase>>

heap_add_ref(from, to) ==
    /\ gc_phase = "app"
    /\ {from, to} \subseteq Live
    /\ objects[from].ref_count < MAX_REFS_PER_OBJ
    /\ objects' = [objects EXCEPT ![from].refs = @ \cup {to}, ![from].ref_count = @ + 1]
    /\ UNCHANGED <<live_count, gc_roots, gc_root_count, gc_phase>>

gc_add_root(s) ==
    /\ gc_phase = "app"
    /\ s \in Live
    /\ gc_root_count < MAX_GC_ROOTS
    /\ gc_roots' = gc_roots \cup {s}
    /\ gc_root_count' = gc_root_count + 1
    /\ UNCHANGED <<objects, live_count, gc_phase>>

Coloured(s, colour) == s \in Live /\ objects[s].gc_color = colour

\* gc_run starts; gc_mark makes every object white and the roots grey.
gc_mark ==
    /\ gc_phase = "app"
    /\ objects' = [s \in HeapSlots |->
                     IF s \notin Live THEN objects[s]
                     ELSE [objects[s] EXCEPT !.gc_color = IF s \in gc_roots THEN "GRAY" ELSE "WHITE"]]
    /\ gc_phase' = "mark"
    /\ UNCHANGED <<live_count, gc_roots, gc_root_count>>

Scan_one(s) ==
    /\ gc_phase = "mark" /\ Coloured(s, "GRAY")
    /\ \E r \in objects[s].refs \cup {s} :
          objects' = [x \in HeapSlots |->
             IF x = s THEN [objects[x] EXCEPT !.gc_color = "BLACK"]
             ELSE IF x = r /\ Coloured(x, "WHITE")
             THEN [objects[x] EXCEPT !.gc_color = "GRAY"]
             ELSE objects[x]]
    /\ UNCHANGED <<live_count, gc_roots, gc_root_count, gc_phase>>

\* A grey object becomes black and the white ones it refers to become grey.
Scan(s) ==
    /\ gc_phase = "mark" /\ Coloured(s, "GRAY")
    /\ objects' = [x \in HeapSlots |->
          IF x = s THEN [objects[x] EXCEPT !.gc_color = "BLACK"]
          ELSE IF x \in objects[s].refs /\ Coloured(x, "WHITE")
          THEN [objects[x] EXCEPT !.gc_color = "GRAY"]
          ELSE objects[x]]
    /\ UNCHANGED <<live_count, gc_roots, gc_root_count, gc_phase>>

MarkComplete ==
    /\ gc_phase = "mark" /\ \A s \in HeapSlots : ~ Coloured(s, "GRAY")
    /\ gc_phase' = "sweep"
    /\ UNCHANGED <<objects, live_count, gc_roots, gc_root_count>>

\* White objects are freed, the others are white for the next cycle.
gc_sweep ==
    /\ gc_phase = "sweep"
    /\ objects' = [s \in HeapSlots |->
          IF s \notin Live THEN objects[s]
          ELSE IF Coloured(s, "WHITE") THEN [objects[s] EXCEPT !.free = TRUE]
          ELSE [objects[s] EXCEPT !.gc_color = "WHITE"]]
    /\ live_count' = live_count - Cardinality({s \in HeapSlots : Coloured(s, "WHITE")})
    /\ gc_phase' = "compact"
    /\ UNCHANGED <<gc_roots, gc_root_count>>

\* The live objects move to the front, in order.  The references in them and the
\* roots stay as they are, also those to objects that moved.
gc_compact ==
    /\ gc_phase = "compact"
    /\ objects' = [s \in HeapSlots |->
          IF s < Cardinality(Live)
          THEN objects[CHOOSE x \in Live : Cardinality({y \in Live : y < x}) = s]
          ELSE [objects[s] EXCEPT !.free = TRUE]]
    /\ gc_phase' = "app"
    /\ UNCHANGED <<live_count, gc_roots, gc_root_count>>

HeapNext ==
    \/ heap_alloc
    \/ \E s \in HeapSlots : \/ \E to \in HeapSlots : heap_add_ref(s, to)
                            \/ gc_add_root(s)
                            \/ Scan(s)
    \/ gc_mark \/ MarkComplete \/ gc_sweep \/ gc_compact

HeapSpec == HeapInit /\ [][HeapNext]_heapVars

-----------------------------------------------------------------------------
(* Properties                                                              *)

\* A set of objects that has the roots and whatever its members refer to.
IsClosed(S) ==
    /\ gc_roots \cap Live \subseteq S
    /\ \A s \in S : objects[s].refs \cap Live \subseteq S

\* The objects that a path of references leads to from a root: those in every
\* closed set.
Reachable == {s \in Live : \A S \in SUBSET Live : IsClosed(S) => s \in S}

\* What the sweep is about to free is exactly the garbage: marking, in whatever
\* order, left no reachable object white and reached nothing else, cycles and
\* objects that refer to themselves included.  live_count agrees with the heap,
\* and the program always finds its objects in the first slots, without a gap.
\* gc_mark, gc_sweep and gc_compact, mark_sweep.c:195-327.
CollectsGarbageOnly ==
    /\ gc_phase = "sweep" =>
          \A s \in Live : objects[s].gc_color = (IF s \in Reachable THEN "BLACK" ELSE "WHITE")
    /\ live_count = Cardinality(Live)
    /\ gc_phase = "app" => Live = 0 .. live_count - 1
=============================================================================
