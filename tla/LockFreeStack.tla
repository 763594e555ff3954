---------------------------- MODULE LockFreeStack ----------------------------
(***************************************************************************)
(* The lock-free stack of atomic_operations.c (memory management, phase    *)
(* 6): push and pop swing the head with a compare-and-exchange, and pop    *)
(* frees the node it took.  malloc may hand a freed address out again, and *)
(* what is read from freed memory is anything.  The exchange is the weak   *)
(* one: it may fail although the head is the expected one.                 *)
(***************************************************************************)
EXTENDS Integers, Sequences, FiniteSets, SequencesExt

CONSTANTS
    StackThreads,
    Poppers,      \* the threads that pop
    Nodes,        \* addresses of nodes
    NullNode,
    Items         \* what is pushed, numbered in the order of the calls

ASSUME StackConstants ==
    /\ Poppers \subseteq StackThreads
    /\ IsFiniteSet(Nodes) /\ NullNode \notin Nodes
    /\ Items \subseteq Nat

VARIABLES
    node,         \* memory: what is written at each address
    malloced,     \* addresses that are allocated
    head,
    stack_size,
    stacker,      \* what each thread is doing, with its local variables
    pushed,       \* items handed to stack_push
    popped        \* what stack_pop gave back, in order

stackVars == <<node, malloced, head, stack_size, stacker, pushed, popped>>

Node == [value : Items \cup {NullNode}, next : Nodes \cup {NullNode}]

Stacker == [pc : {"idle", "push", "push_cas", "push_count", "pop", "pop_next", "pop_cas",
                  "pop_free", "pop_count"},
            new_node : Nodes \cup {NullNode}, old_head : Nodes \cup {NullNode},
            next : Nodes \cup {NullNode}]

StackTypeOK ==
    /\ node \in [Nodes -> Node]
    /\ malloced \subseteq Nodes
    /\ head \in Nodes \cup {NullNode}
    /\ stack_size \in Int
    /\ stacker \in [StackThreads -> Stacker]
    /\ pushed \subseteq Items
    /\ popped \in Seq(Items \cup {NullNode})

\* stack_init
StackInit ==
    /\ node = [a \in Nodes |-> [value |-> NullNode, next |-> NullNode]]
    /\ malloced = {}
    /\ head = NullNode
    /\ stack_size = 0
    /\ stacker = [t \in StackThreads |-> [pc |-> "idle", new_node |-> NullNode,
                                          old_head |-> NullNode, next |-> NullNode]]
    /\ pushed = {}
    /\ popped = << >>

-----------------------------------------------------------------------------

Is(t, pc) == stacker[t].pc = pc

Step(t, pc) == [stacker EXCEPT ![t].pc = pc]

\* stack_push makes a node of its own ...
stack_push(t, x) ==
    /\ Is(t, "idle")
    /\ x \notin pushed /\ \A y \in Items : y < x => y \in pushed
    /\ \E a \in Nodes \ malloced :
          /\ malloced' = malloced \cup {a}
          /\ node' = [node EXCEPT ![a].value = x]
          /\ stacker' = [Step(t, "push") EXCEPT ![t].new_node = a]
    /\ pushed' = pushed \cup {x}
    /\ UNCHANGED <<head, stack_size, popped>>

\* ... points it at the head it sees ...
PushRead(t) ==
    /\ Is(t, "push")
    /\ node' = [node EXCEPT ![stacker[t].new_node].next = head]
    /\ stacker' = [Step(t, "push_cas") EXCEPT ![t].old_head = head]
    /\ UNCHANGED <<malloced, head, stack_size, pushed, popped>>

PushCas_blind(t) ==
    /\ Is(t, "push_cas")
    /\ head' = stacker[t].new_node
    /\ stacker' = Step(t, "push_count")
    /\ UNCHANGED <<node, malloced, stack_size, pushed, popped>>

\* ... and makes it the head if that is still the same, or starts again.
PushCas(t) ==
    /\ Is(t, "push_cas")
    /\ \/ /\ head = stacker[t].old_head
          /\ head' = stacker[t].new_node
          /\ stacker' = Step(t, "push_count")
       \/ UNCHANGED head /\ stacker' = Step(t, "push")
    /\ UNCHANGED <<node, malloced, stack_size, pushed, popped>>

PushCount(t) ==
    /\ Is(t, "push_count")
    /\ stack_size' = stack_size + 1
    /\ stacker' = Step(t, "idle")
    /\ UNCHANGED <<node, malloced, head, pushed, popped>>

\* stack_pop reads the head and gives up if it is NULL ...
stack_pop(t) ==
    /\ t \in Poppers
    /\ Is(t, "idle") \/ Is(t, "pop")
    /\ stacker' = [Step(t, IF head = NullNode THEN "idle" ELSE "pop_next")
                     EXCEPT ![t].old_head = head]
    /\ UNCHANGED <<node, malloced, head, stack_size, pushed, popped>>

\* ... reads the next of that node, which another thread may have freed ...
PopNext(t) ==
    /\ Is(t, "pop_next")
    /\ LET a == stacker[t].old_head IN
       \E n \in Nodes \cup {NullNode} :
          /\ a \in malloced => n = node[a].next
          /\ stacker' = [Step(t, "pop_cas") EXCEPT ![t].next = n]
    /\ UNCHANGED <<node, malloced, head, stack_size, pushed, popped>>

\* ... and makes it the head if the head is still the same, or starts again.
PopCas(t) ==
    /\ Is(t, "pop_cas")
    /\ \/ /\ head = stacker[t].old_head
          /\ head' = stacker[t].next
          /\ stacker' = Step(t, "pop_free")
       \/ UNCHANGED head /\ stacker' = Step(t, "pop")
    /\ UNCHANGED <<node, malloced, stack_size, pushed, popped>>

\* The node is this thread's now: it takes the value and frees the node.
PopFree(t) ==
    /\ Is(t, "pop_free")
    /\ popped' = Append(popped, node[stacker[t].old_head].value)
    /\ malloced' = malloced \ {stacker[t].old_head}
    /\ stacker' = Step(t, "pop_count")
    /\ UNCHANGED <<node, head, stack_size, pushed>>

PopCount(t) ==
    /\ Is(t, "pop_count")
    /\ stack_size' = stack_size - 1
    /\ stacker' = Step(t, "idle")
    /\ UNCHANGED <<node, malloced, head, pushed, popped>>

StackNext ==
    \E t \in StackThreads :
        \/ \E x \in Items : stack_push(t, x)
        \/ PushRead(t) \/ PushCas(t) \/ PushCount(t)
        \/ stack_pop(t) \/ PopNext(t) \/ PopCas(t) \/ PopFree(t) \/ PopCount(t)

StackSpec == StackInit /\ [][StackNext]_stackVars

-----------------------------------------------------------------------------
(* Properties                                                              *)

\* The first n addresses of the chain that starts at the head.
ChainTo[n \in 0 .. Cardinality(Nodes)] ==
    IF n = 0 THEN << >>
    ELSE LET before == ChainTo[n - 1]
             a == IF before = << >> THEN head ELSE node[Last(before)].next
         IN  IF Len(before) < n - 1 \/ a = NullNode THEN before ELSE Append(before, a)

Chain == ChainTo[Cardinality(Nodes)]

LS == INSTANCE LifoStack WITH content <- [i \in DOMAIN Chain |-> node[Chain[i]].value]

\* With one popping thread, however many push at the same time, the stack is a
\* stack: each push and each pop happens at its compare-and-exchange.
\* stack_push and stack_pop, atomic_operations.c:149-193.
ImplementsLifo == LS!LifoSpec

\* atomic_operations.c:130 "AtomicReference CAS — thread-safe pointer update": no
\* item is given back twice, and every node of the chain is allocated.
PoppedOnce ==
    /\ \A i, j \in DOMAIN popped : popped[i] = popped[j] => i = j
    /\ Range(Chain) \subseteq malloced
=============================================================================
