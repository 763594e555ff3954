------------------------------ MODULE MCShared ------------------------------
(***************************************************************************)
(* What several threads or callers share, in different programs, checked   *)
(* in one run: the map, the stack and the collected heap of the memory     *)
(* management examples, the distributed cache of the networking examples,  *)
(* the connection pools of the database (phase 7) and of Spring, and the   *)
(* server and the protocol behind them; and the counters, the published    *)
(* values, the threads and the heap of the Java machine. They have nothing *)
(* in common: a behaviour is one of program, and the variables of the      *)
(* others keep their first values.                                         *)
(***************************************************************************)
EXTENDS ConcurrentMap, LockFreeStack, DistributedCache, ConnectionPools,
        JavaMachine

VARIABLE program

\* Arguments of the methods of the interpreter, and texts of messages.
SomeArguments == {<<n, k>> : n, k \in -2 .. 6}

SomePayloads == {<< >>, <<"a">>, <<"b", "c">>, <<"a", "b", "c">>}

sharedVars == <<mapVars, stackVars, heapVars, cacheVars, poolVars, hikariVars, counterVars,
    shareVars, lifeVars, jvmVars, interpVars, serverVars, wireVars, program>>

\* What a program chooses at its start is chosen when it is that one which runs.
NoHashes == key_hash = [k \in CacheKeys |-> 0] /\ vnode_hash = [p \in CacheNodes \X (1 .. VNODES) |-> 0]

\* Distances on a ring are relative, so it may begin at the first node's first point.
RingTurned == vnode_hash[<<1, 1>>] = 0

Init ==
    /\ program \in {"map", "stack", "heap", "cache", "pool", "hikari", "counters",
                    "sharing", "thread", "jvm", "bytecode", "server", "wire"}
    /\ program # "cache" => NoHashes
    /\ program # "pool" => connections = << >>
    /\ program # "counters" => counting = "atomic"
    /\ program # "sharing" => demo = "flag"
    /\ program # "bytecode" => method = [name |-> "sum", args |-> <<0, 0>>]
    /\ MapInit /\ StackInit /\ HeapInit /\ CacheInit /\ PoolInit
    /\ HikariInit /\ CountersInit /\ ShareInit /\ LifeInit /\ JvmInit
    /\ InterpInit /\ DatabaseServerInit /\ WireInit
    /\ RingTurned

Next ==
    /\ \/ /\ program = "map" /\ MapNext
          /\ UNCHANGED <<stackVars, heapVars, cacheVars, poolVars, hikariVars,
                           counterVars, shareVars, lifeVars, jvmVars, interpVars,
                           serverVars, wireVars>>
       \/ /\ program = "stack" /\ StackNext
          /\ UNCHANGED <<mapVars, heapVars, cacheVars, poolVars, hikariVars,
                           counterVars, shareVars, lifeVars, jvmVars, interpVars,
                           serverVars, wireVars>>
       \/ /\ program = "heap" /\ HeapNext
          /\ UNCHANGED <<mapVars, stackVars, cacheVars, poolVars, hikariVars,
                           counterVars, shareVars, lifeVars, jvmVars, interpVars,
                           serverVars, wireVars>>
       \/ /\ program = "cache" /\ CacheNext
          /\ UNCHANGED <<mapVars, stackVars, heapVars, poolVars, hikariVars,
                           counterVars, shareVars, lifeVars, jvmVars, interpVars,
                           serverVars, wireVars>>
       \/ /\ program = "pool" /\ PoolNext
          /\ UNCHANGED <<mapVars, stackVars, heapVars, cacheVars, hikariVars,
                           counterVars, shareVars, lifeVars, jvmVars, interpVars,
                           serverVars, wireVars>>
       \/ /\ program = "hikari" /\ HikariNext
          /\ UNCHANGED <<mapVars, stackVars, heapVars, cacheVars, poolVars,
                           counterVars, shareVars, lifeVars, jvmVars, interpVars,
                           serverVars, wireVars>>
       \/ /\ program = "counters" /\ CountersNext
          /\ UNCHANGED <<mapVars, stackVars, heapVars, cacheVars, poolVars,
                           hikariVars, shareVars, lifeVars, jvmVars, interpVars,
                           serverVars, wireVars>>
       \/ /\ program = "sharing" /\ ShareNext
          /\ UNCHANGED <<mapVars, stackVars, heapVars, cacheVars, poolVars,
                           hikariVars, counterVars, lifeVars, jvmVars, interpVars,
                           serverVars, wireVars>>
       \/ /\ program = "thread" /\ LifeNext
          /\ UNCHANGED <<mapVars, stackVars, heapVars, cacheVars, poolVars,
                           hikariVars, counterVars, shareVars, jvmVars, interpVars,
                           serverVars, wireVars>>
       \/ /\ program = "jvm" /\ JvmNext
          /\ UNCHANGED <<mapVars, stackVars, heapVars, cacheVars, poolVars,
                           hikariVars, counterVars, shareVars, lifeVars, interpVars,
                           serverVars, wireVars>>
       \/ /\ program = "bytecode" /\ InterpNext
          /\ UNCHANGED <<mapVars, stackVars, heapVars, cacheVars, poolVars,
                           hikariVars, counterVars, shareVars, lifeVars, jvmVars,
                           serverVars, wireVars>>
       \/ /\ program = "server" /\ DatabaseServerNext
          /\ UNCHANGED <<mapVars, stackVars, heapVars, cacheVars, poolVars,
                           hikariVars, counterVars, shareVars, lifeVars, jvmVars,
                           interpVars, wireVars>>
       \/ /\ program = "wire" /\ WireNext
          /\ UNCHANGED <<mapVars, stackVars, heapVars, cacheVars, poolVars,
                           hikariVars, counterVars, shareVars, lifeVars, jvmVars,
                           interpVars, serverVars>>
    /\ UNCHANGED program

Spec == Init /\ [][Next]_sharedVars

\* Names that are interchangeable within each program, shared by the programs.
Symmetry == Permutations(Nodes) \cup Permutations(Keys) \cup Permutations(MapValues)

\* What is read is what was written: from the cache, through a published flag or
\* pointer, from a counter, from the state of a thread, and off a stream.
ReadsAreCurrent ==
    /\ program = "cache" => NeverStale
    /\ program = "sharing" => PublishedIsComplete
    /\ program = "counters" => IncrementsAreBounded
    /\ program = "thread" => ThreadsEndAsTold
    /\ program = "wire" => MessagesArriveWhole

\* What the machine computes, and what its collections take, in the collected heap
\* and in the one with generations.
MachineIsExact ==
    /\ program = "heap" => CollectsGarbageOnly
    /\ program = "jvm" => NothingGrowsOld
    /\ program = "bytecode" => BytecodeComputes
=============================================================================
