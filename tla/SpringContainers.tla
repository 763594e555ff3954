-------------------------- MODULE SpringContainers --------------------------
(***************************************************************************)
(* The containers of the Spring examples: beans and their life (phase 1),  *)
(* what is injected into them (phase 2), and the proxies around them       *)
(* (phase 5).                                                              *)
(***************************************************************************)
EXTENDS Integers, Sequences, FiniteSets, SequencesExt, Selection

-----------------------------------------------------------------------------
(***************************************************************************)
(* The application context of the Spring examples, phase 1                 *)
(* (bean_factory.c).  A bean is the number of its creation; what the       *)
(* create, init and destroy functions of the example beans do, besides     *)
(* allocating and freeing, is left out.  As its programs do, the caller    *)
(* refreshes a context once and closes it once.                            *)
(***************************************************************************)

CONSTANTS
    BeanNames,
    MAX_BEANS,
    MAX_CREATED   \* bound: beans created in a behaviour

ASSUME BeanFactoryAssumption == MAX_BEANS \in Nat /\ MAX_CREATED \in Nat

VARIABLES
    beans,         \* ApplicationContext.beans[0 .. bean_count - 1]
    initialized,   \* ApplicationContext.initialized
    closed,        \* the context is freed
    created,       \* number of beans created
    alive,         \* beans created and not freed
    destroyed,     \* auxiliary: what context_close destroyed, in order
    handed         \* auxiliary: [name, bean] of the beans callers were given

beanVars == <<beans, initialized, closed, created, alive, destroyed, handed>>

NULL_BEAN == 0

BeanFactoryInit ==
    /\ beans = << >> /\ initialized = FALSE /\ closed = FALSE
    /\ created = 0 /\ alive = {} /\ destroyed = << >> /\ handed = {}

context_register_bean(name, scope, destroyable) ==
    /\ beans' = IF Len(beans) >= MAX_BEANS THEN beans
                ELSE Append(beans, [name |-> name, scope |-> scope, lifecycle |-> "registered",
                                    instance |-> NULL_BEAN, destroyable |-> destroyable])
    /\ UNCHANGED <<initialized, closed, created, alive, destroyed, handed>>

Singletons == {i \in DOMAIN beans : beans[i].scope = "singleton"}

\* Singletons are created and initialised in the order they were registered.
context_refresh ==
    LET nth(i) == created + Cardinality({j \in Singletons : j <= i})
    IN  /\ created + Cardinality(Singletons) <= MAX_CREATED
        /\ beans' = [i \in DOMAIN beans |->
                        IF i \in Singletons
                        THEN [beans[i] EXCEPT !.instance = nth(i), !.lifecycle = "initialized"]
                        ELSE beans[i]]
        /\ created' = created + Cardinality(Singletons)
        /\ alive' = alive \cup {nth(i) : i \in Singletons}
        /\ initialized' = TRUE
        /\ UNCHANGED <<closed, destroyed, handed>>

\* The first entry of the name decides.
Entry(name) ==
    LET of == {i \in DOMAIN beans : beans[i].name = name} IN IF of = {} THEN 0 ELSE Min(of)

GetSingleton(name) ==
    LET e == Entry(name)
    IN  /\ initialized /\ e # 0 /\ beans[e].scope = "singleton"
        /\ handed' = IF beans[e].instance = NULL_BEAN THEN handed
                     ELSE handed \cup {[name |-> name, bean |-> beans[e].instance]}
        /\ UNCHANGED <<beans, initialized, closed, created, alive, destroyed>>

\* A prototype belongs to the caller, who destroys it.
GetPrototype(name) ==
    LET e == Entry(name)
    IN  /\ initialized /\ e # 0 /\ beans[e].scope = "prototype" /\ created < MAX_CREATED
        /\ created' = created + 1
        /\ alive' = alive \cup {created + 1}
        /\ UNCHANGED <<beans, initialized, closed, destroyed, handed>>

context_get_bean(name) == GetSingleton(name) \/ GetPrototype(name)

Instances == {beans[i].instance : i \in DOMAIN beans}

DestroyPrototype ==
    /\ \E b \in alive \ Instances : alive' = alive \ {b}
    /\ UNCHANGED <<beans, initialized, closed, created, destroyed, handed>>

\* The entries that context_close calls destroy_fn of, last one first.
Destroyed ==
    LET calls == Selection(beans, {i \in Singletons : beans[i].instance # NULL_BEAN /\ beans[i].destroyable})
    IN  Reverse([i \in DOMAIN calls |-> calls[i].instance])

context_close ==
    /\ destroyed' = Destroyed
    /\ alive' = alive \ ToSet(Destroyed)
    /\ beans' = << >> /\ closed' = TRUE
    /\ UNCHANGED <<initialized, created, handed>>

BeanFactoryNext ==
    \/ ~ closed /\ \E n \in BeanNames, s \in {"singleton", "prototype"}, d \in BOOLEAN :
          context_register_bean(n, s, d)
    \/ ~ closed /\ ~ initialized /\ context_refresh
    \/ ~ closed /\ \E n \in BeanNames : context_get_bean(n)
    \/ ~ closed /\ initialized /\ context_close
    \/ initialized /\ ~ closed /\ DestroyPrototype

BeanFactorySpec == BeanFactoryInit /\ [][BeanFactoryNext]_beanVars

-----------------------------------------------------------------------------
(* Properties                                                              *)

\* Whoever asks for a singleton, before or after others of its name were
\* registered, is given the same bean, alive while the context is open; closing
\* destroys no bean twice, the later created before the earlier, and leaves
\* alive only what nobody was to destroy.  context_refresh to context_close,
\* bean_factory.c:328-447.
BeansLiveOnce ==
    /\ \A g, h \in handed : g.name = h.name => g.bean = h.bean
    /\ ~ closed => \A h \in handed : h.bean \in alive
    /\ \A i, j \in DOMAIN destroyed : i < j => destroyed[i] > destroyed[j]
    /\ closed => alive \cap ToSet(destroyed) = {}

-----------------------------------------------------------------------------
(***************************************************************************)
(* Injection by type of the Spring examples, phase 2 (field_injection.c).  *)
(* Beans are allocated one by one, put into the container and injected in  *)
(* any order.  Metadata is what the build_*_metadata functions return.     *)
(***************************************************************************)

CONSTANT
    MAX_ENTRIES,   \* capacity of the container (MAX_BEANS of this program)
    MAX_ALLOCATED  \* bound: beans allocated

VARIABLES
    types,        \* types[b]: the type of the b-th bean allocated
    container,    \* BeanContainer.entries: the beans put into it
    fields        \* fields[b]: what the fields of bean b point to, by field

injectionVars == <<types, container, fields>>

Field(type, required) == [dep_type |-> type, required |-> required]

\* InjectionMetadata of each type, a bean's fields by name.
Metadata(type) ==
    CASE type = "UserRepository" -> [db_config |-> Field("DatabaseConfig", TRUE)]
      [] type = "UserService" -> [user_repo |-> Field("UserRepository", TRUE),
                                  email_svc |-> Field("EmailService", FALSE)]
      [] type = "OrderService" -> [user_svc |-> Field("UserService", TRUE)]
      [] OTHER -> << >>

BeanTypes == {"DatabaseConfig", "UserRepository", "EmailService", "UserService", "OrderService"}

NoBean == 0

InjectionInit == types = << >> /\ container = << >> /\ fields = << >>

\* calloc leaves the fields NULL.
Allocate(type) ==
    /\ Len(types) < MAX_ALLOCATED
    /\ types' = Append(types, type)
    /\ fields' = Append(fields, [f \in DOMAIN Metadata(type) |-> NoBean])
    /\ UNCHANGED container

\* A full container takes no more, and says nothing.
container_put(b) ==
    /\ container' = IF Len(container) >= MAX_ENTRIES THEN container ELSE Append(container, b)
    /\ UNCHANGED <<types, fields>>

\* The first bean of the type.
container_get_by_type(type) ==
    LET of == {i \in DOMAIN container : types[container[i]] = type}
    IN  IF of = {} THEN NoBean ELSE container[CHOOSE i \in of : \A j \in of : i <= j]

\* A field whose type the container does not have is left as it is, even one
\* that is required.
inject_dependencies(b) ==
    /\ fields' = [fields EXCEPT ![b] = [f \in DOMAIN @ |->
                    LET dep == container_get_by_type(Metadata(types[b])[f].dep_type)
                    IN  IF dep = NoBean THEN @[f] ELSE dep]]
    /\ UNCHANGED <<types, container>>

InjectionNext ==
    \/ \E t \in BeanTypes : Allocate(t)
    \/ \E b \in DOMAIN types : b \notin {container[i] : i \in DOMAIN container} /\ container_put(b)
    \/ \E b \in DOMAIN types : inject_dependencies(b)

InjectionSpec == InjectionInit /\ [][InjectionNext]_injectionVars

-----------------------------------------------------------------------------
(* Properties                                                              *)

\* However putting and injecting follow one another, a bean injected is wired
\* for good: all beans of a type share their dependencies, each of the field's
\* type and in the container, so the wiring has no cycle and does not depend on
\* the order of the injections.  inject_dependencies, field_injection.c:148-226.
DependenciesAreShared ==
    \A b \in DOMAIN types : \A f \in DOMAIN fields[b] :
        fields[b][f] # NoBean =>
            /\ fields[b][f] \in {container[i] : i \in DOMAIN container}
            /\ types[fields[b][f]] = Metadata(types[b])[f].dep_type
            /\ \A c \in DOMAIN types :
                  types[c] = types[b] /\ fields[c][f] # NoBean => fields[c][f] = fields[b][f]

-----------------------------------------------------------------------------
(***************************************************************************)
(* The proxy chain of the Spring examples, phase 5 (proxy_chain.c): an     *)
(* Invocation goes through its interceptors to the target and back.  A     *)
(* step is the part of a function up to its call of proceed, or the part   *)
(* behind it.  The variable authorized of security_interceptor is always   *)
(* 1, so nobody is refused; times and what is printed are left out.        *)
(***************************************************************************)

CONSTANTS
    Interceptors,    \* functions that are added to a chain
    MAX_CHAIN_LEN

\* Arguments of the target: one that is cached, one that does not exist, another.
Args == {"1", "999", "2"}

VARIABLES
    mi,       \* the Invocation: arg, chain, chain_index, has_exception
    control,  \* what runs: the caller, proceed or a return
    frames,   \* the interceptors that called proceed, the last one first
    events    \* auxiliary: what was entered, left, decided and called, in order

proxyVars == <<mi, control, frames, events>>

\* build_invocation, for the default argument.
ProxyInit ==
    /\ mi = [arg |-> "2", chain |-> << >>, chain_index |-> 0, has_exception |-> FALSE]
    /\ control = "caller" /\ frames = << >> /\ events = << >>

build_invocation(arg) ==
    /\ control = "caller" /\ mi.chain = << >>
    /\ mi' = [mi EXCEPT !.arg = arg]
    /\ UNCHANGED <<control, frames, events>>

\* A full chain takes no more, and says nothing.
add_interceptor(i) ==
    /\ control = "caller"
    /\ mi' = [mi EXCEPT !.chain = IF Len(@) < MAX_CHAIN_LEN THEN Append(@, i) ELSE @]
    /\ UNCHANGED <<control, frames, events>>

Invoke ==
    /\ control = "caller" /\ control' = "proceed"
    /\ UNCHANGED <<mi, frames, events>>

More == mi.chain_index < Len(mi.chain)

Next_in_chain == mi.chain[mi.chain_index + 1]

Hit == Next_in_chain = "cache" /\ mi.arg = "1"

Event(what, who) == [what |-> what, who |-> who]

\* The next interceptor, up to its own call of proceed.
Enter ==
    /\ control = "proceed" /\ More /\ ~ Hit
    /\ mi' = [mi EXCEPT !.chain_index = @ + 1]
    /\ frames' = <<Next_in_chain>> \o frames
    /\ events' = Append(events, Event("enter", Next_in_chain))
    /\ UNCHANGED control

\* cache_interceptor answers by itself.
AnswerFromCache ==
    /\ control = "proceed" /\ More /\ Hit
    /\ mi' = [mi EXCEPT !.chain_index = @ + 1]
    /\ events' = Append(events, Event("hit", "cache"))
    /\ control' = "return"
    /\ UNCHANGED frames

target_get_user_by_id ==
    /\ control = "proceed" /\ ~ More
    /\ mi' = [mi EXCEPT !.has_exception = (mi.arg = "999")]
    /\ events' = Append(events, Event("call", "target"))
    /\ control' = "return"
    /\ UNCHANGED frames

\* Not the code: a transaction that is committed whatever was thrown.
Leave_commits(i) == Event(IF i = "transaction" THEN "commit" ELSE "leave", i)

\* What an interceptor does behind its call of proceed.
Leave(i) ==
    LET kept == IF i = "transaction" THEN "commit" ELSE IF i = "cache" THEN "store" ELSE "leave"
        thrown == IF i = "transaction" THEN "rollback" ELSE "leave"
    IN  Event(IF mi.has_exception THEN thrown ELSE kept, i)

Unwind ==
    /\ control = "return" /\ frames # << >>
    /\ events' = Append(events, Leave(Head(frames)))
    /\ frames' = Tail(frames)
    /\ UNCHANGED <<mi, control>>

ProxyNext ==
    \/ \E a \in Args : build_invocation(a)
    \/ \E i \in Interceptors : add_interceptor(i)
    \/ Invoke \/ Enter \/ AnswerFromCache \/ target_get_user_by_id \/ Unwind

ProxySpec == ProxyInit /\ [][ProxyNext]_proxyVars

-----------------------------------------------------------------------------
(* Properties                                                              *)

EventsOf(whats) == Selection(events, {k \in DOMAIN events : events[k].what \in whats})

Entered == EventsOf({"enter"})
Left == EventsOf({"leave", "commit", "rollback", "store"})
Calls == EventsOf({"hit", "call"})

Names_of(es) == [k \in DOMAIN es |-> es[k].who]

\* Interceptors nest: they are entered in the order of the chain and left in
\* the opposite order, once each, around one call of the target or of the cache
\* before it; a transaction is rolled back if the target threw, and nothing of
\* what it threw is kept in a cache.  proceed and the interceptors,
\* proxy_chain.c:114-265.
AdviceNests ==
    /\ IsPrefix(Names_of(Entered), mi.chain)
    /\ Names_of(Entered) = Names_of(Reverse(Left)) \/ frames # << >> \/ control # "return"
    /\ \A k \in DOMAIN Left : Left[k].who = Entered[Len(Entered) - k + 1].who
    /\ control = "return" =>
          /\ Len(Calls) = 1
          /\ Calls[1].what = "call" => Len(Entered) = Len(mi.chain)
          /\ \A k \in DOMAIN Left :
                /\ Left[k].what = "rollback" <=> Left[k].who = "transaction" /\ mi.arg = "999" /\ Calls[1].what = "call"
                /\ Left[k].what = "store" => mi.arg # "999"

\* The containers of the Spring examples: beans, what is injected into them, and
\* the proxies around them.
BeansAndProxiesNest == BeansLiveOnce /\ DependenciesAreShared /\ AdviceNests
=============================================================================
