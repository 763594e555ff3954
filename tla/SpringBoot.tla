----------------------------- MODULE SpringBoot -----------------------------
(***************************************************************************)
(* The start and the end of an application of the Spring Boot examples.    *)
(***************************************************************************)
EXTENDS Integers, Sequences, FiniteSets, SequencesExt, Selection

-----------------------------------------------------------------------------
(***************************************************************************)
(* The auto-configuration engine, conditional_engine.c: a table of         *)
(* configurations, evaluated from first to last, each with conditions on   *)
(* the class path, the properties and the beans there are so far, each     *)
(* registering its beans when all of them hold.  What is on the class      *)
(* path, which properties are set and which beans the user brought is      *)
(* chosen at the start.  Reasons are left out; MAX_BEANS is never reached. *)
(***************************************************************************)

CONSTANTS
    ClassPaths,    \* sets of classes
    PropertySets,  \* functions from the properties that are set
    UserBeans      \* sequences of different beans

VARIABLES
    CLASSPATH, PROPERTIES,
    registered_beans,
    evaluated,   \* how many configurations were
    active       \* those that were activated

autoVars == <<CLASSPATH, PROPERTIES, registered_beans, evaluated, active>>

OnClass(c)          == [type |-> "class", param |-> c]
OnBean(b)           == [type |-> "bean", param |-> b]
OnMissingBean(b)    == [type |-> "missing bean", param |-> b]
OnProperty(p)       == [type |-> "property", param |-> p]
OnPropertyOn(p)     == [type |-> "property true", param |-> p]
OnPropertyOrNone(p) == [type |-> "property or none", param |-> p]
OnWebApp(t)         == [type |-> "web app", param |-> t]

AutoConfig(name, conditions, beans) ==
    [short_name |-> name, conditions |-> conditions, beans_created |-> beans]

AUTO_CONFIGS == <<
    AutoConfig("DataSource", {OnClass("DataSource"), OnMissingBean("DataSource")},
               <<"DataSource", "HikariDataSource">>),
    AutoConfig("Hikari", {OnClass("HikariDataSource"), OnProperty("spring.datasource.url")},
               <<"hikariDataSource">>),
    AutoConfig("JdbcTemplate",
               {OnClass("JdbcTemplate"), OnBean("DataSource"), OnMissingBean("JdbcTemplate")},
               <<"jdbcTemplate", "namedParameterJdbcTemplate">>),
    AutoConfig("WebMvc",
               {OnClass("DispatcherServlet"), OnWebApp("SERVLET"), OnMissingBean("WebMvcConfigurer")},
               <<"requestMappingHandlerMapping", "requestMappingHandlerAdapter",
                 "handlerExceptionResolver", "viewResolver">>),
    AutoConfig("DispatcherServlet", {OnClass("DispatcherServlet"), OnWebApp("SERVLET")},
               <<"dispatcherServlet", "dispatcherServletRegistration">>),
    AutoConfig("Jackson", {OnClass("ObjectMapper")}, <<"objectMapper", "jacksonObjectMapper">>),
    AutoConfig("Transaction", {OnClass("PlatformTransactionManager")},
               <<"transactionManager", "transactionTemplate">>),
    AutoConfig("Aop", {OnClass("MethodInterceptor"), OnPropertyOrNone("spring.aop.auto")},
               <<"internalAutoProxyCreator">>),
    AutoConfig("Thymeleaf", {OnClass("SpringTemplateEngine"), OnWebApp("ANY")},
               <<"templateEngine", "thymeleafViewResolver">>),
    AutoConfig("Redis", {OnClass("RedisOperations")}, <<"redisTemplate", "stringRedisTemplate">>),
    AutoConfig("HealthEndpoint", {OnClass("HealthEndpoint")},
               <<"healthEndpoint", "healthEndpointWebExtension">>),
    AutoConfig("Jmx", {OnClass("MBeanExporter"), OnPropertyOn("spring.jmx.enabled")},
               <<"mbeanServer", "mbeanExporter">>) >>

AutoTypeOK ==
    /\ evaluated \in 0 .. Len(AUTO_CONFIGS) /\ active \subseteq DOMAIN AUTO_CONFIGS
    /\ \A i \in DOMAIN registered_beans : registered_beans[i] \in STRING

AutoInit ==
    /\ CLASSPATH \in ClassPaths /\ PROPERTIES \in PropertySets
    /\ registered_beans \in UserBeans
    /\ evaluated = 0 /\ active = {}

-----------------------------------------------------------------------------

bean_exists(beans, b) == b \in beans

check_on_property(p, accepted, match_if_missing) ==
    IF p \in DOMAIN PROPERTIES THEN accepted = {} \/ PROPERTIES[p] \in accepted
    ELSE match_if_missing

\* The program is a servlet application.
check_on_web_app(t) == t \in {"ANY", "SERVLET"}

evaluate_condition(c, beans) ==
    CASE c.type = "class" -> c.param \in CLASSPATH
      [] c.type = "bean" -> bean_exists(beans, c.param)
      [] c.type = "missing bean" -> ~ bean_exists(beans, c.param)
      [] c.type = "property" -> check_on_property(c.param, {}, FALSE)
      [] c.type = "property true" -> check_on_property(c.param, {"true"}, FALSE)
      [] c.type = "property or none" -> check_on_property(c.param, {}, TRUE)
      [] c.type = "web app" -> check_on_web_app(c.param)

AllHold(i, beans) == \A c \in AUTO_CONFIGS[i].conditions : evaluate_condition(c, beans)

evaluate_auto_config(i) ==
    IF AllHold(i, Range(registered_beans))
    THEN /\ registered_beans' = registered_beans \o AUTO_CONFIGS[i].beans_created
         /\ active' = active \cup {i}
    ELSE UNCHANGED <<registered_beans, active>>

EvaluateNext_last ==
    /\ evaluated < Len(AUTO_CONFIGS)
    /\ evaluated' = evaluated + 1
    /\ evaluate_auto_config(Len(AUTO_CONFIGS) - evaluated)
    /\ UNCHANGED <<CLASSPATH, PROPERTIES>>

\* demo_full_evaluation: in the order of the table.
EvaluateNext ==
    /\ evaluated < Len(AUTO_CONFIGS)
    /\ evaluated' = evaluated + 1
    /\ evaluate_auto_config(evaluated')
    /\ UNCHANGED <<CLASSPATH, PROPERTIES>>

AutoNext == EvaluateNext

AutoSpec == AutoInit /\ [][AutoNext]_autoVars

-----------------------------------------------------------------------------
(* Properties                                                              *)

\* The beans of everything but a configuration itself.
OthersBeans(i) ==
    LET mine == Range(AUTO_CONFIGS[i].beans_created)
        theirs == UNION {Range(AUTO_CONFIGS[j].beans_created) : j \in active \ {i}}
    IN  {b \in Range(registered_beans) : b \notin mine \/ b \in theirs}

\* A decision is made on the beans so far and never made again; in the order of the
\* table it is nevertheless the one that the beans at the end call for: nobody waits
\* for a bean that a later configuration creates, nobody adds what somebody else
\* turns out to bring.  conditional_engine.c:304-345, 356-512.
DecisionsStand ==
    evaluated = Len(AUTO_CONFIGS) =>
        \A i \in DOMAIN AUTO_CONFIGS :
            i \in active <=> AllHold(i, IF i \in active THEN OthersBeans(i)
                                        ELSE Range(registered_beans))

-----------------------------------------------------------------------------
(***************************************************************************)
(* The shutdown of shutdown_hook.c (Spring Boot, phase 8): requests are    *)
(* refused, those under way are given a grace period, then the life cycle  *)
(* beans stop and the others are destroyed, in an order that is sorted     *)
(* when it is needed.  Beans are registered and started, and requests come *)
(* and go, in any order; a bean is its index.                              *)
(***************************************************************************)

CONSTANTS
    MAX_LIFECYCLE_BEANS,
    MAX_DESTROYABLE,
    Phases,
    GRACE_PERIODS,  \* grace period in drain intervals of 50 ms
    MAX_RECEIVED    \* bound: requests received

ASSUME ShutdownConstants ==
    {MAX_LIFECYCLE_BEANS, MAX_DESTROYABLE, GRACE_PERIODS, MAX_RECEIVED} \subseteq Nat /\ Phases \subseteq Int

VARIABLES
    tracker,      \* the RequestTracker
    lifecycle,    \* phase and running of each life cycle bean
    destroyables, \* creation_order of each destroyable bean
    hook,         \* where graceful_shutdown_run is
    waited,       \* drain intervals waited
    log           \* auxiliary: beans started, stopped and destroyed, in order

shutdownVars == <<tracker, lifecycle, destroyables, hook, waited, log>>

ShutdownTypeOK ==
    /\ tracker \in [active_count : Nat, total_received : Nat, accepting : BOOLEAN]
    /\ lifecycle \in Seq([phase : Phases, running : BOOLEAN])
    /\ destroyables \in Seq(Nat)
    /\ hook \in {"serving", "drain", "stop", "destroy", "done"}
    /\ waited \in 0 .. GRACE_PERIODS
    /\ log \in [started : Seq(Nat), stopped : Seq(Nat), destroyed : Seq(Nat)]

\* main
ShutdownInit ==
    /\ tracker = [active_count |-> 0, total_received |-> 0, accepting |-> TRUE]
    /\ lifecycle = << >> /\ destroyables = << >>
    /\ hook = "serving" /\ waited = 0
    /\ log = [started |-> << >>, stopped |-> << >>, destroyed |-> << >>]

-----------------------------------------------------------------------------

\* The elements of order[] at i and j change places where the first has the larger key.
Exchange(order, keys, i, j) ==
    IF keys[order[i]] > keys[order[j]]
    THEN [order EXCEPT ![i] = order[j], ![j] = order[i]]
    ELSE order

\* The element at i is compared with each one behind it.
Pass(order, keys, i) ==
    LET upTo[j \in i .. Len(keys)] ==
            IF j = i THEN order ELSE Exchange(upTo[j - 1], keys, i, j)
    IN  upTo[Len(keys)]

\* The exchange sort of the three functions.
Sorted(keys) ==
    LET after[i \in 0 .. Len(keys)] ==
            IF i = 0 THEN [k \in 1 .. Len(keys) |-> k] ELSE Pass(after[i - 1], keys, i)
    IN  after[Len(keys)]

request_accept ==
    /\ hook = "serving" /\ tracker.accepting
    /\ tracker.total_received < MAX_RECEIVED
    /\ tracker' = [tracker EXCEPT !.active_count = @ + 1, !.total_received = @ + 1]
    /\ UNCHANGED <<lifecycle, destroyables, hook, waited, log>>

request_complete ==
    /\ hook = "serving" /\ tracker.active_count > 0
    /\ tracker' = [tracker EXCEPT !.active_count = @ - 1]
    /\ UNCHANGED <<lifecycle, destroyables, hook, waited, log>>

lifecycle_register(p) ==
    /\ hook = "serving" /\ Len(lifecycle) < MAX_LIFECYCLE_BEANS
    /\ lifecycle' = Append(lifecycle, [phase |-> p, running |-> FALSE])
    /\ UNCHANGED <<tracker, destroyables, hook, waited, log>>

destroy_register(order) ==
    /\ hook = "serving" /\ Len(destroyables) < MAX_DESTROYABLE
    /\ destroyables' = Append(destroyables, order)
    /\ UNCHANGED <<tracker, lifecycle, hook, waited, log>>

PhaseOf(b) == lifecycle[b].phase

LowestFirst  == Sorted([b \in DOMAIN lifecycle |-> PhaseOf(b)])
HighestFirst == Sorted([b \in DOMAIN lifecycle |-> - PhaseOf(b)])

\* Lowest phase first.  (Bound: main starts once.)
lifecycle_start_all ==
    /\ hook = "serving" /\ log.started = << >>
    /\ lifecycle' = [b \in DOMAIN lifecycle |-> [lifecycle[b] EXCEPT !.running = TRUE]]
    /\ log' = [log EXCEPT !.started = LowestFirst]
    /\ UNCHANGED <<tracker, destroyables, hook, waited>>

\* graceful_shutdown_run: no more requests.
Pause ==
    /\ hook = "serving"
    /\ tracker' = [tracker EXCEPT !.accepting = FALSE]
    /\ hook' = "drain"
    /\ UNCHANGED <<lifecycle, destroyables, waited, log>>

\* One turn of the loop that waits; the loop itself completes a request.
Drain ==
    /\ hook = "drain"
    /\ IF tracker.active_count > 0 /\ waited < GRACE_PERIODS
       THEN /\ tracker' = [tracker EXCEPT !.active_count = @ - 1]
            /\ waited' = waited + 1
            /\ UNCHANGED hook
       ELSE hook' = "stop" /\ UNCHANGED <<tracker, waited>>
    /\ UNCHANGED <<lifecycle, destroyables, log>>

\* Those of the beans in s that run, in the order of s.
Running(s) == Selection(s, {k \in DOMAIN s : lifecycle[s[k]].running})

lifecycle_stop_all_ascending ==
    /\ hook = "stop" /\ hook' = "destroy"
    /\ log' = [log EXCEPT !.stopped = Running(LowestFirst)]
    /\ lifecycle' = [b \in DOMAIN lifecycle |-> [lifecycle[b] EXCEPT !.running = FALSE]]
    /\ UNCHANGED <<tracker, destroyables, waited>>

\* Highest phase first; beans that were never started are passed over.
lifecycle_stop_all ==
    /\ hook = "stop" /\ hook' = "destroy"
    /\ log' = [log EXCEPT !.stopped = Running(HighestFirst)]
    /\ lifecycle' = [b \in DOMAIN lifecycle |-> [lifecycle[b] EXCEPT !.running = FALSE]]
    /\ UNCHANGED <<tracker, destroyables, waited>>

\* Created last, destroyed first.
destroy_all ==
    /\ hook = "destroy" /\ hook' = "done"
    /\ log' = [log EXCEPT !.destroyed = Sorted([d \in DOMAIN destroyables |-> - destroyables[d]])]
    /\ UNCHANGED <<tracker, lifecycle, destroyables, waited>>

graceful_shutdown_run == Pause \/ Drain \/ lifecycle_stop_all \/ destroy_all

ShutdownNext ==
    \/ request_accept \/ request_complete
    \/ \E p \in Phases : lifecycle_register(p)
    \/ \E order \in 1 .. MAX_DESTROYABLE : destroy_register(order)
    \/ lifecycle_start_all
    \/ graceful_shutdown_run

ShutdownSpec == ShutdownInit /\ [][ShutdownNext]_shutdownVars

-----------------------------------------------------------------------------
(* Properties                                                              *)

Before(s, a, b) == \E i, j \in DOMAIN s : i < j /\ s[i] = a /\ s[j] = b

\* "The ordered shutdown is the mirror of ordered startup" (shutdown_hook.c:25) for
\* beans of different phases: what started first stops last, every bean that was
\* started stops and no other, and of two destroyable beans the one created later
\* goes first; no bean stops while the requests that were accepted still have
\* part of the grace period.
ShutdownMirrorsStartup ==
    /\ hook \in {"destroy", "done"} =>
          /\ ToSet(log.stopped) = ToSet(log.started)
          /\ Len(log.stopped) = Len(log.started)
          /\ \A a, b \in ToSet(log.started) : PhaseOf(a) # PhaseOf(b) =>
                (Before(log.started, a, b) <=> Before(log.stopped, b, a))
          /\ tracker.active_count > 0 => waited = GRACE_PERIODS
    /\ hook = "done" =>
          /\ ToSet(log.destroyed) = DOMAIN destroyables
          /\ \A a, b \in DOMAIN destroyables :
                destroyables[a] < destroyables[b] => Before(log.destroyed, b, a)
=============================================================================
