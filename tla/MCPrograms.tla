----------------------------- MODULE MCPrograms -----------------------------
(***************************************************************************)
(* Programs of one caller at a time, checked in one run: the exercises on  *)
(* data structures and algorithms, the message queue of the networking     *)
(* examples, the messages of the ATM switch, the containers, proxies,      *)
(* start-up and shutdown of the Spring examples, and the scheduler of      *)
(* Human OS. They share nothing: a behaviour is one of program, and the    *)
(* variables of the others keep their first values.                        *)
(***************************************************************************)
EXTENDS Dictionaries, LinearStructures, Exercises, NetworkServices,
        Iso8583, SpringBoot, SpringContainers, SpringRuntime, HumanOS

CONSTANTS k1, k2, k3, v1, v2

VARIABLE program

\* What three hash functions make of a key: collisions in each of them.
HashTriplesUsed == {<<0, 1, 2>>, <<1, 2, 3>>, <<3, 1, 2>>}

\* Brackets, by their codes: two kinds.
BracketPairs == {<<4, 5>>, <<6, 7>>}

UpTo(S, n) == UNION {[1 .. k -> S] : k \in 0 .. n}

Rising(s) == \A i, j \in DOMAIN s : i < j => s[i] <= s[j]

Triples(S) == [1 .. 3 -> S]

Board(g) == [c \in (0 .. 3) \X (0 .. 3) |-> IF c \in DOMAIN g THEN g[c] ELSE 0]

FirstRows == [c \in (0 .. 1) \X (0 .. 3) |-> <<<<1, 2, 3, 4>>, <<3, 4, 1, 2>>>>[c[1] + 1][c[2] + 1]]

Boards == {b \in {Board(FirstRows @@ g) : g \in {g \in [{<<2, 0>>, <<3, 1>>, <<2, 3>>} -> 0 .. 4] : g[<<2, 3>>] # 0}} :
             \A c \in DOMAIN b, d \in DOMAIN b :
                c # d /\ b[c] # 0 /\ b[c] = b[d] =>
                   c[1] # d[1] /\ c[2] # d[2] /\ <<c[1] \div 2, c[2] \div 2>> # <<d[1] \div 2, d[2] \div 2>>}

SomeTasks ==
    {[algorithm |-> "sort", a |-> a] : a \in UpTo(1 .. 3, 5)}
    \cup {[algorithm |-> "search", a |-> a, target |-> t] : a \in {s \in UpTo({1, 3, 4}, 5) : Rising(s)}, t \in 1 .. 5}
    \cup {[algorithm |-> "fibonacci", n |-> n] : n \in 0 .. 12}
    \cup {[algorithm |-> "knapsack", weights |-> w, values |-> v, capacity |-> c] :
             w \in Triples(1 .. 3), v \in Triples(1 .. 2), c \in {0, 3, 4}}
    \cup {[algorithm |-> "coins", coins |-> SetToSeq(S), amount |-> n] : S \in SUBSET {1, 2, 3, 5} \ {{}}, n \in 0 .. 6}
    \cup {[algorithm |-> "lcs", str1 |-> a, str2 |-> b] : a \in UpTo(1 .. 2, 4), b \in UpTo(1 .. 3, 3)}
    \cup {[algorithm |-> "activities", list |-> SetToSeq(L)] :
             L \in {L \in SUBSET [start : 0 .. 3, end : 1 .. 4] : Cardinality(L) \in 1 .. 4 /\ \A a \in L : a.start < a.end}}
    \cup {[algorithm |-> "huffman", freqs |-> f] : f \in UNION {[1 .. k -> {1, 2, 4}] : k \in 1 .. 4}}
    \cup {[algorithm |-> "fractions", items |-> f, capacity |-> c] : f \in Triples([weight : {1, 2, 4}, value : 1 .. 2]), c \in {0, 3}}
    \cup {[algorithm |-> "jobs", jobs |-> f] : f \in [1 .. 4 -> [deadline : 1 .. 3, profit : {1, 3}]]}
    \cup {[algorithm |-> "queens", n |-> n] : n \in 1 .. 6}
    \cup {[algorithm |-> "sudoku", board |-> b] : b \in Boards}
    \cup {[algorithm |-> "permutations", arr |-> SubSeq(<<4, 2, 3, 1>>, 1, n)] : n \in 1 .. 4}
    \cup {[algorithm |-> "subsets", arr |-> a, target |-> t] : a \in [1 .. 4 -> {1, 2, 4}], t \in {0, 3, 5}}

\* One message at a time: fields of every length next to fields of every length,
\* cards with and without a chip, and all fields at once.
ProcessingCodes == {<<4, 3, 0, 0, 0, 0>>, <<0, 1, 2, 0, 0, 0>>, <<9, 4, 0, 0, 0, 0>>}

Chars(i, n) == [k \in 1 .. n |-> 100 * i + k]

FieldValue(i, pcode) ==
    CASE i = 3 -> pcode
      [] i = 35 -> <<3501, 3502, EQ, 2, 5, 1, 2, 2, 6, 3509>>
      [] i = 54 -> Chars(i, 40)
      [] i = 55 -> <<26, 255, 0>>
      [] DataLength[i] \in {99, 999} -> Chars(i, 12)
      [] OTHER -> Chars(i, DataLength[i])

KnownFields == {i \in DOMAIN DataLength : DataLength[i] > 0}

FieldSets ==
    {{3, i, j} : i, j \in KnownFields} \cup SUBSET {2, 3, 35, 39, 55, 60, 63, 102} \cup {KnownFields}

IsoMessages ==
    {[type |-> t, bits |-> [i \in S |-> FieldValue(i, p)]] :
        t \in {"0200", "0210"}, S \in FieldSets, p \in ProcessingCodes}
    \cup
    {[type |-> t, bits |-> [i \in S \cup {70} |-> Chars(i, IF i = 32 THEN 6 ELSE NetworkLength[i])]] :
        t \in {"0800", "0810"}, S \in SUBSET {7, 11, 32, 39}}

\* What the configurations' conditions ask for, there and not there.
AutoClassPaths ==
    {{"DispatcherServlet", "HealthEndpoint", "ObjectMapper", "MethodInterceptor",
      "PlatformTransactionManager"} \cup S :
        S \in SUBSET {"DataSource", "HikariDataSource", "JdbcTemplate", "MBeanExporter"}} \cup {{}}

AutoProperties == UNION {[S -> {"true", "x"}] : S \in SUBSET {"spring.datasource.url", "spring.jmx.enabled"}}

AutoUserBeans == {SetToSeq(S) : S \in SUBSET {"DataSource", "JdbcTemplate", "WebMvcConfigurer"}}

\* A short and urgent task, one that is due within two hours, one due sooner, and
\* one that is due tomorrow.
DayKinds ==
    {[priority |-> 0, value |-> 0, duration |-> 10, deadline |-> 0],
     [priority |-> 1, value |-> 3, duration |-> 60, deadline |-> 95],
     [priority |-> 3, value |-> 0, duration |-> 30, deadline |-> 45],
     [priority |-> 2, value |-> 9, duration |-> 30, deadline |-> 2000]}

\* Rings on which servers meet, and edges that are near one place and far from another.
RingsUsed == {[p \in (1 .. MAX_SERVERS) \X (1 .. VIRTUAL_NODES) |-> (a * p[1] + b * p[2]) % RING_SIZE] :
             a \in {1, 2}, b \in {2}}

OneRing == [p \in (1 .. MAX_SERVERS) \X (1 .. VIRTUAL_NODES) |-> (p[1] + 2 * p[2]) % RING_SIZE]

Distances == [p \in Places \X EdgeIds |-> IF p[1] = "home" THEN p[2] ELSE 3 - p[2]]

Routes ==
    {[path |-> <<"users">>, method |-> "GET", handler |-> "get_users"],
     [path |-> <<"users", ":">>, method |-> "GET", handler |-> "get_user_by_id"],
     [path |-> <<":", "me">>, method |-> "GET", handler |-> "get_user_by_id"],
     [path |-> <<"posts", ":">>, method |-> "DELETE", handler |-> "delete_post"]}

RouteHandlers ==
    [get_users      |-> [status |-> 200, reads |-> 0],
     get_user_by_id |-> [status |-> 200, reads |-> 1],
     delete_post    |-> [status |-> 204, reads |-> 2]]

RequestedPaths == {<<"users">>, <<"users", "123">>, <<"users", "me", "me">>, <<"posts">>}

\* A critical task of the mind, and one for the whole of a person.
HumanTaskKinds ==
    {[priority |-> 0, energy_type |-> "MENTAL", duration_minutes |-> 60, energy_required |-> 40, value_score |-> 50],
     [priority |-> 3, energy_type |-> "MIXED", duration_minutes |-> 30, energy_required |-> 10, value_score |-> 50]}

\* Spring: the arguments of a start, fields to bind, requests, and classes to scan.
Arg(k, v) == [option |-> TRUE, key |-> k, value |-> v]

SomeArguments ==
    {Arg(k, v) : k \in {"server.port", "spring.profiles.active"}, v \in {"1", "2"}}
      \cup {[option |-> FALSE, key |-> "", value |-> "server.port"]}

ArgLists == UNION {[1 .. n -> SomeArguments] : n \in 0 .. 2}

Defaults ==
    <<[key |-> "java.version", value |-> "17", priority |-> 3],
      [key |-> "server.port", value |-> "8080", priority |-> 6]>>

EventListeners ==
    <<[name |-> "PortLogListener", trigger |-> "ENVIRONMENT_PREPARED"],
      [name |-> "ReadyLogListener", trigger |-> "READY"],
      [name |-> "FailureListener", trigger |-> "FAILED"]>>

Runners == <<"DataInitializer", "CacheWarmer">>

Threads == {[max |-> 5, spare |-> 2], [max |-> 2, spare |-> 2]}

TwoFields ==
    <<[key |-> <<"a", "B">>, default |-> NoDefault, required |-> TRUE],
      [key |-> <<"b">>, default |-> [number |-> 30, unit |-> "s"], required |-> FALSE]>>

SomeKeys == {<<"a", "-", "b">>, <<"a", "B">>, <<"b">>}

SomeValues == {[number |-> 2, unit |-> "m"], [number |-> 5, unit |-> ""]}

Texts == UNION {[1 .. n -> {"a", "A", "_", "-", "."}] : n \in 0 .. 3}

SomeRequests ==
    [method : {"GET", "POST", "DELETE"},
     path   : {<<"api", "users">>, <<"api", "users", "42">>, <<"api", "users", "">>, <<"api", "users", "longest">>,
               <<"api", "users", "42", "x">>, <<"actuator", "health">>, <<"nothing">>},
     body   : BOOLEAN,
     auth   : {"none", "bearer", "other"}]

AClass(name, package, annotations, scope) ==
    [name |-> name, package |-> package, annotations |-> annotations, scope |-> scope]

SomeClasses ==
    <<AClass("AppConfig", <<"com.example.", "config">>, {"CONFIGURATION"}, "SINGLETON"),
      AClass("ProductRepository", <<"com.example.", "repository">>, {"REPOSITORY", "PRIMARY"}, "SINGLETON"),
      AClass("OrderService", <<"com.example.", "s", "ervice">>, {"SERVICE", "LAZY"}, "PROTOTYPE"),
      AClass("StringUtils", <<"com.example.", "util">>, {}, "SINGLETON")>>

SomePackages ==
    {<<"com.example.">>, <<"com.example.", "s", "ervice">>, <<"com.example.", "s">>,
     <<"com.example.", "repository">>, <<"org">>}

programVars == <<hashVars, treeVars, trieVars, listVars, queueVars, graphVars, taskVars, mqsVars,
    isoVars, beanVars, injectionVars, proxyVars, shutdownVars, autoVars, dayVars,
    lbVars, pubsubVars, msVars, dnsVars, cdnVars, csVars, routerVars, wsVars,
    tmVars, learningVars, hosVars, appVars, tomcatVars, actuatorVars, tracingVars,
    binderVars, dispatchVars, scanVars, program>>

\* What a program chooses at its start is chosen when it is that one which runs.
NoStart == CLASSPATH = {} /\ PROPERTIES = << >> /\ registered_beans = << >>

NoTable == structure = "linear" /\ hash = [k \in TableKeys |-> <<0, 1, 2>>]

NoGraph == algorithm = "DFS" /\ graph = [p \in Vertices \X Vertices |-> 0]

CallInit ==
    IF program = "call" THEN TaskInit
    ELSE task = [algorithm |-> "none"] /\ answered = FALSE /\ answer = NoAnswer

Init ==
    /\ program \in {"tables", "tree", "trie", "lists", "queues", "graph", "call",
                    "queue", "switch", "context", "injection", "proxy", "shutdown",
                    "start", "day", "balancer", "topics", "mesh", "names", "edges",
                    "requests", "routes", "sockets", "tasks", "learning", "human",
                    "application", "tomcat", "actuator", "tracing", "binder",
                    "dispatch", "scan"}
    /\ program # "start" => NoStart
    /\ program # "tables" => NoTable
    /\ program # "graph" => NoGraph
    /\ program # "balancer" => ring_hash = OneRing
    /\ program # "application" => app = Created(<< >>)
    /\ program # "lists" => class = "LinkedList"
    /\ program # "queues" => kind = "Stack"
    /\ HashInit /\ TreeInit /\ TrieInit /\ ListsInit /\ QueuesInit
    /\ GraphInit /\ CallInit /\ MqsInit /\ IsoInit /\ BeanFactoryInit
    /\ InjectionInit /\ ProxyInit /\ ShutdownInit /\ AutoInit /\ DayInit
    /\ LbInit /\ PubSubInit /\ MsInit /\ DnsInit /\ CdnInit /\ CsInit
    /\ RouterInit /\ WsInit /\ TmInit /\ LearningInit /\ HosInit /\ AppInit
    /\ TomcatInit /\ ActuatorInit /\ TracingInit /\ BinderInit
    /\ DispatchInit /\ ScanInit

Next ==
    /\ \/ /\ program = "tables" /\ HashNext
          /\ UNCHANGED <<treeVars, trieVars, listVars, queueVars, graphVars,
                           taskVars, mqsVars, isoVars, beanVars, injectionVars,
                           proxyVars, shutdownVars, autoVars, dayVars, lbVars,
                           pubsubVars, msVars, dnsVars, cdnVars, csVars, routerVars,
                           wsVars, tmVars, learningVars, hosVars, appVars,
                           tomcatVars, actuatorVars, tracingVars, binderVars,
                           dispatchVars, scanVars>>
       \/ /\ program = "tree" /\ TreeNext
          /\ UNCHANGED <<hashVars, trieVars, listVars, queueVars, graphVars,
                           taskVars, mqsVars, isoVars, beanVars, injectionVars,
                           proxyVars, shutdownVars, autoVars, dayVars, lbVars,
                           pubsubVars, msVars, dnsVars, cdnVars, csVars, routerVars,
                           wsVars, tmVars, learningVars, hosVars, appVars,
                           tomcatVars, actuatorVars, tracingVars, binderVars,
                           dispatchVars, scanVars>>
       \/ /\ program = "trie" /\ TrieNext
          /\ UNCHANGED <<hashVars, treeVars, listVars, queueVars, graphVars,
                           taskVars, mqsVars, isoVars, beanVars, injectionVars,
                           proxyVars, shutdownVars, autoVars, dayVars, lbVars,
                           pubsubVars, msVars, dnsVars, cdnVars, csVars, routerVars,
                           wsVars, tmVars, learningVars, hosVars, appVars,
                           tomcatVars, actuatorVars, tracingVars, binderVars,
                           dispatchVars, scanVars>>
       \/ /\ program = "lists" /\ ListsNext
          /\ UNCHANGED <<hashVars, treeVars, trieVars, queueVars, graphVars,
                           taskVars, mqsVars, isoVars, beanVars, injectionVars,
                           proxyVars, shutdownVars, autoVars, dayVars, lbVars,
                           pubsubVars, msVars, dnsVars, cdnVars, csVars, routerVars,
                           wsVars, tmVars, learningVars, hosVars, appVars,
                           tomcatVars, actuatorVars, tracingVars, binderVars,
                           dispatchVars, scanVars>>
       \/ /\ program = "queues" /\ QueuesNext
          /\ UNCHANGED <<hashVars, treeVars, trieVars, listVars, graphVars,
                           taskVars, mqsVars, isoVars, beanVars, injectionVars,
                           proxyVars, shutdownVars, autoVars, dayVars, lbVars,
                           pubsubVars, msVars, dnsVars, cdnVars, csVars, routerVars,
                           wsVars, tmVars, learningVars, hosVars, appVars,
                           tomcatVars, actuatorVars, tracingVars, binderVars,
                           dispatchVars, scanVars>>
       \/ /\ program = "graph" /\ GraphNext
          /\ UNCHANGED <<hashVars, treeVars, trieVars, listVars, queueVars,
                           taskVars, mqsVars, isoVars, beanVars, injectionVars,
                           proxyVars, shutdownVars, autoVars, dayVars, lbVars,
                           pubsubVars, msVars, dnsVars, cdnVars, csVars, routerVars,
                           wsVars, tmVars, learningVars, hosVars, appVars,
                           tomcatVars, actuatorVars, tracingVars, binderVars,
                           dispatchVars, scanVars>>
       \/ /\ program = "call" /\ TaskNext
          /\ UNCHANGED <<hashVars, treeVars, trieVars, listVars, queueVars,
                           graphVars, mqsVars, isoVars, beanVars, injectionVars,
                           proxyVars, shutdownVars, autoVars, dayVars, lbVars,
                           pubsubVars, msVars, dnsVars, cdnVars, csVars, routerVars,
                           wsVars, tmVars, learningVars, hosVars, appVars,
                           tomcatVars, actuatorVars, tracingVars, binderVars,
                           dispatchVars, scanVars>>
       \/ /\ program = "queue" /\ MqsNext
          /\ UNCHANGED <<hashVars, treeVars, trieVars, listVars, queueVars,
                           graphVars, taskVars, isoVars, beanVars, injectionVars,
                           proxyVars, shutdownVars, autoVars, dayVars, lbVars,
                           pubsubVars, msVars, dnsVars, cdnVars, csVars, routerVars,
                           wsVars, tmVars, learningVars, hosVars, appVars,
                           tomcatVars, actuatorVars, tracingVars, binderVars,
                           dispatchVars, scanVars>>
       \/ /\ program = "switch" /\ IsoNext
          /\ UNCHANGED <<hashVars, treeVars, trieVars, listVars, queueVars,
                           graphVars, taskVars, mqsVars, beanVars, injectionVars,
                           proxyVars, shutdownVars, autoVars, dayVars, lbVars,
                           pubsubVars, msVars, dnsVars, cdnVars, csVars, routerVars,
                           wsVars, tmVars, learningVars, hosVars, appVars,
                           tomcatVars, actuatorVars, tracingVars, binderVars,
                           dispatchVars, scanVars>>
       \/ /\ program = "context" /\ BeanFactoryNext
          /\ UNCHANGED <<hashVars, treeVars, trieVars, listVars, queueVars,
                           graphVars, taskVars, mqsVars, isoVars, injectionVars,
                           proxyVars, shutdownVars, autoVars, dayVars, lbVars,
                           pubsubVars, msVars, dnsVars, cdnVars, csVars, routerVars,
                           wsVars, tmVars, learningVars, hosVars, appVars,
                           tomcatVars, actuatorVars, tracingVars, binderVars,
                           dispatchVars, scanVars>>
       \/ /\ program = "injection" /\ InjectionNext
          /\ UNCHANGED <<hashVars, treeVars, trieVars, listVars, queueVars,
                           graphVars, taskVars, mqsVars, isoVars, beanVars,
                           proxyVars, shutdownVars, autoVars, dayVars, lbVars,
                           pubsubVars, msVars, dnsVars, cdnVars, csVars, routerVars,
                           wsVars, tmVars, learningVars, hosVars, appVars,
                           tomcatVars, actuatorVars, tracingVars, binderVars,
                           dispatchVars, scanVars>>
       \/ /\ program = "proxy" /\ ProxyNext
          /\ UNCHANGED <<hashVars, treeVars, trieVars, listVars, queueVars,
                           graphVars, taskVars, mqsVars, isoVars, beanVars,
                           injectionVars, shutdownVars, autoVars, dayVars, lbVars,
                           pubsubVars, msVars, dnsVars, cdnVars, csVars, routerVars,
                           wsVars, tmVars, learningVars, hosVars, appVars,
                           tomcatVars, actuatorVars, tracingVars, binderVars,
                           dispatchVars, scanVars>>
       \/ /\ program = "shutdown" /\ ShutdownNext
          /\ UNCHANGED <<hashVars, treeVars, trieVars, listVars, queueVars,
                           graphVars, taskVars, mqsVars, isoVars, beanVars,
                           injectionVars, proxyVars, autoVars, dayVars, lbVars,
                           pubsubVars, msVars, dnsVars, cdnVars, csVars, routerVars,
                           wsVars, tmVars, learningVars, hosVars, appVars,
                           tomcatVars, actuatorVars, tracingVars, binderVars,
                           dispatchVars, scanVars>>
       \/ /\ program = "start" /\ AutoNext
          /\ UNCHANGED <<hashVars, treeVars, trieVars, listVars, queueVars,
                           graphVars, taskVars, mqsVars, isoVars, beanVars,
                           injectionVars, proxyVars, shutdownVars, dayVars, lbVars,
                           pubsubVars, msVars, dnsVars, cdnVars, csVars, routerVars,
                           wsVars, tmVars, learningVars, hosVars, appVars,
                           tomcatVars, actuatorVars, tracingVars, binderVars,
                           dispatchVars, scanVars>>
       \/ /\ program = "day" /\ DayNext
          /\ UNCHANGED <<hashVars, treeVars, trieVars, listVars, queueVars,
                           graphVars, taskVars, mqsVars, isoVars, beanVars,
                           injectionVars, proxyVars, shutdownVars, autoVars, lbVars,
                           pubsubVars, msVars, dnsVars, cdnVars, csVars, routerVars,
                           wsVars, tmVars, learningVars, hosVars, appVars,
                           tomcatVars, actuatorVars, tracingVars, binderVars,
                           dispatchVars, scanVars>>
       \/ /\ program = "balancer" /\ LbNext
          /\ UNCHANGED <<hashVars, treeVars, trieVars, listVars, queueVars,
                           graphVars, taskVars, mqsVars, isoVars, beanVars,
                           injectionVars, proxyVars, shutdownVars, autoVars,
                           dayVars, pubsubVars, msVars, dnsVars, cdnVars, csVars,
                           routerVars, wsVars, tmVars, learningVars, hosVars,
                           appVars, tomcatVars, actuatorVars, tracingVars,
                           binderVars, dispatchVars, scanVars>>
       \/ /\ program = "topics" /\ PubSubNext
          /\ UNCHANGED <<hashVars, treeVars, trieVars, listVars, queueVars,
                           graphVars, taskVars, mqsVars, isoVars, beanVars,
                           injectionVars, proxyVars, shutdownVars, autoVars,
                           dayVars, lbVars, msVars, dnsVars, cdnVars, csVars,
                           routerVars, wsVars, tmVars, learningVars, hosVars,
                           appVars, tomcatVars, actuatorVars, tracingVars,
                           binderVars, dispatchVars, scanVars>>
       \/ /\ program = "mesh" /\ MsNext
          /\ UNCHANGED <<hashVars, treeVars, trieVars, listVars, queueVars,
                           graphVars, taskVars, mqsVars, isoVars, beanVars,
                           injectionVars, proxyVars, shutdownVars, autoVars,
                           dayVars, lbVars, pubsubVars, dnsVars, cdnVars, csVars,
                           routerVars, wsVars, tmVars, learningVars, hosVars,
                           appVars, tomcatVars, actuatorVars, tracingVars,
                           binderVars, dispatchVars, scanVars>>
       \/ /\ program = "names" /\ DnsNext
          /\ UNCHANGED <<hashVars, treeVars, trieVars, listVars, queueVars,
                           graphVars, taskVars, mqsVars, isoVars, beanVars,
                           injectionVars, proxyVars, shutdownVars, autoVars,
                           dayVars, lbVars, pubsubVars, msVars, cdnVars, csVars,
                           routerVars, wsVars, tmVars, learningVars, hosVars,
                           appVars, tomcatVars, actuatorVars, tracingVars,
                           binderVars, dispatchVars, scanVars>>
       \/ /\ program = "edges" /\ CdnNext
          /\ UNCHANGED <<hashVars, treeVars, trieVars, listVars, queueVars,
                           graphVars, taskVars, mqsVars, isoVars, beanVars,
                           injectionVars, proxyVars, shutdownVars, autoVars,
                           dayVars, lbVars, pubsubVars, msVars, dnsVars, csVars,
                           routerVars, wsVars, tmVars, learningVars, hosVars,
                           appVars, tomcatVars, actuatorVars, tracingVars,
                           binderVars, dispatchVars, scanVars>>
       \/ /\ program = "requests" /\ CsNext
          /\ UNCHANGED <<hashVars, treeVars, trieVars, listVars, queueVars,
                           graphVars, taskVars, mqsVars, isoVars, beanVars,
                           injectionVars, proxyVars, shutdownVars, autoVars,
                           dayVars, lbVars, pubsubVars, msVars, dnsVars, cdnVars,
                           routerVars, wsVars, tmVars, learningVars, hosVars,
                           appVars, tomcatVars, actuatorVars, tracingVars,
                           binderVars, dispatchVars, scanVars>>
       \/ /\ program = "routes" /\ RouterNext
          /\ UNCHANGED <<hashVars, treeVars, trieVars, listVars, queueVars,
                           graphVars, taskVars, mqsVars, isoVars, beanVars,
                           injectionVars, proxyVars, shutdownVars, autoVars,
                           dayVars, lbVars, pubsubVars, msVars, dnsVars, cdnVars,
                           csVars, wsVars, tmVars, learningVars, hosVars, appVars,
                           tomcatVars, actuatorVars, tracingVars, binderVars,
                           dispatchVars, scanVars>>
       \/ /\ program = "sockets" /\ WsNext
          /\ UNCHANGED <<hashVars, treeVars, trieVars, listVars, queueVars,
                           graphVars, taskVars, mqsVars, isoVars, beanVars,
                           injectionVars, proxyVars, shutdownVars, autoVars,
                           dayVars, lbVars, pubsubVars, msVars, dnsVars, cdnVars,
                           csVars, routerVars, tmVars, learningVars, hosVars,
                           appVars, tomcatVars, actuatorVars, tracingVars,
                           binderVars, dispatchVars, scanVars>>
       \/ /\ program = "tasks" /\ TmNext
          /\ UNCHANGED <<hashVars, treeVars, trieVars, listVars, queueVars,
                           graphVars, taskVars, mqsVars, isoVars, beanVars,
                           injectionVars, proxyVars, shutdownVars, autoVars,
                           dayVars, lbVars, pubsubVars, msVars, dnsVars, cdnVars,
                           csVars, routerVars, wsVars, learningVars, hosVars,
                           appVars, tomcatVars, actuatorVars, tracingVars,
                           binderVars, dispatchVars, scanVars>>
       \/ /\ program = "learning" /\ LearningNext
          /\ UNCHANGED <<hashVars, treeVars, trieVars, listVars, queueVars,
                           graphVars, taskVars, mqsVars, isoVars, beanVars,
                           injectionVars, proxyVars, shutdownVars, autoVars,
                           dayVars, lbVars, pubsubVars, msVars, dnsVars, cdnVars,
                           csVars, routerVars, wsVars, tmVars, hosVars, appVars,
                           tomcatVars, actuatorVars, tracingVars, binderVars,
                           dispatchVars, scanVars>>
       \/ /\ program = "human" /\ HosNext
          /\ UNCHANGED <<hashVars, treeVars, trieVars, listVars, queueVars,
                           graphVars, taskVars, mqsVars, isoVars, beanVars,
                           injectionVars, proxyVars, shutdownVars, autoVars,
                           dayVars, lbVars, pubsubVars, msVars, dnsVars, cdnVars,
                           csVars, routerVars, wsVars, tmVars, learningVars,
                           appVars, tomcatVars, actuatorVars, tracingVars,
                           binderVars, dispatchVars, scanVars>>
       \/ /\ program = "application" /\ AppNext
          /\ UNCHANGED <<hashVars, treeVars, trieVars, listVars, queueVars,
                           graphVars, taskVars, mqsVars, isoVars, beanVars,
                           injectionVars, proxyVars, shutdownVars, autoVars,
                           dayVars, lbVars, pubsubVars, msVars, dnsVars, cdnVars,
                           csVars, routerVars, wsVars, tmVars, learningVars,
                           hosVars, tomcatVars, actuatorVars, tracingVars,
                           binderVars, dispatchVars, scanVars>>
       \/ /\ program = "tomcat" /\ TomcatNext
          /\ UNCHANGED <<hashVars, treeVars, trieVars, listVars, queueVars,
                           graphVars, taskVars, mqsVars, isoVars, beanVars,
                           injectionVars, proxyVars, shutdownVars, autoVars,
                           dayVars, lbVars, pubsubVars, msVars, dnsVars, cdnVars,
                           csVars, routerVars, wsVars, tmVars, learningVars,
                           hosVars, appVars, actuatorVars, tracingVars, binderVars,
                           dispatchVars, scanVars>>
       \/ /\ program = "actuator" /\ ActuatorNext
          /\ UNCHANGED <<hashVars, treeVars, trieVars, listVars, queueVars,
                           graphVars, taskVars, mqsVars, isoVars, beanVars,
                           injectionVars, proxyVars, shutdownVars, autoVars,
                           dayVars, lbVars, pubsubVars, msVars, dnsVars, cdnVars,
                           csVars, routerVars, wsVars, tmVars, learningVars,
                           hosVars, appVars, tomcatVars, tracingVars, binderVars,
                           dispatchVars, scanVars>>
       \/ /\ program = "tracing" /\ TracingNext
          /\ UNCHANGED <<hashVars, treeVars, trieVars, listVars, queueVars,
                           graphVars, taskVars, mqsVars, isoVars, beanVars,
                           injectionVars, proxyVars, shutdownVars, autoVars,
                           dayVars, lbVars, pubsubVars, msVars, dnsVars, cdnVars,
                           csVars, routerVars, wsVars, tmVars, learningVars,
                           hosVars, appVars, tomcatVars, actuatorVars, binderVars,
                           dispatchVars, scanVars>>
       \/ /\ program = "binder" /\ BinderNext
          /\ UNCHANGED <<hashVars, treeVars, trieVars, listVars, queueVars,
                           graphVars, taskVars, mqsVars, isoVars, beanVars,
                           injectionVars, proxyVars, shutdownVars, autoVars,
                           dayVars, lbVars, pubsubVars, msVars, dnsVars, cdnVars,
                           csVars, routerVars, wsVars, tmVars, learningVars,
                           hosVars, appVars, tomcatVars, actuatorVars, tracingVars,
                           dispatchVars, scanVars>>
       \/ /\ program = "dispatch" /\ DispatchNext
          /\ UNCHANGED <<hashVars, treeVars, trieVars, listVars, queueVars,
                           graphVars, taskVars, mqsVars, isoVars, beanVars,
                           injectionVars, proxyVars, shutdownVars, autoVars,
                           dayVars, lbVars, pubsubVars, msVars, dnsVars, cdnVars,
                           csVars, routerVars, wsVars, tmVars, learningVars,
                           hosVars, appVars, tomcatVars, actuatorVars, tracingVars,
                           binderVars, scanVars>>
       \/ /\ program = "scan" /\ ScanNext
          /\ UNCHANGED <<hashVars, treeVars, trieVars, listVars, queueVars,
                           graphVars, taskVars, mqsVars, isoVars, beanVars,
                           injectionVars, proxyVars, shutdownVars, autoVars,
                           dayVars, lbVars, pubsubVars, msVars, dnsVars, cdnVars,
                           csVars, routerVars, wsVars, tmVars, learningVars,
                           hosVars, appVars, tomcatVars, actuatorVars, tracingVars,
                           binderVars, dispatchVars>>
    /\ UNCHANGED program

Spec == Init /\ [][Next]_programVars

\* What is looked up is found: in hash tables, search trees and tries, in the
\* tables of a name server, and through the caches of a router and of a network.
LookupsAreExact ==
    /\ program = "tables" => TablesFindKeys
    /\ program = "tree" => TreeFindsKeys
    /\ program = "trie" => TrieFindsPrefixes
    /\ program = "names" => NamesResolve
    /\ program = "edges" => EdgesKeepWhatTheyFetch
    /\ program = "routes" => CacheIsTransparent

\* What is sent gets to whom it is for, once and in order.
MessagesArrive ==
    /\ program = "switch" => MessagesSurvive
    /\ program = "requests" => ServedInOrder
    /\ program = "sockets" => SocketsKeepOrder
    /\ program = "topics" => SubscribersHearAll
    /\ program = "balancer" => LoadIsSpread
    /\ program = "mesh" => CallsAreAccounted

\* Human OS: plans, tasks, lessons and what sleep does.
DaysAreManaged ==
    /\ program = "day" => PlansKeepTheirPromise
    /\ program = "tasks" => NothingRunsTooEarly
    /\ program = "learning" => LessonsAreCounted
    /\ program = "human" => SleepRestores

\* Lists are the sequences, stacks and queues the orders, that a reader expects.
SequencesAreKept ==
    /\ program = "lists" => ListsAreSequences
    /\ program = "queues" => QueuesKeepTheirOrder

\* The algorithms give what trying everything gives.
AlgorithmsAreExact ==
    /\ program = "graph" => SearchesAreRight
    /\ program = "call" => ChoicesAreBest

\* Applications: what is configured, started, counted, traced, bound, answered and
\* found is what was asked for.
ApplicationsStand ==
    /\ program = "start" => DecisionsStand
    /\ program = "application" => EnvironmentStands
    /\ program = "tomcat" => StartedMeansReady
    /\ program = "actuator" => MetersSumUp
    /\ program = "tracing" => TracesAreTrees
    /\ program = "binder" => BindingIsRelaxed
    /\ program = "dispatch" => HandlersAreGuarded
    /\ program = "scan" => ScansFindCandidates
=============================================================================
