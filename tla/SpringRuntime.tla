--------------------------- MODULE SpringRuntime ----------------------------
(***************************************************************************)
(* What runs in the Spring examples: the start of an application and its   *)
(* environment, the embedded server, the properties bound to beans, meters *)
(* and health, traces, the dispatcher of requests and the package scanner. *)
(***************************************************************************)
EXTENDS Integers, Sequences, FiniteSets, SequencesExt, FiniteSetsExt

-----------------------------------------------------------------------------
(***************************************************************************)
(* SpringApplication.run, phase 1 (spring_application.c): one function for *)
(* each step, in a fixed order, each publishing its event.  The banner,    *)
(* times and what listeners and runners print are left out; the functions  *)
(* of this program read the environment and change nothing.  step_failed   *)
(* is called by nobody.                                                    *)
(***************************************************************************)

CONSTANTS
    ArgumentLists,      \* sequences of [option, key, value]: is it "--key=value"
    DefaultProperties,  \* [key, value, priority] of the system and of application.yml
    MAX_PROPS,
    Listeners,          \* the sequence of the listeners: [name, trigger]
    RunnerNames         \* the sequence of the runners

VARIABLES
    app,         \* SpringApplication: args, phase, env, profiles, running
    published,   \* auxiliary: the events, each with its environment and the listeners called
    ran          \* auxiliary: the runners that ran, and in which phase

appVars == <<app, published, ran>>

Created(args) ==
    [args |-> args, phase |-> "CREATED", env |-> << >>, profiles |-> << >>, running |-> FALSE]

AppInit ==
    /\ app \in {Created(args) : args \in ArgumentLists}
    /\ published = << >> /\ ran = << >>

\* The lower its number, the stronger the source; an equal one comes later.
PropertySet(table, p, capacity) ==
    LET known == {i \in DOMAIN table : table[i].key = p.key}
    IN  IF known # {}
        THEN [i \in DOMAIN table |->
                 IF i \in known /\ p.priority <= table[i].priority THEN p ELSE table[i]]
        ELSE IF Len(table) >= capacity THEN table ELSE Append(table, p)

env_set(env, p) ==
    PropertySet(env, p, MAX_PROPS)

env_get(env, key) == {env[i].value : i \in {j \in DOMAIN env : env[j].key = key}}

publish_event(event, env) ==
    LET called == SelectSeq(Listeners, LAMBDA l : l.trigger = event)
    IN  published' = Append(published, [event |-> event, env |-> env, called |-> called])

step_starting ==
    /\ app.phase = "CREATED"
    /\ app' = [app EXCEPT !.phase = "STARTING"]
    /\ publish_event("STARTING", app.env)
    /\ UNCHANGED ran

\* Arguments that are no options are passed over.
Options == SelectSeq(app.args, LAMBDA a : a.option)

Sources == [i \in DOMAIN Options |-> [key |-> Options[i].key, value |-> Options[i].value, priority |-> 1]]
             \o DefaultProperties

step_prepare_environment ==
    /\ app.phase = "STARTING"
    /\ LET env == FoldLeft(env_set, app.env, Sources)
       IN  /\ app' = [app EXCEPT !.env = env, !.phase = "ENVIRONMENT_READY",
                                 !.profiles = SetToSeq(env_get(env, "spring.profiles.active"))]
           /\ publish_event("ENVIRONMENT_PREPARED", env)
    /\ UNCHANGED ran

step_create_context ==
    /\ app.phase = "ENVIRONMENT_READY"
    /\ app' = [app EXCEPT !.phase = "CONTEXT_CREATED"]
    /\ publish_event("CONTEXT_INITIALIZED", app.env)
    /\ UNCHANGED ran

step_prepare_context ==
    /\ app.phase = "CONTEXT_CREATED"
    /\ app' = [app EXCEPT !.phase = "CONTEXT_PREPARED"]
    /\ publish_event("PREPARED", app.env)
    /\ UNCHANGED ran

step_refresh_context ==
    /\ app.phase = "CONTEXT_PREPARED"
    /\ app' = [app EXCEPT !.phase = "REFRESHED"]
    /\ UNCHANGED <<published, ran>>

\* The event comes before the runners, and both before the phase.
step_start ==
    /\ app.phase = "REFRESHED"
    /\ publish_event("STARTED", app.env)
    /\ ran' = ran \o [i \in DOMAIN RunnerNames |-> [runner |-> RunnerNames[i], events |-> Len(published')]]
    /\ app' = [app EXCEPT !.phase = "STARTED"]

step_ready ==
    /\ app.phase = "STARTED"
    /\ publish_event("READY", app.env)
    /\ app' = [app EXCEPT !.phase = "READY", !.running = TRUE]
    /\ UNCHANGED ran

AppNext ==
    \/ step_starting \/ step_prepare_environment \/ step_create_context \/ step_prepare_context
    \/ step_refresh_context \/ step_start \/ step_ready

AppSpec == AppInit /\ [][AppNext]_appVars

\* Every listener from ENVIRONMENT_PREPARED on sees the same environment, in which
\* an option of the command line beats every default and the later of two beats
\* the earlier, unless the table was full before its key came; who listens to the
\* first event is told nothing yet; a listener to any event but a failure was called
\* once when the application is ready; and runners run between STARTED and READY.
\* env_set and the steps of run, spring_application.c:128-517.
EnvironmentStands ==
    /\ \A i \in DOMAIN published : i > 1 => published[i].env = app.env
    /\ published # << >> => published[1].env = << >>
    /\ \A i \in DOMAIN app.env : LET k == app.env[i].key IN
          /\ \A j \in DOMAIN app.env : app.env[j].key = k => j = i
          /\ LET given == SelectSeq(Options, LAMBDA a : a.key = k)
             IN  IF given # << >> THEN app.env[i].value = Last(given).value
                 ELSE app.env[i] \in ToSet(DefaultProperties)
    /\ app.env # << >> /\ Len(app.env) < MAX_PROPS =>
          ToSet([i \in DOMAIN app.env |-> app.env[i].key]) = ToSet([i \in DOMAIN Sources |-> Sources[i].key])
    /\ \A i \in DOMAIN ran : published[ran[i].events].event = "STARTED"
    /\ app.running => Last(published).event = "READY" /\ Len(ran) = Len(RunnerNames)
    /\ app.running => \A l \in ToSet(Listeners) :
          Cardinality({i \in DOMAIN published : l \in ToSet(published[i].called)})
             = IF l.trigger = "FAILED" THEN 0 ELSE 1

-----------------------------------------------------------------------------
(***************************************************************************)
(* The embedded server, phase 4 (embedded_tomcat.c), and the caller who    *)
(* configures, starts and stops it in any order.  tomcat_handle_request    *)
(* prints a request and gives its thread back, so only what the caller     *)
(* puts in flight is there when it stops.  Names, patterns, times and the  *)
(* fields of the connector but its port are left out.                      *)
(***************************************************************************)

CONSTANTS
    Ports, TakenPorts,      \* 8888 is the one that is taken
    ThreadCounts,           \* [max, spare]
    AcceptCounts,
    MAX_SERVLETS, MAX_FILTERS,
    MAX_SERVED, MAX_CONFIGURED   \* bounds: requests, configurations

ASSUME ServerConstants ==
    ThreadCounts \subseteq [max : Nat, spare : Nat] /\ AcceptCounts \subseteq Nat

VARIABLES
    tomcat,     \* EmbeddedTomcat with its TomcatThreadPool
    submitted,  \* auxiliary: the requests that were submitted, and how many were refused
    configured  \* auxiliary: the threads it was configured with, in order

tomcatVars == <<tomcat, submitted, configured>>

tomcat_create ==
    [state |-> "NEW", port |-> 8080, max_threads |-> 200, min_spare_threads |-> 10, accept_count |-> 100,
     active_threads |-> 0, queued_requests |-> 0, total_requests |-> 0,
     in_flight_requests |-> 0, servlets |-> 0, filters |-> 0]

TomcatInit == tomcat = tomcat_create /\ submitted = [all |-> 0, refused |-> 0] /\ configured = << >>

\* In whatever state the server is, a started one too.
tomcat_configure(port, threads) ==
    /\ Len(configured) < MAX_CONFIGURED /\ configured' = Append(configured, threads)
    /\ tomcat' = [tomcat EXCEPT !.port = port, !.max_threads = threads.max,
                                !.min_spare_threads = threads.spare, !.state = "INITIALIZED"]
    /\ UNCHANGED submitted

\* The caller does so between configuration and start.
SetAcceptCount(n) ==
    /\ tomcat.state = "INITIALIZED" /\ tomcat.queued_requests = 0
    /\ tomcat' = [tomcat EXCEPT !.accept_count = n]
    /\ UNCHANGED <<submitted, configured>>

tomcat_add_servlet ==
    /\ tomcat.servlets < MAX_SERVLETS
    /\ tomcat' = [tomcat EXCEPT !.servlets = @ + 1]
    /\ UNCHANGED <<submitted, configured>>

tomcat_add_filter ==
    /\ tomcat.filters < MAX_FILTERS
    /\ tomcat' = [tomcat EXCEPT !.filters = @ + 1]
    /\ UNCHANGED <<submitted, configured>>

port_is_available(port) == port \notin TakenPorts

tomcat_start ==
    /\ tomcat' = IF port_is_available(tomcat.port)
                 THEN [tomcat EXCEPT !.active_threads = tomcat.min_spare_threads, !.state = "STARTED"]
                 ELSE [tomcat EXCEPT !.state = "FAILED"]
    /\ UNCHANGED <<submitted, configured>>

\* STOPPING is passed within the call; queued requests stay queued.
tomcat_stop ==
    /\ tomcat.state = "STARTED"
    /\ tomcat' = [tomcat EXCEPT !.in_flight_requests = 0, !.state = "STOPPED"]
    /\ UNCHANGED <<submitted, configured>>

\* What it adds to the requests in flight and the active threads it takes back.
Handled(t) == IF t.state = "STARTED" THEN [t EXCEPT !.total_requests = @ + 1] ELSE t

tomcat_handle_request ==
    /\ submitted.all < MAX_SERVED
    /\ tomcat' = Handled(tomcat)
    /\ submitted' = [all |-> submitted.all + 1,
                     refused |-> submitted.refused + IF tomcat.state = "STARTED" THEN 0 ELSE 1]
    /\ UNCHANGED configured

\* A burst of requests: a thread, or a place in the queue, or 503.
SubmitUnderLoad ==
    /\ tomcat.state = "STARTED" /\ submitted.all < MAX_SERVED
    /\ LET handled == tomcat.active_threads < tomcat.max_threads
           queued == ~ handled /\ tomcat.queued_requests < tomcat.accept_count
       IN  /\ tomcat' = IF handled THEN Handled(tomcat)
                        ELSE [tomcat EXCEPT !.queued_requests = @ + IF queued THEN 1 ELSE 0]
           /\ submitted' = [all |-> submitted.all + 1,
                             refused |-> submitted.refused + IF handled \/ queued THEN 0 ELSE 1]
    /\ UNCHANGED configured

\* The caller sets the requests in flight that the stop is to wait for.
SimulateInFlight ==
    /\ tomcat.state = "STARTED"
    /\ tomcat' = [tomcat EXCEPT !.in_flight_requests = 2]
    /\ UNCHANGED <<submitted, configured>>

TomcatNext ==
    \/ \E port \in Ports, threads \in ThreadCounts : tomcat_configure(port, threads)
    \/ \E n \in AcceptCounts : SetAcceptCount(n)
    \/ tomcat_add_servlet \/ tomcat_add_filter
    \/ tomcat_start \/ tomcat_stop
    \/ tomcat_handle_request \/ SubmitUnderLoad \/ SimulateInFlight

TomcatSpec == TomcatInit /\ [][TomcatNext]_tomcatVars

\* However starts, stops and configurations follow one another, a server that says
\* it is started has the port it is configured for, a free one, and as many threads
\* as that configuration asks for; a failed one had none, and one that stopped has
\* nothing in flight.  Every request that was submitted was handled, is queued, in a
\* queue that never outgrows its limit, or was refused; and one is queued only if
\* all the threads that were configured were spare ones.  embedded_tomcat.c:202-402, 547-603.
StartedMeansReady ==
    /\ tomcat.state = "STARTED" =>
          port_is_available(tomcat.port) /\ tomcat.active_threads = tomcat.min_spare_threads
    /\ tomcat.state = "FAILED" => ~ port_is_available(tomcat.port)
    /\ tomcat.state = "STOPPED" => tomcat.in_flight_requests = 0
    /\ tomcat.total_requests + tomcat.queued_requests + submitted.refused = submitted.all
    /\ tomcat.queued_requests <= tomcat.accept_count
    /\ tomcat.queued_requests > 0 => \E threads \in ToSet(configured) : threads.spare >= threads.max

-----------------------------------------------------------------------------
(***************************************************************************)
(* Meters and health, phase 6 (metrics_registry.c, health_endpoint.c).     *)
(* What an indicator finds when it is asked is chosen then; details and    *)
(* messages are left out.  A meter is found by its type and name: the tags *)
(* of whoever comes later are dropped.                                     *)
(***************************************************************************)

CONSTANTS
    MeterNames, TagValues, Amounts,
    MAX_METERS, MAX_RECORDINGS, MAX_INDICATORS,
    MAX_METERED      \* bound: what is counted, set or recorded

VARIABLES
    meters,      \* MeterRegistry.entries
    metered,     \* auxiliary: what was counted, set or recorded, in order
    indicators,  \* HealthEndpoint.indicator_count
    health       \* what the endpoint answered last: the status of each, and the HTTP code

actuatorVars == <<meters, metered, indicators, health>>

NotAsked == [results |-> << >>, http_code |-> 0]

ActuatorInit == meters = << >> /\ metered = << >> /\ indicators = 0 /\ health = NotAsked

NewMeter(type, name, tags) ==
    [type |-> type, name |-> name, tags |-> tags, count |-> 0, total |-> 0, max |-> 0, recordings |-> << >>]

\* The registry with the meter, or as it is if it is full: the caller gets NULL.
registry_meter(type, name, tags) ==
    IF \/ \E i \in DOMAIN meters : meters[i].type = type /\ meters[i].name = name
       \/ Len(meters) >= MAX_METERS
    THEN meters ELSE Append(meters, NewMeter(type, name, tags))

\* count is what a counter counted, a gauge shows, and a timer's recordings are.
counter_increment(m, amount) == [m EXCEPT !.count = @ + amount]

gauge_set(m, value) == [m EXCEPT !.count = value]

timer_record(m, duration) ==
    [m EXCEPT !.count = @ + 1, !.total = @ + duration,
              !.max = IF duration > @ THEN duration ELSE @,
              !.recordings = IF Len(@) < MAX_RECORDINGS THEN Append(@, duration) ELSE @]

\* percent / 100 of the way through the recordings that were kept.
timer_percentile(m, percent) ==
    LET sorted == SortSeq(m.recordings, <)
    IN  IF sorted = << >> THEN 0 ELSE sorted[((percent * (Len(sorted) - 1)) \div 100) + 1]

Metered(type, name, tags, amount) ==
    LET known == registry_meter(type, name, tags)
    IN  \E i \in DOMAIN known :
           /\ known[i].type = type /\ known[i].name = name
           /\ meters' = [known EXCEPT ![i] = CASE type = "COUNTER" -> counter_increment(@, amount)
                                               [] type = "GAUGE"   -> gauge_set(@, amount)
                                               [] type = "TIMER"   -> timer_record(@, amount)]
           /\ metered' = Append(metered, [type |-> type, name |-> name, amount |-> amount])
           /\ UNCHANGED <<indicators, health>>

health_endpoint_register ==
    /\ indicators < MAX_INDICATORS
    /\ indicators' = indicators + 1
    /\ UNCHANGED <<meters, metered, health>>

\* DOWN, OUT_OF_SERVICE, UNKNOWN and UP, the lower the worse.
HealthStatus == 0 .. 3

aggregate_status(a, b) == IF a < b THEN a ELSE b

status_http_code(s) == IF s \in {2, 3} THEN 200 ELSE 503

health_endpoint_call ==
    /\ \E results \in [1 .. indicators -> HealthStatus] :
          health' = [results |-> results,
                     http_code |-> status_http_code(FoldLeft(aggregate_status, 3, results))]
    /\ UNCHANGED <<meters, metered, indicators>>

ActuatorNext ==
    \/ /\ Len(metered) < MAX_METERED
       /\ \E type \in {"COUNTER", "GAUGE", "TIMER"}, name \in MeterNames, tags \in TagValues, a \in Amounts :
             Metered(type, name, tags, a)
    \/ health_endpoint_register
    \/ health_endpoint_call

ActuatorSpec == ActuatorInit /\ [][ActuatorNext]_actuatorVars

\* A meter says what was metered under its type and name, whatever other meters of
\* that name there are: a counter their sum, a gauge the last of them, a timer their
\* number, sum and longest, and percentiles of the first of them; and the endpoint
\* answers 200 exactly when nothing is down or out of service.
\* metrics_registry.c:147-231, health_endpoint.c:191-217.
MetersSumUp ==
    /\ \A i \in DOMAIN meters : LET m == meters[i]
          own == SelectSeq(metered, LAMBDA e : e.type = m.type /\ e.name = m.name)
          amounts == [k \in DOMAIN own |-> own[k].amount]
          sum == FoldLeft(LAMBDA x, y : x + y, 0, amounts)
       IN  CASE m.type = "COUNTER" -> m.count = sum
             [] m.type = "GAUGE"   -> m.count = Last(amounts)
             [] m.type = "TIMER"   ->
                  /\ m.count = Len(own) /\ m.total = sum /\ m.max = Max(ToSet(amounts))
                  /\ Len(own) <= MAX_RECORDINGS => timer_percentile(m, 100) = m.max
                  /\ timer_percentile(m, 0) = Min(ToSet(m.recordings))
                  /\ timer_percentile(m, 50) \in ToSet(amounts) /\ timer_percentile(m, 50) <= m.max
    /\ health # NotAsked =>
          (health.http_code = 200 <=> \A i \in DOMAIN health.results : health.results[i] >= 2)

-----------------------------------------------------------------------------
(***************************************************************************)
(* Traces, phase 10 (tracing_context.c): spans in one registry, each with  *)
(* the context of its parent.  Identifiers are drawn at random; they are   *)
(* taken to differ, and a span's is its place in the registry.  Names,     *)
(* times and the structured log are left out.  A caller with no room in    *)
(* the registry would use NULL, and is not followed.                       *)
(***************************************************************************)

CONSTANTS
    MAX_SPANS, MAX_SPAN_TAGS, MAX_SPAN_EVENTS,
    MAX_TRACED    \* bound: what is done to spans

ASSUME TracingConstants == MAX_SPANS \in Nat /\ MAX_SPAN_TAGS \in Nat /\ MAX_SPAN_EVENTS \in Nat

VARIABLES
    spans,   \* g_registry.spans
    traced   \* auxiliary: how much was done

tracingVars == <<spans, traced>>

NoParent == 0
DEEPEST == 11   \* print_trace climbs no further

TracingInit == spans = << >> /\ traced = 0

NewSpan(trace, parent, sampled) ==
    [trace_id |-> trace, parent_span_id |-> parent, sampled |-> sampled,
     tags |-> << >>, event_count |-> 0, is_error |-> FALSE, ended |-> FALSE]

span_start_root == spans' = Append(spans, NewSpan(Len(spans) + 1, NoParent, TRUE))

\* reg with a child of the span at place parent, after which place is the child's.
span_start_child(reg, parent) == Append(reg, NewSpan(reg[parent].trace_id, parent, reg[parent].sampled))

span_tag(s, tag) == [s EXCEPT !.tags = IF Len(@) < MAX_SPAN_TAGS THEN Append(@, tag) ELSE @]

span_event(s) == [s EXCEPT !.event_count = IF @ < MAX_SPAN_EVENTS THEN @ + 1 ELSE @]

span_end(s) == [s EXCEPT !.ended = TRUE]

span_error(s) == span_tag([s EXCEPT !.is_error = TRUE], "error")

db_query(reg, parent) ==
    LET new == Len(reg) + 1
    IN  [span_start_child(reg, parent) EXCEPT ![new] = span_end(span_tag(span_tag(@, "db.system"), "db.statement"))]

\* The span of the call, and under it that of the cache it looks into.
inventory_service_call(reg, parent) ==
    LET new == Len(reg) + 1
        called == span_start_child(reg, parent)
        tagged == [called EXCEPT ![new] = span_tag(span_tag(span_tag(@, "peer.service"), "http.method"), "http.url")]
        looked == [span_start_child(tagged, new) EXCEPT
                     ![new + 1] = span_end(span_tag(span_tag(@, "db.system"), "db.operation"))]
    IN  [looked EXCEPT ![new] = span_end(span_event(@))]

order_service_create(parent) ==
    LET new == Len(spans) + 1
        started == [span_start_child(spans, parent) EXCEPT ![new] = span_tag(@, "order.id")]
        called == db_query(inventory_service_call(db_query(started, new), new), new)
    IN  /\ Len(spans) + 5 <= MAX_SPANS
        /\ spans' = [called EXCEPT ![new] = span_end(span_event(@))]

TracingNext ==
    \/ /\ traced < MAX_TRACED /\ traced' = traced + 1
       /\ \/ Len(spans) < MAX_SPANS /\ span_start_root
          \/ \E i \in DOMAIN spans :
                \/ Len(spans) < MAX_SPANS /\ spans' = span_start_child(spans, i)
                \/ Len(spans) < MAX_SPANS /\ spans' = db_query(spans, i)
                \/ order_service_create(i)
                \/ spans' = [spans EXCEPT ![i] = span_tag(@, "tag")]
                \/ spans' = [spans EXCEPT ![i] = span_error(@)]
                \/ spans' = [spans EXCEPT ![i] = span_end(@)]
    \/ traced > 0 /\ spans' = << >> /\ traced' = 0   \* the next demonstration

TracingSpec == TracingInit /\ [][TracingNext]_tracingVars

\* How far print_trace indents a span, if it climbs no more than k steps.
Indent[k \in 0 .. DEEPEST] ==
    [i \in DOMAIN spans |->
        IF spans[i].parent_span_id = NoParent \/ k = 0 THEN 0 ELSE 1 + Indent[k - 1][spans[i].parent_span_id]]

SpanDepth(i) == Indent[DEEPEST][i]

\* The spans of a trace are a tree with one root, whatever calls are nested in it
\* and in which order they end: a child comes after its parent, belongs to its
\* trace, is sampled if it is, and is printed one step deeper; and an error shows
\* among the tags unless they were full.  tracing_context.c:110-317.
TracesAreTrees ==
    \A i \in DOMAIN spans : LET s == spans[i] IN
       /\ s.parent_span_id < i
       /\ s.parent_span_id = NoParent <=> s.trace_id = i
       /\ s.parent_span_id # NoParent =>
             LET p == spans[s.parent_span_id]
             IN  /\ p.trace_id = s.trace_id /\ p.sampled = s.sampled
                 /\ SpanDepth(i) = Min({SpanDepth(s.parent_span_id) + 1, DEEPEST})
       /\ s.is_error => "error" \in ToSet(s.tags) \/ Len(s.tags) = MAX_SPAN_TAGS

-----------------------------------------------------------------------------
(***************************************************************************)
(* Properties bound to the fields of a bean, phase 3 (property_binder.c).  *)
(* A key is the sequence of its characters, a value a duration, which is   *)
(* what bind_field converts most.  A property is looked up under the key   *)
(* of its field, and under the normal form of that: the keys of the source *)
(* are not normalized.  No key is as long as the buffer, and optional      *)
(* fields are bound to beans that were zeroed.                             *)
(***************************************************************************)

CONSTANTS
    Fields,        \* the descriptors: [key, default: a value or NoDefault, required]
    NoDefault,
    BoundKeys,     \* keys of properties
    BoundValues,   \* [number, unit]
    MAX_SOURCE_PROPS,   \* MAX_PROPS of property_binder.c
    KeyTexts       \* for the property of normalize_key

VARIABLES
    ps,     \* PropertySource
    bean    \* the fields that were bound, and how many of those required were not found

binderVars == <<ps, bean>>

NotBound == [fields |-> << >>, errors |-> 0]

BinderInit == ps = << >> /\ bean = NotBound

UpperCase == [A |-> "a", B |-> "b"]

Separated(s) == IF s # << >> /\ Last(s) \notin {"-", "."} THEN Append(s, "-") ELSE s

\* Every capital starts a word, one that follows a capital too.
Normalize(s, c) ==
    IF c \in DOMAIN UpperCase THEN Append(Separated(s), UpperCase[c])
    ELSE IF c = "_" THEN Separated(s) ELSE Append(s, c)

normalize_key(key) == FoldLeft(Normalize, << >>, key)

\* The lower its number, the stronger the source.
prop_set(key, value, priority) ==
    /\ ps' = PropertySet(ps, [key |-> key, value |-> value, priority |-> priority], MAX_SOURCE_PROPS)
    /\ UNCHANGED bean

prop_get(key) == env_get(ps, key)

parse_duration_ms(v) ==
    v.number * (CASE v.unit = "s" -> 1000 [] v.unit = "m" -> 60000 [] v.unit = "h" -> 3600000 [] OTHER -> 1)

FieldValues(f) ==
    LET exact == prop_get(f.key)
        found == IF exact # {} THEN exact ELSE prop_get(normalize_key(f.key))
    IN  {parse_duration_ms(v) : v \in IF found # {} THEN found ELSE {f.default} \ {NoDefault}}

bind_properties ==
    /\ bean' = [fields |-> [i \in DOMAIN Fields |-> FieldValues(Fields[i])],
                errors |-> Cardinality({i \in DOMAIN Fields : Fields[i].required /\ FieldValues(Fields[i]) = {}})]
    /\ UNCHANGED ps

BinderNext ==
    \/ \E k \in BoundKeys, v \in BoundValues, priority \in {3, 6} : prop_set(k, v, priority)
    \/ bind_properties

BinderSpec == BinderInit /\ [][BinderNext]_binderVars

Spelled(key) == SelectSeq(key, LAMBDA c : c \notin {"-", "_"})

\* A normal form is its own normal form, with no capital or underscore left and
\* no two words run together; a field takes one value at most, and the bean lacks
\* a required one only while the source has it under none of its two keys: as
\* properties are only added and replaced, binding never gets worse.
\* property_binder.c:64-261.
BindingIsRelaxed ==
    /\ ps = << >> => \A k \in KeyTexts : LET output == normalize_key(k) IN
          /\ normalize_key(output) = output
          /\ ToSet(output) \cap (DOMAIN UpperCase \cup {"_"}) = {}
          /\ SelectSeq(output, LAMBDA c : c # "-") =
                [i \in DOMAIN Spelled(k) |-> IF Spelled(k)[i] \in DOMAIN UpperCase THEN UpperCase[Spelled(k)[i]]
                                            ELSE Spelled(k)[i]]
    /\ \A i \in DOMAIN bean.fields :
          /\ Cardinality(bean.fields[i]) <= 1
          /\ bean.fields[i] # {} => FieldValues(Fields[i]) # {}
    /\ bean # NotBound =>
          bean.errors >= Cardinality({i \in DOMAIN Fields : Fields[i].required /\ FieldValues(Fields[i]) = {}})

-----------------------------------------------------------------------------
(***************************************************************************)
(* The dispatcher, Spring phase 4 (dispatcher_servlet.c): interceptors,    *)
(* the first handler that fits, interceptors backwards.  A path is the     *)
(* sequence of its segments; in a pattern the last may be PathVariable.    *)
(* Bodies are left out but for whether a request has one.                  *)
(***************************************************************************)

CONSTANTS
    WebRequests,    \* [method, path, body: has it one, auth: "none", "bearer" or "other"]
    PathVariable,
    LongSegments    \* segments that path_var has no room for: 128 characters or more

VARIABLES
    reply,      \* HttpResponse.status, and what do_dispatch called, in order
    dispatched  \* auxiliary: the request

dispatchVars == <<reply, dispatched>>

NoAnswerYet == [status |-> 0, calls |-> << >>]

DispatchInit == reply = NoAnswerYet /\ dispatched = [method |-> "NONE"]

HandlerOf(method, pattern, name) == [method |-> method, pattern |-> pattern, name |-> name]

handler_table ==
    <<HandlerOf("GET",    <<"api", "users">>,               "getUsers"),
      HandlerOf("GET",    <<"api", "users", PathVariable>>, "getUserById"),
      HandlerOf("POST",   <<"api", "users">>,               "createUser"),
      HandlerOf("DELETE", <<"api", "users", PathVariable>>, "deleteUser"),
      HandlerOf("GET",    <<"actuator", "health">>,         "health")>>

\* What follows the segment that the variable takes is ignored.
path_matches(pattern, path) ==
    IF Last(pattern) # PathVariable THEN pattern = path
    ELSE Len(path) >= Len(pattern) /\ Front(pattern) = SubSeq(path, 1, Len(pattern) - 1)

path_var(pattern, path) ==
    IF Last(pattern) = PathVariable /\ path[Len(pattern)] \notin LongSegments THEN path[Len(pattern)] ELSE ""

StatusOf(handler, req) ==
    CASE handler.name \in {"getUserById", "deleteUser"} ->
           IF path_var(handler.pattern, req.path) = "" THEN 400 ELSE 200
      [] handler.name = "createUser" -> IF req.body THEN 201 ELSE 400
      [] OTHER -> 200

Matching(req) ==
    {i \in DOMAIN handler_table :
        handler_table[i].method = req.method /\ path_matches(handler_table[i].pattern, req.path)}

\* Both interceptors are asked before, logging and then auth; the request of auth
\* that is refused, and one that nothing fits, ends there.
do_dispatch(req) ==
    LET before == <<"pre logging", "pre auth">>
        after == <<"post auth", "post logging">>
    IN  /\ dispatched' = req
        /\ reply' =
             IF req.auth # "bearer" THEN [status |-> 401, calls |-> before]
             ELSE IF Matching(req) = {} THEN [status |-> 404, calls |-> before]
             ELSE LET h == handler_table[Min(Matching(req))]
                  IN  [status |-> StatusOf(h, req), calls |-> Append(before, h.name) \o after]

DispatchNext == \E req \in WebRequests : do_dispatch(req)

DispatchSpec == DispatchInit /\ [][DispatchNext]_dispatchVars

\* A handler runs exactly for a request with a token that some pattern fits, the
\* right one for the number of segments, between the interceptors' two halves,
\* whose second mirrors the first; none of them answers what it does not have.
\* do_dispatch, dispatcher_servlet.c:305-414.
HandlersAreGuarded ==
    LET called == ToSet(reply.calls) \cap {handler_table[i].name : i \in DOMAIN handler_table}
        halves == SelectSeq(reply.calls, LAMBDA c : c \notin called)
    IN  dispatched.method # "NONE" =>
          /\ called # {} <=> reply.status \notin {401, 404}
          /\ called # {} => Cardinality(called) = 1 /\ dispatched.auth = "bearer" /\ Len(halves) = 4
                              /\ reply.calls[3] \in called
          /\ reply.status = 401 <=> dispatched.auth # "bearer"
          /\ "getUserById" \in called => Len(dispatched.path) >= 3
          /\ called # {} /\ dispatched.path = <<"api", "users">> => called \subseteq {"getUsers", "createUser"}
          /\ reply.status = 404 => \A i \in DOMAIN handler_table :
                handler_table[i].method = dispatched.method => handler_table[i].pattern # dispatched.path

-----------------------------------------------------------------------------
(***************************************************************************)
(* The scanner of packages, Spring phase 3 (annotation_scanner.c).  The    *)
(* name of a package is cut into pieces so that what is scanned, which may *)
(* end within a word, is a prefix of the pieces.  Bean names are left out. *)
(***************************************************************************)

CONSTANTS
    ClassPath,      \* the sequence of classes: [name, package, annotations, scope]
    Packages,       \* what is scanned
    MAX_BEAN_DEFS,  \* MAX_BEANS of annotation_scanner.c
    MAX_SCANS       \* bound

VARIABLES
    definitions,   \* BeanDefinitionRegistry
    scanned        \* auxiliary: the packages scanned, in order

scanVars == <<definitions, scanned>>

ScanInit == definitions = << >> /\ scanned = << >>

is_component_candidate(annotations) ==
    annotations \cap {"COMPONENT", "SERVICE", "REPOSITORY", "CONTROLLER", "REST_CTRL"} # {}

Scannable(class, package) ==
    /\ IsPrefix(package, class.package)
    /\ is_component_candidate(class.annotations) /\ "CONFIGURATION" \notin class.annotations

\* A class that was found before is registered once more; a full registry ends the scan.
scan_package(package) ==
    LET found == SelectSeq(ClassPath, LAMBDA c : Scannable(c, package))
        all == definitions \o [i \in DOMAIN found |->
                  [class_name |-> found[i].name,
                   scope      |-> found[i].scope,
                   primary    |-> "PRIMARY" \in found[i].annotations,
                   lazy       |-> "LAZY" \in found[i].annotations]]
    IN  /\ definitions' = SubSeq(all, 1, Min({Len(all), MAX_BEAN_DEFS}))
        /\ scanned' = Append(scanned, package)

ScanNext == Len(scanned) < MAX_SCANS /\ \E p \in Packages : scan_package(p)

ScanSpec == ScanInit /\ [][ScanNext]_scanVars

\* What is registered is what the scans cover, as often as they do, while there is
\* room; scanning a package and then one within it doubles the inner one's, and no
\* order of the scans finds a class more.  scan_package, annotation_scanner.c:230-274.
ScansFindCandidates ==
    LET covering(c) == {k \in DOMAIN scanned : IsPrefix(scanned[k], c.package)}
        times(c) == Cardinality({i \in DOMAIN definitions : definitions[i].class_name = c.name})
    IN  \A k \in DOMAIN ClassPath : LET c == ClassPath[k] IN
          /\ times(c) <= Cardinality(covering(c))
          /\ Len(definitions) < MAX_BEAN_DEFS /\ "CONFIGURATION" \notin c.annotations /\ c.annotations # {} =>
                times(c) = Cardinality(covering(c))
          /\ c.annotations \subseteq {"CONFIGURATION"} => times(c) = 0
=============================================================================
