-------------------------- MODULE NetworkServices ---------------------------
(***************************************************************************)
(* The services and the servers of the networking examples, each used by   *)
(* one caller at a time: the message queue and what stands beside it, then *)
(* requests answered by workers, routes with a cache in front of them, and *)
(* connections that stay open.                                             *)
(***************************************************************************)
EXTENDS Integers, Sequences, FiniteSets, SequencesExt

-----------------------------------------------------------------------------
(***************************************************************************)
(* The message queue of 05_MessageQueue.c (networking structures): a       *)
(* priority queue kept as a binary heap in an array, consumers whose work  *)
(* may fail, retries and a dead letter queue.  Array index i of the code   *)
(* is position i + 1 here.  nextRetryAt and status are written and never   *)
(* read, so a retry waits for nothing; they are left out, with the         *)
(* consumers' counters.                                                    *)
(***************************************************************************)

CONSTANTS
    Messages,         \* bound: their numbers, in the order in which they are produced
    MAX_QUEUE_SIZE,
    MAX_DLQ_SIZE,
    maxRetries

ASSUME MessageConstants ==
    /\ Messages \subseteq Nat
    /\ {MAX_QUEUE_SIZE, MAX_DLQ_SIZE, maxRetries} \subseteq Nat

VARIABLES
    nodes,        \* PriorityQueue
    dlq,          \* DeadLetterQueue
    sent,         \* auxiliary: the priority each message got, -1 before
    delivered, failed  \* auxiliary: messages delivered, failures of each

mqsVars == <<nodes, dlq, sent, delivered, failed>>

Message == [messageId : Messages, priority : 0 .. 2, retryCount : 0 .. maxRetries]

MqsTypeOK ==
    /\ nodes \in Seq(Message) /\ Len(nodes) <= MAX_QUEUE_SIZE
    /\ dlq \in Seq(Message) /\ Len(dlq) <= MAX_DLQ_SIZE
    /\ sent \in [Messages -> -1 .. 2]
    /\ delivered \subseteq Messages
    /\ failed \in [Messages -> Nat]

\* mqs_create
MqsInit ==
    /\ nodes = << >> /\ dlq = << >>
    /\ sent = [m \in Messages |-> -1]
    /\ delivered = {}
    /\ failed = [m \in Messages |-> 0]

-----------------------------------------------------------------------------

swap(h, i, j) == [h EXCEPT ![i] = h[j], ![j] = h[i]]

RECURSIVE heapify_up(_, _)
heapify_up(h, i) ==
    IF i > 1 /\ h[i \div 2].priority < h[i].priority
    THEN heapify_up(swap(h, i, i \div 2), i \div 2)
    ELSE h

Larger_left(h, i) == IF 2 * i <= Len(h) /\ h[2 * i].priority > h[i].priority THEN 2 * i ELSE i

\* The largest of a node and its children, the node and then the left one first.
Larger(h, i) ==
    LET family == {j \in {i, 2 * i, 2 * i + 1} : j <= Len(h)}
    IN  Min({j \in family : \A k \in family : h[k].priority <= h[j].priority})

RECURSIVE heapify_down(_, _)
heapify_down(h, i) ==
    LET largest == Larger(h, i)
    IN  IF largest = i THEN h ELSE heapify_down(swap(h, i, largest), largest)

pq_enqueue(h, msg) == heapify_up(Append(h, msg), Len(h) + 1)

\* What is left without the first: the last node takes its place.
pq_dequeue(h) ==
    IF Len(h) = 1 THEN << >> ELSE heapify_down([Front(h) EXCEPT ![1] = Last(h)], 1)

\* A full queue drops the message, and the producer is not told.
mqs_produce(m, p) ==
    /\ sent[m] = -1 /\ \A n \in Messages : n < m => sent[n] # -1
    /\ Len(nodes) < MAX_QUEUE_SIZE
    /\ nodes' = pq_enqueue(nodes, [messageId |-> m, priority |-> p, retryCount |-> 0])
    /\ sent' = [sent EXCEPT ![m] = p]
    /\ UNCHANGED <<dlq, delivered, failed>>

\* mqs_consume dequeues before it looks for the consumer: an unknown one takes the
\* message with it.
ConsumeUnknown ==
    /\ nodes # << >>
    /\ nodes' = pq_dequeue(nodes)
    /\ UNCHANGED <<dlq, sent, delivered, failed>>

ConsumeOk ==
    /\ nodes # << >>
    /\ nodes' = pq_dequeue(nodes)
    /\ delivered' = delivered \cup {nodes[1].messageId}
    /\ UNCHANGED <<dlq, sent, failed>>

\* A failure is retried, or the message goes to the dead letters if they have room.
ConsumeFails ==
    /\ nodes # << >>
    /\ LET msg == nodes[1]
           rest == pq_dequeue(nodes)
       IN  /\ failed' = [failed EXCEPT ![msg.messageId] = @ + 1]
           /\ IF msg.retryCount < maxRetries
              THEN /\ nodes' = pq_enqueue(rest, [msg EXCEPT !.retryCount = @ + 1])
                   /\ UNCHANGED dlq
              ELSE /\ nodes' = rest
                   /\ dlq' = IF Len(dlq) < MAX_DLQ_SIZE THEN Append(dlq, msg) ELSE dlq
    /\ UNCHANGED <<sent, delivered>>

MqsNext ==
    \/ \E m \in Messages, p \in 0 .. 2 : mqs_produce(m, p)
    \/ ConsumeUnknown \/ ConsumeOk \/ ConsumeFails

MqsSpec == MqsInit /\ [][MqsNext]_mqsVars

-----------------------------------------------------------------------------
(* Properties                                                              *)

InQueue(s) == {s[i].messageId : i \in DOMAIN s}

Fate(m) ==
    CASE sent[m] = -1         -> "new"
      [] m \in InQueue(nodes) -> "waiting"
      [] m \in delivered      -> "delivered"
      [] m \in InQueue(dlq)   -> "dead"
      [] OTHER                -> "lost"

Broker == INSTANCE MessageBroker WITH
    fate     <- [m \in Messages |-> Fate(m)],
    priority <- [m \in Messages |-> IF sent[m] = -1 THEN 0 ELSE sent[m]],
    failures <- [m \in Messages |-> IF failed[m] > maxRetries THEN maxRetries ELSE failed[m]]

\* The heap in the array and the retries keep what a queue with priorities
\* promises: whatever the order in which messages come, fail and come back, the
\* next one tried has the highest priority there is, none is tried more than
\* 1 + maxRetries times, delivered twice or brought back, and those that are
\* still waiting are all in the heap.  05_MessageQueue.c:145-330.
ImplementsBroker == Broker!BrokerSpec

-----------------------------------------------------------------------------
(***************************************************************************)
(* The load balancer, 04_LoadBalancer.c: servers in the order of their     *)
(* registration, and three ways of choosing one.  hash_function is a       *)
(* function chosen at the start; a request routed by its key comes with    *)
(* the hash of the key.  Addresses and times are left out, and the count   *)
(* of failed health checks, which is only printed.  Callers number the     *)
(* servers as they register them, and complete what was routed.            *)
(***************************************************************************)

CONSTANTS
    MAX_SERVERS,
    VIRTUAL_NODES,   \* of each server on the ring
    RING_SIZE,       \* how many hashes there are
    RingHashes,      \* functions from (1 .. MAX_SERVERS) \X (1 .. VIRTUAL_NODES) to hashes
    MAX_ROUTED       \* bound: requests

VARIABLES
    lb,         \* LoadBalancer
    ring_hash,  \* hash_function on the names of virtual nodes
    turns       \* auxiliary: requests each server got in turn since the last registration

lbVars == <<lb, ring_hash, turns>>

lb_create ==
    [servers |-> << >>, roundRobinIndex |-> 0, hashRing |-> << >>, totalRequests |-> 0]

LbInit ==
    /\ lb = lb_create
    /\ ring_hash \in RingHashes
    /\ turns = [s \in 1 .. MAX_SERVERS |-> 0]

Registered == {lb.servers[i].serverId : i \in DOMAIN lb.servers}

lb_register_server ==
    /\ Len(lb.servers) < MAX_SERVERS
    /\ lb' = [lb EXCEPT !.servers = Append(@,
                [serverId |-> Len(@) + 1, activeConnections |-> 0, totalRequests |-> 0, health |-> TRUE])]
    /\ turns' = [s \in 1 .. MAX_SERVERS |-> 0]
    /\ UNCHANGED ring_hash

RingOf(servers) ==
    FlattenSeq([i \in DOMAIN servers |->
                  [v \in 1 .. VIRTUAL_NODES |->
                      [serverId |-> servers[i].serverId, hashValue |-> ring_hash[servers[i].serverId, v]]]])

lb_build_hash_ring ==
    /\ lb' = [lb EXCEPT !.hashRing = RingOf(lb.servers)]
    /\ UNCHANGED <<ring_hash, turns>>

RouteTo(i) ==
    [lb EXCEPT !.servers[i].activeConnections = @ + 1,
               !.servers[i].totalRequests = @ + 1,
               !.totalRequests = @ + 1]

\* None of the three ways looks at a server's health.
lb_route_round_robin ==
    /\ lb.servers # << >>
    /\ LET i == lb.roundRobinIndex + 1
       IN  /\ lb' = [RouteTo(i) EXCEPT !.roundRobinIndex = i % Len(lb.servers)]
           /\ turns' = [turns EXCEPT ![lb.servers[i].serverId] = @ + 1]
    /\ UNCHANGED ring_hash

\* The next virtual node on the ring, the first of those as near.
RingOwner(ring, keyHash) ==
    LET distance(i) == (ring[i].hashValue - keyHash + RING_SIZE) % RING_SIZE
        nearest == CHOOSE i \in DOMAIN ring : \A j \in DOMAIN ring :
                      distance(i) < distance(j) \/ (distance(i) = distance(j) /\ i <= j)
    IN  ring[nearest].serverId

lb_route_consistent_hash(keyHash) ==
    /\ lb.hashRing # << >>
    /\ \E i \in DOMAIN lb.servers :
          lb.servers[i].serverId = RingOwner(lb.hashRing, keyHash) /\ lb' = RouteTo(i)
    /\ UNCHANGED <<ring_hash, turns>>

lb_route_least_connections ==
    /\ lb.servers # << >>
    /\ LET load(i) == lb.servers[i].activeConnections
       IN  lb' = RouteTo(CHOOSE i \in DOMAIN lb.servers : \A j \in DOMAIN lb.servers :
                            load(i) < load(j) \/ (load(i) = load(j) /\ i <= j))
    /\ UNCHANGED <<ring_hash, turns>>

lb_health_check ==
    /\ \E healthy \in SUBSET DOMAIN lb.servers :
          lb' = [lb EXCEPT !.servers = [i \in DOMAIN @ |-> [@[i] EXCEPT !.health = i \in healthy]]]
    /\ UNCHANGED <<ring_hash, turns>>

lb_complete_request(i) ==
    /\ lb.servers[i].activeConnections > 0
    /\ lb' = [lb EXCEPT !.servers[i].activeConnections = @ - 1]
    /\ UNCHANGED <<ring_hash, turns>>

LbNext ==
    \/ lb_register_server
    \/ lb_build_hash_ring
    \/ /\ lb.totalRequests < MAX_ROUTED
       /\ \/ lb_route_round_robin
          \/ \E h \in 0 .. RING_SIZE - 1 : lb_route_consistent_hash(h)
          \/ lb_route_least_connections
    \/ lb_health_check
    \/ \E i \in DOMAIN lb.servers : lb_complete_request(i)

LbSpec == LbInit /\ [][LbNext]_lbVars

\* Requests served in turn are spread evenly, and the next turn is of a server
\* that had the fewest, even where servers were registered between them; a
\* server more on the ring takes over keys and moves none between the others,
\* so that the ring that was built sends a key where one with fewer servers
\* did, or to a server added since; and the totals agree.
\* 04_LoadBalancer.c:146-219.
LoadIsSpread ==
    /\ \A s, t \in Registered : turns[s] - turns[t] \in -1 .. 1
    /\ lb.servers # << >> =>
          \A s \in Registered : turns[lb.servers[lb.roundRobinIndex + 1].serverId] <= turns[s]
    /\ \A n \in 2 .. Len(lb.servers), h \in 0 .. RING_SIZE - 1 :
          LET owner(k) == RingOwner(RingOf(SubSeq(lb.servers, 1, k)), h)
          IN  owner(n) \in {owner(n - 1), lb.servers[n].serverId}
    /\ \A i \in DOMAIN lb.hashRing : lb.hashRing[i].serverId \in Registered
    /\ lb.totalRequests = FoldLeft(LAMBDA sum, s : sum + s.totalRequests, 0, lb.servers)
    /\ \A i \in DOMAIN lb.servers :
          lb.servers[i].activeConnections <= lb.servers[i].totalRequests

-----------------------------------------------------------------------------
(***************************************************************************)
(* Topics and their subscribers, 06_PubSub.c.  Publishers and payloads are *)
(* left out: a message is its number and its topic.                        *)
(***************************************************************************)

CONSTANTS
    TopicNames, SubscriberIds,
    MAX_TOPICS, MAX_SUBSCRIBERS_PER_TOPIC, MAX_MESSAGES_HISTORY,
    MAX_PUBLISHED    \* bound: messages

VARIABLES
    pubsub,   \* PubSubSystem
    joined    \* auxiliary: how many messages a topic had when somebody subscribed to it

pubsubVars == <<pubsub, joined>>

pubsub_create ==
    [topics |-> << >>, messageHistory |-> << >>, totalMessagesPublished |-> 0, totalMessagesFanned |-> 0]

PubSubInit == pubsub = pubsub_create /\ joined = << >>

TopicAt(ps, name) == {t \in DOMAIN ps.topics : ps.topics[t].topicName = name}

pubsub_find_topic(name) == TopicAt(pubsub, name)

\* The system with that topic, which may be there already, if there is room.
WithTopic(name) ==
    IF pubsub_find_topic(name) # {} \/ Len(pubsub.topics) >= MAX_TOPICS THEN pubsub
    ELSE [pubsub EXCEPT !.topics = Append(@, [topicName |-> name, subscribers |-> << >>, messageCount |-> 0])]

pubsub_create_topic(name) == pubsub' = WithTopic(name) /\ UNCHANGED joined

\* Subscribing again, or to a topic without room, changes no subscriber.
pubsub_subscribe(id, name) ==
    LET ps == WithTopic(name)
    IN  \/ /\ TopicAt(ps, name) = {}
           /\ UNCHANGED pubsubVars
        \/ \E t \in TopicAt(ps, name) :
              LET topic == ps.topics[t]
                  known == \E i \in DOMAIN topic.subscribers : topic.subscribers[i].subscriberId = id
              IN  IF known \/ Len(topic.subscribers) >= MAX_SUBSCRIBERS_PER_TOPIC
                  THEN pubsub' = ps /\ UNCHANGED joined
                  ELSE /\ pubsub' = [ps EXCEPT !.topics[t].subscribers =
                                        Append(@, [subscriberId |-> id, messagesReceived |-> 0])]
                       /\ joined' = joined @@ (<<name, id>> :> topic.messageCount)

Delivered(subscribers) == [i \in DOMAIN subscribers |-> [subscribers[i] EXCEPT !.messagesReceived = @ + 1]]

\* A message of a topic that does not exist is dropped.
pubsub_publish(name) ==
    /\ \E t \in pubsub_find_topic(name) :
          LET id == pubsub.totalMessagesPublished + 1
          IN  pubsub' = [pubsub EXCEPT
                !.totalMessagesPublished = id,
                !.topics[t].messageCount = @ + 1,
                !.messageHistory = IF Len(@) < MAX_MESSAGES_HISTORY
                                   THEN Append(@, [messageId |-> id, topicName |-> name]) ELSE @,
                !.topics[t].subscribers = Delivered(@),
                !.totalMessagesFanned = @ + Len(pubsub.topics[t].subscribers)]
    /\ UNCHANGED joined

PubSubNext ==
    \/ \E name \in TopicNames : pubsub_create_topic(name)
    \/ \E name \in TopicNames, id \in SubscriberIds : pubsub_subscribe(id, name)
    \/ pubsub.totalMessagesPublished < MAX_PUBLISHED /\ \E name \in TopicNames : pubsub_publish(name)

PubSubSpec == PubSubInit /\ [][PubSubNext]_pubsubVars

\* A subscriber got every message of its topic since it subscribed and no other,
\* however often it subscribed; what was fanned out is what all of them got;
\* and the history holds the first messages, numbered without a gap.
\* pubsub_subscribe and pubsub_publish, 06_PubSub.c:144-232.
SubscribersHearAll ==
    /\ \A t \in DOMAIN pubsub.topics : LET topic == pubsub.topics[t] IN
          \A i \in DOMAIN topic.subscribers : LET s == topic.subscribers[i] IN
             /\ s.messagesReceived = topic.messageCount - joined[<<topic.topicName, s.subscriberId>>]
             /\ \A j \in DOMAIN topic.subscribers : topic.subscribers[j].subscriberId = s.subscriberId => i = j
    /\ pubsub.totalMessagesFanned =
          FoldLeft(LAMBDA sum, topic : FoldLeft(LAMBDA n, s : n + s.messagesReceived, sum, topic.subscribers),
                   0, pubsub.topics)
    /\ pubsub.totalMessagesPublished = FoldLeft(LAMBDA sum, topic : sum + topic.messageCount, 0, pubsub.topics)
    /\ \A i \in DOMAIN pubsub.messageHistory : pubsub.messageHistory[i].messageId = i
    /\ \A t \in DOMAIN pubsub.topics :
          Cardinality({i \in DOMAIN pubsub.messageHistory :
                         pubsub.messageHistory[i].topicName = pubsub.topics[t].topicName})
             <= pubsub.topics[t].messageCount

-----------------------------------------------------------------------------
(***************************************************************************)
(* Services that call one another through circuit breakers,                *)
(* 08_Microservices.c.  Whether a call succeeds is chance.  DEGRADED and   *)
(* circuitBreakerFailures are never used, and no circuit ever closes.      *)
(***************************************************************************)

CONSTANTS
    ServiceIds,
    MAX_SERVICES, MAX_DEPENDENCIES,
    CIRCUIT_FAILURES,   \* failures of a service before its circuit opens
    MAX_CALLS           \* bound: calls

VARIABLE ms   \* MicroservicesArchitecture

msVars == <<ms>>

ms_create ==
    [services |-> << >>, dependencies |-> << >>, totalRequests |-> 0, totalFailures |-> 0, circuitBreakerTrips |-> 0]

MsInit == ms = ms_create

ms_find_service(id) ==
    LET found == {i \in DOMAIN ms.services : ms.services[i].serviceId = id}
    IN  IF found = {} THEN 0 ELSE CHOOSE i \in found : \A j \in found : i <= j

ms_register_service(id) ==
    /\ Len(ms.services) < MAX_SERVICES
    /\ ms' = [ms EXCEPT !.services = Append(@,
                [serviceId |-> id, status |-> "HEALTHY", requestsSuccess |-> 0, requestsFailed |-> 0])]

ms_add_dependency(from, to) ==
    /\ Len(ms.dependencies) < MAX_DEPENDENCIES
    /\ ms' = [ms EXCEPT !.dependencies = Append(@,
                [fromServiceId |-> from, toServiceId |-> to, callCount |-> 0, failureCount |-> 0])]

\* The dependencies after a call, those that are there twice counted twice.
Counted(from, to, fails) ==
    [i \in DOMAIN ms.dependencies |-> LET d == ms.dependencies[i] IN
        IF d.fromServiceId = from /\ d.toServiceId = to
        THEN [d EXCEPT !.callCount = @ + 1, !.failureCount = @ + fails] ELSE d]

CallSucceeds(from, to) ==
    LET f == ms_find_service(from)  t == ms_find_service(to)
        once == [ms.services EXCEPT ![f].requestsSuccess = @ + 1]
    IN  ms' = [ms EXCEPT !.totalRequests = @ + 1,
                         !.services = [once EXCEPT ![t].requestsSuccess = @ + 1],
                         !.dependencies = Counted(from, to, 0)]

CallFails(from, to) ==
    LET f == ms_find_service(from)  t == ms_find_service(to)
        once  == [ms.services EXCEPT ![f].requestsFailed = @ + 1]
        both  == [once EXCEPT ![t].requestsFailed = @ + 1]
        opens == both[t].requestsFailed > CIRCUIT_FAILURES
    IN  ms' = [ms EXCEPT !.totalRequests = @ + 1,
                         !.totalFailures = @ + 1,
                         !.services = IF opens THEN [both EXCEPT ![t].status = "CIRCUIT_OPEN"] ELSE both,
                         !.circuitBreakerTrips = IF opens THEN @ + 1 ELSE @,
                         !.dependencies = Counted(from, to, 1)]

CallRefused == ms' = [ms EXCEPT !.totalRequests = @ + 1, !.circuitBreakerTrips = @ + 1]

ms_call_service(from, to) ==
    /\ ms_find_service(from) # 0 /\ ms_find_service(to) # 0
    /\ IF ms.services[ms_find_service(to)].status = "CIRCUIT_OPEN" THEN CallRefused
       ELSE CallSucceeds(from, to) \/ CallFails(from, to)

MsNext ==
    \/ \E id \in ServiceIds : ms_register_service(id)
    \/ \E from, to \in ServiceIds : ms_add_dependency(from, to)
    \/ ms.totalRequests < MAX_CALLS /\ \E from, to \in ServiceIds : ms_call_service(from, to)

MsSpec == MsInit /\ [][MsNext]_msVars

OpenCircuits == {i \in DOMAIN ms.services : ms.services[i].status = "CIRCUIT_OPEN"}

\* Every call is answered, failed or refused, and counted as that once on either
\* side; a circuit is open only after more failures than are allowed; and no
\* dependency failed more often than it was called.  ms_call_service,
\* 08_Microservices.c:134-181.
CallsAreAccounted ==
    LET successes == FoldLeft(LAMBDA n, s : n + s.requestsSuccess, 0, ms.services)
        failures  == FoldLeft(LAMBDA n, s : n + s.requestsFailed, 0, ms.services)
        refused   == ms.circuitBreakerTrips - Cardinality(OpenCircuits)
    IN  /\ failures = 2 * ms.totalFailures
        /\ 2 * (ms.totalRequests - ms.totalFailures - refused) = successes
        /\ \A i \in OpenCircuits : ms.services[i].requestsFailed > CIRCUIT_FAILURES
        /\ \A i \in DOMAIN ms.dependencies :
              ms.dependencies[i].failureCount <= ms.dependencies[i].callCount

-----------------------------------------------------------------------------
(***************************************************************************)
(* The name server, 11_DNS.c: records, and a cache whose entries are taken *)
(* for TTL.  An entry that expired stays where it is, and the next one of  *)
(* that domain is put behind it.  dns_hierarchical_lookup is a lookup of   *)
(* domains with a dot.                                                     *)
(***************************************************************************)

CONSTANTS
    Domains, IpAddresses, NoAddress,
    TTL, MAX_RECORDS, MAX_CACHED,
    MAX_TIME, MAX_LOOKUPS    \* bounds: the clock, lookups

VARIABLES
    dns,          \* DNSServer
    dns_clock,
    resolved      \* auxiliary: the last lookup's domain and answer, and when it was

dnsVars == <<dns, dns_clock, resolved>>

dns_create == [records |-> << >>, cache |-> << >>, lookups |-> 0, cacheHits |-> 0, cacheMisses |-> 0]

DnsInit == dns = dns_create /\ dns_clock = 0 /\ resolved = << >>

dns_add_record(domain, ip) ==
    /\ Len(dns.records) < MAX_RECORDS
    /\ dns' = [dns EXCEPT !.records = Append(@, [domain |-> domain, ipAddress |-> ip])]
    /\ resolved' = << >>
    /\ UNCHANGED dns_clock

FirstOf(entries, Good(_)) == {i \in DOMAIN entries : Good(entries[i]) /\ \A j \in 1 .. i - 1 : ~ Good(entries[j])}

Unexpired(domain) == FirstOf(dns.cache, LAMBDA e : e.domain = domain /\ dns_clock - e.cachedAt < TTL)

OnRecord(domain) == FirstOf(dns.records, LAMBDA r : r.domain = domain)

CacheHit(domain) ==
    \E i \in Unexpired(domain) :
       /\ dns' = [dns EXCEPT !.lookups = @ + 1, !.cacheHits = @ + 1]
       /\ resolved' = <<domain, dns.cache[i].ipAddress>>

CacheMiss(domain) ==
    /\ Unexpired(domain) = {}
    /\ LET ip == {dns.records[i].ipAddress : i \in OnRecord(domain)}
           entry(a) == [domain |-> domain, ipAddress |-> a, cachedAt |-> dns_clock]
       IN  /\ resolved' = <<domain, IF ip = {} THEN NoAddress ELSE CHOOSE a \in ip : TRUE>>
           /\ dns' = [dns EXCEPT !.lookups = @ + 1, !.cacheMisses = @ + 1,
                        !.cache = IF ip # {} /\ Len(@) < MAX_CACHED
                                  THEN Append(@, entry(CHOOSE a \in ip : TRUE)) ELSE @]

dns_lookup(domain) == (CacheHit(domain) \/ CacheMiss(domain)) /\ UNCHANGED dns_clock

DnsTick ==
    /\ dns_clock < MAX_TIME
    /\ dns_clock' = dns_clock + 1 /\ resolved' = << >>
    /\ UNCHANGED dns

DnsNext ==
    \/ \E d \in Domains, ip \in IpAddresses : dns_add_record(d, ip)
    \/ dns.lookups < MAX_LOOKUPS /\ \E d \in Domains : dns_lookup(d)
    \/ DnsTick

DnsSpec == DnsInit /\ [][DnsNext]_dnsVars

\* Whether it comes from the cache or not, an answer is the first address on
\* record; of a domain at most one entry has not expired; entries are cached in
\* the order of time; and lookups are hits or misses.  dns_lookup,
\* 11_DNS.c:87-130.
NamesResolve ==
    /\ resolved # << >> =>
          resolved[2] = IF OnRecord(resolved[1]) = {} THEN NoAddress
                        ELSE dns.records[CHOOSE i \in OnRecord(resolved[1]) : TRUE].ipAddress
    /\ \A i, j \in DOMAIN dns.cache :
          i < j /\ dns.cache[i].domain = dns.cache[j].domain =>
             dns.cache[j].cachedAt - dns.cache[i].cachedAt >= TTL
    /\ \A i, j \in DOMAIN dns.cache : i < j => dns.cache[i].cachedAt <= dns.cache[j].cachedAt
    /\ dns.cacheHits + dns.cacheMisses = dns.lookups

-----------------------------------------------------------------------------
(***************************************************************************)
(* The content delivery network, 10_CDN.c: each edge keeps what was asked  *)
(* of it until it is full.  Distances are those of a constant function;    *)
(* the sizes of contents are left out.  An edge that is full counts an     *)
(* eviction and evicts nothing.                                            *)
(***************************************************************************)

CONSTANTS
    EdgeIds, Places, Urls,
    EdgeDistance,            \* [Places \X EdgeIds -> Nat]
    MAX_EDGE_SERVERS, MAX_CONTENTS,
    MAX_GETS                 \* bound: requests

VARIABLE cdn

cdnVars == <<cdn>>

cdn_create == [edges |-> << >>, cache |-> << >>, totalRequests |-> 0, totalHits |-> 0]

CdnInit == cdn = cdn_create

cdn_add_edge(id) ==
    /\ Len(cdn.edges) < MAX_EDGE_SERVERS
    /\ cdn' = [cdn EXCEPT !.edges = Append(@, [edgeId |-> id, hits |-> 0, misses |-> 0, evictions |-> 0]),
                          !.cache = Append(@, << >>)]

calculate_distance(place, i) == EdgeDistance[place, cdn.edges[i].edgeId]

cdn_find_nearest_edge(place) ==
    CHOOSE i \in DOMAIN cdn.edges : \A j \in DOMAIN cdn.edges :
        LET d == calculate_distance(place, i)  e == calculate_distance(place, j)
        IN  d < e \/ (d = e /\ i <= j)

ContentHit(i, url) ==
    /\ \E k \in DOMAIN cdn.cache[i] : cdn.cache[i][k] = url
    /\ cdn' = [cdn EXCEPT !.totalRequests = @ + 1, !.totalHits = @ + 1, !.edges[i].hits = @ + 1]

ContentMiss(i, url) ==
    /\ \A k \in DOMAIN cdn.cache[i] : cdn.cache[i][k] # url
    /\ LET full == Len(cdn.cache[i]) >= MAX_CONTENTS
       IN  cdn' = [cdn EXCEPT !.totalRequests = @ + 1,
                              !.edges[i].misses = @ + 1,
                              !.edges[i].evictions = IF full THEN @ + 1 ELSE @,
                              !.cache[i] = IF full THEN @ ELSE Append(@, url)]

\* Without an edge there is nothing to ask; no caller does.
cdn_get_content(url, place) ==
    /\ cdn.edges # << >>
    /\ LET i == cdn_find_nearest_edge(place) IN ContentHit(i, url) \/ ContentMiss(i, url)

CdnNext ==
    \/ \E id \in EdgeIds : cdn_add_edge(id)
    \/ cdn.totalRequests < MAX_GETS /\ \E url \in Urls, p \in Places : cdn_get_content(url, p)

CdnSpec == CdnInit /\ [][CdnNext]_cdnVars

\* An edge fetched once what it has, and what it did not keep it counted;
\* only a full edge does not keep; and requests are hits or misses of one edge.  cdn_get_content, 10_CDN.c:135-174.
EdgesKeepWhatTheyFetch ==
    /\ \A i \in DOMAIN cdn.edges :
          /\ \A k, l \in DOMAIN cdn.cache[i] : cdn.cache[i][k] = cdn.cache[i][l] => k = l
          /\ cdn.edges[i].misses - cdn.edges[i].evictions = Len(cdn.cache[i])
          /\ cdn.edges[i].evictions > 0 => Len(cdn.cache[i]) = MAX_CONTENTS
    /\ cdn.totalHits = FoldLeft(LAMBDA n, e : n + e.hits, 0, cdn.edges)
    /\ cdn.totalRequests = FoldLeft(LAMBDA n, e : n + e.hits + e.misses, 0, cdn.edges)

-----------------------------------------------------------------------------
(***************************************************************************)
(* Client and server, 01_ClientServer.c: requests wait in a ring and are   *)
(* processed in one go.  Requests are numbered as they are accepted; their *)
(* text and the times are left out.  Array index i of the code is position *)
(* i + 1 here, in this part and the next two.                              *)
(***************************************************************************)

CONSTANTS
    ClientIds,
    REQUEST_QUEUE_SIZE, MAX_CLIENTS,
    MAX_HANDLED      \* bound: requests

VARIABLES
    cs,         \* Server, with its RequestQueue
    handled     \* auxiliary: the requests in the order they were processed

csVars == <<cs, handled>>

NoRequest == [clientId |-> 0, number |-> 0]

queue_create ==
    [requests |-> [i \in 1 .. REQUEST_QUEUE_SIZE |-> NoRequest], front |-> 0, rear |-> -1, size |-> 0]

server_create == [queue |-> queue_create, connections |-> << >>, totalRequestsProcessed |-> 0]

CsInit == cs = server_create /\ handled = << >>

queue_enqueue(q, req) ==
    LET rear == (q.rear + 1) % REQUEST_QUEUE_SIZE
    IN  [q EXCEPT !.rear = rear, !.requests[rear + 1] = req, !.size = @ + 1]

\* The requests from the front on.
Queued(q) == [i \in 1 .. q.size |-> q.requests[((q.front + i - 1) % REQUEST_QUEUE_SIZE) + 1]]

Accepted == Len(handled) + cs.queue.size

queue_dequeue_all(q) == [q EXCEPT !.front = (@ + q.size) % REQUEST_QUEUE_SIZE, !.size = 0]

server_accept_connection(c) ==
    /\ Len(cs.connections) < MAX_CLIENTS
    /\ cs' = [cs EXCEPT !.connections = Append(@, [clientId |-> c, requestCount |-> 0])]
    /\ UNCHANGED handled

\* Whoever sends it need not have a connection; a full queue refuses it.
server_handle_request(c) ==
    /\ cs.queue.size < REQUEST_QUEUE_SIZE
    /\ cs' = [cs EXCEPT !.queue = queue_enqueue(@, [clientId |-> c, number |-> Accepted + 1])]
    /\ UNCHANGED handled

\* A request counts for the first connection of its client.
CountedFor(connections, req) ==
    [i \in DOMAIN connections |->
        IF connections[i].clientId = req.clientId /\ \A j \in 1 .. i - 1 : connections[j].clientId # req.clientId
        THEN [connections[i] EXCEPT !.requestCount = @ + 1] ELSE connections[i]]

server_process_requests ==
    /\ cs.queue.size > 0
    /\ cs' = [cs EXCEPT !.queue = queue_dequeue_all(@),
                        !.totalRequestsProcessed = @ + cs.queue.size,
                        !.connections = FoldLeft(CountedFor, @, Queued(cs.queue))]
    /\ handled' = handled \o Queued(cs.queue)

CsNext ==
    \/ \E c \in ClientIds : server_accept_connection(c)
    \/ Accepted < MAX_HANDLED /\ \E c \in ClientIds : server_handle_request(c)
    \/ server_process_requests

CsSpec == CsInit /\ [][CsNext]_csVars

\* Requests are processed in the order in which they were accepted, each once
\* and none lost where the ring wraps around; and no connection counts a request
\* of another client.  01_ClientServer.c:103-221.
ServedInOrder ==
    /\ LET all == handled \o Queued(cs.queue)
       IN  \A i \in DOMAIN all : all[i].number = i
    /\ cs.totalRequestsProcessed = Len(handled)
    /\ cs.queue.size > 0 => (cs.queue.rear - cs.queue.front + 1 - cs.queue.size) % REQUEST_QUEUE_SIZE = 0
    /\ \A i \in DOMAIN cs.connections :
          cs.connections[i].requestCount <=
             Cardinality({k \in DOMAIN handled : handled[k].clientId = cs.connections[i].clientId})

-----------------------------------------------------------------------------
(***************************************************************************)
(* The router, 02_RestAPI.c: routes tried in the order of their            *)
(* registration, and a cache of what GET requests were answered.  A path   *)
(* is the sequence of its segments.  The routes are split while the paths  *)
(* are: strtok keeps one place for both, so all but the first segment of   *)
(* the route is taken from the path.  A body is the handler that wrote it  *)
(* and the parameter it printed, which some handlers look for behind those *)
(* that were parsed: then it is whatever the array holds.                  *)
(***************************************************************************)

CONSTANTS
    RouteTable,    \* what is registered: [path, method, handler]
    Handlers,      \* a function: [status, reads], the place of the parameter it prints or 0
    RequestPaths,
    Parameter,     \* a segment that starts with a colon
    UnsetParams,         \* what an element that was never set may hold
    Methods, MAX_ROUTES, MAX_CACHED_RESPONSES,
    MAX_SECONDS, MAX_DISPATCHED    \* bounds: the clock, requests

VARIABLES
    router,          \* Router
    router_clock,
    response         \* of the last request: with the request and whether it came from the cache

routerVars == <<router, router_clock, response>>

router_create == [routes |-> << >>, cache |-> << >>, totalRequests |-> 0, cacheHits |-> 0]

NoResponse == [statusCode |-> 0]

RouterInit == router = router_create /\ router_clock = 0 /\ response = NoResponse

router_register(route) ==
    /\ Len(router.routes) < MAX_ROUTES
    /\ router' = [router EXCEPT !.routes = Append(@, route)]
    /\ response' = NoResponse
    /\ UNCHANGED router_clock

\* The pairs of segments that the loops over routeToken and actualToken compare.
TokenPairs(routePath, actualPath) ==
    IF routePath = << >> \/ actualPath = << >> THEN << >>
    ELSE [k \in 1 .. (Len(actualPath) + 1) \div 2 |->
             IF k = 1 THEN <<Head(routePath), Head(actualPath)>>
             ELSE <<actualPath[2 * k - 2], actualPath[2 * k - 1]>>]

\* The last token of a path of even length is taken for one more of the route.
match_route(routePath, actualPath) ==
    /\ \A pair \in ToSet(TokenPairs(routePath, actualPath)) : pair[1] \in {Parameter, pair[2]}
    /\ IF actualPath = << >> THEN routePath = << >> ELSE routePath # << >> /\ Len(actualPath) % 2 = 1

parse_url_params(routePath, actualPath) ==
    LET taken == SelectSeq(TokenPairs(routePath, actualPath), LAMBDA pair : pair[1] = Parameter)
    IN  [i \in DOMAIN taken |-> taken[i][2]]

\* The first route that fits, or none.
RoutesOf(method, path) ==
    LET fits(i) == router.routes[i].method = method /\ match_route(router.routes[i].path, path)
    IN  {i \in DOMAIN router.routes : fits(i) /\ \A j \in 1 .. i - 1 : ~ fits(j)}

\* What the handler of route i may write.
HandlerBodies(i, path) ==
    LET handler == router.routes[i].handler
        params  == parse_url_params(router.routes[i].path, path)
        reads   == Handlers[handler].reads
    IN  {<<handler, p>> : p \in IF reads = 0 THEN {""}
                                ELSE IF reads \in DOMAIN params THEN {params[reads]} ELSE UnsetParams}

CachedAt(path) == {i \in DOMAIN router.cache : router.cache[i].key = path}

\* The entry used longest ago goes, the first of those; the last takes its place.
WithoutLRU(cache) ==
    LET lru == CHOOSE i \in DOMAIN cache : \A j \in DOMAIN cache :
                  cache[i].timestamp < cache[j].timestamp
                  \/ (cache[i].timestamp = cache[j].timestamp /\ i <= j)
    IN  Front([cache EXCEPT ![lru] = Last(cache)])

cache_put(path, body) ==
    LET room == IF Len(router.cache) >= MAX_CACHED_RESPONSES THEN WithoutLRU(router.cache) ELSE router.cache
    IN  Append(room, [key |-> path, value |-> body, timestamp |-> router_clock])

FromCache(path) ==
    \E i \in CachedAt(path) :
       /\ router' = [router EXCEPT !.totalRequests = @ + 1, !.cacheHits = @ + 1,
                                   !.cache[i].timestamp = router_clock]
       /\ response' = [method |-> "GET", path |-> path, statusCode |-> 200,
                       body |-> router.cache[i].value, cached |-> TRUE]

FromHandler(method, path) ==
    \E i \in RoutesOf(method, path) : \E body \in HandlerBodies(i, path) :
       /\ router' = [router EXCEPT !.totalRequests = @ + 1,
                        !.cache = IF method = "GET" THEN cache_put(path, body) ELSE @]
       /\ response' = [method |-> method, path |-> path, body |-> body, cached |-> FALSE,
                       statusCode |-> Handlers[router.routes[i].handler].status]

NotFoundHere(method, path) ==
    /\ RoutesOf(method, path) = {}
    /\ router' = [router EXCEPT !.totalRequests = @ + 1]
    /\ response' = [method |-> method, path |-> path, statusCode |-> 404, body |-> << >>, cached |-> FALSE]

router_dispatch(method, path) ==
    /\ IF method = "GET" /\ CachedAt(path) # {} THEN FromCache(path)
       ELSE FromHandler(method, path) \/ NotFoundHere(method, path)
    /\ UNCHANGED router_clock

RouterTick ==
    /\ router_clock < MAX_SECONDS
    /\ router_clock' = router_clock + 1 /\ response' = NoResponse
    /\ UNCHANGED router

RouterNext ==
    \/ \E route \in RouteTable : router_register(route)
    \/ router.totalRequests < MAX_DISPATCHED /\ \E method \in Methods, path \in RequestPaths :
          router_dispatch(method, path)
    \/ RouterTick

RouterSpec == RouterInit /\ [][RouterNext]_routerVars

\* An answer is that of the first route that fits, whether it comes from the cache
\* or not and whatever was registered since, and the cache tells it with the status
\* of its handler; a path is cached once, within the limit; and what was evicted was
\* used no later than what stayed: the last answer that could be cached is.
\* router_dispatch and cache_put, 02_RestAPI.c:211-348.
CacheIsTransparent ==
    /\ response # NoResponse =>
          LET fit == RoutesOf(response.method, response.path)
          IN  IF fit = {} THEN response.statusCode = 404 /\ ~ response.cached
              ELSE \E i \in fit :
                      /\ response.statusCode = Handlers[router.routes[i].handler].status
                      /\ response.body \in HandlerBodies(i, response.path)
    /\ response # NoResponse /\ response.method = "GET" /\ response.statusCode = 200 =>
          \E i \in CachedAt(response.path) :
             /\ router.cache[i].value = response.body
             /\ \A j \in DOMAIN router.cache : router.cache[j].timestamp <= router.cache[i].timestamp
    /\ \A i, j \in DOMAIN router.cache : router.cache[i].key = router.cache[j].key => i = j
    /\ Len(router.cache) <= MAX_CACHED_RESPONSES
    /\ router.cacheHits + Len(router.cache) <= router.totalRequests

-----------------------------------------------------------------------------
(***************************************************************************)
(* Connections that stay open, 03_WebSocket.c: a ring of messages to send  *)
(* and one of messages received for each, and topics.  Messages are        *)
(* numbered as they are sent; payloads and times are left out.  No         *)
(* connection is ever closed, and nothing takes a received message out.    *)
(***************************************************************************)

CONSTANTS
    SocketIds, SocketTopics,
    RING_BUFFER_SIZE, MAX_SOCKETS, MAX_SOCKET_TOPICS, MAX_SUBSCRIBERS,
    MAX_SENT      \* bound: messages

VARIABLES
    ws,        \* WSServer
    sequence,  \* auxiliary: how many messages there were
    heard   \* auxiliary: what each connection was sent by the event loop

wsVars == <<ws, sequence, heard>>

ring_buffer_create ==
    [messages |-> [i \in 1 .. RING_BUFFER_SIZE |-> 0], writeIdx |-> 0, readIdx |-> 0, count |-> 0]

ring_buffer_full(rb) == rb.count >= RING_BUFFER_SIZE

ring_buffer_enqueue(rb, msg) ==
    IF ring_buffer_full(rb) THEN rb
    ELSE [rb EXCEPT !.messages[rb.writeIdx + 1] = msg,
                    !.writeIdx = (@ + 1) % RING_BUFFER_SIZE,
                    !.count = @ + 1]

RingContents(rb) == [i \in 1 .. rb.count |-> rb.messages[((rb.readIdx + i - 1) % RING_BUFFER_SIZE) + 1]]

ring_buffer_drained(rb) == [rb EXCEPT !.readIdx = (@ + rb.count) % RING_BUFFER_SIZE, !.count = 0]

wsserver_create == [connections |-> << >>, topics |-> << >>, totalMessagesProcessed |-> 0]

WsInit == ws = wsserver_create /\ sequence = 0 /\ heard = << >>

wsserver_accept_connection(c) ==
    /\ Len(ws.connections) < MAX_SOCKETS
    /\ ws' = [ws EXCEPT !.connections = Append(@,
                [clientId |-> c, sendBuffer |-> ring_buffer_create, receiveBuffer |-> ring_buffer_create,
                 messagesReceived |-> 0, messagesSent |-> 0])]
    /\ heard' = Append(heard, << >>)
    /\ UNCHANGED sequence

SocketsOf(c) ==
    {i \in DOMAIN ws.connections : ws.connections[i].clientId = c
                                   /\ \A j \in 1 .. i - 1 : ws.connections[j].clientId # c}

wsserver_send_message(c) ==
    /\ \E i \in SocketsOf(c) :
          /\ ~ ring_buffer_full(ws.connections[i].receiveBuffer)
          /\ ws' = [ws EXCEPT !.connections[i].receiveBuffer = ring_buffer_enqueue(@, sequence + 1),
                              !.connections[i].messagesReceived = @ + 1]
    /\ sequence' = sequence + 1
    /\ UNCHANGED heard

\* A connection whose ring is full misses it and does not count it.
wsserver_broadcast ==
    /\ ws.connections # << >>
    /\ ws' = [ws EXCEPT !.connections = [i \in DOMAIN @ |->
                IF ring_buffer_full(@[i].sendBuffer) THEN @[i]
                ELSE [@[i] EXCEPT !.sendBuffer = ring_buffer_enqueue(@, sequence + 1),
                                  !.messagesSent = @ + 1]]]
    /\ sequence' = sequence + 1
    /\ UNCHANGED heard

TopicsNamed(name) == {t \in DOMAIN ws.topics : ws.topics[t].topicName = name}

\* Nothing keeps a client from subscribing twice.
wsserver_subscribe(c, name) ==
    LET topics == IF TopicsNamed(name) = {}
                  THEN Append(ws.topics, [topicName |-> name, subscribers |-> << >>, messageCount |-> 0])
                  ELSE ws.topics
    IN  /\ Len(topics) <= MAX_SOCKET_TOPICS
        /\ \E t \in DOMAIN topics :
              /\ topics[t].topicName = name /\ Len(topics[t].subscribers) < MAX_SUBSCRIBERS
              /\ ws' = [ws EXCEPT !.topics = [topics EXCEPT ![t].subscribers = Append(@, c)]]
        /\ UNCHANGED <<sequence, heard>>

\* One subscription's copy: counted as sent even when the ring is full.
Sent(connections, c) ==
    [i \in DOMAIN connections |->
        IF i \in SocketsOf(c)
        THEN [connections[i] EXCEPT !.sendBuffer = ring_buffer_enqueue(@, sequence + 1), !.messagesSent = @ + 1]
        ELSE connections[i]]

wsserver_publish(name) ==
    /\ \E t \in TopicsNamed(name) :
          ws' = [ws EXCEPT !.connections = FoldLeft(Sent, @, ws.topics[t].subscribers),
                           !.topics[t].messageCount = @ + 1]
    /\ sequence' = sequence + 1
    /\ UNCHANGED heard

wsserver_event_loop ==
    /\ ws' = [ws EXCEPT
                !.connections = [i \in DOMAIN @ |-> [@[i] EXCEPT !.sendBuffer = ring_buffer_drained(@)]],
                !.totalMessagesProcessed = FoldLeft(LAMBDA n, c : n + c.sendBuffer.count, @, ws.connections)]
    /\ heard' = [i \in DOMAIN heard |-> heard[i] \o RingContents(ws.connections[i].sendBuffer)]
    /\ UNCHANGED sequence

WsNext ==
    \/ \E c \in SocketIds : wsserver_accept_connection(c)
    \/ \E c \in SocketIds, name \in SocketTopics : wsserver_subscribe(c, name)
    \/ /\ sequence < MAX_SENT
       /\ \/ \E c \in SocketIds : wsserver_send_message(c)
          \/ wsserver_broadcast
          \/ \E name \in SocketTopics : wsserver_publish(name)
    \/ wsserver_event_loop

WsSpec == WsInit /\ [][WsNext]_wsVars

\* Every connection gets its messages in the order they were sent; what waits or
\* was heard was counted as sent; and the loop counts each message it delivers.  03_WebSocket.c:124-347.
SocketsKeepOrder ==
    /\ \A i \in DOMAIN ws.connections :
          LET c   == ws.connections[i]
              got == heard[i] \o RingContents(c.sendBuffer)
          IN  /\ \A k, l \in DOMAIN got : k < l => got[k] <= got[l]
              /\ Len(got) <= c.messagesSent
              /\ c.messagesReceived = c.receiveBuffer.count
              /\ (c.sendBuffer.writeIdx - c.sendBuffer.readIdx - c.sendBuffer.count) % RING_BUFFER_SIZE = 0
    /\ ws.totalMessagesProcessed = FoldLeft(LAMBDA n, s : n + Len(s), 0, heard)
=============================================================================
