CONSTANTS
    k1 = k1
    k2 = k2
    k3 = k3
    v1 = v1
    v2 = v2
    TableKeys = {k1, k2, k3}
    TableValues = {v1, v2}
    HashTriples <- HashTriplesUsed
    NotFound = NotFound
    HASH_TABLE_SIZE = 3
    DEFAULT_INITIAL_CAPACITY = 1
    FILTER_BYTES = 2
    BYTE_BITS = 2
    MAX_CHAINED = 3
    TreeKeys = {1, 2, 3, 4, 5}
    TreeValues = {v1, v2}
    NULL_TREE = NULL_TREE
    Alphabet = {1, 2}
    TrieValues = {v1, v2}
    NoValue = NoValue
    MAX_LEN = 2
    ListItems = {1, 2}
    ARRAYLIST_DEFAULT_CAPACITY = 2
    MAX_ITEMS = 4
    NULL_NODE_PTR = NULL_NODE_PTR
    QueueItems = {1, 2, 3}
    CAPACITY = 3
    MAX_QUEUED = 4
    Brackets <- BracketPairs
    NODE_COUNT = 4
    Weights = {0, 1, 2, 5}
    INF = 1000
    Tasks <- SomeTasks
    MAX_SOLUTIONS = 5
    BOX = 2
    Messages = {1, 2, 3, 4}
    MAX_QUEUE_SIZE = 4
    MAX_DLQ_SIZE = 1
    maxRetries = 1
    NetworkMessages <- IsoMessages
    EQ = 61
    BLANK = 32
    MAX_LIFECYCLE_BEANS = 3
    MAX_DESTROYABLE = 2
    Phases = {0, 1}
    GRACE_PERIODS = 1
    MAX_RECEIVED = 2
    BeanNames = {k1, k2}
    MAX_BEANS = 3
    MAX_CREATED = 3
    MAX_ENTRIES = 2
    MAX_ALLOCATED = 3
    Interceptors = {"logging", "security", "cache", "transaction"}
    MAX_CHAIN_LEN = 4
    ClassPaths <- AutoClassPaths
    PropertySets <- AutoProperties
    UserBeans <- AutoUserBeans
    TaskKinds <- DayKinds
    MAX_TASKS = 4
    Hours = {2}
    Moments = {0, 40}
    quantum = 25
    context_switch_cost = 2
    MAX_SERVERS = 3
    VIRTUAL_NODES = 2
    RING_SIZE = 5
    RingHashes <- RingsUsed
    MAX_ROUTED = 3
    TopicNames = {"sports", "tech"}
    SubscriberIds = {1, 2}
    MAX_TOPICS = 2
    MAX_SUBSCRIBERS_PER_TOPIC = 2
    MAX_MESSAGES_HISTORY = 2
    MAX_PUBLISHED = 3
    ServiceIds = {1, 2}
    MAX_SERVICES = 2
    MAX_DEPENDENCIES = 2
    CIRCUIT_FAILURES = 1
    MAX_CALLS = 3
    Domains = {"a", "b"}
    IpAddresses = {1, 2}
    NoAddress = 0
    TTL = 2
    MAX_RECORDS = 2
    MAX_CACHED = 2
    MAX_TIME = 4
    MAX_LOOKUPS = 4
    EdgeIds = {1, 2}
    Places = {"home", "away"}
    Urls = {"u", "v"}
    EdgeDistance <- Distances
    MAX_EDGE_SERVERS = 2
    MAX_CONTENTS = 1
    MAX_GETS = 4
    ClientIds = {1, 2}
    REQUEST_QUEUE_SIZE = 2
    MAX_CLIENTS = 2
    MAX_HANDLED = 4
    RouteTable <- Routes
    Handlers <- RouteHandlers
    UnsetParams = {"?"}
    RequestPaths <- RequestedPaths
    Parameter = ":"
    Methods = {"GET", "DELETE"}
    MAX_ROUTES = 2
    MAX_CACHED_RESPONSES = 2
    MAX_SECONDS = 2
    MAX_DISPATCHED = 3
    SocketIds = {1, 2}
    SocketTopics = {"news", "chat"}
    RING_BUFFER_SIZE = 2
    MAX_SOCKETS = 2
    MAX_SOCKET_TOPICS = 1
    MAX_SUBSCRIBERS = 2
    MAX_SENT = 3
    MAX_MANAGED = 3
    MAX_TASK_IDS = 4
    Triggers = {"mood"}
    PracticeHours = {4, 20}
    MAX_EXPERIENCES = 2
    MAX_REVIEW_ITEMS = 1
    MAX_SKILLS = 1
    MAX_PATTERNS = 1
    WHOLE = 1200
    MAX_OCCURRENCES = 3
    MAX_LESSONS = 4
    MAX_DAYS = 2
    HumanTasks <- HumanTaskKinds
    WorkMinutes = {1440}
    RestMinutes = {60}
    SleepHours = {8}
    DayHours = {20}
    MAX_HUMAN_TASKS = 2
    MAX_EVENTS = 2
    MAX_DAY_NUMBER = 2
    ArgumentLists <- ArgLists
    DefaultProperties <- Defaults
    MAX_PROPS = 3
    Listeners <- EventListeners
    RunnerNames <- Runners
    Ports = {8080, 8888}
    TakenPorts = {8888}
    ThreadCounts <- Threads
    AcceptCounts = {1}
    MAX_SERVLETS = 1
    MAX_FILTERS = 1
    MAX_SERVED = 3
    MAX_CONFIGURED = 2
    MeterNames = {"users"}
    TagValues = {"GET"}
    Amounts = {1, 2}
    MAX_METERS = 2
    MAX_RECORDINGS = 2
    MAX_INDICATORS = 2
    MAX_METERED = 3
    MAX_SPANS = 7
    MAX_SPAN_TAGS = 3
    MAX_SPAN_EVENTS = 1
    MAX_TRACED = 4
    Fields <- TwoFields
    NoDefault = NoDefault
    BoundKeys <- SomeKeys
    BoundValues <- SomeValues
    KeyTexts <- Texts
    MAX_SOURCE_PROPS = 3
    WebRequests <- SomeRequests
    PathVariable = "{id}"
    LongSegments = {"longest"}
    ClassPath <- SomeClasses
    Packages <- SomePackages
    MAX_BEAN_DEFS = 5
    MAX_SCANS = 4
SPECIFICATION Spec
INVARIANTS
    LookupsAreExact
    SequencesAreKept
    AlgorithmsAreExact
    MessagesArrive
    ShutdownMirrorsStartup
    BeansAndProxiesNest
    ApplicationsStand
    DaysAreManaged
PROPERTY ImplementsBroker
CHECK_DEADLOCK FALSE
