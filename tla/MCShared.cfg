CONSTANTS
    MapThreads = {a1, a2, a3}
    Keys = {k1, k2}
    MapValues = {v1, v2}
    Absent = Absent
    NoThread = NoThread
    MAX_CALLS = 1
    StackThreads = {t1, t2, t3}
    Poppers = {t1}
    Nodes = {a1, a2, a3}
    NullNode = NullNode
    Items = {1, 2, 3}
    HEAP_CAPACITY = 3
    MAX_REFS_PER_OBJ = 2
    MAX_GC_ROOTS = 2
    CacheKeys = {k1, k2}
    CacheValues = {v1, v2}
    MAX_NODES = 3
    MAX_CACHE_SIZE = 1
    HASH_MODULO = 4
    VNODES = 1
    MAX_SECONDS = 1
    Users = {a1, a2, a3}
    Clients = {a1, a2, a3}
    NoClient = NoClient
    initial_size = 1
    max_size = 3
    timeout = 1
    MAX_TIME = 4
    Borrowers = {a1, a2, a3}
    minimum_idle = 1
    maximum_pool_size = 2
    NUM_THREADS = 3
    INCREMENTS = 2
    Sharers = {1, 2, 3}
    WORK_UNITS = 2
    EDEN_OBJECTS = 2
    OLD_OBJECTS = 1
    MAX_GC_AGE = 2
    MAX_STACK_FRAMES = 2
    MAX_LOCALS = 2
    MAX_ALLOCATIONS = 4
    MAX_COLLECTIONS = 3
    MAX_STACK_SIZE = 3
    HEAP_OBJECTS = 2
    Arguments <- SomeArguments
    SERVER_CONNECTIONS = 3
    MAX_REQUESTS = 3
    Payloads <- SomePayloads
    HEADER_CELLS = 2
    BUFFER_CELLS = 4
    MAX_MESSAGES = 3
SPECIFICATION Spec
INVARIANTS
    MapIsRegular
    MachineIsExact
    ReadsAreCurrent
PROPERTIES
    ImplementsLifo
    ConnectionsAreLent
SYMMETRY Symmetry
CHECK_DEADLOCK FALSE
