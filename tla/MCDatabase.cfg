CONSTANTS
    Clients = {c1, c2}
    pool_size = 2
    PAGE_TABLE_SIZE = 3
    MAX_PAGES = 3
    Values = {0, 1}
    Zero = 0
    NoPage = NoPage
    Dangling = Dangling
    NoFrame = NoFrame
    NoHandle = NoHandle
    RecordIds = {a1, a2, a3}
    MAX_RECORDS = 2
    MAX_VERSIONS = 2
    MAX_TXN = 2
    MAX_VERSION_ID = 3
    k1 = k1
    k2 = k2
    k3 = k3
    v1 = v1
    v2 = v2
    StoreKeys = {k1, k2, k3}
    StoreValues = {v1, v2}
    HASH_TABLE_SIZE = 2
    Hash <- TwoChains
    NULL = NULL
    SERIALIZER_MAGIC = KVBD
    SERIALIZER_VERSION = Version
    IndexKeys = {1, 2, 3, 4, 5, 6, 7, 8}
    BTREE_ORDER = 4
    Inputs <- LexerInputs
    Keywords <- SomeKeywords
    Letters = {"o", "O", "r", "a", "b"}
    Digits = {"0", "1", "2"}
    upper_case <- Capital
    MAX_TOKEN_LENGTH = 4
    MAX_TOKENS = 4
    Statements <- SqlStatements
    Texts <- SqlTexts
    LIST_SIZE = 2
    atoi <- SomeNumbers
SPECIFICATION Spec
INVARIANTS
    PinsProtectPages
    ReadReturnsNewest
    IndexIsExact
    WritingIsTakenBack
PROPERTIES
    ImplementsPageStore
    WritersKeepTheirVersions
    ImplementsKeyValueStore
SYMMETRY Symmetry
CHECK_DEADLOCK FALSE
