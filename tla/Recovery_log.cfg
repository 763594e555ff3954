CONSTANTS
    MAX_LOG_ENTRIES = 5
    MAX_TXN_OPERATIONS = 1
    MAX_ACTIVE_TXN = 1
    MAX_CHECKPOINTS = 2
    MAX_TXN = 2
SPECIFICATION RecSpec
INVARIANTS
    FlushedIsPrefix
    CommittedIsDurable
    LogTellsTheStory
    ReplayIsOrdered
PROPERTIES
    ImplementsDurableLog

