CONSTANTS
    MAX_LOG_ENTRIES = 4
    MAX_TXN_OPERATIONS = 2
    MAX_ACTIVE_TXN = 2
    MAX_CHECKPOINTS = 1
    MAX_TXN = 2
SPECIFICATION RecSpec
INVARIANT UndoesUncommittedOnly
