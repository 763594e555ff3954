CONSTANTS
    RecordIds = {r1}
    MAX_RECORDS = 1
    MAX_VERSIONS = 2
    MAX_TXN = 2
    MAX_VERSION_ID = 2
SPECIFICATION MvccSpec
INVARIANT ReadSetsAreLive
