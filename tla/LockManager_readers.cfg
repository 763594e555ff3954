CONSTANTS
    Txns = {t1, t2, t3}
    Resources = {r1, r2}
    NoTxn = NoTxn
    MAX_LOCKS = 1
    MAX_LOCK_HOLDERS = 2
SPECIFICATION Spec
INVARIANTS
    HoldersConsistent
    AnswersStayTrue
PROPERTIES
    ImplementsLockTable
