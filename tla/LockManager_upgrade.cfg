CONSTANTS
    Txns = {t1, t2}
    Resources = {r1}
    NoTxn = NoTxn
    MAX_LOCKS = 1
    MAX_LOCK_HOLDERS = 2
SPECIFICATION Spec
INVARIANT WriterIsAlone
