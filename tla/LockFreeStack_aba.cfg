CONSTANTS
    StackThreads = {t1, t2}
    Poppers = {t1, t2}
    Nodes = {a1, a2}
    NullNode = NullNode
    Items = {1, 2, 3}
SPECIFICATION StackSpec
INVARIANT PoppedOnce
CHECK_DEADLOCK FALSE
