CONSTANTS
    Workers = {w1, w2}
    Submitters = {s1, s2}
    Tasks = {a, b, c}
    NoTask = NoTask
    capacity = 1
SPECIFICATION FairSpec
INVARIANTS
    TaskIsInOnePlace
    ShutdownDrains
PROPERTIES
    EveryCallReturns
    ImplementsExecutor
