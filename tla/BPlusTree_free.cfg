CONSTANTS
    IndexKeys = {1, 2, 3, 4, 5, 6, 7, 8}
    BTREE_ORDER = 4
SPECIFICATION BTreeSpec
INVARIANT FreedOnce
CHECK_DEADLOCK FALSE
