SPECIFICATION Spec
CONSTANTS
    t1 = t1
    t2 = t2
    Tables <- MCTables
    Keys <- MCKeys
    MaxDdl = 3
INVARIANTS
    StableTablesComplete
    KeysBothWays
CHECK_DEADLOCK FALSE
