SPECIFICATION Spec
CONSTANTS
    Threads = {t1, t2}
    NoThread = NoThread
    MaxTables = 1
    MaxBatch = 3
    MaxCalls = 4
    MaxKills = 2
INVARIANTS
    TypeOK
    InSync
    SuccessIsWholeBatch
CHECK_DEADLOCK FALSE
