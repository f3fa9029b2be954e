SPECIFICATION Spec
CONSTANTS
    Threads = {t1, t2, t3}
    Names = {n1}
    NoThread = NoThread
    MaxPool = 2
    MaxOpens = 2
    MaxCalls = 6
INVARIANTS
    TypeOK
    WaitsAreServed
CHECK_DEADLOCK FALSE
