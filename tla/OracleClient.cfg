SPECIFICATION ClientSpec
CONSTANTS
    HostThreads = {t1, t2}
    NoThread = NoThread
    MaxCalls = 5
    MaxCrashes = 1
INVARIANTS
    ReexecOnce
    ArchiveIsOwned
PROPERTIES
    CallsReturn
CHECK_DEADLOCK FALSE
