SPECIFICATION FairSpec
CONSTANTS
    Threads = {t1, t2}
    Schemas = {s1, s2}
    Default = default
    Unknown = unknown
    None = none
    Kinds = {"query", "begin", "commit", "rollback", "setPath", "reset"}
    QuietFailures = {}
INVARIANTS
    PathCacheSound
    OneStatementAtATime
    RunsInOwnSchema
PROPERTIES
    ImplementsNamespacedSession
    CallsReturn
