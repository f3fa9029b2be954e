SPECIFICATION RollbackFairSpec
CONSTANTS
    Threads = {t1}
    Schemas = {s1, s2}
    Default = default
    Unknown = unknown
    None = none
    Kinds = {"query", "begin", "rollback"}
    QuietFailures = {}
PROPERTY
    RollbackEndsFailedBlock
