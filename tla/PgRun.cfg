SPECIFICATION FairSpec
CONSTANTS
    Kinds = {"read", "write", "empty", "copy"}
    MaxStatements = 3
    MaxRows = 5
    Limits = {0, 1, 2, 3}
    ChunkCap = 2
INVARIANTS
    RowsWithinLimit
    NoSilentTruncation
    SuccessIsWholeBatch
PROPERTY
    OnlyCopyHangs
CHECK_DEADLOCK FALSE
