SPECIFICATION ServersSpec
CONSTANTS
    Threads = {t1, t2}
    Names = {a, postgres}
    InfoDatabase = a
    Maintenance = postgres
    MaxHandles = 4
    None = none
SYMMETRY Symmetry
INVARIANTS
    CachedHandleUsable
    DefaultDatabaseExists
