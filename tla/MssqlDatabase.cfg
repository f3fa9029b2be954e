SPECIFICATION FairSpec
CONSTANTS
    Threads = {t1, t2}
    Cancellers = {c1, c2}
    MaxResults = 2
    MaxCancels = 3
    None = none
INVARIANTS
    TypeOK
    CancelsBoundCalls
    PendingCancelHonoured
    OneDriver
PROPERTY
    CancelEndsCall
