SPECIFICATION Spec
CONSTANTS
    Threads = {t1, t2}
    Keyspaces = {k1, k2}
    NoKeyspace = nokeyspace
    Sessions = {d1, d2, d3}
    None = none
    Kinds = {"query", "use"}
    Droppable = {k1}
    UseMayFail = TRUE
INVARIANTS
    SessionLifetime
    ActiveKeyspaceSound
PROPERTY
    ImplementsNamespacedSession
SYMMETRY ThreadSessionSymmetry
