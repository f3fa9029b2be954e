SPECIFICATION Spec
CONSTANTS
    Threads = {t1, t2}
    NumDatabases = 2
    HandleIndexes = {0, 1, 2}
    InfoDatabase = 1
    None = none
    Commands = {"key", "select", "multi", "exec", "discard"}
INVARIANT
    SelectedDbSound
    
PROPERTY
    ImplementsNamespacedSession
SYMMETRY ThreadSymmetry
