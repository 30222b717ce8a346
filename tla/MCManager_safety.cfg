SPECIFICATION Spec
CONSTANTS
    Threads = {m, c1, c2}
    Starters = {m}
    Clients = {c1, c2}
    Closers = {m}
    SerialInit = TRUE
    MaxIdx = 2
    MaxSize = 2
    MaxAcquires = 2
    Stacks = {1, 2}
    MaxNamespaceRetries = 1
SYMMETRY Symmetry
INVARIANTS
    TypeOK
    OneHolder
    ShutdownLeavesNothing
    CapacityRestored
    OneStackPerDir
PROPERTY ImplementsLease
