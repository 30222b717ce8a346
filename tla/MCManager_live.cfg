SPECIFICATION FairSpec
CONSTANTS
    Threads = {m, c1}
    Starters = {m}
    Clients = {c1}
    Closers = {m}
    SerialInit = TRUE
    MaxIdx = 2
    MaxSize = 1
    MaxAcquires = 2
    Stacks = {1, 2}
    MaxNamespaceRetries = 1
PROPERTIES
    ShutdownReturns
    ShutdownUnblocks
    StopReturns
