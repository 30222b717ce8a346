SPECIFICATION Spec
CONSTANTS
    Threads = {m, c1}
    Starters = {m}
    Clients = {c1}
    Closers = {m}
    SerialInit = TRUE
    MaxIdx = 1
    MaxSize = 1
    MaxAcquires = 1
    Stacks = {1, 2}
    MaxNamespaceRetries = 1
PROPERTY NoHandOutAfterShutdown
