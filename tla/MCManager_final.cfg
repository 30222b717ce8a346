SPECIFICATION Spec
CONSTANTS
    Threads = {m, c1}
    Starters = {m}
    Clients = {}
    Closers = {c1}
    SerialInit = FALSE
    MaxIdx = 1
    MaxSize = 1
    MaxAcquires = 1
    Stacks = {1, 2}
    MaxNamespaceRetries = 1
PROPERTY ShutdownIsFinal
