SPECIFICATION FairSpec
CONSTANTS
    Binaries = {b1, b2}
    NumFiles = 2
    CRDs = {2}
    Needs <- InstanceFirst
    Versions = {v1, v2}
    InitialDirs <- FullOrEmpty
    NoFile = NoFile
    NoDB = NoDB
    Inodes = {1, 2, 3}
    MaxCalls = 3
    MaxEdits = 1
CHECK_DEADLOCK FALSE
INVARIANTS
    CacheSound
    ResultUsable
PROPERTIES
    CacheStable
    EnsureReturns
