SPECIFICATION CacheSpec
CONSTANTS
    Threads = {t1, t2, t3}
    MaxIdx = 1
    Stacks = {1, 2, 3, 4, 5, 6}
    MaxNamespaceRetries = 2
    MaxCASRetries = 3
SYMMETRY Symmetry
INVARIANTS
    CacheTypeOK
    StackOwned
    SingleOwner
    StartedComplete
    ClientsCurrent
    StartConverges
PROPERTY FieldsKept
