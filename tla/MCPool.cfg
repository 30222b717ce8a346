SPECIFICATION PoolSpec
CONSTANTS
    Threads = {t1, t2, t3}
    MaxIdx = 3
    MaxSize = 2
    MaxAcquires = 3
SYMMETRY Symmetry
INVARIANTS
    PoolTypeOK
    Exclusive
    SlotConservation
    NeverFull
    LiveBound
    AllTracked
PROPERTY OnlyHolderReleases
