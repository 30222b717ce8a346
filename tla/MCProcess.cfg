SPECIFICATION ProcFairSpec
CONSTANTS
    TermGracePeriod = 5
    KillDrainBudget = 2
    Millisecond = 3
    StopTimeout = 10
    Remaining <- Deadlines
INVARIANTS
    StopTruthful
    GivenUpAfterKill
    WithinTimeout
PROPERTY StopKills
CHECK_DEADLOCK FALSE
