\* Two workers for six tasks.  A behaviour ends when main prints, or when a
\* wake-up is lost.
SPECIFICATION FairSpec
CONSTANTS
    q3a = q3a
    q3b = q3b
    d3a = d3a
    d3b = d3b
    q4 = q4
    Q3 <- Q3Tasks
    Q4 <- Q4Tasks
    Destroyer <- DestroyerOf
    NrWorkers = 2
INVARIANTS SafeUse AnswersComplete
PROPERTIES PoolUse PrintsUnlessWakeupLost
CHECK_DEADLOCK FALSE
