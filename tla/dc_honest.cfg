CONSTANTS
    c1 = c1
    w1 = w1
    w2 = w2
    Command <- OneCommand
    NoCommand = none
    Worker <- TwoDispatching
    Lease = 2
    RetryDelay = 1
    RetryAfter = {0}
    Timeout = {1, 2}
    StrayResults = FALSE
    MaxClock = 5
    MaxAttempts = 3
SPECIFICATION FairSpec
INVARIANTS
    AtMostOneAction
    EveryDoubtIsRecorded
    ResultsAreNeverStranded
PROPERTIES
    CommandLeavesQueue
    ReportedResultCloses
    KeepsPromise
CHECK_DEADLOCK FALSE
