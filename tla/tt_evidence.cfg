SPECIFICATION Spec
CONSTANTS
    m1 = m1
    m2 = m2
    w1 = w1
    w2 = w2
    NoWorker = NoWorker
    Worker = {w1}
    Member = {m1, m2}
    SlotTarget = {m1}
    Scannable = {m2}
    PositionReport <- Milestones
    ResultReport <- Results
    Lease = 1
    RetryDelay = 1
    MaxSubmit = 1
    WmsFaults = TRUE
    MaxClock = 2
CHECK_DEADLOCK FALSE
INVARIANT SuccessIsWitnessed
INVARIANT FailureIsLocated
INVARIANT NewestResultHolds
PROPERTY StatusMovesForward
PROPERTY ConfirmedPositionStands
