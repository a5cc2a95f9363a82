SPECIFICATION Spec
CONSTANTS
    m1 = m1
    m2 = m2
    w1 = w1
    w2 = w2
    NoWorker = NoWorker
    Worker = {w1}
    Member = {m1}
    SlotTarget = {m1}
    Scannable = {}
    PositionReport <- Placement
    ResultReport <- LateSuccess
    Lease = 1
    RetryDelay = 1
    MaxSubmit = 1
    WmsFaults = FALSE
    MaxClock = 3
CHECK_DEADLOCK FALSE
PROPERTY HigherRevisionSettles
