SPECIFICATION FairSpec
CONSTANTS
    m1 = m1
    m2 = m2
    w1 = w1
    w2 = w2
    NoWorker = NoWorker
    Worker = {w1, w2}
    Member = {m1}
    SlotTarget = {}
    Scannable = {m1}
    PositionReport <- Placement
    ResultReport <- SuccessTwice
    Lease = 1
    RetryDelay = 1
    MaxSubmit = 2
    WmsFaults = FALSE
    MaxClock = 5
CHECK_DEADLOCK FALSE
INVARIANT OverlapOnlyInDoubt
INVARIANT BudgetIsKept
PROPERTY KeepsPromise
PROPERTY LostSendIsRecovered
PROPERTY EvidenceIsProcessed
