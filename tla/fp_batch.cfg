SPECIFICATION FairSpec
CONSTANTS
    scan = scan
    put = put
    report = report
    w1 = w1
    w2 = w2
    Nobody = Nobody
    Event <- Events
    Result <- Results
    Of <- OneMaterial
    AnswerTo <- Questions
    MayDecide <- Handlers
    Worker = {w1, w2}
    MaxAttempts = 2
CHECK_DEADLOCK FALSE
INVARIANT CauseIsReal
INVARIANT SetAsideIsEarned
PROPERTY ClosedStands
PROPERTY KeepsPromise
PROPERTY FactLeavesQueue
