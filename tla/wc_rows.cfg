SPECIFICATION FairSpec
CONSTANTS
    c1 = c1
    c2 = c2
    w1 = w1
    w2 = w2
    Nobody = Nobody
    Confirmation = {c1, c2}
    Successor <- Chain
    Worker = {w1, w2}
    Verdict = {"WAIT", "REFUSED"}
    Final = {"WAIT"}
    BatchLimit = 1
    WmsFaults = TRUE
CHECK_DEADLOCK FALSE
INVARIANT ResultIsTheVerdict
PROPERTY ClosedIsNeverSent
PROPERTY CancelledAnswersAreKept
PROPERTY KeepsPromise
PROPERTY ObligationCloses
