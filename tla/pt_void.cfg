SPECIFICATION Spec
CONSTANTS
    t1 = t1
    t2 = t2
    l1 = l1
    a = a
    b = b
    c = c
    None = None
    Task = {t1, t2}
    Line = {l1}
    Home <- OneLine
    Manual = {t2}
    Notice <- Notices
    Op = {a, b, c}
    Letter <- Letters
    MaxRevision <- Plans
    MaxConfirm = 1
CHECK_DEADLOCK FALSE
INVARIANT ClosedWorkFreesTheLine
