CONSTANTS
    c1 = c1
    w1 = w1
    w2 = w2
    Command <- OneCommand
    NoCommand = none
    Worker <- OneDispatching
    Lease = 2
    RetryDelay = 1
    RetryAfter = {0}
    Timeout = {1, 2}
    StrayResults = TRUE
    MaxClock = 5
    MaxAttempts = 3
SPECIFICATION Spec
PROPERTY NoDispatchAfterResult
CHECK_DEADLOCK FALSE
