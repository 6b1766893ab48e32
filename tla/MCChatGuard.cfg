SPECIFICATION Spec
CONSTANTS
    Limit = 2
    Window = 3
    MaxDelay = 1
    Calls = {c1, c2, c3, c4}
    MaxTime = 7
    IdOf <- Fresh
    LockTTL = 3
    Timeout = 1
    MaxRelease = 1
    None = None
SYMMETRY Interchangeable
INVARIANTS RunningHoldsLock RequestsLimited RetryAfterIsExact
CHECK_DEADLOCK FALSE
