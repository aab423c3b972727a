CONSTANTS
    Calls = {k1, k2, k3, k4}
    FailureThreshold = 2
    SuccessThreshold = 2
    Timeout = 2
    HalfOpenMaxCalls = 2
SPECIFICATION FairSpec
INVARIANTS
    CountersInBounds
    OpenCanRecover
    SlotsAccounted
PROPERTIES
    FailFast
    Recovery
