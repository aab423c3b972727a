CONSTANTS
    Calls = {k1, k2, k3}
    FailureThreshold = 1
    SuccessThreshold = 2
    Timeout = 2
    HalfOpenMaxCalls = 1
SPECIFICATION Spec
INVARIANT ProbesBounded
