SPECIFICATION Spec
CONSTANTS
    a1 = a1
    a2 = a2
    c1 = c1
    t1 = t1
    t2 = t2
    r1 = r1
    r2 = r2
    NoCall = NoCall
    NoCaller = NoCaller
    Callers <- TwoCallers
    Calls <- OneCall
    Tasks <- TwoTasks
    Requests <- TwoRequests
    WindowTtl = 2
    CountersTtl = 3
    DistinctA = 2
    MismatchA = 1
    LowAsrA = 2
    MaxInvites = 2
    MaxAnswers = 1
INVARIANTS
    TypeOK
    CallersAreCounted
    CallLoggedOnce
    BurstIsFlagged
SYMMETRY Symmetry
CHECK_DEADLOCK FALSE
