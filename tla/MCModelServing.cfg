SPECIFICATION SpecServing
CONSTANTS
    m1 = m1
    m2 = m2
    o1 = o1
    r1 = r1
    r2 = r2
    NoModel = NoModel
    Models <- TwoModels
    Sessions <- OneOperator
    Requests <- TwoRequests
    BatchSize = 2
    AbTesting = TRUE
    f1 = f1
    f2 = f2
    f3 = f3
    f4 = f4
    f5 = f5
    Features <- FiveVectors
    Valid <- FourVectors
    LastTime = 2
    MinSamples = 3
INVARIANTS
    TypeOKServing
    NoRequestForgotten
PROPERTIES
    QueuedIsAnswered
CHECK_DEADLOCK FALSE
