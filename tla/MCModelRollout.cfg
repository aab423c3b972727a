SPECIFICATION Spec
CONSTANTS
    m1 = m1
    m2 = m2
    o1 = o1
    mgr = mgr
    NoModel = NoModel
    Models <- TwoModels
    Operators <- OneOperator
    Sessions <- AllSessions
    Shares <- FourSteps
    Manager = mgr
    Challenger = m2
INVARIANTS
    ChampionServable
    OneChampion
PROPERTIES
    PromotedByVerdict
CHECK_DEADLOCK FALSE
