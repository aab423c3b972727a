CONSTANTS
    Handlers = {h1, h2}
    CallIds = {c1, c2, c3}
    ANumbers = {a1, a2}
    BNumbers = {b1}
    Threshold = 2
    Window = 2
    Cooldown = 2
    MaxTime = 2
    NoCall = NoCall
    NoAlert = NoAlert
SPECIFICATION Spec
SYMMETRY Symmetry
INVARIANTS
    TypeOK
    NoMissedAttack
    AlertJustified
    SuppressedOnlyAfterAlert
    EvidenceIntegrity
    WindowsExpire
PROPERTIES
    LateAlertIsRace
    KeepsTheLedger
CHECK_DEADLOCK FALSE
