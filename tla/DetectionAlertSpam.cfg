CONSTANTS
    Handlers = {h1, h2}
    CallIds = {c1, c2, c3}
    ANumbers = {a1, a2}
    BNumbers = {b1}
    Threshold = 2
    Window = 1
    Cooldown = 2
    MaxTime = 2
    NoCall = NoCall
    NoAlert = NoAlert
SPECIFICATION Spec
SYMMETRY Symmetry
INVARIANT NoAlertSpam
CHECK_DEADLOCK FALSE
