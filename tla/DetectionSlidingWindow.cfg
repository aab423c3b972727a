CONSTANTS
    Handlers = {h1}
    CallIds = {c1, c2, c3, c4}
    ANumbers = {a1, a2, a3}
    BNumbers = {b1}
    Threshold = 3
    Window = 2
    Cooldown = 2
    MaxTime = 3
    NoCall = NoCall
    NoAlert = NoAlert
SPECIFICATION PromptSpec
SYMMETRY Symmetry
INVARIANT SlidingWindow
CHECK_DEADLOCK FALSE
