SPECIFICATION Spec
CONSTANTS
    Wire <- ShortCall
    MaxStarts = 2
    Capacity = 1
INVARIANTS
    TypeOK
    NoEventVanishes
    OneConsumer
PROPERTIES
    QueuedIsTaken
CHECK_DEADLOCK FALSE
