SPECIFICATION Spec
CONSTANTS
    c1 = c1
    c2 = c2
    u1 = u1
    u2 = u2
    d1 = d1
    x1 = x1
    x2 = x2
    y1 = y1
    BadRow = BadRow
    Heart = Heart
    Heartbeat = Heartbeat
    NoClient = NoClient
    NoMessage = NoMessage
    Clients <- TwoClients
    Loops <- Two
    Detectors <- OneDetector
    Records <- ThreeRecords
    Caller <- OneCaller
    Callee <- OwnCallee
    Duration <- TwoShortOneLong
    Files <- ThreeFiles
    Uploads <- TwoUploads
    EventRecords <- OneEvent
    MaxAged = 1
    BatchSize = 1
    MinDestinations = 1
    MaxAverage = 3
    Critical <- ThreeOfOne
    High <- TwoOfOne
    Raised <- FourOrNone
SYMMETRY Symmetry
INVARIANTS
    TypeOK
    UploadsAreIdempotent
    AlertHasEvidence
    DetectionIsComplete
    
CHECK_DEADLOCK FALSE
