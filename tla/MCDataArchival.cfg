SPECIFICATION FairSpec
CONSTANTS
    t1 = t1
    Rows = {r1, r2}
    Tables = {t1}
    TableOf <- OneTable
    ArchiveIds = {1}
    Workers = {w1, w2}
    ChunkSize = 1
    HotRetention = 0
    ManualCutoffs = {2}
    Retention = 1
    MaxKeys = 1
    MaxTime = 2
INVARIANTS TypeOK NoRecordLost
PROPERTIES KeepsItsPromise ExpiredAreDeleted
CHECK_DEADLOCK FALSE
