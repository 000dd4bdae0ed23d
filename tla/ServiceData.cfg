SPECIFICATION Spec
CONSTANTS
    Workers = {w1, w2}
    Scenes <- AllScenes
    Hundred = 2
    Fifty = 1
    PoolSize = 1
    Parent <- TypeTree
    MaxCalls = 3
    MaxFaults = 1
    Jobs <- AllJobs
    MaxBatch = 2
    Rooms = {1, 2}
    MaxErrors = 1
INVARIANTS
    TablesTypeOK
    ConnAccounted
    BatchTypeOK
    RowsOnce
    TailBound
    GivenBackOnce
PROPERTIES
    AccountFound
    CallsEnd
CHECK_DEADLOCK FALSE
