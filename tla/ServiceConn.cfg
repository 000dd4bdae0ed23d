SPECIFICATION Spec
CONSTANTS
    Workers = {w1, w2}
    Receiver = Receiver
    Sender = Sender
    MaxConns = 2
    MaxMsgs = 2
    QueueCap = 1
    Hasty = FALSE
SYMMETRY WorkerSymmetry
INVARIANTS
    TypeOK
    NobodyInside
    SocketOwned
    NothingLeaks
    SetupFinds
CHECK_DEADLOCK FALSE
