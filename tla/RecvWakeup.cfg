SPECIFICATION Spec
CONSTANTS
    Workers = {w1}
    Detectors = {}
    Senders = {}
    Checkers = {}
    Fds = {f1}
    MaxConns = 1
    MaxPieces = 1
    MsgPieces = 1
    MsgQueueCap = 1
    Bufs = {1, 2, 3, 4}
    None = None
CHECK_DEADLOCK FALSE
INVARIANTS
    QueueServed
