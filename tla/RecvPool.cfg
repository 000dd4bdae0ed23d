SPECIFICATION Spec
CONSTANTS
    Workers = {w1, w2}
    Detectors = {}
    Senders = {}
    Checkers = {}
    Fds = {f1}
    MaxConns = 2
    MaxPieces = 3
    MsgPieces = 2
    MsgQueueCap = 1
    Bufs = {1, 2, 3, 4}
    None = None
SYMMETRY WorkerSymmetry
CHECK_DEADLOCK FALSE
INVARIANTS
    TypeOK
    OneReader
    BuffersLive
    MessagesWhole
    MessagesLive
    NothingForgotten
