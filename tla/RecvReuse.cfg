SPECIFICATION Spec
CONSTANTS
    Workers = {w1}
    Detectors = {}
    Senders = {}
    Checkers = {ck}
    Fds = {f1, f2}
    MaxConns = 2
    MaxPieces = 1
    MsgPieces = 1
    MsgQueueCap = 0
    Bufs = {1, 2, 3, 4}
    None = None
SYMMETRY WorkerFdSymmetry
CHECK_DEADLOCK FALSE
INVARIANTS
    NothingForgotten
    EveryConnWatched
