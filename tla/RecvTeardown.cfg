SPECIFICATION Spec
CONSTANTS
    Workers = {w1, w2}
    Detectors = {hb}
    Senders = {snd}
    Checkers = {}
    Fds = {f1}
    MaxConns = 1
    MaxPieces = 1
    MsgPieces = 1
    MsgQueueCap = 0
    Bufs = {1, 2, 3, 4}
    None = None
SYMMETRY WorkerSymmetry
CHECK_DEADLOCK FALSE
INVARIANTS
    ClaimsHeld
    EveryConnWatched
PROPERTIES
    ClaimsAreLocks
