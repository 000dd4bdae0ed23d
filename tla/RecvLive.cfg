SPECIFICATION FairSpec
CONSTANTS
    Workers = {w1}
    Detectors = {hb}
    Senders = {}
    Checkers = {}
    Fds = {f1}
    MaxConns = 2
    MaxPieces = 1
    MsgPieces = 1
    MsgQueueCap = 0
    Bufs = {1, 2, 3, 4}
    None = None
CHECK_DEADLOCK FALSE
PROPERTIES
    ClaimsReleased
    DeadReclaimed
