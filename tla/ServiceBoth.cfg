SPECIFICATION Spec
CONSTANTS
    Workers = {w1}
    Receiver = Receiver
    Sender = Sender
    MaxConns = 1
    MaxMsgs = 1
    QueueCap = 1
    Hasty = FALSE
INVARIANT
    OneDestroyer
CHECK_DEADLOCK FALSE
