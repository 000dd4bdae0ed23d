SPECIFICATION FairSpec
CONSTANTS
    Workers = {w1, w2}
    Receiver = Receiver
    Sender = Sender
    MaxConns = 1
    MaxMsgs = 2
    QueueCap = 1
    Hasty = TRUE
PROPERTY
    DestroyedInTheEnd
CHECK_DEADLOCK FALSE
