SPECIFICATION ModesSpec
CONSTANTS
    Configs <- AllConfigs
    Kinds = {"im", "ww"}
    Wants <- ClientWants
    MaxClients = 2
    MaxAsks = 1
    MaxWakes = 1
    MaxFaults = 1
    MaxFd = 5
    Socks = {1, 2}
    Shapes <- SomeShapes
    MaxReqs = 4
    MaxOnWay = 1
INVARIANTS
    ForkTypeOK
    SemAccounted
    RightPeer
    WaitTypeOK
    RequestsKept
PROPERTIES
    HandledInTheEnd
    AnsweredInTheEnd
CHECK_DEADLOCK FALSE
