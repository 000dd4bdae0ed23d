SPECIFICATION FairSpec
CONSTANTS
    s1 = s1
    s2 = s2
    s3 = s3
    Servers <- ThreeServers
    UsridBegin = 1
    RangeSize = 2
    Tables <- FirstNumbers
    MaxCrashes = 2
    MaxFaults = 2
INVARIANTS
    TypeOK
    RangesDisjoint
    StartedOwns
    OneOpenRow
    FreshNumbers
PROPERTIES
    StartsEnd
CHECK_DEADLOCK FALSE
