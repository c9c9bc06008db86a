SPECIFICATION FairSpec
CONSTANTS
    c1 = c1
    c2 = c2
    Calls <- MCCalls
    MaxBoxes = 2
    MaxVersion = 2
    IdleTTL = 1
    MaxFaults = 1
INVARIANTS
    TypeOK
    OpenWhenHeld
    AckedIsStored
PROPERTY
    Evicted
CHECK_DEADLOCK FALSE
