SPECIFICATION FairSpec
CONSTANTS
    s1 = s1
    t1 = t1
    UserTurns <- MCUserTurns
    Sweeper = Sweeper
    Sessions <- MCSessions
    NoSession = NoSession
    MaxAttempts = 2
    Base = 1
    Window = 4
    Probe = 1
    ProbeCap = 1
    CallTime = 1
    MaxFaults = 1
INVARIANTS
    TypeOK
    CapKept
PROPERTIES
    ReplaySafe
    ToldOnce
    NoStall
