SPECIFICATION FairSpec
CONSTANTS
    w1 = w1
    w2 = w2
    w3 = w3
    Walkers <- MCWalkers
    Starter = w1
    NoWalker = NoWalker
    s1 = s1
    s2 = s2
    Services <- MCServices
    Settings <- MCSettings
    Nodes <- MCNodes
    Entry = 1
    Kind <- MCKind
    Succ <- MCSucc
    Branch <- MCBranch
    FormTTL = 0
    StaleTTL = 0
    MaxFaults = 1
INVARIANTS
    TypeOK
    OnceOnly
    OneLive
    WaitingAsks
    SuccessIsWhole
PROPERTY
    Settles
CHECK_DEADLOCK FALSE
