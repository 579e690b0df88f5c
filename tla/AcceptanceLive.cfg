SPECIFICATION FairSpec
CONSTANTS
    c1 = c1
    c2 = c2
    Conns = {c1}
    KindOf <- OneRemote
    Ops = {o1, none}
    NoId = none
    Grace = 0
    MaxReboots = 1
    MaxDeaths = 1
    MaxQueue = 2
INVARIANTS
    ListFollows
PROPERTIES
    SeenOrEnded
    CutEnds
    NoLeftover
