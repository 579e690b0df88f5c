SPECIFICATION Spec
CONSTANTS
    c1 = c1
    c2 = c2
    Conns = {c1, c2}
    KindOf <- BothKinds
    Ops = {o1, none}
    NoId = none
    Grace = 1
    MaxReboots = 1
    MaxDeaths = 0
    MaxQueue = 1

    
PROPERTIES
    EntryHasCause
