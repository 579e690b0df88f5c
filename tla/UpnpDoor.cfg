SPECIFICATION FairSpec
CONSTANTS
    Threads = {1, 2}
    Lease = 2
    Renew = 1
    Gap = 1
    Fresh = 2
    MaxSwitches = 3
    MaxFaults = 1
INVARIANTS
    ShutInTime
    RenewedInTime
    AddressExpires
PROPERTIES
    ClosedIsForgotten
    
