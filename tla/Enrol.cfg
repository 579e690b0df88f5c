SPECIFICATION FairSpec
CONSTANTS
    d1 = d1
    d2 = d2
    Devices = {d1, d2}
    OldBuilds = {d2}
    NoDevice = NoDevice
    Names = {"a"}
    NoName = "none"
    FirstShop <- MCFirstShop
    Rows = {1, 2, 3, 4}
    Slots = {1, 2}
    Tokens = {1, 2, 3, 4, 5, 6, 7, 8}
    MaxEvents = 2
PROPERTIES
    
    Recovers
