SPECIFICATION FairSpec
CONSTANTS
    u1 = u1
    u2 = u2
    d1 = d1
    d2 = d2
    NoUser = NoUser
    NoDevice = NoDevice
    Users = {u1}
    Devices = {d1}
    Slots = {1}
    MaxSeats = 1
    StreakLimit = 2
    MaxLogins = 2
    MaxAdmin = 1
PROPERTIES
    DisplacedLeaves
