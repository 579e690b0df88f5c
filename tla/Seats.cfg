SPECIFICATION Spec
CONSTANTS
    u1 = u1
    u2 = u2
    d1 = d1
    d2 = d2
    NoUser = NoUser
    NoDevice = NoDevice
    Users = {u1}
    Devices = {d1, d2}
    Slots = {1}
    MaxSeats = 1
    StreakLimit = 1
    MaxLogins = 2
    MaxAdmin = 1
SYMMETRY Symmetry
INVARIANTS
    OneLivePC
PROPERTIES
    LiveLoginKept
    LostStaysLost
    ImplementsLock
