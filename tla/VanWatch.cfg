SPECIFICATION FairSpec
CONSTANTS
    MaxFailures = 2
    BadNeeded = 2
    MaxLaunches = 2
    MaxGlitches = 1
    MaxSwitches = 2
    MaxFaults = 1
INVARIANTS
    TwoBadChecks
    NoAlarmUnwatched
    CountHasCause
PROPERTIES
    KilledIsKnown
    DeadIsRevived
    HealthIsShown
