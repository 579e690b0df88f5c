SPECIFICATION Spec
CONSTANTS
    MaxFailures = 3
    BadNeeded = 2
    MaxLaunches = 4
    MaxGlitches = 0
    MaxSwitches = 1
    MaxFaults = 1
INVARIANTS
    RestartsBounded
