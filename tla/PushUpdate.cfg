SPECIFICATION Spec
CONSTANTS
    Versions = {1, 2}
    Day = 2
    Windows <- NightWindow
    Releases <- OneRelease
    IsInternal = FALSE
    IsActive = TRUE
    MaxRows = 2
    DlMaxAttempts = 2
    ReportRetry = 1
    MaxSessions = 0
    MaxCrashes = 1
    MaxReinstalls = 0
INVARIANTS
    AppliedWasRun

    
    
    
