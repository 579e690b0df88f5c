SPECIFICATION FairSpec
CONSTANTS
    Versions = {1, 2}
    Day = 2
    Windows <- NightWindow
    Releases <- SomeReleases
    IsInternal = FALSE
    IsActive = TRUE
    MaxRows = 1
    DlMaxAttempts = 2
    ReportRetry = 2
    MaxSessions = 1
    MaxCrashes = 0
    MaxReinstalls = 1
PROPERTIES
    
    PushSettles
