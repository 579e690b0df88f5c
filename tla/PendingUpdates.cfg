SPECIFICATION QueueSpec
CONSTANTS
    Versions = {1, 2}
    Day = 2
    Windows <- NightWindow
    Releases <- TwoReleases
    IsInternal = FALSE
    IsActive = TRUE
    MaxRows = 3
INVARIANTS
    
    RequeueBounded
    RetryOnlyAfterApplied
PROPERTIES
    PinKept
