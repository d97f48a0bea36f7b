\* FPL brings the second deadline forward after the store has learned it.
CONSTANTS
    Request = {"r1"}
    LastEvent = 2
    MaxTime = 3
    Announced <- MCWideApart
    Forward = TRUE
    Locked <- MCLocked
    FirstEvent = 1
    Late <- MCLate
    BulkAttempts = 4
    OnDemandAttempts = 1
SPECIFICATION ImportSpec
PROPERTIES
    CachedIsCurrent
