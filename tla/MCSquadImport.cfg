\* Imports of a manager's squad, two at a time, with the sync running.
CONSTANTS
    Request = {"r1", "r2"}
    LastEvent = 2
    MaxTime = 3
    Announced <- MCAnnounced
    Forward = FALSE
    Locked <- MCLocked
    FirstEvent = 1
    Late <- MCLate
    BulkAttempts = 4
    OnDemandAttempts = 1
SPECIFICATION ImportSpec
INVARIANTS
    StoredSquadsAreWhole
    ErrorsNameTheirCause
PROPERTIES
    ImportIsAnswered
    CachedIsCurrent
