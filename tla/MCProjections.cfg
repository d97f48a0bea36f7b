SPECIFICATION Spec
CONSTANTS
    Hourly = {1, 2}
    Manual = {3}
    old = old
    new = new
    Player <- MCPlayer
    Deadline <- MCDeadline
    Playing <- MCPlaying
    Listed <- MCListed
    Window = 1
    Horizon = 2
    NumVersions = 2
    MaxInputs = 2
    MaxTime = 1
INVARIANTS
    LockIsHeld
    CandidatesFollow
PROPERTIES
    LockIsReleased
    NoOlderOverwrite
    ServedTableIsWhole
ACTION_CONSTRAINTS
    ClockMovesWhereRead
    FirstFreeTakesTheTick
