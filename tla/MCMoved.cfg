SPECIFICATION Spec
CONSTANTS
    Hourly = {h1}
    Manual = {m1}
    old = old
    new = new
    Player <- MCPlayer
    Deadline <- MCDeadline
    Playing <- MCPlaying
    Listed <- MCListed
    Window = 1
    Horizon = 2
    NumVersions = 2
    MaxInputs = 2
    MaxTime = 1
PROPERTY
    BlankHasNoRow
