SPECIFICATION Spec
CONSTANTS
    Proc = {cli}
    Cli = {cli}
    MaxRev = 2
    ValueOf <- MCValueOf
    WholePercent <- MCWholePercent
    FinishedIn <- MCFinishedIn
    Deadline <- MCDeadline
    Window = 1
    LiveCap = 1
    Overlap = FALSE
    MayRevert = FALSE
    MaxLive = 1
    MaxTime = 2
    MaxRuns = 4
INVARIANT
    FixturesSkipIsNoOp
CHECK_DEADLOCK FALSE
