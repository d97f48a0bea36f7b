SPECIFICATION Spec
CONSTANTS
    p1 = p1
    p2 = p2
    Player <- MCPlayer
    Initial <- MCInitial
    MaxPrice = 2
    Cap = 2
    LastGameweek = 2
    MaxMoves = 3
INVARIANTS
    AnyOrderWillDo
CHECK_DEADLOCK FALSE
