SPECIFICATION Spec
CONSTANTS
    p1 = p1
    p2 = p2
    Player <- MCPlayer
    Initial <- MCInitial
    MaxPrice = 2
    Cap = 2
    LastGameweek = 4
    MaxMoves = 2
INVARIANTS
    FreeTransfersExact
    PricesNeverWrong
    SellKeepsHalf
CHECK_DEADLOCK FALSE
