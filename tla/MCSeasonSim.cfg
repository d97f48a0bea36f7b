\* Seasons of four gameweeks under the five arms.
CONSTANTS
    SquadSelect <- MCSelect
    MinPlay <- MCMinPlay
    MaxPlay <- MCMaxPlay
    XiSize = 4
    ClubLimit = 3
    Budget = 375
    FreeTransferCap = 2
    HitCost = 4
    MaxHits = 2
    BenchWeight = 7
    Pos <- MCPos
    Policies = {"no-transfer", "greedy-1ft", "planner", "held", "replay"}
    Opening <- MCOpening
    Ownership <- MCOwnership
    Draws <- MCDraws
    Rounds <- MCRounds
    Markets <- MCMarkets
    LastRound = 38
    ChipBase <- MCChips
SPECIFICATION Spec
INVARIANTS
    SquadKeepsItsShape
    ExtraTransfersArePaid
    SubstitutionsAreComplete
    WithinCeiling
PROPERTIES
    TransfersMakeNoMoney
CHECK_DEADLOCK FALSE
