CONSTANTS
    SquadSelect <- MCSelect
    MinPlay <- MCMinPlay
    MaxPlay <- MCMaxPlay
    XiSize = 5
    ClubLimit = 3
    Budget = 375
    FreeTransferCap = 5
    HitCost = 400
    MaxHits = 2
    BenchWeight = 7
    Player <- MCPlayer
    Facts <- MCFacts
    Prices <- MCPrices
    Forecasts <- MCForecasts
    Fixtures <- MCFixtures
    Imported <- MCImported
    Paid <- MCPaid
    FreeTransfers = {1, 2}
    Stated <- MCStated
    Built <- MCBuilt
    Unsynced = {10}
    Leavers = {6}
    MinAppearances = 11
    PoolTop = 2
    PoolCheap = 1
    WildcardGap = 1500
SPECIFICATION Spec
INVARIANTS
    RemovedKeepsHisPlace
