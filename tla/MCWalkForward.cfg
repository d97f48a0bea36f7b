\* Every history under the incumbent's parameters and under the referee's.
CONSTANTS
    Histories <- MCHistories
    Parameters <- MCParameters
    FormRounds = 2
    BehaviourShrink = 10
    SubShrink = 20
    MinClubs = 2
    HistoryCap = 4
    Calls <- MCCalls
    CurrentSeason = 3
SPECIFICATION ForecastSpec
INVARIANTS
    FeaturesAreOfThePast
    StrengthIsOfThisSeason
    EveryRowIsAccountedFor
    ExportFollowsTheWalk
    ServedOnRealHistory
    ServedFlagsAreOfTheGameweek
CHECK_DEADLOCK FALSE
