\* The same histories: a player without a row in the second of three seasons.
CONSTANTS
    Histories <- MCHistories
    Parameters <- MCParameters
    FormRounds = 2
    BehaviourShrink = 10
    SubShrink = 20
    MinClubs = 2
    HistoryCap = 4
    Calls <- MCCalls
    CurrentSeason = 3
SPECIFICATION ForecastSpec
INVARIANTS
    YearOutIsVisible
CHECK_DEADLOCK FALSE
