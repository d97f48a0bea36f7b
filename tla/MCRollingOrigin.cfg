SPECIFICATION Spec
CONSTANTS
  Archives <- MCArchives
  Runs <- MCRuns
  FirstSeasonWith <- MCFirstSeasonWith
  Found <- MCFound
  Values = {1, 2}
INVARIANTS
  NothingOfTheFold
  PairingsAreControlled
  EveryArmIsFitted
CHECK_DEADLOCK FALSE
