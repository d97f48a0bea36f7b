SPECIFICATION ArchiveSpec
CONSTANTS
  Importers = {ann, bob}
  Publications <- MCPublications
  PlausibleStarts = {1, 2, 3}
  MaxUnresolved = 2
  Captures <- MCCaptures
  Rounds = {1, 2}
  MaxGap = 2
  MaxIngests = 3
INVARIANT
  JoinedWasKnowable
PROPERTY
  SeasonIsReplacedWhole
CHECK_DEADLOCK FALSE
