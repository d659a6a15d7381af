CONSTANTS
  UtcOffset <- MCUtcOffset
  base <- MCbase
  Probe <- MCProbe
  Dists <- MCDists
  Brief <- MCBrief
  MaxLines = 2
  MAXAGG_LEN = 10
  Length <- MCLength
  HomeRegion <- MCHomeRegion
  Options <- MCOptions
  Widths <- MCWidths
  Earlier <- MCEarlier
  LineBase = 20
  Commands <- MCCommands
  Garbage <- MCGarbage
SPECIFICATION LoadSpec
INVARIANTS UTypeOK FreshKeys SegmentsEven DeletesLoaded StepContinues
INVARIANTS TTypeOK KeysJoin OwnLines PartsDistinct PlacesAgree DateJoins FilesKept
PROPERTIES DatesFollow UpdatesEnd
CHECK_DEADLOCK FALSE
