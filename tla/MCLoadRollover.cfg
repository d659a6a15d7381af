CONSTANTS
  UtcOffset <- MCUtcOffset
  base <- MCbase
  Probe <- MCProbe
  Dists <- MCDists
  Brief <- MCBrief
  MaxLines = 2
  MAXAGG_LEN = 10
  Length <- MCLength
  HomeRegion <- MCHomeRegion
  Options <- MCNoOptions
  Widths <- MCWidths
  Earlier <- MCEarlier
  LineBase = 20
  Commands <- MCCommands
  Garbage <- MCGarbage
SPECIFICATION LoadSpec
INVARIANT DeletesWereLoaded
CHECK_DEADLOCK FALSE
