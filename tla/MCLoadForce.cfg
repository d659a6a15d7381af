CONSTANTS
  UtcOffset <- MCUtcOffset
  base <- MCbase
  Probe <- MCProbe
  Dists <- MCDists
  Brief <- MCBrief
  MaxLines = 2
  MAXAGG_LEN = 10
  Length <- MCLength
  HomeRegion <- MCHomeRegion
  Options <- MCForce
  Widths <- MCWidths
  Earlier <- MCEarlier
  LineBase = 20
  Commands <- MCNoPairs
  Garbage <- MCGarbage
SPECIFICATION LoadSpec
INVARIANT ForceOverwrites
CHECK_DEADLOCK FALSE
