CONSTANTS
  Base <- MCBase
  CommandLines <- ParallelLine
  MaxDeaths = 0
  MaxForkFails = 1
SPECIFICATION Spec
INVARIANT NoOrphans
CHECK_DEADLOCK FALSE
