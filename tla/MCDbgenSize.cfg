CONSTANTS
  Base <- MCBase
  CommandLines <- ParallelPart
  MaxDeaths = 0
  MaxForkFails = 0
SPECIFICATION Spec
INVARIANT SameSize
CHECK_DEADLOCK FALSE
