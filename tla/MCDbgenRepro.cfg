CONSTANTS
  Base <- MCBase
  CommandLines <- ParallelLine
  MaxDeaths = 0
  MaxForkFails = 0
SPECIFICATION Spec
INVARIANT Reproducible
CHECK_DEADLOCK FALSE
