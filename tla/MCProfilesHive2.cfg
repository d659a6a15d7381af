CONSTANTS
  MaxFaults = 0
  MaxRuns = 1
SPECIFICATION Spec
INVARIANT Hive2Order
CHECK_DEADLOCK FALSE
