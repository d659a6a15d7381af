CONSTANTS
  MaxFaults = 1
  MaxRuns = 2
SPECIFICATION Spec
INVARIANTS FailureExplained OkMeansComplete BringUpOrder PlanSound
CHECK_DEADLOCK FALSE
