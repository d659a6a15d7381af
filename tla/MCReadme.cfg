CONSTANTS
  Variant = "example"
  N <- MCN
  Plan <- MCPlan
  Compiles <- MCCompiles
  Fact <- MCFact
  OneShot <- MCOneShot
  MaxFaults = 1
  MaxRuns = 3
SPECIFICATION Spec
INVARIANTS TypeOK FailureExplained OkMeansComplete BringUpOrder PlanSound
CHECK_DEADLOCK FALSE
