CONSTANTS
  Variant = "secure"
  N <- MCN
  Plan <- MCPlan
  Compiles <- MCCompiles
  Fact <- MCFact
  OneShot <- MCOneShot
  MaxFaults = 0
  MaxRuns = 1
SPECIFICATION Spec
INVARIANT UpSucceeds
CHECK_DEADLOCK FALSE
