SPECIFICATION DeploymentSpec
CONSTANTS
  Runner = {r1}
  MaxRuns = 0
  Instance = {n1}
  Deployed <- Written
CHECK_DEADLOCK FALSE
INVARIANT PlaceholderStopsTheStart
