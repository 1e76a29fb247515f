SPECIFICATION FairSpec
CONSTANTS
  Runner = {r1, r2}
  MaxRuns = 3
  Instance = {n1}
  Deployed <- Corrected
CHECK_DEADLOCK FALSE
INVARIANTS
  DeploymentTypeOK
  SchemaIsRecorded
  ReadyIsWhole
PROPERTIES
  FinishedUpIsWhole
  ServiceRecovers
