SPECIFICATION FairSpec
CONSTANTS
  w1 = w1
  w2 = w2
  w3 = w3
  i1 = i1
  i2 = i2
  b1 = b1
  b2 = b2
  NULL = NULL
  Worker = {w1, w2}
  Drainer = {w1}
  Identity = {i1, i2}
  Build = {b1, b2}
  BuildOf <- TwoBuilds
  Carries <- BothCarryOne
  StoredReplay = {i1}
  EngineKind = {"engine_unavailable", "analysis_rejected", "engine_internal_error"}
  Retryable = {"engine_unavailable"}
  MaxAttempts = 2
  MaxJobs = 2
  MaxCrashes = 1
PROPERTY EveryJobEnds
