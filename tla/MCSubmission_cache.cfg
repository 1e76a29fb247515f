SPECIFICATION Spec
CONSTANTS
  Request = {r1, r2}
  Client = {c1}
  Instance = {n1, n2}
  g1 = g1
  t1 = t1
  d1 = d1
  Replay = {g1}
  Tag = {t1}
  Dataset = {d1}
  BuildOf <- OneBuild
  Asked <- OneProfile
  Limit = 2
  MaxWindow = 1
  MaxJobs = 2
  MaxAttempts = 1
  NULL = NULL
CHECK_DEADLOCK FALSE
PROPERTY NoSecondSearch
