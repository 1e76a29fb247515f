SPECIFICATION FairSpec
CONSTANTS
  Launch = {l1, l2}
  Task = {t1, t2, t3}
  MaxTasks = 1
  MaxKills = 1
  NULL = NULL
CHECK_DEADLOCK FALSE
INVARIANT TypeOK
PROPERTIES
  CapBrokenByRaceOnly
  SubmissionIsAnswered
  EveryJobIsDone
