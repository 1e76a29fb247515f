SPECIFICATION FairSpec
CONSTANTS
  Identity = {i1, i2}
  MaxJobs = 2
  MaxAttempts = 1
  MaxActs = 2
  NULL = NULL
CHECK_DEADLOCK FALSE
INVARIANTS
  TypeOK
  SettledPageShowsItsRoute
PROPERTIES
  LeftJobStaysOut
  PageLeadsSomewhere
  LeftPagesFallSilent
  SucceededJobIsShown
