SPECIFICATION Spec
CONSTANTS
  MaxRows = 5
  MaxTime = 2
  TicksPerMs = 2
  Limit = 2
CHECK_DEADLOCK FALSE
INVARIANT VisitsEveryAnalysis
