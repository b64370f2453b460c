CONSTANTS
  s1 = s1  s2 = s2
  Sources <- OneSource
  Lines = 1  MaxTries = 2  ChanCap = 1  FlushSize = 1
  Op = "count"  IsSink = FALSE
  MaxCrashes = 1  MaxJobs = 1  HydfsFails = FALSE
  Slow <- OnTime
SPECIFICATION Spec
INVARIANT RecoveredIsCounted
CHECK_DEADLOCK FALSE
