CONSTANTS
  s1 = s1  s2 = s2
  Sources <- TwoSources
  Lines = 2  MaxTries = 2  ChanCap = 1  FlushSize = 1
  Op = "pass"  IsSink = FALSE
  MaxCrashes = 1  MaxJobs = 1  HydfsFails = TRUE
  Slow <- LateAcks
SPECIFICATION Spec
INVARIANT ExactlyOnceOutput
PROPERTY NothingAfterEOF
CHECK_DEADLOCK FALSE
