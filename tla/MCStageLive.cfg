CONSTANTS
  s1 = s1  s2 = s2
  Sources <- TwoSources
  Lines = 1  MaxTries = 2  ChanCap = 1  FlushSize = 1
  Op = "count"  IsSink = FALSE
  MaxCrashes = 0  MaxJobs = 2  HydfsFails = TRUE
  Slow <- LateSources
SPECIFICATION FairSpec
PROPERTY Finishes
CHECK_DEADLOCK FALSE
