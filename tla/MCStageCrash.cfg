CONSTANTS
  s1 = s1  s2 = s2
  Sources <- TwoSources
  Lines = 2  MaxTries = 2  ChanCap = 1  FlushSize = 1
  Op = "count"  IsSink = TRUE
  MaxCrashes = 1  MaxJobs = 1  HydfsFails = TRUE
  Slow <- LateAcks
SPECIFICATION Spec
INVARIANTS TypeOK LogIsTruthful AckMeansApplied NoDoubleCount
PROPERTY ImplementsDelivery
SYMMETRY Symmetry
CHECK_DEADLOCK FALSE
