CONSTANTS
  src = src  w1 = w1  w2 = w2
  Workers <- TwoWorkers
  Fixed <- OneSource
  NumTasks = 1  MaxKills = 2  MaxDeaths = 0  MaxScales = 0
SPECIFICATION FairSpec
INVARIANTS JobEndsOnce OneProcessPerTask ProcessesAreRouted UndisturbedJobEndsComplete
PROPERTY JobEnds
CHECK_DEADLOCK FALSE
