CONSTANTS
  src = src  w1 = w1  w2 = w2
  Workers <- TwoWorkers
  Fixed <- NoSource
  NumTasks = 2  MaxKills = 0  MaxDeaths = 1  MaxScales = 2
SPECIFICATION Spec
INVARIANTS TypeOK StageKeepsTarget
SYMMETRY Symmetry
CHECK_DEADLOCK FALSE
