CONSTANTS
  a = a
  b = b
  c = c
  Hosts <- ThreeHosts
  Introducer = a
  MaxVersion <- OneLife
  MaxCounter = 0
  MaxRetries = 1
  MaxNet = 1
  Leavers <- NoHost
  LateHosts <- NoHost
  SlowCleanup = TRUE
SPECIFICATION FairSpec
PROPERTIES
  Completeness
  Convergence
CHECK_DEADLOCK FALSE
