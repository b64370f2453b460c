CONSTANTS
  a = a
  b = b
  c = c
  Hosts <- TwoHosts
  Introducer = a
  MaxVersion <- BothRejoin
  MaxCounter = 0
  MaxRetries = 2
  MaxNet = 1
  Leavers <- NoHost
  LateHosts <- NoHost
  SlowCleanup = FALSE
SPECIFICATION Spec
INVARIANTS
  OnlySilentAreFailed
  SelfIsListed
CHECK_DEADLOCK FALSE
