CONSTANTS
  a = a
  b = b
  c = c
  Hosts <- TwoHosts
  Introducer = a
  MaxVersion <- PeerRejoins
  MaxCounter = 1
  MaxRetries = 1
  MaxNet = 1
  Leavers <- OnlyB
  LateHosts <- OnlyB
  SlowCleanup = FALSE
SPECIFICATION Spec
INVARIANTS
  TypeOK
  BeatsAreReal
  TargetsAreLive
CHECK_DEADLOCK FALSE
