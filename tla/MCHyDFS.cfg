CONSTANTS
  Nodes = {2, 4, 6, 8}
  Started = {2, 4, 6}
  Introducer = 6
  Clients = {4}
  NumReplicas = 2
  FileHash = 7
  Grain = 4
  MaxCreates = 1
  MaxAppends = 2
  MaxMerges = 1
  MaxCrashes = 2
  MaxEvents = 4
  Overlaps = {"crash"}
  LateAppends = TRUE
SPECIFICATION Spec
INVARIANTS
  TypeOK
  AckMeansStored
  KeepsWrites
  MergeReconciles
  Rereplicated
  FileSurvives
  OrderPerClient
CHECK_DEADLOCK FALSE
