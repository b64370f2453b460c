CONSTANTS
  Handlers = {1, 2}
  Lines = 1
  Keys = 2
  Ops = {"pass", "count"}
  Targets = {1, 2}
  FirstList <- OneTarget
  Updates <- Rescaled
  MaxTries = 2
  MaxUpdates = 1
  MaxCrashes = 1
  MaxConns = 6
  Late = TRUE
SPECIFICATION FairSpec
INVARIANTS TypeOK DeliveredIsProcessed DropsNeedDeath OncePerTarget EOFIsLast
PROPERTY EmitReturns
CHECK_DEADLOCK FALSE
