CONSTANTS
  ID = {n1, n2, n3}
  MaxCounter = 1
SPECIFICATION Spec
SYMMETRY Symmetry
INVARIANTS
  TypeOK
  IndexInBounds
  NoRepeatInRound
  OnlyRevivedUnlisted
PROPERTY FailedIsSticky
