SPECIFICATION FairSpec
CONSTANTS
  Loc <- MCLoc
  Const <- MCConst
  MaxMoves = 4
  Unset = Unset
INVARIANTS
  TypeOK
  NoLostCopy
  TraceClosesAtStart
PROPERTIES
  ImplementsParallelAssign
  Terminates
