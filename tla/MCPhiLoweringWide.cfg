SPECIFICATION LSpec
CONSTANTS
  Loc <- WideLoc
  Const <- MCConst
  MaxMoves = 3
  Reg <- OnlyU
  Width <- WideWidth
  PhiLists <- WidePhiLists
  Torn = Torn
  Unset = Unset
INVARIANT EdgeIsParallel
