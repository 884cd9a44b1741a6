SPECIFICATION LSpec
CONSTANTS
  Loc <- NarrowLoc
  Const <- MCConst
  MaxMoves = 3
  Reg <- MCReg
  Width <- NarrowWidth
  PhiLists <- NarrowPhiLists
  Torn = Torn
  Unset = Unset
INVARIANTS
  LTypeOK
  EdgeIsParallel
  FrameIntact
  ScratchOnlyForCycles
