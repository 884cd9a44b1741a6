SPECIFICATION Spec
CONSTANTS
  Func <- MCFunc
  Main = "main"
  Programs <- AllPrograms
  MaxDepth = 4
  Junk = Junk
INVARIANTS
  TypeOK
  SummaryExact
  CallersKeepY
