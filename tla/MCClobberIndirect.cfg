SPECIFICATION Spec
CONSTANTS
  Func <- MCFunc
  Main = "main"
  Programs <- PointerPrograms
  MaxDepth = 4
  Junk = Junk
INVARIANT LiveYIntact
