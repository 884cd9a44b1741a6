SPECIFICATION Spec
CONSTANTS
  ByteMod = 4
  MaxSteps = 12
  MaxBlocks = 8
  ShortReach = 10
  RelaxPasses = 30
  Functions <- MCFunctions
  Memories <- MCMemories
INVARIANTS LinesOK CodeMeansBlocks BranchesReach
PROPERTIES Finishes
CHECK_DEADLOCK FALSE
