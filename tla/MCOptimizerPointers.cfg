SPECIFICATION Spec
CONSTANTS
  WordMod = 16
  HostMod = 256
  MaxBlocks = 24
  MaxTiny = 8
  MaxBlocksTiny = 4
  Rounds = 10
  Programs <- StaleMCPrograms
  Inputs <- MCInputs
INVARIANTS
  BehaviourPreserved
CHECK_DEADLOCK FALSE
