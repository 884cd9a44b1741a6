SPECIFICATION ASpec
CONSTANTS
  WordMod = 16
  HostMod = 256
  MaxBlocks = 24
  MaxTiny = 8
  MaxBlocksTiny = 4
  Rounds = 10
  Junk = Junk
  Programs <- MCPrograms
  Inputs <- MCInputs
  RunInputs <- MCRunInputs
  Pools <- MCPools
INVARIANTS
  TypeOK
  EdgesInStep
  UsesComputed
  BehaviourPreserved
  SettlesBeforeCap
  ATypeOK
  ReadsRight
  EdgesRight
  ReturnsAsWritten
CHECK_DEADLOCK FALSE
