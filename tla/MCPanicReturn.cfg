SPECIFICATION Spec
CONSTANTS
  N = 2
  MaxCalls = 10
  Programs <- ReturningPrograms
PROPERTIES
  ReturnRestoresChain
