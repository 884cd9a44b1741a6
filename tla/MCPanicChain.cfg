SPECIFICATION Spec
CONSTANTS
  N = 3
  MaxCalls = 10
  Programs <- MCPrograms
INVARIANTS
  TypeOK
  CallersHandlersKept
  NoStrayJump
PROPERTIES
  CarefulReturnRestoresChain
  LeavingRunsActions
  RecoverContinuesExit
  Termination
