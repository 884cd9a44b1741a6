SPECIFICATION Spec
CONSTANTS
  Var <- MCVar
  Counters <- MCCounters
  Result = "result"
  Labels <- MCLabels
  MaxStatements = 4
  MaxNesting = 2
  MaxClauses = 2
  MaxReads = 40
  BackwardGoto = FALSE
CHECK_DEADLOCK FALSE
INVARIANTS
  TypeOK
  ReadsEnd
  OneOperandPerEdge
  UsesSeeLastAssignment
