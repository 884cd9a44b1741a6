SPECIFICATION Spec
CONSTANTS
  Var <- MCVar
  Counters <- MCCounters
  Result = "result"
  Labels <- MCLabels
  MaxStatements = 4
  MaxNesting = 2
  MaxClauses = 2
  MaxReads = 40
  BackwardGoto = TRUE
CHECK_DEADLOCK FALSE
INVARIANT UsesSeeLastAssignment
