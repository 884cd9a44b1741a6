---------------------------- MODULE MCOptimizer ----------------------------
\* The programs that the store-load pass gets wrong, with all passes on.
EXTENDS Optimizer, MCFunctions

StaleMCPrograms ==
  {[fn |-> p.fn, callee |-> p.callee, configs |-> {ToSet(Order) \cup {"Inline"}}] : p \in StalePrograms}

MCInputs == {<<x, y>> : x \in {0, 1, 3}, y \in {0, 2}}
=============================================================================
