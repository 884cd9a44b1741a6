--------------------------- MODULE ParallelAssign ---------------------------
(***************************************************************************)
(* What a control-flow edge promises about the phis of its target: all of  *)
(* its moves happen at once, each reading the storage as the edge found it *)
(* (type ParallelMove, opt/parallel_copy.go).                              *)
(***************************************************************************)
CONSTANTS Loc, Const

VARIABLES moves,     \* the moves of the edge
          store,     \* the value each location holds
          finished   \* the edge has been crossed

vars == <<moves, store, finished>>

Moved(m, st, l) ==
  IF \E i \in DOMAIN m : m[i].dest = l
  THEN LET i == CHOOSE i \in DOMAIN m : m[i].dest = l
       IN  IF m[i].src \in Loc THEN st[m[i].src] ELSE m[i].src
  ELSE st[l]

\* The storage after all of the moves at once.
AllMoved(m, st) == [l \in Loc |-> Moved(m, st, l)]

Init == store = [l \in Loc |-> l] /\ finished = FALSE

Cross ==
  /\ ~finished
  /\ store' = AllMoved(moves, store)
  /\ finished' = TRUE
  /\ UNCHANGED moves

Spec == Init /\ [][Cross]_vars
=============================================================================
