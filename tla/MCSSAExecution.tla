--------------------------- MODULE MCSSAExecution ---------------------------
(***************************************************************************)
(* Every function over two variables of up to a few statements, nested     *)
(* twice: loops and switches in loops, jumps out of both, gotos out of and *)
(* into them, and conditions that branch themselves.                       *)
(***************************************************************************)
EXTENDS SSAExecution

MCVar == {"x", "y"}
MCLabels == {"l"}
MCCounters == <<"i", "j">>
=============================================================================
