---------------------------- MODULE MCCopyMachine ----------------------------
(***************************************************************************)
(* Every list of up to four moves over four locations and one constant:    *)
(* chains, shared sources, two-cycles, two disjoint two-cycles, three- and *)
(* four-cycles, and cycles with readers outside them.                      *)
(***************************************************************************)
EXTENDS CopyMachine

MCLoc   == {"a", "b", "c", "d"}
MCConst == {"k"}
=============================================================================
