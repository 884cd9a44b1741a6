---------------------------- MODULE MCPhiLowering ----------------------------
(***************************************************************************)
(* Blocks with two predecessors and up to three phis, over the registers,  *)
(* two words, two bytes and three slices (six bytes).                      *)
(***************************************************************************)
EXTENDS PhiLowering

Words  == {"m", "n"}
Bytes  == {"b", "c"}
Slices == {"s", "t", "r"}

MCReg   == {"u", "y"}
MCConst == {"k"}

\* Phis that fit a register.
NarrowLoc      == MCReg \cup Words \cup Bytes
NarrowWidth    == [l \in NarrowLoc |-> IF l \in Bytes THEN 1 ELSE 2]
NarrowPhiLists == {<<"u", "y", "m">>, <<"m", "n", "b">>, <<"b", "c">>}

\* Phis of slice type; a function that copies slices keeps Y out of the pool.
WideLoc      == {"u"} \cup Slices
WideWidth    == [l \in WideLoc |-> IF l \in Slices THEN 6 ELSE 2]
WidePhiLists == {<<"s", "t">>, <<"s", "t", "r">>}

OnlyU == {"u"}
=============================================================================
