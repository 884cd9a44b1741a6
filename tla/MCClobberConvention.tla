------------------------ MODULE MCClobberConvention ------------------------
(***************************************************************************)
(* Every call graph over main, p and q, recursion included, with every     *)
(* choice of who copies and who allocates Y, q exported or its address     *)
(* taken; and programs in which main calls p, p calls q through a pointer  *)
(* and q calls c.                                                          *)
(***************************************************************************)
EXTENDS ClobberConvention

MCFunc == {"main", "p", "q", "c"}

\* Nobody calls main.
Graphs ==
  {c \in [MCFunc -> SUBSET {"p", "q"}] : c["main"] # {} /\ c["c"] = {}}

Chain == [f \in MCFunc |->
            CASE f = "main" -> {"p"} [] f = "q" -> {"c"} [] OTHER -> {}]

\* A function that copies has no value of its own in Y.
Pooled(programs) == {p \in programs : p.keeps \cap p.copies = {}}

GraphPrograms ==
  Pooled({[callees |-> c, indirect |-> i, taken |-> t, linked |-> l,
           copies |-> w, keeps |-> k] :
            c \in Graphs, i \in SUBSET {"p"}, t \in SUBSET {"q"}, l \in SUBSET {"q"},
            w \in SUBSET {"main", "p", "q"}, k \in SUBSET {"main", "p"}})

PointerPrograms ==
  Pooled({[callees |-> Chain, indirect |-> {"p"}, taken |-> {"q"}, linked |-> {},
           copies |-> w, keeps |-> k] :
            w \in SUBSET {"q", "c"}, k \in SUBSET {"main", "p", "q"}})

AllPrograms == GraphPrograms \cup PointerPrograms
=============================================================================
