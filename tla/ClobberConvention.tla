------------------------- MODULE ClobberConvention -------------------------
(***************************************************************************)
(* Who preserves register Y across a call (m6809/clobber.go, regalloc.go   *)
(* and backend.go).  The compiler first summarises, over the call graph,   *)
(* which registers each function clobbers; it then keeps a value in Y      *)
(* across a call only if the summary of the callee has no Y, and leaves    *)
(* the save of Y out of the prologue of every function that only its known *)
(* callers can reach.  The generated program is then run as a stack of     *)
(* activations sharing one register Y.                                     *)
(*                                                                         *)
(* The configuration is the default one: no globals at Y, registers        *)
(* allocated.  D, X and the condition codes, which every call clobbers,    *)
(* are one element "dx" of a mask; U is saved by whoever allocates it.     *)
(* A function without a body here (a C library or a runtime helper reached *)
(* by ir.Call) keeps Y, as HelperClobbers says, and is not in the graph.   *)
(***************************************************************************)
EXTENDS Naturals, Sequences

CONSTANTS Func,      \* the functions of the program
          Main,      \* where execution starts
          Programs,  \* the programs considered
          MaxDepth,  \* the deepest stack of activations considered
          Junk       \* what a multi-byte copy leaves in Y

Mask == SUBSET {"dx", "y"}

\* What the analysis and the prologues look at in a program.
Program ==
  [callees  : [Func -> SUBSET Func],  \* ir.Call
   indirect : SUBSET Func,            \* functions with an ir.IndirectCall
   taken    : SUBSET Func,            \* funcAddressTaken
   linked   : SUBSET Func,            \* Linkage # ""
   copies   : SUBSET Func,            \* functionClobbersY: multi-byte copies
   keeps    : SUBSET Func]            \* some value of theirs is allocated to Y

ASSUME FuncAssumption == Main \in Func /\ Junk \notin Nat
ASSUME ProgramsAssumption == Programs \subseteq Program
\* AllocateRegisters: a function that clobbers Y itself has no Y to allocate.
ASSUME PoolAssumption == \A p \in Programs : p.keeps \cap p.copies = {}
ASSUME DepthAssumption == MaxDepth \in Nat \ {0}

VARIABLES
  prog,    \* the program compiled, never changed
  total,   \* TotalClobbers
  phase,   \* "analyze", then "run"
  stack,   \* the activations, the running one last
  y        \* register Y: the depth of the activation whose value it holds

vars == <<prog, total, phase, stack, y>>

-----------------------------------------------------------------------------
\* The analysis.

\* FunctionDirectClobbers, with the assumption made for indirect calls.
Base(p, f) ==
  (IF p.callees[f] # {} \/ f \in p.indirect THEN {"dx"} ELSE {})
    \cup (IF f \in p.copies THEN {"dx", "y"} ELSE {})

Init ==
  /\ prog \in Programs
  /\ total = [f \in Func |-> Base(prog, f)]
  /\ phase = "analyze"
  /\ stack = <<>> /\ y = 0

\* One step of the fixed point; the callees are a Go map, in no fixed order.
Propagate(f, g) ==
  /\ phase = "analyze"
  /\ g \in prog.callees[f]
  /\ ~(total[g] \subseteq total[f])
  /\ total' = [total EXCEPT ![f] = @ \cup total[g]]
  /\ UNCHANGED <<prog, phase, stack, y>>

Activation(f) == [fn |-> f, entry |-> y, live |-> FALSE]

\* Mutant: code is generated before the summaries are settled.
StartUnsettled ==
  /\ phase = "analyze"
  /\ phase' = "run"
  /\ stack' = <<Activation(Main)>>
  /\ UNCHANGED <<prog, total, y>>

\* Nothing changed in a whole round: code is generated and the program started.
Start ==
  /\ phase = "analyze"
  /\ \A f \in Func : \A g \in prog.callees[f] : total[g] \subseteq total[f]
  /\ phase' = "run"
  /\ stack' = <<Activation(Main)>>
  /\ UNCHANGED <<prog, total, y>>

-----------------------------------------------------------------------------
\* The code generated.

CallerAvoidsY(f) == f \notin prog.taken /\ f \notin prog.linked

\* Mutant: a function that has values in Y does not save it either.
SavesYCopiesOnly(f) == ~CallerAvoidsY(f) /\ f \in prog.copies

\* The prologue pushes Y and the epilogue pulls it.
SavesY(f) == f \in prog.keeps \/ (~CallerAvoidsY(f) /\ f \in prog.copies)

\* computeRegisterInterferences: a value of f may stay in Y across a call of g.
MayKeep(f, g) == f \in prog.keeps /\ "y" \notin total[g]

Top == stack[Len(stack)]

Running == phase = "run" /\ stack # <<>>

\* A multi-byte copy uses Y as its source pointer.
Copy ==
  /\ Running
  /\ Top.fn \in prog.copies
  /\ y' = Junk
  /\ UNCHANGED <<prog, total, phase, stack>>

\* A value whose life crosses no call goes to Y and is done with.
Work ==
  /\ Running
  /\ Top.fn \in prog.keeps
  /\ y' = Junk
  /\ stack' = [stack EXCEPT ![Len(stack)].live = FALSE]
  /\ UNCHANGED <<prog, total, phase>>

\* Top calls g, possibly with a value of its own in Y that it needs afterwards:
\* one it puts there now, or one it already had there.
Enter(g, live) ==
  /\ Len(stack) < MaxDepth
  /\ y' = IF live THEN Len(stack) ELSE y
  /\ stack' = Append([stack EXCEPT ![Len(stack)].live = live],
                     [fn |-> g, entry |-> y', live |-> FALSE])
  /\ UNCHANGED <<prog, total, phase>>

Call(g) ==
  /\ Running
  /\ g \in prog.callees[Top.fn]
  /\ \E live \in IF MayKeep(Top.fn, g) THEN BOOLEAN ELSE {FALSE} : Enter(g, live)

\* An indirect call counts as clobbering Y for the values of the function that
\* makes it, so none stays there.
IndirectCall(g) ==
  /\ Running
  /\ Top.fn \in prog.indirect
  /\ g \in prog.taken
  /\ Enter(g, FALSE)

\* Mutant: the last activation returns too.
ReturnAlways ==
  /\ Running
  /\ y' = IF SavesY(Top.fn) THEN Top.entry ELSE y
  /\ stack' = SubSeq(stack, 1, Len(stack) - 1)
  /\ UNCHANGED <<prog, total, phase>>

Return ==
  /\ Running /\ Len(stack) > 1
  /\ y' = IF SavesY(Top.fn) THEN Top.entry ELSE y
  /\ stack' = SubSeq(stack, 1, Len(stack) - 1)
  /\ UNCHANGED <<prog, total, phase>>

Next ==
  \/ \E f, g \in Func : Propagate(f, g)
  \/ Start
  \/ Copy \/ Work \/ Return
  \/ \E g \in Func : Call(g) \/ IndirectCall(g)

Spec == Init /\ [][Next]_vars

-----------------------------------------------------------------------------
\* Types; the program never runs out of activations.
TypeOK ==
  /\ prog \in Programs
  /\ total \in [Func -> Mask]
  /\ phase \in {"analyze", "run"}
  /\ stack \in Seq([fn : Func, entry : Nat \cup {Junk}, live : BOOLEAN])
  /\ phase = "run" => stack # <<>>
  /\ y \in Nat \cup {Junk}

\* The functions a call of f may run, by calls the analysis follows.
Reached(p, f) ==
  {g \in Func :
     \A S \in SUBSET Func :
       (f \in S /\ \A h \in S : p.callees[h] \subseteq S) => g \in S}

\* When code is generated a summary is exactly what the function and everything
\* it reaches clobber, in whatever order the propagation went
\* (AnalyzeProgramClobbers, "to a fixed point"): recursion included.
SummaryExact ==
  phase = "run" =>
    \A f \in Func : total[f] = UNION {Base(prog, g) : g \in Reached(prog, f)}

\* A value that an activation needs after a call is still in Y when the call
\* returns, whoever ran in between: what one function leaves unsaved no caller
\* that has something to lose calls ("callers avoid keeping variables in Y
\* across calls to them", perf/perf1/optimization-ideas.md).
LiveYIntact == (Running /\ Top.live) => y = Len(stack)

\* Whatever is called through a pointer gives Y back.
PointersKeepY == \A f \in prog.taken : SavesY(f) \/ "y" \notin total[f]

\* The condition under which the convention works: a call through a pointer is
\* the one thing that a summary does not follow, so what it reaches must give
\* Y back by itself.  No caller then loses a value it left in Y.
CallersKeepY == PointersKeepY => LiveYIntact
=============================================================================
