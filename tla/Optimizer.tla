----------------------------- MODULE Optimizer -----------------------------
(***************************************************************************)
(* The optimizer (opt/opt.go, OptimizeProgram) on a function and another   *)
(* that it calls: inlining, then the enabled passes in a fixed order,      *)
(* again and again until a round changes nothing or the tenth is over.     *)
(* Each inlined call and each pass is a step.  What may go wrong is in the *)
(* sequence: a pass leaves a function that another pass, or the same one a *)
(* round later, was not written for.                                       *)
(***************************************************************************)
EXTENDS Inliner

CONSTANTS Programs,  \* [fn, callee, configs]: the functions, the sets of enabled passes
          Inputs,    \* the arguments to run a function with: sequences of words
          Rounds     \* 10

ASSUME DriverAssumption == Rounds \in Nat \ {0}

Order == <<"StoreLoad", "LICM", "ConstFold", "DBE", "DCE", "CopyProp", "CSE",
           "StrengthRed", "PhiSimp", "BranchFold">>

VARIABLES fn,       \* the function
          callee,   \* the function it calls
          want,     \* what fn did when it came from the builder, for each input
          config,   \* the enabled passes, "Inline", and "M6809" for that backend
          stage,    \* "start", "inline", "passes"
          pos,      \* the pass to run
          round,    \* which round this is
          changed   \* whether a pass of this round reported a change

vars == <<fn, callee, want, config, stage, pos, round, changed>>

Init ==
  /\ \E p \in Programs : fn = p.fn /\ callee = p.callee /\ config \in p.configs
  /\ want = [arg \in Inputs |-> Behaviour(fn, callee, arg)]
  /\ stage = "start" /\ pos = 1 /\ round = 1 /\ changed = FALSE

\* InlinePass cleans up every function first.
Start ==
  /\ stage = "start"
  /\ IF "Inline" \in config
       THEN stage' = "inline" /\ fn' = Cleanup(fn) /\ callee' = Cleanup(callee)
       ELSE stage' = "passes" /\ UNCHANGED <<fn, callee>>
  /\ UNCHANGED <<want, config, pos, round, changed>>

InlineNow == InsideCalls(fn) # {} /\ Inlinable(callee, Cardinality(InsideCalls(fn)))

InlineCall ==
  /\ stage = "inline" /\ InlineNow
  /\ fn' = InlineFirst(fn, callee)
  /\ UNCHANGED <<callee, want, config, stage, pos, round, changed>>

InlineDone ==
  /\ stage = "inline" /\ ~InlineNow
  /\ stage' = "passes"
  /\ UNCHANGED <<fn, callee, want, config, pos, round, changed>>

Passes == SelectSeq(Order, LAMBDA p : p \in config)

At(p) == stage = "passes" /\ pos <= Len(Passes) /\ Passes[pos] = p

Run(result) ==
  /\ fn' = result.fn
  /\ changed' = (changed \/ result.changed)
  /\ pos' = pos + 1
  /\ UNCHANGED <<callee, want, config, stage, round>>

StoreLoad == At("StoreLoad") /\ Run(StoreLoadForwardingPass(fn))
LICM == At("LICM") /\ Run(OnGraph(fn, LICMPass(fn)))
ConstFold == At("ConstFold") /\ Run(ConstFoldPass(fn))
DBE == At("DBE") /\ Run(OnGraph(fn, DBEPass(fn)))
DCE == At("DCE") /\ Run(DCEPass(fn))
CopyProp == At("CopyProp") /\ Run(CopyPropPass(fn))
CSE == At("CSE") /\ Run(CSEPass(fn))
StrengthRed == At("StrengthRed") /\ Run(StrengthReductionPass(fn))
PhiSimp == At("PhiSimp") /\ Run(PhiSimpPass(fn))
BranchFold == At("BranchFold") /\ Run(OnGraph(fn, BranchFoldPass(fn)))

RoundOver == stage = "passes" /\ pos > Len(Passes)

NextRound ==
  /\ RoundOver /\ changed /\ round < Rounds
  /\ round' = round + 1 /\ pos' = 1 /\ changed' = FALSE
  /\ UNCHANGED <<fn, callee, want, config, stage>>

Finished == RoundOver /\ (~changed \/ round = Rounds)

Next ==
  \/ Start \/ InlineCall \/ InlineDone
  \/ StoreLoad \/ LICM \/ ConstFold \/ DBE \/ DCE
  \/ CopyProp \/ CSE \/ StrengthRed \/ PhiSimp \/ BranchFold
  \/ NextRound

Spec == Init /\ [][Next]_vars /\ WF_vars(Next)

-----------------------------------------------------------------------------
\* Properties of the function as long as the optimizer has it.

Optimizing == stage \in {"start", "inline", "passes"}

\* A function keeps its shape: blocks, code, terminators and objects refer to
\* each other.
TypeOK ==
  Optimizing =>
  /\ IsInjective(fn.blocks) /\ fn.blocks # <<>>
  /\ \A b \in BlockSet(fn) :
       /\ ToSet(fn.code[b]) \cup {fn.term[b]} \subseteq DOMAIN fn.ins
       /\ IsInjective(fn.code[b])
       /\ Term(fn, b).op \in Terminators
  /\ \A v \in Placed(fn) : ToSet(fn.ins[v].args) \subseteq DOMAIN fn.ins
  /\ pos \in 1 .. Len(Passes) + 1 /\ round \in 1 .. Rounds /\ changed \in BOOLEAN

\* Whatever passes ran, a function that comes from the builder still makes the
\* same calls, passing what it passed, and returns what it returned: on every
\* input on which it returned at all (a division by zero whose result is not
\* used may go, none may come).
BehaviourPreserved ==
  Optimizing =>
  \A arg \in Inputs : want[arg].done => Behaviour(fn, callee, arg) = want[arg]

\* Successors, predecessors and phi operands stay in step, whichever pass last
\* took an edge away or moved one.
EdgesInStep == Optimizing => Consistent(fn)

\* No pass leaves a use of a value before its computation, or of one it deleted.
UsesComputed == Optimizing => UsesDominated(fn)

\* The ten rounds are enough: with dead code elimination to clear away what the
\* other passes leave behind (they report it again every round), the driver
\* stops because a round changed nothing.
SettlesBeforeCap == Finished /\ "DCE" \in config => ~changed
=============================================================================
