--------------------------- MODULE CodeEmission ---------------------------
(***************************************************************************)
(* From the blocks of a function to the bytes of its code: the backend     *)
(* emits lines, peepholeOptimize rewrites them until nothing changes, and  *)
(* the assembler (cmd/asm6809/main.go) gives every line an address, turning*)
(* long branches into short ones as long as some come into reach.  The     *)
(* assembler is run with -relax, as by default; of what it relaxes, the    *)
(* branches are modelled.                                                  *)
(***************************************************************************)
EXTENDS BlockEmission, Peephole, FiniteSets

CONSTANTS Functions,    \* the functions that are compiled
          Memories,     \* the memories, from slots to words, to run them in
          ShortReach,   \* how far a short branch reaches, 128
          RelaxPasses   \* 30

ASSUME FunctionsAssumption == \A f \in Functions : WellFormed(f)
ASSUME AssemblerAssumption == ShortReach \in Nat /\ RelaxPasses \in Nat

VARIABLES function, layout, track,
          code,      \* the lines
          stage,     \* the pass to run next
          changed,   \* whether this round of the peephole optimizer changed something
          size, pc,  \* of each line
          passes     \* of Relax

vars == <<function, layout, track, code, stage, changed, size, pc, passes>>

Init ==
  /\ function \in Functions
  /\ layout \in BOOLEAN /\ track \in BOOLEAN
  /\ code = EmitFunc([f |-> function, layout |-> layout, track |-> track])
  /\ stage = "window" /\ changed = FALSE
  /\ size = <<>> /\ pc = <<>> /\ passes = 0

-----------------------------------------------------------------------------
\* peepholeOptimize.  A pass that panics returns nothing.

PeepholePass(now, result, next) ==
  /\ stage = now
  /\ code' = IF result.panic THEN code ELSE result.code
  /\ changed' = (changed \/ result.changed)
  /\ stage' = IF result.panic THEN "panicked" ELSE next
  /\ UNCHANGED <<function, layout, track, size, pc, passes>>

Rewrite == PeepholePass("window", SlidingWindow(code), "labels")
DropLabels == PeepholePass("labels", DropUnusedLabels(code), "threads")
Thread == PeepholePass("threads", ThreadJumps(code), "unreachable")
DropDead == PeepholePass("unreachable", DropUnreachable(code), "round")

NextRound ==
  /\ stage = "round" /\ changed
  /\ stage' = "window" /\ changed' = FALSE
  /\ UNCHANGED <<function, layout, track, code, size, pc, passes>>

-----------------------------------------------------------------------------
\* The assembler.

\* setupInstruction: branches start long, whatever their mnemonic.
InitialSize(i) ==
  CASE i.op = "label" -> 0
    [] i.op \in Jumps -> 3
    [] i.op \in Conditionals -> 4
    [] i.op \in {"tst", "clr", "rts"} -> 1
    [] i.op \in {"ldimm", "add"} -> IF i.r = "b" THEN 2 ELSE 3
    [] i.op = "cmpd" -> 4
    [] i.op = "jsr" -> 3
    [] OTHER -> 2

\* The addresses that lines of these sizes have.
Layout(sizes) ==
  LET after[j \in 0 .. Len(sizes)] == IF j = 0 THEN 0 ELSE after[j - 1] + sizes[j]
  IN [j \in DOMAIN sizes |-> after[j - 1]]

Symbols(at) == [l \in LabelsOf(code) |-> at[SelectInSeq(code, LAMBDA i : i = Label(l))]]

Assemble ==
  /\ stage = "round" /\ ~changed
  /\ size' = [j \in DOMAIN code |-> InitialSize(code[j])]
  /\ pc' = Layout(size')
  /\ stage' = "relax"
  /\ UNCHANGED <<function, layout, track, code, changed, passes>>

\* The offset that a short branch at line j would have.
Offset(at, symbols, j) == symbols[code[j].to] - (at[j] + 2)

\* The test of encodeStatement.
InRange(at, symbols, j) ==
  Offset(at, symbols, j) >= -ShortReach /\ Offset(at, symbols, j) < ShortReach

ShortBranchesInRange(at) ==
  LET symbols == Symbols(at)
  IN \A j \in DOMAIN code : code[j].op \in Branches /\ size[j] = 2 => InRange(at, symbols, j)

\* Mutant: one byte too far.
ReachesTooFar(at, symbols, j) ==
  Offset(at, symbols, j) >= -ShortReach - 1 /\ Offset(at, symbols, j) < ShortReach

\* The test of Relax, where symbols may stand a few bytes beyond their last place.
Reaches(at, symbols, j) ==
  Offset(at, symbols, j) >= -ShortReach /\ Offset(at, symbols, j) < ShortReach

\* A pass of Relax; the addresses are those at its start.
Relax ==
  LET at == Layout(size)
      symbols == Symbols(at)
      Shrinks(j) == code[j].op \in Branches /\ size[j] > 2 /\ Reaches(at, symbols, j)
      shrunk == {j \in DOMAIN code : Shrinks(j)}
  IN /\ stage = "relax" /\ passes < RelaxPasses
     /\ pc' = at
     /\ size' = [j \in DOMAIN code |-> IF j \in shrunk THEN 2 ELSE size[j]]
     /\ passes' = passes + 1
     /\ stage' = IF shrunk = {} THEN "encode" ELSE "relax"
     /\ UNCHANGED <<function, layout, track, code, changed>>

\* encodeStatement: a short branch out of range is an error.
Encode ==
  /\ stage = "encode" \/ (stage = "relax" /\ passes = RelaxPasses)
  /\ stage' = IF ShortBranchesInRange(pc) THEN "encoded" ELSE "out of range"
  /\ UNCHANGED <<function, layout, track, code, changed, size, pc, passes>>

Next == Rewrite \/ DropLabels \/ Thread \/ DropDead \/ NextRound \/ Assemble \/ Relax \/ Encode

Stages == {"window", "labels", "threads", "unreachable", "round", "relax", "encode"}
Ends == {"encoded", "out of range", "panicked"}

\* The compiler and the assembler are sequential programs that run to their end.
\* Every step of Next enters another stage or counts a pass, and one is possible
\* before the end: this says WF_vars(Next) without computing what a step does.
Proceeds == stage \in Stages /\ stage' \in Stages \cup Ends /\ passes' \in 0 .. RelaxPasses

Spec == Init /\ [][Next]_vars /\ WF_<<stage, passes>>(Proceeds)

-----------------------------------------------------------------------------
\* The type invariant: the code is a list of lines, and every label that a branch goes
\* to stands in it, once, whatever the peephole passes removed.
LinesOK ==
  /\ stage \in Stages \cup Ends
  /\ {layout, track, changed} \subseteq BOOLEAN
  /\ code \in Seq(Lines)
  /\ \A l \in TargetsOf(code, Branches) :
       Cardinality({j \in DOMAIN code : code[j] = Label(l)}) = 1
  /\ passes \in 0 .. RelaxPasses
  /\ DOMAIN size \in {{}, DOMAIN code}

\* The code does what the blocks mean, after emission in either layout, before
\* every round of the peephole optimizer and after the last: it makes the same
\* calls, with the same values, returns the same result and leaves the stack as it
\* was, and it goes on for ever only if the blocks do.
CodeMeansBlocks ==
  stage = "window" \/ (stage = "relax" /\ passes = 0) =>
    \A mem \in Memories :
      LET meaning == Meaning(function, mem)
          outcome == Outcome(code, mem)
      IN /\ outcome.done = meaning.done
         /\ meaning.done => /\ outcome.seen = meaning.seen
                            /\ outcome.stack = <<>>
                            /\ meaning.result \in {outcome.result, NoResult}
         /\ IsPrefix(meaning.seen, outcome.seen) \/ IsPrefix(outcome.seen, meaning.seen)

\* In the bytes that are written the lines follow each other without a gap, each
\* where its address says, and every short branch can reach its label from there.
\* Long branches became short one pass before the lines moved.
BranchesReach ==
  stage \in {"encoded", "out of range"} =>
    pc = Layout(size) /\ ShortBranchesInRange(pc)

\* The rounds of the peephole optimizer, which nothing bounds, and the passes of the
\* assembler come to an end, without a panic or an error.
Finishes == <>(stage = "encoded")
=============================================================================
