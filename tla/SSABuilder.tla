----------------------------- MODULE SSABuilder -----------------------------
(***************************************************************************)
(* The construction of SSA form while the control-flow graph is still      *)
(* being built (ir/builder.go, after Braun et al.): statements are lowered *)
(* in source order, blocks are sealed once their predecessors are known,   *)
(* and a read in a block that is not sealed yet leaves an incomplete phi   *)
(* for sealBlock to fill in.                                               *)
(*                                                                         *)
(* The source program is not given: at every step any statement, or any    *)
(* part of the expression being evaluated, that may come next in a         *)
(* well-formed function is lowered.  Code that follows a return in the     *)
(* same block is left out of the programs considered.  The recursion of    *)
(* buildStatement and buildExpr is the stack "open".                       *)
(***************************************************************************)
EXTENDS Naturals, Sequences

CONSTANTS Var,           \* the source variables, parameters all of them
          Counters,      \* hidden index variables of range loops, one per nesting level
          Result,        \* stands for the value of a condition being evaluated
          Labels,        \* names of goto labels
          MaxStatements, \* the longest source program considered
          MaxNesting,    \* the deepest nesting of statements considered
          MaxClauses,    \* the most clauses of a switch considered
          MaxReads,      \* the most steps that a read of a variable may take
          BackwardGoto   \* whether a goto may follow its label

ASSUME ReadsAssumption == MaxReads \in Nat

VARIABLES
  fn,        \* the function being built and its SSA bookkeeping
  open,      \* the statements entered and not left yet, innermost last
  labelled,  \* labelBlocks: the block of every label seen
  placed,    \* the labels whose statement has been lowered
  count,     \* statements lowered
  built      \* buildFunc has returned

bvars == <<fn, open, labelled, placed, count, built>>

Entry == 1
Destruct == 2   \* currentDestructBlock: where every return goes

NoValue == 0

\* What readVariable and writeVariable are called with.
Names == Var \cup {Counters[i] : i \in DOMAIN Counters} \cup {Result}

-----------------------------------------------------------------------------
\* The methods of Builder, as functions of the function b under construction:
\*   preds, succs  the edges of each block, in the order they were added
\*   sealed        sealedBlocks
\*   def           currentDef
\*   home          the block of every value, which is known by its number
\*   phis          the variable and the operands of those that are phis
\*   incomplete    incompletePhis
\*   code          the reads and writes of each block: a write without a read stores
\*                 a new value, one with a read the value read
\*   cur           currentBlock
\*   stuck         a read did not end

Blocks(b) == 1 .. b.blocks

NextValue(b) == Len(b.home) + 1

NewBlocks(b, n) ==
  LET Extended(f, new) ==
        [blk \in 1 .. b.blocks + n |-> IF blk \in Blocks(b) THEN f[blk] ELSE new]
  IN  [b EXCEPT !.blocks = b.blocks + n,
                !.preds = Extended(b.preds, <<>>), !.succs = Extended(b.succs, <<>>),
                !.def = Extended(b.def, [x \in Names |-> NoValue]),
                !.code = Extended(b.code, <<>>)]

AddEdge(b, from, to) ==
  [b EXCEPT !.succs[from] = Append(@, to), !.preds[to] = Append(@, from)]

\* Every block that has a terminator has successors, until the final Return.
Terminated(b) == b.succs[b.cur] # <<>>

JumpTo(b, to) == AddEdge(b, b.cur, to)

FallInto(b, to) == IF Terminated(b) THEN b ELSE JumpTo(b, to)

Goto(b, blk) == [b EXCEPT !.cur = blk]

WriteVariable(b, x, blk, v) == [b EXCEPT !.def[blk][x] = v]

\* Mutant: the phi is not written before its operands are read.
NewPhiUnwritten(b, x, blk, edges) ==
  LET p == NextValue(b)
  IN  [b EXCEPT !.home = Append(@, blk),
                !.phis = [q \in DOMAIN b.phis \cup {p} |->
                            IF q = p THEN [var |-> x, edges |-> edges] ELSE b.phis[q]]]

\* A phi for x, prepended to the block, with these operands.
NewPhi(b, x, blk, edges) ==
  LET p == NextValue(b)
  IN  [b EXCEPT !.home = Append(@, blk),
                !.phis = [q \in DOMAIN b.phis \cup {p} |->
                            IF q = p THEN [var |-> x, edges |-> edges] ELSE b.phis[q]],
                !.def[blk][x] = p]

-----------------------------------------------------------------------------
\* readVariable, readVariableRecursive and addPhiOperands call each other.  Here one
\* call, or one return, is a step of a machine:
\*   calls  the calls under way: of readVariableRecursive for a block with one
\*          predecessor (phi = NoValue), or of addPhiOperands for a phi
\*   at     the block the variable is to be read in, as long as
\*   val    is NoValue; then, what the innermost call returned

\* addPhiOperands reads the next operand, or returns the phi that has them all.  (The
\* phi is then stored once more by readVariableRecursive: that changes nothing.)
NextOperand(s) ==
  LET call  == s.calls[Len(s.calls)]
      preds == s.fn.preds[call.block]
      k     == Len(s.fn.phis[call.phi].edges) + 1
  IN  IF k \in DOMAIN preds THEN [s EXCEPT !.at = preds[k], !.val = NoValue]
      ELSE [s EXCEPT !.calls = SubSeq(@, 1, Len(@) - 1), !.val = call.phi]

\* readVariable finds the variable, or readVariableRecursive begins.
Lookup(s) ==
  LET b     == s.fn
      x     == s.var
      blk   == s.at
      known == b.def[blk][x]
      p     == NextValue(b)
  IN  CASE known # NoValue -> [s EXCEPT !.val = known]
        [] known = NoValue /\ blk \notin b.sealed ->
             [s EXCEPT !.fn = [NewPhi(b, x, blk, <<>>) EXCEPT !.incomplete = @ \cup {p}],
                       !.val = p]
        [] known = NoValue /\ blk \in b.sealed /\ Len(b.preds[blk]) = 1 ->
             [s EXCEPT !.at = b.preds[blk][1],
                       !.calls = Append(@, [block |-> blk, phi |-> NoValue])]
        [] OTHER ->
             NextOperand([s EXCEPT !.fn = NewPhi(b, x, blk, <<>>),
                                   !.calls = Append(@, [block |-> blk, phi |-> p])])

\* The innermost call gets the value it waits for.
Return(s) ==
  LET call  == s.calls[Len(s.calls)]
      edges == s.fn.phis[call.phi].edges
      edge  == [from |-> s.fn.preds[call.block][Len(edges) + 1], val |-> s.val]
  IN  IF call.phi = NoValue
      THEN [s EXCEPT !.fn = WriteVariable(s.fn, s.var, call.block, s.val),
                     !.calls = SubSeq(@, 1, Len(@) - 1)]
      ELSE NextOperand([s EXCEPT !.fn.phis[call.phi].edges = Append(edges, edge)])

Ended(s) == s.val # NoValue /\ s.calls = <<>>

ReadStep(s) ==
  IF Ended(s) THEN s ELSE IF s.val = NoValue THEN Lookup(s) ELSE Return(s)

AfterReads(s) ==
  LET after[k \in 0 .. MaxReads] ==
        IF k = 0 THEN s ELSE LET before == after[k - 1] IN ReadStep(before)
  IN  after[MaxReads]

\* A read that does not end leaves the builder stuck.
Stuck(b) == [b EXCEPT !.stuck = TRUE]

ReadVariable(b, x, blk) ==
  AfterReads([fn |-> b, var |-> x, at |-> blk, val |-> NoValue, calls |-> <<>>])

AddPhiOperands(b, p) ==
  LET call == [block |-> b.home[p], phi |-> p]
      s == AfterReads(NextOperand([fn |-> b, var |-> b.phis[p].var, at |-> b.home[p],
                                   val |-> NoValue, calls |-> <<call>>]))
  IN  IF Ended(s) THEN s.fn ELSE Stuck(b)

\* Mutant: a block counts as sealed, its incomplete phis left as they are.
SealBlockOnly(b, blk) == [b EXCEPT !.sealed = @ \cup {blk}]

SealBlock(b, blk) ==
  LET filled[p \in 0 .. Len(b.home)] ==
        IF p = 0 THEN b
        ELSE LET before == filled[p - 1]
             IN  IF p \in b.incomplete /\ b.home[p] = blk /\ ~before.stuck
                 THEN AddPhiOperands(before, p)
                 ELSE before
      done == filled[Len(b.home)]
  IN  IF b.stuck \/ done.stuck THEN Stuck(b) ELSE [done EXCEPT !.sealed = @ \cup {blk}]

\* An instruction at the end of the current block, and writeVariable.
Perform(b, action) ==
  [b EXCEPT !.code[b.cur] = Append(@, action),
            !.def[b.cur] = [x \in Names |-> IF x \in action.writes THEN action.val ELSE @[x]]]

\* The variables xs get one new value.
Store(b, xs) ==
  Perform([b EXCEPT !.home = Append(@, b.cur)],
          [reads |-> {}, writes |-> xs, val |-> NextValue(b)])

\* x is read, and its value is that of the variables xs from now on.
Load(b, x, xs) ==
  LET r == ReadVariable(b, x, b.cur)
  IN  IF ~b.stuck /\ Ended(r) THEN Perform(r.fn, [reads |-> {x}, writes |-> xs, val |-> r.val])
      ELSE Stuck(b)

Use(b, x) == Load(b, x, {})

-----------------------------------------------------------------------------
\* Statements.

EmptyFunction ==
  [blocks |-> 0, preds |-> <<>>, succs |-> <<>>, def |-> <<>>, code |-> <<>>,
   sealed |-> {}, home |-> <<>>, phis |-> [p \in {} |-> 0], incomplete |-> {},
   cur |-> Entry, stuck |-> FALSE]

\* What is open: a kind and the blocks it will need, the innermost last.
Top == open[Len(open)]
In(kinds) == ~built /\ open # <<>> /\ Top.kind \in kinds

\* Where statements may come, where an expression is evaluated, and where both may
\* come except that only a simple statement may.
InBody == ~built /\ (open # <<>> => Top.kind \in {"then", "if", "for", "range", "switch"})
InExpression == In({"condition", "tests", "and", "or"})
InPost == In({"post"})

Enter(f) == Len(open) < MaxNesting /\ open' = Append(open, f)
Become(f) == open' = [open EXCEPT ![Len(open)] = f]
Leave == open' = SubSeq(open, 1, Len(open) - 1)

\* Another piece of the program, that counts for n.
Counts(n) == count + n <= MaxStatements /\ count' = count + n

\* A statement comes, and not in the dead code after a return.
ComesWorth(n) == InBody /\ ~Terminated(fn) /\ Counts(n)

Comes == ComesWorth(1)

UnchangedLabels == UNCHANGED <<labelled, placed>>

\* buildFunc up to the body: the parameters are the first values.
Init ==
  /\ fn = NewBlocks(EmptyFunction, 2)
  /\ open = <<[kind |-> "params", left |-> Var]>>
  /\ labelled = [l \in {} |-> 0] /\ placed = {}
  /\ count = 0 /\ built = FALSE

Parameter ==
  /\ In({"params"}) /\ Top.left # {}
  /\ LET x == CHOOSE x \in Top.left : TRUE
     IN  fn' = Store(fn, {x}) /\ Become([kind |-> "params", left |-> Top.left \ {x}])
  /\ UNCHANGED <<count, built>> /\ UnchangedLabels

Begin ==
  /\ In({"params"}) /\ Top.left = {}
  /\ fn' = SealBlock(fn, Entry)
  /\ Leave
  /\ UNCHANGED <<count, built>> /\ UnchangedLabels

\* x = an expression; the variables it reads have been read before.
AssignStatement(x) ==
  /\ Comes \/ (InPost /\ Counts(1))
  /\ fn' = Store(fn, {x})
  /\ UNCHANGED <<open, built>> /\ UnchangedLabels

\* x = y: the value itself gets another name.
CopyStatement(x, y) ==
  /\ Comes \/ (InPost /\ Counts(1))
  /\ fn' = Load(fn, y, {x})
  /\ UNCHANGED <<open, built>> /\ UnchangedLabels

\* A variable is read by whatever is evaluated.
UseVariable(x) ==
  /\ Comes \/ ((InPost \/ InExpression \/ In({"element", "destruct"})) /\ Counts(1))
  /\ fn' = Use(fn, x)
  /\ UNCHANGED <<open, built>> /\ UnchangedLabels

\* && and ||, their left operand evaluated: the right one has a block of its own, the
\* other block has the constant, which || evaluates first.
Logical(op) ==
  LET falseBlk == fn.blocks + 1
      trueBlk  == fn.blocks + 2
      endBlk   == fn.blocks + 3
      branched == JumpTo(JumpTo(NewBlocks(fn, 3), trueBlk), falseBlk)
      split    == Goto(SealBlock(SealBlock(branched, trueBlk), falseBlk), trueBlk)
  IN  /\ ComesWorth(2) \/ ((InPost \/ InExpression) /\ Counts(2))
      /\ fn' = IF op = "and" THEN split
               ELSE Goto(JumpTo(Store(split, {Result}), endBlk), falseBlk)
      /\ Enter([kind |-> op, end |-> endBlk,
                other |-> IF op = "and" THEN falseBlk ELSE trueBlk])
      /\ UNCHANGED built /\ UnchangedLabels

\* The right operand has a value: a new one, or that of the && or || it ends with.
RightOperand(new) == IF new THEN Store(fn, {Result}) ELSE fn

\* The phi that joins the two, made without readVariable.
Joined(b, blk, from1, from2) ==
  LET Edge(from) == [from |-> from, val |-> b.def[from][Result]]
  IN  Perform(NewPhi(b, Result, blk, <<Edge(from1), Edge(from2)>>),
              [reads |-> {Result}, writes |-> {}, val |-> NextValue(b)])

EndAnd(new) ==
  /\ In({"and"}) /\ (~new => fn.def[fn.cur][Result] # NoValue)
  /\ LET right == JumpTo(RightOperand(new), Top.end)
         other == JumpTo(Store(Goto(right, Top.other), {Result}), Top.end)
         after == Goto(SealBlock(other, Top.end), Top.end)
     IN  fn' = Joined(after, Top.end, fn.cur, Top.other)
  /\ Leave
  /\ UNCHANGED <<count, built>> /\ UnchangedLabels

EndOr(new) ==
  /\ In({"or"}) /\ (~new => fn.def[fn.cur][Result] # NoValue)
  /\ LET right == JumpTo(RightOperand(new), Top.end)
         after == Goto(SealBlock(right, Top.end), Top.end)
     IN  fn' = Joined(after, Top.end, Top.other, fn.cur)
  /\ Leave
  /\ UNCHANGED <<count, built>> /\ UnchangedLabels

\* if: the condition branches to the consequence and to the alternative or the end.
If ==
  LET trueBlk  == fn.blocks + 1
      endBlk   == fn.blocks + 2
      branched == JumpTo(JumpTo(NewBlocks(fn, 2), trueBlk), endBlk)
  IN  /\ Comes
      /\ fn' = Goto(SealBlock(branched, trueBlk), trueBlk)
      /\ Enter([kind |-> "if", end |-> endBlk])
      /\ UNCHANGED built /\ UnchangedLabels

IfElse ==
  LET trueBlk  == fn.blocks + 1
      endBlk   == fn.blocks + 2
      falseBlk == fn.blocks + 3
      branched == JumpTo(JumpTo(NewBlocks(fn, 3), trueBlk), falseBlk)
  IN  /\ Comes
      /\ fn' = Goto(SealBlock(SealBlock(branched, trueBlk), falseBlk), trueBlk)
      /\ Enter([kind |-> "then", other |-> falseBlk, end |-> endBlk])
      /\ UNCHANGED built /\ UnchangedLabels

Else ==
  /\ In({"then"})
  /\ fn' = Goto(FallInto(fn, Top.end), Top.other)
  /\ Become([kind |-> "if", end |-> Top.end])
  /\ UNCHANGED <<count, built>> /\ UnchangedLabels

\* The end of an if, and of a switch whose last clause this was.
EndBranches ==
  /\ In({"if"}) \/ (In({"switch"}) /\ Top.rest = <<>>)
  /\ fn' = Goto(SealBlock(FallInto(fn, Top.end), Top.end), Top.end)
  /\ Leave
  /\ UNCHANGED <<count, built>> /\ UnchangedLabels

\* for: the header, where the condition begins, stays unsealed until
\* every continue and the end of the body have jumped to it.
\* With three parts there is a block for the increment, where continue goes.
For(three, condition) ==
  LET headerBlk == fn.blocks + 1
      bodyBlk   == fn.blocks + 2
      postBlk   == fn.blocks + 3
      endBlk    == IF three THEN fn.blocks + 4 ELSE fn.blocks + 3
      blocks    == NewBlocks(fn, IF three THEN 4 ELSE 3)
  IN  /\ Comes
      /\ fn' = Goto(JumpTo(blocks, headerBlk), headerBlk)
      /\ Enter([kind |-> IF condition THEN "condition" ELSE "forever", body |-> bodyBlk,
                next |-> IF three THEN postBlk ELSE headerBlk,
                header |-> headerBlk, end |-> endBlk])
      /\ UNCHANGED built /\ UnchangedLabels

ForBody ==
  /\ In({"condition", "forever"})
  /\ LET entered  == JumpTo(fn, Top.body)
         branched == IF Top.kind = "condition" THEN JumpTo(entered, Top.end) ELSE entered
     IN  fn' = Goto(SealBlock(branched, Top.body), Top.body)
  /\ Become([kind |-> "for", next |-> Top.next, header |-> Top.header, end |-> Top.end])
  /\ UNCHANGED <<count, built>> /\ UnchangedLabels

\* The end of a loop: the back edge is there, so the header can be sealed.
LoopEnd(b, loop) == Goto(SealBlock(SealBlock(b, loop.header), loop.end), loop.end)

\* Mutant: the header is sealed before the back edge is there.
EndForSealsFirst ==
  /\ In({"for"}) /\ Top.next = Top.header
  /\ LET sealed == FallInto(SealBlock(fn, Top.header), Top.header)
     IN  fn' = Goto(SealBlock(sealed, Top.end), Top.end)
  /\ Leave
  /\ UNCHANGED <<count, built>> /\ UnchangedLabels

EndFor ==
  /\ In({"for"}) /\ Top.next = Top.header
  /\ fn' = LoopEnd(FallInto(fn, Top.header), Top)
  /\ Leave
  /\ UNCHANGED <<count, built>> /\ UnchangedLabels

\* The increment, a simple statement, is built once the body is.
BeginPost ==
  /\ In({"for"}) /\ Top.next # Top.header
  /\ fn' = Goto(SealBlock(FallInto(fn, Top.next), Top.next), Top.next)
  /\ Become([kind |-> "post", header |-> Top.header, end |-> Top.end])
  /\ UNCHANGED <<count, built>> /\ UnchangedLabels

EndPost ==
  /\ InPost
  /\ fn' = LoopEnd(JumpTo(fn, Top.header), Top)
  /\ Leave
  /\ UNCHANGED <<count, built>> /\ UnchangedLabels

\* A loop over a range: a hidden counter runs through the header.  The variable in keys,
\* if any, is set with it, the one in elements at the start of the body.
RangeStatement(keys, elements) ==
  LET counter   == Counters[Len(open) + 1]
      headerBlk == fn.blocks + 1
      bodyBlk   == fn.blocks + 2
      postBlk   == fn.blocks + 3
      endBlk    == fn.blocks + 4
      started   == NewBlocks(Store(fn, keys \cup {counter}), 4)
      tested    == Use(Goto(JumpTo(started, headerBlk), headerBlk), counter)
      branched  == JumpTo(JumpTo(tested, bodyBlk), endBlk)
  IN  /\ ComesWorth(2) /\ Len(open) + 1 \in DOMAIN Counters
      /\ fn' = Goto(SealBlock(branched, bodyBlk), bodyBlk)
      /\ Enter([kind |-> "element", elements |-> elements, counter |-> counter, keys |-> keys,
                next |-> postBlk, header |-> headerBlk, end |-> endBlk])
      /\ UNCHANGED built /\ UnchangedLabels

\* The element at the counter.
Element ==
  /\ In({"element"})
  /\ fn' = IF Top.elements = {} THEN fn ELSE Store(Use(fn, Top.counter), Top.elements)
  /\ Become([kind |-> "range", counter |-> Top.counter, keys |-> Top.keys,
             next |-> Top.next, header |-> Top.header, end |-> Top.end])
  /\ UNCHANGED <<count, built>> /\ UnchangedLabels

EndRange ==
  /\ In({"range"})
  /\ LET post == Goto(SealBlock(FallInto(fn, Top.next), Top.next), Top.next)
         done == Store(Use(post, Top.counter), Top.keys \cup {Top.counter})
     IN  fn' = LoopEnd(JumpTo(done, Top.header), Top)
  /\ Leave
  /\ UNCHANGED <<count, built>> /\ UnchangedLabels

\* switch: n clauses, the default clause aside.  Every value of every clause is tested
\* in a block of its own.  The tag, a hidden variable written once, before the first
\* test, is left out.
Switch(n, default) ==
  LET endBlk    == fn.blocks + 1
      bodies    == [i \in 1 .. n |-> endBlk + i]
      otherwise == IF default THEN endBlk + n + 1 ELSE endBlk
      all       == IF default THEN Append(bodies, otherwise) ELSE bodies
      made      == NewBlocks(fn, 1 + Len(all))
  IN  /\ ComesWorth(2)
      /\ fn' = IF n = 0 THEN JumpTo(made, otherwise) ELSE made
      /\ Enter(IF n = 0 THEN [kind |-> "clauses", all |-> all, rest |-> all, end |-> endBlk]
               ELSE [kind |-> "tests", bodies |-> bodies, at |-> 1, all |-> all,
                     otherwise |-> otherwise, end |-> endBlk])
      /\ UNCHANGED built /\ UnchangedLabels

\* A value of a clause that is not the last, and the test of the same or the next clause.
Test(more) ==
  LET next == fn.blocks + 1
      branched == JumpTo(JumpTo(NewBlocks(fn, 1), Top.bodies[Top.at]), next)
  IN  /\ In({"tests"}) /\ Counts(1) /\ (~more => Top.at + 1 \in DOMAIN Top.bodies)
      /\ fn' = Goto(SealBlock(branched, next), next)
      /\ Become([Top EXCEPT !.at = IF more THEN @ ELSE @ + 1])
      /\ UNCHANGED built /\ UnchangedLabels

\* The last value goes on to the default clause or the end.
LastTest ==
  /\ In({"tests"}) /\ Top.at = Len(Top.bodies)
  /\ fn' = JumpTo(JumpTo(fn, Top.bodies[Top.at]), Top.otherwise)
  /\ Become([kind |-> "clauses", all |-> Top.all, rest |-> Top.all, end |-> Top.end])
  /\ UNCHANGED <<count, built>> /\ UnchangedLabels

\* All clauses are sealed before the first is built; none of their blocks has a phi yet,
\* so the order is of no account.
SealClause ==
  /\ In({"clauses"}) /\ Top.rest # <<>>
  /\ fn' = SealBlock(fn, Head(Top.rest))
  /\ Become([Top EXCEPT !.rest = Tail(@)])
  /\ UNCHANGED <<count, built>> /\ UnchangedLabels

FirstClause ==
  /\ In({"clauses"}) /\ Top.rest = <<>>
  /\ fn' = IF Top.all = <<>> THEN fn ELSE Goto(fn, Head(Top.all))
  /\ Become([kind |-> "switch", rest |-> IF Top.all = <<>> THEN <<>> ELSE Tail(Top.all),
             end |-> Top.end])
  /\ UNCHANGED <<count, built>> /\ UnchangedLabels

NextClause ==
  /\ In({"switch"}) /\ Top.rest # <<>>
  /\ fn' = Goto(FallInto(fn, Top.end), Head(Top.rest))
  /\ Become([kind |-> "switch", rest |-> Tail(Top.rest), end |-> Top.end])
  /\ UNCHANGED <<count, built>> /\ UnchangedLabels

\* Mutant: the block that comes after a jump is never made.
JumpAwayNowhere(b, to) == Goto(JumpTo(b, to), b.blocks + 1)

\* After a jump comes a block without predecessors, never sealed.
JumpAway(b, to) == Goto(NewBlocks(JumpTo(b, to), 1), b.blocks + 1)

Loops == {i \in DOMAIN open : open[i].kind \in {"for", "range"}}

\* What break can leave: a loop, by its label if need be, or the switch that is the
\* innermost of the two kinds.
Breakable ==
  Loops \cup {i \in DOMAIN open :
              open[i].kind = "switch" /\ \A j \in i + 1 .. Len(open) : open[j].kind \in {"if", "then"}}

\* break and continue leave statement i: the innermost one, or an outer loop that
\* a label names (that label's own block, which changes nothing, is left out).
Break(i) ==
  /\ Comes
  /\ fn' = JumpAway(fn, open[i].end)
  /\ UNCHANGED <<open, built>> /\ UnchangedLabels

Continue(i) ==
  /\ Comes
  /\ fn' = JumpAway(fn, open[i].next)
  /\ UNCHANGED <<open, built>> /\ UnchangedLabels

ReturnStatement ==
  /\ Comes
  /\ fn' = JumpTo(fn, Destruct)
  /\ UNCHANGED <<open, built>> /\ UnchangedLabels

\* getLabelBlock: the block of a label, made when the label is first seen.
LabelBlock(l) == IF l \in DOMAIN labelled THEN labelled[l] ELSE fn.blocks + 1
WithLabel(l) == IF l \in DOMAIN labelled THEN fn ELSE NewBlocks(fn, 1)
Labelled(l) ==
  labelled' = [k \in DOMAIN labelled \cup {l} |-> IF k = l THEN LabelBlock(l) ELSE labelled[k]]

GotoStatement(l) ==
  /\ Comes
  /\ l \in placed => BackwardGoto
  /\ Labelled(l)
  /\ fn' = JumpAway(WithLabel(l), LabelBlock(l))
  /\ UNCHANGED <<open, built, placed>>

LabelStatement(l) ==
  /\ InBody /\ Counts(1)
  /\ l \notin placed /\ (Terminated(fn) => l \in DOMAIN labelled)
  /\ Labelled(l) /\ placed' = placed \cup {l}
  /\ fn' = Goto(SealBlock(FallInto(WithLabel(l), LabelBlock(l)), LabelBlock(l)), LabelBlock(l))
  /\ UNCHANGED <<open, built>>

\* The end of buildFunc: the body falls into the destruct block, which reads
\* what the function returns and is sealed last.
EnterDestruct ==
  /\ ~built /\ open = <<>> /\ DOMAIN labelled = placed
  /\ fn' = Goto(FallInto(fn, Destruct), Destruct)
  /\ open' = <<[kind |-> "destruct"]>>
  /\ UNCHANGED <<count, built>> /\ UnchangedLabels

Finish ==
  /\ In({"destruct"})
  /\ fn' = SealBlock(fn, Destruct)
  /\ Leave /\ built' = TRUE
  /\ UNCHANGED count /\ UnchangedLabels

Step ==
  \/ Parameter \/ Begin
  \/ \E x \in Var : AssignStatement(x) \/ UseVariable(x)
  \/ \E x, y \in Var : x # y /\ CopyStatement(x, y)
  \/ \E op \in {"and", "or"} : Logical(op)
  \/ \E new \in BOOLEAN : EndAnd(new) \/ EndOr(new)
  \/ If \/ IfElse \/ Else \/ EndBranches
  \/ \E three, condition \in BOOLEAN : For(three, condition)
  \/ ForBody \/ EndFor \/ BeginPost \/ EndPost
  \/ \E x \in Var : RangeStatement({x}, {}) \/ RangeStatement({}, {x})
  \/ Element \/ EndRange
  \/ \E n \in 0 .. MaxClauses, default \in BOOLEAN : Switch(n, default)
  \/ \E more \in BOOLEAN : Test(more)
  \/ LastTest \/ SealClause \/ FirstClause \/ NextClause
  \/ \E i \in Breakable : Break(i)
  \/ \E i \in Loops : Continue(i)
  \/ ReturnStatement
  \/ \E l \in Labels : GotoStatement(l) \/ LabelStatement(l)
  \/ EnterDestruct \/ Finish

\* A builder whose read does not end does nothing more.
Build == ~fn.stuck /\ Step
=============================================================================
