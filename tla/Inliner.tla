------------------------------ MODULE Inliner ------------------------------
(***************************************************************************)
(* The inliner (opt/inline.go): the clean-up passes it runs before and     *)
(* after, which calls it replaces, and the two ways of doing it.  The      *)
(* budgets are those of functions without popularity or trunk level.       *)
(***************************************************************************)
EXTENDS CFGPasses, ScalarPasses, FiniteSets

CONSTANTS MaxTiny,    \* instructions of a callee inlined at every call
          MaxBlocksTiny

ASSUME InlineAssumption == MaxTiny \in Nat /\ MaxBlocksTiny \in Nat

\* A pass that reports a change by leaving another function.
OnGraph(f, g) == Pass(g, g # f)

\* cleanupFunction: up to three rounds.
CleanupPass(p, f) ==
  CASE p = "ConstFold" -> ConstFoldPass(f)
    [] p = "DBE" -> OnGraph(f, DBEPass(f))
    [] p = "CopyProp" -> CopyPropPass(f)
    [] p = "PhiSimp" -> PhiSimpPass(f)
    [] p = "DCE" -> DCEPass(f)
    [] p = "BranchFold" -> OnGraph(f, BranchFoldPass(f))

Cleanup(f) ==
  LET Then(r, p) == Pass(p.fn, r.changed \/ p.changed)
      Once(r, n) ==
        IF ~r.changed THEN r
        ELSE FoldLeft(LAMBDA s, p : Then(s, CleanupPass(p, s.fn)), Pass(r.fn, FALSE),
                      <<"ConstFold", "DBE", "CopyProp", "PhiSimp", "DCE", "BranchFold">>)
  IN FoldLeft(Once, Pass(f, TRUE), <<1, 2, 3>>).fn

-----------------------------------------------------------------------------
\* Walking a function depth first, the true arm of a branch before the false:
\* the blocks in topological order, and whether there was a cycle.
Walk(f) ==
  LET Step(w, n) ==
        IF w.stack = <<>> THEN w
        ELSE LET b == Head(w.stack)
                 fresh == SelectSeq(Term(f, b).to, LAMBDA s : s \notin w.seen)
             IN IF fresh # <<>>
                  THEN [w EXCEPT !.stack = <<fresh[1]>> \o @, !.seen = @ \cup {fresh[1]}]
                  ELSE [w EXCEPT !.stack = Tail(@), !.order = <<b>> \o @,
                          !.cyclic = @ \/ ToSet(Term(f, b).to) \cap ToSet(w.stack) # {}]
  IN FoldLeft(Step,
       [stack |-> <<Entry(f)>>, seen |-> {Entry(f)}, order |-> <<>>, cyclic |-> FALSE],
       [n \in 1 .. 2 * Len(f.blocks) |-> n])

TopologicalSort(f) == Walk(f).order
IsAcyclic(f) == ~Walk(f).cyclic

Body(f, b) == SelectSeq(f.code[b], LAMBDA v : f.ins[v].op \notin Terminators)

IsStraightLine(f) ==
  \/ Len(f.blocks) = 1
  \/ /\ Len(f.blocks) = 2
     /\ Term(f, f.blocks[1]) = Ins("jump", <<>>, <<f.blocks[2]>>, "", 0)
     /\ Term(f, f.blocks[2]).op = "return"
     /\ \A v \in ToSet(Body(f, f.blocks[2])) :
          f.ins[v].op = "phi" /\ f.ins[v].to = <<f.blocks[1]>>

\* The instructions of f that count, calls for c.
Weight(f, c) ==
  FoldLeft(LAMBDA n, v : n + CASE f.ins[v].op = "phi" -> 0
                               [] f.ins[v].op = "call" -> c
                               [] OTHER -> 1,
           0, FlattenSeq([i \in DOMAIN f.blocks |-> Body(f, f.blocks[i])]))

Calls(f) == \E b \in BlockSet(f) : \E v \in ToSet(f.code[b]) : f.ins[v].op = "call"

CanInline(f) == \A b \in BlockSet(f) : \A v \in ToSet(f.code[b]) : f.ins[v].op # "aol"

\* Whether to replace a call of callee, one of calls calls of it.
Inlinable(callee, calls) ==
  /\ CanInline(callee)
  /\ IF IsStraightLine(callee)
       THEN calls = 1 \/ (~Calls(callee) /\ Weight(callee, 1) <= MaxTiny)
       ELSE /\ IsAcyclic(callee)
            /\ \/ /\ ~Calls(callee)
                  /\ Len(callee.blocks) <= MaxBlocksTiny /\ Weight(callee, 3) <= MaxTiny
               \/ /\ calls = 1
                  /\ Len(callee.blocks) <= 16 /\ Weight(callee, 3) <= 64

\* The calls of the callee in f, and the first of them: its block and index.
InsideCalls(f) ==
  UNION {{<<b, j>> : j \in {i \in DOMAIN f.code[b] : IsInside(f.ins[f.code[b][i]])}} :
           b \in BlockSet(f)}

FirstInsideCall(f) ==
  LET Index(b) == SelectInSeq(f.code[b], LAMBDA v : IsInside(f.ins[v]))
      b == SelectSeq(f.blocks, LAMBDA c : Index(c) # 0)[1]
  IN <<b, Index(b)>>

-----------------------------------------------------------------------------
\* The copies of the instructions in body, a sequence of callee's, in f: the
\* parameters are the arguments of the call, the others new objects.
CopyOf(f, callee, args, body, v) ==
  LET i == callee.ins[v]
      phi == i.op = "phi" /\ v \notin ToSet(body)
      w == IF phi THEN i.args[1] ELSE v
  IN IF w \in DOMAIN args THEN args[w]
     ELSE MaxOf(DOMAIN f.ins) + (CHOOSE n \in DOMAIN body : body[n] = w)

WithCopies(f, callee, args, body, B(_)) ==
  [f EXCEPT !.ins = @ @@ [n \in {CopyOf(f, callee, args, body, v) : v \in ToSet(body)} |->
     LET i == callee.ins[body[n - MaxOf(DOMAIN f.ins)]]
     IN [i EXCEPT !.args = Evaluated([j \in DOMAIN i.args |-> CopyOf(f, callee, args, body, i.args[j])]),
                  !.to = Evaluated([j \in DOMAIN i.to |-> B(i.to[j])])]]]

InlineStraightLine(f, b, j, callee) ==
  LET call == f.code[b][j]
      args == f.ins[call].args
      lastBlock == callee.blocks[Len(callee.blocks)]
      body == FlattenSeq([i \in DOMAIN callee.blocks |->
                SelectSeq(Body(callee, callee.blocks[i]), LAMBDA v :
                  ~(callee.ins[v].op = "phi" /\ Len(callee.ins[v].args) = 1))])
      copies == [n \in DOMAIN body |-> CopyOf(f, callee, args, body, body[n])]
      g == [WithCopies(f, callee, args, body, LAMBDA c : c)
              EXCEPT !.code[b] = SubSeq(@, 1, j - 1) \o copies \o SubSeq(@, j + 1, Len(@))]
  IN ReplaceUsesOf(g, call, CopyOf(f, callee, args, body, Term(callee, lastBlock).args[1]))

\* The call is replaced by what the copied return statements return: a value, or
\* a phi of the block tail.
JoinReturns(f, call, tail, from, values) ==
  IF \A x \in ToSet(values) : x = values[1] THEN ReplaceUsesOf(f, call, values[1])
  ELSE ReplaceUsesOf(
         [AddObject(f, NextId(f), Ins("phi", values, from, "", 0))
            EXCEPT !.code[tail] = <<NextId(f)>> \o @], call, NextId(f))

\* The block b of f is split at its j-th instruction, the call; between the two
\* halves come copies of the blocks in order, which is all of callee.
InlineCFG(f, b, j, callee, order) ==
  LET call == f.code[b][j]
      args == f.ins[call].args
      body == FlattenSeq([i \in DOMAIN order |-> Body(callee, order[i])])
      Copy(v) == CopyOf(f, callee, args, body, v)
      base == MaxOf(BlockSet(f))
      B(c) == base + (CHOOSE i \in DOMAIN order : order[i] = c)
      copies == {base + i : i \in DOMAIN order}
      Original(c) == order[c - base]
      tail == base + Len(order) + 1
      at == CHOOSE i \in DOMAIN f.blocks : f.blocks[i] = b
      \* The terminators: the jump into the copy, then one for each block of it.
      firstTerm == MaxOf(DOMAIN f.ins) + Len(body) + 1
      TermCopy(t) ==
        IF t.op = "return" THEN Ins("jump", <<>>, <<tail>>, "", 0)
        ELSE [t EXCEPT !.args = [n \in DOMAIN @ |-> Copy(@[n])], !.to = [n \in DOMAIN @ |-> B(@[n])]]
      returns == SelectSeq(order, LAMBDA c : Term(callee, c).op = "return")
      FromTail(v, i) ==
        IF \E s \in ToSet(f.succs[b]) : v \in ToSet(f.code[s]) /\ i.op = "phi"
          THEN [i EXCEPT !.to = Replaced(@, b, tail)] ELSE i
  IN JoinReturns(
       [WithCopies(f, callee, args, body, B) EXCEPT
          !.blocks = SubSeq(@, 1, at) \o [i \in DOMAIN order |-> base + i] \o <<tail>>
                       \o SubSeq(@, at + 1, Len(@)),
          !.ins = (firstTerm :> Ins("jump", <<>>, <<base + 1>>, "", 0))
                    @@ [n \in {firstTerm + i : i \in DOMAIN order} |->
                          TermCopy(Term(callee, order[n - firstTerm]))]
                    @@ [v \in DOMAIN @ |-> FromTail(v, @[v])],
          !.code = (b :> SubSeq(@[b], 1, j - 1)) @@ (tail :> SubSeq(@[b], j + 1, Len(@[b])))
                     @@ [c \in copies |-> LET own == Body(callee, Original(c))
                                          IN [n \in DOMAIN own |-> Copy(own[n])]] @@ @,
          !.term = (b :> firstTerm) @@ (tail :> f.term[b])
                     @@ [c \in copies |-> firstTerm + c - base] @@ @,
          !.succs = (b :> <<base + 1>>) @@ (tail :> f.succs[b])
                      @@ [c \in copies |-> TermCopy(Term(callee, Original(c))).to] @@ @,
          !.preds = (base + 1 :> <<b>>) @@ (tail :> [i \in DOMAIN returns |-> B(returns[i])])
                      @@ [c \in copies |-> [n \in DOMAIN callee.preds[Original(c)] |->
                                              B(callee.preds[Original(c)][n])]]
                      @@ [c \in DOMAIN @ |-> IF c \in ToSet(f.succs[b])
                                               THEN Replaced(@[c], b, tail) ELSE @[c]]],
       call, tail, [i \in DOMAIN returns |-> B(returns[i])],
       [i \in DOMAIN returns |-> Copy(Term(callee, returns[i]).args[1])])

InlineAt(f, c, callee) ==
  IF IsStraightLine(callee) THEN InlineStraightLine(f, c[1], c[2], callee)
  ELSE InlineCFG(f, c[1], c[2], callee, TopologicalSort(callee))

InlineFirst(f, callee) == Cleanup(InlineAt(f, FirstInsideCall(f), callee))
=============================================================================
