----------------------------- MODULE CFGPasses -----------------------------
(***************************************************************************)
(* The passes that change the control flow graph: dead branch elimination  *)
(* (opt/dbe.go), empty block folding (opt/branch_fold.go), the dominators  *)
(* and natural loops of opt/loop.go and the loop-invariant code motion     *)
(* built on them (opt/licm.go).  A pass is an operator from functions to   *)
(* functions; it reports a change by returning a different one.            *)
(***************************************************************************)
EXTENDS IR

Without(s, x) == SelectSeq(s, LAMBDA y : y # x)

Distinct(s) == FoldLeft(LAMBDA d, x : IF x \in ToSet(d) THEN d ELSE Append(d, x), <<>>, s)

\* f with the phis v of block b changed to P(v).
WithPhis(f, b, P(_)) ==
  [f EXCEPT !.ins =
     Evaluated([v \in DOMAIN f.ins |-> IF v \in Phis(f, b) THEN P(v) ELSE f.ins[v]])]

\* The edges of phi i numbered in the sequence keep.
EdgesAt(i, keep) ==
  [i EXCEPT !.args = Evaluated([j \in DOMAIN keep |-> i.args[keep[j]]]),
            !.to = Evaluated([j \in DOMAIN keep |-> i.to[keep[j]]])]

Numbers(i, Test(_)) == SelectSeq([j \in DOMAIN i.to |-> j], Test)

-----------------------------------------------------------------------------
\* Dead branch elimination.

\* Mutant: the phis of the block that lost an edge keep its operand.
KeepPhiEdgesFrom(f, target, pred) == f

RemovePhiEdgesFrom(f, target, pred) ==
  WithPhis(f, target, LAMBDA v :
    EdgesAt(f.ins[v], Numbers(f.ins[v], LAMBDA j : f.ins[v].to[j] # pred)))

RemoveDuplicatePhiEdgesFrom(f, target, pred) ==
  WithPhis(f, target, LAMBDA v :
    EdgesAt(f.ins[v], Numbers(f.ins[v], LAMBDA j :
      f.ins[v].to[j] # pred \/ \A i \in 1 .. j - 1 : f.ins[v].to[i] # pred)))

\* The terminator of b becomes a jump to the block its constant condition picks;
\* the branch stays in the code of b if it was there.
FoldConstantBranch(f, b) ==
  LET br == Term(f, b)
      taken == IF f.ins[br.args[1]].n # 0 THEN br.to[1] ELSE br.to[2]
      untaken == IF f.ins[br.args[1]].n # 0 THEN br.to[2] ELSE br.to[1]
      jump == NextId(f)
      g == [AddObject(f, jump, Ins("jump", <<>>, <<taken>>, "", 0))
              EXCEPT !.term[b] = jump]
      onceB == SelectSeq([i \in DOMAIN f.preds[taken] |-> i], LAMBDA i :
                 f.preds[taken][i] # b \/ \A h \in 1 .. i - 1 : f.preds[taken][h] # b)
  IN IF br.op # "branch" \/ ~IsConst(f, br.args[1]) THEN f
     ELSE IF taken # untaken
       THEN RemovePhiEdgesFrom(
              [g EXCEPT !.succs[b] = Without(@, untaken), !.preds[untaken] = Without(@, b)],
              untaken, b)
       ELSE RemoveDuplicatePhiEdgesFrom(
              [g EXCEPT !.succs[b] = <<taken>>,
                        !.preds[taken] = [i \in DOMAIN onceB |-> f.preds[taken][onceB[i]]]],
              taken, b)

Reachable(f) == ReachedWithout(f, 0)

RemoveUnreachableBlocks(f) ==
  LET Unlink(g, b) == FoldLeft(LAMBDA h, s :
        RemovePhiEdgesFrom([h EXCEPT !.preds[s] = Without(@, b)], s, b), g, g.succs[b])
      dead == SelectSeq(f.blocks, LAMBDA b : b \notin Reachable(f))
  IN [FoldLeft(Unlink, f, dead) EXCEPT
        !.blocks = SelectSeq(@, LAMBDA b : b \in Reachable(f))]

DBEPass(f) == RemoveUnreachableBlocks(FoldLeft(FoldConstantBranch, f, f.blocks))

-----------------------------------------------------------------------------
\* Empty block folding.

\* The edge from P to the empty block E, whose jump goes to T, goes to T.
Redirect(f, E, T, P) ==
  IF \/ P = E \/ E \notin ToSet(Term(f, P).to)
     \/ Phis(f, T) # {} /\ T \in ToSet(f.succs[P])
    THEN f
    ELSE WithPhis(
           [f EXCEPT !.ins[f.term[P]].to = Replaced(@, E, T),
                     !.succs[P] = Replaced(@, E, T),
                     !.preds[E] = Without(@, P),
                     !.preds[T] = Append(@, P)],
           T, LAMBDA v : [f.ins[v] EXCEPT !.to = Replaced(@, E, P)])

FoldEmptyBlock(f, E) ==
  LET T == Term(f, E).to[1] IN
  IF E = Entry(f) \/ f.code[E] # <<>> \/ Term(f, E).op # "jump" \/ T = E THEN f
  ELSE FoldLeft(LAMBDA g, P : Redirect(g, E, T, P), f, f.preds[E])

BranchFoldPass(f) == FoldLeft(FoldEmptyBlock, f, f.blocks)

-----------------------------------------------------------------------------
\* Dominators and natural loops.

\* ComputeDominators: <<b, d>> such that d does not dominate b, the least
\* solution of the data flow equations turned around.
NotDominated(f) ==
  LET roots == {b \in BlockSet(f) : b = Entry(f) \/ f.preds[b] = <<>>}
      Step(N) == N \cup UNION {{<<s, e[2]>> :
                    s \in {c \in BlockSet(f) \ {Entry(f), e[2]} : e[1] \in ToSet(f.preds[c])}} :
                    e \in N}
  IN FoldLeft(LAMBDA N, n : Step(N),
              UNION {{<<b, d>> : d \in BlockSet(f) \ {b}} : b \in roots}, f.blocks)

BackEdges(f) ==
  LET N == NotDominated(f)
  IN UNION {{<<b, s>> : s \in {c \in ToSet(f.succs[b]) : <<b, c>> \notin N}} : b \in BlockSet(f)}

\* FindLoops in the order in which it comes across their headers.
Headers(f) ==
  LET back == BackEdges(f)
  IN Distinct(FlattenSeq([i \in DOMAIN f.blocks |->
       SelectSeq(f.succs[f.blocks[i]], LAMBDA s : <<f.blocks[i], s>> \in back)]))

\* The loop of a header: the blocks that reach one of its latches.
Loop(f, header) ==
  LET back == BackEdges(f)
      Step(S) == S \cup UNION {ToSet(f.preds[b]) : b \in S \ {header}}
  IN [header |-> header,
      blocks |-> FoldLeft(LAMBDA S, n : Step(S),
                          {header} \cup {b \in BlockSet(f) : <<b, header>> \in back}, f.blocks)]

OutsidePreds(f, loop) == SelectSeq(f.preds[loop.header], LAMBDA p : p \notin loop.blocks)

\* The only predecessor outside the loop, if it leads nowhere else.
Preheaders(f, loop) ==
  {p \in ToSet(OutsidePreds(f, loop)) :
     Len(OutsidePreds(f, loop)) = 1 /\ f.succs[p] = <<loop.header>>}

-----------------------------------------------------------------------------
\* Loop-invariant code motion.

\* Mutant: a division is hoisted whatever it divides by.
CanHoistDivision(f, i, inLoop, invariant) ==
  /\ i.op \in {"bin", "cmp", "const"}
  /\ \A v \in ToSet(OperandsOf(i)) : IsConst(f, v) \/ v \notin inLoop \/ v \in invariant

CanHoist(f, i, inLoop, invariant) ==
  /\ i.op \in {"bin", "cmp", "const"}
  /\ i.k = "div" => IsConst(f, i.args[2]) /\ f.ins[i.args[2]].n # 0
  /\ \A v \in ToSet(OperandsOf(i)) : IsConst(f, v) \/ v \notin inLoop \/ v \in invariant

\* Of the instructions of a loop, those to hoist, in the order in which they
\* become invariant.
Invariants(f, body) ==
  LET Sweep(list, n) == FoldLeft(LAMBDA l, v :
        IF v \notin ToSet(l) /\ CanHoist(f, f.ins[v], ToSet(body), ToSet(l))
          THEN Append(l, v) ELSE l, list, body)
  IN FoldLeft(Sweep, <<>>, body)

HoistList(f, loop) ==
  Invariants(f, FlattenSeq([i \in DOMAIN f.blocks |->
    IF f.blocks[i] \in loop.blocks THEN f.code[f.blocks[i]] ELSE <<>>]))

\* Mutant: the block is taken not to end with its terminator.
InsertBeforeMissingTerminator(f, b, list) ==
  [f EXCEPT !.code[b] = @ \o list \o <<f.term[b]>>]

InsertBeforeTerminator(f, b, list) ==
  LET n == Len(f.code[b])
      ended == n > 0 /\ f.ins[f.code[b][n]].op \in Terminators
  IN [f EXCEPT !.code[b] =
        IF ended THEN SubSeq(@, 1, n - 1) \o list \o <<@[n]>>
        ELSE @ \o list \o <<f.term[b]>>]

\* A phi of the header of a loop that gets preheader pre: its operands from
\* outside the loop become one, through a phi of the preheader if they differ.
SplitPhi(f, pre, loop, v) ==
  LET i == f.ins[v]
      out == EdgesAt(i, Numbers(i, LAMBDA j : i.to[j] \notin loop.blocks))
      From(value) ==
        LET kept == EdgesAt(i, Numbers(i, LAMBDA j : i.to[j] \in loop.blocks))
        IN [kept EXCEPT !.args = Append(@, value), !.to = Append(@, pre)]
  IN IF out.args = <<>> THEN f
     ELSE IF \A x \in ToSet(out.args) : x = out.args[1]
       THEN [f EXCEPT !.ins[v] = From(out.args[1])]
     ELSE [AddObject(f, NextId(f), out) EXCEPT
             !.ins[v] = From(NextId(f)), !.code[pre] = <<NextId(f)>> \o @]

\* The new block pre, the preheader of the loop, after the phis are split.
Connect(f, loop, pre, jump, out) ==
  LET header == loop.header
      at == IF out = <<>> THEN 1 ELSE CHOOSE i \in DOMAIN f.blocks : f.blocks[i] = header
      Moved(b, s) == IF b \in ToSet(out) THEN Replaced(s, header, pre) ELSE s
  IN [f EXCEPT
        !.blocks = SubSeq(@, 1, at - 1) \o <<pre>> \o SubSeq(@, at, Len(@)),
        !.term = pre :> jump @@ @,
        !.succs = pre :> <<header>> @@ Evaluated([b \in DOMAIN @ |-> Moved(b, @[b])]),
        !.preds = pre :> out @@ header :>
                    Append(SelectSeq(@[header], LAMBDA p : p \notin ToSet(out)), pre) @@ @,
        !.ins = Evaluated([v \in DOMAIN @ |->
                  IF \E b \in ToSet(out) : f.term[b] = v
                    THEN [@[v] EXCEPT !.to = Replaced(@, header, pre)] ELSE @[v]])]

InsertPreheader(f, loop, pre) ==
  Connect(FoldLeft(LAMBDA g, v : SplitPhi(g, pre, loop, v),
                   [AddObject(f, NextId(f), Ins("jump", <<>>, <<loop.header>>, "", 0))
                      EXCEPT !.code = pre :> <<NextId(f)>> @@ @],
                   SelectSeq(f.code[loop.header], LAMBDA v : f.ins[v].op = "phi")),
          loop, pre, NextId(f), Distinct(OutsidePreds(f, loop)))

\* The instructions in list leave the loop for the block pre.
MoveTo(f, pre, loop, list) ==
  InsertBeforeTerminator(
    [f EXCEPT !.code = Evaluated([b \in DOMAIN @ |->
       IF b \in loop.blocks THEN SelectSeq(@[b], LAMBDA v : v \notin ToSet(list)) ELSE @[b]])],
    pre, list)

Hoist(f, loop, list) ==
  LET new == MaxOf(BlockSet(f)) + 1 IN
  IF Preheaders(f, loop) = {}
    THEN MoveTo(InsertPreheader(f, loop, new), new, loop, list)
    ELSE MoveTo(f, CHOOSE p \in Preheaders(f, loop) : TRUE, loop, list)

\* A round hoists from the first loop that has something to hoist.  The rounds
\* end when one hoists nothing.
HoistFirst(f, ready) ==
  IF ready = <<>> THEN [fn |-> f, more |-> FALSE]
  ELSE [fn |-> Hoist(f, ready[1].loop, ready[1].list), more |-> TRUE]

HoistOnce(f) ==
  LET headers == Headers(f)
      Found(loop) == [loop |-> loop, list |-> HoistList(f, loop)]
  IN HoistFirst(f, SelectSeq([i \in DOMAIN headers |-> Found(Loop(f, headers[i]))],
                             LAMBDA l : l.list # <<>>))

LICMPass(f) ==
  FoldLeft(LAMBDA r, n : IF r.more THEN HoistOnce(r.fn) ELSE r, [fn |-> f, more |-> TRUE],
           [n \in 1 .. 4 * Len(f.blocks) + 20 |-> n]).fn
=============================================================================
