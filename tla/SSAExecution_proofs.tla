------------------------ MODULE SSAExecution_proofs -------------------------
(*****************************************************************************)
(* Every function that is built, whatever its statements, is in SSA form: its *)
(* phis have one operand for each edge, and a use sees the value that was last *)
(* assigned to its variable, on every path.                                  *)
(*****************************************************************************)
EXTENDS SSAExecution, SSABuilder_proofs

-----------------------------------------------------------------------------
\* A statement is lowered: how far the graph is.

\* Whatever its fields are, the function has them.
IsRec(b) ==
  b = [blocks |-> b.blocks, preds |-> b.preds, succs |-> b.succs, def |-> b.def,
       code |-> b.code, sealed |-> b.sealed, home |-> b.home, phis |-> b.phis,
       incomplete |-> b.incomplete, cur |-> b.cur, stuck |-> b.stuck]

\* The operations keep the fields, whatever the function is, and a builder that is
\* stuck stays so.
LEMMA RecEdge ==
  ASSUME NEW b, IsRec(b), NEW from, NEW to, NEW c, c = AddEdge(b, from, to)
  PROVE  IsRec(c) /\ c.stuck = b.stuck /\ c.blocks = b.blocks /\ c.cur = b.cur
<1> DEFINE ss == [b.succs EXCEPT ![from] = Append(@, to)]
           ps == [b.preds EXCEPT ![to] = Append(@, from)]
<1>1. c = [b EXCEPT !.succs = ss, !.preds = ps]
  BY DEF AddEdge, IsRec
<1> HIDE DEF ss, ps
<1> QED
  BY <1>1, Zenon DEF IsRec

LEMMA RecGoto ==
  ASSUME NEW b, IsRec(b), NEW blk, NEW c, c = Goto(b, blk)
  PROVE  IsRec(c) /\ c.stuck = b.stuck /\ c.blocks = b.blocks /\ c.cur = blk
BY DEF Goto, IsRec

LEMMA RecBlocks ==
  ASSUME NEW b, IsRec(b), NEW n, NEW c, c = NewBlocks(b, n)
  PROVE  IsRec(c) /\ c.stuck = b.stuck /\ c.blocks = b.blocks + n /\ c.cur = b.cur
<1> DEFINE m == b.blocks + n
           ps == [u \in 1 .. m |-> IF u \in Blocks(b) THEN b.preds[u] ELSE <<>>]
           ss == [u \in 1 .. m |-> IF u \in Blocks(b) THEN b.succs[u] ELSE <<>>]
           ds == [u \in 1 .. m |-> IF u \in Blocks(b) THEN b.def[u]
                                   ELSE [x \in Names |-> NoValue]]
           cs == [u \in 1 .. m |-> IF u \in Blocks(b) THEN b.code[u] ELSE <<>>]
<1>1. c = [b EXCEPT !.blocks = m, !.preds = ps, !.succs = ss, !.def = ds, !.code = cs]
  BY DEF NewBlocks
<1> HIDE DEF ps, ss, ds, cs, m
<1>2. IsRec(c) /\ c.stuck = b.stuck /\ c.blocks = m /\ c.cur = b.cur
  BY <1>1, Zenon DEF IsRec
<1> QED
  BY <1>2 DEF m

LEMMA RecStore ==
  ASSUME NEW b, IsRec(b), NEW xs, NEW c, c = Store(b, xs)
  PROVE  IsRec(c) /\ c.stuck = b.stuck /\ c.blocks = b.blocks /\ c.cur = b.cur
<1> DEFINE hs == Append(b.home, b.cur)
           a == [reads |-> {}, writes |-> xs, val |-> NextValue(b)]
           cs == [b.code EXCEPT ![b.cur] = Append(@, a)]
           ds == [b.def EXCEPT ![b.cur] = [x \in Names |-> IF x \in a.writes THEN a.val ELSE @[x]]]
           d == [b EXCEPT !.home = hs]
<1>1. d = [b EXCEPT !.home = Append(@, b.cur)]
  BY DEF IsRec
<1>2. c = Perform(d, a)
  BY <1>1 DEF Store
<1> HIDE DEF a, hs
<1>3. /\ IsRec(d) /\ d.code = b.code /\ d.cur = b.cur /\ d.def = b.def
      /\ d.stuck = b.stuck /\ d.blocks = b.blocks
  BY DEF IsRec
<1> HIDE DEF d
<1>4. c = [d EXCEPT !.code = cs, !.def = ds]
  BY <1>2, <1>3, Zenon DEF Perform, IsRec
<1> HIDE DEF cs, ds
<1> QED
  BY <1>3, <1>4, Zenon DEF IsRec

LEMMA RecStuck ==
  ASSUME NEW b, IsRec(b), NEW c, c = Stuck(b)
  PROVE  IsRec(c) /\ c.stuck /\ c.blocks = b.blocks
BY Zenon DEF Stuck, IsRec

-----------------------------------------------------------------------------
\* How far the graph is while a statement is lowered: the current block; the blocks F
\* to come, of which nothing is known; the blocks H to be sealed, that have edges; the blocks W
\* without a successor; what is known of the blocks L that join the operands of && and ||:
\* where they have been reached from; and the blocks D that know the result of a condition.
Ready(b, cur, F, H, W, L, D) ==
  /\ Sound(b, {}) /\ ~b.stuck /\ b.cur = cur
  /\ \A u \in F : u \in Blocks(b) /\ u \notin b.sealed /\ u # cur /\ b.succs[u] = <<>> /\ Blank(b, u)
  /\ \A u \in H : u \in Blocks(b) /\ u \notin b.sealed /\ (u # Destruct => b.preds[u] # <<>>)
  /\ \A u \in W : u \in Blocks(b) /\ b.succs[u] = <<>>
  /\ \A u \in Blocks(b) : u \notin b.sealed /\ b.preds[u] # <<>> => u \in F \cup H
  /\ \A f \in L : f.end \in Blocks(b) /\ b.preds[f.end] = f.from
  /\ \A u \in D : u \in Blocks(b) /\ b.def[u][Result] # NoValue

\* The statement's part is lowered, or a read did not end.
Going(b, cur, F, H, W, L, D) == IsRec(b) /\ (b.stuck \/ Ready(b, cur, F, H, W, L, D))

\* What is known may be forgotten.
LEMMA GoLess ==
  ASSUME NEW b, NEW cur, NEW F, NEW H, NEW W, NEW L, NEW D, Going(b, cur, F, H, W, L, D),
         NEW V \in SUBSET W, NEW M \in SUBSET L, NEW E \in SUBSET D
  PROVE  Going(b, cur, F, H, V, M, E)
<1>1. ASSUME Ready(b, cur, F, H, W, L, D) PROVE Ready(b, cur, F, H, V, M, E)
  BY <1>1 DEF Ready
<1> QED
  BY <1>1 DEF Going

\* The blocks that n more will be.
Onward(b, n) == b.blocks + 1 .. b.blocks + n

Reached(to, from) == [end |-> to, from |-> from]

\* Nothing is known of where the block has been reached from.
Unmet(L, to) == \A f \in L : f.end # to

Others(M, L, to) == M \subseteq L /\ \A f \in M : f.end # to

Unreached(S) == [end : S, from : {<<>>}]

\* n blocks more, that are to come.
LEMMA GoBlocks ==
  ASSUME NEW b, NEW cur, NEW F, NEW H, NEW W, NEW L, NEW D, Going(b, cur, F, H, W, L, D),
         NEW n \in Nat, NEW c, c = NewBlocks(b, n)
  PROVE  /\ Going(c, cur, F \cup Onward(b, n), H, W \cup Onward(b, n), L \cup Unreached(Onward(b, n)), D)
         /\ c.blocks = b.blocks + n
<1> DEFINE new == Onward(b, n)
           N == Unreached(new)
<1>a. new = b.blocks + 1 .. b.blocks + n /\ N = [end : new, from : {<<>>}]
  BY DEF Onward, Unreached
<1> HIDE DEF new, N
<1>0. IsRec(c) /\ c.stuck = b.stuck /\ c.blocks = b.blocks + n
  BY RecBlocks DEF Going
<1>1. ASSUME Ready(b, cur, F, H, W, L, D)
      PROVE  Ready(c, cur, F \cup new, H, W \cup new, L \cup N, D)
  <2>0. Sound(b, {}) /\ Typed(b) /\ ~b.stuck /\ b.cur = cur
    BY <1>1 DEF Ready, Sound
  <2>1. Extends(b, c)
    BY <2>0, BlocksExtend
  <2>2. Sound(c, {})
    BY <2>0, <2>1, BlocksSound
  <2>3. /\ \A u \in Blocks(b) : /\ u \in Blocks(c) /\ c.preds[u] = b.preds[u] /\ c.succs[u] = b.succs[u]
                                /\ c.def[u] = b.def[u]
        /\ \A u \in Blocks(c) : u \notin Blocks(b) =>
             /\ c.preds[u] = <<>> /\ c.succs[u] = <<>>
             /\ \A x \in Names : c.def[u][x] = NoValue
        /\ c.sealed = b.sealed /\ c.home = b.home /\ c.cur = b.cur /\ c.stuck = b.stuck
    BY <2>1 DEF Extends
  <2>4. /\ \A u \in new : u \in Blocks(c) /\ u \notin Blocks(b)
        /\ \A u \in Blocks(c) : u \in Blocks(b) \/ u \in new
    BY <1>a, <2>0, <1>0 DEF Blocks, Typed
  <2>5. b.sealed \subseteq Blocks(b) /\ cur \in Blocks(b)
        /\ \A v \in DOMAIN b.home : b.home[v] \in Blocks(b)
    BY <2>0, TypedFacts, Zenon DEF Typed, Blocks
  <2>6. \A u \in new : Blank(c, u)
    BY <2>3, <2>4, <2>5 DEF Blank
  <2>7. \A u \in Blocks(b) : Blank(b, u) => Blank(c, u)
    BY <2>3 DEF Blank
  <2>8. \A u \in F \cup new :
          u \in Blocks(c) /\ u \notin c.sealed /\ u # cur /\ c.succs[u] = <<>> /\ Blank(c, u)
    BY <1>1, <2>3, <2>4, <2>5, <2>6, <2>7 DEF Ready
  <2>9. \A u \in H : u \in Blocks(c) /\ u \notin c.sealed /\ (u # Destruct => c.preds[u] # <<>>)
    BY <1>1, <2>3 DEF Ready
  <2>10. \A u \in W \cup new : u \in Blocks(c) /\ c.succs[u] = <<>>
    BY <1>1, <2>3, <2>4 DEF Ready
  <2>11. \A u \in Blocks(c) : u \notin c.sealed /\ c.preds[u] # <<>> => u \in F \cup new \cup H
    BY <1>1, <2>3, <2>4 DEF Ready
  <2>12. \A f \in L \cup N : f.end \in Blocks(c) /\ c.preds[f.end] = f.from
    <3>1. \A f \in L : f.end \in Blocks(c) /\ c.preds[f.end] = f.from
      BY <1>1, <2>3 DEF Ready
    <3>2. \A f \in N : f.end \in new /\ f.from = <<>>
      BY <1>a
    <3>3. \A f \in N : f.end \in Blocks(c) /\ c.preds[f.end] = f.from
      BY <3>2, <2>3, <2>4
    <3> QED
      BY <3>1, <3>3
  <2>13. \A u \in D : u \in Blocks(c) /\ c.def[u][Result] # NoValue
    BY <1>1, <2>3 DEF Ready
  <2>14. c.cur = cur /\ ~c.stuck
    BY <2>0, <2>3
  <2> HIDE DEF Blocks
  <2> QED
    BY <2>2, <2>8, <2>9, <2>10, <2>11, <2>12, <2>13, <2>14 DEF Ready
<1> QED
  BY <1>0, <1>1 DEF Going, new, N

\* An edge from the current block.
LEMMA EdgeReady ==
  ASSUME NEW b, NEW cur, NEW F, NEW H, NEW W, NEW L, NEW D, Ready(b, cur, F, H, W, L, D),
         NEW to \in F \cup (H \ {Destruct}), NEW c, c = JumpTo(b, to)
  PROVE  /\ Ready(c, cur, F, H, W \ {cur}, {f \in L : f.end # to}, D)
         /\ Edged(b, c, cur, to)
<1> DEFINE M == {f \in L : f.end # to}
<1>0. Sound(b, {}) /\ Typed(b) /\ ~b.stuck /\ b.cur = cur /\ cur \in Blocks(b)
  BY Zenon DEF Ready, Sound, Typed, Blocks
<1>1. /\ to \in Blocks(b) /\ to \notin b.sealed
      /\ b.preds[to] = <<>> => Blank(b, to) /\ b.succs[to] = <<>> /\ to # cur
  BY DEF Ready
<1>2. Edged(b, c, cur, to)
  BY <1>0, <1>1, EdgeMade DEF JumpTo
<1>3. Sound(c, {})
  BY <1>0, <1>1, <1>2, EdgeSound
<1>4. /\ Blocks(c) = Blocks(b)
      /\ \A u \in Blocks(b) : u # to => c.preds[u] = b.preds[u]
      /\ \A u \in Blocks(b) : u # cur => c.succs[u] = b.succs[u]
      /\ c.preds[to] # <<>>
      /\ c.def = b.def /\ c.sealed = b.sealed /\ c.home = b.home
      /\ c.cur = b.cur /\ c.stuck = b.stuck
  BY <1>2 DEF Edged, Blocks
<1>5. \A u \in F : u \in Blocks(c) /\ u \notin c.sealed /\ u # cur /\ c.succs[u] = <<>> /\ Blank(c, u)
  BY <1>4 DEF Ready, Blank
<1>6. \A u \in H : u \in Blocks(c) /\ u \notin c.sealed /\ (u # Destruct => c.preds[u] # <<>>)
  BY <1>4 DEF Ready
<1>7. \A u \in W \ {cur} : u \in Blocks(c) /\ c.succs[u] = <<>>
  BY <1>4 DEF Ready
<1>8. \A u \in Blocks(c) : u \notin c.sealed /\ c.preds[u] # <<>> => u \in F \cup H
  BY <1>4 DEF Ready
<1>9. \A f \in M : f.end \in Blocks(c) /\ c.preds[f.end] = f.from
  BY <1>4 DEF Ready
<1>10. \A u \in D : u \in Blocks(c) /\ c.def[u][Result] # NoValue
  BY <1>4 DEF Ready
<1>11. c.cur = cur /\ ~c.stuck
  BY <1>0, <1>4
<1> HIDE DEF M
<1>12. Ready(c, cur, F, H, W \ {cur}, M, D)
  BY <1>3, <1>5, <1>6, <1>7, <1>8, <1>9, <1>10, <1>11 DEF Ready
<1> QED
  BY <1>2, <1>12 DEF M

\* A jump leaves the current block with a successor.
LEMMA GoJump ==
  ASSUME NEW b, NEW cur, NEW F, NEW H, NEW W, NEW L, NEW D, Going(b, cur, F, H, W, L, D),
         NEW to \in F \cup (H \ {Destruct}), NEW c, c = JumpTo(b, to), Unmet(L, to)
  PROVE  Going(c, cur, F, H, W \ {cur}, L, D) /\ c.blocks = b.blocks
<1>1. IsRec(c) /\ c.stuck = b.stuck /\ c.blocks = b.blocks
  BY RecEdge DEF Going, JumpTo
<1>2. {f \in L : f.end # to} = L
  BY DEF Unmet
<1>3. Ready(b, cur, F, H, W, L, D) => Ready(c, cur, F, H, W \ {cur}, L, D)
  BY <1>2, EdgeReady
<1> QED
  BY <1>1, <1>3 DEF Going

\* A terminated block has no edge more.
LEMMA GoFall ==
  ASSUME NEW b, NEW cur, NEW F, NEW H, NEW W, NEW L, NEW D, Going(b, cur, F, H, W, L, D),
         NEW to \in F \cup (H \ {Destruct}), NEW c, c = FallInto(b, to), Unmet(L, to)
  PROVE  Going(c, cur, F, H, W \ {cur}, L, D) /\ c.blocks = b.blocks
<1>1. CASE c = JumpTo(b, to)
  <2>1. IsRec(c) /\ c.stuck = b.stuck /\ c.blocks = b.blocks
    BY <1>1, RecEdge DEF Going, JumpTo
  <2>2. {f \in L : f.end # to} = L
    BY DEF Unmet
  <2>3. Ready(b, cur, F, H, W, L, D) => Ready(c, cur, F, H, W \ {cur}, L, D)
    BY <1>1, <2>2, EdgeReady
  <2> QED
    BY <2>1, <2>3 DEF Going
<1>2. CASE c = b
  <2> DEFINE V == W \ {cur}
  <2>1. V \in SUBSET W /\ L \in SUBSET L /\ D \in SUBSET D
    OBVIOUS
  <2> HIDE DEF V
  <2>2. Going(c, cur, F, H, V, L, D)
    BY <1>2, <2>1, GoLess
  <2> QED
    BY <1>2, <2>2 DEF V
<1> QED
  BY <1>1, <1>2 DEF FallInto

\* The header of a loop is not new any more when it has been jumped to.
LEMMA GoHead ==
  ASSUME NEW b, NEW cur, NEW F, NEW H, NEW W, NEW L, NEW D, Going(b, cur, F, H, W, L, D),
         NEW to \in F, NEW c, c = JumpTo(b, to), Unmet(L, to)
  PROVE  Going(c, cur, F \ {to}, H \cup {to}, W \ {cur}, L, D) /\ c.blocks = b.blocks
<1>1. IsRec(c) /\ c.stuck = b.stuck /\ c.blocks = b.blocks
  BY RecEdge DEF Going, JumpTo
<1>2. {f \in L : f.end # to} = L /\ to \in F \cup (H \ {Destruct})
  BY DEF Unmet
<1>3. ASSUME Ready(b, cur, F, H, W, L, D)
      PROVE  Ready(c, cur, F \ {to}, H \cup {to}, W \ {cur}, L, D)
  <2>1. Ready(c, cur, F, H, W \ {cur}, L, D) /\ Edged(b, c, cur, to)
    BY <1>2, <1>3, EdgeReady
  <2>2. c.preds[to] # <<>>
    BY <2>1 DEF Edged
  <2> DEFINE G == F \ {to}
             K == H \cup {to}
             V == W \ {cur}
  <2>3. /\ \A u \in G : u \in F
        /\ \A u \in K : u \in H \/ (u \in F /\ u = to)
        /\ \A u : u \in F \cup H => u \in G \cup K
    OBVIOUS
  <2> HIDE DEF G, K, V
  <2>4. Ready(c, cur, F, H, V, L, D)
    BY <2>1 DEF V
  <2>5. Ready(c, cur, G, K, V, L, D)
    BY <2>2, <2>3, <2>4 DEF Ready
  <2> QED
    BY <2>5 DEF G, K, V
<1> QED
  BY <1>1, <1>3 DEF Going

\* The end of an operand of && or || is reached from the current block.
LEMMA GoJoin ==
  ASSUME NEW b, NEW cur, NEW F, NEW H, NEW W, NEW L, NEW D, Going(b, cur, F, H, W, L, D),
         NEW to \in F, NEW c, c = JumpTo(b, to), NEW from, Reached(to, from) \in L,
         NEW M, Others(M, L, to)
  PROVE  /\ Going(c, cur, F, H, W \ {cur}, M \cup {Reached(to, Append(from, cur))}, D)
         /\ c.blocks = b.blocks
<1> DEFINE g == Reached(to, from)
           h == Reached(to, Append(from, cur))
           N == {f \in L : f.end # to}
           V == W \ {cur}
<1>1. IsRec(c) /\ c.stuck = b.stuck /\ c.blocks = b.blocks
  BY RecEdge DEF Going, JumpTo
<1>2. /\ M \subseteq N /\ g.end = to /\ g.from = from /\ g \in L
      /\ h.end = to /\ h.from = Append(from, cur)
  BY DEF Reached, Others
<1> HIDE DEF g, h, N, V
<1>3. ASSUME Ready(b, cur, F, H, W, L, D)
      PROVE  Ready(c, cur, F, H, V, M \cup {h}, D)
  <2>1. Ready(c, cur, F, H, V, N, D) /\ Edged(b, c, cur, to)
    <3>1. to \in F \cup (H \ {Destruct})
      OBVIOUS
    <3> QED
      BY <1>3, <3>1, EdgeReady DEF N, V
  <2>2. b.preds[to] = from /\ to \in Blocks(b)
    BY <1>2, <1>3 DEF Ready
  <2>3. c.preds[to] = Append(from, cur) /\ to \in Blocks(c)
    BY <2>1, <2>2 DEF Edged, Blocks
  <2>4. \A f \in M \cup {h} : f.end \in Blocks(c) /\ c.preds[f.end] = f.from
    BY <1>2, <2>1, <2>3, Zenon DEF Ready
  <2> QED
    BY <2>1, <2>4 DEF Ready
<1> QED
  BY <1>1, <1>3 DEF Going, V, h

LEMMA GoSealAny ==
  ASSUME MaxReads \in Nat,
         NEW b, NEW cur, NEW F, NEW H, NEW W, NEW L, NEW D, Going(b, cur, F, H, W, L, D),
         NEW u, b.stuck \/ (u \in Blocks(b) /\ u \notin b.sealed), NEW c, c = SealBlock(b, u)
  PROVE  Going(c, cur, F \ {u}, H \ {u}, W, L, D)
<1>1. CASE b.stuck
  <2>1. c = Stuck(b)
    BY <1>1 DEF SealBlock
  <2>2. IsRec(c) /\ c.stuck
    BY <2>1, RecStuck DEF Going
  <2> QED
    BY <2>2 DEF Going
<1>2. ASSUME Ready(b, cur, F, H, W, L, D), ~c.stuck
      PROVE  Ready(c, cur, F \ {u}, H \ {u}, W, L, D)
  <2>1. Sound(b, {}) /\ u \in Blocks(b) /\ u \notin b.sealed /\ b.cur = cur
    BY <1>2 DEF Ready
  <2>2. Sound(c, {}) /\ IsSealed(b, c, u)
    BY <1>2, <2>1, SealedSound
  <2>3. /\ Blocks(c) = Blocks(b) /\ c.preds = b.preds /\ c.succs = b.succs
        /\ c.sealed = b.sealed \cup {u} /\ c.cur = b.cur
        /\ \A w \in Blocks(b), x \in Names : b.def[w][x] # NoValue => c.def[w][x] = b.def[w][x]
        /\ \A w \in Blocks(b) : b.succs[w] = <<>> =>
             /\ \A x \in Names : c.def[w][x] = b.def[w][x]
             /\ \A v \in DOMAIN c.home : c.home[v] = w => v \in DOMAIN b.home /\ b.home[v] = w
    BY <2>2 DEF IsSealed, Blocks
  <2>4. \A w \in F \ {u} :
          w \in Blocks(c) /\ w \notin c.sealed /\ w # cur /\ c.succs[w] = <<>> /\ Blank(c, w)
    BY <1>2, <2>3 DEF Ready, Blank
  <2>5. \A w \in H \ {u} : w \in Blocks(c) /\ w \notin c.sealed /\ (w # Destruct => c.preds[w] # <<>>)
    BY <1>2, <2>3 DEF Ready
  <2>6. \A w \in W : w \in Blocks(c) /\ c.succs[w] = <<>>
    BY <1>2, <2>3 DEF Ready
  <2>7. \A w \in Blocks(c) : w \notin c.sealed /\ c.preds[w] # <<>> => w \in (F \ {u}) \cup (H \ {u})
    BY <1>2, <2>3 DEF Ready
  <2>8. \A f \in L : f.end \in Blocks(c) /\ c.preds[f.end] = f.from
    BY <1>2, <2>3 DEF Ready
  <2>9. \A w \in D : w \in Blocks(c) /\ c.def[w][Result] # NoValue
    <3>1. Result \in Names
      BY DEF Names
    <3> QED
      BY <3>1, <1>2, <2>3 DEF Ready
  <2> QED
    BY <1>2, <2>1, <2>2, <2>3, <2>4, <2>5, <2>6, <2>7, <2>8, <2>9 DEF Ready
<1>3. ASSUME Ready(b, cur, F, H, W, L, D) PROVE IsRec(c)
  <2>1. Sound(b, {}) /\ u \in Blocks(b) /\ u \notin b.sealed
    BY <1>3 DEF Ready
  <2>2. Typed(c)
    BY <2>1, SealedSound
  <2> QED
    BY <2>2 DEF Typed, IsRec
<1> QED
  BY <1>1, <1>2, <1>3 DEF Going

\* sealBlock, when all edges to the block are there.
LEMMA GoSeal ==
  ASSUME MaxReads \in Nat,
         NEW b, NEW cur, NEW F, NEW H, NEW W, NEW L, NEW D, Going(b, cur, F, H, W, L, D),
         NEW u \in F \cup H, NEW c, c = SealBlock(b, u)
  PROVE  Going(c, cur, F \ {u}, H \ {u}, W, L, D)
<1>1. b.stuck \/ (u \in Blocks(b) /\ u \notin b.sealed)
  BY DEF Going, Ready
<1> QED
  BY <1>1, GoSealAny

\* The builder goes on in a block without successors.
LEMMA GoGoto ==
  ASSUME NEW b, NEW cur, NEW F, NEW H, NEW W, NEW L, NEW D, Going(b, cur, F, H, W, L, D),
         NEW u \in H \cup W \cup D, u \notin F, NEW c, c = Goto(b, u)
  PROVE  Going(c, u, F, H, W, L, D)
<1>1. IsRec(c) /\ c.stuck = b.stuck
  BY RecGoto DEF Going
<1>2. ASSUME Ready(b, cur, F, H, W, L, D)
      PROVE  Ready(c, u, F, H, W, L, D)
  <2>1. Sound(b, {}) /\ Typed(b) /\ u \in Blocks(b)
    BY <1>2 DEF Ready, Sound
  <2>2. Sound(c, {})
    BY <2>1, GotoSound
  <2>3. /\ Blocks(c) = Blocks(b) /\ c.preds = b.preds /\ c.succs = b.succs /\ c.home = b.home
        /\ c.sealed = b.sealed /\ c.cur = u /\ c.def = b.def /\ c.stuck = b.stuck
    BY <2>1, GotoFields DEF Blocks
  <2>4. \A w \in F :
          w \in Blocks(c) /\ w \notin c.sealed /\ w # u /\ c.succs[w] = <<>> /\ Blank(c, w)
    BY <1>2, <2>3 DEF Ready, Blank
  <2> QED
    BY <1>2, <2>2, <2>3, <2>4 DEF Ready
<1> QED
  BY <1>1, <1>2 DEF Going

\* A block to come that nothing leads to, or the destruct block, is the current one.
LEMMA GoEnter ==
  ASSUME NEW b, NEW cur, NEW F, NEW H, NEW W, NEW L, NEW D, Going(b, cur, F, H, W, L, D),
         NEW u \in F, NEW c, c = Goto(b, u), NEW K,
         (u = Destruct /\ K = H \cup {u}) \/ ([end |-> u, from |-> <<>>] \in L /\ K = H)
  PROVE  Going(c, u, F \ {u}, K, W, L, D)
<1>1. IsRec(c) /\ c.stuck = b.stuck
  BY RecGoto DEF Going
<1>2. ASSUME Ready(b, cur, F, H, W, L, D)
      PROVE  Ready(c, u, F \ {u}, K, W, L, D)
  <2>1. Sound(b, {}) /\ Typed(b) /\ u \in Blocks(b) /\ u \notin b.sealed
    BY <1>2 DEF Ready, Sound
  <2>2. Sound(c, {})
    BY <2>1, GotoSound
  <2>3. /\ Blocks(c) = Blocks(b) /\ c.preds = b.preds /\ c.succs = b.succs /\ c.home = b.home
        /\ c.sealed = b.sealed /\ c.cur = u /\ c.def = b.def /\ c.stuck = b.stuck
    BY <2>1, GotoFields DEF Blocks
  <2>4. \A w \in F \ {u} :
          w \in Blocks(c) /\ w \notin c.sealed /\ w # u /\ c.succs[w] = <<>> /\ Blank(c, w)
    BY <1>2, <2>3 DEF Ready, Blank
  <2>5. \A w \in K : w \in Blocks(c) /\ w \notin c.sealed /\ (w # Destruct => c.preds[w] # <<>>)
    BY <1>2, <2>1, <2>3 DEF Ready
  <2>6. ASSUME NEW w \in Blocks(c), w \notin c.sealed, c.preds[w] # <<>>
        PROVE  w \in (F \ {u}) \cup K
    <3>1. w \in F \cup H
      BY <1>2, <2>3, <2>6 DEF Ready
    <3>2. CASE w = u /\ [end |-> u, from |-> <<>>] \in L
      <4> DEFINE g == [end |-> u, from |-> <<>>]
      <4>1. g.end = u /\ g.from = <<>> /\ g \in L
        BY <3>2
      <4> HIDE DEF g
      <4>2. b.preds[u] = <<>>
        BY <1>2, <4>1 DEF Ready
      <4> QED
        BY <2>3, <2>6, <3>2, <4>2
    <3> QED
      BY <3>1, <3>2
  <2> QED
    BY <1>2, <2>2, <2>3, <2>4, <2>5, <2>6 DEF Ready
<1> QED
  BY <1>1, <1>2 DEF Going

\* What an instruction leaves.
LEMMA WorkedReady ==
  ASSUME NEW b, NEW cur, NEW F, NEW H, NEW W, NEW L, NEW D, Ready(b, cur, F, H, W, L, D),
         NEW c, Sound(c, {}), Worked(b, c)
  PROVE  Ready(c, cur, F, H, W, L, D)
<1>1. /\ Blocks(c) = Blocks(b) /\ c.preds = b.preds /\ c.succs = b.succs
      /\ c.sealed = b.sealed /\ c.cur = b.cur /\ c.stuck = b.stuck
      /\ \A u \in Blocks(b), x \in Names : b.def[u][x] # NoValue => c.def[u][x] # NoValue
      /\ \A u \in Blocks(b) : u # b.cur /\ b.succs[u] = <<>> /\ Blank(b, u) => Blank(c, u)
  BY DEF Worked, Blocks
<1>2. Result \in Names
  BY DEF Names
<1>3. \A w \in F :
        w \in Blocks(c) /\ w \notin c.sealed /\ w # cur /\ c.succs[w] = <<>> /\ Blank(c, w)
  BY <1>1 DEF Ready
<1>4. \A w \in D : w \in Blocks(c) /\ c.def[w][Result] # NoValue
  BY <1>1, <1>2 DEF Ready
<1> QED
  BY <1>1, <1>3, <1>4 DEF Ready

\* The blocks that know the result of a condition once xs are written.
Knowing(cur, xs) == {u \in {cur} : Result \in xs}

\* An assignment.
LEMMA GoStore ==
  ASSUME NEW b, NEW cur, NEW F, NEW H, NEW W, NEW L, NEW D, Going(b, cur, F, H, W, L, D),
         cur \in W, NEW xs \in SUBSET Names, NEW c, c = Store(b, xs)
  PROVE  /\ Going(c, cur, F, H, W, L, D \cup Knowing(cur, xs))
         /\ c.blocks = b.blocks
<1> DEFINE E == D \cup Knowing(cur, xs)
<1>1. IsRec(c) /\ c.stuck = b.stuck /\ c.blocks = b.blocks
  BY RecStore DEF Going
<1>2. ASSUME Ready(b, cur, F, H, W, L, D)
      PROVE  Ready(c, cur, F, H, W, L, E)
  <2>1. Sound(b, {}) /\ b.cur = cur /\ b.succs[b.cur] = <<>> /\ cur \in Blocks(b)
    BY <1>2 DEF Ready
  <2>2. Sound(c, {}) /\ Worked(b, c) /\ \A x \in xs : c.def[b.cur][x] # NoValue
    BY <2>1, StoreSound
  <2>3. Ready(c, cur, F, H, W, L, D)
    BY <1>2, <2>2, WorkedReady
  <2>4. \A w \in E : w \in Blocks(c) /\ c.def[w][Result] # NoValue
    <3>1. \A w \in D : w \in Blocks(c) /\ c.def[w][Result] # NoValue
      BY <2>3 DEF Ready
    <3>2. cur \in Blocks(c)
      BY <2>1, <2>2 DEF Worked, Blocks
    <3> QED
      BY <2>1, <2>2, <3>1, <3>2 DEF Knowing
  <2> HIDE DEF E
  <2> QED
    BY <2>3, <2>4 DEF Ready
<1> HIDE DEF E
<1>3. Going(c, cur, F, H, W, L, E)
  BY <1>1, <1>2 DEF Going
<1> QED
  BY <1>1, <1>3 DEF E

\* A use or a copy.
LEMMA GoLoad ==
  ASSUME MaxReads \in Nat,
         NEW b, NEW cur, NEW F, NEW H, NEW W, NEW L, NEW D, Going(b, cur, F, H, W, L, D),
         NEW x \in Names, NEW xs \in SUBSET Names, xs = {} \/ cur \in W, NEW c, c = Load(b, x, xs)
  PROVE  Going(c, cur, F, H, W, L, D)
<1> DEFINE ends == Ended(ReadVariable(b, x, b.cur))
<1>1. b.stuck \/ ~ends => c = Stuck(b)
  BY DEF Load
<1> HIDE DEF ends
<1>2. CASE b.stuck \/ ~ends
  <2>1. IsRec(c) /\ c.stuck
    BY <1>1, <1>2, RecStuck DEF Going
  <2> QED
    BY <2>1 DEF Going
<1>3. CASE Ready(b, cur, F, H, W, L, D) /\ ends
  <2>1. Sound(b, {}) /\ ~b.stuck /\ b.cur = cur /\ (xs = {} \/ b.succs[b.cur] = <<>>)
    BY <1>3 DEF Ready
  <2>2. Sound(c, {}) /\ Worked(b, c)
    BY <1>3, <2>1, LoadSound DEF ends
  <2>3. Ready(c, cur, F, H, W, L, D)
    BY <1>3, <2>2, WorkedReady
  <2>4. IsRec(c)
    BY <2>2 DEF Sound, Typed, IsRec
  <2> QED
    BY <2>3, <2>4 DEF Going
<1> QED
  BY <1>2, <1>3 DEF Going

LEMMA RecJoined ==
  ASSUME NEW b, IsRec(b), NEW blk, NEW from1, NEW from2, NEW c, c = Joined(b, blk, from1, from2)
  PROVE  IsRec(c) /\ c.stuck = b.stuck
<1> DEFINE es == <<[from |-> from1, val |-> b.def[from1][Result]],
                   [from |-> from2, val |-> b.def[from2][Result]]>>
           p == NextValue(b)
           hs == Append(b.home, blk)
           ps == [q \in DOMAIN b.phis \cup {p} |->
                            IF q = p THEN [var |-> Result, edges |-> es] ELSE b.phis[q]]
           us == [b.def EXCEPT ![blk][Result] = p]
           d == NewPhi(b, Result, blk, es)
           a == [reads |-> {Result}, writes |-> {}, val |-> p]
           cs == [d.code EXCEPT ![d.cur] = Append(@, a)]
           ds == [d.def EXCEPT ![d.cur] = [x \in Names |-> IF x \in a.writes THEN a.val ELSE @[x]]]
<1>1. d = [b EXCEPT !.home = hs, !.phis = ps, !.def = us]
  BY DEF NewPhi, IsRec
<1>2. c = Perform(d, a)
  BY DEF Joined
<1> HIDE DEF a, hs, ps, us
<1>3. IsRec(d) /\ d.stuck = b.stuck
  <2> HIDE DEF d
  <2> QED
    BY <1>1, Zenon DEF IsRec
<1> HIDE DEF d
<1>4. c = [d EXCEPT !.code = cs, !.def = ds]
  BY <1>2, <1>3 DEF Perform, IsRec
<1> HIDE DEF cs, ds
<1> QED
  BY <1>3, <1>4, Zenon DEF IsRec

\* Both operands of && or || have been evaluated.
LEMMA GoMeet ==
  ASSUME MaxReads \in Nat,
         NEW b, NEW cur, NEW F, NEW H, NEW W, NEW L, NEW D, Going(b, cur, F, H, W, L, D),
         NEW u \in F, u \in W, NEW from1 \in D, NEW from2 \in D,
         [end |-> u, from |-> <<from1, from2>>] \in L,
         NEW c, c = Joined(Goto(SealBlock(b, u), u), u, from1, from2)
  PROVE  Going(c, u, F \ {u}, H \ {u}, W, L, D)
<1> DEFINE d == SealBlock(b, u)
           e == Goto(d, u)
           G == F \ {u}
           K == H \ {u}
           g == [end |-> u, from |-> <<from1, from2>>]
<1>1. Going(d, cur, G, K, W, L, D)
  BY GoSeal
<1>2. Going(e, u, G, K, W, L, D)
  <2>1. u \in K \cup W \cup D /\ u \notin G /\ e = Goto(d, u)
    OBVIOUS
  <2> HIDE DEF d, e, G, K
  <2> QED
    BY <1>1, <2>1, GoGoto
<1>3. c = Joined(e, u, from1, from2) /\ e = Goto(d, u) /\ d = SealBlock(b, u)
  OBVIOUS
<1>4. /\ u \notin G /\ u \notin K /\ g \in L /\ g.end = u /\ g.from = <<from1, from2>>
      /\ g.from # <<>>
  <2>1. <<from1, from2>> # <<>>
    OBVIOUS
  <2> QED
    BY <2>1
<1> HIDE DEF d, e, G, K, g
<1>5. IsRec(c) /\ c.stuck = e.stuck /\ e.stuck = d.stuck
  BY <1>1, <1>2, <1>3, RecJoined, RecGoto DEF Going
<1>6. ASSUME ~c.stuck PROVE Ready(c, u, G, K, W, L, D)
  <2>1. ~e.stuck /\ ~d.stuck /\ Ready(e, u, G, K, W, L, D)
    BY <1>2, <1>5, <1>6 DEF Going
  <2>2. ~b.stuck
    <3>1. b.stuck => d = Stuck(b)
      BY <1>3 DEF SealBlock
    <3>2. Stuck(b).stuck
      BY RecStuck DEF Going
    <3> QED
      BY <2>1, <3>1, <3>2
  <2>3. Ready(b, cur, F, H, W, L, D)
    BY <2>2 DEF Going
  <2>4. Sound(b, {}) /\ u \in Blocks(b) /\ u \notin b.sealed /\ b.succs[u] = <<>> /\ Blank(b, u)
    BY <2>3 DEF Ready
  <2>5. Sound(d, {}) /\ IsSealed(b, d, u)
    BY <1>3, <2>1, <2>4, SealedSound
  <2>6. d.def[u][Result] = NoValue
    <3>1. Result \in Names
      BY DEF Names
    <3> QED
      BY <2>4, <2>5, <3>1 DEF IsSealed, Blank
  <2>7. e.def = d.def
    <3>1. IsRec(d)
      BY <1>1 DEF Going
    <3> QED
      BY <1>3, <3>1 DEF Goto, IsRec
  <2>8. e.preds[u] = <<from1, from2>> /\ u \in Blocks(e)
    BY <1>4, <2>1 DEF Ready
  <2>9. u \in e.sealed
    <3>1. e.preds[u] # <<>>
      BY <1>4, <2>8
    <3> QED
      BY <1>4, <2>1, <2>8, <3>1 DEF Ready
  <2>10. Sound(e, {}) /\ e.cur = u /\ ~e.stuck
    BY <2>1 DEF Ready
  <2>11. Meets(e, u, from1, from2)
    BY <2>1, <2>6, <2>7, <2>8, <2>9, <2>10 DEF Ready, Meets
  <2>12. Sound(c, {}) /\ Worked(e, c)
    BY <1>3, <2>8, <2>10, <2>11, JoinedSound
  <2> QED
    BY <2>1, <2>12, WorkedReady
<1>7. Going(c, u, G, K, W, L, D)
  BY <1>5, <1>6 DEF Going
<1> QED
  BY <1>7 DEF G, K

\* A jump, and a block after it that nothing leads to.
LEMMA GoAway ==
  ASSUME NEW b, NEW cur, NEW F, NEW H, NEW W, NEW L, NEW D, Going(b, cur, F, H, W, L, D),
         b.blocks \in Nat,
         NEW to \in F \cup (H \ {Destruct}), NEW c, c = JumpAway(b, to), Unmet(L, to),
         b.blocks + 1 \notin F
  PROVE  Going(c, b.blocks + 1, F, H, (W \ {cur}) \cup {b.blocks + 1}, L, D)
<1> DEFINE d == JumpTo(b, to)
           e == NewBlocks(d, 1)
           new == Onward(d, 1)
           u == b.blocks + 1
           V == W \ {cur}
           X == V \cup new
           G == F \cup new
           N == Unreached(new)
           M == L \cup N
<1>1. Going(d, cur, F, H, V, L, D) /\ d.blocks = b.blocks
  BY GoJump
<1> HIDE DEF d, V
<1>2. Going(e, cur, G, H, X, M, D)
  <2>1. 1 \in Nat
    OBVIOUS
  <2> HIDE DEF e
  <2> QED
    BY <1>1, <2>1, GoBlocks DEF e
<1>3. new = {u}
  BY <1>1 DEF Onward
<1> HIDE DEF new
<1>4. [end |-> u, from |-> <<>>] \in M /\ u \in G /\ c = Goto(e, u)
  BY <1>3 DEF JumpAway, d, Unreached
<1> HIDE DEF e, G, M, X
<1>5. Going(c, u, G \ {u}, H, X, M, D)
  BY <1>2, <1>4, GoEnter
<1>6. G \ {u} = F /\ X = V \cup {u} /\ L \in SUBSET M /\ X \in SUBSET X /\ D \in SUBSET D
  BY <1>3 DEF G, X, M
<1>7. Going(c, u, F, H, X, M, D)
  BY <1>5, <1>6, Zenon
<1> HIDE DEF u
<1>8. Going(c, u, F, H, X, L, D)
  BY <1>6, <1>7, GoLess
<1> QED
  BY <1>6, <1>8 DEF V, u

-----------------------------------------------------------------------------
\* The statements that are open, and the invariant of the construction.

\* The members of a sequence, which may be any.
Seen(q) == {q[i] : i \in DOMAIN q}

Distinct(q) == \A i, j \in DOMAIN q : q[i] = q[j] => i = j

List(q) == q \in Seq(Seen(q))

\* The blocks that a statement has made and not got to: those that nothing is known of,
\* those to be sealed that have edges, those that are ready, with nothing in them, and
\* those that know the result of a condition; and where the operands of && and || meet.
FreshOf(f) ==
  CASE f.kind \in {"if", "then", "and", "or", "post", "switch"} -> {f.end}
    [] f.kind \in {"condition", "forever"} -> {f.body, f.end} \cup ({f.next} \ {f.header})
    [] f.kind = "for" -> {f.end} \cup ({f.next} \ {f.header})
    [] f.kind \in {"element", "range"} -> {f.next, f.end}
    [] f.kind = "tests" -> Seen(f.all) \cup {f.end}
    [] f.kind = "clauses" -> Seen(f.rest) \cup {f.end}
    [] OTHER -> {}

HeadOf(f) ==
  CASE f.kind \in {"condition", "forever", "for", "post", "element", "range"} -> {f.header}
    [] f.kind = "destruct" -> {Destruct}
    [] OTHER -> {}

LeafOf(f) ==
  CASE f.kind \in {"then", "and"} -> {f.other}
    [] f.kind = "clauses" -> Seen(f.all)
    [] f.kind = "switch" -> Seen(f.rest)
    [] OTHER -> {}

DoneOf(f) == IF f.kind = "or" THEN {f.other} ELSE {}

JoinOf(f) ==
  CASE f.kind = "and" -> {[end |-> f.end, from |-> <<>>]}
    [] f.kind = "or" -> {[end |-> f.end, from |-> <<f.other>>]}
    [] OTHER -> {}

\* All blocks of a statement are its own.
Claims(f) == FreshOf(f) \cup HeadOf(f) \cup LeafOf(f) \cup DoneOf(f)

\* The kinds that are parts of expressions, and those whose current block is not left.
Logic == {"and", "or"}
Live == {"post", "and", "or", "element", "params"}

\* What the blocks of a statement are to each other.
Shaped(f) ==
  /\ f.kind = "params" => f.left \subseteq Var
  /\ f.kind \in {"then", "and", "or"} => f.other # f.end
  /\ f.kind \in {"condition", "forever"} =>
       f.body \notin {f.end, f.next, f.header} /\ f.end \notin {f.next, f.header}
  /\ f.kind \in {"for", "element", "range"} => f.end \notin {f.next, f.header}
  /\ f.kind \in {"element", "range"} =>
       f.next # f.header /\ f.counter \in Names /\ f.keys \subseteq Names
  /\ f.kind = "element" => f.elements \subseteq Names
  /\ f.kind = "post" => f.end # f.header
  /\ f.kind = "tests" =>
       /\ f = [kind |-> "tests", bodies |-> f.bodies, at |-> f.at, all |-> f.all,
               otherwise |-> f.otherwise, end |-> f.end]
       /\ List(f.all) /\ Distinct(f.all) /\ f.end \notin Seen(f.all)
       /\ List(f.bodies) /\ f.at \in DOMAIN f.bodies /\ Seen(f.bodies) \subseteq Seen(f.all)
       /\ f.otherwise \in Seen(f.all) \cup {f.end}
  /\ f.kind = "clauses" =>
       /\ f = [kind |-> "clauses", all |-> f.all, rest |-> f.rest, end |-> f.end]
       /\ List(f.all) /\ Distinct(f.all) /\ f.end \notin Seen(f.all)
       /\ List(f.rest) /\ Distinct(f.rest) /\ Seen(f.rest) \subseteq Seen(f.all)
  /\ f.kind = "switch" => List(f.rest) /\ Distinct(f.rest) /\ f.end \notin Seen(f.rest)

\* The same, of a stack of statements.
FreshIn(o) == UNION {FreshOf(o[i]) : i \in DOMAIN o}
HeadIn(o) == UNION {HeadOf(o[i]) : i \in DOMAIN o}
LeafIn(o) == UNION {LeafOf(o[i]) : i \in DOMAIN o}
DoneIn(o) == UNION {DoneOf(o[i]) : i \in DOMAIN o}
JoinIn(o) == UNION {JoinOf(o[i]) : i \in DOMAIN o}

\* The statements o are open, and R are the blocks to come that none of them has made.
Stacked(o, R) ==
  /\ List(o)
  /\ \A i \in DOMAIN o : Shaped(o[i]) /\ Claims(o[i]) \cap R = {}
  /\ \A i, j \in DOMAIN o : i # j => Claims(o[i]) \cap Claims(o[j]) = {}
  /\ \A i, j \in DOMAIN o : i < j /\ o[i].kind \in Logic => o[j].kind \in Logic

\* The function stands between two steps: each block to come has its statement.
Standing(b, o, R) ==
  /\ Stacked(o, R) /\ b.cur \notin LeafIn(o)
  /\ Ready(b, b.cur, FreshIn(o) \cup R, HeadIn(o), LeafIn(o), JoinIn(o), DoneIn(o))

\* The destruct block and the labels that are not placed yet are to come.
Ending == built \/ \E i \in DOMAIN open : open[i].kind = "destruct"
LabelBlocks == {labelled[l] : l \in DOMAIN labelled \ placed}
Rest == LabelBlocks \cup (IF Ending THEN {} ELSE {Destruct})

\* The current block of an expression has no terminator.
Lively(b, o) == o # <<>> /\ o[Len(o)].kind \in Live => b.succs[b.cur] = <<>>
\* Parameters and the destruct block come outside of all statements.
Alone(o) == \A i \in DOMAIN o : o[i].kind \in {"params", "destruct"} => Len(o) = 1

\* The invariant of the construction.
Control ==
  /\ Standing(fn, open, Rest) /\ Lively(fn, open) /\ Alone(open)
  /\ open # <<>> /\ Top.kind = "params" =>
       DOMAIN labelled = {} /\ Entry \in Blocks(fn) /\ Entry \notin fn.sealed
  /\ Destruct \notin LabelBlocks
  /\ \A k, l \in DOMAIN labelled \ placed : labelled[k] = labelled[l] => k = l
  /\ Ending => DOMAIN labelled \subseteq placed
  /\ built => open = <<>>

-----------------------------------------------------------------------------
\* The stack of open statements: a statement is put on it, taken off it or changed.

\* The stack without its top.
Below(o) == SubSeq(o, 1, Len(o) - 1)

\* o is B with t on top.
IsOn(o, B, t) ==
  /\ List(o) /\ List(B) /\ o # <<>> /\ Len(o) \in DOMAIN o /\ o[Len(o)] = t
  /\ \A i \in DOMAIN B : i \in DOMAIN o /\ o[i] = B[i] /\ i \in Nat /\ i < Len(o) /\ i # Len(o)
  /\ \A i \in DOMAIN o : i = Len(o) \/ i \in DOMAIN B
  /\ Len(o) \in Nat

\* Any sequence is one of its own members.
LEMMA ListFacts ==
  ASSUME NEW T, NEW q \in Seq(T)
  PROVE  List(q)
<1>1. q \in [1 .. Len(q) -> Seen(q)] /\ Len(q) \in Nat
  BY DEF Seen
<1> HIDE DEF Seen
<1>2. \A S : \A n \in Nat : \A f \in [1 .. n -> S] : f \in Seq(S)
  OBVIOUS
<1> QED
  BY <1>1, <1>2 DEF List

\* A stack is what is below its top, and the top.
LEMMA TakeTop ==
  ASSUME NEW o, List(o), o # <<>>
  PROVE  IsOn(o, Below(o), o[Len(o)])
<1> DEFINE T == Seen(o)
           f == Below(o)
<1>1. o \in Seq(T)
  BY DEF List
<1> HIDE DEF T
<1>2. IsFront(T, o, f)
  BY <1>1, FrontFacts DEF Below
<1> HIDE DEF f
<1>3. List(f)
  BY <1>2, ListFacts DEF IsFront
<1> QED
  BY <1>2, <1>3 DEF IsFront, IsOn, f

\* Enter and ...
LEMMA Pushed ==
  ASSUME NEW o, List(o), NEW f
  PROVE  IsOn(Append(o, f), o, f)
<1> DEFINE T == Seen(o) \cup {f}
           a == Append(o, f)
<1>1. o \in Seq(T) /\ f \in T
  <2> DEFINE S == Seen(o)
  <2>1. o \in Seq(S) /\ S \subseteq T
    BY DEF List
  <2> HIDE DEF S, T
  <2>2. o \in Seq(T)
    BY <2>1
  <2> QED
    BY <2>2 DEF T
<1> HIDE DEF T
<1>2. IsLast(T, o, f, a)
  BY <1>1, LastFacts
<1> HIDE DEF a
<1>3. List(a)
  BY <1>2, ListFacts DEF IsLast
<1>4. \A i \in DOMAIN o : i < Len(a) /\ i # Len(a)
  BY <1>2 DEF IsLast
<1>5. Len(a) \in Nat
  BY <1>2 DEF IsLast
<1> QED
  BY <1>2, <1>3, <1>4, <1>5 DEF IsLast, IsOn, a

\* ... Become, on the stack.
LEMMA Replaced ==
  ASSUME NEW o, List(o), o # <<>>, NEW f, NEW a, a = [o EXCEPT ![Len(o)] = f]
  PROVE  IsOn(a, Below(o), f)
<1> DEFINE T == Seen(o) \cup {f}
           n == Len(o)
           B == Below(o)
<1>1. o \in Seq(T) /\ f \in T
  <2> DEFINE S == Seen(o)
  <2>1. o \in Seq(S) /\ S \subseteq T
    BY DEF List
  <2> HIDE DEF S, T
  <2>2. o \in Seq(T)
    BY <2>1
  <2> QED
    BY <2>2 DEF T
<1> HIDE DEF T
<1>2. IsOn(o, B, o[n])
  BY TakeTop
<1>3. a \in Seq(T) /\ Len(a) = n /\ DOMAIN a = DOMAIN o /\ n \in DOMAIN o /\ n \in Nat
  <2>1. n \in DOMAIN o /\ n \in Nat
    BY <1>2 DEF IsOn
  <2> QED
    BY <1>1, <2>1
<1>4. a[n] = f /\ \A i \in DOMAIN o : i # n => a[i] = o[i]
  BY <1>3
<1>5. List(a)
  BY <1>3, ListFacts, Zenon
<1>6. a # <<>>
  BY <1>3
<1> HIDE DEF B, n
<1> QED
  BY <1>2, <1>3, <1>4, <1>5, <1>6 DEF IsOn, B, n

\* All blocks that statements have made and not got to.
ClaimsIn(o) == FreshIn(o) \cup HeadIn(o) \cup LeafIn(o) \cup DoneIn(o)

\* The blocks of a stack are those of the statements below and of the top.
LEMMA SetsOn ==
  ASSUME NEW o, NEW B, NEW t, IsOn(o, B, t)
  PROVE  /\ FreshIn(o) = FreshOf(t) \cup FreshIn(B) /\ HeadIn(o) = HeadOf(t) \cup HeadIn(B)
         /\ LeafIn(o) = LeafOf(t) \cup LeafIn(B) /\ DoneIn(o) = DoneOf(t) \cup DoneIn(B)
         /\ JoinIn(o) = JoinOf(t) \cup JoinIn(B)
         /\ ClaimsIn(o) = Claims(t) \cup ClaimsIn(B)
<1> DEFINE n == Len(o)
<1>1. /\ n \in DOMAIN o /\ o[n] = t
      /\ \A i \in DOMAIN B : i \in DOMAIN o /\ o[i] = B[i]
      /\ \A i \in DOMAIN o : i = n \/ i \in DOMAIN B
  BY DEF IsOn
<1> HIDE DEF n
<1>2. FreshIn(o) = FreshOf(t) \cup FreshIn(B)
  <2>1. ASSUME NEW u \in FreshIn(o) PROVE u \in FreshOf(t) \cup FreshIn(B)
    BY <1>1 DEF FreshIn
  <2>2. ASSUME NEW u \in FreshOf(t) \cup FreshIn(B) PROVE u \in FreshIn(o)
    BY <1>1 DEF FreshIn
  <2> QED
    BY <2>1, <2>2
<1>3. HeadIn(o) = HeadOf(t) \cup HeadIn(B)
  <2>1. ASSUME NEW u \in HeadIn(o) PROVE u \in HeadOf(t) \cup HeadIn(B)
    BY <1>1 DEF HeadIn
  <2>2. ASSUME NEW u \in HeadOf(t) \cup HeadIn(B) PROVE u \in HeadIn(o)
    BY <1>1 DEF HeadIn
  <2> QED
    BY <2>1, <2>2
<1>4. LeafIn(o) = LeafOf(t) \cup LeafIn(B)
  <2>1. ASSUME NEW u \in LeafIn(o) PROVE u \in LeafOf(t) \cup LeafIn(B)
    BY <1>1 DEF LeafIn
  <2>2. ASSUME NEW u \in LeafOf(t) \cup LeafIn(B) PROVE u \in LeafIn(o)
    BY <1>1 DEF LeafIn
  <2> QED
    BY <2>1, <2>2
<1>5. DoneIn(o) = DoneOf(t) \cup DoneIn(B)
  <2>1. ASSUME NEW u \in DoneIn(o) PROVE u \in DoneOf(t) \cup DoneIn(B)
    BY <1>1 DEF DoneIn
  <2>2. ASSUME NEW u \in DoneOf(t) \cup DoneIn(B) PROVE u \in DoneIn(o)
    BY <1>1 DEF DoneIn
  <2> QED
    BY <2>1, <2>2
<1>6. JoinIn(o) = JoinOf(t) \cup JoinIn(B)
  <2>1. ASSUME NEW u \in JoinIn(o) PROVE u \in JoinOf(t) \cup JoinIn(B)
    BY <1>1 DEF JoinIn
  <2>2. ASSUME NEW u \in JoinOf(t) \cup JoinIn(B) PROVE u \in JoinIn(o)
    BY <1>1 DEF JoinIn
  <2> QED
    BY <2>1, <2>2
<1> QED
  BY <1>2, <1>3, <1>4, <1>5, <1>6 DEF ClaimsIn, Claims

\* What is below the top is a stack ...
LEMMA StackedBelow ==
  ASSUME NEW o, NEW R, Stacked(o, R), NEW B, NEW t, IsOn(o, B, t)
  PROVE  /\ Stacked(B, R) /\ Shaped(t) /\ Claims(t) \cap R = {} /\ Claims(t) \cap ClaimsIn(B) = {}
         /\ t.kind \notin Logic => \A i \in DOMAIN B : B[i].kind \notin Logic
<1> DEFINE n == Len(o)
<1>1. /\ n \in DOMAIN o /\ o[n] = t /\ List(B)
      /\ \A i \in DOMAIN B : i \in DOMAIN o /\ o[i] = B[i] /\ i # n /\ i < n
  BY DEF IsOn
<1> HIDE DEF n
<1>2. Stacked(B, R)
  BY <1>1 DEF Stacked
<1>3. Shaped(t) /\ Claims(t) \cap R = {}
  BY <1>1 DEF Stacked
<1>4. \A i \in DOMAIN B : Claims(t) \cap Claims(B[i]) = {}
  BY <1>1 DEF Stacked
<1>5. ASSUME NEW u \in Claims(t), u \in ClaimsIn(B) PROVE FALSE
  <2>1. PICK i \in DOMAIN B : u \in Claims(B[i])
    BY <1>5 DEF ClaimsIn, FreshIn, HeadIn, LeafIn, DoneIn, Claims
  <2> QED
    BY <2>1, <1>4
<1>6. t.kind \notin Logic => \A i \in DOMAIN B : B[i].kind \notin Logic
  BY <1>1 DEF Stacked
<1> QED
  BY <1>2, <1>3, <1>5, <1>6

\* ... and one more statement makes a stack if its blocks are its own.
LEMMA StackedOn ==
  ASSUME NEW B, NEW R, Stacked(B, R), NEW o, NEW t, IsOn(o, B, t), Shaped(t),
         Claims(t) \cap R = {}, Claims(t) \cap ClaimsIn(B) = {},
         t.kind \in Logic \/ \A i \in DOMAIN B : B[i].kind \notin Logic
  PROVE  Stacked(o, R)
<1> DEFINE n == Len(o)
<1>1. /\ n \in DOMAIN o /\ o[n] = t /\ List(o) /\ n \in Nat
      /\ \A i \in DOMAIN B : i \in DOMAIN o /\ o[i] = B[i] /\ i # n /\ i < n /\ i \in Nat
      /\ \A i \in DOMAIN o : i = n \/ i \in DOMAIN B
  BY DEF IsOn
<1> HIDE DEF n
<1>2. \A i \in DOMAIN o : Shaped(o[i]) /\ Claims(o[i]) \cap R = {}
  BY <1>1 DEF Stacked
<1>3. \A i \in DOMAIN B : Claims(t) \cap Claims(B[i]) = {}
  <2> SUFFICES ASSUME NEW i \in DOMAIN B PROVE Claims(B[i]) \subseteq ClaimsIn(B)
    OBVIOUS
  <2> QED
    BY DEF ClaimsIn, FreshIn, HeadIn, LeafIn, DoneIn, Claims
<1>4. \A i, j \in DOMAIN o : i # j => Claims(o[i]) \cap Claims(o[j]) = {}
  BY <1>1, <1>3 DEF Stacked
<1>5. \A i, j \in DOMAIN o : i < j /\ o[i].kind \in Logic => o[j].kind \in Logic
  <2> SUFFICES ASSUME NEW i \in DOMAIN o, NEW j \in DOMAIN o, i < j, o[i].kind \in Logic
               PROVE  o[j].kind \in Logic
    OBVIOUS
  <2>1. i \in DOMAIN B
    BY <1>1
  <2>2. B[i].kind \in Logic
    BY <2>1, <1>1
  <2>3. t.kind \in Logic
    BY <2>1, <2>2
  <2> QED
    BY <2>1, <2>2, <2>3, <1>1 DEF Stacked
<1> QED
  BY <1>1, <1>2, <1>4, <1>5 DEF Stacked

\* The blocks where operands meet are to come.
LEMMA JoinsFresh ==
  ASSUME NEW o
  PROVE  /\ \A g \in JoinIn(o) : g.end \in FreshIn(o)
         /\ (\A i \in DOMAIN o : o[i].kind \notin Logic) => JoinIn(o) = {} /\ DoneIn(o) = {}
<1>1. ASSUME NEW g \in JoinIn(o) PROVE g.end \in FreshIn(o)
  <2>1. PICK i \in DOMAIN o : g \in JoinOf(o[i])
    BY DEF JoinIn
  <2>2. o[i].kind \in {"and", "or"} /\ g.end = o[i].end
    BY <2>1 DEF JoinOf
  <2>3. g.end \in FreshOf(o[i])
    BY <2>2 DEF FreshOf
  <2> QED
    BY <2>3 DEF FreshIn
<1>2. ASSUME \A i \in DOMAIN o : o[i].kind \notin Logic PROVE JoinIn(o) = {} /\ DoneIn(o) = {}
  <2>1. \A i \in DOMAIN o : JoinOf(o[i]) = {} /\ DoneOf(o[i]) = {}
    BY <1>2 DEF JoinOf, DoneOf, Logic
  <2> QED
    BY <2>1 DEF JoinIn, DoneIn
<1> QED
  BY <1>1, <1>2

-----------------------------------------------------------------------------
\* A part of a statement is lowered while others are open around it.

\* The statements B are open around the one that is lowered, whose own blocks are these.
Doing(b, cur, f, h, w, l, d, B, R) ==
  /\ Stacked(B, R) /\ Destruct \in R /\ cur \notin LeafIn(B)
  /\ (f \cup h) \cap (ClaimsIn(B) \cup R) = {}
  /\ Going(b, cur, f \cup (FreshIn(B) \cup R), h \cup HeadIn(B), w \cup LeafIn(B),
           l \cup JoinIn(B), d \cup DoneIn(B))

\* What is known may be forgotten.
LEMMA DoLess ==
  ASSUME NEW b, NEW cur, NEW f, NEW h, NEW w, NEW l, NEW d, NEW B, NEW R,
         Doing(b, cur, f, h, w, l, d, B, R),
         NEW v \in SUBSET w, NEW m \in SUBSET l, NEW e \in SUBSET d
  PROVE  Doing(b, cur, f, h, v, m, e, B, R)
<1> DEFINE F == f \cup (FreshIn(B) \cup R)
           H == h \cup HeadIn(B)
           W == w \cup LeafIn(B)
           L == l \cup JoinIn(B)
           D == d \cup DoneIn(B)
           V == v \cup LeafIn(B)
           M == m \cup JoinIn(B)
           E == e \cup DoneIn(B)
<1>1. Going(b, cur, F, H, W, L, D) /\ V \in SUBSET W /\ M \in SUBSET L /\ E \in SUBSET D
  BY DEF Doing
<1> HIDE DEF F, H, W, L, D, V, M, E
<1>2. Going(b, cur, F, H, V, M, E)
  BY <1>1, GoLess
<1> QED
  BY <1>2 DEF Doing, F, H, V, M, E

\* More blocks.
LEMMA DoBlocks ==
  ASSUME NEW b, NEW cur, NEW f, NEW h, NEW w, NEW l, NEW d, NEW B, NEW R,
         Doing(b, cur, f, h, w, l, d, B, R), b.blocks \in Nat,
         ClaimsIn(B) \cup R \subseteq 1 .. b.blocks,
         NEW n \in Nat, NEW c, c = NewBlocks(b, n)
  PROVE  /\ Doing(c, cur, f \cup Onward(b, n), h, w \cup Onward(b, n), l \cup Unreached(Onward(b, n)), d, B, R)
         /\ c.blocks = b.blocks + n
<1> DEFINE new == Onward(b, n)
           N == Unreached(new)
           F == f \cup (FreshIn(B) \cup R)
           H == h \cup HeadIn(B)
           W == w \cup LeafIn(B)
           L == l \cup JoinIn(B)
           D == d \cup DoneIn(B)
           G == (f \cup new) \cup (FreshIn(B) \cup R)
           V == (w \cup new) \cup LeafIn(B)
           M == (l \cup N) \cup JoinIn(B)
<1>0. new = b.blocks + 1 .. b.blocks + n
  BY DEF Onward
<1> HIDE DEF new, N
<1>1. Going(b, cur, F, H, W, L, D)
  BY DEF Doing
<1>2. F \cup new = G /\ W \cup new = V /\ L \cup N = M
  BY Zenon
<1>3. new \cap (ClaimsIn(B) \cup R) = {}
  <2>1. \A u \in new : u \notin 1 .. b.blocks
    BY <1>0
  <2> HIDE DEF F, H, W, L, D, G, V, M
  <2> QED
    BY <2>1
<1> HIDE DEF F, H, W, L, D, G, V, M
<1>4. Going(c, cur, F \cup new, H, W \cup new, L \cup N, D) /\ c.blocks = b.blocks + n
  BY <1>1, GoBlocks DEF new, N
<1>5. Going(c, cur, G, H, V, M, D)
  BY <1>2, <1>4, Zenon
<1>6. (f \cup new \cup h) \cap (ClaimsIn(B) \cup R) = {}
  BY <1>3 DEF Doing
<1> QED
  BY <1>4, <1>5, <1>6 DEF Doing, G, H, V, M, D, new, N

\* A jump to a block that the statement waits for, or one outside.
LEMMA DoJump ==
  ASSUME NEW b, NEW cur, NEW f, NEW h, NEW w, NEW l, NEW d, NEW B, NEW R,
         Doing(b, cur, f, h, w, l, d, B, R), NEW to \in f \cup h,
         Unmet(l, to), NEW c, c = JumpTo(b, to)
  PROVE  Doing(c, cur, f, h, w \ {cur}, l, d, B, R) /\ c.blocks = b.blocks
<1> DEFINE F == f \cup (FreshIn(B) \cup R)
           H == h \cup HeadIn(B)
           W == w \cup LeafIn(B)
           L == l \cup JoinIn(B)
           D == d \cup DoneIn(B)
<1>1. Going(b, cur, F, H, W, L, D)
  BY DEF Doing
<1>2. /\ to \in F \cup (H \ {Destruct}) /\ Unmet(L, to)
      /\ W \ {cur} = (w \ {cur}) \cup LeafIn(B)
  <2>1. to \notin ClaimsIn(B) \cup R /\ Destruct \in R /\ cur \notin LeafIn(B)
    BY DEF Doing
  <2>2. \A g \in JoinIn(B) : g.end \in ClaimsIn(B)
    BY JoinsFresh DEF ClaimsIn
  <2> QED
    BY <2>1, <2>2 DEF Unmet
<1> HIDE DEF F, H, W, L, D
<1>3. Going(c, cur, F, H, W \ {cur}, L, D) /\ c.blocks = b.blocks
  BY <1>1, <1>2, GoJump
<1> QED
  BY <1>2, <1>3, Zenon DEF Doing, F, H, L, D

\* The same, unless the current block has a terminator.
LEMMA DoFall ==
  ASSUME NEW b, NEW cur, NEW f, NEW h, NEW w, NEW l, NEW d, NEW B, NEW R,
         Doing(b, cur, f, h, w, l, d, B, R), NEW to \in f \cup h,
         Unmet(l, to), NEW c, c = FallInto(b, to)
  PROVE  Doing(c, cur, f, h, w \ {cur}, l, d, B, R) /\ c.blocks = b.blocks
<1> DEFINE F == f \cup (FreshIn(B) \cup R)
           H == h \cup HeadIn(B)
           W == w \cup LeafIn(B)
           L == l \cup JoinIn(B)
           D == d \cup DoneIn(B)
<1>1. Going(b, cur, F, H, W, L, D)
  BY DEF Doing
<1>2. /\ to \in F \cup (H \ {Destruct}) /\ Unmet(L, to)
      /\ W \ {cur} = (w \ {cur}) \cup LeafIn(B)
  <2>1. to \notin ClaimsIn(B) \cup R /\ Destruct \in R /\ cur \notin LeafIn(B)
    BY DEF Doing
  <2>2. \A g \in JoinIn(B) : g.end \in ClaimsIn(B)
    BY JoinsFresh DEF ClaimsIn
  <2> QED
    BY <2>1, <2>2 DEF Unmet
<1> HIDE DEF F, H, W, L, D
<1>3. Going(c, cur, F, H, W \ {cur}, L, D) /\ c.blocks = b.blocks
  <2>1. CASE c = JumpTo(b, to)
    BY <1>1, <1>2, <2>1, GoJump
  <2>2. CASE c = b
    <3> DEFINE V == W \ {cur}
    <3>1. V \in SUBSET W /\ L \in SUBSET L /\ D \in SUBSET D
      OBVIOUS
    <3> HIDE DEF V
    <3>2. Going(b, cur, F, H, V, L, D)
      BY <1>1, <3>1, GoLess
    <3> QED
      BY <2>2, <3>2 DEF V
  <2> QED
    BY <2>1, <2>2 DEF FallInto
<1> QED
  BY <1>2, <1>3, Zenon DEF Doing, F, H, L, D

\* A jump to a block that stays open: the header of a loop.
LEMMA DoHead ==
  ASSUME NEW b, NEW cur, NEW f, NEW h, NEW w, NEW l, NEW d, NEW B, NEW R,
         Doing(b, cur, f, h, w, l, d, B, R), NEW to \in f,
         Unmet(l, to), NEW c, c = JumpTo(b, to)
  PROVE  Doing(c, cur, f \ {to}, h \cup {to}, w \ {cur}, l, d, B, R) /\ c.blocks = b.blocks
<1> DEFINE F == f \cup (FreshIn(B) \cup R)
           H == h \cup HeadIn(B)
           W == w \cup LeafIn(B)
           L == l \cup JoinIn(B)
           D == d \cup DoneIn(B)
           G == (f \ {to}) \cup (FreshIn(B) \cup R)
           K == (h \cup {to}) \cup HeadIn(B)
           V == (w \ {cur}) \cup LeafIn(B)
<1>1. Going(b, cur, F, H, W, L, D)
  BY DEF Doing
<1>2. /\ Unmet(L, to)
      /\ W \ {cur} = V
  <2>1. to \notin ClaimsIn(B) \cup R /\ Destruct \in R /\ cur \notin LeafIn(B)
    BY DEF Doing
  <2>2. \A g \in JoinIn(B) : g.end \in ClaimsIn(B)
    BY JoinsFresh DEF ClaimsIn
  <2> QED
    BY <2>1, <2>2 DEF Unmet
<1>3. to \in F /\ F \ {to} = G /\ H \cup {to} = K
  <2>1. to \notin FreshIn(B) \cup R
    BY DEF Doing, ClaimsIn
  <2> QED
    BY <2>1
<1> HIDE DEF F, H, W, L, D, G, K, V
<1>4. Going(c, cur, F \ {to}, H \cup {to}, W \ {cur}, L, D) /\ c.blocks = b.blocks
  BY <1>1, <1>2, <1>3, GoHead
<1>5. Going(c, cur, G, K, V, L, D)
  BY <1>2, <1>3, <1>4
<1>6. ((f \ {to}) \cup (h \cup {to})) \cap (ClaimsIn(B) \cup R) = {}
  BY DEF Doing
<1> QED
  BY <1>4, <1>5, <1>6 DEF Doing, G, K, V, L, D

\* A jump to where && and || meet.
LEMMA DoJoin ==
  ASSUME NEW b, NEW cur, NEW f, NEW h, NEW w, NEW l, NEW d, NEW B, NEW R,
         Doing(b, cur, f, h, w, l, d, B, R), NEW to \in f,
         NEW c, c = JumpTo(b, to), NEW from, Reached(to, from) \in l,
         NEW m, Others(m, l, to)
  PROVE  /\ Doing(c, cur, f, h, w \ {cur}, m \cup {Reached(to, Append(from, cur))}, d, B, R)
         /\ c.blocks = b.blocks
<1> DEFINE F == f \cup (FreshIn(B) \cup R)
           H == h \cup HeadIn(B)
           W == w \cup LeafIn(B)
           L == l \cup JoinIn(B)
           D == d \cup DoneIn(B)
           M == m \cup JoinIn(B)
           e == Reached(to, Append(from, cur))
           k == Reached(to, from)
           V == (w \ {cur}) \cup LeafIn(B)
           N == (m \cup {e}) \cup JoinIn(B)
<1>1. Going(b, cur, F, H, W, L, D)
  BY DEF Doing
<1>2. /\ Others(M, L, to)
      /\ W \ {cur} = V
      /\ to \in F /\ k \in L
  <2>1. to \notin ClaimsIn(B) /\ cur \notin LeafIn(B)
    BY DEF Doing
  <2>2. \A g \in JoinIn(B) : g.end \in ClaimsIn(B)
    BY JoinsFresh DEF ClaimsIn
  <2> QED
    BY <2>1, <2>2 DEF Others
<1>3. M \cup {e} = N
  BY Zenon
<1> HIDE DEF F, H, W, L, D, M, V, N, e, k
<1>4. Going(c, cur, F, H, W \ {cur}, M \cup {e}, D) /\ c.blocks = b.blocks
  BY <1>1, <1>2, GoJoin DEF e, k
<1>5. Going(c, cur, F, H, V, N, D)
  BY <1>2, <1>3, <1>4
<1> QED
  BY <1>4, <1>5 DEF Doing, F, H, V, N, D, e

\* A block is sealed.
LEMMA DoSeal ==
  ASSUME MaxReads \in Nat,
         NEW b, NEW cur, NEW f, NEW h, NEW w, NEW l, NEW d, NEW B, NEW R,
         Doing(b, cur, f, h, w, l, d, B, R), NEW u \in f \cup h, NEW c, c = SealBlock(b, u)
  PROVE  Doing(c, cur, f \ {u}, h \ {u}, w, l, d, B, R)
<1> DEFINE F == f \cup (FreshIn(B) \cup R)
           H == h \cup HeadIn(B)
           W == w \cup LeafIn(B)
           L == l \cup JoinIn(B)
           D == d \cup DoneIn(B)
           G == (f \ {u}) \cup (FreshIn(B) \cup R)
           K == (h \ {u}) \cup HeadIn(B)
<1>1. Going(b, cur, F, H, W, L, D) /\ u \in F \cup H
  BY DEF Doing
<1>2. F \ {u} = G /\ H \ {u} = K
  <2>1. u \notin FreshIn(B) \cup R /\ u \notin HeadIn(B)
    BY DEF Doing, ClaimsIn
  <2> QED
    BY <2>1
<1> HIDE DEF F, H, W, L, D, G, K
<1>3. Going(c, cur, F \ {u}, H \ {u}, W, L, D)
  BY <1>1, GoSeal
<1>4. Going(c, cur, G, K, W, L, D)
  BY <1>2, <1>3
<1>5. ((f \ {u}) \cup (h \ {u})) \cap (ClaimsIn(B) \cup R) = {}
  BY DEF Doing
<1> QED
  BY <1>4, <1>5 DEF Doing, G, K, W, L, D

\* The builder goes on in it.
LEMMA DoGoto ==
  ASSUME NEW b, NEW cur, NEW f, NEW h, NEW w, NEW l, NEW d, NEW B, NEW R,
         Doing(b, cur, f, h, w, l, d, B, R), NEW u \in h \cup w \cup d, u \notin f,
         u \notin ClaimsIn(B) \cup R, NEW c, c = Goto(b, u)
  PROVE  Doing(c, u, f, h, w, l, d, B, R) /\ c.blocks = b.blocks
<1> DEFINE F == f \cup (FreshIn(B) \cup R)
           H == h \cup HeadIn(B)
           W == w \cup LeafIn(B)
           L == l \cup JoinIn(B)
           D == d \cup DoneIn(B)
<1>1. Going(b, cur, F, H, W, L, D) /\ u \in H \cup W \cup D /\ u \notin F /\ u \notin LeafIn(B)
  BY DEF Doing, ClaimsIn
<1> HIDE DEF F, H, W, L, D
<1>2. Going(c, u, F, H, W, L, D)
  BY <1>1, GoGoto
<1>3. c.blocks = b.blocks
  BY <1>1, RecGoto DEF Going
<1> QED
  BY <1>1, <1>2, <1>3 DEF Doing, F, H, W, L, D

\* An assignment.
LEMMA DoStore ==
  ASSUME NEW b, NEW cur, NEW f, NEW h, NEW w, NEW l, NEW d, NEW B, NEW R,
         Doing(b, cur, f, h, w, l, d, B, R), cur \in w, NEW xs \in SUBSET Names,
         NEW c, c = Store(b, xs)
  PROVE  /\ Doing(c, cur, f, h, w, l, d \cup Knowing(cur, xs), B, R)
         /\ c.blocks = b.blocks
<1> DEFINE F == f \cup (FreshIn(B) \cup R)
           H == h \cup HeadIn(B)
           W == w \cup LeafIn(B)
           L == l \cup JoinIn(B)
           D == d \cup DoneIn(B)
           r == Knowing(cur, xs)
           E == (d \cup r) \cup DoneIn(B)
<1>1. Going(b, cur, F, H, W, L, D) /\ cur \in W
  BY DEF Doing
<1> HIDE DEF F, H, W, L, D, E, r
<1>2. Going(c, cur, F, H, W, L, D \cup Knowing(cur, xs)) /\ c.blocks = b.blocks
  BY <1>1, GoStore DEF r
<1>3. D \cup r = E
  BY Zenon DEF D, E
<1>4. Going(c, cur, F, H, W, L, E)
  BY <1>2, <1>3 DEF r
<1> QED
  BY <1>2, <1>4 DEF Doing, F, H, W, L, E, r

\* A use.
LEMMA DoLoad ==
  ASSUME MaxReads \in Nat,
         NEW b, NEW cur, NEW f, NEW h, NEW w, NEW l, NEW d, NEW B, NEW R,
         Doing(b, cur, f, h, w, l, d, B, R), NEW x \in Names, NEW xs \in SUBSET Names,
         xs = {} \/ cur \in w, NEW c, c = Load(b, x, xs)
  PROVE  Doing(c, cur, f, h, w, l, d, B, R)
<1> DEFINE F == f \cup (FreshIn(B) \cup R)
           H == h \cup HeadIn(B)
           W == w \cup LeafIn(B)
           L == l \cup JoinIn(B)
           D == d \cup DoneIn(B)
<1>1. Going(b, cur, F, H, W, L, D) /\ (xs = {} \/ cur \in W)
  BY DEF Doing
<1> HIDE DEF F, H, W, L, D
<1>2. Going(c, cur, F, H, W, L, D)
  BY <1>1, GoLoad
<1> QED
  BY <1>2 DEF Doing, F, H, W, L, D

\* Where the operands of && or || meet.
LEMMA DoMeet ==
  ASSUME MaxReads \in Nat,
         NEW b, NEW cur, NEW f, NEW h, NEW w, NEW l, NEW d, NEW B, NEW R,
         Doing(b, cur, f, h, w, l, d, B, R), NEW u \in f, u \in w, NEW from1 \in d, NEW from2 \in d,
         [end |-> u, from |-> <<from1, from2>>] \in l,
         NEW c, c = Joined(Goto(SealBlock(b, u), u), u, from1, from2)
  PROVE  Doing(c, u, f \ {u}, h \ {u}, w, l, d, B, R)
<1> DEFINE F == f \cup (FreshIn(B) \cup R)
           H == h \cup HeadIn(B)
           W == w \cup LeafIn(B)
           L == l \cup JoinIn(B)
           D == d \cup DoneIn(B)
           G == (f \ {u}) \cup (FreshIn(B) \cup R)
           K == (h \ {u}) \cup HeadIn(B)
<1>1. /\ Going(b, cur, F, H, W, L, D) /\ u \in F /\ u \in W /\ from1 \in D /\ from2 \in D
      /\ [end |-> u, from |-> <<from1, from2>>] \in L
  BY DEF Doing
<1>2. F \ {u} = G /\ H \ {u} = K /\ u \notin LeafIn(B)
  <2>1. u \notin FreshIn(B) \cup R /\ u \notin HeadIn(B) /\ u \notin LeafIn(B)
    BY DEF Doing, ClaimsIn
  <2> QED
    BY <2>1
<1> HIDE DEF F, H, W, L, D, G, K
<1>3. Going(c, u, F \ {u}, H \ {u}, W, L, D)
  BY <1>1, GoMeet
<1>4. Going(c, u, G, K, W, L, D)
  BY <1>2, <1>3
<1>5. ((f \ {u}) \cup (h \ {u})) \cap (ClaimsIn(B) \cup R) = {}
  BY DEF Doing
<1> QED
  BY <1>2, <1>4, <1>5 DEF Doing, G, K, W, L, D

\* A block of the statement's own that has been reached is sealed and entered.
LEMMA DoInto ==
  ASSUME MaxReads \in Nat,
         NEW b, NEW cur, NEW f, NEW h, NEW w, NEW l, NEW d, NEW B, NEW R,
         Doing(b, cur, f, h, w, l, d, B, R), NEW u \in f \cup h, u \in w,
         NEW c, c = Goto(SealBlock(b, u), u)
  PROVE  Doing(c, u, f \ {u}, h \ {u}, w, l, d, B, R)
<1> DEFINE s == SealBlock(b, u)
<1>1. Doing(s, cur, f \ {u}, h \ {u}, w, l, d, B, R)
  BY DoSeal
<1>2. u \notin ClaimsIn(B) \cup R
  BY DEF Doing
<1> HIDE DEF s
<1>3. u \notin f \ {u}
  OBVIOUS
<1>4. c = Goto(s, u)
  BY DEF s
<1>5. u \in (h \ {u}) \cup w \cup d
  OBVIOUS
<1> DEFINE g == f \ {u}
           k == h \ {u}
<1> HIDE DEF g, k
<1>6. Doing(s, cur, g, k, w, l, d, B, R) /\ u \in k \cup w \cup d /\ u \notin g
  BY <1>1, <1>3, <1>5 DEF g, k
<1>7. Doing(c, u, g, k, w, l, d, B, R)
  BY <1>2, <1>4, <1>6, DoGoto
<1> QED
  BY <1>7 DEF g, k

-----------------------------------------------------------------------------
\* Where a step begins and where it ends.

\* The statement at the top, t, has the rest of the stack around it.
Begins(b, t, B, R) ==
  /\ Doing(b, b.cur, FreshOf(t), HeadOf(t), LeafOf(t) \cup FreshOf(t), JoinOf(t), DoneOf(t), B, R)
  /\ Shaped(t) /\ Claims(t) \cap (ClaimsIn(B) \cup R) = {} /\ b.cur \notin LeafOf(t) \cup FreshOf(t)
  /\ ClaimsIn(B) \cup R \subseteq 1 .. b.blocks /\ Claims(t) \subseteq 1 .. b.blocks
  /\ b.blocks \in Nat /\ ~b.stuck
  /\ t.kind \notin Logic => \A i \in DOMAIN B : B[i].kind \notin Logic

LEMMA ReadyFacts ==
  ASSUME NEW b, NEW cur, NEW F, NEW H, NEW W, NEW L, NEW D, Ready(b, cur, F, H, W, L, D)
  PROVE  /\ F \cup H \cup W \cup D \subseteq 1 .. b.blocks /\ b.blocks \in Nat /\ ~b.stuck /\ IsRec(b)
         /\ b.cur = cur /\ cur \in 1 .. b.blocks
<1>1. Sound(b, {}) /\ Typed(b)
  BY DEF Ready, Sound
<1>2. b.blocks \in Nat /\ b.cur \in Blocks(b) /\ IsRec(b)
  BY <1>1 DEF Typed, IsRec, Blocks
<1> QED
  BY <1>2 DEF Ready, Blocks

\* A step that works on the top begins with its blocks.
LEMMA BeginTop ==
  ASSUME NEW b, NEW o, NEW R, Standing(b, o, R), NEW B, NEW t, IsOn(o, B, t), Destruct \in R
  PROVE  Begins(b, t, B, R)
<1> DEFINE F == FreshIn(o) \cup R
           H == HeadIn(o)
           W == LeafIn(o)
           L == JoinIn(o)
           D == DoneIn(o)
           G == FreshOf(t) \cup (FreshIn(B) \cup R)
           V == (LeafOf(t) \cup FreshOf(t)) \cup LeafIn(B)
<1>1. Stacked(o, R) /\ b.cur \notin LeafIn(o) /\ Ready(b, b.cur, F, H, W, L, D)
  BY DEF Standing
<1>2. /\ F = G /\ H = HeadOf(t) \cup HeadIn(B)
      /\ LeafIn(o) = LeafOf(t) \cup LeafIn(B) /\ V \subseteq W \cup F
      /\ L = JoinOf(t) \cup JoinIn(B) /\ D = DoneOf(t) \cup DoneIn(B)
      /\ ClaimsIn(o) = Claims(t) \cup ClaimsIn(B)
  BY SetsOn
<1>3. /\ Stacked(B, R) /\ Shaped(t) /\ Claims(t) \cap R = {} /\ Claims(t) \cap ClaimsIn(B) = {}
      /\ t.kind \notin Logic => \A i \in DOMAIN B : B[i].kind \notin Logic
  BY <1>1, StackedBelow
<1>4. F \cup H \cup W \cup D = ClaimsIn(o) \cup R
  BY DEF ClaimsIn
<1> HIDE DEF F, H, W, L, D, G, V
<1>5. /\ F \cup H \cup W \cup D \subseteq 1 .. b.blocks /\ b.blocks \in Nat /\ ~b.stuck /\ IsRec(b)
  BY <1>1, ReadyFacts
<1>6. Ready(b, b.cur, F, H, V, L, D)
  BY <1>1, <1>2 DEF Ready
<1>7. Going(b, b.cur, F, H, V, L, D)
  BY <1>5, <1>6 DEF Going
<1>8. (FreshOf(t) \cup HeadOf(t)) \cap (ClaimsIn(B) \cup R) = {}
  BY <1>3 DEF Claims
<1>9. Doing(b, b.cur, FreshOf(t), HeadOf(t), LeafOf(t) \cup FreshOf(t), JoinOf(t), DoneOf(t), B, R)
  BY <1>1, <1>2, <1>3, <1>7, <1>8 DEF Doing, G, V
<1>10. b.cur \notin LeafOf(t) \cup FreshOf(t)
  <2>1. b.cur \notin F
    BY <1>1 DEF Ready
  <2> QED
    BY <1>1, <1>2, <2>1 DEF G
<1>11. Claims(t) \cap (ClaimsIn(B) \cup R) = {}
  BY <1>3
<1>12. ClaimsIn(B) \cup R \subseteq 1 .. b.blocks /\ Claims(t) \subseteq 1 .. b.blocks
  BY <1>2, <1>4, <1>5
<1> QED
  BY <1>3, <1>5, <1>9, <1>10, <1>11, <1>12 DEF Begins

\* A statement comes, and what is open is around it.
Opens(b, B, R) ==
  /\ Doing(b, b.cur, {}, {}, {}, {}, {}, B, R)
  /\ ClaimsIn(B) \cup R \subseteq 1 .. b.blocks /\ b.blocks \in Nat /\ ~b.stuck /\ b.cur \in 1 .. b.blocks

\* A step that opens a statement begins with none.
LEMMA BeginNew ==
  ASSUME NEW b, NEW B, NEW R, Standing(b, B, R), Destruct \in R
  PROVE  Opens(b, B, R)
<1> DEFINE F == FreshIn(B) \cup R
           H == HeadIn(B)
           W == LeafIn(B)
           L == JoinIn(B)
           D == DoneIn(B)
<1>1. Stacked(B, R) /\ b.cur \notin LeafIn(B) /\ Ready(b, b.cur, F, H, W, L, D)
  BY DEF Standing
<1>2. F \cup H \cup W \cup D = ClaimsIn(B) \cup R
  BY DEF ClaimsIn
<1>3. F = {} \cup F /\ H = {} \cup H /\ W = {} \cup W /\ L = {} \cup L /\ D = {} \cup D
  OBVIOUS
<1> HIDE DEF F, H, W, L, D
<1>4. /\ F \cup H \cup W \cup D \subseteq 1 .. b.blocks /\ b.blocks \in Nat /\ ~b.stuck /\ IsRec(b)
      /\ b.cur \in 1 .. b.blocks
  BY <1>1, ReadyFacts
<1>5. Going(b, b.cur, {} \cup F, {} \cup H, {} \cup W, {} \cup L, {} \cup D)
  BY <1>1, <1>3, <1>4 DEF Going
<1>6. Doing(b, b.cur, {}, {}, {}, {}, {}, B, R)
  BY <1>1, <1>5 DEF Doing, F, H, W, L, D
<1> QED
  BY <1>2, <1>4, <1>6 DEF Opens

\* The current block has no successor.
LEMMA DoLeaf ==
  ASSUME NEW b, NEW cur, NEW f, NEW h, NEW w, NEW l, NEW d, NEW B, NEW R,
         Doing(b, cur, f, h, w, l, d, B, R), b.succs[b.cur] = <<>>
  PROVE  Doing(b, cur, f, h, w \cup {cur}, l, d, B, R)
<1> DEFINE F == f \cup (FreshIn(B) \cup R)
           H == h \cup HeadIn(B)
           W == w \cup LeafIn(B)
           L == l \cup JoinIn(B)
           D == d \cup DoneIn(B)
           V == (w \cup {cur}) \cup LeafIn(B)
<1>1. Going(b, cur, F, H, W, L, D) /\ V = W \cup {cur}
  BY DEF Doing
<1> HIDE DEF F, H, W, L, D, V
<1>2. ASSUME Ready(b, cur, F, H, W, L, D) PROVE Ready(b, cur, F, H, V, L, D)
  <2>1. Sound(b, {}) /\ Typed(b) /\ b.cur = cur
    BY <1>2 DEF Ready, Sound
  <2>2. cur \in Blocks(b) /\ b.succs[cur] = <<>>
    BY <2>1 DEF Typed, Blocks
  <2> QED
    BY <1>1, <1>2, <2>2 DEF Ready
<1>3. Going(b, cur, F, H, V, L, D)
  BY <1>1, <1>2 DEF Going
<1> QED
  BY <1>3 DEF Doing, F, H, V, L, D

\* The current block knows the result of the condition.
LEMMA DoKnown ==
  ASSUME NEW b, NEW cur, NEW f, NEW h, NEW w, NEW l, NEW d, NEW B, NEW R,
         Doing(b, cur, f, h, w, l, d, B, R), b.def[b.cur][Result] # NoValue
  PROVE  Doing(b, cur, f, h, w, l, d \cup {cur}, B, R)
<1> DEFINE F == f \cup (FreshIn(B) \cup R)
           H == h \cup HeadIn(B)
           W == w \cup LeafIn(B)
           L == l \cup JoinIn(B)
           D == d \cup DoneIn(B)
           E == (d \cup {cur}) \cup DoneIn(B)
<1>1. Going(b, cur, F, H, W, L, D) /\ E = D \cup {cur}
  BY DEF Doing
<1> HIDE DEF F, H, W, L, D, E
<1>2. ASSUME Ready(b, cur, F, H, W, L, D) PROVE Ready(b, cur, F, H, W, L, E)
  <2>1. Sound(b, {}) /\ Typed(b) /\ b.cur = cur
    BY <1>2 DEF Ready, Sound
  <2>2. cur \in Blocks(b) /\ b.def[cur][Result] # NoValue
    BY <2>1 DEF Typed, Blocks
  <2> QED
    BY <1>1, <1>2, <2>2 DEF Ready
<1>3. Going(b, cur, F, H, W, L, E)
  BY <1>1, <1>2 DEF Going
<1> QED
  BY <1>3 DEF Doing, F, H, W, L, E

-----------------------------------------------------------------------------
\* What is left when a statement has been lowered.
Leaves(c, o, R, cur, w) ==
  /\ Standing(c, o, R) /\ c.cur = cur
  /\ cur \in w => c.succs[c.cur] = <<>>

\* The statement is done ...
LEMMA Pop ==
  ASSUME NEW c, NEW cur, NEW w, NEW l, NEW d, NEW B, NEW R,
         Doing(c, cur, {}, {}, w, l, d, B, R), ~c.stuck
  PROVE  Leaves(c, B, R, cur, w)
<1> DEFINE F == FreshIn(B) \cup R
           W == w \cup LeafIn(B)
           L == l \cup JoinIn(B)
           D == d \cup DoneIn(B)
<1>1. Going(c, cur, {} \cup F, {} \cup HeadIn(B), W, L, D) /\ Stacked(B, R) /\ cur \notin LeafIn(B)
  BY DEF Doing
<1>2. {} \cup F = F /\ {} \cup HeadIn(B) = HeadIn(B)
  OBVIOUS
<1>3. w \subseteq W /\ LeafIn(B) \subseteq W /\ JoinIn(B) \subseteq L /\ DoneIn(B) \subseteq D
  OBVIOUS
<1> HIDE DEF F, W, L, D
<1>4. Ready(c, cur, F, HeadIn(B), W, L, D)
  BY <1>1, <1>2 DEF Going
<1>5. Ready(c, cur, F, HeadIn(B), LeafIn(B), JoinIn(B), DoneIn(B)) /\ c.cur = cur
  BY <1>3, <1>4 DEF Ready
<1>6. cur \in w => c.succs[c.cur] = <<>>
  BY <1>3, <1>4 DEF Ready
<1> QED
  BY <1>1, <1>5, <1>6 DEF Leaves, Standing, F

\* ... or is open, with the blocks that are left.
LEMMA Push ==
  ASSUME NEW c, NEW cur, NEW w, NEW l, NEW d, NEW B, NEW R, NEW o, NEW t, IsOn(o, B, t),
         Doing(c, cur, FreshOf(t), HeadOf(t), w, l, d, B, R), ~c.stuck,
         LeafOf(t) \subseteq w, JoinOf(t) \subseteq l, DoneOf(t) \subseteq d,
         cur \notin LeafOf(t), Shaped(t), Claims(t) \cap (ClaimsIn(B) \cup R) = {},
         t.kind \in Logic \/ \A i \in DOMAIN B : B[i].kind \notin Logic
  PROVE  Leaves(c, o, R, cur, w)
<1> DEFINE F == FreshIn(o) \cup R
           G == FreshOf(t) \cup (FreshIn(B) \cup R)
           W == w \cup LeafIn(B)
           L == l \cup JoinIn(B)
           D == d \cup DoneIn(B)
           H == HeadOf(t) \cup HeadIn(B)
<1>1. Going(c, cur, G, H, W, L, D) /\ Stacked(B, R) /\ cur \notin LeafIn(B)
  BY DEF Doing
<1>2. /\ G = F /\ H = HeadIn(o) /\ LeafIn(o) = LeafOf(t) \cup LeafIn(B)
      /\ w \subseteq W /\ LeafIn(o) \subseteq W /\ JoinIn(o) \subseteq L /\ DoneIn(o) \subseteq D
  BY SetsOn
<1>3. Stacked(o, R)
  <2>1. Claims(t) \cap R = {} /\ Claims(t) \cap ClaimsIn(B) = {}
    OBVIOUS
  <2> QED
    BY <1>1, <2>1, StackedOn
<1> HIDE DEF F, G, H, W, L, D
<1>4. Ready(c, cur, F, HeadIn(o), W, L, D)
  BY <1>1, <1>2 DEF Going
<1>5. Ready(c, cur, F, HeadIn(o), LeafIn(o), JoinIn(o), DoneIn(o)) /\ c.cur = cur
  BY <1>2, <1>4 DEF Ready
<1>6. cur \in w => c.succs[c.cur] = <<>>
  BY <1>2, <1>4 DEF Ready
<1>7. cur \notin LeafIn(o)
  BY <1>1, <1>2
<1> QED
  BY <1>3, <1>5, <1>6, <1>7 DEF Leaves, Standing, F

-----------------------------------------------------------------------------
\* The steps that leave the stack as it is.

LEMMA GoStanding ==
  ASSUME NEW b, NEW o, NEW R, Standing(b, o, R), NEW w, w \in SUBSET {b.cur},
         w = {} \/ b.succs[b.cur] = <<>>
  PROVE  /\ Going(b, b.cur, FreshIn(o) \cup R, HeadIn(o), LeafIn(o) \cup w, JoinIn(o), DoneIn(o))
         /\ ~b.stuck /\ b.blocks \in Nat /\ ClaimsIn(o) \cup R \subseteq 1 .. b.blocks
         /\ b.cur \in 1 .. b.blocks
<1> DEFINE F == FreshIn(o) \cup R
           H == HeadIn(o)
           W == LeafIn(o)
           L == JoinIn(o)
           D == DoneIn(o)
<1>1. Ready(b, b.cur, F, H, W, L, D)
  BY DEF Standing
<1>2. F \cup H \cup W \cup D = ClaimsIn(o) \cup R
  BY DEF ClaimsIn
<1> HIDE DEF F, H, W, L, D
<1>3. /\ F \cup H \cup W \cup D \subseteq 1 .. b.blocks /\ b.blocks \in Nat /\ ~b.stuck /\ IsRec(b)
      /\ b.cur \in 1 .. b.blocks
  BY <1>1, ReadyFacts
<1>4. Ready(b, b.cur, F, H, W \cup w, L, D)
  <2>1. \A u \in W \cup w : u \in Blocks(b) /\ b.succs[u] = <<>>
    BY <1>1, <1>3 DEF Ready, Blocks
  <2> QED
    BY <1>1, <2>1 DEF Ready
<1>5. Going(b, b.cur, F, H, W \cup w, L, D)
  BY <1>3, <1>4 DEF Going
<1> QED
  BY <1>2, <1>3, <1>5 DEF F, H, W, L, D

\* The bounds of a stack do not depend on the function.
LEMMA StandingAgain ==
  ASSUME NEW c, NEW cur, NEW o, NEW R, NEW w, Stacked(o, R), cur \notin LeafIn(o), ~c.stuck,
         Going(c, cur, FreshIn(o) \cup R, HeadIn(o), LeafIn(o) \cup w, JoinIn(o), DoneIn(o))
  PROVE  Leaves(c, o, R, cur, w)
<1> DEFINE F == FreshIn(o) \cup R
           H == HeadIn(o)
           W == LeafIn(o)
           L == JoinIn(o)
           D == DoneIn(o)
           V == W \cup w
<1>1. Ready(c, cur, F, H, V, L, D)
  BY DEF Going
<1>2. W \subseteq V /\ w \subseteq V
  OBVIOUS
<1> HIDE DEF F, H, W, L, D, V
<1>3. Ready(c, cur, F, H, W, L, D) /\ c.cur = cur /\ (cur \in w => c.succs[cur] = <<>>)
  BY <1>1, <1>2 DEF Ready
<1> QED
  BY <1>3 DEF Leaves, Standing, F, H, W, L, D

\* An assignment,
LEMMA StoreStands ==
  ASSUME NEW b, NEW o, NEW R, Standing(b, o, R), b.succs[b.cur] = <<>>, NEW xs \in SUBSET Names,
         NEW c, c = Store(b, xs)
  PROVE  Leaves(c, o, R, b.cur, {b.cur})
<1> DEFINE cur == b.cur
           F == FreshIn(o) \cup R
           H == HeadIn(o)
           W == LeafIn(o) \cup {cur}
           L == JoinIn(o)
           D == DoneIn(o)
<1>1. Going(b, cur, F, H, W, L, D) /\ ~b.stuck /\ cur \in W
  <2>1. {cur} \in SUBSET {b.cur}
    OBVIOUS
  <2> QED
    BY <2>1, GoStanding, Zenon
<1>2. Stacked(o, R) /\ cur \notin LeafIn(o)
  BY DEF Standing
<1> HIDE DEF cur, F, H, W, L, D
<1>3. Going(c, cur, F, H, W, L, D \cup Knowing(cur, xs))
  BY <1>1, GoStore
<1>4. Going(c, cur, F, H, W, L, D)
  <2>1. D \in SUBSET (D \cup Knowing(cur, xs)) /\ W \in SUBSET W /\ L \in SUBSET L
    OBVIOUS
  <2> DEFINE E == D \cup Knowing(cur, xs)
  <2> HIDE DEF E
  <2>2. Going(c, cur, F, H, W, L, E) /\ D \in SUBSET E /\ W \in SUBSET W /\ L \in SUBSET L
    BY <1>3, <2>1 DEF E
  <2> QED
    BY <2>2, GoLess
<1>5. ~c.stuck
  BY <1>1, RecStore DEF Going
<1> QED
  BY <1>2, <1>4, <1>5, StandingAgain DEF cur, F, H, W, L, D

\* a use,
LEMMA LoadStands ==
  ASSUME MaxReads \in Nat, NEW b, NEW o, NEW R, Standing(b, o, R), NEW x \in Names,
         NEW xs \in SUBSET Names, NEW w, w \in SUBSET {b.cur}, w = {} \/ b.succs[b.cur] = <<>>,
         xs = {} \/ b.cur \in w, NEW c, c = Load(b, x, xs), ~c.stuck
  PROVE  Leaves(c, o, R, b.cur, w)
<1> DEFINE cur == b.cur
           F == FreshIn(o) \cup R
           H == HeadIn(o)
           W == LeafIn(o) \cup w
           L == JoinIn(o)
           D == DoneIn(o)
<1>1. Going(b, cur, F, H, W, L, D) /\ (xs = {} \/ cur \in W)
  BY GoStanding, Zenon
<1>2. Stacked(o, R) /\ cur \notin LeafIn(o)
  BY DEF Standing
<1> HIDE DEF cur, F, H, W, L, D
<1>3. Going(c, cur, F, H, W, L, D)
  BY <1>1, GoLoad
<1> QED
  BY <1>2, <1>3, StandingAgain DEF cur, F, H, W, L, D

\* a return,
LEMMA ReturnStands ==
  ASSUME NEW b, NEW o, NEW R, Standing(b, o, R), Destruct \in R, NEW c, c = JumpTo(b, Destruct)
  PROVE  Leaves(c, o, R, b.cur, {})
<1> DEFINE cur == b.cur
           F == FreshIn(o) \cup R
           H == HeadIn(o)
           W == LeafIn(o) \cup {}
           L == JoinIn(o)
           D == DoneIn(o)
<1>1. Going(b, cur, F, H, W, L, D) /\ ~b.stuck
  <2>1. {} \in SUBSET {b.cur}
    OBVIOUS
  <2> QED
    BY <2>1, GoStanding, Zenon
<1>2. Stacked(o, R) /\ cur \notin LeafIn(o)
  BY DEF Standing
<1>3. Unmet(L, Destruct)
  <2>1. Destruct \notin ClaimsIn(o)
    <3>1. \A i \in DOMAIN o : Destruct \notin Claims(o[i])
      BY DEF Standing, Stacked
    <3> QED
      BY <3>1 DEF ClaimsIn, FreshIn, HeadIn, LeafIn, DoneIn, Claims
  <2> QED
    BY <2>1, JoinsFresh DEF ClaimsIn, Unmet
<1>4. W \ {cur} = W /\ Destruct \in F \cup (H \ {Destruct})
  BY <1>2
<1> HIDE DEF cur, F, H, W, L, D
<1>5. Going(c, cur, F, H, W \ {cur}, L, D)
  BY <1>1, <1>3, <1>4, GoJump
<1>6. Going(c, cur, F, H, W, L, D)
  BY <1>4, <1>5
<1>7. ~c.stuck
  BY <1>1, RecEdge DEF Going, JumpTo
<1> QED
  BY <1>2, <1>6, <1>7, StandingAgain DEF cur, F, H, W, L, D

\* a jump away.
LEMMA AwayStands ==
  ASSUME NEW b, NEW o, NEW R, Standing(b, o, R), NEW to \in (FreshIn(o) \cup R) \cup (HeadIn(o) \ {Destruct}),
         JoinIn(o) = {}, NEW c, c = JumpAway(b, to)
  PROVE  Leaves(c, o, R, b.blocks + 1, {b.blocks + 1})
<1> DEFINE cur == b.cur
           F == FreshIn(o) \cup R
           H == HeadIn(o)
           W == LeafIn(o) \cup {}
           L == JoinIn(o)
           D == DoneIn(o)
           new == b.blocks + 1
<1>1. /\ Going(b, cur, F, H, W, L, D) /\ ~b.stuck /\ b.blocks \in Nat
      /\ ClaimsIn(o) \cup R \subseteq 1 .. b.blocks
  <2>1. {} \in SUBSET {b.cur}
    OBVIOUS
  <2> QED
    BY <2>1, GoStanding, Zenon
<1>2. Stacked(o, R) /\ cur \notin LeafIn(o)
  BY DEF Standing
<1>3. (W \ {cur}) \cup {new} = LeafIn(o) \cup {new} /\ to \in F \cup (H \ {Destruct})
  BY <1>2
<1>4. new \notin 1 .. b.blocks
  BY <1>1
<1>5. new \notin F /\ new \notin LeafIn(o)
  BY <1>1, <1>4 DEF ClaimsIn
<1>6. Unmet(L, to)
  BY DEF Unmet
<1> HIDE DEF cur, F, H, W, L, D
<1>7. Going(c, new, F, H, (W \ {cur}) \cup {new}, L, D)
  BY <1>1, <1>3, <1>5, <1>6, GoAway, Zenon
<1>8. Going(c, new, F, H, LeafIn(o) \cup {new}, L, D)
  BY <1>3, <1>7
<1>9. ~c.stuck
  <2> DEFINE j == JumpTo(b, to)
             n == NewBlocks(j, 1)
  <2>1. IsRec(j) /\ j.stuck = b.stuck
    BY <1>1, RecEdge DEF Going, JumpTo
  <2> HIDE DEF j
  <2>2. IsRec(n) /\ n.stuck = b.stuck
    BY <2>1, RecBlocks
  <2> HIDE DEF n
  <2>3. c = Goto(n, b.blocks + 1)
    BY DEF JumpAway, j, n
  <2> QED
    BY <1>1, <2>2, <2>3, RecGoto
<1> QED
  BY <1>2, <1>5, <1>8, <1>9, StandingAgain DEF F, H, L, D, new

LEMMA LabelMade ==
  ASSUME NEW b, NEW o, NEW R, Standing(b, o, R), NEW c, c = NewBlocks(b, 1)
  PROVE  /\ Standing(c, o, R \cup {b.blocks + 1}) /\ b.blocks + 1 \notin ClaimsIn(o) \cup R
         /\ c.blocks = b.blocks + 1 /\ c.cur = b.cur
<1> DEFINE cur == b.cur
           F == FreshIn(o) \cup R
           G == FreshIn(o) \cup (R \cup {b.blocks + 1})
           H == HeadIn(o)
           W == LeafIn(o)
           V == LeafIn(o) \cup {}
           L == JoinIn(o)
           D == DoneIn(o)
           new == Onward(b, 1)
           N == Unreached(new)
<1>1. /\ Going(b, cur, F, H, V, L, D) /\ ~b.stuck /\ b.blocks \in Nat
      /\ ClaimsIn(o) \cup R \subseteq 1 .. b.blocks
  <2>1. {} \in SUBSET {b.cur}
    OBVIOUS
  <2> QED
    BY <2>1, GoStanding, Zenon
<1>2. Stacked(o, R) /\ cur \notin LeafIn(o)
  BY DEF Standing
<1>3. b.blocks + 1 \notin 1 .. b.blocks
  BY <1>1
<1>4. new = {b.blocks + 1}
  BY <1>1 DEF Onward
<1>5. F \cup new = G /\ W \subseteq V \cup new
  BY <1>4
<1>6. b.blocks + 1 \notin ClaimsIn(o) \cup R
  BY <1>1, <1>3
<1>7. Stacked(o, R \cup {b.blocks + 1})
  <2>1. \A i \in DOMAIN o : b.blocks + 1 \notin Claims(o[i])
    BY <1>6 DEF ClaimsIn, FreshIn, HeadIn, LeafIn, DoneIn, Claims
  <2>2. \A i \in DOMAIN o : Claims(o[i]) \cap (R \cup {b.blocks + 1}) = {}
    BY <1>2, <2>1 DEF Stacked
  <2> QED
    BY <1>2, <2>2 DEF Stacked
<1> HIDE DEF cur, F, G, H, W, V, L, D, new, N
<1>8. Going(c, cur, F \cup new, H, V \cup new, L \cup N, D) /\ c.blocks = b.blocks + 1
  BY <1>1, GoBlocks DEF new, N
<1>9. ~c.stuck
  BY <1>1, RecBlocks DEF Going
<1>10. Ready(c, cur, F \cup new, H, V \cup new, L \cup N, D)
  BY <1>8, <1>9 DEF Going
<1>11. Ready(c, cur, G, H, W, L, D) /\ c.cur = cur
  BY <1>5, <1>10 DEF Ready
<1>12. Standing(c, o, R \cup {b.blocks + 1})
  BY <1>2, <1>7, <1>11 DEF Standing, cur, G, H, W, L, D
<1> QED
  BY <1>6, <1>8, <1>11, <1>12 DEF cur

\* A label: the blocks made for it are sealed and gone on in.
LEMMA LabelStands ==
  ASSUME MaxReads \in Nat, NEW b, NEW o, NEW R, Standing(b, o, R), Destruct \in R, NEW lab \in R,
         lab # Destruct, NEW c, c = Goto(SealBlock(FallInto(b, lab), lab), lab), ~c.stuck
  PROVE  Leaves(c, o, R \ {lab}, lab, {lab})
<1> DEFINE cur == b.cur
           S == R \ {lab}
           F == FreshIn(o) \cup R
           G == {lab} \cup (FreshIn(o) \cup S)
           H == HeadIn(o)
           W == LeafIn(o)
           V == LeafIn(o) \cup {}
           U == {lab} \cup LeafIn(o)
           L == JoinIn(o)
           D == DoneIn(o)
           j == FallInto(b, lab)
           one == {lab}
           none == {}
<1>1. Going(b, cur, F, H, V, L, D) /\ ~b.stuck
  <2>1. {} \in SUBSET {b.cur}
    OBVIOUS
  <2> QED
    BY <2>1, GoStanding, Zenon
<1>2. Stacked(o, R) /\ cur \notin LeafIn(o)
  BY DEF Standing
<1>3. lab \notin ClaimsIn(o)
  <2>1. \A i \in DOMAIN o : lab \notin Claims(o[i])
    BY <1>2 DEF Stacked
  <2> QED
    BY <2>1 DEF ClaimsIn, FreshIn, HeadIn, LeafIn, DoneIn, Claims
<1>4. Stacked(o, S)
  BY <1>2 DEF Stacked
<1>5. F = G /\ lab \in F /\ U \subseteq V \cup F
  OBVIOUS
<1> HIDE DEF cur, F, G, H, W, V, U, L, D
<1>6. Ready(b, cur, F, H, V, L, D) /\ IsRec(b) /\ cur # lab
  BY <1>1, <1>5 DEF Going, Ready
<1>7. Ready(b, cur, G, H, U, L, D)
  BY <1>5, <1>6 DEF Ready
<1>8. Going(b, cur, G, H, U, L, D)
  BY <1>6, <1>7 DEF Going
<1>9. Going(b, cur, G, {} \cup H, U, {} \cup L, {} \cup D)
  <2>1. {} \cup H = H /\ {} \cup L = L /\ {} \cup D = D
    OBVIOUS
  <2> QED
    BY <1>8, <2>1
<1>10. Destruct \in S /\ ({lab} \cup {}) \cap (ClaimsIn(o) \cup S) = {}
  BY <1>3
<1> HIDE DEF S
<1>11. Doing(b, cur, {lab}, {}, {lab}, {}, {}, o, S)
  BY <1>2, <1>4, <1>9, <1>10 DEF Doing, cur, G, H, U, L, D
<1>12. Doing(b, cur, one, none, one, none, none, o, S) /\ lab \in one \cup none
       /\ Unmet(none, lab)
  BY <1>11 DEF Unmet
<1> HIDE DEF one, none, j
<1>13. Doing(j, cur, one, none, one \ {cur}, none, none, o, S)
  BY <1>12, DoFall DEF j
<1>14. lab \in one \ {cur} /\ lab \in one \cup none
  BY <1>6 DEF one
<1>15. Doing(c, lab, one \ {lab}, none \ {lab}, one \ {cur}, none, none, o, S)
  <2> DEFINE v == one \ {cur}
  <2> HIDE DEF v
  <2>1. Doing(j, cur, one, none, v, none, none, o, S) /\ lab \in v /\ lab \in one \cup none
    BY <1>13, <1>14 DEF v
  <2>2. c = Goto(SealBlock(j, lab), lab)
    BY DEF j
  <2>3. Doing(c, lab, one \ {lab}, none \ {lab}, v, none, none, o, S)
    BY <2>1, <2>2, DoInto
  <2> QED
    BY <2>3 DEF v
<1>16. one \ {lab} = {} /\ none \ {lab} = {} /\ one \ {cur} = {lab}
  BY <1>6 DEF one, none
<1>17. Doing(c, lab, {}, {}, {lab}, none, none, o, S)
  BY <1>15, <1>16
<1> QED
  BY <1>17, Pop DEF S

-----------------------------------------------------------------------------
\* The first step and the last ones.

LEMMA NothingIn ==
  ASSUME NEW B, B = <<>>
  PROVE  /\ FreshIn(B) = {} /\ HeadIn(B) = {} /\ LeafIn(B) = {} /\ JoinIn(B) = {} /\ DoneIn(B) = {}
         /\ List(B) /\ ClaimsIn(B) = {} /\ \A R : Stacked(B, R)
<1>1. DOMAIN B = {}
  OBVIOUS
<1>2. /\ FreshIn(B) = {} /\ HeadIn(B) = {} /\ LeafIn(B) = {} /\ JoinIn(B) = {} /\ DoneIn(B) = {}
  BY <1>1 DEF FreshIn, HeadIn, LeafIn, JoinIn, DoneIn
<1>3. List(B)
  BY <1>1 DEF List, Seen
<1> QED
  BY <1>1, <1>2, <1>3 DEF Stacked, ClaimsIn

\* The body falls into the destruct block.
LEMMA DestructStands ==
  ASSUME NEW b, NEW R, R = {Destruct}, NEW o, o = <<>>, Standing(b, o, R), NEW t, t = [kind |-> "destruct"],
         NEW c, c = Goto(FallInto(b, Destruct), Destruct), NEW a, IsOn(a, o, t), NEW S, S = {}
  PROVE  Standing(c, a, S)
<1> DEFINE cur == b.cur
           H == HeadIn(o)
           F == FreshIn(o) \cup R
           V == LeafIn(o) \cup {}
           L == JoinIn(o)
           D == DoneIn(o)
           j == FallInto(b, Destruct)
           K == {Destruct}
           E == {}
<1>1. Going(b, cur, F, H, V, L, D) /\ ~b.stuck
  <2>1. {} \in SUBSET {b.cur}
    OBVIOUS
  <2> QED
    BY <2>1, GoStanding, Zenon
<1>2. F = K /\ H = E /\ V = E /\ L = E /\ D = E /\ Destruct \in K /\ Unmet(E, Destruct)
  BY NothingIn DEF Unmet
<1> HIDE DEF cur, F, H, V, L, D, K, E, j
<1>3. Going(b, cur, K, E, E, E, E)
  BY <1>1, <1>2
<1>4. Going(j, cur, K, E, E \ {cur}, E, E) /\ j.blocks = b.blocks
  BY <1>2, <1>3, GoFall DEF j
<1>5. E \ {cur} = E /\ E \cup {Destruct} = K /\ K \ {Destruct} = E
  BY DEF E, K
<1>6. Going(j, cur, K, E, E, E, E)
  BY <1>4, <1>5, Zenon
<1>7. c = Goto(j, Destruct)
  BY DEF j
<1>8. Going(c, Destruct, K \ {Destruct}, K, E, E, E)
  BY <1>2, <1>5, <1>6, <1>7, GoEnter, Zenon
<1>9. Going(c, Destruct, E, K, E, E, E)
  BY <1>5, <1>8, Zenon
<1>10. ~j.stuck /\ IsRec(j)
  <2>1. IsRec(b)
    BY <1>1 DEF Going
  <2>2. CASE j = b
    BY <2>1, <2>2, <1>1
  <2>3. CASE j = JumpTo(b, Destruct)
    BY <2>1, <2>3, <1>1, RecEdge DEF JumpTo
  <2> QED
    BY <2>2, <2>3 DEF j, FallInto
<1>11. ~c.stuck
  BY <1>7, <1>10, RecGoto
<1>12. /\ FreshIn(a) = {} /\ HeadIn(a) = K /\ LeafIn(a) = {} /\ JoinIn(a) = {} /\ DoneIn(a) = {}
       /\ Stacked(a, S)
  <2>1. t.kind = "destruct"
    OBVIOUS
  <2>2. FreshOf(t) = {} /\ HeadOf(t) = K /\ LeafOf(t) = {} /\ JoinOf(t) = {} /\ DoneOf(t) = {}
    BY <2>1 DEF FreshOf, HeadOf, LeafOf, JoinOf, DoneOf, K
  <2>3. Shaped(t)
    BY <2>1 DEF Shaped
  <2>4. Claims(t) \cap S = {} /\ Claims(t) \cap ClaimsIn(o) = {} /\ \A i \in DOMAIN o : o[i].kind \notin Logic
    BY NothingIn
  <2>5. Stacked(a, S)
    BY <2>3, <2>4, NothingIn, StackedOn
  <2>6. /\ FreshIn(o) = {} /\ HeadIn(o) = {} /\ LeafIn(o) = {} /\ JoinIn(o) = {} /\ DoneIn(o) = {}
    BY NothingIn
  <2>7. /\ FreshIn(a) = FreshOf(t) \cup FreshIn(o) /\ HeadIn(a) = HeadOf(t) \cup HeadIn(o)
        /\ LeafIn(a) = LeafOf(t) \cup LeafIn(o) /\ DoneIn(a) = DoneOf(t) \cup DoneIn(o)
        /\ JoinIn(a) = JoinOf(t) \cup JoinIn(o)
    BY SetsOn
  <2> QED
    BY <2>2, <2>5, <2>6, <2>7
<1>13. Going(c, Destruct, FreshIn(a) \cup S, HeadIn(a), LeafIn(a) \cup {}, JoinIn(a), DoneIn(a))
  BY <1>9, <1>12 DEF E
<1>14. Destruct \notin LeafIn(a)
  BY <1>12
<1> QED
  BY <1>11, <1>12, <1>13, <1>14, StandingAgain, Zenon DEF Leaves

\* The destruct block is sealed last.
LEMMA FinishStands ==
  ASSUME MaxReads \in Nat, NEW b, NEW o, NEW t, t.kind = "destruct", NEW B, B = <<>>, IsOn(o, B, t),
         NEW S, S = {}, Standing(b, o, S), NEW c, c = SealBlock(b, Destruct), ~c.stuck
  PROVE  Standing(c, B, S)
<1> DEFINE cur == b.cur
           H == HeadIn(o)
           F == FreshIn(o) \cup S
           V == LeafIn(o) \cup {}
           L == JoinIn(o)
           D == DoneIn(o)
           K == {Destruct}
           E == {}
<1>1. Going(b, cur, F, H, V, L, D)
  <2>1. {} \in SUBSET {b.cur}
    OBVIOUS
  <2> QED
    BY <2>1, GoStanding, Zenon
<1>2. F = E /\ H = K /\ V = E /\ L = E /\ D = E
  <2>1. FreshOf(t) = {} /\ HeadOf(t) = K /\ LeafOf(t) = {} /\ JoinOf(t) = {} /\ DoneOf(t) = {}
    BY DEF FreshOf, HeadOf, LeafOf, JoinOf, DoneOf
  <2> QED
    BY <2>1, SetsOn, NothingIn
<1> HIDE DEF cur, F, H, V, L, D, K, E
<1>3. Going(b, cur, E, K, E, E, E) /\ Destruct \in E \cup K
  BY <1>1, <1>2 DEF K
<1>4. Going(c, cur, E \ {Destruct}, K \ {Destruct}, E, E, E)
  BY <1>3, GoSeal
<1>5. E \ {Destruct} = E /\ K \ {Destruct} = E
  BY DEF E, K
<1>6. Going(c, cur, E, E, E, E, E)
  BY <1>4, <1>5, Zenon
<1>7. Going(c, cur, FreshIn(B) \cup S, HeadIn(B), LeafIn(B) \cup {}, JoinIn(B), DoneIn(B))
  BY <1>6, NothingIn, Zenon DEF E
<1>8. Stacked(B, S) /\ cur \notin LeafIn(B)
  BY NothingIn
<1> QED
  BY <1>7, <1>8, StandingAgain DEF Leaves

\* The entry block is sealed first.
LEMMA BeginStands ==
  ASSUME MaxReads \in Nat, NEW b, NEW o, NEW t, t.kind = "params", NEW B, B = <<>>, IsOn(o, B, t),
         NEW R, R = {Destruct}, Standing(b, o, R), Entry \in Blocks(b), Entry \notin b.sealed,
         NEW c, c = SealBlock(b, Entry), ~c.stuck
  PROVE  Standing(c, B, R)
<1> DEFINE cur == b.cur
           H == HeadIn(o)
           F == FreshIn(o) \cup R
           V == LeafIn(o) \cup {}
           L == JoinIn(o)
           D == DoneIn(o)
           K == {Destruct}
           E == {}
<1>1. Going(b, cur, F, H, V, L, D)
  <2>1. {} \in SUBSET {b.cur}
    OBVIOUS
  <2> QED
    BY <2>1, GoStanding, Zenon
<1>2. F = K /\ H = E /\ V = E /\ L = E /\ D = E
  <2>1. FreshOf(t) = {} /\ HeadOf(t) = {} /\ LeafOf(t) = {} /\ JoinOf(t) = {} /\ DoneOf(t) = {}
    BY DEF FreshOf, HeadOf, LeafOf, JoinOf, DoneOf
  <2> QED
    BY <2>1, SetsOn, NothingIn
<1> HIDE DEF cur, F, H, V, L, D, K, E
<1>3. Going(b, cur, K, E, E, E, E)
  BY <1>1, <1>2
<1>4. Going(c, cur, K \ {Entry}, E \ {Entry}, E, E, E)
  BY <1>3, GoSealAny
<1>5. E \ {Entry} = E /\ K \ {Entry} = K
  BY DEF E, K, Entry, Destruct
<1>6. Going(c, cur, K, E, E, E, E)
  BY <1>4, <1>5, Zenon
<1>7. Going(c, cur, FreshIn(B) \cup R, HeadIn(B), LeafIn(B) \cup {}, JoinIn(B), DoneIn(B))
  <2>1. FreshIn(B) \cup R = K /\ HeadIn(B) = E /\ LeafIn(B) \cup {} = E /\ JoinIn(B) = E /\ DoneIn(B) = E
    BY NothingIn DEF E, K
  <2> QED
    BY <1>6, <2>1, Zenon
<1>8. Stacked(B, R) /\ cur \notin LeafIn(B)
  BY NothingIn
<1> QED
  BY <1>7, <1>8, StandingAgain DEF Leaves

LEMMA DoAs ==
  ASSUME NEW b, NEW cur, NEW f, NEW h, NEW w, NEW l, NEW d, NEW B, NEW R,
         Doing(b, cur, f, h, w, l, d, B, R), NEW g, f = g, NEW k, h = k,
         NEW v, v \subseteq w, NEW m, m \subseteq l, NEW e, e \subseteq d
  PROVE  Doing(b, cur, g, k, v, m, e, B, R)
<1>1. v \in SUBSET w /\ m \in SUBSET l /\ e \in SUBSET d
  OBVIOUS
<1>2. Doing(b, cur, f, h, v, m, e, B, R)
  BY <1>1, DoLess
<1> QED
  BY <1>2

\* New blocks for a statement that begins.
LEMMA OpenBlocks ==
  ASSUME NEW b, NEW B, NEW R, Opens(b, B, R), NEW n \in Nat, NEW c, c = NewBlocks(b, n),
         NEW none, none = {}
  PROVE  /\ Doing(c, b.cur, Onward(b, n), none, Onward(b, n), Unreached(Onward(b, n)), none, B, R)
         /\ Doing(c, b.cur, Onward(b, n), none, Onward(b, n), none, none, B, R)
         /\ c.blocks = b.blocks + n /\ b.blocks \in Nat
         /\ \A u \in Onward(b, n) : u \notin ClaimsIn(B) \cup R /\ u # b.cur
<1> DEFINE new == Onward(b, n)
           N == Unreached(new)
           cur == b.cur
<1>1. /\ Doing(b, cur, none, none, none, none, none, B, R)
      /\ ClaimsIn(B) \cup R \subseteq 1 .. b.blocks /\ b.blocks \in Nat /\ cur \in 1 .. b.blocks
  BY DEF Opens
<1> HIDE DEF new, N, cur
<1>2. /\ Doing(c, cur, none \cup new, none, none \cup new, none \cup N, none, B, R)
      /\ c.blocks = b.blocks + n
  BY <1>1, DoBlocks, ZenonT(30) DEF new, N
<1>3. none \cup new = new /\ none \subseteq none \cup N /\ N = none \cup N
  OBVIOUS
<1>4. Doing(c, cur, new, none, new, N, none, B, R)
  BY <1>2, <1>3
<1>5. Doing(c, cur, new, none, new, none, none, B, R)
  BY <1>4, DoAs
<1>6. \A u \in new : u \notin 1 .. b.blocks
  BY <1>1 DEF new, Onward
<1>7. \A u \in new : u \notin ClaimsIn(B) \cup R /\ u # cur
  BY <1>1, <1>6
<1> QED
  BY <1>1, <1>2, <1>4, <1>5, <1>7 DEF new, N, cur

-----------------------------------------------------------------------------
\* The same operations, with what is known before as a hypothesis, and with the blocks
\* that are left named.
LEMMA ToJump ==
  ASSUME NEW b, NEW cur, NEW f, NEW h, NEW w, NEW l, NEW d, NEW B, NEW R,
         Doing(b, cur, f, h, w, l, d, B, R),
         NEW to, to \in f \cup h, Unmet(l, to), NEW c, c = JumpTo(b, to),
         NEW v, v \subseteq w \ {cur}
  PROVE  Doing(c, cur, f, h, v, l, d, B, R) /\ c.blocks = b.blocks
<1>1. Doing(c, cur, f, h, w \ {cur}, l, d, B, R) /\ c.blocks = b.blocks
  BY DoJump
<1>2. l \subseteq l /\ d \subseteq d
  OBVIOUS
<1> QED
  BY <1>1, <1>2, DoAs

LEMMA ToFall ==
  ASSUME NEW b, NEW cur, NEW f, NEW h, NEW w, NEW l, NEW d, NEW B, NEW R,
         Doing(b, cur, f, h, w, l, d, B, R),
         NEW to, to \in f \cup h, Unmet(l, to), NEW c, c = FallInto(b, to),
         NEW v, v \subseteq w \ {cur}
  PROVE  Doing(c, cur, f, h, v, l, d, B, R) /\ c.blocks = b.blocks
<1>1. Doing(c, cur, f, h, w \ {cur}, l, d, B, R) /\ c.blocks = b.blocks
  BY DoFall
<1>2. l \subseteq l /\ d \subseteq d
  OBVIOUS
<1> QED
  BY <1>1, <1>2, DoAs

LEMMA ToHead ==
  ASSUME NEW b, NEW cur, NEW f, NEW h, NEW w, NEW l, NEW d, NEW B, NEW R,
         Doing(b, cur, f, h, w, l, d, B, R),
         NEW to, to \in f, Unmet(l, to), NEW c, c = JumpTo(b, to),
         NEW g, g = f \ {to}, NEW k, k = h \cup {to}, NEW v, v \subseteq w \ {cur}
  PROVE  Doing(c, cur, g, k, v, l, d, B, R) /\ c.blocks = b.blocks
<1>1. Doing(c, cur, f \ {to}, h \cup {to}, w \ {cur}, l, d, B, R) /\ c.blocks = b.blocks
  BY DoHead
<1>2. l \subseteq l /\ d \subseteq d
  OBVIOUS
<1> QED
  BY <1>1, <1>2, DoAs

LEMMA ToSeal ==
  ASSUME MaxReads \in Nat, NEW b, NEW cur, NEW f, NEW h, NEW w, NEW l, NEW d, NEW B, NEW R,
         Doing(b, cur, f, h, w, l, d, B, R),
         NEW u, u \in f \cup h, NEW c, c = SealBlock(b, u),
         NEW g, g = f \ {u}, NEW k, k = h \ {u}, NEW v, v \subseteq w
  PROVE  Doing(c, cur, g, k, v, l, d, B, R)
<1>1. Doing(c, cur, f \ {u}, h \ {u}, w, l, d, B, R)
  BY DoSeal
<1>2. l \subseteq l /\ d \subseteq d
  OBVIOUS
<1> QED
  BY <1>1, <1>2, DoAs

LEMMA ToInto ==
  ASSUME MaxReads \in Nat, NEW b, NEW cur, NEW f, NEW h, NEW w, NEW l, NEW d, NEW B, NEW R,
         Doing(b, cur, f, h, w, l, d, B, R),
         NEW u, u \in f \cup h, u \in w, NEW c, c = Goto(SealBlock(b, u), u),
         NEW g, g = f \ {u}, NEW k, k = h \ {u}, NEW v, v \subseteq w
  PROVE  Doing(c, u, g, k, v, l, d, B, R)
<1>1. Doing(c, u, f \ {u}, h \ {u}, w, l, d, B, R)
  BY DoInto
<1>2. l \subseteq l /\ d \subseteq d
  OBVIOUS
<1> QED
  BY <1>1, <1>2, DoAs

LEMMA ToGoto ==
  ASSUME NEW b, NEW cur, NEW f, NEW h, NEW w, NEW l, NEW d, NEW B, NEW R,
         Doing(b, cur, f, h, w, l, d, B, R),
         NEW u, u \in h \cup w \cup d, u \notin f, u \notin ClaimsIn(B) \cup R,
         NEW c, c = Goto(b, u), NEW v, v \subseteq w
  PROVE  Doing(c, u, f, h, v, l, d, B, R) /\ c.blocks = b.blocks
<1>1. Doing(c, u, f, h, w, l, d, B, R) /\ c.blocks = b.blocks
  BY DoGoto
<1>2. l \subseteq l /\ d \subseteq d
  OBVIOUS
<1> QED
  BY <1>1, <1>2, DoAs

LEMMA ToStore ==
  ASSUME NEW b, NEW cur, NEW f, NEW h, NEW w, NEW l, NEW d, NEW B, NEW R,
         Doing(b, cur, f, h, w, l, d, B, R), cur \in w, NEW xs \in SUBSET Names,
         NEW c, c = Store(b, xs)
  PROVE  Doing(c, cur, f, h, w, l, d, B, R) /\ c.blocks = b.blocks
<1> DEFINE e == d \cup Knowing(cur, xs)
<1>1. Doing(c, cur, f, h, w, l, e, B, R) /\ c.blocks = b.blocks
  BY DoStore
<1>2. l \subseteq l /\ w \subseteq w /\ d \subseteq e
  OBVIOUS
<1> HIDE DEF e
<1> QED
  BY <1>1, <1>2, DoAs

\* Another statement with the same blocks takes the place of the one at the top.
LEMMA Reframed ==
  ASSUME NEW b, NEW o, NEW R, Standing(b, o, R), NEW B, NEW t, IsOn(o, B, t), NEW a, NEW r, IsOn(a, B, r),
         Shaped(r), FreshOf(r) = FreshOf(t), HeadOf(r) = HeadOf(t), LeafOf(r) = LeafOf(t),
         DoneOf(r) = DoneOf(t), JoinOf(r) = JoinOf(t), t.kind \notin Logic
  PROVE  Standing(b, a, R)
<1>1. Stacked(o, R) /\ b.cur \notin LeafIn(o)
      /\ Ready(b, b.cur, FreshIn(o) \cup R, HeadIn(o), LeafIn(o), JoinIn(o), DoneIn(o))
  BY DEF Standing
<1>2. /\ Stacked(B, R) /\ Claims(t) \cap R = {} /\ Claims(t) \cap ClaimsIn(B) = {}
      /\ \A i \in DOMAIN B : B[i].kind \notin Logic
  BY <1>1, StackedBelow
<1>3. Claims(r) = Claims(t)
  BY DEF Claims
<1>4. Stacked(a, R)
  BY <1>2, <1>3, StackedOn
<1>5. /\ FreshIn(o) = FreshOf(t) \cup FreshIn(B) /\ HeadIn(o) = HeadOf(t) \cup HeadIn(B)
      /\ LeafIn(o) = LeafOf(t) \cup LeafIn(B) /\ DoneIn(o) = DoneOf(t) \cup DoneIn(B)
      /\ JoinIn(o) = JoinOf(t) \cup JoinIn(B)
  BY SetsOn
<1>6. /\ FreshIn(a) = FreshOf(r) \cup FreshIn(B) /\ HeadIn(a) = HeadOf(r) \cup HeadIn(B)
      /\ LeafIn(a) = LeafOf(r) \cup LeafIn(B) /\ DoneIn(a) = DoneOf(r) \cup DoneIn(B)
      /\ JoinIn(a) = JoinOf(r) \cup JoinIn(B)
  BY SetsOn
<1>7. /\ FreshIn(a) = FreshIn(o) /\ HeadIn(a) = HeadIn(o) /\ LeafIn(a) = LeafIn(o)
      /\ DoneIn(a) = DoneIn(o) /\ JoinIn(a) = JoinIn(o)
  BY <1>5, <1>6
<1> QED
  BY <1>1, <1>4, <1>7 DEF Standing

-----------------------------------------------------------------------------
\* The statements that open one: if and the loops.

\* None of the statements around is an operand of && or ||.
Body(B) == \A i \in DOMAIN B : B[i].kind \notin Logic

\* The blocks of a new statement are its own.
Private(F, H, W, B, R) == \A u \in (F \cup H) \cup W : u \notin ClaimsIn(B) \cup R

\* Statements are opened outside of conditions.
LEMMA BeginPlain ==
  ASSUME NEW b, NEW o, NEW R, Standing(b, o, R), NEW B, NEW t, IsOn(o, B, t), Destruct \in R,
         t.kind \notin Logic, NEW none, none = {}, NEW F, F = FreshOf(t), NEW H, H = HeadOf(t),
         NEW W, W = LeafOf(t) \cup FreshOf(t)
  PROVE  /\ Doing(b, b.cur, F, H, W, none, none, B, R) /\ Body(B) /\ Shaped(t) /\ b.cur \notin W
         /\ Private(F, H, W, B, R)
         /\ ~b.stuck /\ b.blocks \in Nat
<1>1. Begins(b, t, B, R)
  BY BeginTop
<1>2. JoinOf(t) = none /\ DoneOf(t) = none
  BY DEF JoinOf, DoneOf, Logic
<1> QED
  BY <1>1, <1>2 DEF Begins, Body, Claims, Private

\* Such a statement is put on the stack.
LEMMA PushPlain ==
  ASSUME NEW c, NEW cur, NEW w, NEW l, NEW d, NEW B, NEW R, NEW o, NEW t, IsOn(o, B, t),
         NEW F, NEW H, Doing(c, cur, F, H, w, l, d, B, R), ~c.stuck,
         F = FreshOf(t), H = HeadOf(t), LeafOf(t) \subseteq w, cur \notin LeafOf(t), Shaped(t),
         \A u \in LeafOf(t) : u \notin ClaimsIn(B) \cup R, t.kind \notin Logic, Body(B)
  PROVE  Standing(c, o, R) /\ (cur \in w => c.succs[c.cur] = <<>>)
<1>1. JoinOf(t) = {} /\ DoneOf(t) = {}
  BY DEF JoinOf, DoneOf, Logic
<1>2. Claims(t) \cap (ClaimsIn(B) \cup R) = {}
  <2>1. (F \cup H) \cap (ClaimsIn(B) \cup R) = {}
    BY DEF Doing
  <2> QED
    BY <1>1, <2>1 DEF Claims
<1>3. JoinOf(t) \subseteq l /\ DoneOf(t) \subseteq d
  BY <1>1
<1>4. Doing(c, cur, FreshOf(t), HeadOf(t), w, l, d, B, R)
  OBVIOUS
<1>5. Leaves(c, o, R, cur, w)
  BY <1>2, <1>3, <1>4, Push DEF Body
<1> QED
  BY <1>5 DEF Leaves

\* The blocks of a stack are the function's.
LEMMA StandingFacts ==
  ASSUME NEW b, NEW o, NEW R, Standing(b, o, R)
  PROVE  b.blocks \in Nat /\ ~b.stuck
<1>1. {} \in SUBSET {b.cur}
  OBVIOUS
<1> QED
  BY <1>1, GoStanding, Zenon

\* The new blocks of a statement are nobody else's.
LEMMA BlocksPlain ==
  ASSUME NEW b, NEW B, NEW R, Standing(b, B, R), Destruct \in R, NEW n \in Nat, NEW c, c = NewBlocks(b, n),
         NEW none, none = {}, NEW N, N = Onward(b, n)
  PROVE  /\ Doing(c, b.cur, N, none, N, none, none, B, R) /\ b.cur \notin N
         /\ \A u \in N : u \notin ClaimsIn(B) \cup R
<1>1. Opens(b, B, R)
  BY BeginNew
<1>2. /\ Doing(c, b.cur, Onward(b, n), none, Onward(b, n), none, none, B, R)
      /\ \A u \in Onward(b, n) : u \notin ClaimsIn(B) \cup R /\ u # b.cur
  BY <1>1, OpenBlocks
<1> QED
  BY <1>2

\* if without else.
LEMMA IfStands ==
  ASSUME MaxReads \in Nat, NEW b, NEW B, NEW R, Standing(b, B, R), Destruct \in R, Body(B),
         NEW t, t = b.blocks + 1, NEW e, e = b.blocks + 2,
         NEW c, c = Goto(SealBlock(JumpTo(JumpTo(NewBlocks(b, 2), t), e), t), t), ~c.stuck,
         NEW r, r = [kind |-> "if", end |-> e], NEW a, IsOn(a, B, r)
  PROVE  Standing(c, a, R)
<1> DEFINE x0 == NewBlocks(b, 2)
           x1 == JumpTo(x0, t)
           x2 == JumpTo(x1, e)
           cur == b.cur
           none == {}
           E == {e}
           TE == {t, e}
<1>0. t # e /\ TE = Onward(b, 2) /\ 2 \in Nat
  BY StandingFacts DEF Onward
<1>1. Doing(x0, cur, TE, none, TE, none, none, B, R) /\ cur \notin TE
  <2> HIDE DEF x0, x1, x2, none, E, TE
  <2> QED
    BY <1>0, BlocksPlain, Zenon DEF x0, none
<1>2. /\ t \in TE \cup none /\ e \in TE \cup none /\ t \in TE /\ TE \subseteq TE \ {cur}
      /\ Unmet(none, t) /\ Unmet(none, e)
      /\ E = TE \ {t} /\ none = none \ {t} /\ TE \subseteq TE
  BY <1>0, <1>1 DEF Unmet
<1>3. c = Goto(SealBlock(x2, t), t)
  OBVIOUS
<1>4. /\ FreshOf(r) = E /\ HeadOf(r) = none /\ LeafOf(r) = none /\ Shaped(r) /\ r.kind \notin Logic
  <2>1. r.kind = "if" /\ r.end = e
    OBVIOUS
  <2> QED
    BY <2>1 DEF FreshOf, HeadOf, LeafOf, Shaped, Logic
<1>5. LeafOf(r) \subseteq TE /\ t \notin LeafOf(r) /\ \A u \in LeafOf(r) : u \notin ClaimsIn(B) \cup R
  BY <1>4
<1> HIDE DEF x0, x1, x2, cur, none, E, TE
<1>6. Doing(x1, cur, TE, none, TE, none, none, B, R)
  BY <1>1, <1>2, ToJump DEF x1
<1>7. Doing(x2, cur, TE, none, TE, none, none, B, R)
  BY <1>6, <1>2, ToJump, Zenon DEF x2
<1>8. Doing(c, t, E, none, TE, none, none, B, R)
  BY <1>7, <1>2, <1>3, ToInto
<1> QED
  BY <1>4, <1>5, <1>8, PushPlain

LEMMA IfElseStands ==
  ASSUME MaxReads \in Nat, NEW b, NEW B, NEW R, Standing(b, B, R), Destruct \in R, Body(B),
         NEW t, t = b.blocks + 1, NEW e, e = b.blocks + 2, NEW f, f = b.blocks + 3,
         NEW c, c = Goto(SealBlock(SealBlock(JumpTo(JumpTo(NewBlocks(b, 3), t), f), t), f), t), ~c.stuck,
         NEW r, r = [kind |-> "then", other |-> f, end |-> e], NEW a, IsOn(a, B, r)
  PROVE  Standing(c, a, R)
<1> DEFINE x0 == NewBlocks(b, 3)
           x1 == JumpTo(x0, t)
           x2 == JumpTo(x1, f)
           x3 == SealBlock(x2, t)
           x4 == SealBlock(x3, f)
           cur == b.cur
           none == {}
           E == {e}
           Z == {f}
           EF == {e, f}
           All == {t, e, f}
<1>0. t # e /\ t # f /\ e # f /\ All = Onward(b, 3) /\ 3 \in Nat
  BY StandingFacts DEF Onward
<1>1. /\ Doing(x0, cur, All, none, All, none, none, B, R) /\ cur \notin All
      /\ \A u \in All : u \notin ClaimsIn(B) \cup R
  <2> HIDE DEF x0, x1, x2, x3, x4, none, E, Z, EF, All
  <2> QED
    BY <1>0, BlocksPlain, Zenon DEF x0, none
<1>2. /\ t \in All \cup none /\ f \in All \cup none /\ All \subseteq All \ {cur} /\ All \subseteq All
      /\ Unmet(none, t) /\ Unmet(none, f) /\ EF = All \ {t} /\ none = none \ {t}
      /\ f \in EF \cup none /\ E = EF \ {f} /\ none = none \ {f}
      /\ t \in none \cup All \cup none /\ t \notin E /\ t \notin ClaimsIn(B) \cup R
  BY <1>0, <1>1 DEF Unmet
<1>3. c = Goto(x4, t)
  OBVIOUS
<1>4. /\ FreshOf(r) = E /\ HeadOf(r) = none /\ LeafOf(r) = Z /\ Shaped(r) /\ r.kind \notin Logic
      /\ LeafOf(r) \subseteq All /\ t \notin LeafOf(r) /\ \A u \in LeafOf(r) : u \notin ClaimsIn(B) \cup R
  <2>1. r.kind = "then" /\ r.other = f /\ r.end = e
    OBVIOUS
  <2>2. FreshOf(r) = E /\ HeadOf(r) = none /\ LeafOf(r) = Z /\ r.kind \notin Logic
    BY <2>1, <1>0, <1>1 DEF FreshOf, HeadOf, LeafOf, Logic
  <2>3. Shaped(r)
    BY <2>1, <1>0, <1>1 DEF Shaped
  <2> QED
    BY <2>2, <2>3, <1>0, <1>1
<1> HIDE DEF x0, x1, x2, x3, x4, cur, none, E, Z, EF, All
<1>5. Doing(x1, cur, All, none, All, none, none, B, R)
  BY <1>1, <1>2, ToJump DEF x1
<1>6. Doing(x2, cur, All, none, All, none, none, B, R)
  BY <1>5, <1>2, ToJump, Zenon DEF x2
<1>7. Doing(x3, cur, EF, none, All, none, none, B, R)
  BY <1>6, <1>2, ToSeal DEF x3
<1>8. Doing(x4, cur, E, none, All, none, none, B, R)
  BY <1>7, <1>2, ToSeal DEF x4
<1>9. Doing(c, t, E, none, All, none, none, B, R)
  BY <1>8, <1>2, <1>3, ToGoto
<1> QED
  BY <1>1, <1>2, <1>4, <1>9, PushPlain, ZenonT(30)

\* The four forms of for: three parts with a condition ...
LEMMA ForThreeCondition ==
  ASSUME MaxReads \in Nat, NEW b, NEW B, NEW R, Standing(b, B, R), Destruct \in R, Body(B),
         NEW h, h = b.blocks + 1, NEW d, d = b.blocks + 2, NEW p, p = b.blocks + 3, NEW e, e = b.blocks + 4,
         NEW c, c = Goto(JumpTo(NewBlocks(b, 4), h), h), ~c.stuck,
         NEW r, r = [kind |-> "condition", body |-> d, next |-> p, header |-> h, end |-> e], NEW a, IsOn(a, B, r)
  PROVE  Standing(c, a, R)
<1> DEFINE x0 == NewBlocks(b, 4)
           x1 == JumpTo(x0, h)
           cur == b.cur
           none == {}
           Heads == {h}
           Still == {d, p, e}
           All == {h, d, p, e}
<1>0. h # d /\ h # p /\ h # e /\ d # p /\ d # e /\ p # e /\ All = Onward(b, 4) /\ 4 \in Nat
  BY StandingFacts DEF Onward
<1>1. /\ Doing(x0, cur, All, none, All, none, none, B, R) /\ cur \notin All
      /\ \A u \in All : u \notin ClaimsIn(B) \cup R
  <2> HIDE DEF x0, x1, none, Heads, Still, All
  <2> QED
    BY <1>0, BlocksPlain DEF x0, none
<1>2. /\ h \in All /\ All \subseteq All \ {cur} /\ All \subseteq All /\ Unmet(none, h)
      /\ Still = All \ {h} /\ Heads = none \cup {h}
      /\ h \in Heads \cup All \cup none /\ h \notin Still /\ h \notin ClaimsIn(B) \cup R
  BY <1>0, <1>1 DEF Unmet
<1>3. c = Goto(x1, h)
  OBVIOUS
<1>4. /\ FreshOf(r) = Still /\ HeadOf(r) = Heads /\ LeafOf(r) = none /\ Shaped(r) /\ r.kind \notin Logic
      /\ LeafOf(r) \subseteq All /\ h \notin LeafOf(r) /\ \A u \in LeafOf(r) : u \notin ClaimsIn(B) \cup R
  <2>1. r.kind = "condition" /\ r.body = d /\ r.next = p /\ r.header = h /\ r.end = e
    OBVIOUS
  <2>2. FreshOf(r) = Still /\ HeadOf(r) = Heads /\ LeafOf(r) = none /\ r.kind \notin Logic
    BY <2>1, <1>0, <1>1 DEF FreshOf, HeadOf, LeafOf, Logic
  <2>3. Shaped(r)
    BY <2>1, <1>0, <1>1 DEF Shaped
  <2> QED
    BY <2>2, <2>3, <1>0, <1>1
<1> HIDE DEF x0, x1, cur, none, Heads, Still, All
<1>5. Doing(x1, cur, Still, Heads, All, none, none, B, R)
  BY <1>1, <1>2, ToHead DEF x1
<1>6. Doing(c, h, Still, Heads, All, none, none, B, R)
  BY <1>5, <1>2, <1>3, ToGoto
<1> QED
  BY <1>1, <1>2, <1>4, <1>6, PushPlain, Zenon

\* ... and without one ...
LEMMA ForThreeEver ==
  ASSUME MaxReads \in Nat, NEW b, NEW B, NEW R, Standing(b, B, R), Destruct \in R, Body(B),
         NEW h, h = b.blocks + 1, NEW d, d = b.blocks + 2, NEW p, p = b.blocks + 3, NEW e, e = b.blocks + 4,
         NEW c, c = Goto(JumpTo(NewBlocks(b, 4), h), h), ~c.stuck,
         NEW r, r = [kind |-> "forever", body |-> d, next |-> p, header |-> h, end |-> e], NEW a, IsOn(a, B, r)
  PROVE  Standing(c, a, R)
<1> DEFINE x0 == NewBlocks(b, 4)
           x1 == JumpTo(x0, h)
           cur == b.cur
           none == {}
           Heads == {h}
           Still == {d, p, e}
           All == {h, d, p, e}
<1>0. h # d /\ h # p /\ h # e /\ d # p /\ d # e /\ p # e /\ All = Onward(b, 4) /\ 4 \in Nat
  BY StandingFacts DEF Onward
<1>1. /\ Doing(x0, cur, All, none, All, none, none, B, R) /\ cur \notin All
      /\ \A u \in All : u \notin ClaimsIn(B) \cup R
  <2> HIDE DEF x0, x1, none, Heads, Still, All
  <2> QED
    BY <1>0, BlocksPlain DEF x0, none
<1>2. /\ h \in All /\ All \subseteq All \ {cur} /\ All \subseteq All /\ Unmet(none, h)
      /\ Still = All \ {h} /\ Heads = none \cup {h}
      /\ h \in Heads \cup All \cup none /\ h \notin Still /\ h \notin ClaimsIn(B) \cup R
  BY <1>0, <1>1 DEF Unmet
<1>3. c = Goto(x1, h)
  OBVIOUS
<1>4. /\ FreshOf(r) = Still /\ HeadOf(r) = Heads /\ LeafOf(r) = none /\ Shaped(r) /\ r.kind \notin Logic
      /\ LeafOf(r) \subseteq All /\ h \notin LeafOf(r) /\ \A u \in LeafOf(r) : u \notin ClaimsIn(B) \cup R
  <2>1. r.kind = "forever" /\ r.body = d /\ r.next = p /\ r.header = h /\ r.end = e
    OBVIOUS
  <2>2. FreshOf(r) = Still /\ HeadOf(r) = Heads /\ LeafOf(r) = none /\ r.kind \notin Logic
    BY <2>1, <1>0, <1>1 DEF FreshOf, HeadOf, LeafOf, Logic
  <2>3. Shaped(r)
    BY <2>1, <1>0, <1>1 DEF Shaped
  <2> QED
    BY <2>2, <2>3, <1>0, <1>1
<1> HIDE DEF x0, x1, cur, none, Heads, Still, All
<1>5. Doing(x1, cur, Still, Heads, All, none, none, B, R)
  BY <1>1, <1>2, ToHead DEF x1
<1>6. Doing(c, h, Still, Heads, All, none, none, B, R)
  BY <1>5, <1>2, <1>3, ToGoto
<1> QED
  BY <1>1, <1>2, <1>4, <1>6, PushPlain, Zenon

\* ... a condition only ...
LEMMA ForCondition ==
  ASSUME MaxReads \in Nat, NEW b, NEW B, NEW R, Standing(b, B, R), Destruct \in R, Body(B),
         NEW h, h = b.blocks + 1, NEW d, d = b.blocks + 2, NEW e, e = b.blocks + 3,
         NEW c, c = Goto(JumpTo(NewBlocks(b, 3), h), h), ~c.stuck,
         NEW r, r = [kind |-> "condition", body |-> d, next |-> h, header |-> h, end |-> e], NEW a, IsOn(a, B, r)
  PROVE  Standing(c, a, R)
<1> DEFINE x0 == NewBlocks(b, 3)
           x1 == JumpTo(x0, h)
           cur == b.cur
           none == {}
           Heads == {h}
           Still == {d, e}
           All == {h, d, e}
<1>0. h # d /\ h # e /\ d # e /\ All = Onward(b, 3) /\ 3 \in Nat
  BY StandingFacts DEF Onward
<1>1. /\ Doing(x0, cur, All, none, All, none, none, B, R) /\ cur \notin All
      /\ \A u \in All : u \notin ClaimsIn(B) \cup R
  <2> HIDE DEF x0, x1, none, Heads, Still, All
  <2> QED
    BY <1>0, BlocksPlain DEF x0, none
<1>2. /\ h \in All /\ All \subseteq All \ {cur} /\ All \subseteq All /\ Unmet(none, h)
      /\ Still = All \ {h} /\ Heads = none \cup {h}
      /\ h \in Heads \cup All \cup none /\ h \notin Still /\ h \notin ClaimsIn(B) \cup R
  BY <1>0, <1>1 DEF Unmet
<1>3. c = Goto(x1, h)
  OBVIOUS
<1>4. /\ FreshOf(r) = Still /\ HeadOf(r) = Heads /\ LeafOf(r) = none /\ Shaped(r) /\ r.kind \notin Logic
      /\ LeafOf(r) \subseteq All /\ h \notin LeafOf(r) /\ \A u \in LeafOf(r) : u \notin ClaimsIn(B) \cup R
  <2>1. r.kind = "condition" /\ r.body = d /\ r.next = h /\ r.header = h /\ r.end = e
    OBVIOUS
  <2>2. FreshOf(r) = Still /\ HeadOf(r) = Heads /\ LeafOf(r) = none /\ r.kind \notin Logic
    BY <2>1, <1>0, <1>1 DEF FreshOf, HeadOf, LeafOf, Logic
  <2>3. Shaped(r)
    BY <2>1, <1>0, <1>1 DEF Shaped
  <2> QED
    BY <2>2, <2>3, <1>0, <1>1
<1> HIDE DEF x0, x1, cur, none, Heads, Still, All
<1>5. Doing(x1, cur, Still, Heads, All, none, none, B, R)
  BY <1>1, <1>2, ToHead DEF x1
<1>6. Doing(c, h, Still, Heads, All, none, none, B, R)
  BY <1>5, <1>2, <1>3, ToGoto
<1> QED
  BY <1>1, <1>2, <1>4, <1>6, PushPlain, Zenon

\* ... nothing.
LEMMA ForEver ==
  ASSUME MaxReads \in Nat, NEW b, NEW B, NEW R, Standing(b, B, R), Destruct \in R, Body(B),
         NEW h, h = b.blocks + 1, NEW d, d = b.blocks + 2, NEW e, e = b.blocks + 3,
         NEW c, c = Goto(JumpTo(NewBlocks(b, 3), h), h), ~c.stuck,
         NEW r, r = [kind |-> "forever", body |-> d, next |-> h, header |-> h, end |-> e], NEW a, IsOn(a, B, r)
  PROVE  Standing(c, a, R)
<1> DEFINE x0 == NewBlocks(b, 3)
           x1 == JumpTo(x0, h)
           cur == b.cur
           none == {}
           Heads == {h}
           Still == {d, e}
           All == {h, d, e}
<1>0. h # d /\ h # e /\ d # e /\ All = Onward(b, 3) /\ 3 \in Nat
  BY StandingFacts DEF Onward
<1>1. /\ Doing(x0, cur, All, none, All, none, none, B, R) /\ cur \notin All
      /\ \A u \in All : u \notin ClaimsIn(B) \cup R
  <2> HIDE DEF x0, x1, none, Heads, Still, All
  <2> QED
    BY <1>0, BlocksPlain, Zenon DEF x0, none
<1>2. /\ h \in All /\ All \subseteq All \ {cur} /\ All \subseteq All /\ Unmet(none, h)
      /\ Still = All \ {h} /\ Heads = none \cup {h}
      /\ h \in Heads \cup All \cup none /\ h \notin Still /\ h \notin ClaimsIn(B) \cup R
  BY <1>0, <1>1 DEF Unmet
<1>3. c = Goto(x1, h)
  OBVIOUS
<1>4. /\ FreshOf(r) = Still /\ HeadOf(r) = Heads /\ LeafOf(r) = none /\ Shaped(r) /\ r.kind \notin Logic
      /\ LeafOf(r) \subseteq All /\ h \notin LeafOf(r) /\ \A u \in LeafOf(r) : u \notin ClaimsIn(B) \cup R
  <2>1. r.kind = "forever" /\ r.body = d /\ r.next = h /\ r.header = h /\ r.end = e
    OBVIOUS
  <2>2. FreshOf(r) = Still /\ HeadOf(r) = Heads /\ LeafOf(r) = none /\ r.kind \notin Logic
    BY <2>1, <1>0, <1>1 DEF FreshOf, HeadOf, LeafOf, Logic
  <2>3. Shaped(r)
    BY <2>1, <1>0, <1>1 DEF Shaped
  <2> QED
    BY <2>2, <2>3, <1>0, <1>1
<1> HIDE DEF x0, x1, cur, none, Heads, Still, All
<1>5. Doing(x1, cur, Still, Heads, All, none, none, B, R)
  BY <1>1, <1>2, ToHead DEF x1
<1>6. Doing(c, h, Still, Heads, All, none, none, B, R)
  BY <1>5, <1>2, <1>3, ToGoto
<1> QED
  BY <1>1, <1>2, <1>4, <1>6, PushPlain, Zenon

\* A range loop, its counter stored.
LEMMA RangeStands ==
  ASSUME MaxReads \in Nat, NEW b, NEW B, NEW R, Standing(b, B, R), Destruct \in R, Body(B),
         NEW x \in Names, NEW keys \in SUBSET Names, NEW elements \in SUBSET Names,
         NEW h, h = b.blocks + 1, NEW d, d = b.blocks + 2, NEW p, p = b.blocks + 3, NEW e, e = b.blocks + 4,
         NEW c, c = Goto(SealBlock(JumpTo(JumpTo(Load(Goto(JumpTo(NewBlocks(b, 4), h), h), x, {}), d), e), d), d), ~c.stuck,
         NEW r, r = [kind |-> "element", elements |-> elements, counter |-> x, keys |-> keys, next |-> p, header |-> h, end |-> e], NEW a, IsOn(a, B, r)
  PROVE  Standing(c, a, R) /\ c.succs[c.cur] = <<>>
<1> DEFINE x0 == NewBlocks(b, 4)
           x1 == JumpTo(x0, h)
           x2 == Goto(x1, h)
           x3 == Load(x2, x, {})
           x4 == JumpTo(x3, d)
           x5 == JumpTo(x4, e)
           cur == b.cur
           none == {}
           Heads == {h}
           PE == {p, e}
           Still == {d, p, e}
           All == {h, d, p, e}
<1>0. h # d /\ h # p /\ h # e /\ d # p /\ d # e /\ p # e /\ All = Onward(b, 4) /\ 4 \in Nat
  BY StandingFacts DEF Onward
<1>1. /\ Doing(x0, cur, All, none, All, none, none, B, R) /\ cur \notin All
      /\ \A u \in All : u \notin ClaimsIn(B) \cup R
  <2> HIDE DEF x0, x1, x2, x3, x4, x5, none, Heads, PE, Still, All
  <2> QED
    BY <1>0, BlocksPlain DEF x0, none
<1>2. /\ h \in All /\ All \subseteq All \ {cur} /\ All \subseteq All /\ Unmet(none, h)
      /\ Still = All \ {h} /\ Heads = none \cup {h}
      /\ h \in Heads \cup All \cup none /\ h \notin Still /\ h \notin ClaimsIn(B) \cup R
      /\ none \in SUBSET Names /\ none = {}
      /\ Still \subseteq All \ {h} /\ Still \subseteq Still \ {h} /\ Still \subseteq Still
      /\ d \in Still \cup Heads /\ e \in Still \cup Heads /\ Unmet(none, d) /\ Unmet(none, e)
      /\ d \in Still /\ PE = Still \ {d} /\ Heads = Heads \ {d}
  BY <1>0, <1>1 DEF Unmet
<1>3. c = Goto(SealBlock(x5, d), d)
  OBVIOUS
<1>4. /\ FreshOf(r) = PE /\ HeadOf(r) = Heads /\ LeafOf(r) = none /\ Shaped(r) /\ r.kind \notin Logic
      /\ LeafOf(r) \subseteq Still /\ d \notin LeafOf(r) /\ \A u \in LeafOf(r) : u \notin ClaimsIn(B) \cup R
  <2>1. r.kind = "element" /\ r.elements = elements /\ r.counter = x /\ r.keys = keys /\ r.next = p /\ r.header = h /\ r.end = e
    OBVIOUS
  <2>2. FreshOf(r) = PE /\ HeadOf(r) = Heads /\ LeafOf(r) = none /\ r.kind \notin Logic
    BY <2>1, <1>0, <1>1 DEF FreshOf, HeadOf, LeafOf, Logic
  <2>3. Shaped(r)
    BY <2>1, <1>0, <1>1 DEF Shaped
  <2> QED
    BY <2>2, <2>3, <1>0, <1>1
<1> HIDE DEF x0, x1, x2, x3, x4, x5, cur, none, Heads, PE, Still, All
<1>5. Doing(x1, cur, Still, Heads, All, none, none, B, R)
  BY <1>1, <1>2, ToHead DEF x1
<1>6. Doing(x2, h, Still, Heads, All, none, none, B, R)
  BY <1>5, <1>2, ToGoto DEF x2
<1>7. Doing(x3, h, Still, Heads, All, none, none, B, R)
  BY <1>6, <1>2, DoLoad DEF x3
<1>8. Doing(x4, h, Still, Heads, Still, none, none, B, R)
  BY <1>7, <1>2, ToJump DEF x4
<1>9. Doing(x5, h, Still, Heads, Still, none, none, B, R)
  BY <1>8, <1>2, ToJump DEF x5
<1>10. Doing(c, d, PE, Heads, Still, none, none, B, R)
  BY <1>9, <1>2, <1>3, ToInto
<1>11. Standing(c, a, R) /\ (d \in Still => c.succs[c.cur] = <<>>)
  BY <1>1, <1>4, <1>10, PushPlain
<1> QED
  BY <1>2, <1>11

-----------------------------------------------------------------------------
\* The statements that go on: else, the body of a loop, its increment.

LEMMA ElseStands ==
  ASSUME MaxReads \in Nat, NEW b, NEW o, NEW R, Standing(b, o, R), Destruct \in R,
         NEW B, NEW t, IsOn(o, B, t), t.kind = "then",
         NEW e, e = t.end, NEW f, f = t.other,
         NEW c, c = Goto(FallInto(b, e), f), ~c.stuck,
         NEW r, r = [kind |-> "if", end |-> e], NEW a, IsOn(a, B, r)
  PROVE  Standing(c, a, R)
<1> DEFINE x1 == FallInto(b, e)
           cur == b.cur
           none == {}
           E == {e}
           EF == {e, f}
<1>0. E = FreshOf(t) /\ none = HeadOf(t) /\ EF = LeafOf(t) \cup FreshOf(t) /\ t.kind \notin Logic
  BY DEF FreshOf, HeadOf, LeafOf, Logic
<1>1. /\ Doing(b, cur, E, none, EF, none, none, B, R) /\ cur \notin EF /\ Body(B)
      /\ \A u \in (E \cup none) \cup EF : u \notin ClaimsIn(B) \cup R
      /\ f # e
  <2>1. none = {}
    OBVIOUS
  <2>2. /\ Doing(b, b.cur, E, none, EF, none, none, B, R) /\ Body(B) /\ Shaped(t) /\ b.cur \notin EF
        /\ Private(E, none, EF, B, R)
    <3> HIDE DEF x1, none, E, EF
    <3> QED
      BY <1>0, <2>1, BeginPlain, Zenon
  <2>3. f # e
    BY <2>2 DEF Shaped
  <2> HIDE DEF x1, none, E, EF
  <2> QED
    BY <2>2, <2>3 DEF Private
<1>2. /\ e \in E \cup none /\ Unmet(none, e) /\ EF \subseteq EF \ {cur} /\ EF \subseteq EF
      /\ f \in none \cup EF \cup none /\ f \notin E /\ f \notin ClaimsIn(B) \cup R
  BY <1>0, <1>1 DEF Unmet
<1>3. c = Goto(x1, f)
  OBVIOUS
<1>4. /\ FreshOf(r) = E /\ HeadOf(r) = none /\ LeafOf(r) = none /\ Shaped(r) /\ r.kind \notin Logic
      /\ LeafOf(r) \subseteq EF /\ f \notin LeafOf(r) /\ \A u \in LeafOf(r) : u \notin ClaimsIn(B) \cup R
  <2>1. r.kind = "if" /\ r.end = e
    OBVIOUS
  <2>2. FreshOf(r) = E /\ HeadOf(r) = none /\ LeafOf(r) = none /\ r.kind \notin Logic
    BY <2>1, <1>0, <1>1 DEF FreshOf, HeadOf, LeafOf, Logic
  <2>3. Shaped(r)
    BY <2>1, <1>0, <1>1 DEF Shaped
  <2> QED
    BY <2>2, <2>3, <1>0, <1>1
<1> HIDE DEF x1, cur, none, E, EF
<1>5. Doing(x1, cur, E, none, EF, none, none, B, R)
  BY <1>1, <1>2, ToFall DEF x1
<1>6. Doing(c, f, E, none, EF, none, none, B, R)
  BY <1>5, <1>2, <1>3, ToGoto
<1> QED
  BY <1>1, <1>2, <1>4, <1>6, PushPlain

\* The body of a loop with a condition ...
LEMMA ForBodyCondition ==
  ASSUME MaxReads \in Nat, NEW b, NEW o, NEW R, Standing(b, o, R), Destruct \in R,
         NEW B, NEW t, IsOn(o, B, t), t.kind = "condition",
         NEW d, d = t.body, NEW n, n = t.next, NEW h, h = t.header, NEW e, e = t.end,
         NEW c, c = Goto(SealBlock(JumpTo(JumpTo(b, d), e), d), d), ~c.stuck,
         NEW r, r = [kind |-> "for", next |-> n, header |-> h, end |-> e], NEW a, IsOn(a, B, r)
  PROVE  Standing(c, a, R)
<1> DEFINE x1 == JumpTo(b, d)
           x2 == JumpTo(x1, e)
           cur == b.cur
           none == {}
           Heads == {h}
           P == {n} \ {h}
           E == {e} \cup P
           All == {d, e} \cup P
<1>0. All = FreshOf(t) /\ Heads = HeadOf(t) /\ All = LeafOf(t) \cup FreshOf(t) /\ t.kind \notin Logic
  BY DEF FreshOf, HeadOf, LeafOf, Logic
<1>1. /\ Doing(b, cur, All, Heads, All, none, none, B, R) /\ cur \notin All /\ Body(B)
      /\ \A u \in (All \cup Heads) \cup All : u \notin ClaimsIn(B) \cup R
      /\ d # e /\ d # n /\ d # h /\ e # n /\ e # h
  <2>1. none = {}
    OBVIOUS
  <2>2. /\ Doing(b, b.cur, All, Heads, All, none, none, B, R) /\ Body(B) /\ Shaped(t) /\ b.cur \notin All
        /\ Private(All, Heads, All, B, R)
    <3> HIDE DEF x1, x2, none, Heads, P, E, All
    <3> QED
      BY <1>0, <2>1, BeginPlain, Zenon
  <2>3. d # e /\ d # n /\ d # h /\ e # n /\ e # h
    BY <2>2 DEF Shaped
  <2> HIDE DEF x1, x2, none, Heads, P, E, All
  <2> QED
    BY <2>2, <2>3 DEF Private
<1>2. /\ d \in All \cup Heads /\ e \in All \cup Heads /\ Unmet(none, d) /\ Unmet(none, e)
      /\ All \subseteq All \ {cur} /\ All \subseteq All /\ d \in All
      /\ E = All \ {d} /\ Heads = Heads \ {d}
  BY <1>0, <1>1 DEF Unmet
<1>3. c = Goto(SealBlock(x2, d), d)
  OBVIOUS
<1>4. /\ FreshOf(r) = E /\ HeadOf(r) = Heads /\ LeafOf(r) = none /\ Shaped(r) /\ r.kind \notin Logic
      /\ LeafOf(r) \subseteq All /\ d \notin LeafOf(r) /\ \A u \in LeafOf(r) : u \notin ClaimsIn(B) \cup R
  <2>1. r.kind = "for" /\ r.next = n /\ r.header = h /\ r.end = e
    OBVIOUS
  <2>2. FreshOf(r) = E /\ HeadOf(r) = Heads /\ LeafOf(r) = none /\ r.kind \notin Logic
    BY <2>1, <1>0, <1>1 DEF FreshOf, HeadOf, LeafOf, Logic
  <2>3. Shaped(r)
    BY <2>1, <1>0, <1>1 DEF Shaped
  <2> QED
    BY <2>2, <2>3, <1>0, <1>1
<1> HIDE DEF x1, x2, cur, none, Heads, P, E, All
<1>5. Doing(x1, cur, All, Heads, All, none, none, B, R)
  BY <1>1, <1>2, ToJump DEF x1
<1>6. Doing(x2, cur, All, Heads, All, none, none, B, R)
  BY <1>5, <1>2, ToJump DEF x2
<1>7. Doing(c, d, E, Heads, All, none, none, B, R)
  BY <1>6, <1>2, <1>3, ToInto
<1> QED
  BY <1>1, <1>2, <1>4, <1>7, PushPlain, ZenonT(30)

\* ... and without one.
LEMMA ForBodyEver ==
  ASSUME MaxReads \in Nat, NEW b, NEW o, NEW R, Standing(b, o, R), Destruct \in R,
         NEW B, NEW t, IsOn(o, B, t), t.kind = "forever",
         NEW d, d = t.body, NEW n, n = t.next, NEW h, h = t.header, NEW e, e = t.end,
         NEW c, c = Goto(SealBlock(JumpTo(b, d), d), d), ~c.stuck,
         NEW r, r = [kind |-> "for", next |-> n, header |-> h, end |-> e], NEW a, IsOn(a, B, r)
  PROVE  Standing(c, a, R)
<1> DEFINE x1 == JumpTo(b, d)
           cur == b.cur
           none == {}
           Heads == {h}
           P == {n} \ {h}
           E == {e} \cup P
           All == {d, e} \cup P
<1>0. All = FreshOf(t) /\ Heads = HeadOf(t) /\ All = LeafOf(t) \cup FreshOf(t) /\ t.kind \notin Logic
  BY DEF FreshOf, HeadOf, LeafOf, Logic
<1>1. /\ Doing(b, cur, All, Heads, All, none, none, B, R) /\ cur \notin All /\ Body(B)
      /\ \A u \in (All \cup Heads) \cup All : u \notin ClaimsIn(B) \cup R
      /\ d # e /\ d # n /\ d # h /\ e # n /\ e # h
  <2>1. none = {}
    OBVIOUS
  <2>2. /\ Doing(b, b.cur, All, Heads, All, none, none, B, R) /\ Body(B) /\ Shaped(t) /\ b.cur \notin All
        /\ Private(All, Heads, All, B, R)
    <3> HIDE DEF x1, none, Heads, P, E, All
    <3> QED
      BY <1>0, <2>1, BeginPlain, Zenon
  <2>3. d # e /\ d # n /\ d # h /\ e # n /\ e # h
    BY <2>2 DEF Shaped
  <2> HIDE DEF x1, none, Heads, P, E, All
  <2> QED
    BY <2>2, <2>3 DEF Private
<1>2. /\ d \in All \cup Heads /\ e \in All \cup Heads /\ Unmet(none, d) /\ Unmet(none, e)
      /\ All \subseteq All \ {cur} /\ All \subseteq All /\ d \in All
      /\ E = All \ {d} /\ Heads = Heads \ {d}
  BY <1>0, <1>1 DEF Unmet
<1>3. c = Goto(SealBlock(x1, d), d)
  OBVIOUS
<1>4. /\ FreshOf(r) = E /\ HeadOf(r) = Heads /\ LeafOf(r) = none /\ Shaped(r) /\ r.kind \notin Logic
      /\ LeafOf(r) \subseteq All /\ d \notin LeafOf(r) /\ \A u \in LeafOf(r) : u \notin ClaimsIn(B) \cup R
  <2>1. r.kind = "for" /\ r.next = n /\ r.header = h /\ r.end = e
    OBVIOUS
  <2>2. FreshOf(r) = E /\ HeadOf(r) = Heads /\ LeafOf(r) = none /\ r.kind \notin Logic
    BY <2>1, <1>0, <1>1 DEF FreshOf, HeadOf, LeafOf, Logic
  <2>3. Shaped(r)
    BY <2>1, <1>0, <1>1 DEF Shaped
  <2> QED
    BY <2>2, <2>3, <1>0, <1>1
<1> HIDE DEF x1, cur, none, Heads, P, E, All
<1>5. Doing(x1, cur, All, Heads, All, none, none, B, R)
  BY <1>1, <1>2, ToJump DEF x1
<1>6. Doing(c, d, E, Heads, All, none, none, B, R)
  BY <1>5, <1>2, <1>3, ToInto
<1> QED
  BY <1>1, <1>2, <1>4, <1>6, PushPlain, Zenon

\* The increment.
LEMMA BeginPostStands ==
  ASSUME MaxReads \in Nat, NEW b, NEW o, NEW R, Standing(b, o, R), Destruct \in R,
         NEW B, NEW t, IsOn(o, B, t), t.kind = "for",
         NEW n, n = t.next, NEW h, h = t.header, NEW e, e = t.end,
         n # h,
         NEW c, c = Goto(SealBlock(FallInto(b, n), n), n), ~c.stuck,
         NEW r, r = [kind |-> "post", header |-> h, end |-> e], NEW a, IsOn(a, B, r)
  PROVE  Standing(c, a, R) /\ c.succs[c.cur] = <<>>
<1> DEFINE x1 == FallInto(b, n)
           cur == b.cur
           none == {}
           Heads == {h}
           E == {e}
           EP == {e, n}
<1>0. EP = FreshOf(t) /\ Heads = HeadOf(t) /\ EP = LeafOf(t) \cup FreshOf(t) /\ t.kind \notin Logic
  BY DEF FreshOf, HeadOf, LeafOf, Logic
<1>1. /\ Doing(b, cur, EP, Heads, EP, none, none, B, R) /\ cur \notin EP /\ Body(B)
      /\ \A u \in (EP \cup Heads) \cup EP : u \notin ClaimsIn(B) \cup R
      /\ e # n /\ e # h
  <2>1. none = {}
    OBVIOUS
  <2>2. /\ Doing(b, b.cur, EP, Heads, EP, none, none, B, R) /\ Body(B) /\ Shaped(t) /\ b.cur \notin EP
        /\ Private(EP, Heads, EP, B, R)
    <3> HIDE DEF x1, none, Heads, E, EP
    <3> QED
      BY <1>0, <2>1, BeginPlain, Zenon
  <2>3. e # n /\ e # h
    BY <2>2 DEF Shaped
  <2> HIDE DEF x1, none, Heads, E, EP
  <2> QED
    BY <2>2, <2>3 DEF Private
<1>2. /\ n \in EP \cup Heads /\ Unmet(none, n) /\ EP \subseteq EP \ {cur} /\ EP \subseteq EP /\ n \in EP
      /\ E = EP \ {n} /\ Heads = Heads \ {n}
  BY <1>0, <1>1 DEF Unmet
<1>3. c = Goto(SealBlock(x1, n), n)
  OBVIOUS
<1>4. /\ FreshOf(r) = E /\ HeadOf(r) = Heads /\ LeafOf(r) = none /\ Shaped(r) /\ r.kind \notin Logic
      /\ LeafOf(r) \subseteq EP /\ n \notin LeafOf(r) /\ \A u \in LeafOf(r) : u \notin ClaimsIn(B) \cup R
  <2>1. r.kind = "post" /\ r.header = h /\ r.end = e
    OBVIOUS
  <2>2. FreshOf(r) = E /\ HeadOf(r) = Heads /\ LeafOf(r) = none /\ r.kind \notin Logic
    BY <2>1, <1>0, <1>1 DEF FreshOf, HeadOf, LeafOf, Logic
  <2>3. Shaped(r)
    BY <2>1, <1>0, <1>1 DEF Shaped
  <2> QED
    BY <2>2, <2>3, <1>0, <1>1
<1> HIDE DEF x1, cur, none, Heads, E, EP
<1>5. Doing(x1, cur, EP, Heads, EP, none, none, B, R)
  BY <1>1, <1>2, ToFall DEF x1
<1>6. Doing(c, n, E, Heads, EP, none, none, B, R)
  BY <1>5, <1>2, <1>3, ToInto
<1>7. Standing(c, a, R) /\ (n \in EP => c.succs[c.cur] = <<>>)
  BY <1>1, <1>4, <1>6, PushPlain
<1> QED
  BY <1>2, <1>7

-----------------------------------------------------------------------------
\* The ends of branches and loops.

LEMMA BranchesEnd ==
  ASSUME MaxReads \in Nat, NEW b, NEW o, NEW R, Standing(b, o, R), Destruct \in R,
         NEW B, NEW t, IsOn(o, B, t), t.kind = "if" \/ (t.kind = "switch" /\ t.rest = <<>>),
         NEW e, e = t.end,
         NEW c, c = Goto(SealBlock(FallInto(b, e), e), e), ~c.stuck
  PROVE  Standing(c, B, R) /\ c.succs[c.cur] = <<>>
<1> DEFINE x1 == FallInto(b, e)
           cur == b.cur
           none == {}
           E == {e}
<1>0. E = FreshOf(t) /\ none = HeadOf(t) /\ E = LeafOf(t) \cup FreshOf(t) /\ t.kind \notin Logic
  <2>1. CASE t.kind = "if"
    BY <2>1 DEF FreshOf, HeadOf, LeafOf, Logic
  <2>2. CASE t.kind = "switch" /\ t.rest = <<>>
    <3>1. Seen(t.rest) = {}
      BY <2>2 DEF Seen
    <3> QED
      BY <2>2, <3>1 DEF FreshOf, HeadOf, LeafOf, Logic
  <2> QED
    BY <2>1, <2>2
<1>1. /\ Doing(b, cur, E, none, E, none, none, B, R) /\ cur \notin E /\ Body(B)
      /\ \A u \in (E \cup none) \cup E : u \notin ClaimsIn(B) \cup R
  <2>1. none = {}
    OBVIOUS
  <2>2. /\ Doing(b, b.cur, E, none, E, none, none, B, R) /\ Body(B) /\ Shaped(t) /\ b.cur \notin E
        /\ Private(E, none, E, B, R)
    <3> HIDE DEF x1, none, E
    <3> QED
      BY <1>0, <2>1, BeginPlain, Zenon
  <2> QED
    BY <2>2 DEF Private
<1>2. /\ e \in E \cup none /\ Unmet(none, e) /\ E \subseteq E \ {cur} /\ E \subseteq E /\ e \in E
      /\ none = E \ {e} /\ none = none \ {e}
  BY <1>0, <1>1 DEF Unmet
<1>3. c = Goto(SealBlock(x1, e), e)
  OBVIOUS
<1> HIDE DEF x1, cur, none, E
<1>4. Doing(x1, cur, E, none, E, none, none, B, R)
  BY <1>1, <1>2, ToFall DEF x1
<1>5. Doing(c, e, none, none, E, none, none, B, R)
  BY <1>4, <1>2, <1>3, ToInto
<1>6. Doing(c, e, {}, {}, E, none, none, B, R)
  BY <1>5 DEF none
<1>7. Leaves(c, B, R, e, E)
  BY <1>6, Pop
<1> QED
  BY <1>2, <1>7 DEF Leaves

\* for without increment.
LEMMA ForEnds ==
  ASSUME MaxReads \in Nat, NEW b, NEW o, NEW R, Standing(b, o, R), Destruct \in R,
         NEW B, NEW t, IsOn(o, B, t), t.kind = "for",
         NEW h, h = t.header, NEW e, e = t.end,
         t.header = t.next,
         NEW c, c = Goto(SealBlock(SealBlock(FallInto(b, h), h), e), e), ~c.stuck
  PROVE  Standing(c, B, R) /\ c.succs[c.cur] = <<>>
<1> DEFINE x1 == FallInto(b, h)
           x2 == SealBlock(x1, h)
           cur == b.cur
           none == {}
           E == {e}
           Heads == {h}
<1>0. E = FreshOf(t) /\ Heads = HeadOf(t) /\ E = LeafOf(t) \cup FreshOf(t) /\ t.kind \notin Logic
  BY DEF FreshOf, HeadOf, LeafOf, Logic
<1>1. /\ Doing(b, cur, E, Heads, E, none, none, B, R) /\ cur \notin E /\ Body(B)
      /\ \A u \in (E \cup Heads) \cup E : u \notin ClaimsIn(B) \cup R
      /\ e # h
  <2>1. none = {}
    OBVIOUS
  <2>2. /\ Doing(b, b.cur, E, Heads, E, none, none, B, R) /\ Body(B) /\ Shaped(t) /\ b.cur \notin E
        /\ Private(E, Heads, E, B, R)
    <3> HIDE DEF x1, x2, none, E, Heads
    <3> QED
      BY <1>0, <2>1, BeginPlain, Zenon
  <2>3. e # h
    BY <2>2 DEF Shaped
  <2> HIDE DEF x1, x2, none, E, Heads
  <2> QED
    BY <2>2, <2>3 DEF Private
<1>2. /\ h \in E \cup Heads /\ Unmet(none, h) /\ E \subseteq E \ {cur} /\ E \subseteq E
      /\ E = E \ {h} /\ none = Heads \ {h}
      /\ e \in E \cup none /\ e \in E /\ none = E \ {e} /\ none = none \ {e}
  BY <1>0, <1>1 DEF Unmet
<1>3. c = Goto(SealBlock(x2, e), e)
  OBVIOUS
<1> HIDE DEF x1, x2, cur, none, E, Heads
<1>4. Doing(x1, cur, E, Heads, E, none, none, B, R)
  BY <1>1, <1>2, ToFall DEF x1
<1>5. Doing(x2, cur, E, none, E, none, none, B, R)
  BY <1>4, <1>2, ToSeal DEF x2
<1>6. Doing(c, e, none, none, E, none, none, B, R)
  BY <1>5, <1>2, <1>3, ToInto
<1>7. Doing(c, e, {}, {}, E, none, none, B, R)
  BY <1>6 DEF none
<1>8. Leaves(c, B, R, e, E)
  BY <1>7, Pop
<1> QED
  BY <1>2, <1>8 DEF Leaves

\* for with one.
LEMMA PostEnds ==
  ASSUME MaxReads \in Nat, NEW b, NEW o, NEW R, Standing(b, o, R), Destruct \in R,
         NEW B, NEW t, IsOn(o, B, t), t.kind = "post",
         NEW h, h = t.header, NEW e, e = t.end,
         NEW c, c = Goto(SealBlock(SealBlock(JumpTo(b, h), h), e), e), ~c.stuck
  PROVE  Standing(c, B, R) /\ c.succs[c.cur] = <<>>
<1> DEFINE x1 == JumpTo(b, h)
           x2 == SealBlock(x1, h)
           cur == b.cur
           none == {}
           E == {e}
           Heads == {h}
<1>0. E = FreshOf(t) /\ Heads = HeadOf(t) /\ E = LeafOf(t) \cup FreshOf(t) /\ t.kind \notin Logic
  BY DEF FreshOf, HeadOf, LeafOf, Logic
<1>1. /\ Doing(b, cur, E, Heads, E, none, none, B, R) /\ cur \notin E /\ Body(B)
      /\ \A u \in (E \cup Heads) \cup E : u \notin ClaimsIn(B) \cup R
      /\ e # h
  <2>1. none = {}
    OBVIOUS
  <2>2. /\ Doing(b, b.cur, E, Heads, E, none, none, B, R) /\ Body(B) /\ Shaped(t) /\ b.cur \notin E
        /\ Private(E, Heads, E, B, R)
    <3> HIDE DEF x1, x2, none, E, Heads
    <3> QED
      BY <1>0, <2>1, BeginPlain, Zenon
  <2>3. e # h
    BY <2>2 DEF Shaped
  <2> HIDE DEF x1, x2, none, E, Heads
  <2> QED
    BY <2>2, <2>3 DEF Private
<1>2. /\ h \in E \cup Heads /\ Unmet(none, h) /\ E \subseteq E \ {cur} /\ E \subseteq E
      /\ E = E \ {h} /\ none = Heads \ {h}
      /\ e \in E \cup none /\ e \in E /\ none = E \ {e} /\ none = none \ {e}
  BY <1>0, <1>1 DEF Unmet
<1>3. c = Goto(SealBlock(x2, e), e)
  OBVIOUS
<1> HIDE DEF x1, x2, cur, none, E, Heads
<1>4. Doing(x1, cur, E, Heads, E, none, none, B, R)
  BY <1>1, <1>2, ToJump DEF x1
<1>5. Doing(x2, cur, E, none, E, none, none, B, R)
  BY <1>4, <1>2, ToSeal DEF x2
<1>6. Doing(c, e, none, none, E, none, none, B, R)
  BY <1>5, <1>2, <1>3, ToInto
<1>7. Doing(c, e, {}, {}, E, none, none, B, R)
  BY <1>6 DEF none
<1>8. Leaves(c, B, R, e, E)
  BY <1>7, Pop
<1> QED
  BY <1>2, <1>8 DEF Leaves

\* A variable and a set of them.
Named(x, xs) == x \in Names /\ xs \subseteq Names

\* What EndRange does.
RangeDone(b, p, x, xs, h, e) ==
  Goto(SealBlock(SealBlock(JumpTo(Store(Load(Goto(SealBlock(FallInto(b, p), p), p), x, {}), xs), h), h), e), e)

\* range.
LEMMA RangeEnds ==
  ASSUME MaxReads \in Nat, NEW b, NEW o, NEW R, Standing(b, o, R), Destruct \in R,
         NEW B, NEW t, IsOn(o, B, t), t.kind = "range",
         NEW p, p = t.next, NEW h, h = t.header, NEW e, e = t.end,
         NEW x, NEW xs, Named(x, xs),
         NEW c, c = RangeDone(b, p, x, xs, h, e), ~c.stuck
  PROVE  Standing(c, B, R) /\ c.succs[c.cur] = <<>>
<1>a. x \in Names /\ xs \in SUBSET Names
  BY DEF Named
<1> DEFINE x1 == FallInto(b, p)
           x2 == Goto(SealBlock(x1, p), p)
           x3 == Load(x2, x, {})
           x4 == Store(x3, xs)
           x5 == JumpTo(x4, h)
           x6 == SealBlock(x5, h)
           cur == b.cur
           none == {}
           E == {e}
           Heads == {h}
           PE == {p, e}
<1>0. PE = FreshOf(t) /\ Heads = HeadOf(t) /\ PE = LeafOf(t) \cup FreshOf(t) /\ t.kind \notin Logic
  BY DEF FreshOf, HeadOf, LeafOf, Logic
<1>1. /\ Doing(b, cur, PE, Heads, PE, none, none, B, R) /\ cur \notin PE /\ Body(B)
      /\ \A u \in (PE \cup Heads) \cup PE : u \notin ClaimsIn(B) \cup R
      /\ e # h /\ e # p /\ p # h
  <2>1. none = {}
    OBVIOUS
  <2>2. /\ Doing(b, b.cur, PE, Heads, PE, none, none, B, R) /\ Body(B) /\ Shaped(t) /\ b.cur \notin PE
        /\ Private(PE, Heads, PE, B, R)
    <3> HIDE DEF x1, x2, x3, x4, x5, x6, none, E, Heads, PE
    <3> QED
      BY <1>0, <2>1, BeginPlain, Zenon
  <2>3. e # h /\ e # p /\ p # h
    BY <2>2 DEF Shaped
  <2> HIDE DEF x1, x2, x3, x4, x5, x6, none, E, Heads, PE
  <2> QED
    BY <2>2, <2>3 DEF Private
<1>2. /\ p \in PE \cup Heads /\ Unmet(none, p) /\ PE \subseteq PE \ {cur} /\ PE \subseteq PE
      /\ p \in PE /\ E = PE \ {p} /\ Heads = Heads \ {p} /\ none \in SUBSET Names /\ none = {}
      /\ h \in E \cup Heads /\ Unmet(none, h) /\ E \subseteq PE \ {p} /\ E \subseteq E
      /\ E = E \ {h} /\ none = Heads \ {h}
      /\ e \in E \cup none /\ e \in E /\ none = E \ {e} /\ none = none \ {e}
  BY <1>0, <1>1 DEF Unmet
<1>3. c = Goto(SealBlock(x6, e), e)
  BY DEF RangeDone
<1> HIDE DEF x1, x2, x3, x4, x5, x6, cur, none, E, Heads, PE
<1>4. Doing(x1, cur, PE, Heads, PE, none, none, B, R)
  BY <1>1, <1>2, ToFall DEF x1
<1>5. Doing(x2, p, E, Heads, PE, none, none, B, R)
  BY <1>4, <1>2, ToInto DEF x2
<1>6. Doing(x3, p, E, Heads, PE, none, none, B, R)
  BY <1>a, <1>5, <1>2, DoLoad DEF x3
<1>7. Doing(x4, p, E, Heads, PE, none, none, B, R)
  BY <1>a, <1>6, <1>2, ToStore DEF x4
<1>8. Doing(x5, p, E, Heads, E, none, none, B, R)
  BY <1>7, <1>2, ToJump DEF x5
<1>9. Doing(x6, p, E, none, E, none, none, B, R)
  BY <1>8, <1>2, ToSeal DEF x6
<1>10. Doing(c, e, none, none, E, none, none, B, R)
  BY <1>9, <1>2, <1>3, ToInto
<1>11. Doing(c, e, {}, {}, E, none, none, B, R)
  BY <1>10 DEF none
<1>12. Leaves(c, B, R, e, E)
  BY <1>11, Pop
<1> QED
  BY <1>2, <1>12 DEF Leaves

-----------------------------------------------------------------------------
\* The clauses of a switch.

LEMMA TailParts ==
  ASSUME NEW q, List(q), Distinct(q), q # <<>>
  PROVE  /\ List(Tail(q)) /\ Distinct(Tail(q)) /\ Head(q) \in Seen(q)
         /\ Seen(Tail(q)) = Seen(q) \ {Head(q)}
<1> DEFINE T == Seen(q)
           s == Tail(q)
           n == Len(q)
<1>1. q \in Seq(T)
  BY DEF List
<1>2. \A k \in DOMAIN q : q[k] \in T
  BY DEF Seen
<1>3. \A u \in T : \E k \in DOMAIN q : q[k] = u
  BY DEF Seen
<1> HIDE DEF T
<1>4. n \in Nat /\ n > 0 /\ DOMAIN q = 1 .. n /\ Head(q) = q[1]
  BY <1>1
<1>5. s \in Seq(T) /\ Len(s) = n - 1 /\ DOMAIN s = 1 .. n - 1 /\ \A k \in 1 .. n - 1 : s[k] = q[k + 1]
  BY <1>1, <1>4
<1> HIDE DEF s, n
<1>6. List(s)
  BY <1>5, ListFacts
<1>7. Distinct(s)
  <2> SUFFICES ASSUME NEW i \in DOMAIN s, NEW j \in DOMAIN s, s[i] = s[j] PROVE i = j
    BY DEF Distinct
  <2>1. i + 1 \in DOMAIN q /\ j + 1 \in DOMAIN q /\ i \in Nat /\ j \in Nat
    BY <1>4, <1>5
  <2>2. q[i + 1] = q[j + 1]
    BY <1>5
  <2>3. i + 1 = j + 1
    BY <2>1, <2>2 DEF Distinct
  <2> QED
    BY <2>1, <2>3
<1>8. Seen(s) = T \ {q[1]}
  <2>1. ASSUME NEW u \in Seen(s) PROVE u \in T \ {q[1]}
    <3>1. PICK k \in DOMAIN s : u = s[k]
      BY <2>1 DEF Seen
    <3>2. k \in Nat /\ k + 1 \in DOMAIN q /\ 1 \in DOMAIN q /\ k + 1 # 1 /\ u = q[k + 1]
      BY <1>4, <1>5, <3>1
    <3>3. u # q[1]
      BY <3>2 DEF Distinct
    <3> QED
      BY <1>2, <3>2, <3>3
  <2>2. ASSUME NEW u \in T \ {q[1]} PROVE u \in Seen(s)
    <3>1. PICK k \in DOMAIN q : u = q[k]
      BY <1>3, <2>2
    <3>2. k \in Nat /\ k # 1 /\ k - 1 \in 1 .. n - 1
      BY <1>4, <2>2, <3>1
    <3>3. s[k - 1] = u
      <4>1. s[k - 1] = q[(k - 1) + 1] /\ (k - 1) + 1 = k
        BY <1>5, <3>2
      <4> QED
        BY <3>1, <4>1
    <3>4. k - 1 \in DOMAIN s
      BY <1>5, <3>2
    <3> QED
      BY <3>3, <3>4 DEF Seen
  <2> QED
    BY <2>1, <2>2
<1> QED
  BY <1>2, <1>4, <1>6, <1>7, <1>8 DEF T, s

\* No clauses.
LEMMA EmptyList ==
  ASSUME NEW q, q = <<>>
  PROVE  Seen(q) = {} /\ List(q) /\ Distinct(q)
BY DEF Seen, List, Distinct

\* The blocks of the clauses of a switch, which come after that of its end.
Clauses(all, bodies, v, e, m) ==
  /\ List(all) /\ Distinct(all) /\ e \notin Seen(all) /\ List(bodies) /\ Seen(bodies) \subseteq Seen(all)
  /\ m \in Nat /\ Seen(all) \cup {e} = e .. e + m /\ v \in Seen(all) \cup {e}

\* The blocks that Switch numbers are that.
LEMMA SwitchBlocks ==
  ASSUME NEW e \in Nat, NEW n \in Nat, NEW bodies, bodies = [i \in 1 .. n |-> e + i],
         NEW default \in BOOLEAN, NEW v, v = (IF default THEN e + n + 1 ELSE e),
         NEW all, all = (IF default THEN Append(bodies, v) ELSE bodies)
  PROVE  Clauses(all, bodies, v, e, Len(all)) /\ DOMAIN bodies = 1 .. n
<1> DEFINE m == Len(all)
<1>0. all = bodies \/ all = Append(bodies, e + n + 1)
  OBVIOUS
<1>1. bodies \in Seq(Nat) /\ Len(bodies) = n /\ DOMAIN bodies = 1 .. n /\ \A i \in 1 .. n : bodies[i] = e + i
  <2>1. bodies \in [1 .. n -> Nat]
    OBVIOUS
  <2> QED
    BY <2>1
<1>2. all \in Seq(Nat) /\ m \in Nat /\ DOMAIN all = 1 .. m /\ (m = n \/ m = n + 1)
      /\ \A i \in 1 .. m : all[i] = e + i
  <2>1. CASE all = bodies
    BY <1>1, <2>1
  <2>2. CASE all = Append(bodies, e + n + 1)
    <3> HIDE DEF m
    <3>1. e + n + 1 \in Nat
      OBVIOUS
    <3>2. all \in Seq(Nat) /\ Len(all) = n + 1 /\ all[n + 1] = e + n + 1 /\ \A i \in 1 .. n : all[i] = bodies[i]
      BY <1>1, <2>2, <3>1
    <3>3. \A i \in 1 .. n + 1 : all[i] = e + i
      BY <1>1, <3>2
    <3> QED
      BY <3>2, <3>3 DEF m
  <2> QED
    BY <1>0, <2>1, <2>2
<1> HIDE DEF m
<1>3. List(all) /\ List(bodies)
  BY <1>1, <1>2, ListFacts, Zenon
<1>4. Distinct(all) /\ e \notin Seen(all)
  BY <1>2 DEF Distinct, Seen
<1>5. Seen(bodies) \subseteq Seen(all)
  <2> SUFFICES ASSUME NEW i \in DOMAIN bodies PROVE bodies[i] \in Seen(all)
    BY DEF Seen
  <2>1. i \in DOMAIN all /\ all[i] = bodies[i]
    BY <1>1, <1>2
  <2> QED
    BY <2>1, Zenon DEF Seen
<1>6. Seen(all) \cup {e} = e .. e + m
  <2>1. ASSUME NEW u \in Seen(all) PROVE u \in e .. e + m
    <3>1. PICK i \in DOMAIN all : u = all[i]
      BY <2>1 DEF Seen
    <3> QED
      BY <1>2, <3>1
  <2>2. ASSUME NEW u \in e .. e + m, u # e PROVE u \in Seen(all)
    <3>1. u - e \in DOMAIN all /\ all[u - e] = u
      BY <1>2, <2>2
    <3> QED
      BY <3>1, Zenon DEF Seen
  <2>3. e \in e .. e + m
    BY <1>2
  <2> QED
    BY <2>1, <2>2, <2>3, Zenon
<1>7. all = Append(bodies, e + n + 1) => e + n + 1 \in Seen(all)
  <2> SUFFICES ASSUME all = Append(bodies, e + n + 1) PROVE e + n + 1 \in Seen(all)
    OBVIOUS
  <2>1. n + 1 \in DOMAIN all /\ all[n + 1] = e + n + 1
    <3>1. Len(all) = n + 1
      BY <1>1
    <3> QED
      BY <1>2, <3>1 DEF m
  <2> QED
    BY <2>1, Zenon DEF Seen
<1>8. v \in Seen(all) \cup {e}
  BY <1>7
<1> QED
  BY <1>1, <1>2, <1>3, <1>4, <1>5, <1>6, <1>8 DEF m, Clauses

\* A switch: the tests of the first clause, or no clause but the default.
LEMMA SwitchStands ==
  ASSUME MaxReads \in Nat, NEW b, NEW B, NEW R, Standing(b, B, R), Destruct \in R, Body(B),
         NEW n \in Nat, NEW e, e = b.blocks + 1, NEW bodies, NEW v, NEW all, NEW m,
         Clauses(all, bodies, v, e, m), DOMAIN bodies = 1 .. n,
         NEW x0, x0 = NewBlocks(b, 1 + m),
         NEW c, c = (IF n = 0 THEN JumpTo(x0, v) ELSE x0), ~c.stuck,
         NEW r, r = (IF n = 0 THEN [kind |-> "clauses", all |-> all, rest |-> all, end |-> e]
                     ELSE [kind |-> "tests", bodies |-> bodies, at |-> 1, all |-> all,
                           otherwise |-> v, end |-> e]),
         NEW a, IsOn(a, B, r)
  PROVE  Standing(c, a, R)
<1> DEFINE cur == b.cur
           none == {}
           S == Seen(all)
           F == S \cup {e}
<1>1. b.blocks \in Nat /\ e \in Nat
  BY StandingFacts
<1>2. /\ List(all) /\ Distinct(all) /\ e \notin S /\ List(bodies) /\ Seen(bodies) \subseteq S
      /\ m \in Nat /\ F = e .. e + m /\ v \in F /\ none = {}
  BY DEF Clauses
<1>3. F = Onward(b, 1 + m) /\ 1 + m \in Nat
  <2> HIDE DEF F
  <2>1. b.blocks + (1 + m) = e + m /\ e = b.blocks + 1
    BY <1>1, <1>2
  <2> QED
    BY <1>1, <1>2, <2>1 DEF Onward
<1>4. /\ Doing(x0, cur, F, none, F, none, none, B, R) /\ cur \notin F
      /\ \A u \in F : u \notin ClaimsIn(B) \cup R
  <2> HIDE DEF F, none
  <2> QED
    BY <1>2, <1>3, BlocksPlain, Zenon
<1>5. /\ r.kind = (IF n = 0 THEN "clauses" ELSE "tests") /\ r.all = all /\ r.end = e
      /\ n = 0 => r.rest = all
      /\ n # 0 => r.bodies = bodies /\ r.at = 1 /\ r.otherwise = v
  OBVIOUS
<1>6. F = FreshOf(r) /\ none = HeadOf(r) /\ LeafOf(r) \subseteq F /\ r.kind \notin Logic
  BY <1>5 DEF FreshOf, HeadOf, LeafOf, Logic
<1>7. Shaped(r)
  <2>1. CASE n = 0
    <3>1. r = [kind |-> "clauses", all |-> r.all, rest |-> r.rest, end |-> r.end] /\ r.kind = "clauses"
      BY <2>1, <1>5
    <3> QED
      BY <1>2, <1>5, <2>1, <3>1 DEF Shaped
  <2>2. CASE n # 0
    <3>1. /\ r = [kind |-> "tests", bodies |-> r.bodies, at |-> r.at, all |-> r.all,
                  otherwise |-> r.otherwise, end |-> r.end]
          /\ r.kind = "tests"
      BY <2>2, <1>5
    <3>2. 1 \in DOMAIN bodies
      BY <2>2
    <3> QED
      BY <1>2, <1>5, <2>2, <3>1, <3>2 DEF Shaped
  <2> QED
    BY <2>1, <2>2
<1>8. v \in F \cup none /\ Unmet(none, v) /\ F \subseteq F \ {cur}
  BY <1>2, <1>4 DEF Unmet
<1>9. LeafOf(r) \subseteq F /\ cur \notin LeafOf(r) /\ \A u \in LeafOf(r) : u \notin ClaimsIn(B) \cup R
  BY <1>4, <1>6
<1> HIDE DEF F, none, cur, S
<1>10. Doing(c, cur, F, none, F, none, none, B, R)
  <2>1. CASE n = 0
    <3>1. c = JumpTo(x0, v)
      BY <2>1
    <3> QED
      BY <1>4, <1>8, <3>1, ToJump
  <2>2. CASE n # 0
    BY <2>2, <1>4
  <2> QED
    BY <2>1, <2>2
<1> QED
  BY <1>6, <1>7, <1>9, <1>10, PushPlain

\* The tests of a switch.
LEMMA TestTop ==
  ASSUME NEW b, NEW o, NEW R, Standing(b, o, R), Destruct \in R,
         NEW B, NEW t, IsOn(o, B, t), t.kind = "tests", NEW none, none = {},
         NEW F, F = Seen(t.all) \cup {t.end}
  PROVE  /\ Doing(b, b.cur, F, none, F, none, none, B, R) /\ Body(B) /\ Shaped(t) /\ b.cur \notin F
         /\ \A u \in F : u \notin ClaimsIn(B) \cup R
         /\ \A k \in DOMAIN t.bodies : t.bodies[k] \in F
         /\ t.otherwise \in F /\ F \subseteq 1 .. b.blocks /\ b.blocks \in Nat
         /\ ClaimsIn(B) \cup R \subseteq 1 .. b.blocks
<1>1. F = FreshOf(t) /\ none = HeadOf(t) /\ F = LeafOf(t) \cup FreshOf(t) /\ t.kind \notin Logic
  BY DEF FreshOf, HeadOf, LeafOf, Logic
<1>2. /\ Doing(b, b.cur, F, none, F, none, none, B, R) /\ Body(B) /\ Shaped(t) /\ b.cur \notin F
      /\ Private(F, none, F, B, R)
  BY <1>1, BeginPlain, Zenon
<1>3. \A k \in DOMAIN t.bodies : t.bodies[k] \in F
  BY <1>2 DEF Shaped, Seen
<1>4. t.otherwise \in F
  BY <1>2 DEF Shaped
<1>5. Begins(b, t, B, R)
  BY BeginTop
<1>6. F \subseteq 1 .. b.blocks /\ b.blocks \in Nat /\ ClaimsIn(B) \cup R \subseteq 1 .. b.blocks
  BY <1>1, <1>5 DEF Begins, Claims
<1> QED
  BY <1>2, <1>3, <1>4, <1>6 DEF Private

\* A test that is not the last ...
LEMMA TestStands ==
  ASSUME MaxReads \in Nat, NEW b, NEW o, NEW R, Standing(b, o, R), Destruct \in R,
         NEW B, NEW t, IsOn(o, B, t), t.kind = "tests",
         NEW n, n = b.blocks + 1, NEW d, d = t.bodies[t.at], NEW k \in DOMAIN t.bodies,
         NEW c, c = Goto(SealBlock(JumpTo(JumpTo(NewBlocks(b, 1), d), n), n), n), ~c.stuck,
         NEW r, r = [t EXCEPT !.at = k], NEW a, IsOn(a, B, r)
  PROVE  Standing(c, a, R)
<1> DEFINE x0 == NewBlocks(b, 1)
           x1 == JumpTo(x0, d)
           x2 == JumpTo(x1, n)
           cur == b.cur
           none == {}
           F == Seen(t.all) \cup {t.end}
           N == F \cup {n}
<1>1. /\ Doing(b, cur, F, none, F, none, none, B, R) /\ Body(B) /\ Shaped(t) /\ cur \notin F
      /\ \A u \in F : u \notin ClaimsIn(B) \cup R
      /\ \A i \in DOMAIN t.bodies : t.bodies[i] \in F
      /\ t.otherwise \in F /\ F \subseteq 1 .. b.blocks /\ b.blocks \in Nat
      /\ ClaimsIn(B) \cup R \subseteq 1 .. b.blocks
  <2>1. none = {}
    OBVIOUS
  <2> HIDE DEF none, F
  <2> QED
    BY <2>1, TestTop, SMTT(30) DEF F
<1>2. d \in F
  BY <1>1 DEF Shaped
<1>3. Onward(b, 1) = {n} /\ n \notin F /\ 1 \in Nat
  BY <1>1 DEF Onward
<1>4. cur # n
  <2>1. cur \in 1 .. b.blocks
    <3>1. {} \in SUBSET {b.cur}
      OBVIOUS
    <3> QED
      BY <3>1, GoStanding, Zenon
  <2> QED
    BY <1>1, <2>1
<1>5. Doing(x0, cur, N, none, N, none, none, B, R)
  <2> DEFINE new == Onward(b, 1)
             J == Unreached(new)
  <2> HIDE DEF x0, x1, x2, cur, none, F, N, J, new
  <2>1. Doing(x0, cur, F \cup new, none, F \cup new, none \cup J, none, B, R)
    BY <1>1, <1>3, DoBlocks DEF new, J, x0
  <2>2. F \cup new = N /\ N \subseteq F \cup new /\ none \subseteq none \cup J /\ none \subseteq none
    BY <1>3 DEF N, new
  <2> QED
    BY <2>1, <2>2, DoAs, Zenon
<1>6. /\ d \in N \cup none /\ n \in N \cup none /\ n \in N /\ N \subseteq N \ {cur} /\ N \subseteq N
      /\ Unmet(none, d) /\ Unmet(none, n) /\ F = N \ {n} /\ none = none \ {n}
  BY <1>1, <1>2, <1>3, <1>4 DEF Unmet
<1>7. c = Goto(SealBlock(x2, n), n)
  OBVIOUS
<1>8. F = FreshOf(r) /\ none = HeadOf(r) /\ LeafOf(r) = none /\ r.kind \notin Logic /\ Shaped(r)
  <2>1. t = [kind |-> "tests", bodies |-> t.bodies, at |-> t.at, all |-> t.all,
             otherwise |-> t.otherwise, end |-> t.end]
    BY <1>1 DEF Shaped
  <2>2. /\ r = [kind |-> "tests", bodies |-> r.bodies, at |-> r.at, all |-> r.all,
                otherwise |-> r.otherwise, end |-> r.end]
        /\ r.kind = "tests" /\ r.bodies = t.bodies /\ r.at = k /\ r.all = t.all
        /\ r.otherwise = t.otherwise /\ r.end = t.end
    BY <2>1
  <2>3. F = FreshOf(r) /\ none = HeadOf(r) /\ LeafOf(r) = none /\ r.kind \notin Logic
    BY <2>2 DEF FreshOf, HeadOf, LeafOf, Logic
  <2>4. Shaped(r)
    BY <1>1, <2>2 DEF Shaped
  <2> QED
    BY <2>3, <2>4
<1>9. LeafOf(r) \subseteq N /\ n \notin LeafOf(r) /\ \A u \in LeafOf(r) : u \notin ClaimsIn(B) \cup R
  BY <1>8
<1> HIDE DEF x0, x1, x2, cur, none, F, N
<1>10. Doing(x1, cur, N, none, N, none, none, B, R)
  BY <1>5, <1>6, ToJump DEF x1
<1>11. Doing(x2, cur, N, none, N, none, none, B, R)
  BY <1>10, <1>6, ToJump DEF x2
<1>12. Doing(c, n, F, none, N, none, none, B, R)
  BY <1>11, <1>6, <1>7, ToInto
<1> QED
  BY <1>1, <1>8, <1>9, <1>12, PushPlain, Zenon

\* ... and the last.
LEMMA LastTestStands ==
  ASSUME MaxReads \in Nat, NEW b, NEW o, NEW R, Standing(b, o, R), Destruct \in R,
         NEW B, NEW t, IsOn(o, B, t), t.kind = "tests", NEW d, d = t.bodies[t.at],
         NEW v, v = t.otherwise, NEW c, c = JumpTo(JumpTo(b, d), v), ~c.stuck,
         NEW r, r = [kind |-> "clauses", all |-> t.all, rest |-> t.all, end |-> t.end],
         NEW a, IsOn(a, B, r)
  PROVE  Standing(c, a, R)
<1> DEFINE x1 == JumpTo(b, d)
           cur == b.cur
           none == {}
           F == Seen(t.all) \cup {t.end}
<1>1. /\ Doing(b, cur, F, none, F, none, none, B, R) /\ Body(B) /\ Shaped(t) /\ cur \notin F
      /\ \A u \in F : u \notin ClaimsIn(B) \cup R
      /\ \A i \in DOMAIN t.bodies : t.bodies[i] \in F
      /\ t.otherwise \in F
  <2>1. none = {}
    OBVIOUS
  <2> HIDE DEF none, F
  <2> QED
    BY <2>1, TestTop, SMTT(30) DEF F
<1>2. d \in F
  BY <1>1 DEF Shaped
<1>3. /\ d \in F \cup none /\ v \in F \cup none /\ F \subseteq F \ {cur}
      /\ Unmet(none, d) /\ Unmet(none, v)
  BY <1>1, <1>2 DEF Unmet
<1>4. c = JumpTo(x1, v)
  OBVIOUS
<1>5. /\ F = FreshOf(r) /\ none = HeadOf(r) /\ LeafOf(r) \subseteq F /\ r.kind \notin Logic /\ Shaped(r)
  <2>1. r.kind = "clauses" /\ r.all = t.all /\ r.rest = t.all /\ r.end = t.end
    OBVIOUS
  <2>2. F = FreshOf(r) /\ none = HeadOf(r) /\ LeafOf(r) \subseteq F /\ r.kind \notin Logic
    BY <2>1 DEF FreshOf, HeadOf, LeafOf, Logic
  <2>3. Shaped(r)
    BY <1>1, <2>1 DEF Shaped
  <2> QED
    BY <2>2, <2>3
<1>6. cur \notin LeafOf(r) /\ \A u \in LeafOf(r) : u \notin ClaimsIn(B) \cup R
  BY <1>1, <1>5
<1> HIDE DEF x1, cur, none, F
<1>7. Doing(x1, cur, F, none, F, none, none, B, R)
  BY <1>1, <1>3, ToJump DEF x1
<1>8. Doing(c, cur, F, none, F, none, none, B, R)
  BY <1>7, <1>3, <1>4, ToJump
<1> QED
  BY <1>1, <1>5, <1>6, <1>8, PushPlain

LEMMA SealClauseStands ==
  ASSUME MaxReads \in Nat, NEW b, NEW o, NEW R, Standing(b, o, R), Destruct \in R,
         NEW B, NEW t, IsOn(o, B, t), t.kind = "clauses", NEW q, q = t.rest, q # <<>>,
         NEW u, u = Head(q), NEW c, c = SealBlock(b, u), ~c.stuck,
         NEW r, r = [t EXCEPT !.rest = Tail(q)], NEW a, IsOn(a, B, r)
  PROVE  Standing(c, a, R)
<1> DEFINE cur == b.cur
           none == {}
           F == Seen(q) \cup {t.end}
           E == Seen(Tail(q)) \cup {t.end}
           A == Seen(t.all)
           W == A \cup F
<1>0. F = FreshOf(t) /\ none = HeadOf(t) /\ W = LeafOf(t) \cup FreshOf(t) /\ t.kind \notin Logic /\ none = {}
  BY DEF FreshOf, HeadOf, LeafOf, Logic
<1>1. /\ Doing(b, cur, F, none, W, none, none, B, R) /\ Body(B) /\ Shaped(t) /\ cur \notin W
      /\ Private(F, none, W, B, R)
  <2> HIDE DEF F, none, W
  <2> QED
    BY <1>0, BeginPlain, Zenon
<1>2. /\ t = [kind |-> "clauses", all |-> t.all, rest |-> q, end |-> t.end]
      /\ List(t.all) /\ Distinct(t.all) /\ t.end \notin A
      /\ List(q) /\ Distinct(q) /\ Seen(q) \subseteq A
  BY <1>1 DEF Shaped
<1>3. List(Tail(q)) /\ Distinct(Tail(q)) /\ u \in Seen(q) /\ Seen(Tail(q)) = Seen(q) \ {u}
  BY <1>2, TailParts
<1>4. u \in F \cup none /\ E = F \ {u} /\ none = none \ {u} /\ W \subseteq W
  BY <1>2, <1>3
<1>5. r.kind = "clauses" /\ r.all = t.all /\ r.rest = Tail(q) /\ r.end = t.end
  <2>1. r = [kind |-> "clauses", all |-> t.all, rest |-> Tail(q), end |-> t.end]
    BY <1>2, Zenon
  <2> QED
    BY <2>1
<1>6. E = FreshOf(r) /\ none = HeadOf(r) /\ LeafOf(r) = A /\ r.kind \notin Logic
  BY <1>5 DEF FreshOf, HeadOf, LeafOf, Logic
<1>7. Shaped(r)
  <2>1. r = [kind |-> "clauses", all |-> r.all, rest |-> r.rest, end |-> r.end]
    BY <1>2, <1>5, Zenon
  <2> QED
    BY <1>2, <1>3, <1>5, <2>1 DEF Shaped
<1>8. LeafOf(r) \subseteq W /\ cur \notin LeafOf(r) /\ \A x \in LeafOf(r) : x \notin ClaimsIn(B) \cup R
  BY <1>1, <1>6, Zenon DEF Private
<1> HIDE DEF cur, none, F, E, W
<1>9. Doing(c, cur, E, none, W, none, none, B, R)
  BY <1>1, <1>4, ToSeal
<1> QED
  BY <1>1, <1>6, <1>7, <1>8, <1>9, PushPlain, Zenon

\* The first clause,
LEMMA FirstClauseStands ==
  ASSUME NEW b, NEW o, NEW R, Standing(b, o, R), Destruct \in R,
         NEW B, NEW t, IsOn(o, B, t), t.kind = "clauses", t.rest = <<>>, NEW q, q = t.all,
         NEW c, c = (IF q = <<>> THEN b ELSE Goto(b, Head(q))), ~c.stuck,
         NEW r, r = [kind |-> "switch", rest |-> IF q = <<>> THEN <<>> ELSE Tail(q), end |-> t.end],
         NEW a, IsOn(a, B, r)
  PROVE  Standing(c, a, R)
<1> DEFINE cur == b.cur
           none == {}
           F == {t.end}
           A == Seen(q)
           W == A \cup F
           u == Head(q)
<1>0. F = FreshOf(t) /\ none = HeadOf(t) /\ LeafOf(t) = A /\ W = LeafOf(t) \cup FreshOf(t)
      /\ t.kind \notin Logic /\ none = {}
  BY EmptyList DEF FreshOf, HeadOf, LeafOf, Logic
<1>1. /\ Doing(b, cur, F, none, W, none, none, B, R) /\ Body(B) /\ Shaped(t) /\ cur \notin W
      /\ Private(F, none, W, B, R)
  <2> HIDE DEF F, none, W
  <2> QED
    BY <1>0, BeginPlain, Zenon
<1>2. List(q) /\ Distinct(q) /\ t.end \notin A
  BY <1>1 DEF Shaped
<1>3. r.kind = "switch" /\ r.rest = (IF q = <<>> THEN <<>> ELSE Tail(q)) /\ r.end = t.end
  OBVIOUS
<1>4. F = FreshOf(r) /\ none = HeadOf(r) /\ LeafOf(r) = Seen(r.rest) /\ r.kind \notin Logic
  BY <1>3 DEF FreshOf, HeadOf, LeafOf, Logic
<1>5. CASE q = <<>>
  <2>1. r.rest = <<>> /\ c = b
    BY <1>3, <1>5
  <2>2. LeafOf(r) = LeafOf(t)
    BY <1>0, <1>4, <1>5, <2>1
  <2>3. Shaped(r)
    BY <1>2, <1>3, <1>5, <2>1 DEF Shaped
  <2>4. DoneOf(r) = DoneOf(t) /\ JoinOf(r) = JoinOf(t) /\ FreshOf(r) = FreshOf(t) /\ HeadOf(r) = HeadOf(t)
    BY <1>0, <1>3, <1>4, Zenon DEF DoneOf, JoinOf
  <2> QED
    BY <1>0, <2>1, <2>2, <2>3, <2>4, Reframed
<1>6. CASE q # <<>>
  <2>1. List(Tail(q)) /\ Distinct(Tail(q)) /\ u \in A /\ Seen(Tail(q)) = A \ {u}
    BY <1>2, <1>6, TailParts
  <2>2. r.rest = Tail(q) /\ c = Goto(b, u)
    BY <1>3, <1>6
  <2>3. Shaped(r)
    BY <1>2, <1>3, <2>1, <2>2 DEF Shaped
  <2>4. LeafOf(r) \subseteq W /\ u \notin LeafOf(r) /\ \A x \in LeafOf(r) : x \notin ClaimsIn(B) \cup R
    BY <1>1, <1>4, <2>1, <2>2, Zenon DEF Private
  <2>5. u \in none \cup W \cup none /\ u \notin F /\ u \notin ClaimsIn(B) \cup R /\ W \subseteq W
    BY <1>1, <1>2, <2>1 DEF Private
  <2> HIDE DEF cur, none, F, W, u
  <2>6. Doing(c, u, F, none, W, none, none, B, R)
    BY <1>1, <2>2, <2>5, ToGoto
  <2> QED
    BY <1>1, <1>4, <2>3, <2>4, <2>6, PushPlain, Zenon
<1> QED
  BY <1>5, <1>6

\* and the next.
LEMMA NextClauseStands ==
  ASSUME NEW b, NEW o, NEW R, Standing(b, o, R), Destruct \in R,
         NEW B, NEW t, IsOn(o, B, t), t.kind = "switch", NEW q, q = t.rest, q # <<>>,
         NEW u, u = Head(q), NEW e, e = t.end, NEW c, c = Goto(FallInto(b, e), u), ~c.stuck,
         NEW r, r = [kind |-> "switch", rest |-> Tail(q), end |-> e],
         NEW a, IsOn(a, B, r)
  PROVE  Standing(c, a, R)
<1> DEFINE cur == b.cur
           none == {}
           F == {e}
           A == Seen(q)
           W == A \cup F
           x1 == FallInto(b, e)
<1>0. F = FreshOf(t) /\ none = HeadOf(t) /\ LeafOf(t) = A /\ W = LeafOf(t) \cup FreshOf(t)
      /\ t.kind \notin Logic /\ none = {}
  BY DEF FreshOf, HeadOf, LeafOf, Logic
<1>1. /\ Doing(b, cur, F, none, W, none, none, B, R) /\ Body(B) /\ Shaped(t) /\ cur \notin W
      /\ Private(F, none, W, B, R)
  <2> HIDE DEF F, none, W
  <2> QED
    BY <1>0, BeginPlain, Zenon
<1>2. List(q) /\ Distinct(q) /\ e \notin A
  BY <1>1 DEF Shaped
<1>3. r.kind = "switch" /\ r.rest = Tail(q) /\ r.end = e
  OBVIOUS
<1>4. F = FreshOf(r) /\ none = HeadOf(r) /\ LeafOf(r) = Seen(r.rest) /\ r.kind \notin Logic
  BY <1>3 DEF FreshOf, HeadOf, LeafOf, Logic
<1>5. List(Tail(q)) /\ Distinct(Tail(q)) /\ u \in A /\ Seen(Tail(q)) = A \ {u}
  BY <1>2, TailParts
<1>6. Shaped(r)
  BY <1>2, <1>3, <1>5 DEF Shaped
<1>7. LeafOf(r) \subseteq W /\ u \notin LeafOf(r) /\ \A x \in LeafOf(r) : x \notin ClaimsIn(B) \cup R
  BY <1>1, <1>3, <1>4, <1>5, Zenon DEF Private
<1>8. /\ e \in F \cup none /\ Unmet(none, e) /\ W \subseteq W \ {cur} /\ W \subseteq W
      /\ u \in none \cup W \cup none /\ u \notin F /\ u \notin ClaimsIn(B) \cup R
  BY <1>1, <1>2, <1>5 DEF Private, Unmet
<1>9. c = Goto(x1, u)
  OBVIOUS
<1> HIDE DEF cur, none, F, W, x1
<1>10. Doing(x1, cur, F, none, W, none, none, B, R)
  BY <1>1, <1>8, ToFall DEF x1
<1>11. Doing(c, u, F, none, W, none, none, B, R)
  BY <1>8, <1>9, <1>10, ToGoto
<1> QED
  BY <1>1, <1>4, <1>6, <1>7, <1>11, PushPlain, ZenonT(30)

-----------------------------------------------------------------------------
\* && and ||.

\* && and ||, whose left operand has been evaluated.
LEMMA AndStands ==
  ASSUME MaxReads \in Nat, NEW b, NEW B, NEW R, Standing(b, B, R), Destruct \in R,
         NEW f, f = b.blocks + 1, NEW t, t = b.blocks + 2, NEW e, e = b.blocks + 3,
         NEW c, c = Goto(SealBlock(SealBlock(JumpTo(JumpTo(NewBlocks(b, 3), t), f), t), f), t), ~c.stuck,
         NEW r, r = [kind |-> "and", end |-> e, other |-> f], NEW a, IsOn(a, B, r)
  PROVE  Standing(c, a, R) /\ c.succs[c.cur] = <<>>
<1> DEFINE x0 == NewBlocks(b, 3)
           x1 == JumpTo(x0, t)
           x2 == JumpTo(x1, f)
           x3 == SealBlock(x2, t)
           x4 == SealBlock(x3, f)
           cur == b.cur
           none == {}
           E == {e}
           FE == {f, e}
           All == {f, t, e}
           L == {Reached(e, <<>>)}
<1>0. f # t /\ f # e /\ t # e /\ All = Onward(b, 3) /\ 3 \in Nat /\ none = {}
  BY StandingFacts DEF Onward
<1>1. /\ Doing(x0, cur, All, none, All, L, none, B, R)
      /\ \A u \in All : u \notin ClaimsIn(B) \cup R /\ u # cur
  <2> DEFINE N == Onward(b, 3)
             J == Unreached(N)
  <2>1. Opens(b, B, R)
    BY BeginNew
  <2>2. All \subseteq All /\ L \subseteq J /\ none \subseteq none
    BY <1>0 DEF Unreached, Reached
  <2> HIDE DEF x0, x1, x2, x3, x4, none, E, FE, All, L, N, J
  <2>3. /\ Doing(x0, cur, N, none, N, J, none, B, R)
        /\ \A u \in N : u \notin ClaimsIn(B) \cup R /\ u # cur
    BY <1>0, <2>1, OpenBlocks, SMTT(30) DEF N, J, x0, cur
  <2>4. N = All
    BY <1>0 DEF N
  <2> QED
    BY <2>2, <2>3, <2>4, DoAs
<1>2. /\ t \in All \cup none /\ f \in All \cup none /\ f \in FE \cup none /\ All \subseteq All \ {cur}
      /\ Unmet(L, t) /\ Unmet(L, f) /\ All \subseteq All
      /\ FE = All \ {t} /\ E = FE \ {f} /\ none = none \ {t} /\ none = none \ {f}
      /\ t \in none \cup All \cup none /\ t \notin E /\ t \notin ClaimsIn(B) \cup R
  BY <1>0, <1>1 DEF Unmet, Reached
<1>3. c = Goto(x4, t)
  OBVIOUS
<1>4. r.kind = "and" /\ r.other = f /\ r.end = e
  OBVIOUS
<1>5. /\ FreshOf(r) = E /\ HeadOf(r) = none /\ LeafOf(r) \subseteq All /\ JoinOf(r) \subseteq L /\ DoneOf(r) \subseteq none
      /\ t \notin LeafOf(r) /\ Shaped(r) /\ r.kind \in Logic /\ t \in All
  BY <1>0, <1>4 DEF FreshOf, HeadOf, LeafOf, JoinOf, DoneOf, Shaped, Logic, Reached
<1>6. Claims(r) \cap (ClaimsIn(B) \cup R) = {}
  <2>1. Claims(r) \subseteq All
    BY <1>4, <1>5 DEF Claims
  <2> QED
    BY <1>1, <2>1
<1> HIDE DEF x0, x1, x2, x3, x4, cur, none, E, FE, All, L
<1>7. Doing(x1, cur, All, none, All, L, none, B, R)
  BY <1>1, <1>2, ToJump, Zenon DEF x1
<1>8. Doing(x2, cur, All, none, All, L, none, B, R)
  BY <1>7, <1>2, ToJump, Zenon DEF x2
<1>9. Doing(x3, cur, FE, none, All, L, none, B, R)
  BY <1>8, <1>2, ToSeal DEF x3
<1>10. Doing(x4, cur, E, none, All, L, none, B, R)
  BY <1>9, <1>2, ToSeal DEF x4
<1>11. Doing(c, t, E, none, All, L, none, B, R)
  BY <1>10, <1>2, <1>3, ToGoto
<1>12. Doing(c, t, FreshOf(r), HeadOf(r), All, L, none, B, R)
  BY <1>5, <1>11
<1>13. Leaves(c, a, R, t, All)
  BY <1>5, <1>6, <1>12, Push
<1> QED
  BY <1>5, <1>13 DEF Leaves

\* || begins.
LEMMA OrStands ==
  ASSUME MaxReads \in Nat, NEW b, NEW B, NEW R, Standing(b, B, R), Destruct \in R,
         NEW f, f = b.blocks + 1, NEW t, t = b.blocks + 2, NEW e, e = b.blocks + 3,
         NEW s, s = Goto(SealBlock(SealBlock(JumpTo(JumpTo(NewBlocks(b, 3), t), f), t), f), t),
         NEW c, c = Goto(JumpTo(Store(s, {Result}), e), f), ~c.stuck,
         NEW r, r = [kind |-> "or", end |-> e, other |-> t], NEW a, IsOn(a, B, r)
  PROVE  Standing(c, a, R) /\ c.succs[c.cur] = <<>>
<1> DEFINE x0 == NewBlocks(b, 3)
           x1 == JumpTo(x0, t)
           x2 == JumpTo(x1, f)
           x3 == SealBlock(x2, t)
           x4 == SealBlock(x3, f)
           x6 == Store(s, {Result})
           x7 == JumpTo(x6, e)
           cur == b.cur
           none == {}
           E == {e}
           FE == {f, e}
           All == {f, t, e}
           L == {Reached(e, <<>>)}
           M == {Reached(e, <<t>>)}
           D == {t}
           xs == {Result}
<1>0. f # t /\ f # e /\ t # e /\ All = Onward(b, 3) /\ 3 \in Nat /\ none = {}
  BY StandingFacts DEF Onward
<1>1. /\ Doing(x0, cur, All, none, All, L, none, B, R)
      /\ \A u \in All : u \notin ClaimsIn(B) \cup R /\ u # cur
  <2> DEFINE N == Onward(b, 3)
             J == Unreached(N)
  <2>1. Opens(b, B, R)
    BY BeginNew
  <2>2. All \subseteq All /\ L \subseteq J /\ none \subseteq none
    BY <1>0 DEF Unreached, Reached
  <2> HIDE DEF x0, x1, x2, x3, x4, x6, x7, none, E, FE, All, L, M, D, xs, N, J
  <2>3. /\ Doing(x0, cur, N, none, N, J, none, B, R)
        /\ \A u \in N : u \notin ClaimsIn(B) \cup R /\ u # cur
    BY <1>0, <2>1, OpenBlocks DEF N, J, x0, cur
  <2>4. N = All
    BY <1>0 DEF N
  <2> QED
    BY <2>2, <2>3, <2>4, DoAs
<1>2. /\ t \in All \cup none /\ f \in All \cup none /\ f \in FE \cup none /\ All \subseteq All \ {cur}
      /\ Unmet(L, t) /\ Unmet(L, f) /\ All \subseteq All
      /\ FE = All \ {t} /\ E = FE \ {f} /\ none = none \ {t} /\ none = none \ {f}
      /\ t \in none \cup All \cup none /\ t \notin E /\ t \notin ClaimsIn(B) \cup R
  BY <1>0, <1>1 DEF Unmet, Reached
<1>3. s = Goto(x4, t) /\ c = Goto(x7, f)
  OBVIOUS
<1>4. r.kind = "or" /\ r.other = t /\ r.end = e
  OBVIOUS
<1>5. /\ FreshOf(r) = E /\ HeadOf(r) = none /\ LeafOf(r) \subseteq FE /\ JoinOf(r) \subseteq M /\ DoneOf(r) \subseteq D
      /\ f \notin LeafOf(r) /\ Shaped(r) /\ r.kind \in Logic /\ f \in FE
  BY <1>0, <1>4 DEF FreshOf, HeadOf, LeafOf, JoinOf, DoneOf, Shaped, Logic, Reached
<1>6. Claims(r) \cap (ClaimsIn(B) \cup R) = {}
  <2>1. Claims(r) \subseteq All
    BY <1>4, <1>5 DEF Claims
  <2> QED
    BY <1>1, <2>1
<1>14. /\ xs \in SUBSET Names /\ t \in All /\ none \cup Knowing(t, xs) = D
       /\ e \in E /\ Reached(e, <<>>) \in L /\ Others(none, L, e) /\ Append(<<>>, t) = <<t>>
       /\ FE = All \ {t} /\ FE \subseteq FE
       /\ f \in none \cup FE \cup D /\ f \notin E /\ f \notin ClaimsIn(B) \cup R
  BY <1>0, <1>1 DEF Knowing, Others, Names
<1>15. none \cup {Reached(e, Append(<<>>, t))} = M
  BY <1>14
<1> HIDE DEF x0, x1, x2, x3, x4, x6, x7, cur, none, E, FE, All, L, M, D, xs
<1>7. Doing(x1, cur, All, none, All, L, none, B, R)
  BY <1>1, <1>2, ToJump, Zenon DEF x1
<1>8. Doing(x2, cur, All, none, All, L, none, B, R)
  BY <1>7, <1>2, ToJump, Zenon DEF x2
<1>9. Doing(x3, cur, FE, none, All, L, none, B, R)
  BY <1>8, <1>2, ToSeal DEF x3
<1>10. Doing(x4, cur, E, none, All, L, none, B, R)
  BY <1>9, <1>2, ToSeal DEF x4
<1>11. Doing(s, t, E, none, All, L, none, B, R)
  BY <1>10, <1>2, <1>3, ToGoto
<1>16. Doing(x6, t, E, none, All, L, D, B, R)
  <2>1. Doing(x6, t, E, none, All, L, none \cup Knowing(t, xs), B, R)
    BY <1>11, <1>14, DoStore, Zenon DEF x6, xs
  <2> QED
    BY <1>14, <2>1, Zenon
<1>17. Doing(x7, t, E, none, FE, M, D, B, R)
  <2>1. Doing(x7, t, E, none, All \ {t}, none \cup {Reached(e, Append(<<>>, t))}, D, B, R)
    BY <1>14, <1>16, DoJoin, Zenon DEF x7
  <2> QED
    BY <1>14, <1>15, <2>1, Zenon
<1>18. Doing(c, f, E, none, FE, M, D, B, R)
  BY <1>3, <1>14, <1>17, ToGoto
<1>12. Doing(c, f, FreshOf(r), HeadOf(r), FE, M, D, B, R)
  BY <1>5, <1>18
<1>13. Leaves(c, a, R, f, FE)
  BY <1>5, <1>6, <1>12, Push
<1> QED
  BY <1>5, <1>13 DEF Leaves

\* The two predecessors of the block where the operands meet.
LEMMA Appended ==
  ASSUME NEW x, NEW y
  PROVE  Append(<<>>, x) = <<x>> /\ Append(<<x>>, y) = <<x, y>>
<1> DEFINE S == {x, y}
           q == <<x>>
           p == <<x, y>>
           a == Append(q, y)
<1>1. q \in Seq(S) /\ y \in S /\ q[1] = x /\ Len(q) = 1
  OBVIOUS
<1>2. p \in Seq(S) /\ p[1] = x /\ p[2] = y /\ Len(p) = 2
  OBVIOUS
<1>3. Append(<<>>, x) = <<x>>
  OBVIOUS
<1> HIDE DEF q, p, S
<1>4. IsLast(S, q, y, a)
  BY <1>1, LastFacts
<1> HIDE DEF a
<1>5. a \in Seq(S) /\ Len(a) = 2 /\ a[1] = x /\ a[2] = y
  BY <1>1, <1>4 DEF IsLast
<1>6. a = p
  BY <1>2, <1>5
<1> QED
  BY <1>3, <1>6 DEF q, p, a

\* The right operand: its block knows the result.
LEMMA RightKnown ==
  ASSUME NEW b, NEW cur, NEW f, NEW h, NEW w, NEW l, NEW d, NEW B, NEW R,
         Doing(b, cur, f, h, w, l, d, B, R), b.succs[b.cur] = <<>>, b.cur = cur,
         NEW new \in BOOLEAN, ~new => b.def[b.cur][Result] # NoValue,
         NEW c, c = (IF new THEN Store(b, {Result}) ELSE b),
         NEW v, v = w \cup {cur}, NEW e, e = d \cup {cur}
  PROVE  Doing(c, cur, f, h, v, l, e, B, R)
<1>1. Doing(b, cur, f, h, v, l, d, B, R)
  BY DoLeaf
<1>2. CASE new
  <2> DEFINE xs == {Result}
  <2>1. c = Store(b, xs) /\ xs \in SUBSET Names /\ cur \in v
    BY <1>2 DEF Names
  <2>2. d \cup Knowing(cur, xs) = e
    BY DEF Knowing
  <2> HIDE DEF xs
  <2>3. Doing(c, cur, f, h, v, l, d \cup Knowing(cur, xs), B, R)
    BY <1>1, <2>1, DoStore
  <2> QED
    BY <2>2, <2>3, Zenon
<1>3. CASE ~new
  BY <1>1, <1>3, DoKnown
<1> QED
  BY <1>2, <1>3

\* && ends.
LEMMA EndAndStands ==
  ASSUME MaxReads \in Nat, NEW b, NEW o, NEW R, Standing(b, o, R), Destruct \in R,
         b.succs[b.cur] = <<>>, NEW B, NEW t, IsOn(o, B, t), t.kind = "and",
         NEW e, e = t.end, NEW f, f = t.other, NEW cur, cur = b.cur,
         NEW new \in BOOLEAN, ~new => b.def[b.cur][Result] # NoValue,
         NEW s, s = (IF new THEN Store(b, {Result}) ELSE b),
         NEW x, x = JumpTo(Store(Goto(JumpTo(s, e), f), {Result}), e),
         NEW c, c = Joined(Goto(SealBlock(x, e), e), e, cur, f), ~c.stuck
  PROVE  Leaves(c, B, R, e, {e})
<1> DEFINE none == {}
           E == {e}
           FE == {f, e}
           All == FE \cup {cur}
           L == {Reached(e, <<>>)}
           M == {Reached(e, <<cur>>)}
           N == {Reached(e, <<cur, f>>)}
           D1 == none \cup {cur}
           D2 == {cur, f}
           xs == {Result}
           x2 == JumpTo(s, e)
           x3 == Goto(x2, f)
           x4 == Store(x3, xs)
<1>1. Begins(b, t, B, R)
  BY BeginTop
<1>2. FreshOf(t) = E /\ HeadOf(t) = none /\ LeafOf(t) \cup FreshOf(t) = FE /\ JoinOf(t) = L /\ DoneOf(t) = none
      /\ Claims(t) = FE
  BY DEF FreshOf, HeadOf, LeafOf, JoinOf, DoneOf, Reached, Claims
<1>3. /\ Doing(b, cur, E, none, FE, L, none, B, R) /\ Shaped(t) /\ FE \cap (ClaimsIn(B) \cup R) = {}
      /\ cur \notin FE
  <2> HIDE DEF none, E, FE, L
  <2> QED
    BY <1>1, <1>2, Zenon DEF Begins
<1>4. f # e /\ cur # e /\ cur # f
  BY <1>3 DEF Shaped
<1>5. /\ e \in E /\ Reached(e, <<>>) \in L /\ Others(none, L, e) /\ FE = All \ {cur} /\ FE \subseteq FE
      /\ Reached(e, <<cur>>) \in M /\ Others(none, M, e) /\ E = FE \ {f}
      /\ f \in none \cup FE \cup D1 /\ f \notin E /\ f \notin ClaimsIn(B) \cup R /\ f \in FE
      /\ xs \in SUBSET Names /\ D1 \cup Knowing(f, xs) = D2 /\ cur \in D2 /\ f \in D2
      /\ none = E \ {e} /\ none = none \ {e}
  BY <1>3, <1>4 DEF Others, Knowing, Names
<1>6. none \cup {Reached(e, Append(<<>>, cur))} = M /\ none \cup {Reached(e, Append(<<cur>>, f))} = N
  BY Appended, Zenon
<1>7. [end |-> e, from |-> <<cur, f>>] \in N
  BY DEF Reached
<1>8. x = JumpTo(x4, e)
  OBVIOUS
<1> HIDE DEF none, E, FE, All, L, M, N, D1, D2, xs, x2, x3, x4
<1>9. Doing(s, cur, E, none, All, L, D1, B, R)
  BY <1>3, RightKnown, Zenon DEF All, D1
<1>10. Doing(x2, cur, E, none, FE, M, D1, B, R)
  <2>0. e \in E /\ Reached(e, <<>>) \in L /\ Others(none, L, e)
    BY <1>5
  <2>1. Doing(x2, cur, E, none, All \ {cur}, none \cup {Reached(e, Append(<<>>, cur))}, D1, B, R)
    BY <1>9, <2>0, DoJoin, Zenon DEF x2
  <2> QED
    BY <1>5, <1>6, <2>1, Zenon
<1>11. Doing(x3, f, E, none, FE, M, D1, B, R)
  BY <1>5, <1>10, ToGoto DEF x3
<1>12. Doing(x4, f, E, none, FE, M, D2, B, R)
  <2>1. Doing(x4, f, E, none, FE, M, D1 \cup Knowing(f, xs), B, R)
    BY <1>5, <1>11, DoStore DEF x4
  <2> QED
    BY <1>5, <2>1, Zenon
<1>13. Doing(x, f, E, none, E, N, D2, B, R)
  <2>1. Doing(x, f, E, none, FE \ {f}, none \cup {Reached(e, Append(<<cur>>, f))}, D2, B, R)
    BY <1>5, <1>8, <1>12, DoJoin
  <2> QED
    BY <1>5, <1>6, <2>1, Zenon
<1>14. Doing(c, e, none, none, E, N, D2, B, R)
  <2>1. Doing(c, e, E \ {e}, none \ {e}, E, N, D2, B, R)
    BY <1>5, <1>7, <1>13, DoMeet
  <2> QED
    BY <1>5, <2>1, Zenon
<1>15. Leaves(c, B, R, e, E)
  BY <1>14, Pop DEF none
<1> QED
  BY <1>15 DEF E

\* || ends.
LEMMA EndOrStands ==
  ASSUME MaxReads \in Nat, NEW b, NEW o, NEW R, Standing(b, o, R), Destruct \in R,
         b.succs[b.cur] = <<>>, NEW B, NEW t, IsOn(o, B, t), t.kind = "or",
         NEW e, e = t.end, NEW f, f = t.other, NEW cur, cur = b.cur,
         NEW new \in BOOLEAN, ~new => b.def[b.cur][Result] # NoValue,
         NEW s, s = (IF new THEN Store(b, {Result}) ELSE b),
         NEW x, x = JumpTo(s, e),
         NEW c, c = Joined(Goto(SealBlock(x, e), e), e, f, cur), ~c.stuck
  PROVE  Leaves(c, B, R, e, {e})
<1> DEFINE none == {}
           E == {e}
           All == E \cup {cur}
           L == {Reached(e, <<f>>)}
           N == {Reached(e, <<f, cur>>)}
           D0 == {f}
           D1 == D0 \cup {cur}
<1>1. Begins(b, t, B, R)
  BY BeginTop
<1>2. FreshOf(t) = E /\ HeadOf(t) = none /\ LeafOf(t) \cup FreshOf(t) = E /\ JoinOf(t) = L /\ DoneOf(t) = D0
  BY DEF FreshOf, HeadOf, LeafOf, JoinOf, DoneOf, Reached
<1>3. Doing(b, cur, E, none, E, L, D0, B, R) /\ cur \notin E
  <2> HIDE DEF none, E, L, D0
  <2> QED
    BY <1>1, <1>2, Zenon DEF Begins
<1>5. /\ e \in E /\ Reached(e, <<f>>) \in L /\ Others(none, L, e) /\ E = All \ {cur}
      /\ cur \in D1 /\ f \in D1 /\ none = E \ {e} /\ none = none \ {e}
  BY <1>3 DEF Others
<1>6. none \cup {Reached(e, Append(<<f>>, cur))} = N
  BY Appended, Zenon
<1>7. [end |-> e, from |-> <<f, cur>>] \in N
  BY DEF Reached
<1> HIDE DEF none, E, All, L, N, D0, D1
<1>9. Doing(s, cur, E, none, All, L, D1, B, R)
  BY <1>3, RightKnown, Zenon DEF All, D1
<1>10. Doing(x, cur, E, none, E, N, D1, B, R)
  <2>1. Doing(x, cur, E, none, All \ {cur}, none \cup {Reached(e, Append(<<f>>, cur))}, D1, B, R)
    BY <1>5, <1>9, DoJoin
  <2> QED
    BY <1>5, <1>6, <2>1, Zenon
<1>14. Doing(c, e, none, none, E, N, D1, B, R)
  <2>1. Doing(c, e, E \ {e}, none \ {e}, E, N, D1, B, R)
    BY <1>5, <1>7, <1>10, DoMeet
  <2> QED
    BY <1>5, <2>1, Zenon
<1>15. Leaves(c, B, R, e, E)
  BY <1>14, Pop DEF none
<1> QED
  BY <1>15 DEF E

-----------------------------------------------------------------------------
\* Parameters, and the element of a range.

LEMMA StoreSealed ==
  ASSUME NEW b, IsRec(b), NEW xs, NEW c, c = Store(b, xs)
  PROVE  c.sealed = b.sealed /\ c.blocks = b.blocks
BY DEF IsRec, Store, Perform

\* A parameter gets its value.
LEMMA ParameterStands ==
  ASSUME NEW b, NEW o, NEW R, Standing(b, o, R), b.succs[b.cur] = <<>>,
         NEW B, NEW t, IsOn(o, B, t), t.kind = "params", NEW xs \in SUBSET Names,
         NEW c, c = Store(b, xs), NEW r, r.kind = "params", r.left \subseteq Var, NEW a, IsOn(a, B, r)
  PROVE  /\ Standing(c, a, R) /\ c.succs[c.cur] = <<>>
         /\ c.sealed = b.sealed /\ Blocks(c) = Blocks(b)
<1>2. IsRec(b)
  BY ReadyFacts DEF Standing
<1>3. c.sealed = b.sealed /\ c.blocks = b.blocks
  BY <1>2, StoreSealed
<1>5. /\ Shaped(r) /\ FreshOf(r) = FreshOf(t) /\ HeadOf(r) = HeadOf(t) /\ LeafOf(r) = LeafOf(t)
      /\ DoneOf(r) = DoneOf(t) /\ JoinOf(r) = JoinOf(t) /\ t.kind \notin Logic
  BY DEF Shaped, FreshOf, HeadOf, LeafOf, DoneOf, JoinOf, Logic
<1>6. Leaves(c, o, R, b.cur, {b.cur})
  BY StoreStands, Zenon
<1>7. Standing(c, o, R) /\ c.succs[c.cur] = <<>>
  BY <1>6 DEF Leaves
<1>8. Standing(c, a, R)
  BY <1>5, <1>7, Reframed
<1> QED
  BY <1>3, <1>7, <1>8 DEF Blocks

\* The element of a range loop, its index in the counter.
LEMMA ElementStands ==
  ASSUME MaxReads \in Nat, NEW b, NEW o, NEW R, Standing(b, o, R), Destruct \in R, b.succs[b.cur] = <<>>,
         NEW B, NEW t, IsOn(o, B, t), t.kind = "element", NEW x, x = t.counter, NEW q, q = t.elements,
         NEW c, c = (IF q = {} THEN b ELSE Store(Load(b, x, {}), q)), ~c.stuck,
         NEW r, r = [kind |-> "range", counter |-> x, keys |-> t.keys,
                     next |-> t.next, header |-> t.header, end |-> t.end],
         NEW a, IsOn(a, B, r)
  PROVE  Standing(c, a, R)
<1>1. Begins(b, t, B, R)
  BY BeginTop
<1>2. x \in Names /\ q \in SUBSET Names /\ Shaped(t)
  BY <1>1 DEF Begins, Shaped
<1>3. /\ r.kind = "range" /\ r.counter = x /\ r.keys = t.keys /\ r.next = t.next /\ r.header = t.header
      /\ r.end = t.end
  OBVIOUS
<1>4. Shaped(r)
  BY <1>2, <1>3 DEF Shaped
<1>5. /\ FreshOf(r) = FreshOf(t) /\ HeadOf(r) = HeadOf(t) /\ LeafOf(r) = LeafOf(t)
      /\ DoneOf(r) = DoneOf(t) /\ JoinOf(r) = JoinOf(t) /\ t.kind \notin Logic
  BY <1>3 DEF FreshOf, HeadOf, LeafOf, DoneOf, JoinOf, Logic
<1>6. Standing(c, o, R)
  <2>1. CASE q = {}
    BY <2>1
  <2>2. CASE q # {}
    <3> DEFINE none == {}
               cur == b.cur
               w == none \cup {cur}
               x1 == Load(b, x, none)
    <3>1. c = Store(x1, q) /\ none = {} /\ none \in SUBSET Names /\ cur \in w
      BY <2>2
    <3>2. Doing(b, cur, none, none, none, none, none, o, R)
      BY BeginNew DEF Opens
    <3> HIDE DEF none, w, x1, cur
    <3>3. Doing(b, cur, none, none, w, none, none, o, R)
      BY <3>2, DoLeaf DEF w
    <3>4. Doing(x1, cur, none, none, w, none, none, o, R)
      BY <1>2, <3>1, <3>3, DoLoad DEF x1
    <3>5. Doing(c, cur, none, none, w, none, none, o, R)
      BY <1>2, <3>1, <3>4, ToStore
    <3> QED
      BY <3>5, Pop DEF none, Leaves
  <2> QED
    BY <2>1, <2>2
<1> QED
  BY <1>4, <1>5, <1>6, Reframed

-----------------------------------------------------------------------------
\* Every action keeps the invariant of the construction.

\* Some statement of the body is being lowered.
Underway == ~built /\ (open # <<>> => Top.kind \notin {"params", "destruct"})

\* No parameters and no end of the function.
Plain(o) == \A i \in DOMAIN o : o[i].kind \notin {"params", "destruct"}

\* No label comes.
LabelsStay == UNCHANGED <<labelled, placed, built>>

\* A stack of one.
LEMMA LengthOne ==
  ASSUME NEW o, List(o), Len(o) = 1
  PROVE  o # <<>> /\ DOMAIN o = {1} /\ Below(o) = <<>>
<1> DEFINE T == Seen(o)
<1>1. o \in Seq(T)
  BY DEF List
<1> HIDE DEF T
<1> QED
  BY <1>1, SMTT(30) DEF Below

\* Then the destruct block is to come, and so are the labels not placed.
LEMMA UnderwayFacts ==
  ASSUME Control, Underway
  PROVE  /\ ~Ending /\ Plain(open) /\ Rest = LabelBlocks \cup {Destruct} /\ Destruct \in Rest
         /\ Standing(fn, open, Rest) /\ List(open) /\ Stacked(open, Rest) /\ ~built
         /\ open # <<>> => IsOn(open, Below(open), Top)
<1>1. List(open) /\ Stacked(open, Rest) /\ Standing(fn, open, Rest) /\ Alone(open)
  BY DEF Control, Standing, Stacked
<1>2. Plain(open)
  <2> SUFFICES ASSUME NEW i \in DOMAIN open, open[i].kind \in {"params", "destruct"} PROVE FALSE
    BY DEF Plain
  <2>1. Len(open) = 1
    BY <1>1 DEF Alone
  <2>2. open # <<>> /\ i = Len(open)
    BY <1>1, <2>1, LengthOne
  <2> QED
    BY <2>2 DEF Underway, Top
<1>3. ~Ending /\ ~built
  BY <1>2 DEF Ending, Plain, Underway
<1>4. open # <<>> => IsOn(open, Below(open), Top)
  BY <1>1, TakeTop DEF Top
<1> QED
  BY <1>1, <1>2, <1>3, <1>4 DEF Rest

\* A step that stands on the new stack keeps the invariant.
LEMMA StepControl ==
  ASSUME Control, Underway, LabelsStay, Plain(open'), Standing(fn', open', Rest), Lively(fn', open')
  PROVE  Control'
<1>1. ~Ending /\ ~built /\ Rest = LabelBlocks \cup {Destruct}
  BY UnderwayFacts
<1>2. ~built' /\ ~Ending'
  BY <1>1 DEF LabelsStay, Plain, Ending
<1>3. LabelBlocks' = LabelBlocks
  BY DEF LabelsStay, LabelBlocks
<1>4. Rest' = Rest
  BY <1>1, <1>2, <1>3 DEF Rest
<1>5. Standing(fn', open', Rest')
  BY <1>4
<1>6. List(open')
  BY <1>5 DEF Standing, Stacked
<1>7. open' # <<>> => Top'.kind # "params"
  <2> SUFFICES ASSUME open' # <<>> PROVE Top'.kind # "params"
    OBVIOUS
  <2>1. IsOn(open', Below(open'), open'[Len(open')])
    BY <1>6, TakeTop
  <2>2. Len(open') \in DOMAIN open'
    BY <2>1 DEF IsOn
  <2> QED
    BY <2>2 DEF Plain, Top
<1>8. Alone(open')
  BY DEF Alone, Plain
<1>9. Destruct \notin LabelBlocks'
  BY <1>3 DEF Control
<1>10. \A k, l \in DOMAIN labelled' \ placed' : labelled'[k] = labelled'[l] => k = l
  BY DEF LabelsStay, Control
<1>11. Lively(fn', open')
  OBVIOUS
<1> QED
  BY <1>2, <1>5, <1>7, <1>8, <1>9, <1>10, <1>11 DEF Control, Lively, Alone

\* A stack that goes on without parameters has none below.
LEMMA PlainOn ==
  ASSUME NEW o, NEW B, NEW t, IsOn(o, B, t)
  PROVE  /\ Plain(o) => Plain(B)
         /\ Plain(B) /\ t.kind \notin {"params", "destruct"} => Plain(o)
         /\ \A b : (t.kind \in Live => b.succs[b.cur] = <<>>) => Lively(b, o)
<1>1. Len(o) \in DOMAIN o /\ o[Len(o)] = t /\ \A i \in DOMAIN B : i \in DOMAIN o /\ o[i] = B[i]
  BY DEF IsOn
<1>2. \A i \in DOMAIN o : i = Len(o) \/ i \in DOMAIN B
  BY DEF IsOn
<1>3. Plain(o) => Plain(B)
  BY <1>1 DEF Plain
<1>4. Plain(B) /\ t.kind \notin {"params", "destruct"} => Plain(o)
  BY <1>1, <1>2 DEF Plain
<1>5. \A b : (t.kind \in Live => b.succs[b.cur] = <<>>) => Lively(b, o)
  BY <1>1 DEF Lively
<1> QED
  BY <1>3, <1>4, <1>5

\* A statement begins, another takes its place, it ends.
LEMMA EnterControl ==
  ASSUME Control, Underway, LabelsStay, NEW t, open' = Append(open, t),
         t.kind \notin {"params", "destruct"},
         Standing(fn', open', Rest), t.kind \in Live => fn'.succs[fn'.cur] = <<>>
  PROVE  Control'
<1>1. Plain(open) /\ List(open)
  BY UnderwayFacts
<1>2. IsOn(open', open, t)
  BY <1>1, Pushed
<1>3. Plain(open') /\ Lively(fn', open')
  BY <1>1, <1>2, PlainOn
<1> QED
  BY <1>3, StepControl

\* A statement becomes another,
LEMMA BecomeControl ==
  ASSUME Control, Underway, LabelsStay, open # <<>>, NEW t, open' = [open EXCEPT ![Len(open)] = t],
         t.kind \notin {"params", "destruct"},
         Standing(fn', open', Rest), t.kind \in Live => fn'.succs[fn'.cur] = <<>>
  PROVE  Control'
<1>1. Plain(open) /\ List(open) /\ IsOn(open, Below(open), Top)
  BY UnderwayFacts
<1>2. IsOn(open', Below(open), t)
  BY <1>1, Replaced, Zenon
<1>3. Plain(Below(open))
  BY <1>1, PlainOn
<1>4. Plain(open') /\ Lively(fn', open')
  BY <1>2, <1>3, PlainOn
<1> QED
  BY <1>4, StepControl

\* is left,
LEMMA LeaveControl ==
  ASSUME Control, Underway, LabelsStay, open # <<>>, open' = Below(open),
         Standing(fn', open', Rest), fn'.succs[fn'.cur] = <<>>
  PROVE  Control'
<1>1. Plain(open) /\ IsOn(open, Below(open), Top)
  BY UnderwayFacts
<1>2. Plain(open')
  BY <1>1, PlainOn
<1>3. Lively(fn', open')
  BY DEF Lively
<1> QED
  BY <1>2, <1>3, StepControl

\* or stays.
LEMMA SameControl ==
  ASSUME Control, Underway, LabelsStay, open' = open, Standing(fn', open, Rest), Lively(fn', open)
  PROVE  Control'
<1>1. Plain(open')
  BY UnderwayFacts
<1>2. Standing(fn', open', Rest) /\ Lively(fn', open')
  OBVIOUS
<1> QED
  BY <1>1, <1>2, StepControl

\* Where a statement may come.
LEMMA ComesFacts ==
  ASSUME Control, InBody
  PROVE  /\ Underway /\ Body(open) /\ Standing(fn, open, Rest) /\ Destruct \in Rest /\ List(open)
         /\ JoinIn(open) = {}
         /\ \A b : Lively(b, open)
<1>1. Underway
  BY DEF InBody, Underway
<1>2. /\ Standing(fn, open, Rest) /\ Destruct \in Rest /\ List(open) /\ Stacked(open, Rest)
      /\ open # <<>> => IsOn(open, Below(open), Top)
  BY <1>1, UnderwayFacts
<1>3. Body(open)
  <2>1. CASE open = <<>>
    BY <2>1 DEF Body
  <2>2. CASE open # <<>>
    <3>1. Top.kind \notin Logic /\ IsOn(open, Below(open), Top)
      BY <1>2, <2>2 DEF InBody, Logic
    <3>2. \A i \in DOMAIN Below(open) : Below(open)[i].kind \notin Logic
      BY <1>2, <3>1, StackedBelow
    <3>3. /\ \A i \in DOMAIN Below(open) : open[i] = Below(open)[i]
          /\ \A i \in DOMAIN open : i = Len(open) \/ i \in DOMAIN Below(open)
      BY <3>1 DEF IsOn
    <3> QED
      BY <3>1, <3>2, <3>3 DEF Body, Top
  <2> QED
    BY <2>1, <2>2
<1>4. JoinIn(open) = {}
  BY <1>3, JoinsFresh DEF Body
<1>5. \A b : Lively(b, open)
  BY DEF Lively, InBody, Live, Top
<1> QED
  BY <1>1, <1>2, <1>3, <1>4, <1>5

-----------------------------------------------------------------------------
\* if and the loops.

\* An if without and with an alternative.
LEMMA IfControl ==
  ASSUME MaxReads \in Nat, Control, If, ~fn'.stuck
  PROVE  Control'
<1> DEFINE t == fn.blocks + 1
           e == fn.blocks + 2
           r == [kind |-> "if", end |-> e]
<1>1. InBody /\ LabelsStay /\ open' = Append(open, r)
  BY DEF If, LabelsStay, UnchangedLabels, ComesWorth, Comes, Enter
<1>2. fn' = Goto(SealBlock(JumpTo(JumpTo(NewBlocks(fn, 2), t), e), t), t)
  BY DEF If
<1>3. /\ t = fn.blocks + 1
      /\ e = fn.blocks + 2
      /\ r = [kind |-> "if", end |-> e]
  OBVIOUS
<1>4. r.kind = "if" /\ r.kind \notin {"params", "destruct"}
  OBVIOUS
<1> HIDE DEF t, e, r
<1>5. /\ Underway /\ Body(open) /\ Standing(fn, open, Rest) /\ Destruct \in Rest /\ List(open)
  BY <1>1, ComesFacts
<1>6. IsOn(open', open, r)
  BY <1>1, <1>5, Pushed
<1>7. Standing(fn', open', Rest)
  BY <1>2, <1>3, <1>5, <1>6, IfStands
<1> QED
  BY <1>1, <1>4, <1>5, <1>7, EnterControl DEF Live

\* The same with an alternative.
LEMMA IfElseControl ==
  ASSUME MaxReads \in Nat, Control, IfElse, ~fn'.stuck
  PROVE  Control'
<1> DEFINE t == fn.blocks + 1
           e == fn.blocks + 2
           f == fn.blocks + 3
           r == [kind |-> "then", other |-> f, end |-> e]
<1>1. InBody /\ LabelsStay /\ open' = Append(open, r)
  BY DEF IfElse, LabelsStay, UnchangedLabels, ComesWorth, Comes, Enter
<1>2. fn' = Goto(SealBlock(SealBlock(JumpTo(JumpTo(NewBlocks(fn, 3), t), f), t), f), t)
  BY DEF IfElse
<1>3. /\ t = fn.blocks + 1
      /\ e = fn.blocks + 2
      /\ f = fn.blocks + 3
      /\ r = [kind |-> "then", other |-> f, end |-> e]
  OBVIOUS
<1>4. r.kind = "then" /\ r.kind \notin {"params", "destruct"}
  OBVIOUS
<1> HIDE DEF t, e, f, r
<1>5. /\ Underway /\ Body(open) /\ Standing(fn, open, Rest) /\ Destruct \in Rest /\ List(open)
  BY <1>1, ComesFacts
<1>6. IsOn(open', open, r)
  BY <1>1, <1>5, Pushed
<1>7. Standing(fn', open', Rest)
  BY <1>2, <1>3, <1>5, <1>6, IfElseStands
<1> QED
  BY <1>1, <1>4, <1>5, <1>7, EnterControl DEF Live

\* The alternative begins.
LEMMA ElseControl ==
  ASSUME MaxReads \in Nat, Control, Else, ~fn'.stuck
  PROVE  Control'
<1> DEFINE e == Top.end
           f == Top.other
           r == [kind |-> "if", end |-> e]
<1>1. Underway /\ LabelsStay /\ open # <<>> /\ open' = [open EXCEPT ![Len(open)] = r] /\ Top.kind = "then"
  BY DEF Else, LabelsStay, UnchangedLabels, In, InPost, Underway, Become
<1>2. fn' = Goto(FallInto(fn, e), f)
  BY DEF Else
<1>3. /\ e = Top.end
      /\ f = Top.other
      /\ r = [kind |-> "if", end |-> e]
  OBVIOUS
<1>4. r.kind = "if" /\ r.kind \notin {"params", "destruct"}
  OBVIOUS
<1> HIDE DEF e, f, r
<1>5. Standing(fn, open, Rest) /\ Destruct \in Rest /\ List(open) /\ IsOn(open, Below(open), Top)
  BY <1>1, UnderwayFacts
<1>6. IsOn(open', Below(open), r)
  BY <1>1, <1>5, Replaced, Zenon
<1>7. Standing(fn', open', Rest)
  BY <1>1, <1>2, <1>3, <1>5, <1>6, ElseStands
<1> QED
  BY <1>1, <1>4, <1>7, BecomeControl, Zenon DEF Live

\* An if or a switch ends.
LEMMA BranchesControl ==
  ASSUME MaxReads \in Nat, Control, EndBranches, ~fn'.stuck
  PROVE  Control'
<1> DEFINE e == Top.end
<1>1. Underway /\ LabelsStay /\ open # <<>> /\ open' = Below(open) /\ (Top.kind = "if" \/ (Top.kind = "switch" /\ Top.rest = <<>>))
  BY DEF EndBranches, LabelsStay, UnchangedLabels, In, InPost, Underway, Leave, Below
<1>2. fn' = Goto(SealBlock(FallInto(fn, e), e), e)
  BY DEF EndBranches
<1>3. e = Top.end
  OBVIOUS
<1> HIDE DEF e
<1>5. Standing(fn, open, Rest) /\ Destruct \in Rest /\ List(open) /\ IsOn(open, Below(open), Top)
  BY <1>1, UnderwayFacts
<1>6. Standing(fn', Below(open), Rest) /\ fn'.succs[fn'.cur] = <<>>
  BY <1>1, <1>2, <1>3, <1>5, BranchesEnd
<1>7. Standing(fn', open', Rest) /\ fn'.succs[fn'.cur] = <<>>
  BY <1>1, <1>6
<1> QED
  BY <1>1, <1>7, LeaveControl

\* A loop begins.
LEMMA ForThreeConditionBegins ==
  ASSUME MaxReads \in Nat, Control, For(TRUE, TRUE), ~fn'.stuck
  PROVE  Control'
<1> DEFINE h == fn.blocks + 1
           d == fn.blocks + 2
           p == fn.blocks + 3
           e == fn.blocks + 4
           r == [kind |-> "condition", body |-> d, next |-> p, header |-> h, end |-> e]
<1>1. InBody /\ LabelsStay /\ open' = Append(open, r)
  BY DEF For, LabelsStay, UnchangedLabels, ComesWorth, Comes, Enter
<1>2. fn' = Goto(JumpTo(NewBlocks(fn, 4), h), h)
  BY DEF For
<1>3. /\ h = fn.blocks + 1
      /\ d = fn.blocks + 2
      /\ p = fn.blocks + 3
      /\ e = fn.blocks + 4
      /\ r = [kind |-> "condition", body |-> d, next |-> p, header |-> h, end |-> e]
  OBVIOUS
<1>4. r.kind = "condition" /\ r.kind \notin {"params", "destruct"}
  OBVIOUS
<1> HIDE DEF h, d, p, e, r
<1>5. /\ Underway /\ Body(open) /\ Standing(fn, open, Rest) /\ Destruct \in Rest /\ List(open)
  BY <1>1, ComesFacts
<1>6. IsOn(open', open, r)
  BY <1>1, <1>5, Pushed
<1>7. Standing(fn', open', Rest)
  BY <1>2, <1>3, <1>5, <1>6, ForThreeCondition
<1> QED
  BY <1>1, <1>4, <1>5, <1>7, EnterControl DEF Live

\* A loop begins.
LEMMA ForThreeEverBegins ==
  ASSUME MaxReads \in Nat, Control, For(TRUE, FALSE), ~fn'.stuck
  PROVE  Control'
<1> DEFINE h == fn.blocks + 1
           d == fn.blocks + 2
           p == fn.blocks + 3
           e == fn.blocks + 4
           r == [kind |-> "forever", body |-> d, next |-> p, header |-> h, end |-> e]
<1>1. InBody /\ LabelsStay /\ open' = Append(open, r)
  BY DEF For, LabelsStay, UnchangedLabels, ComesWorth, Comes, Enter
<1>2. fn' = Goto(JumpTo(NewBlocks(fn, 4), h), h)
  BY DEF For
<1>3. /\ h = fn.blocks + 1
      /\ d = fn.blocks + 2
      /\ p = fn.blocks + 3
      /\ e = fn.blocks + 4
      /\ r = [kind |-> "forever", body |-> d, next |-> p, header |-> h, end |-> e]
  OBVIOUS
<1>4. r.kind = "forever" /\ r.kind \notin {"params", "destruct"}
  OBVIOUS
<1> HIDE DEF h, d, p, e, r
<1>5. /\ Underway /\ Body(open) /\ Standing(fn, open, Rest) /\ Destruct \in Rest /\ List(open)
  BY <1>1, ComesFacts
<1>6. IsOn(open', open, r)
  BY <1>1, <1>5, Pushed
<1>7. Standing(fn', open', Rest)
  BY <1>2, <1>3, <1>5, <1>6, ForThreeEver
<1> QED
  BY <1>1, <1>4, <1>5, <1>7, EnterControl DEF Live

\* A loop begins.
LEMMA ForConditionBegins ==
  ASSUME MaxReads \in Nat, Control, For(FALSE, TRUE), ~fn'.stuck
  PROVE  Control'
<1> DEFINE h == fn.blocks + 1
           d == fn.blocks + 2
           e == fn.blocks + 3
           r == [kind |-> "condition", body |-> d, next |-> h, header |-> h, end |-> e]
<1>1. InBody /\ LabelsStay /\ open' = Append(open, r)
  BY DEF For, LabelsStay, UnchangedLabels, ComesWorth, Comes, Enter
<1>2. fn' = Goto(JumpTo(NewBlocks(fn, 3), h), h)
  BY DEF For
<1>3. /\ h = fn.blocks + 1
      /\ d = fn.blocks + 2
      /\ e = fn.blocks + 3
      /\ r = [kind |-> "condition", body |-> d, next |-> h, header |-> h, end |-> e]
  OBVIOUS
<1>4. r.kind = "condition" /\ r.kind \notin {"params", "destruct"}
  OBVIOUS
<1> HIDE DEF h, d, e, r
<1>5. /\ Underway /\ Body(open) /\ Standing(fn, open, Rest) /\ Destruct \in Rest /\ List(open)
  BY <1>1, ComesFacts
<1>6. IsOn(open', open, r)
  BY <1>1, <1>5, Pushed
<1>7. Standing(fn', open', Rest)
  BY <1>2, <1>3, <1>5, <1>6, ForCondition
<1> QED
  BY <1>1, <1>4, <1>5, <1>7, EnterControl DEF Live

\* A loop begins.
LEMMA ForEverBegins ==
  ASSUME MaxReads \in Nat, Control, For(FALSE, FALSE), ~fn'.stuck
  PROVE  Control'
<1> DEFINE h == fn.blocks + 1
           d == fn.blocks + 2
           e == fn.blocks + 3
           r == [kind |-> "forever", body |-> d, next |-> h, header |-> h, end |-> e]
<1>1. InBody /\ LabelsStay /\ open' = Append(open, r)
  BY DEF For, LabelsStay, UnchangedLabels, ComesWorth, Comes, Enter
<1>2. fn' = Goto(JumpTo(NewBlocks(fn, 3), h), h)
  BY DEF For
<1>3. /\ h = fn.blocks + 1
      /\ d = fn.blocks + 2
      /\ e = fn.blocks + 3
      /\ r = [kind |-> "forever", body |-> d, next |-> h, header |-> h, end |-> e]
  OBVIOUS
<1>4. r.kind = "forever" /\ r.kind \notin {"params", "destruct"}
  OBVIOUS
<1> HIDE DEF h, d, e, r
<1>5. /\ Underway /\ Body(open) /\ Standing(fn, open, Rest) /\ Destruct \in Rest /\ List(open)
  BY <1>1, ComesFacts
<1>6. IsOn(open', open, r)
  BY <1>1, <1>5, Pushed
<1>7. Standing(fn', open', Rest)
  BY <1>2, <1>3, <1>5, <1>6, ForEver
<1> QED
  BY <1>1, <1>4, <1>5, <1>7, EnterControl DEF Live

\* The body of a loop begins.
LEMMA ForBodyBranches ==
  ASSUME MaxReads \in Nat, Control, ForBody, ~fn'.stuck, Top.kind = "condition"
  PROVE  Control'
<1> DEFINE d == Top.body
           n == Top.next
           h == Top.header
           e == Top.end
           r == [kind |-> "for", next |-> n, header |-> h, end |-> e]
<1>1. Underway /\ LabelsStay /\ open # <<>> /\ open' = [open EXCEPT ![Len(open)] = r] /\ Top.kind = "condition"
  BY DEF ForBody, LabelsStay, UnchangedLabels, In, InPost, Underway, Become
<1>2. fn' = Goto(SealBlock(JumpTo(JumpTo(fn, d), e), d), d)
  BY DEF ForBody
<1>3. /\ d = Top.body
      /\ n = Top.next
      /\ h = Top.header
      /\ e = Top.end
      /\ r = [kind |-> "for", next |-> n, header |-> h, end |-> e]
  OBVIOUS
<1>4. r.kind = "for" /\ r.kind \notin {"params", "destruct"}
  OBVIOUS
<1> HIDE DEF d, n, h, e, r
<1>5. Standing(fn, open, Rest) /\ Destruct \in Rest /\ List(open) /\ IsOn(open, Below(open), Top)
  BY <1>1, UnderwayFacts
<1>6. IsOn(open', Below(open), r)
  BY <1>1, <1>5, Replaced, Zenon
<1>7. Standing(fn', open', Rest)
  BY <1>1, <1>2, <1>3, <1>5, <1>6, ForBodyCondition
<1> QED
  BY <1>1, <1>4, <1>7, BecomeControl, Zenon DEF Live

\* The body of a loop begins.
LEMMA ForBodyGoes ==
  ASSUME MaxReads \in Nat, Control, ForBody, ~fn'.stuck, Top.kind = "forever"
  PROVE  Control'
<1> DEFINE d == Top.body
           n == Top.next
           h == Top.header
           e == Top.end
           r == [kind |-> "for", next |-> n, header |-> h, end |-> e]
<1>1. Underway /\ LabelsStay /\ open # <<>> /\ open' = [open EXCEPT ![Len(open)] = r] /\ Top.kind = "forever"
  BY DEF ForBody, LabelsStay, UnchangedLabels, In, InPost, Underway, Become
<1>2. fn' = Goto(SealBlock(JumpTo(fn, d), d), d)
  BY DEF ForBody
<1>3. /\ d = Top.body
      /\ n = Top.next
      /\ h = Top.header
      /\ e = Top.end
      /\ r = [kind |-> "for", next |-> n, header |-> h, end |-> e]
  OBVIOUS
<1>4. r.kind = "for" /\ r.kind \notin {"params", "destruct"}
  OBVIOUS
<1> HIDE DEF d, n, h, e, r
<1>5. Standing(fn, open, Rest) /\ Destruct \in Rest /\ List(open) /\ IsOn(open, Below(open), Top)
  BY <1>1, UnderwayFacts
<1>6. IsOn(open', Below(open), r)
  BY <1>1, <1>5, Replaced, Zenon
<1>7. Standing(fn', open', Rest)
  BY <1>1, <1>2, <1>3, <1>5, <1>6, ForBodyEver
<1> QED
  BY <1>1, <1>4, <1>7, BecomeControl, Zenon DEF Live

\* A loop ends.
LEMMA EndForControl ==
  ASSUME MaxReads \in Nat, Control, EndFor, ~fn'.stuck
  PROVE  Control'
<1> DEFINE h == Top.header
           e == Top.end
<1>1. Underway /\ LabelsStay /\ open # <<>> /\ open' = Below(open) /\ Top.kind = "for" /\ h = Top.next
  BY DEF EndFor, LoopEnd, LabelsStay, UnchangedLabels, In, InPost, Underway, Leave, Below
<1>2. fn' = Goto(SealBlock(SealBlock(FallInto(fn, h), h), e), e)
  BY DEF EndFor, LoopEnd
<1>3. /\ h = Top.header
      /\ e = Top.end
  OBVIOUS
<1> HIDE DEF h, e
<1>5. Standing(fn, open, Rest) /\ Destruct \in Rest /\ List(open) /\ IsOn(open, Below(open), Top)
  BY <1>1, UnderwayFacts
<1>8. Top.header = Top.next /\ Top.kind = "for"
  BY <1>1, <1>3
<1>6. Standing(fn', Below(open), Rest) /\ fn'.succs[fn'.cur] = <<>>
  BY <1>2, <1>3, <1>5, <1>8, ForEnds
<1>7. Standing(fn', open', Rest) /\ fn'.succs[fn'.cur] = <<>>
  BY <1>1, <1>6
<1> QED
  BY <1>1, <1>7, LeaveControl

\* The increment begins.
LEMMA BeginPostControl ==
  ASSUME MaxReads \in Nat, Control, BeginPost, ~fn'.stuck
  PROVE  Control'
<1> DEFINE n == Top.next
           h == Top.header
           e == Top.end
           r == [kind |-> "post", header |-> h, end |-> e]
<1>1. Underway /\ LabelsStay /\ open # <<>> /\ open' = [open EXCEPT ![Len(open)] = r] /\ Top.kind = "for" /\ n # h
  BY DEF BeginPost, LabelsStay, UnchangedLabels, In, InPost, Underway, Become
<1>2. fn' = Goto(SealBlock(FallInto(fn, n), n), n)
  BY DEF BeginPost
<1>3. /\ n = Top.next
      /\ h = Top.header
      /\ e = Top.end
      /\ r = [kind |-> "post", header |-> h, end |-> e]
  OBVIOUS
<1>4. r.kind = "post" /\ r.kind \notin {"params", "destruct"}
  OBVIOUS
<1> HIDE DEF n, h, e, r
<1>5. Standing(fn, open, Rest) /\ Destruct \in Rest /\ List(open) /\ IsOn(open, Below(open), Top)
  BY <1>1, UnderwayFacts
<1>6. IsOn(open', Below(open), r)
  BY <1>1, <1>5, Replaced, Zenon
<1>7. Standing(fn', open', Rest) /\ fn'.succs[fn'.cur] = <<>>
  BY <1>1, <1>2, <1>3, <1>5, <1>6, BeginPostStands
<1> QED
  BY <1>1, <1>4, <1>7, BecomeControl, Zenon DEF Live

\* The increment ends.
LEMMA EndPostControl ==
  ASSUME MaxReads \in Nat, Control, EndPost, ~fn'.stuck
  PROVE  Control'
<1> DEFINE h == Top.header
           e == Top.end
<1>1. Underway /\ LabelsStay /\ open # <<>> /\ open' = Below(open) /\ Top.kind = "post"
  BY DEF EndPost, LoopEnd, LabelsStay, UnchangedLabels, In, InPost, Underway, Leave, Below
<1>2. fn' = Goto(SealBlock(SealBlock(JumpTo(fn, h), h), e), e)
  BY DEF EndPost, LoopEnd
<1>3. /\ h = Top.header
      /\ e = Top.end
  OBVIOUS
<1> HIDE DEF h, e
<1>5. Standing(fn, open, Rest) /\ Destruct \in Rest /\ List(open) /\ IsOn(open, Below(open), Top)
  BY <1>1, UnderwayFacts
<1>6. Standing(fn', Below(open), Rest) /\ fn'.succs[fn'.cur] = <<>>
  BY <1>1, <1>2, <1>3, <1>5, PostEnds
<1>7. Standing(fn', open', Rest) /\ fn'.succs[fn'.cur] = <<>>
  BY <1>1, <1>6
<1> QED
  BY <1>1, <1>7, LeaveControl

-----------------------------------------------------------------------------
\* switch and range.

\* The next clause begins.
LEMMA NextControl ==
  ASSUME MaxReads \in Nat, Control, NextClause, ~fn'.stuck
  PROVE  Control'
<1> DEFINE q == Top.rest
           u == Head(q)
           e == Top.end
           r == [kind |-> "switch", rest |-> Tail(q), end |-> e]
<1>1. Underway /\ LabelsStay /\ open # <<>> /\ open' = [open EXCEPT ![Len(open)] = r] /\ Top.kind = "switch" /\ q # <<>>
  BY DEF NextClause, LabelsStay, UnchangedLabels, In, InPost, Underway, Become
<1>2. fn' = Goto(FallInto(fn, e), u)
  BY DEF NextClause
<1>3. /\ q = Top.rest
      /\ u = Head(q)
      /\ e = Top.end
      /\ r = [kind |-> "switch", rest |-> Tail(q), end |-> e]
  OBVIOUS
<1>4. r.kind = "switch" /\ r.kind \notin {"params", "destruct"}
  OBVIOUS
<1> HIDE DEF q, u, e, r
<1>5. Standing(fn, open, Rest) /\ Destruct \in Rest /\ List(open) /\ IsOn(open, Below(open), Top)
  BY <1>1, UnderwayFacts
<1>6. IsOn(open', Below(open), r)
  BY <1>1, <1>5, Replaced, Zenon
<1>7. Standing(fn', open', Rest)
  BY <1>1, <1>2, <1>3, <1>5, <1>6, NextClauseStands, Zenon
<1> QED
  BY <1>1, <1>4, <1>7, BecomeControl, Zenon DEF Live

\* XX
LEMMA SealClauseControl ==
  ASSUME MaxReads \in Nat, Control, SealClause, ~fn'.stuck
  PROVE  Control'
<1> DEFINE q == Top.rest
           u == Head(q)
           r == [Top EXCEPT !.rest = Tail(q)]
<1>1. Underway /\ LabelsStay /\ open # <<>> /\ open' = [open EXCEPT ![Len(open)] = r] /\ Top.kind = "clauses" /\ q # <<>>
  BY DEF SealClause, LabelsStay, UnchangedLabels, In, InPost, Underway, Become
<1>2. fn' = SealBlock(fn, u)
  BY DEF SealClause
<1>3. /\ q = Top.rest
      /\ u = Head(q)
      /\ r = [Top EXCEPT !.rest = Tail(q)]
  OBVIOUS
<1>4. r.kind = "clauses" /\ r.kind \notin {"params", "destruct"}
  <2>1. Stacked(open, Rest) /\ IsOn(open, Below(open), Top)
    BY <1>1, UnderwayFacts
  <2>2. Shaped(Top)
    BY <2>1, StackedBelow
  <2> QED
    BY <1>1, <2>2 DEF Shaped
<1> HIDE DEF q, u, r
<1>5. Standing(fn, open, Rest) /\ Destruct \in Rest /\ List(open) /\ IsOn(open, Below(open), Top)
  BY <1>1, UnderwayFacts
<1>6. IsOn(open', Below(open), r)
  BY <1>1, <1>5, Replaced, Zenon
<1>7. Standing(fn', open', Rest)
  BY <1>1, <1>2, <1>3, <1>5, <1>6, SealClauseStands, Zenon
<1> QED
  BY <1>1, <1>4, <1>7, BecomeControl, Zenon DEF Live

\* The first clause begins.
LEMMA FirstClauseControl ==
  ASSUME MaxReads \in Nat, Control, FirstClause, ~fn'.stuck
  PROVE  Control'
<1> DEFINE q == Top.all
           r == [kind |-> "switch", rest |-> IF q = <<>> THEN <<>> ELSE Tail(q), end |-> Top.end]
<1>1. Underway /\ LabelsStay /\ open # <<>> /\ open' = [open EXCEPT ![Len(open)] = r] /\ Top.kind = "clauses" /\ Top.rest = <<>>
  BY DEF FirstClause, LabelsStay, UnchangedLabels, In, InPost, Underway, Become
<1>2. fn' = IF q = <<>> THEN fn ELSE Goto(fn, Head(q))
  BY DEF FirstClause
<1>3. /\ q = Top.all
      /\ r = [kind |-> "switch", rest |-> IF q = <<>> THEN <<>> ELSE Tail(q), end |-> Top.end]
  OBVIOUS
<1>4. r.kind = "switch" /\ r.kind \notin {"params", "destruct"}
  OBVIOUS
<1> HIDE DEF q, r
<1>5. Standing(fn, open, Rest) /\ Destruct \in Rest /\ List(open) /\ IsOn(open, Below(open), Top)
  BY <1>1, UnderwayFacts
<1>6. IsOn(open', Below(open), r)
  BY <1>1, <1>5, Replaced, Zenon
<1>7. Standing(fn', open', Rest)
  BY <1>1, <1>2, <1>3, <1>5, <1>6, FirstClauseStands, Zenon
<1> QED
  BY <1>1, <1>4, <1>7, BecomeControl, Zenon DEF Live

\* The last test.
LEMMA LastTestControl ==
  ASSUME MaxReads \in Nat, Control, LastTest, ~fn'.stuck
  PROVE  Control'
<1> DEFINE d == Top.bodies[Top.at]
           v == Top.otherwise
           r == [kind |-> "clauses", all |-> Top.all, rest |-> Top.all, end |-> Top.end]
<1>1. Underway /\ LabelsStay /\ open # <<>> /\ open' = [open EXCEPT ![Len(open)] = r] /\ Top.kind = "tests"
  BY DEF LastTest, LabelsStay, UnchangedLabels, In, InPost, Underway, Become
<1>2. fn' = JumpTo(JumpTo(fn, d), v)
  BY DEF LastTest
<1>3. /\ d = Top.bodies[Top.at]
      /\ v = Top.otherwise
      /\ r = [kind |-> "clauses", all |-> Top.all, rest |-> Top.all, end |-> Top.end]
  OBVIOUS
<1>4. r.kind = "clauses" /\ r.kind \notin {"params", "destruct"}
  OBVIOUS
<1> HIDE DEF d, v, r
<1>5. Standing(fn, open, Rest) /\ Destruct \in Rest /\ List(open) /\ IsOn(open, Below(open), Top)
  BY <1>1, UnderwayFacts
<1>6. IsOn(open', Below(open), r)
  BY <1>1, <1>5, Replaced, Zenon
<1>7. Standing(fn', open', Rest)
  BY <1>1, <1>2, <1>3, <1>5, <1>6, LastTestStands
<1> QED
  BY <1>1, <1>4, <1>7, BecomeControl, Zenon DEF Live

\* A test.
LEMMA TestControl ==
  ASSUME MaxReads \in Nat, Control, NEW more \in BOOLEAN, Test(more), ~fn'.stuck
  PROVE  Control'
<1> DEFINE n == fn.blocks + 1
           d == Top.bodies[Top.at]
           k == IF more THEN Top.at ELSE Top.at + 1
           r == [Top EXCEPT !.at = k]
<1>1. Underway /\ LabelsStay /\ open # <<>> /\ open' = [open EXCEPT ![Len(open)] = r] /\ Top.kind = "tests" /\ (~more => k \in DOMAIN Top.bodies)
  BY DEF Test, LabelsStay, UnchangedLabels, In, InPost, Underway, Become
<1>2. fn' = Goto(SealBlock(JumpTo(JumpTo(NewBlocks(fn, 1), d), n), n), n)
  BY DEF Test
<1>3. /\ n = fn.blocks + 1
      /\ d = Top.bodies[Top.at]
      /\ k = IF more THEN Top.at ELSE Top.at + 1
      /\ r = [Top EXCEPT !.at = k]
  OBVIOUS
<1>4. r.kind = "tests" /\ r.kind \notin {"params", "destruct"}
  <2>1. Stacked(open, Rest) /\ IsOn(open, Below(open), Top)
    BY <1>1, UnderwayFacts
  <2>2. Shaped(Top)
    BY <2>1, StackedBelow
  <2> QED
    BY <1>1, <2>2 DEF Shaped
<1> HIDE DEF n, d, k, r
<1>5. Standing(fn, open, Rest) /\ Destruct \in Rest /\ List(open) /\ IsOn(open, Below(open), Top)
  BY <1>1, UnderwayFacts
<1>8. k \in DOMAIN Top.bodies
  <2>1. Stacked(open, Rest)
    BY <1>1, UnderwayFacts
  <2>2. Shaped(Top)
    BY <1>5, <2>1, StackedBelow
  <2> QED
    BY <1>1, <1>3, <2>2 DEF Shaped
<1>6. IsOn(open', Below(open), r)
  BY <1>1, <1>5, Replaced, Zenon
<1>7. Standing(fn', open', Rest)
  BY <1>1, <1>2, <1>3, <1>5, <1>6, <1>8, TestStands
<1> QED
  BY <1>1, <1>4, <1>7, BecomeControl, Zenon DEF Live

\* The element.
LEMMA ElementControl ==
  ASSUME MaxReads \in Nat, Control, Element, ~fn'.stuck
  PROVE  Control'
<1> DEFINE x == Top.counter
           q == Top.elements
           r == [kind |-> "range", counter |-> x, keys |-> Top.keys, next |-> Top.next, header |-> Top.header, end |-> Top.end]
<1>1. Underway /\ LabelsStay /\ open # <<>> /\ open' = [open EXCEPT ![Len(open)] = r] /\ Top.kind = "element"
  BY DEF Element, Use, LabelsStay, UnchangedLabels, In, InPost, Underway, Become
<1>2. fn' = IF q = {} THEN fn ELSE Store(Load(fn, x, {}), q)
  BY DEF Element, Use
<1>3. /\ x = Top.counter
      /\ q = Top.elements
      /\ r = [kind |-> "range", counter |-> x, keys |-> Top.keys, next |-> Top.next, header |-> Top.header, end |-> Top.end]
  OBVIOUS
<1>4. r.kind = "range" /\ r.kind \notin {"params", "destruct"}
  OBVIOUS
<1> HIDE DEF x, q, r
<1>5. Standing(fn, open, Rest) /\ Destruct \in Rest /\ List(open) /\ IsOn(open, Below(open), Top)
  BY <1>1, UnderwayFacts
<1>8. fn.succs[fn.cur] = <<>>
  <2>1. Lively(fn, open)
    BY DEF Control
  <2> QED
    BY <1>1, <2>1 DEF Lively, Live, Top
<1>6. IsOn(open', Below(open), r)
  BY <1>1, <1>5, Replaced, Zenon
<1>7. Standing(fn', open', Rest)
  BY <1>1, <1>2, <1>3, <1>5, <1>6, <1>8, ElementStands, Zenon
<1> QED
  BY <1>1, <1>4, <1>7, BecomeControl, Zenon DEF Live

\* The loop ends.
LEMMA EndRangeControl ==
  ASSUME MaxReads \in Nat, Control, EndRange, ~fn'.stuck
  PROVE  Control'
<1> DEFINE p == Top.next
           h == Top.header
           e == Top.end
           x == Top.counter
           xs == Top.keys \cup {x}
<1>1. Underway /\ LabelsStay /\ open # <<>> /\ open' = Below(open) /\ Top.kind = "range"
  BY DEF EndRange, LoopEnd, Use, LabelsStay, UnchangedLabels, In, InPost, Underway, Leave, Below
<1>2. fn' = Goto(SealBlock(SealBlock(JumpTo(Store(Load(Goto(SealBlock(FallInto(fn, p), p), p), x, {}), xs), h), h), e), e)
  BY DEF EndRange, LoopEnd, Use
<1>3. /\ p = Top.next
      /\ h = Top.header
      /\ e = Top.end
      /\ x = Top.counter
      /\ xs = Top.keys \cup {x}
  OBVIOUS
<1> HIDE DEF p, h, e, x, xs
<1>5. Standing(fn, open, Rest) /\ Destruct \in Rest /\ List(open) /\ IsOn(open, Below(open), Top)
  BY <1>1, UnderwayFacts
<1>8. x \in Names /\ xs \in SUBSET Names
  <2>1. Stacked(open, Rest)
    BY <1>1, UnderwayFacts
  <2>2. Shaped(Top)
    BY <1>5, <2>1, StackedBelow
  <2> QED
    BY <1>1, <1>3, <2>2 DEF Shaped
<1>6. Standing(fn', Below(open), Rest) /\ fn'.succs[fn'.cur] = <<>>
  <2>0. fn' = RangeDone(fn, p, x, xs, h, e)
    BY <1>2 DEF RangeDone
  <2>1. Top.kind = "range"
    BY <1>1
  <2>2. Named(x, xs)
    BY <1>8 DEF Named
  <2>4. p = Top.next /\ h = Top.header /\ e = Top.end
    BY <1>3
  <2> QED
    BY <1>5, <2>0, <2>1, <2>2, <2>4, RangeEnds
<1>7. Standing(fn', open', Rest) /\ fn'.succs[fn'.cur] = <<>>
  BY <1>1, <1>6
<1> QED
  BY <1>1, <1>7, LeaveControl

-----------------------------------------------------------------------------
\* Parameters, assignments and uses.

LEMMA BecomeSame ==
  ASSUME List(open), Len(open) = 1
  PROVE  open # <<>> /\ DOMAIN open = {1} /\ Below(open) = <<>> /\ IsOn(open, Below(open), Top)
<1>1. open # <<>> /\ DOMAIN open = {1} /\ Below(open) = <<>>
  BY LengthOne
<1>2. IsOn(open, Below(open), open[Len(open)])
  BY <1>1, TakeTop, Zenon
<1> QED
  BY <1>1, <1>2 DEF Top

\* The parameters.
LEMMA ParamFacts ==
  ASSUME Control, In({"params"})
  PROVE  /\ Standing(fn, open, Rest) /\ List(open) /\ fn.succs[fn.cur] = <<>> /\ Len(open) = 1
         /\ DOMAIN labelled = {} /\ Entry \in Blocks(fn) /\ Entry \notin fn.sealed /\ ~built
         /\ Top.kind = "params" /\ Top.left \subseteq Var /\ Rest = {Destruct} /\ LabelBlocks = {}
         /\ open # <<>> /\ IsOn(open, Below(open), Top) /\ Below(open) = <<>>
<1>1. /\ Standing(fn, open, Rest) /\ List(open) /\ Stacked(open, Rest) /\ ~built /\ open # <<>> /\ Top.kind = "params"
      /\ Lively(fn, open) /\ Alone(open)
  BY DEF Control, In, Standing, Stacked
<1>2. IsOn(open, Below(open), Top)
  BY <1>1, TakeTop DEF Top
<1>3. Len(open) = 1
  <2>1. Len(open) \in DOMAIN open
    BY <1>2 DEF IsOn
  <2> QED
    BY <1>1, <2>1 DEF Alone, Top
<1>4. Below(open) = <<>> /\ DOMAIN open = {1}
  BY <1>1, <1>3, LengthOne
<1>5. DOMAIN labelled = {} /\ Entry \in Blocks(fn) /\ Entry \notin fn.sealed
  BY <1>1 DEF Control
<1>6. fn.succs[fn.cur] = <<>>
  BY <1>1 DEF Lively, Live, Top
<1>7. Top.left \subseteq Var
  <2>1. Shaped(Top)
    BY <1>1, <1>2, StackedBelow
  <2> QED
    BY <1>1, <2>1 DEF Shaped
<1>8. LabelBlocks = {}
  BY <1>5 DEF LabelBlocks
<1>9. ~Ending
  <2>1. Top = open[1]
    BY <1>3 DEF Top
  <2> QED
    BY <1>1, <1>4, <2>1 DEF Ending
<1>10. Rest = {Destruct}
  BY <1>8, <1>9 DEF Rest
<1> QED
  BY <1>1, <1>2, <1>3, <1>4, <1>5, <1>6, <1>7, <1>8, <1>10

\* A parameter, and the body begins.
LEMMA ParameterControl ==
  ASSUME Control, Parameter, ~fn'.stuck
  PROVE  Control'
<1>1. In({"params"}) /\ Top.left # {} /\ LabelsStay
  BY DEF Parameter, LabelsStay, UnchangedLabels
<1>2. PICK x \in Top.left : /\ fn' = Store(fn, {x})
                            /\ open' = [open EXCEPT ![Len(open)] = [kind |-> "params", left |-> Top.left \ {x}]]
  <2> DEFINE x == CHOOSE y \in Top.left : TRUE
  <2>1. x \in Top.left
    BY <1>1
  <2> QED
    BY <2>1, Zenon DEF Parameter, Become
<1> DEFINE left == Top.left \ {x}
           r == [kind |-> "params", left |-> left]
<1>3. r = [kind |-> "params", left |-> left] /\ left \in SUBSET Var /\ x \in Names /\ r.kind = "params"
  BY <1>1, ParamFacts DEF Names
<1>4. open' = [open EXCEPT ![Len(open)] = r]
  BY <1>2
<1> HIDE DEF r, left
<1>5. /\ Standing(fn, open, Rest) /\ List(open) /\ fn.succs[fn.cur] = <<>> /\ Len(open) = 1
      /\ DOMAIN labelled = {} /\ Entry \in Blocks(fn) /\ Entry \notin fn.sealed /\ ~built
      /\ Top.kind = "params" /\ Rest = {Destruct} /\ LabelBlocks = {}
      /\ open # <<>> /\ IsOn(open, Below(open), Top) /\ Below(open) = <<>>
  BY <1>1, ParamFacts
<1>6. IsOn(open', Below(open), r)
  BY <1>4, <1>5, Replaced, Zenon
<1>7. Standing(fn', open', Rest) /\ fn'.succs[fn'.cur] = <<>> /\ fn'.sealed = fn.sealed /\ Blocks(fn') = Blocks(fn)
  <2> DEFINE xs == {x}
  <2>1. xs \in SUBSET Names /\ fn' = Store(fn, xs)
    BY <1>2, <1>3
  <2>2. r.kind = "params" /\ r.left \subseteq Var
    BY <1>3
  <2> HIDE DEF xs
  <2> QED
    BY <1>5, <1>6, <2>1, <2>2, ParameterStands
<1>8. DOMAIN open' = {1} /\ Len(open') = 1 /\ open'[1] = r /\ open' # <<>>
  <2>1. DOMAIN open = {1}
    BY <1>5, LengthOne
  <2>2. DOMAIN open' = {1} /\ open'[1] = r
    BY <1>4, <1>5, <2>1
  <2>3. List(open') /\ Len(open') \in DOMAIN open'
    BY <1>6 DEF IsOn
  <2> QED
    BY <1>6, <2>2, <2>3 DEF IsOn
<1>9. ~built' /\ ~Ending' /\ LabelBlocks' = {} /\ Rest' = Rest /\ DOMAIN labelled' = {}
  <2>1. ~built' /\ DOMAIN labelled' = {}
    BY <1>1, <1>5 DEF LabelsStay
  <2>2. ~Ending'
    BY <1>3, <1>8, <2>1 DEF Ending
  <2>3. LabelBlocks' = {}
    BY <2>1 DEF LabelBlocks
  <2> QED
    BY <1>5, <2>1, <2>2, <2>3 DEF Rest
<1>10. Lively(fn', open') /\ Alone(open')
  BY <1>7, <1>8 DEF Lively, Alone
<1>11. Standing(fn', open', Rest')
  BY <1>7, <1>9
<1> QED
  BY <1>5, <1>7, <1>9, <1>10, <1>11 DEF Control

\* The entry block is sealed, with no predecessors.
LEMMA BeginControl ==
  ASSUME MaxReads \in Nat, Control, Begin, ~fn'.stuck
  PROVE  Control'
<1>1. In({"params"}) /\ LabelsStay /\ fn' = SealBlock(fn, Entry) /\ open' = Below(open)
  BY DEF Begin, LabelsStay, UnchangedLabels, Leave, Below
<1>2. /\ Standing(fn, open, Rest) /\ DOMAIN labelled = {} /\ Entry \in Blocks(fn) /\ Entry \notin fn.sealed
      /\ ~built /\ Top.kind = "params" /\ Rest = {Destruct}
      /\ IsOn(open, Below(open), Top) /\ Below(open) = <<>>
  BY <1>1, ParamFacts
<1>3. Standing(fn', Below(open), Rest)
  BY <1>1, <1>2, BeginStands
<1>4. open' = <<>> /\ ~built' /\ ~Ending' /\ DOMAIN labelled' = {}
  BY <1>1, <1>2 DEF LabelsStay, Ending
<1>5. LabelBlocks' = {}
  BY <1>4 DEF LabelBlocks
<1>6. Rest' = Rest
  BY <1>2, <1>4, <1>5 DEF Rest
<1>7. Standing(fn', open', Rest')
  BY <1>1, <1>3, <1>6
<1>8. Lively(fn', open') /\ Alone(open')
  BY <1>4 DEF Lively, Alone
<1> QED
  BY <1>4, <1>5, <1>7, <1>8 DEF Control

-----------------------------------------------------------------------------
\* Statements and expressions that open nothing.

\* The block that a statement comes to has no successors.
LEMMA TerminatedNot ==
  ASSUME ~Terminated(fn)
  PROVE  fn.succs[fn.cur] = <<>>
BY DEF Terminated

\* What a simple statement may rely on.
LEMMA SimpleFacts ==
  ASSUME Control, Comes \/ InPost
  PROVE  /\ Underway /\ Standing(fn, open, Rest) /\ fn.succs[fn.cur] = <<>>
<1>1. CASE Comes
  BY <1>1, ComesFacts, TerminatedNot DEF Comes, ComesWorth
<1>2. CASE InPost
  <2>1. Underway /\ open # <<>> /\ Top.kind = "post"
    BY <1>2 DEF InPost, In, Underway
  <2>2. Standing(fn, open, Rest)
    BY <2>1, UnderwayFacts
  <2>3. Lively(fn, open)
    BY DEF Control
  <2> QED
    BY <2>1, <2>2, <2>3 DEF Lively, Live, Top
<1> QED
  BY <1>1, <1>2

\* x = an expression.
LEMMA AssignControl ==
  ASSUME Control, NEW x \in Var, AssignStatement(x), ~fn'.stuck
  PROVE  Control'
<1> DEFINE xs == {x}
<1>1. (Comes \/ InPost) /\ fn' = Store(fn, xs) /\ LabelsStay /\ open' = open /\ xs \in SUBSET Names
  BY DEF AssignStatement, LabelsStay, UnchangedLabels, Names
<1> HIDE DEF xs
<1>2. Underway /\ Standing(fn, open, Rest) /\ fn.succs[fn.cur] = <<>>
  BY <1>1, SimpleFacts
<1>3. Leaves(fn', open, Rest, fn.cur, {fn.cur})
  BY <1>1, <1>2, StoreStands, Zenon
<1>4. Standing(fn', open, Rest) /\ Lively(fn', open)
  BY <1>3 DEF Leaves, Lively
<1> QED
  BY <1>1, <1>2, <1>4, SameControl

\* x = y.
LEMMA CopyControl ==
  ASSUME MaxReads \in Nat, Control, NEW x \in Var, NEW y \in Var, CopyStatement(x, y), ~fn'.stuck
  PROVE  Control'
<1> DEFINE xs == {x}
           w == {fn.cur}
<1>1. /\ Comes \/ InPost
      /\ fn' = Load(fn, y, xs) /\ LabelsStay /\ open' = open /\ xs \in SUBSET Names /\ y \in Names
  BY DEF CopyStatement, LabelsStay, UnchangedLabels, Names
<1>2. w \in SUBSET {fn.cur} /\ fn.cur \in w
  OBVIOUS
<1>3. Underway /\ Standing(fn, open, Rest) /\ fn.succs[fn.cur] = <<>>
  BY <1>1, SimpleFacts
<1> HIDE DEF xs, w
<1>4. Leaves(fn', open, Rest, fn.cur, w)
  BY <1>1, <1>2, <1>3, LoadStands
<1>5. Standing(fn', open, Rest) /\ Lively(fn', open)
  BY <1>2, <1>4 DEF Leaves, Lively
<1> QED
  BY <1>1, <1>3, <1>5, SameControl

\* The value of a variable is looked up, wherever something is evaluated.
LEMMA UseStands ==
  ASSUME MaxReads \in Nat, Control, NEW x \in Names, fn' = Use(fn, x), ~fn'.stuck
  PROVE  Standing(fn', open, Rest) /\ (fn.succs[fn.cur] = <<>> => fn'.succs[fn'.cur] = <<>>)
<1> DEFINE none == {}
           w == IF fn.succs[fn.cur] = <<>> THEN {fn.cur} ELSE {}
<1>1. /\ none \in SUBSET Names /\ none = {} /\ w \in SUBSET {fn.cur} /\ (w = {} \/ fn.succs[fn.cur] = <<>>)
      /\ fn' = Load(fn, x, none) /\ Standing(fn, open, Rest)
  BY DEF Use, Control
<1>2. fn.succs[fn.cur] = <<>> => fn.cur \in w
  OBVIOUS
<1> HIDE DEF none, w
<1>3. Leaves(fn', open, Rest, fn.cur, w)
  BY <1>1, LoadStands, Zenon
<1> QED
  BY <1>2, <1>3 DEF Leaves

\* x is used.
LEMMA UseControl ==
  ASSUME MaxReads \in Nat, Control, NEW x \in Var, UseVariable(x), ~fn'.stuck
  PROVE  Control'
<1>1. /\ Comes \/ InPost \/ InExpression \/ In({"element", "destruct"})
      /\ fn' = Use(fn, x) /\ LabelsStay /\ open' = open /\ x \in Names
  BY DEF UseVariable, LabelsStay, UnchangedLabels, Names
<1>2. Standing(fn', open, Rest) /\ (fn.succs[fn.cur] = <<>> => fn'.succs[fn'.cur] = <<>>)
  BY <1>1, UseStands
<1>3. Lively(fn, open)
  BY DEF Control
<1>4. Lively(fn', open)
  BY <1>2, <1>3 DEF Lively
<1>5. CASE Underway
  BY <1>1, <1>2, <1>4, <1>5, SameControl
<1>6. CASE ~Underway
  <2>1. Top.kind = "destruct" /\ open # <<>> /\ ~built
    BY <1>1, <1>6 DEF Comes, ComesWorth, InBody, InPost, InExpression, In, Underway
  <2>2. LabelBlocks' = LabelBlocks /\ (Ending' <=> Ending) /\ Top' = Top
    BY <1>1 DEF LabelsStay, LabelBlocks, Ending, Top
  <2>3. Rest' = Rest
    BY <2>2 DEF Rest
  <2>4. Standing(fn', open', Rest') /\ Lively(fn', open') /\ Alone(open')
    BY <1>1, <1>2, <1>4, <2>3 DEF Control, Alone
  <2>5. Destruct \notin LabelBlocks'
    BY <2>2 DEF Control
  <2>6. \A k, l \in DOMAIN labelled' \ placed' : labelled'[k] = labelled'[l] => k = l
    BY <1>1 DEF LabelsStay, Control
  <2>7. Ending' => DOMAIN labelled' \subseteq placed'
    BY <1>1, <2>2 DEF LabelsStay, Control
  <2>8. ~built' /\ Top'.kind # "params"
    BY <1>1, <2>1, <2>2 DEF LabelsStay
  <2> QED
    BY <2>4, <2>5, <2>6, <2>7, <2>8 DEF Control
<1> QED
  BY <1>5, <1>6

-----------------------------------------------------------------------------
\* && and ||, and the statements that count double.

\* The operands of && and ||.
LEMMA ExpressionFacts ==
  ASSUME Control, ComesWorth(2) \/ ((InPost \/ InExpression) /\ Counts(2))
  PROVE  Underway /\ Standing(fn, open, Rest) /\ Destruct \in Rest /\ List(open)
<1>1. Underway
  BY DEF ComesWorth, InBody, InPost, InExpression, In, Underway
<1> QED
  BY <1>1, UnderwayFacts

\* && begins.
LEMMA AndControl ==
  ASSUME MaxReads \in Nat, Control, Logical("and"), ~fn'.stuck
  PROVE  Control'
<1> DEFINE f == fn.blocks + 1
           t == fn.blocks + 2
           e == fn.blocks + 3
           r == [kind |-> "and", end |-> e, other |-> f]
<1>1. LabelsStay /\ open' = Append(open, r) /\ (ComesWorth(2) \/ ((InPost \/ InExpression) /\ Counts(2)))
  BY DEF Logical, LabelsStay, UnchangedLabels, Enter
<1>2. fn' = Goto(SealBlock(SealBlock(JumpTo(JumpTo(NewBlocks(fn, 3), t), f), t), f), t)
  BY DEF Logical
<1>3. f = fn.blocks + 1 /\ t = fn.blocks + 2 /\ e = fn.blocks + 3 /\ r = [kind |-> "and", end |-> e, other |-> f]
  OBVIOUS
<1>4. r.kind = "and" /\ r.kind \notin {"params", "destruct"}
  OBVIOUS
<1> HIDE DEF f, t, e, r
<1>5. Underway /\ Standing(fn, open, Rest) /\ Destruct \in Rest /\ List(open)
  BY <1>1, ExpressionFacts
<1>6. IsOn(open', open, r)
  BY <1>1, <1>5, Pushed
<1>7. Standing(fn', open', Rest) /\ fn'.succs[fn'.cur] = <<>>
  BY <1>2, <1>3, <1>5, <1>6, AndStands
<1> QED
  BY <1>1, <1>4, <1>5, <1>7, EnterControl

\* || begins.
LEMMA OrControl ==
  ASSUME MaxReads \in Nat, Control, Logical("or"), ~fn'.stuck
  PROVE  Control'
<1> DEFINE f == fn.blocks + 1
           t == fn.blocks + 2
           e == fn.blocks + 3
           s == Goto(SealBlock(SealBlock(JumpTo(JumpTo(NewBlocks(fn, 3), t), f), t), f), t)
           r == [kind |-> "or", end |-> e, other |-> t]
<1>1. LabelsStay /\ open' = Append(open, r) /\ (ComesWorth(2) \/ ((InPost \/ InExpression) /\ Counts(2)))
  BY DEF Logical, LabelsStay, UnchangedLabels, Enter
<1>2. fn' = Goto(JumpTo(Store(s, {Result}), e), f)
  BY DEF Logical
<1>3. f = fn.blocks + 1 /\ t = fn.blocks + 2 /\ e = fn.blocks + 3 /\ r = [kind |-> "or", end |-> e, other |-> t]
      /\ s = Goto(SealBlock(SealBlock(JumpTo(JumpTo(NewBlocks(fn, 3), t), f), t), f), t)
  OBVIOUS
<1>4. r.kind = "or" /\ r.kind \notin {"params", "destruct"}
  OBVIOUS
<1> HIDE DEF f, t, e, s, r
<1>5. Underway /\ Standing(fn, open, Rest) /\ Destruct \in Rest /\ List(open)
  BY <1>1, ExpressionFacts
<1>6. IsOn(open', open, r)
  BY <1>1, <1>5, Pushed
<1>7. Standing(fn', open', Rest) /\ fn'.succs[fn'.cur] = <<>>
  BY <1>2, <1>3, <1>5, <1>6, OrStands, ZenonT(30)
<1> QED
  BY <1>1, <1>4, <1>5, <1>7, EnterControl

\* The end of a condition.
LEMMA LogicFacts ==
  ASSUME Control, In({"and"}) \/ In({"or"})
  PROVE  /\ Underway /\ Standing(fn, open, Rest) /\ Destruct \in Rest /\ fn.succs[fn.cur] = <<>>
         /\ open # <<>> /\ IsOn(open, Below(open), Top)
<1>1. Underway /\ open # <<>> /\ Top.kind \in {"and", "or"}
  BY DEF In, Underway
<1>2. Standing(fn, open, Rest) /\ Destruct \in Rest /\ IsOn(open, Below(open), Top)
  BY <1>1, UnderwayFacts
<1>3. Lively(fn, open)
  BY DEF Control
<1> QED
  BY <1>1, <1>2, <1>3 DEF Lively, Live, Top

\* && ends.
LEMMA EndAndControl ==
  ASSUME MaxReads \in Nat, Control, NEW new \in BOOLEAN, EndAnd(new), ~fn'.stuck
  PROVE  Control'
<1> DEFINE e == Top.end
           f == Top.other
           cur == fn.cur
           s == IF new THEN Store(fn, {Result}) ELSE fn
           x == JumpTo(Store(Goto(JumpTo(s, e), f), {Result}), e)
           E == {e}
<1>1. LabelsStay /\ open' = Below(open) /\ In({"and"}) /\ (~new => fn.def[fn.cur][Result] # NoValue)
  BY DEF EndAnd, LabelsStay, UnchangedLabels, Leave, Below
<1>2. fn' = Joined(Goto(SealBlock(x, e), e), e, cur, f)
  BY DEF EndAnd, RightOperand
<1>3. e = Top.end /\ f = Top.other /\ cur = fn.cur /\ s = (IF new THEN Store(fn, {Result}) ELSE fn)
      /\ x = JumpTo(Store(Goto(JumpTo(s, e), f), {Result}), e)
  OBVIOUS
<1>4. Top.kind = "and"
  BY <1>1 DEF In
<1> HIDE DEF e, f, cur, s, x
<1>5. /\ Underway /\ Standing(fn, open, Rest) /\ Destruct \in Rest /\ fn.succs[fn.cur] = <<>>
      /\ open # <<>> /\ IsOn(open, Below(open), Top)
  BY <1>1, LogicFacts
<1>6. Leaves(fn', Below(open), Rest, e, {e})
  BY <1>1, <1>2, <1>3, <1>4, <1>5, EndAndStands, Zenon
<1>7. Standing(fn', open', Rest) /\ fn'.succs[fn'.cur] = <<>>
  BY <1>1, <1>6 DEF Leaves
<1> QED
  BY <1>1, <1>5, <1>7, LeaveControl

\* || ends.
LEMMA EndOrControl ==
  ASSUME MaxReads \in Nat, Control, NEW new \in BOOLEAN, EndOr(new), ~fn'.stuck
  PROVE  Control'
<1> DEFINE e == Top.end
           f == Top.other
           cur == fn.cur
           s == IF new THEN Store(fn, {Result}) ELSE fn
           x == JumpTo(s, e)
<1>1. LabelsStay /\ open' = Below(open) /\ In({"or"}) /\ (~new => fn.def[fn.cur][Result] # NoValue)
  BY DEF EndOr, LabelsStay, UnchangedLabels, Leave, Below
<1>2. fn' = Joined(Goto(SealBlock(x, e), e), e, f, cur)
  BY DEF EndOr, RightOperand
<1>3. e = Top.end /\ f = Top.other /\ cur = fn.cur /\ s = (IF new THEN Store(fn, {Result}) ELSE fn)
      /\ x = JumpTo(s, e)
  OBVIOUS
<1>4. Top.kind = "or"
  BY <1>1 DEF In
<1> HIDE DEF e, f, cur, s, x
<1>5. /\ Underway /\ Standing(fn, open, Rest) /\ Destruct \in Rest /\ fn.succs[fn.cur] = <<>>
      /\ open # <<>> /\ IsOn(open, Below(open), Top)
  BY <1>1, LogicFacts
<1>6. Leaves(fn', Below(open), Rest, e, {e})
  BY <1>1, <1>2, <1>3, <1>4, <1>5, EndOrStands, Zenon
<1>7. Standing(fn', open', Rest) /\ fn'.succs[fn'.cur] = <<>>
  BY <1>1, <1>6 DEF Leaves
<1> QED
  BY <1>1, <1>5, <1>7, LeaveControl

\* switch begins.
LEMMA SwitchControl ==
  ASSUME MaxReads \in Nat, Control, NEW n \in Nat, NEW default \in BOOLEAN, Switch(n, default), ~fn'.stuck
  PROVE  Control'
<1> DEFINE e == fn.blocks + 1
           bodies == [i \in 1 .. n |-> e + i]
           v == IF default THEN e + n + 1 ELSE e
           all == IF default THEN Append(bodies, v) ELSE bodies
           m == Len(all)
           x0 == NewBlocks(fn, 1 + m)
           r == IF n = 0 THEN [kind |-> "clauses", all |-> all, rest |-> all, end |-> e]
                ELSE [kind |-> "tests", bodies |-> bodies, at |-> 1, all |-> all,
                      otherwise |-> v, end |-> e]
<1>1. InBody /\ LabelsStay /\ open' = Append(open, r)
  BY DEF Switch, LabelsStay, UnchangedLabels, ComesWorth, Enter
<1>2. fn' = (IF n = 0 THEN JumpTo(x0, v) ELSE x0)
  BY DEF Switch
<1>3. /\ e = fn.blocks + 1 /\ x0 = NewBlocks(fn, 1 + m)
      /\ r = (IF n = 0 THEN [kind |-> "clauses", all |-> all, rest |-> all, end |-> e]
              ELSE [kind |-> "tests", bodies |-> bodies, at |-> 1, all |-> all,
                    otherwise |-> v, end |-> e])
  OBVIOUS
<1>4. r.kind \notin {"params", "destruct"} /\ r.kind \notin Live
  BY DEF Live
<1>5. /\ Underway /\ Body(open) /\ Standing(fn, open, Rest) /\ Destruct \in Rest /\ List(open)
  BY <1>1, ComesFacts
<1>6. Clauses(all, bodies, v, e, m) /\ DOMAIN bodies = 1 .. n
  <2>1. e \in Nat
    BY <1>5, StandingFacts
  <2>2. /\ bodies = [i \in 1 .. n |-> e + i] /\ v = (IF default THEN e + n + 1 ELSE e)
        /\ all = (IF default THEN Append(bodies, v) ELSE bodies) /\ m = Len(all)
    OBVIOUS
  <2> HIDE DEF e, v, bodies, all, m
  <2>3. Clauses(all, bodies, v, e, Len(all)) /\ DOMAIN bodies = 1 .. n
    BY <2>1, <2>2, SwitchBlocks, ZenonT(30)
  <2> QED
    BY <2>2, <2>3
<1> HIDE DEF e, bodies, v, all, m, x0, r
<1>7. IsOn(open', open, r)
  BY <1>1, <1>5, Pushed
<1>8. Standing(fn', open', Rest)
  BY <1>2, <1>3, <1>5, <1>6, <1>7, SwitchStands, Zenon
<1> QED
  BY <1>1, <1>4, <1>5, <1>8, EnterControl

\* range begins.
LEMMA RangeControl ==
  ASSUME MaxReads \in Nat, Control, NEW keys \in SUBSET Var, NEW elements \in SUBSET Var,
         RangeStatement(keys, elements), ~fn'.stuck
  PROVE  Control'
<1> DEFINE x == Counters[Len(open) + 1]
           xs == keys \cup {x}
           b == Store(fn, xs)
           h == b.blocks + 1
           d == b.blocks + 2
           p == b.blocks + 3
           e == b.blocks + 4
           r == [kind |-> "element", elements |-> elements, counter |-> x, keys |-> keys, next |-> p, header |-> h, end |-> e]
<1>1. ComesWorth(2) /\ InBody /\ LabelsStay /\ Len(open) + 1 \in DOMAIN Counters
  BY DEF RangeStatement, LabelsStay, UnchangedLabels, ComesWorth
<1>2. /\ Underway /\ Body(open) /\ Standing(fn, open, Rest) /\ Destruct \in Rest /\ List(open)
      /\ fn.succs[fn.cur] = <<>>
  BY <1>1, ComesFacts, TerminatedNot DEF ComesWorth
<1>3. x \in Names /\ keys \in SUBSET Names /\ elements \in SUBSET Names /\ xs \in SUBSET Names
  BY <1>1 DEF Names
<1>4. b.blocks = fn.blocks
  <2>1. IsRec(fn)
    BY <1>2, ReadyFacts DEF Standing
  <2> HIDE DEF xs
  <2> QED
    BY <2>1, StoreSealed
<1>5. open' = Append(open, r)
  BY <1>4 DEF RangeStatement, Enter
<1>6. fn' = Goto(SealBlock(JumpTo(JumpTo(Load(Goto(JumpTo(NewBlocks(b, 4), h), h), x, {}), d), e), d), d)
  BY <1>4 DEF RangeStatement, Use
<1>7. /\ b = Store(fn, xs) /\ h = b.blocks + 1 /\ d = b.blocks + 2 /\ p = b.blocks + 3 /\ e = b.blocks + 4
      /\ r = [kind |-> "element", elements |-> elements, counter |-> x, keys |-> keys, next |-> p, header |-> h, end |-> e]
      /\ r.kind = "element" /\ r.kind \notin {"params", "destruct"}
  OBVIOUS
<1> HIDE DEF x, xs, b, h, d, p, e, r
<1>8. Standing(b, open, Rest)
  BY <1>2, <1>3, <1>7, StoreStands DEF Leaves
<1>9. IsOn(open', open, r)
  BY <1>2, <1>5, Pushed
<1>10. Standing(fn', open', Rest) /\ fn'.succs[fn'.cur] = <<>>
  BY <1>2, <1>3, <1>6, <1>7, <1>8, <1>9, RangeStands, SMTT(30)
<1> QED
  BY <1>1, <1>2, <1>5, <1>7, <1>10, EnterControl

-----------------------------------------------------------------------------
\* Jumps, labels and the end of the function.

\* A block that break or continue jumps to.
LEMMA JumpControl ==
  ASSUME Control, Comes, NEW to, to \in FreshIn(open) \cup (HeadIn(open) \ {Destruct}),
         fn' = JumpAway(fn, to), LabelsStay, open' = open, ~fn'.stuck
  PROVE  Control'
<1>1. InBody
  BY DEF Comes, ComesWorth
<1>2. Underway /\ Standing(fn, open, Rest) /\ JoinIn(open) = {} /\ \A b : Lively(b, open)
  BY <1>1, ComesFacts
<1>3. to \in (FreshIn(open) \cup Rest) \cup (HeadIn(open) \ {Destruct})
  OBVIOUS
<1>4. Leaves(fn', open, Rest, fn.blocks + 1, {fn.blocks + 1})
  BY <1>2, <1>3, AwayStands, Zenon
<1>5. Standing(fn', open, Rest) /\ Lively(fn', open)
  BY <1>2, <1>4 DEF Leaves
<1> QED
  BY <1>2, <1>5, SameControl

\* break,
LEMMA BreakControl ==
  ASSUME Control, NEW i \in Breakable, Break(i), ~fn'.stuck
  PROVE  Control'
<1>1. Comes /\ fn' = JumpAway(fn, open[i].end) /\ LabelsStay /\ open' = open
  BY DEF Break, LabelsStay, UnchangedLabels
<1>2. i \in DOMAIN open /\ open[i].kind \in {"for", "range", "switch"}
  BY DEF Breakable, Loops
<1>3. open[i].end \in FreshOf(open[i])
  BY <1>2 DEF FreshOf
<1>4. open[i].end \in FreshIn(open)
  BY <1>2, <1>3 DEF FreshIn
<1> QED
  BY <1>1, <1>4, JumpControl

\* continue,
LEMMA ContinueControl ==
  ASSUME Control, NEW i \in Loops, Continue(i), ~fn'.stuck
  PROVE  Control'
<1>1. Comes /\ fn' = JumpAway(fn, open[i].next) /\ LabelsStay /\ open' = open
  BY DEF Continue, LabelsStay, UnchangedLabels
<1>2. i \in DOMAIN open /\ open[i].kind \in {"for", "range"}
  BY DEF Loops
<1>3. InBody
  BY <1>1 DEF Comes, ComesWorth
<1>4. Stacked(open, Rest) /\ Destruct \in Rest
  BY <1>3, ComesFacts, UnderwayFacts
<1>5. open[i].next \in FreshOf(open[i]) \/ open[i].next \in HeadOf(open[i])
  BY <1>2 DEF FreshOf, HeadOf
<1>6. Destruct \notin HeadOf(open[i])
  BY <1>2, <1>4 DEF Stacked, Claims
<1>7. open[i].next \in FreshIn(open) \cup (HeadIn(open) \ {Destruct})
  BY <1>2, <1>5, <1>6 DEF FreshIn, HeadIn
<1> QED
  BY <1>1, <1>7, JumpControl

\* return.
LEMMA ReturnControl ==
  ASSUME Control, ReturnStatement, ~fn'.stuck
  PROVE  Control'
<1>1. Comes /\ fn' = JumpTo(fn, Destruct) /\ LabelsStay /\ open' = open /\ InBody
  BY DEF ReturnStatement, LabelsStay, UnchangedLabels, Comes, ComesWorth
<1>2. Underway /\ Standing(fn, open, Rest) /\ Destruct \in Rest /\ \A b : Lively(b, open)
  BY <1>1, ComesFacts
<1>3. Leaves(fn', open, Rest, fn.cur, {})
  BY <1>1, <1>2, ReturnStands
<1>4. Standing(fn', open, Rest) /\ Lively(fn', open)
  BY <1>2, <1>3 DEF Leaves
<1> QED
  BY <1>1, <1>2, <1>4, SameControl

-----------------------------------------------------------------------------
\* Labels.  The blocks of those jumped to and not placed yet are to come.

\* Labels: a block for each, sealed when the label is placed.
LEMMA LabelFacts ==
  ASSUME Control, InBody, NEW l, l \notin placed, Labelled(l)
  PROVE  LET lab == LabelBlock(l)
             b == WithLabel(l)
             S == Rest \cup {lab}
         IN  /\ Standing(b, open, S) /\ Destruct \in S /\ lab \in S /\ lab # Destruct
             /\ JoinIn(open) = {} /\ b.cur = fn.cur
             /\ DOMAIN labelled' = DOMAIN labelled \cup {l} /\ labelled'[l] = lab
             /\ \A k \in DOMAIN labelled \ {l} : labelled'[k] = labelled[k]
             /\ \A k \in DOMAIN labelled \ placed : k # l => labelled[k] # lab
             /\ Rest = LabelBlocks \cup {Destruct}
<1> DEFINE lab == LabelBlock(l)
           b == WithLabel(l)
           S == Rest \cup {lab}
<1>1. /\ Standing(fn, open, Rest) /\ Destruct \in Rest /\ JoinIn(open) = {} /\ Underway
      /\ Rest = LabelBlocks \cup {Destruct}
  BY ComesFacts, UnderwayFacts
<1>2. /\ DOMAIN labelled' = DOMAIN labelled \cup {l} /\ labelled'[l] = lab
      /\ \A k \in DOMAIN labelled \ {l} : labelled'[k] = labelled[k]
  BY DEF Labelled
<1>3. CASE l \in DOMAIN labelled
  <2>1. lab = labelled[l] /\ b = fn
    BY <1>3 DEF LabelBlock, WithLabel
  <2>2. lab \in LabelBlocks
    BY <1>3, <2>1 DEF LabelBlocks
  <2>3. S = Rest /\ lab # Destruct
    BY <1>1, <2>2 DEF Control
  <2>4. \A k \in DOMAIN labelled \ placed : k # l => labelled[k] # lab
    BY <1>3, <2>1 DEF Control
  <2> QED
    BY <1>1, <1>2, <2>1, <2>2, <2>3, <2>4
<1>4. CASE l \notin DOMAIN labelled
  <2>1. lab = fn.blocks + 1 /\ b = NewBlocks(fn, 1)
    BY <1>4 DEF LabelBlock, WithLabel
  <2>2. Standing(b, open, S) /\ lab \notin ClaimsIn(open) \cup Rest /\ b.cur = fn.cur
    <3> HIDE DEF b
    <3> QED
      BY <1>1, <2>1, LabelMade
  <2>3. \A k \in DOMAIN labelled \ placed : labelled[k] # lab
    BY <1>1, <2>2 DEF LabelBlocks
  <2> QED
    BY <1>1, <1>2, <2>2, <2>3
<1> QED
  BY <1>3, <1>4

\* A goto comes before its label, so the label's block is still open.
LEMMA GotoControl ==
  ASSUME Control, ~BackwardGoto, NEW l \in Labels, GotoStatement(l), ~fn'.stuck
  PROVE  Control'
<1> DEFINE lab == LabelBlock(l)
           b == WithLabel(l)
           S == Rest \cup {lab}
<1>1. /\ InBody /\ l \notin placed /\ Labelled(l) /\ fn' = JumpAway(b, lab)
      /\ open' = open /\ built' = built /\ placed' = placed
  BY DEF GotoStatement, Comes, ComesWorth
<1>2. /\ Standing(b, open, S) /\ Destruct \in S /\ lab \in S /\ lab # Destruct
      /\ JoinIn(open) = {}
      /\ DOMAIN labelled' = DOMAIN labelled \cup {l} /\ labelled'[l] = lab
      /\ \A k \in DOMAIN labelled \ {l} : labelled'[k] = labelled[k]
      /\ \A k \in DOMAIN labelled \ placed : k # l => labelled[k] # lab
      /\ Rest = LabelBlocks \cup {Destruct}
  BY <1>1, LabelFacts, Zenon
<1>3. S = Rest \cup {lab}
  OBVIOUS
<1> HIDE DEF lab, b, S
<1>4. Standing(fn', open, S)
  <2>1. lab \in (FreshIn(open) \cup S) \cup (HeadIn(open) \ {Destruct})
    BY <1>2
  <2> QED
    BY <1>1, <1>2, <2>1, AwayStands DEF Leaves
<1>5. /\ ~Ending /\ ~built /\ Plain(open)
      /\ \A c : Lively(c, open)
  BY <1>1, ComesFacts, UnderwayFacts
<1>6. ~Ending' /\ ~built'
  BY <1>1, <1>5 DEF Ending
<1>7. LabelBlocks' = LabelBlocks \cup {lab}
  <2>1. ASSUME NEW u \in LabelBlocks' PROVE u \in LabelBlocks \cup {lab}
    BY <1>1, <1>2, <2>1 DEF LabelBlocks
  <2>2. ASSUME NEW u \in LabelBlocks PROVE u \in LabelBlocks'
    <3>1. PICK k \in DOMAIN labelled \ placed : u = labelled[k]
      BY <2>2 DEF LabelBlocks
    <3>2. k \in DOMAIN labelled' \ placed'
      BY <1>1, <1>2, <3>1
    <3>3. labelled'[k] = u
      <4>1. CASE k # l
        BY <1>2, <3>1, <4>1
      <4>2. CASE k = l
        BY <1>2, <3>1, <4>2 DEF lab, LabelBlock
      <4> QED
        BY <4>1, <4>2
    <3> QED
      BY <3>2, <3>3 DEF LabelBlocks
  <2>3. lab \in LabelBlocks'
    BY <1>1, <1>2 DEF LabelBlocks
  <2> QED
    BY <2>1, <2>2, <2>3
<1>8. Rest' = S
  BY <1>2, <1>3, <1>6, <1>7 DEF Rest
<1>9. Standing(fn', open', Rest') /\ Lively(fn', open') /\ Alone(open')
  BY <1>1, <1>4, <1>5, <1>8 DEF Control, Alone
<1>10. Destruct \notin LabelBlocks'
  BY <1>2, <1>7 DEF Control
<1>11. \A k, m \in DOMAIN labelled' \ placed' : labelled'[k] = labelled'[m] => k = m
  BY <1>1, <1>2 DEF Control
<1>12. open' # <<>> => Top'.kind # "params"
  BY <1>1 DEF InBody, Top
<1> QED
  BY <1>6, <1>9, <1>10, <1>11, <1>12 DEF Control

\* A label after which no goto to it comes.
LEMMA LabelControl ==
  ASSUME MaxReads \in Nat, Control, NEW l \in Labels, LabelStatement(l), ~fn'.stuck
  PROVE  Control'
<1> DEFINE lab == LabelBlock(l)
           b == WithLabel(l)
           S == Rest \cup {lab}
<1>1. /\ InBody /\ l \notin placed /\ Labelled(l)
      /\ fn' = Goto(SealBlock(FallInto(b, lab), lab), lab)
      /\ open' = open /\ built' = built /\ placed' = placed \cup {l}
  BY DEF LabelStatement
<1>2. /\ Standing(b, open, S) /\ Destruct \in S /\ lab \in S /\ lab # Destruct
      /\ DOMAIN labelled' = DOMAIN labelled \cup {l} /\ labelled'[l] = lab
      /\ \A k \in DOMAIN labelled \ {l} : labelled'[k] = labelled[k]
      /\ \A k \in DOMAIN labelled \ placed : k # l => labelled[k] # lab
      /\ Rest = LabelBlocks \cup {Destruct}
  BY <1>1, LabelFacts, Zenon
<1>3. S = Rest \cup {lab}
  OBVIOUS
<1> HIDE DEF lab, b, S
<1>4. Leaves(fn', open, S \ {lab}, lab, {lab})
  BY <1>1, <1>2, LabelStands
<1>5. /\ ~Ending /\ ~built /\ Plain(open)
      /\ \A c : Lively(c, open)
  BY <1>1, ComesFacts, UnderwayFacts
<1>6. ~Ending' /\ ~built'
  BY <1>1, <1>5 DEF Ending
<1>7. LabelBlocks' = LabelBlocks \ {lab}
  <2>1. ASSUME NEW u \in LabelBlocks' PROVE u \in LabelBlocks \ {lab}
    <3>1. PICK k \in DOMAIN labelled' \ placed' : u = labelled'[k]
      BY <2>1 DEF LabelBlocks
    <3>2. k \in DOMAIN labelled \ placed /\ k # l
      BY <1>1, <1>2, <3>1
    <3> QED
      BY <1>2, <3>1, <3>2 DEF LabelBlocks
  <2>2. ASSUME NEW u \in LabelBlocks, u # lab PROVE u \in LabelBlocks'
    <3>1. PICK k \in DOMAIN labelled \ placed : u = labelled[k]
      BY <2>2 DEF LabelBlocks
    <3>2. k # l
      <4>1. l \in DOMAIN labelled => lab = labelled[l]
        BY DEF lab, LabelBlock
      <4> QED
        BY <2>2, <3>1, <4>1
    <3>3. k \in DOMAIN labelled' \ placed' /\ labelled'[k] = u
      BY <1>1, <1>2, <3>1, <3>2
    <3> QED
      BY <3>3 DEF LabelBlocks
  <2> QED
    BY <2>1, <2>2
<1>8. Rest' = S \ {lab}
  BY <1>2, <1>3, <1>6, <1>7 DEF Rest
<1>9. Standing(fn', open', Rest') /\ Lively(fn', open') /\ Alone(open')
  BY <1>1, <1>4, <1>5, <1>8 DEF Control, Alone, Leaves
<1>10. Destruct \notin LabelBlocks'
  BY <1>7 DEF Control
<1>11. \A k, m \in DOMAIN labelled' \ placed' : labelled'[k] = labelled'[m] => k = m
  BY <1>1, <1>2 DEF Control
<1>12. open' # <<>> => Top'.kind # "params"
  BY <1>1 DEF InBody, Top
<1> QED
  BY <1>6, <1>9, <1>10, <1>11, <1>12 DEF Control

-----------------------------------------------------------------------------
\* The end of the function.

\* The end of the body.
LEMMA DestructControl ==
  ASSUME MaxReads \in Nat, Control, EnterDestruct, ~fn'.stuck
  PROVE  Control'
<1> DEFINE t == [kind |-> "destruct"]
           R == {Destruct}
           S == {}
<1>1. /\ ~built /\ open = <<>> /\ DOMAIN labelled = placed /\ open' = <<t>> /\ LabelsStay
      /\ fn' = Goto(FallInto(fn, Destruct), Destruct)
  BY DEF EnterDestruct, LabelsStay, UnchangedLabels
<1>2. ~Ending /\ LabelBlocks = {} /\ LabelBlocks' = {} /\ ~built'
  BY <1>1 DEF Ending, LabelBlocks, LabelsStay
<1>3. Rest = R /\ R = {Destruct} /\ S = {} /\ t = [kind |-> "destruct"] /\ t.kind = "destruct"
  BY <1>2 DEF Rest
<1>4. open' = Append(open, t) /\ List(open) /\ Standing(fn, open, R) /\ DOMAIN open' = {1} /\ Len(open') = 1
      /\ open'[1] = t /\ open' # <<>>
  BY <1>1, <1>3, NothingIn DEF Control
<1> HIDE DEF t, R, S
<1>5. IsOn(open', open, t)
  BY <1>4, Pushed
<1>6. Standing(fn', open', S)
  BY <1>1, <1>3, <1>4, <1>5, DestructStands
<1>7. Ending' /\ Rest' = S
  BY <1>2, <1>3, <1>4 DEF Ending, Rest
<1>8. Lively(fn', open') /\ Alone(open') /\ Top'.kind # "params"
  BY <1>3, <1>4 DEF Lively, Alone, Live, Top
<1>9. Standing(fn', open', Rest')
  BY <1>6, <1>7
<1>10. /\ \A k, l \in DOMAIN labelled' \ placed' : labelled'[k] = labelled'[l] => k = l
       /\ DOMAIN labelled' \subseteq placed'
  BY <1>1 DEF LabelsStay
<1> QED
  BY <1>2, <1>8, <1>9, <1>10 DEF Control

\* The end of buildFunc.
LEMMA FinishControl ==
  ASSUME MaxReads \in Nat, Control, Finish, ~fn'.stuck
  PROVE  Control'
<1> DEFINE S == {}
<1>1. /\ ~built /\ open # <<>> /\ Top.kind = "destruct" /\ open' = Below(open) /\ built'
      /\ UNCHANGED <<labelled, placed>> /\ fn' = SealBlock(fn, Destruct)
  BY DEF Finish, In, Leave, Below, UnchangedLabels
<1>2. Standing(fn, open, Rest) /\ List(open) /\ Alone(open)
  BY DEF Control, Standing, Stacked
<1>3. IsOn(open, Below(open), Top)
  BY <1>1, <1>2, TakeTop DEF Top
<1>4. Len(open) \in DOMAIN open
  BY <1>3 DEF IsOn
<1>5. Len(open) = 1 /\ Ending
  BY <1>1, <1>2, <1>4 DEF Alone, Top, Ending
<1>6. Below(open) = <<>>
  BY <1>2, <1>5, LengthOne
<1>7. DOMAIN labelled \subseteq placed
  BY <1>5 DEF Control
<1>8. LabelBlocks = {} /\ LabelBlocks' = {} /\ Ending'
  BY <1>1, <1>7 DEF LabelBlocks, Ending
<1>9. Rest = S /\ Rest' = S /\ S = {}
  BY <1>5, <1>8 DEF Rest
<1> HIDE DEF S
<1>10. Standing(fn, open, S)
  BY <1>2, <1>9
<1>11. Standing(fn', Below(open), S)
  BY <1>1, <1>3, <1>6, <1>9, <1>10, FinishStands
<1>12. Standing(fn', open', Rest') /\ open' = <<>>
  BY <1>1, <1>6, <1>9, <1>11
<1>13. Lively(fn', open') /\ Alone(open')
  BY <1>12 DEF Lively, Alone
<1>14. /\ \A k, l \in DOMAIN labelled' \ placed' : labelled'[k] = labelled'[l] => k = l
       /\ DOMAIN labelled' \subseteq placed'
  BY <1>1, <1>7
<1> QED
  BY <1>8, <1>12, <1>13, <1>14 DEF Control

-----------------------------------------------------------------------------
\* The first state, and all steps together.

LEMMA InitFunction ==
  ASSUME NEW b, b = NewBlocks(EmptyFunction, 2)
  PROVE  /\ IsRec(b) /\ b.blocks = 2 /\ b.sealed = {} /\ b.home = <<>> /\ b.incomplete = {} /\ b.cur = Entry
         /\ b.stuck = FALSE /\ DOMAIN b.phis = {} /\ b.phis = [p \in {} |-> 0]
         /\ b.preds = [blk \in 1 .. 2 |-> <<>>] /\ b.succs = [blk \in 1 .. 2 |-> <<>>]
         /\ b.code = [blk \in 1 .. 2 |-> <<>>] /\ b.def = [blk \in 1 .. 2 |-> [x \in Names |-> NoValue]]
<1> DEFINE E == EmptyFunction
           A == [blk \in 1 .. 2 |-> <<>>]
           D == [blk \in 1 .. 2 |-> [x \in Names |-> NoValue]]
<1>1. E.blocks = 0
  BY DEF EmptyFunction
<1>2. 0 + 2 = 2 /\ Blocks(E) = {}
  BY <1>1 DEF Blocks
<1>3. b = [E EXCEPT !.blocks = 2, !.preds = A, !.succs = A, !.def = D, !.code = A]
  BY <1>1, <1>2 DEF NewBlocks
<1> HIDE DEF A, D
<1>4. b = [blocks |-> 2, preds |-> A, succs |-> A, def |-> D, code |-> A,
           sealed |-> {}, home |-> <<>>, phis |-> [p \in {} |-> 0], incomplete |-> {},
           cur |-> Entry, stuck |-> FALSE]
  BY <1>3, Zenon DEF EmptyFunction
<1> QED
  BY <1>4 DEF A, D, IsRec

\* It is sound.
LEMMA InitSound ==
  ASSUME NEW b, b = NewBlocks(EmptyFunction, 2)
  PROVE  Sound(b, {}) /\ Ready(b, Entry, {Destruct}, {}, {}, {}, {})
<1>1. /\ IsRec(b) /\ b.blocks = 2 /\ b.sealed = {} /\ b.home = <<>> /\ b.incomplete = {} /\ b.cur = Entry
      /\ b.stuck = FALSE /\ DOMAIN b.phis = {} /\ b.phis = [p \in {} |-> 0]
      /\ b.preds = [blk \in 1 .. 2 |-> <<>>] /\ b.succs = [blk \in 1 .. 2 |-> <<>>]
      /\ b.code = [blk \in 1 .. 2 |-> <<>>] /\ b.def = [blk \in 1 .. 2 |-> [x \in Names |-> NoValue]]
  BY InitFunction, Zenon
<1>2. Blocks(b) = 1 .. 2 /\ 1 \in 1 .. 2 /\ 2 \in 1 .. 2
  BY <1>1 DEF Blocks
<1>3. \A blk \in Blocks(b) : /\ b.preds[blk] = <<>> /\ b.succs[blk] = <<>> /\ b.code[blk] = <<>>
                             /\ \A x \in Names : b.def[blk][x] = NoValue
  BY <1>1, <1>2
<1>4. DOMAIN b.home = {} /\ \A blk \in Blocks(b) : DOMAIN b.code[blk] = {} /\ DOMAIN b.preds[blk] = {} /\ DOMAIN b.succs[blk] = {}
  BY <1>1, <1>3
<1>5. Typed(b)
  <2> DEFINE B == 1 .. 2
             A == [blk \in B |-> <<>>]
             N == [blk \in B |-> [x \in Names |-> NoValue]]
  <2>1. \A T : <<>> \in Seq(T)
    OBVIOUS
  <2>2. A \in [B -> Seq(B)] /\ A \in [B -> Seq(Steps)]
    <3> HIDE DEF B
    <3> QED
      BY <2>1
  <2>3. N \in [B -> [Names -> Nat]]
    <3> HIDE DEF B
    <3> QED
      BY DEF NoValue
  <2>4. 1 .. b.blocks = B /\ b.preds = A /\ b.succs = A /\ b.code = A /\ b.def = N
    BY <1>1
  <2>5. b.cur \in B /\ b.stuck \in BOOLEAN /\ b.sealed \subseteq B /\ b.incomplete \subseteq Nat
        /\ b.blocks \in Nat
    <3>1. b.cur = 1 /\ b.stuck = FALSE /\ b.sealed = {} /\ b.incomplete = {} /\ b.blocks = 2
      BY <1>1 DEF Entry
    <3>2. b.cur \in B
      BY <3>1
    <3>3. b.sealed \subseteq B /\ b.incomplete \subseteq Nat
      <4> HIDE DEF B
      <4> QED
        BY <3>1
    <3>4. b.stuck \in BOOLEAN
      BY <3>1, Zenon
    <3>5. b.blocks \in Nat
      BY <3>1
    <3> QED
      BY <3>2, <3>3, <3>4, <3>5
  <2>6. b.phis \in [DOMAIN b.phis -> Phis(b.blocks)] /\ DOMAIN b.phis \subseteq Nat
    <3> DEFINE f == [p \in {} |-> 0]
    <3>1. f \in [{} -> Phis(b.blocks)] /\ DOMAIN f = {}
      OBVIOUS
    <3> HIDE DEF f
    <3>2. b.phis = f
      BY <1>1 DEF f
    <3> QED
      BY <3>1, <3>2, Zenon
  <2>7. b.home \in Seq(B)
    BY <1>1, <2>1, Zenon
  <2> HIDE DEF A, N, B
  <2> QED
    BY <1>1, <2>2, <2>3, <2>4, <2>5, <2>6, <2>7, Zenon DEF Typed, IsRec
<1>6. Laid(b)
  <2>1. Linked(b) /\ Reading(b) /\ Single(b) /\ Ordered(b) /\ NewValues(b) /\ Coded(b)
    BY <1>4 DEF Linked, Reading, Single, Ordered, NewValues, Coded
  <2>2. Stored(b)
    BY <1>4, SMTT(30) DEF Stored, LastWrite
  <2> QED
    BY <2>1, <2>2 DEF Laid
<1>7. Known(b, {})
  <2>1. Operands(b) /\ Complete(b, {}) /\ Waiting(b)
    BY <1>1 DEF Operands, Complete, Waiting
  <2>2. Entering(b)
    BY <1>3 DEF Entering
  <2>3. Numbered(b)
    BY <1>1, <1>3 DEF Numbered
  <2>4. Ranked(b)
    <3> DEFINE r == [blk \in Blocks(b) |-> 0]
    <3>1. r \in [Blocks(b) -> Nat]
      OBVIOUS
    <3>2. Ranks(b, r)
      BY <1>3 DEF Ranks
    <3> QED
      BY <3>1, <3>2 DEF Ranked
  <2> QED
    BY <2>1, <2>2, <2>3, <2>4, SMTT(30) DEF Known
<1>8. Sound(b, {})
  BY <1>5, <1>6, <1>7 DEF Sound
<1>9. Blank(b, Destruct)
  BY <1>2, <1>3, <1>4 DEF Blank, Destruct
<1> QED
  BY <1>1, <1>2, <1>3, <1>8, <1>9 DEF Ready, Entry, Destruct

\* The invariant holds at first.
LEMMA InitControl ==
  ASSUME Init
  PROVE  Control
<1> DEFINE t == [kind |-> "params", left |-> Var]
           R == {Destruct}
           none == {}
<1>1. /\ fn = NewBlocks(EmptyFunction, 2) /\ open = <<t>> /\ DOMAIN labelled = {} /\ placed = {} /\ ~built
  BY DEF Init
<1>2. t.kind = "params" /\ t.left = Var
  OBVIOUS
<1>3. /\ open = Append(<<>>, t) /\ DOMAIN open = {1} /\ Len(open) = 1 /\ open[1] = t /\ open # <<>>
  BY <1>1
<1>4. ~Ending /\ LabelBlocks = {}
  BY <1>1, <1>2, <1>3 DEF Ending, LabelBlocks
<1>5. Rest = R
  BY <1>4 DEF Rest
<1>6. FreshOf(t) = {} /\ HeadOf(t) = {} /\ LeafOf(t) = {} /\ JoinOf(t) = {} /\ DoneOf(t) = {} /\ Shaped(t)
  BY <1>2 DEF FreshOf, HeadOf, LeafOf, JoinOf, DoneOf, Shaped
<1> HIDE DEF t
<1> DEFINE B == <<>>
<1>7. FreshIn(B) = {} /\ HeadIn(B) = {} /\ LeafIn(B) = {} /\ JoinIn(B) = {} /\ DoneIn(B) = {}
      /\ List(B) /\ ClaimsIn(B) = {} /\ Stacked(B, R)
  BY NothingIn
<1>8. DOMAIN B = {} /\ open = Append(B, t)
  BY <1>3
<1> HIDE DEF B
<1>9. IsOn(open, B, t)
  BY <1>7, <1>8, Pushed, Zenon
<1>10. FreshIn(open) = {} /\ HeadIn(open) = {} /\ LeafIn(open) = {} /\ JoinIn(open) = {} /\ DoneIn(open) = {}
  BY <1>6, <1>7, <1>9, SetsOn
<1>11. Stacked(open, R)
  <2>1. Claims(t) \cap R = {} /\ Claims(t) \cap ClaimsIn(B) = {}
    BY <1>6 DEF Claims
  <2> QED
    BY <1>6, <1>7, <1>8, <1>9, <2>1, StackedOn
<1>12. Ready(fn, Entry, R, none, none, none, none)
  BY <1>1, InitSound, Zenon
<1>13. fn.cur = Entry /\ fn.succs[fn.cur] = <<>> /\ Entry \in Blocks(fn) /\ Entry \notin fn.sealed
  <2>1. /\ fn.blocks = 2 /\ fn.sealed = {} /\ fn.cur = 1 /\ fn.succs = [blk \in 1 .. 2 |-> <<>>]
    BY <1>1, InitFunction, Zenon DEF Entry
  <2>2. 1 \in 1 .. 2 /\ Blocks(fn) = 1 .. 2
    BY <2>1 DEF Blocks
  <2>3. fn.succs[1] = <<>>
    BY <2>1, <2>2
  <2> QED
    BY <2>1, <2>2, <2>3 DEF Entry
<1>14. FreshIn(open) \cup R = R
  BY <1>10
<1>15. Standing(fn, open, Rest)
  BY <1>5, <1>10, <1>11, <1>12, <1>13, <1>14 DEF Standing
<1>16. Lively(fn, open) /\ Alone(open)
  BY <1>3, <1>13 DEF Lively, Alone
<1> QED
  BY <1>1, <1>4, <1>13, <1>15, <1>16 DEF Control

\* All forms of for.
LEMMA ForControl ==
  ASSUME MaxReads \in Nat, Control, NEW three \in BOOLEAN, NEW condition \in BOOLEAN,
         For(three, condition), ~fn'.stuck
  PROVE  Control'
<1>1. CASE three = TRUE /\ condition = TRUE
  BY <1>1, ForThreeConditionBegins
<1>2. CASE three = TRUE /\ condition = FALSE
  BY <1>2, ForThreeEverBegins, Zenon
<1>3. CASE three = FALSE /\ condition = TRUE
  BY <1>3, ForConditionBegins, Zenon
<1>4. CASE three = FALSE /\ condition = FALSE
  BY <1>4, ForEverBegins, Zenon
<1> QED
  BY <1>1, <1>2, <1>3, <1>4, Zenon

\* All forms of its body.
LEMMA ForBodyControl ==
  ASSUME MaxReads \in Nat, Control, ForBody, ~fn'.stuck
  PROVE  Control'
<1>1. Top.kind = "condition" \/ Top.kind = "forever"
  BY DEF ForBody, In
<1> QED
  BY <1>1, ForBodyBranches, ForBodyGoes

\* Every step of the builder.
LEMMA BuildControl ==
  ASSUME MaxReads \in Nat, ~BackwardGoto, Control, Step, ~fn'.stuck
  PROVE  Control'
<1>1. ~fn'.stuck /\ Step
  OBVIOUS
<1>2. CASE Parameter
  BY <1>1, <1>2, ParameterControl
<1>3. CASE Begin
  BY <1>1, <1>3, BeginControl
<1>4. CASE \E x \in Var : AssignStatement(x) \/ UseVariable(x)
  BY <1>1, <1>4, AssignControl, UseControl
<1>5. CASE \E x, y \in Var : x # y /\ CopyStatement(x, y)
  BY <1>1, <1>5, CopyControl
<1>6. CASE \E op \in {"and", "or"} : Logical(op)
  BY <1>1, <1>6, AndControl, OrControl
<1>7. CASE \E new \in BOOLEAN : EndAnd(new) \/ EndOr(new)
  BY <1>1, <1>7, EndAndControl, EndOrControl
<1>8. CASE If \/ IfElse \/ Else \/ EndBranches
  BY <1>1, <1>8, IfControl, IfElseControl, ElseControl, BranchesControl
<1>9. CASE \E three, condition \in BOOLEAN : For(three, condition)
  BY <1>1, <1>9, ForControl
<1>10. CASE ForBody \/ EndFor \/ BeginPost \/ EndPost
  BY <1>1, <1>10, ForBodyControl, EndForControl, BeginPostControl, EndPostControl
<1>11. CASE \E x \in Var : RangeStatement({x}, {}) \/ RangeStatement({}, {x})
  <2>1. PICK x \in Var : RangeStatement({x}, {}) \/ RangeStatement({}, {x})
    BY <1>11
  <2> DEFINE one == {x}
             none == {}
  <2>2. one \in SUBSET Var /\ none \in SUBSET Var
    OBVIOUS
  <2>3. RangeStatement(one, none) \/ RangeStatement(none, one)
    BY <2>1
  <2> HIDE DEF one, none
  <2> QED
    BY <1>1, <2>2, <2>3, RangeControl
<1>12. CASE Element \/ EndRange
  BY <1>1, <1>12, ElementControl, EndRangeControl
<1>13. CASE \E n \in 0 .. MaxClauses, default \in BOOLEAN : Switch(n, default)
  <2>1. PICK n \in 0 .. MaxClauses, default \in BOOLEAN : Switch(n, default)
    BY <1>13
  <2>2. n \in Nat
    OBVIOUS
  <2> QED
    BY <1>1, <2>1, <2>2, SwitchControl
<1>14. CASE \E more \in BOOLEAN : Test(more)
  BY <1>1, <1>14, TestControl
<1>15. CASE LastTest \/ SealClause \/ FirstClause \/ NextClause
  BY <1>1, <1>15, LastTestControl, SealClauseControl, FirstClauseControl, NextControl
<1>16. CASE \E i \in Breakable : Break(i)
  BY <1>1, <1>16, BreakControl
<1>17. CASE \E i \in Loops : Continue(i)
  BY <1>1, <1>17, ContinueControl
<1>18. CASE ReturnStatement
  BY <1>1, <1>18, ReturnControl
<1>19. CASE \E l \in Labels : GotoStatement(l) \/ LabelStatement(l)
  BY <1>1, <1>19, GotoControl, LabelControl
<1>20. CASE EnterDestruct \/ Finish
  BY <1>1, <1>20, DestructControl, FinishControl
<1> QED
  BY <1>1, <1>2, <1>3, <1>4, <1>5, <1>6, <1>7, <1>8, <1>9, <1>10, <1>11, <1>12, <1>13, <1>14,
     <1>15, <1>16, <1>17, <1>18, <1>19, <1>20, Zenon DEF Step

-----------------------------------------------------------------------------
\* A block is run: what each variable holds after each of its instructions.

\* What the variables may hold.
Holding == [Names -> SUBSET Values]

\* After the first k instructions of a block a variable holds the value last written to
\* it, or whatever value it has at the entry.
Tracks(blk, k, g) ==
  \A x \in Names :
    /\ \A j \in Nat : LastWrite(fn, blk, x, k + 1, j) => fn.code[blk][j].val \in g[x]
    /\ (\A i \in DOMAIN fn.code[blk] : i <= k => x \notin fn.code[blk][i].writes) =>
         \A v : EntryValue(fn, blk, x, v) => v \in g[x]

\* The values are those that have a home.
LEMMA ValuesDomain ==
  ASSUME Typed(fn)
  PROVE  Values = DOMAIN fn.home
<1> QED
  BY DEF Typed, Values

\* What the variables hold after an instruction.
Gives(a, h, g) ==
  /\ g \in Holding
  /\ a.reads = {} => \A x \in Names : g[x] = IF x \in a.writes THEN {a.val} ELSE h[x] \ {a.val}
  /\ \A y \in a.reads : \A x \in Names : g[x] = IF x \in a.writes THEN h[y] ELSE h[x]

\* An instruction of the model gives that.
LEMMA PerformedFacts ==
  ASSUME NEW a \in Steps, NEW h \in Holding, a.val \in Values, \A x, y \in a.reads : x = y,
         NEW g, g = Performed(a, h)
  PROVE  Gives(a, h, g)
<1>1. a.reads \subseteq Names
  BY DEF Steps
<1>2. h \in [Names -> SUBSET Values]
  BY DEF Holding
<1>3. CASE a.reads = {}
  <2>1. g = [x \in Names |-> IF x \in a.writes THEN {a.val} ELSE h[x] \ {a.val}]
    BY <1>3 DEF Performed
  <2> QED
    BY <1>2, <1>3, <2>1 DEF Holding, Gives
<1>4. CASE a.reads # {}
  <2>1. PICK y : y \in a.reads
    BY <1>4
  <2>2. (CHOOSE z \in a.reads : TRUE) = y
    BY <2>1
  <2>3. g = [x \in Names |-> IF x \in a.writes THEN h[y] ELSE h[x]]
    BY <1>4, <2>2 DEF Performed
  <2>4. \A z \in a.reads : z = y
    BY <2>1
  <2> QED
    BY <1>1, <1>2, <1>4, <2>1, <2>3, <2>4 DEF Holding, Gives
<1> QED
  BY <1>3, <1>4

\* A variable that is written has a last write.
LEMMA LastWriteExists ==
  ASSUME NEW b, Typed(b), NEW blk \in Blocks(b), NEW x, NEW n \in Nat,
         NEW i \in DOMAIN b.code[blk], i < n, x \in b.code[blk][i].writes
  PROVE  \E j \in Nat : LastWrite(b, blk, x, n, j)
<1> DEFINE S == {j \in DOMAIN b.code[blk] : j < n /\ x \in b.code[blk][j].writes}
<1>1. DOMAIN b.code[blk] \subseteq Nat \ {0}
  <2>1. b.code[blk] \in Seq(Steps)
    BY TypedFacts
  <2> QED
    BY <2>1
<1>2. S \subseteq 1 .. n /\ i \in S
  BY <1>1
<1> HIDE DEF S
<1>3. PICK j \in S : \A k \in S : k <= j
  BY <1>2, LastNumber, Zenon
<1>4. j \in DOMAIN b.code[blk] /\ j < n /\ x \in b.code[blk][j].writes /\ j \in Nat
  BY <1>1, <1>3 DEF S
<1>5. \A k \in DOMAIN b.code[blk] : j < k /\ k < n => x \notin b.code[blk][k].writes
  <2> SUFFICES ASSUME NEW k \in DOMAIN b.code[blk], j < k, k < n, x \in b.code[blk][k].writes
               PROVE  FALSE
    OBVIOUS
  <2>1. k \in S
    BY DEF S
  <2>2. k \in Nat
    BY <1>1
  <2> QED
    BY <1>3, <1>4, <2>1, <2>2
<1> QED
  BY <1>4, <1>5 DEF LastWrite

\* A value made in a block is not one that a variable has at the entry of the block.
LEMMA NewIsNoEntry ==
  ASSUME NEW b, Sound(b, {}), NEW blk \in Blocks(b), NEW k \in DOMAIN b.code[blk],
         b.code[blk][k].reads = {}, NEW x \in Names, NEW v, EntryValue(b, blk, x, v)
  PROVE  v # b.code[blk][k].val
<1> DEFINE w == b.code[blk][k].val
<1>1. w \notin DOMAIN b.phis /\ b.home[w] = blk
  BY DEF Sound, Laid, NewValues
<1> HIDE DEF w
<1>2. CASE v \in DOMAIN b.phis
  BY <1>1, <1>2 DEF w
<1>3. CASE v \notin DOMAIN b.phis
  <2> DEFINE u == b.preds[blk][1]
  <2>1. Len(b.preds[blk]) = 1 /\ v # NoValue /\ b.def[u][x] = v
    BY <1>3 DEF EntryValue
  <2>2. Typed(b) /\ b.preds[blk] \in Seq(Blocks(b))
    BY TypedFacts DEF Sound
  <2>3. 1 \in DOMAIN b.preds[blk] /\ u \in Blocks(b) /\ b.preds[blk] # <<>>
    BY <2>1, <2>2
  <2>4. PICK r \in [Blocks(b) -> Nat] : Ranks(b, r)
    BY DEF Sound, Known, Ranked
  <2> HIDE DEF u
  <2>5. r[u] < r[blk] /\ r[b.home[v]] <= r[u]
    BY <2>1, <2>3, <2>4 DEF Ranks, u
  <2>6. r[u] \in Nat /\ r[blk] \in Nat
    BY <2>3
  <2>7. v # w
    <3> SUFFICES ASSUME v = w PROVE FALSE
      OBVIOUS
    <3>1. r[blk] <= r[u]
      BY <1>1, <2>5
    <3> QED
      BY <2>5, <2>6, <3>1
  <2> QED
    BY <2>7 DEF w
<1> QED
  BY <1>2, <1>3

\* A use sees the value last written, or that at the entry.
LEMMA TrackRead ==
  ASSUME Sound(fn, {}), NEW blk \in Blocks(fn), NEW k \in DOMAIN fn.code[blk], NEW g,
         Tracks(blk, k - 1, g), NEW y \in fn.code[blk][k].reads
  PROVE  y \in Names /\ fn.code[blk][k].val \in g[y]
<1>1. Typed(fn) /\ Reading(fn) /\ k \in Nat /\ y \in Names /\ (k - 1) + 1 = k
      /\ DOMAIN fn.code[blk] \subseteq Nat
  BY TypedFacts DEF Sound, Laid
<1>2. CASE \E i \in DOMAIN fn.code[blk] : i < k /\ y \in fn.code[blk][i].writes
  <2>1. PICK j \in Nat : LastWrite(fn, blk, y, k, j)
    BY <1>1, <1>2, LastWriteExists, Zenon
  <2>2. fn.code[blk][k].val = fn.code[blk][j].val
    BY <1>1, <2>1 DEF Reading
  <2>3. fn.code[blk][j].val \in g[y]
    BY <1>1, <2>1 DEF Tracks
  <2> QED
    BY <1>1, <2>2, <2>3
<1>3. CASE \A i \in DOMAIN fn.code[blk] : i < k => y \notin fn.code[blk][i].writes
  <2>1. EntryValue(fn, blk, y, fn.code[blk][k].val)
    BY <1>1, <1>3 DEF Reading
  <2>2. \A i \in DOMAIN fn.code[blk] : i <= k - 1 => i < k
    BY <1>1
  <2> QED
    BY <1>1, <1>3, <2>1, <2>2 DEF Tracks
<1> QED
  BY <1>2, <1>3

\* The last write before the next instruction is that instruction, or is as before.
LEMMA LastWriteStep ==
  ASSUME NEW b, Typed(b), NEW blk \in Blocks(b), NEW k \in DOMAIN b.code[blk], NEW x,
         NEW j \in Nat, LastWrite(b, blk, x, k + 1, j)
  PROVE  /\ x \in b.code[blk][k].writes => j = k
         /\ x \notin b.code[blk][k].writes => j < k /\ LastWrite(b, blk, x, k, j)
<1>1. k \in Nat /\ k < k + 1 /\ DOMAIN b.code[blk] \subseteq Nat
  BY TypedFacts
<1>2. j \in DOMAIN b.code[blk] /\ j <= k /\ x \in b.code[blk][j].writes
  BY <1>1 DEF LastWrite
<1>3. j < k => x \notin b.code[blk][k].writes
  BY <1>1 DEF LastWrite
<1>4. x \notin b.code[blk][k].writes => j < k
  <2>1. j = k \/ j < k
    BY <1>1, <1>2
  <2> QED
    BY <1>2, <2>1
<1>5. \A i \in DOMAIN b.code[blk] : i < k => i < k + 1
  BY <1>1
<1>6. j < k => LastWrite(b, blk, x, k, j)
  BY <1>2, <1>5 DEF LastWrite
<1> QED
  BY <1>1, <1>2, <1>3, <1>4, <1>6

\* An instruction more.
LEMMA TrackStep ==
  ASSUME Sound(fn, {}), NEW blk \in Blocks(fn), NEW k \in DOMAIN fn.code[blk], NEW g \in Holding,
         Tracks(blk, k - 1, g), NEW h, h = Performed(fn.code[blk][k], g)
  PROVE  h \in Holding /\ Tracks(blk, k, h)
<1> DEFINE a == fn.code[blk][k]
<1>1. Typed(fn) /\ a \in Steps /\ k \in Nat /\ (k - 1) + 1 = k /\ a.val \in Values
      /\ DOMAIN fn.code[blk] \subseteq Nat
  <2>1. Typed(fn) /\ Coded(fn)
    BY DEF Sound, Laid
  <2>2. a.val \in DOMAIN fn.home
    BY <2>1 DEF Coded
  <2>3. a \in Steps /\ k \in Nat /\ DOMAIN fn.code[blk] \subseteq Nat
    BY <2>1, TypedFacts
  <2> HIDE DEF a
  <2>4. (k - 1) + 1 = k
    BY <2>3
  <2> QED
    BY <2>1, <2>2, <2>3, <2>4, ValuesDomain
<1>2. \A x, y \in a.reads : x = y
  BY DEF Sound, Laid, Single
<1>3. \A y \in a.reads : y \in Names /\ a.val \in g[y]
  BY TrackRead
<1>4. \A j \in DOMAIN fn.code[blk] : j < k /\ a.reads = {} => fn.code[blk][j].val # a.val
  <2> SUFFICES ASSUME NEW j \in DOMAIN fn.code[blk], j < k, a.reads = {}
               PROVE  fn.code[blk][j].val # a.val
    OBVIOUS
  <2>1. fn.code[blk][j].val < a.val
    BY DEF Sound, Laid, Ordered
  <2>2. fn.code[blk][j].val \in Nat /\ a.val \in Nat
    BY <1>1, TypedFacts
  <2> QED
    BY <2>1, <2>2
<1>5. \A x \in Names : \A v : a.reads = {} /\ EntryValue(fn, blk, x, v) => v # a.val
  BY NewIsNoEntry
<1> HIDE DEF a
<1>6. h = Performed(a, g)
  BY DEF a
<1>7. /\ h \in Holding
      /\ a.reads = {} => \A x \in Names : h[x] = IF x \in a.writes THEN {a.val} ELSE g[x] \ {a.val}
      /\ \A y \in a.reads : \A x \in Names : h[x] = IF x \in a.writes THEN g[y] ELSE g[x]
  <2>1. Gives(a, g, h)
    BY <1>1, <1>2, <1>6, PerformedFacts
  <2> QED
    BY <2>1, Zenon DEF Gives
<1>8. ASSUME NEW x \in Names, x \in a.writes
      PROVE  a.val \in h[x]
  BY <1>3, <1>7, <1>8, Zenon
<1>9. ASSUME NEW x \in Names, x \notin a.writes, NEW v \in g[x], a.reads = {} => v # a.val
      PROVE  v \in h[x]
  BY <1>7, <1>9, Zenon
<1>10. ASSUME NEW x \in Names, NEW j \in Nat, LastWrite(fn, blk, x, k + 1, j)
       PROVE  fn.code[blk][j].val \in h[x]
  <2>1. /\ x \in a.writes => j = k
        /\ x \notin a.writes => j < k /\ LastWrite(fn, blk, x, k, j)
    BY <1>1, <1>10, LastWriteStep DEF a
  <2>2. CASE x \in a.writes
    BY <1>8, <2>1, <2>2 DEF a
  <2>3. CASE x \notin a.writes
    <3>1. fn.code[blk][j].val \in g[x]
      BY <1>1, <2>1, <2>3 DEF Tracks
    <3>2. j \in DOMAIN fn.code[blk]
      BY <1>10 DEF LastWrite
    <3> QED
      BY <1>4, <1>9, <2>1, <2>3, <3>1, <3>2
  <2> QED
    BY <2>2, <2>3
<1>11. ASSUME NEW x \in Names, \A i \in DOMAIN fn.code[blk] : i <= k => x \notin fn.code[blk][i].writes,
              NEW v, EntryValue(fn, blk, x, v)
       PROVE  v \in h[x]
  <2>1. x \notin a.writes
    BY <1>1, <1>11 DEF a
  <2>2. \A i \in DOMAIN fn.code[blk] : i <= k - 1 => i <= k
    BY <1>1
  <2>3. v \in g[x]
    BY <1>11, <2>2 DEF Tracks
  <2> QED
    BY <1>5, <1>9, <1>11, <2>1, <2>3
<1>12. Tracks(blk, k, h)
  BY <1>10, <1>11 DEF Tracks
<1> QED
  BY <1>7, <1>12

-----------------------------------------------------------------------------
\* A block is entered, run and left.

\* The variables hold their values at the entry of a block.
HoldsAtEntry(blk, h) ==
  h \in Holding /\ \A x \in Names : \A v : EntryValue(fn, blk, x, v) => v \in h[x]

\* A block is left with the variables at the values that readVariable finds there.
HoldsAtExit(blk, h) ==
  h \in Holding /\ \A x \in Names : fn.def[blk][x] # NoValue => fn.def[blk][x] \in h[x]

\* The code of a block has n instructions and n is a number.
LEMMA CodeDomain ==
  ASSUME Typed(fn), NEW blk \in Blocks(fn)
  PROVE  Len(fn.code[blk]) \in Nat /\ DOMAIN fn.code[blk] = 1 .. Len(fn.code[blk])
<1>1. fn.code[blk] \in Seq(Steps)
  BY TypedFacts
<1> QED
  BY <1>1

\* All instructions, one after the other.
LEMMA BlockTracks ==
  ASSUME Sound(fn, {}), NEW blk \in Blocks(fn), NEW h, HoldsAtEntry(blk, h),
         NEW n, n = Len(fn.code[blk])
  PROVE  \A k \in 0 .. n : After(blk, h)[k] \in Holding /\ Tracks(blk, k, After(blk, h)[k])
<1> DEFINE c == fn.code[blk]
           Z == Holding
<1>1. n \in Nat /\ DOMAIN c = 1 .. n /\ Typed(fn)
  BY CodeDomain DEF Sound
<1>2. \A k \in 1 .. n : k \in DOMAIN c /\ c[k] \in Steps /\ c[k].val \in Values
                        /\ \A x, y \in c[k].reads : x = y
  <2> SUFFICES ASSUME NEW k \in DOMAIN c
               PROVE  c[k] \in Steps /\ c[k].val \in Values /\ \A x, y \in c[k].reads : x = y
    BY <1>1
  <2>1. c[k] \in Steps
    BY <1>1, TypedFacts
  <2>2. c[k].val \in Values
    BY <1>1, ValuesDomain DEF Sound, Laid, Coded
  <2>3. \A x, y \in c[k].reads : x = y
    BY DEF Sound, Laid, Single
  <2> QED
    BY <2>1, <2>2, <2>3
<1>3. h \in Z
  BY DEF HoldsAtEntry
<1> HIDE DEF c
<1>4. ASSUME NEW k \in 1 .. n, NEW g \in Z PROVE Performed(c[k], g) \in Z
  <2> DEFINE a == c[k]
             d == Performed(a, g)
  <2>1. a \in Steps /\ a.val \in Values /\ \A x, y \in a.reads : x = y
    BY <1>2
  <2>2. d = Performed(a, g) /\ g \in Holding
    OBVIOUS
  <2> HIDE DEF a, d
  <2>3. Gives(a, g, d)
    BY <2>1, <2>2, PerformedFacts
  <2>4. d \in Holding
    BY <2>3 DEF Gives
  <2> QED
    BY <2>4 DEF a, d
<1> HIDE DEF Z
<1> DEFINE step == [k \in 1 .. n |-> [g \in Z |-> Performed(c[k], g)]]
<1>5. step \in [1 .. n -> [Z -> Z]] /\ \A k \in 1 .. n, g \in Z : step[k][g] = Performed(c[k], g)
  BY <1>4
<1> HIDE DEF step
<1>6. PICK f : IsWalk(f, n, Z, h, step)
  BY <1>1, <1>3, <1>5, RecursionExists, Zenon
<1>7. f \in [0 .. n -> Z] /\ f[0] = h /\ \A k \in 1 .. n : f[k] = step[k][f[k - 1]]
  BY <1>6 DEF IsWalk
<1> DEFINE G(g) == [k \in 0 .. n |-> IF k = 0 THEN h ELSE Performed(c[k], g[k - 1])]
<1>8. f = G(f)
  <2>1. ASSUME NEW k \in 0 .. n, k # 0 PROVE f[k] = Performed(c[k], f[k - 1])
    <3>1. k \in 1 .. n /\ k - 1 \in 0 .. n
      BY <1>1, <2>1
    <3>2. f[k - 1] \in Z
      BY <1>7, <3>1
    <3> QED
      BY <1>5, <1>7, <3>1, <3>2
  <2>2. \A k \in 0 .. n : f[k] = IF k = 0 THEN h ELSE Performed(c[k], f[k - 1])
    BY <1>7, <2>1
  <2> QED
    BY <1>7, <2>2
<1> DEFINE e == CHOOSE g : g = G(g)
<1>9. e = G(e)
  <2> HIDE DEF G
  <2> QED
    BY <1>8
<1>10. After(blk, h) = e
  BY DEF After, c
<1> HIDE DEF e
<1>11. \A k \in 0 .. n : e[k] = IF k = 0 THEN h ELSE Performed(c[k], e[k - 1])
  BY <1>9, Zenon
<1> HIDE DEF G
<1> DEFINE S == {k \in 0 .. n : e[k] \in Z /\ Tracks(blk, k, e[k])}
<1>12. 0 \in S
  <2>1. 0 \in 0 .. n /\ e[0] = h
    BY <1>1, <1>11
  <2>2. Tracks(blk, 0, h)
    <3>1. \A j \in Nat : \A x : ~LastWrite(fn, blk, x, 0 + 1, j)
      <4> SUFFICES ASSUME NEW j \in Nat, NEW x, LastWrite(fn, blk, x, 0 + 1, j) PROVE FALSE
        OBVIOUS
      <4>1. j \in 1 .. n /\ j < 1
        BY <1>1 DEF LastWrite, c
      <4> QED
        BY <1>1, <4>1
    <3> QED
      BY <3>1 DEF Tracks, HoldsAtEntry
  <2> QED
    BY <1>3, <2>1, <2>2
<1>13. ASSUME NEW k \in 1 .. n, k - 1 \in S PROVE k \in S
  <2>1. k \in 0 .. n /\ k # 0 /\ e[k - 1] \in Holding /\ Tracks(blk, k - 1, e[k - 1])
    BY <1>1, <1>13 DEF Z
  <2>2. e[k] = Performed(fn.code[blk][k], e[k - 1]) /\ k \in DOMAIN fn.code[blk]
    BY <1>1, <1>11, <2>1 DEF c
  <2>3. e[k] \in Holding /\ Tracks(blk, k, e[k])
    BY <2>1, <2>2, TrackStep
  <2> QED
    BY <2>1, <2>3 DEF Z
<1> HIDE DEF S
<1>14. \A k \in 0 .. n : k \in S
  BY <1>1, <1>12, <1>13, Onwards, Zenon
<1> QED
  BY <1>10, <1>14 DEF S, Z

\* A block that is entered with the variables at their values leaves them so, and all its
\* reads agree.
LEMMA BlockRuns ==
  ASSUME Sound(fn, {}), NEW blk \in Blocks(fn), NEW h, HoldsAtEntry(blk, h)
  PROVE  Agrees(blk, h) /\ HoldsAtExit(blk, After(blk, h)[Len(fn.code[blk])])
<1> DEFINE n == Len(fn.code[blk])
           g == After(blk, h)
<1>1. n \in Nat /\ DOMAIN fn.code[blk] = 1 .. n /\ Typed(fn)
  BY CodeDomain DEF Sound
<1>2. \A k \in 0 .. n : g[k] \in Holding /\ Tracks(blk, k, g[k])
  BY BlockTracks
<1> HIDE DEF n, g
<1>3. Agrees(blk, h)
  <2> SUFFICES ASSUME NEW k \in DOMAIN fn.code[blk], NEW x \in fn.code[blk][k].reads
               PROVE  fn.code[blk][k].val \in g[k - 1][x]
    BY DEF Agrees, g
  <2>1. k - 1 \in 0 .. n
    BY <1>1
  <2>2. Tracks(blk, k - 1, g[k - 1])
    BY <1>2, <2>1
  <2> QED
    BY <2>2, TrackRead
<1>4. n \in 0 .. n
  BY <1>1
<1>5. g[n] \in Holding /\ Tracks(blk, n, g[n])
  BY <1>2, <1>4
<1>6. ASSUME NEW x \in Names, fn.def[blk][x] # NoValue
      PROVE  fn.def[blk][x] \in g[n][x]
  <2>1. CASE Written(fn, blk, x)
    <3>1. PICK i \in DOMAIN fn.code[blk] : x \in fn.code[blk][i].writes
      BY <2>1 DEF Written
    <3>2. i < n + 1 /\ n + 1 \in Nat
      BY <1>1
    <3>3. PICK j \in Nat : LastWrite(fn, blk, x, n + 1, j)
      BY <1>1, <3>1, <3>2, LastWriteExists, Zenon
    <3>4. fn.def[blk][x] = fn.code[blk][j].val
      BY <3>3 DEF Sound, Laid, Stored, n
    <3> QED
      BY <1>5, <3>3, <3>4 DEF Tracks
  <2>2. CASE ~Written(fn, blk, x)
    <3>1. EntryValue(fn, blk, x, fn.def[blk][x])
      BY <1>6, <2>2 DEF Sound, Known, Entering
    <3>2. \A i \in DOMAIN fn.code[blk] : i <= n => x \notin fn.code[blk][i].writes
      BY <2>2 DEF Written
    <3> QED
      BY <1>5, <3>1, <3>2 DEF Tracks
  <2> QED
    BY <2>1, <2>2
<1>7. HoldsAtExit(blk, g[n])
  BY <1>5, <1>6 DEF HoldsAtExit
<1> QED
  BY <1>3, <1>7 DEF g, n

\* The function is entered.
LEMMA StartHolds ==
  ASSUME Sound(fn, {}), NEW blk \in Blocks(fn)
  PROVE  HoldsAtEntry(blk, [x \in Names |-> Values])
<1> DEFINE h == [x \in Names |-> Values]
<1>1. h \in Holding /\ \A x \in Names : h[x] = Values
  BY DEF Holding
<1> HIDE DEF h
<1>2. ASSUME NEW x \in Names, NEW v, EntryValue(fn, blk, x, v) PROVE v \in Values
  <2>1. Typed(fn) /\ Numbered(fn)
    BY DEF Sound, Known
  <2>2. CASE v \in DOMAIN fn.phis
    BY <2>1, <2>2, ValuesDomain DEF Numbered
  <2>3. CASE v \notin DOMAIN fn.phis
    <3> DEFINE u == fn.preds[blk][1]
    <3>1. Len(fn.preds[blk]) = 1 /\ v # NoValue /\ fn.def[u][x] = v
      BY <1>2, <2>3 DEF EntryValue
    <3>2. fn.preds[blk] \in Seq(Blocks(fn))
      BY <2>1, TypedFacts
    <3>3. u \in Blocks(fn)
      BY <3>1, <3>2
    <3> HIDE DEF u
    <3> QED
      BY <2>1, <3>1, <3>3, ValuesDomain DEF Numbered
  <2> QED
    BY <2>2, <2>3
<1>3. HoldsAtEntry(blk, h)
  BY <1>1, <1>2 DEF HoldsAtEntry
<1> QED
  BY <1>3 DEF h

\* A jump: the phis take the operands of the edge.
LEMMA JumpHolds ==
  ASSUME Sound(fn, {}), \A u \in Blocks(fn) : fn.preds[u] # <<>> => u \in fn.sealed,
         here \in Blocks(fn), HoldsAtExit(here, holds), NEW k \in DOMAIN fn.succs[here],
         NEW blk, blk = fn.succs[here][k]
  PROVE  blk \in Blocks(fn) /\ HoldsAtEntry(blk, Entered(here, blk))
<1> DEFINE h == Entered(here, blk)
<1>1. Typed(fn) /\ Linked(fn) /\ Numbered(fn) /\ Operands(fn) /\ Complete(fn, {})
  BY DEF Sound, Laid, Known
<1>2. blk \in Blocks(fn)
  BY <1>1, TypedFacts
<1>3. PICK m \in DOMAIN fn.preds[blk] : fn.preds[blk][m] = here
  BY <1>1 DEF Linked
<1>4. fn.preds[blk] \in Seq(Blocks(fn))
  BY <1>1, <1>2, TypedFacts
<1>5. fn.preds[blk] # <<>> /\ blk \in fn.sealed
  <2>1. fn.preds[blk] # <<>>
    BY <1>3, <1>4
  <2> QED
    BY <1>2, <2>1
<1>6. h = [x \in Names |->
             {v \in Values :
                IF v \in PhisOf(blk)
                THEN OperandsFrom(v, here) # {} /\ \A e \in OperandsFrom(v, here) : e.val \in holds[x]
                ELSE v \in holds[x]}]
  BY DEF Entered
<1> HIDE DEF h
<1>7. h \in Holding
  BY <1>6 DEF Holding
<1>8. ASSUME NEW x \in Names, NEW v, v \in DOMAIN fn.phis, fn.home[v] = blk, fn.phis[v].var = x
      PROVE  v \in h[x]
  <2>1. v \in Values /\ v \in PhisOf(blk)
    BY <1>1, <1>8, ValuesDomain DEF Numbered, PhisOf
  <2>2. Len(fn.phis[v].edges) = Len(fn.preds[blk])
    BY <1>1, <1>5, <1>8 DEF Complete
  <2>3. fn.phis[v].edges \in Seq(Edges(fn.blocks))
    BY <1>1, <1>8, TypedFacts
  <2>4. m \in DOMAIN fn.phis[v].edges
    BY <1>3, <1>4, <2>2, <2>3, SMTT(30)
  <2>5. fn.phis[v].edges[m].from = here
    BY <1>1, <1>3, <1>8, <2>4, SMTT(30) DEF Operands
  <2>6. OperandsFrom(v, here) # {}
    BY <2>4, <2>5, SMTT(30) DEF OperandsFrom
  <2>7. ASSUME NEW e \in OperandsFrom(v, here) PROVE e.val \in holds[x]
    <3>1. PICK i \in DOMAIN fn.phis[v].edges : e = fn.phis[v].edges[i] /\ e.from = here
      BY SMTT(30) DEF OperandsFrom
    <3>2. e.from = fn.preds[blk][i] /\ e.val # NoValue /\ e.val = fn.def[fn.preds[blk][i]][x]
      BY <1>1, <1>8, <3>1, SMTT(30) DEF Operands
    <3> QED
      BY <3>1, <3>2, ZenonT(30) DEF HoldsAtExit
  <2> QED
    BY <1>6, <2>1, <2>6, <2>7
<1>9. ASSUME NEW x \in Names, NEW v, Len(fn.preds[blk]) = 1, v # NoValue,
             fn.def[fn.preds[blk][1]][x] = v
      PROVE  v \in h[x]
  <2>1. m = 1
    BY <1>3, <1>4, <1>9, SMTT(30)
  <2>2. v = fn.def[here][x] /\ v \in holds[x]
    BY <1>3, <1>9, <2>1, SMTT(30) DEF HoldsAtExit
  <2>3. v \in Values
    BY <1>1, <1>9, <2>2, ValuesDomain DEF Numbered
  <2>4. v \notin PhisOf(blk)
    <3> SUFFICES ASSUME fn.home[v] = blk PROVE FALSE
      BY SMTT(30) DEF PhisOf
    <3>1. PICK r \in [Blocks(fn) -> Nat] : Ranks(fn, r)
      BY SMTT(30) DEF Sound, Known, Ranked
    <3>2. r[here] < r[blk] /\ r[fn.home[v]] <= r[here]
      BY <1>2, <1>3, <1>5, <1>9, <2>1, <2>2, <3>1, ZenonT(30) DEF Ranks
    <3>3. r[here] \in Nat /\ r[blk] \in Nat
      BY <1>2, SMTT(30)
    <3> QED
      BY <3>2, <3>3
  <2> QED
    BY <1>6, <2>2, <2>3, <2>4, SMTT(30)
<1>10. HoldsAtEntry(blk, h)
  BY <1>7, <1>8, <1>9 DEF HoldsAtEntry, EntryValue
<1> QED
  BY <1>2, <1>10 DEF h

-----------------------------------------------------------------------------
\* The construction and the run together.

\* A run, once there is one, is in a block of the finished function, and the variables
\* hold the values that readVariable finds at the end of that block.
Running ==
  /\ agree
  /\ here = 0 => holds = [x \in Names |-> {}]
  /\ here # 0 => built /\ here \in Blocks(fn) /\ HoldsAtExit(here, holds)

\* The invariant of the specification.
SSAInv == Control /\ Running

\* A read did not end, and nothing happens any more.
Stopped == fn.stuck /\ here = 0 /\ agree

SSAHolds == SSAInv \/ Stopped

\* A statement is lowered only while the function is being built.
LEMMA BuildOpen ==
  ASSUME Step
  PROVE  ~built
<1>1. InBody => ~built
  BY DEF InBody
<1>2. \A kinds : In(kinds) => ~built
  BY DEF In
<1>3. ~(InPost /\ built) /\ ~(InExpression /\ built)
  BY <1>2 DEF InPost, InExpression
<1>4. (\E n : ComesWorth(n)) \/ Comes => ~built
  BY <1>1 DEF ComesWorth, Comes
<1>5. Step
  OBVIOUS
<1>6. CASE Parameter \/ Begin
  BY <1>2, <1>6 DEF Parameter, Begin
<1>7. CASE \E x \in Var : AssignStatement(x) \/ UseVariable(x)
  BY <1>2, <1>3, <1>4, <1>7 DEF AssignStatement, UseVariable
<1>8. CASE \E x, y \in Var : x # y /\ CopyStatement(x, y)
  BY <1>3, <1>4, <1>8 DEF CopyStatement
<1>9. CASE \E op \in {"and", "or"} : Logical(op)
  BY <1>3, <1>4, <1>9 DEF Logical
<1>10. CASE \E new \in BOOLEAN : EndAnd(new) \/ EndOr(new)
  BY <1>2, <1>10 DEF EndAnd, EndOr
<1>11. CASE If \/ IfElse \/ Else \/ EndBranches
  BY <1>2, <1>4, <1>11 DEF If, IfElse, Else, EndBranches
<1>12. CASE \E three, condition \in BOOLEAN : For(three, condition)
  BY <1>4, <1>12 DEF For
<1>13. CASE ForBody \/ EndFor \/ BeginPost \/ EndPost
  BY <1>2, <1>3, <1>13 DEF ForBody, EndFor, BeginPost, EndPost
<1>14. CASE \E x \in Var : RangeStatement({x}, {}) \/ RangeStatement({}, {x})
  BY <1>4, <1>14 DEF RangeStatement
<1>15. CASE Element \/ EndRange
  BY <1>2, <1>15 DEF Element, EndRange
<1>16. CASE \E n \in 0 .. MaxClauses, default \in BOOLEAN : Switch(n, default)
  BY <1>4, <1>16 DEF Switch
<1>17. CASE \E more \in BOOLEAN : Test(more)
  BY <1>2, <1>17 DEF Test
<1>18. CASE LastTest \/ SealClause \/ FirstClause \/ NextClause
  BY <1>2, <1>18 DEF LastTest, SealClause, FirstClause, NextClause
<1>19. CASE (\E i \in Breakable : Break(i)) \/ (\E i \in Loops : Continue(i)) \/ ReturnStatement
  BY <1>4, <1>19 DEF Break, Continue, ReturnStatement
<1>20. CASE \E l \in Labels : GotoStatement(l) \/ LabelStatement(l)
  BY <1>1, <1>4, <1>20 DEF GotoStatement, LabelStatement
<1>21. CASE EnterDestruct \/ Finish
  BY <1>2, <1>21 DEF EnterDestruct, Finish
<1> QED
  BY <1>5, <1>6, <1>7, <1>8, <1>9, <1>10, <1>11, <1>12, <1>13, <1>14, <1>15, <1>16, <1>17,
     <1>18, <1>19, <1>20, <1>21, Zenon DEF Step

\* The function is sound at all times.
LEMMA ControlSound ==
  ASSUME Control
  PROVE  Sound(fn, {}) /\ Typed(fn)
<1> QED
  BY DEF Control, Standing, Ready, Sound

\* Of a finished function every block that has predecessors is sealed.
LEMMA AllSealed ==
  ASSUME Control, built
  PROVE  \A u \in Blocks(fn) : fn.preds[u] # <<>> => u \in fn.sealed
<1>1. open = <<>> /\ Ending /\ DOMAIN labelled \ placed = {}
  BY DEF Control, Ending
<1>2. LabelBlocks = {}
  BY <1>1 DEF LabelBlocks
<1>3. Rest = {}
  BY <1>1, <1>2 DEF Rest
<1>4. FreshIn(open) = {} /\ HeadIn(open) = {}
  BY <1>1, NothingIn
<1>5. \A u \in Blocks(fn) : u \notin fn.sealed /\ fn.preds[u] # <<>> =>
        u \in (FreshIn(open) \cup Rest) \cup HeadIn(open)
  BY DEF Control, Standing, Ready
<1> QED
  BY <1>3, <1>4, <1>5

\* The construction does not depend on the run.
LEMMA ControlStays ==
  ASSUME Control, UNCHANGED bvars
  PROVE  Control'
<1> QED
  BY DEF Control, Rest, LabelBlocks, Ending, Top, bvars

\* A block is run.
LEMMA RunHolds ==
  ASSUME Control, built, agree, NEW blk \in Blocks(fn), NEW h, HoldsAtEntry(blk, h), RunBlock(blk, h)
  PROVE  Running'
<1>1. Sound(fn, {})
  BY ControlSound
<1>2. Agrees(blk, h) /\ HoldsAtExit(blk, After(blk, h)[Len(fn.code[blk])])
  BY <1>1, BlockRuns
<1>3. /\ here' = blk /\ holds' = After(blk, h)[Len(fn.code[blk])] /\ fn' = fn /\ built' = built
      /\ agree' = (agree /\ Agrees(blk, h))
  BY DEF RunBlock, bvars
<1>4. agree'
  BY <1>2, <1>3, Zenon
<1>5. HoldsAtExit(blk, holds')
  BY <1>2, <1>3
<1>6. HoldsAtExit(here, holds)'
  BY <1>3, <1>5 DEF HoldsAtExit, Holding, Values
<1>7. here' \in Blocks(fn)' /\ here' # 0 /\ built'
  <2>1. blk # 0
    BY <1>1 DEF Sound, Typed, Blocks
  <2> QED
    BY <1>3, <2>1 DEF Blocks
<1> QED
  BY <1>4, <1>6, <1>7 DEF Running

\* The first block,
LEMMA StartRuns ==
  ASSUME SSAInv, Start
  PROVE  Running'
<1> DEFINE h == [x \in Names |-> Values]
<1>1. Control /\ agree /\ built
  BY DEF SSAInv, Running, Start
<1>2. Sound(fn, {}) /\ Entry \in Blocks(fn)
  BY <1>1, ControlSound DEF Typed, Blocks, Entry
<1>3. HoldsAtEntry(Entry, h)
  BY <1>2, StartHolds
<1>4. RunBlock(Entry, h)
  BY DEF Start
<1> HIDE DEF h
<1> QED
  BY <1>1, <1>2, <1>3, <1>4, RunHolds

\* and the next one, by whichever edge.
LEMMA JumpRuns ==
  ASSUME SSAInv, Jump
  PROVE  Running'
<1>1. Control /\ agree /\ built /\ here \in Blocks(fn) /\ HoldsAtExit(here, holds)
  BY DEF SSAInv, Running, Jump
<1>2. Sound(fn, {}) /\ \A u \in Blocks(fn) : fn.preds[u] # <<>> => u \in fn.sealed
  BY <1>1, ControlSound, AllSealed
<1>3. PICK k \in DOMAIN fn.succs[here] :
        RunBlock(fn.succs[here][k], Entered(here, fn.succs[here][k]))
  BY DEF Jump
<1> DEFINE blk == fn.succs[here][k]
           h == Entered(here, blk)
<1>4. blk \in Blocks(fn) /\ HoldsAtEntry(blk, h)
  BY <1>1, <1>2, JumpHolds
<1>5. RunBlock(blk, h)
  BY <1>3
<1> HIDE DEF blk, h
<1> QED
  BY <1>1, <1>4, <1>5, RunHolds

\* As long as the function is built, nothing runs.
LEMMA BuildingRuns ==
  ASSUME SSAInv, Building
  PROVE  Running' /\ here' = 0 /\ agree'
<1>1. ~built /\ Running
  BY BuildOpen DEF Building, Build, SSAInv
<1>2. here = 0 /\ holds = [x \in Names |-> {}] /\ agree
  BY <1>1 DEF Running
<1>3. here' = 0 /\ holds' = [x \in Names |-> {}] /\ agree'
  BY <1>2 DEF Building, evars
<1> QED
  BY <1>3 DEF Running, Names

\* The invariant holds of the specification, as long as reads end.
LEMMA SSAHoldsAlways ==
  ASSUME MaxReads \in Nat, ~BackwardGoto
  PROVE  Spec => []SSAHolds
<1>1. SInit => SSAHolds
  <2> SUFFICES ASSUME SInit PROVE SSAInv
    BY DEF SSAHolds
  <2>1. Control
    BY InitControl DEF SInit
  <2>2. Running
    BY DEF SInit, Running
  <2> QED
    BY <2>1, <2>2 DEF SSAInv
<1>2. ASSUME SSAInv, [SNext]_vars PROVE SSAHolds'
  <2>1. CASE Building /\ ~fn'.stuck
    <3>1. Control'
      BY <1>2, <2>1, BuildControl DEF Building, Build, SSAInv
    <3> QED
      BY <1>2, <2>1, <3>1, BuildingRuns DEF SSAHolds, SSAInv
  <2>2. CASE Building /\ fn'.stuck
    BY <1>2, <2>2, BuildingRuns DEF SSAHolds, Stopped
  <2>3. CASE Start
    <3>1. UNCHANGED bvars
      BY <2>3 DEF Start, RunBlock
    <3> QED
      BY <1>2, <2>3, <3>1, ControlStays, StartRuns DEF SSAHolds, SSAInv
  <2>4. CASE Jump
    <3>1. UNCHANGED bvars
      BY <2>4 DEF Jump, RunBlock
    <3> QED
      BY <1>2, <2>4, <3>1, ControlStays, JumpRuns DEF SSAHolds, SSAInv
  <2>5. CASE UNCHANGED vars
    <3>1. UNCHANGED bvars /\ UNCHANGED evars
      BY <2>5 DEF vars, bvars, evars
    <3>2. Running'
      BY <1>2, <3>1 DEF SSAInv, Running, HoldsAtExit, Holding, Values, Blocks, bvars, evars
    <3> QED
      BY <1>2, <3>1, <3>2, ControlStays DEF SSAHolds, SSAInv
  <2> QED
    BY <1>2, <2>1, <2>2, <2>3, <2>4, <2>5 DEF SNext
<1>3. ASSUME Stopped, [SNext]_vars PROVE SSAHolds'
  <2>1. UNCHANGED vars
    BY <1>3 DEF Stopped, SNext, Building, Build, Start, Jump
  <2> QED
    BY <1>3, <2>1 DEF SSAHolds, Stopped, vars
<1>4. SSAHolds /\ [SNext]_vars => SSAHolds'
  BY <1>2, <1>3 DEF SSAHolds
<1> QED
  BY <1>1, <1>4, PTL DEF Spec

\* From it follow the types ...
LEMMA TypeOKFollows ==
  ASSUME SSAInv
  PROVE  TypeOK
<1>1. Sound(fn, {}) /\ Typed(fn) /\ Numbered(fn) /\ Operands(fn)
  BY ControlSound DEF SSAInv, Sound, Known
<1>2. Values = DOMAIN fn.home /\ Blocks(fn) = 1 .. fn.blocks
  BY <1>1, ValuesDomain DEF Blocks
<1>3. /\ fn.preds \in [Blocks(fn) -> Seq(Blocks(fn))] /\ fn.succs \in [Blocks(fn) -> Seq(Blocks(fn))]
      /\ fn.sealed \subseteq Blocks(fn) /\ fn.cur \in Blocks(fn) /\ fn.home \in Seq(Blocks(fn))
  BY <1>1, <1>2 DEF Typed
<1>4. DOMAIN fn.phis \subseteq Values /\ fn.incomplete \subseteq DOMAIN fn.phis
  BY <1>1, <1>2 DEF Numbered
<1>5. fn.def \in [Blocks(fn) -> [Names -> Values \cup {NoValue}]]
  <2>1. fn.def \in [Blocks(fn) -> [Names -> Nat]]
    BY <1>1, <1>2 DEF Typed
  <2>2. \A u \in Blocks(fn), x \in Names : fn.def[u][x] \in Values \cup {NoValue}
    BY <1>1, <1>2 DEF Numbered
  <2> QED
    BY <2>1, <2>2
<1>6. ASSUME NEW p \in DOMAIN fn.phis
      PROVE  fn.phis[p].var \in Names /\ fn.phis[p].edges \in Seq([from : Blocks(fn), val : Values])
  <2> DEFINE q == fn.phis[p].edges
             u == fn.home[p]
             E == [from : Blocks(fn), val : Values]
  <2>1. fn.phis[p].var \in Names /\ q \in Seq(Edges(fn.blocks)) /\ u \in Blocks(fn)
    BY <1>1, TypedFacts DEF Numbered
  <2>2. ASSUME NEW k \in DOMAIN q PROVE q[k] \in E
    <3>1. q[k] \in Edges(fn.blocks)
      BY <2>1
    <3>2. q[k].from \in Blocks(fn) /\ q[k] = [from |-> q[k].from, val |-> q[k].val]
      BY <1>2, <3>1, SMTT(30) DEF Edges
    <3>3. /\ k \in DOMAIN fn.preds[u] /\ q[k].val # NoValue
          /\ q[k].val = fn.def[fn.preds[u][k]][fn.phis[p].var]
      BY <1>1, SMTT(30) DEF Operands
    <3>4. fn.preds[u][k] \in Blocks(fn)
      BY <1>1, <2>1, <3>3, TypedFacts, ZenonT(30)
    <3>5. q[k].val \in Values
      BY <1>1, <1>2, <2>1, <3>3, <3>4, Zenon DEF Numbered
    <3> HIDE DEF q
    <3> QED
      BY <3>2, <3>5
  <2> HIDE DEF q, E
  <2>3. q \in Seq(E)
    BY <2>1, <2>2
  <2> QED
    BY <2>1, <2>3 DEF q, E
<1>7. here \in 0 .. fn.blocks
  BY <1>1, <1>2 DEF SSAInv, Running, Typed
<1>8. holds \in [Names -> SUBSET Values]
  BY DEF SSAInv, Running, HoldsAtExit, Holding
<1>9. agree \in BOOLEAN
  BY DEF SSAInv, Running
<1> QED
  BY <1>3, <1>4, <1>5, <1>6, <1>7, <1>8, <1>9, Zenon DEF TypeOK

\* ... and the operands: every block of a finished function is sealed, or has no
\* predecessors.
LEMMA OperandsFollow ==
  ASSUME SSAInv
  PROVE  OneOperandPerEdge
<1> SUFFICES ASSUME built, NEW p \in DOMAIN fn.phis
             PROVE  [k \in DOMAIN fn.phis[p].edges |-> fn.phis[p].edges[k].from] = fn.preds[fn.home[p]]
  BY DEF OneOperandPerEdge
<1> DEFINE q == fn.phis[p].edges
           u == fn.home[p]
           ps == fn.preds[u]
<1>1. Control /\ Sound(fn, {}) /\ Typed(fn) /\ Numbered(fn) /\ Operands(fn) /\ Complete(fn, {})
  BY ControlSound DEF SSAInv, Sound, Known
<1>2. u \in Blocks(fn) /\ q \in Seq(Edges(fn.blocks)) /\ ps \in Seq(Blocks(fn))
  BY <1>1, TypedFacts DEF Numbered
<1>3. CASE u \in fn.sealed
  <2>1. Len(q) = Len(ps)
    BY <1>1, <1>3, SMTT(30) DEF Complete
  <2>2. \A k \in DOMAIN q : q[k].from = ps[k]
    BY <1>1 DEF Operands
  <2>3. DOMAIN q = DOMAIN ps
    BY <1>2, <2>1
  <2> HIDE DEF q, ps
  <2>4. ps = [k \in DOMAIN ps |-> ps[k]]
    BY <1>2
  <2> QED
    BY <2>2, <2>3, <2>4, SMTT(30) DEF q, ps
<1>4. CASE u \notin fn.sealed
  <2>1. q = <<>> /\ ps = <<>>
    BY <1>1, <1>2, <1>4, AllSealed DEF Complete
  <2> QED
    BY <2>1
<1> QED
  BY <1>3, <1>4

-----------------------------------------------------------------------------
\* The theorems.

\* The edges, the values, the phis and their operands are what they should be: a phi
\* has no operand that is missing, and only a block that is not sealed has incomplete
\* phis.
THEOREM SSATypes == ~BackwardGoto => (Spec => []TypeOK)
<1> SUFFICES ASSUME ~BackwardGoto PROVE Spec => []TypeOK
  OBVIOUS
<1>1. SSAHolds => TypeOK
  BY TypeOKFollows DEF SSAHolds, Stopped, TypeOK
<1>2. Spec => []SSAHolds
  BY SSAHoldsAlways, ReadsAssumption
<1> QED
  BY <1>1, <1>2, PTL

\* In a finished function every phi has one operand for each edge into its block, in
\* the order of the edges: sealBlock and readVariableRecursive, between them, fill each
\* phi in once.
THEOREM PhisMatchEdges == ~BackwardGoto => (Spec => []OneOperandPerEdge)
<1> SUFFICES ASSUME ~BackwardGoto PROVE Spec => []OneOperandPerEdge
  OBVIOUS
<1>1. SSAHolds => OneOperandPerEdge
  BY OperandsFollow DEF SSAHolds, Stopped, OneOperandPerEdge
<1>2. Spec => []SSAHolds
  BY SSAHoldsAlways, ReadsAssumption
<1> QED
  BY <1>1, <1>2, PTL

\* On every path through a finished function, a use, a copy and a returned value read
\* what was last assigned to their variable: readVariable finds the value, through
\* blocks that were sealed before, while or after they were lowered.
THEOREM SSARight == ~BackwardGoto => (Spec => []UsesSeeLastAssignment)
<1> SUFFICES ASSUME ~BackwardGoto PROVE Spec => []UsesSeeLastAssignment
  OBVIOUS
<1>1. SSAHolds => UsesSeeLastAssignment
  BY DEF SSAHolds, SSAInv, Running, Stopped, UsesSeeLastAssignment
<1>2. Spec => []SSAHolds
  BY SSAHoldsAlways, ReadsAssumption
<1> QED
  BY <1>1, <1>2, PTL
=============================================================================
