------------------------- MODULE SSABuilder_proofs --------------------------
(*****************************************************************************)
(* What the methods of the SSA builder do to a function under construction:  *)
(* a read that ends returns the value of the variable, whatever the graph,   *)
(* and edges, instructions, assignments, reads and sealBlock keep the        *)
(* function sound (Sound).  The invariant of the construction as a whole, and *)
(* the theorems, are in SSAExecution_proofs.                                 *)
(*****************************************************************************)
EXTENDS SSABuilder, NumberLemmas, TLAPS

-----------------------------------------------------------------------------
\* What the methods of the builder are applied to, and what they make.

\* An instruction: what it reads and writes, and the value.
Steps == [reads : SUBSET Names, writes : SUBSET Names, val : Nat]
Edges(n) == [from : 1 .. n, val : Nat]
Phis(n) == [var : Names, edges : Seq(Edges(n))]

\* A function has its fields, and they have their types.
Typed(b) ==
  /\ b = [blocks |-> b.blocks, preds |-> b.preds, succs |-> b.succs, def |-> b.def,
          code |-> b.code, sealed |-> b.sealed, home |-> b.home, phis |-> b.phis,
          incomplete |-> b.incomplete, cur |-> b.cur, stuck |-> b.stuck]
  /\ b.blocks \in Nat
  /\ b.preds \in [1 .. b.blocks -> Seq(1 .. b.blocks)]
  /\ b.succs \in [1 .. b.blocks -> Seq(1 .. b.blocks)]
  /\ b.def \in [1 .. b.blocks -> [Names -> Nat]]
  /\ b.code \in [1 .. b.blocks -> Seq(Steps)]
  /\ b.sealed \subseteq 1 .. b.blocks
  /\ b.home \in Seq(1 .. b.blocks)
  /\ b.phis \in [DOMAIN b.phis -> Phis(b.blocks)] /\ DOMAIN b.phis \subseteq Nat
  /\ b.incomplete \subseteq Nat
  /\ b.cur \in 1 .. b.blocks
  /\ b.stuck \in BOOLEAN

-----------------------------------------------------------------------------
\* The fields of the function that each method of the builder makes.

\* Goto changes the current block only ...
LEMMA GotoFields ==
  ASSUME NEW b, Typed(b), NEW blk \in Blocks(b)
  PROVE  LET c == Goto(b, blk)
         IN /\ c.blocks = b.blocks /\ c.preds = b.preds /\ c.succs = b.succs
            /\ c.def = b.def /\ c.code = b.code /\ c.sealed = b.sealed /\ c.home = b.home
            /\ c.phis = b.phis /\ c.incomplete = b.incomplete /\ c.cur = blk /\ c.stuck = b.stuck
            /\ Typed(c)
<1> DEFINE c == Goto(b, blk)
<1>1. c = [b EXCEPT !.cur = blk] /\ blk \in 1 .. b.blocks
  BY DEF Goto, Blocks
<1> HIDE DEF c
<1>2. /\ c.blocks = b.blocks /\ c.preds = b.preds /\ c.succs = b.succs
      /\ c.def = b.def /\ c.code = b.code /\ c.sealed = b.sealed /\ c.home = b.home
      /\ c.phis = b.phis /\ c.incomplete = b.incomplete /\ c.cur = blk /\ c.stuck = b.stuck
  BY <1>1 DEF Typed
<1>3. Typed(c)
  BY <1>1, <1>2, Zenon DEF Typed
<1> QED
  BY <1>2, <1>3 DEF c

\* ... an edge its two lists ...
LEMMA EdgeFields ==
  ASSUME NEW b, Typed(b), NEW from \in Blocks(b), NEW to \in Blocks(b)
  PROVE  LET c == AddEdge(b, from, to)
         IN /\ c.blocks = b.blocks /\ c.preds = [b.preds EXCEPT ![to] = Append(@, from)]
            /\ c.succs = [b.succs EXCEPT ![from] = Append(@, to)]
            /\ c.def = b.def /\ c.code = b.code /\ c.sealed = b.sealed /\ c.home = b.home
            /\ c.phis = b.phis /\ c.incomplete = b.incomplete /\ c.cur = b.cur /\ c.stuck = b.stuck
            /\ Typed(c)
<1> DEFINE c == AddEdge(b, from, to)
           ps == [b.preds EXCEPT ![to] = Append(@, from)]
           ss == [b.succs EXCEPT ![from] = Append(@, to)]
<1>1. c = [b EXCEPT !.succs = ss, !.preds = ps]
  BY DEF AddEdge, Typed
<1>2. /\ ps \in [1 .. b.blocks -> Seq(1 .. b.blocks)]
      /\ ss \in [1 .. b.blocks -> Seq(1 .. b.blocks)]
  BY DEF Typed, Blocks
<1> HIDE DEF c, ps, ss
<1>3. /\ c.blocks = b.blocks /\ c.preds = ps /\ c.succs = ss
      /\ c.def = b.def /\ c.code = b.code /\ c.sealed = b.sealed /\ c.home = b.home
      /\ c.phis = b.phis /\ c.incomplete = b.incomplete /\ c.cur = b.cur /\ c.stuck = b.stuck
  BY <1>1 DEF Typed
<1>4. Typed(c)
  BY <1>1, <1>2, <1>3, Zenon DEF Typed
<1> QED
  BY <1>3, <1>4 DEF c, ps, ss

\* ... the end of sealBlock the set of sealed blocks ...
LEMMA SealedFields ==
  ASSUME NEW b, Typed(b), NEW blk \in Blocks(b)
  PROVE  LET c == [b EXCEPT !.sealed = @ \cup {blk}]
         IN /\ c.blocks = b.blocks /\ c.preds = b.preds /\ c.succs = b.succs
            /\ c.def = b.def /\ c.code = b.code /\ c.sealed = b.sealed \cup {blk}
            /\ c.home = b.home /\ c.phis = b.phis /\ c.incomplete = b.incomplete
            /\ c.cur = b.cur /\ c.stuck = b.stuck
            /\ Typed(c)
<1> DEFINE ss == b.sealed \cup {blk}
           c == [b EXCEPT !.sealed = ss]
<1>1. c = [b EXCEPT !.sealed = @ \cup {blk}] /\ ss \subseteq 1 .. b.blocks
  BY DEF Blocks, Typed
<1>0. c = [b EXCEPT !.sealed = ss]
  OBVIOUS
<1> HIDE DEF ss, c
<1>2. /\ c.blocks = b.blocks /\ c.preds = b.preds /\ c.succs = b.succs
      /\ c.def = b.def /\ c.code = b.code /\ c.sealed = ss /\ c.home = b.home
      /\ c.phis = b.phis /\ c.incomplete = b.incomplete /\ c.cur = b.cur /\ c.stuck = b.stuck
  BY <1>0 DEF Typed
<1>3. Typed(c)
  BY <1>0, <1>1, <1>2, Zenon DEF Typed
<1> QED
  BY <1>1, <1>2, <1>3 DEF ss, c

\* ... writeVariable one definition ...
LEMMA WriteFields ==
  ASSUME NEW b, Typed(b), NEW blk \in Blocks(b), NEW x \in Names, NEW v \in Nat
  PROVE  LET c == WriteVariable(b, x, blk, v)
         IN /\ c.blocks = b.blocks /\ c.preds = b.preds /\ c.succs = b.succs
            /\ c.def = [b.def EXCEPT ![blk][x] = v]
            /\ c.code = b.code /\ c.sealed = b.sealed /\ c.home = b.home
            /\ c.phis = b.phis /\ c.incomplete = b.incomplete /\ c.cur = b.cur /\ c.stuck = b.stuck
            /\ Typed(c)
<1> DEFINE ds == [b.def EXCEPT ![blk][x] = v]
           c == WriteVariable(b, x, blk, v)
<1>1. c = [b EXCEPT !.def = ds]
  BY DEF WriteVariable, Typed
<1>2. ds \in [1 .. b.blocks -> [Names -> Nat]]
  BY Zenon DEF Typed, Blocks
<1> HIDE DEF ds, c
<1>3. /\ c.blocks = b.blocks /\ c.preds = b.preds /\ c.succs = b.succs
      /\ c.def = ds /\ c.code = b.code /\ c.sealed = b.sealed /\ c.home = b.home
      /\ c.phis = b.phis /\ c.incomplete = b.incomplete /\ c.cur = b.cur /\ c.stuck = b.stuck
  BY <1>1 DEF Typed
<1>4. Typed(c)
  BY <1>1, <1>2, <1>3, Zenon DEF Typed
<1> QED
  BY <1>3, <1>4 DEF ds, c

\* A new phi: the function c is b with the phi p for x in block blk.
MakesPhi(b, c, x, blk, edges) ==
  LET p == NextValue(b)
  IN  /\ c.blocks = b.blocks /\ c.preds = b.preds /\ c.succs = b.succs
      /\ c.def = [b.def EXCEPT ![blk][x] = p] /\ c.code = b.code /\ c.sealed = b.sealed
      /\ c.home = Append(b.home, blk)
      /\ c.phis = [q \in DOMAIN b.phis \cup {p} |->
                     IF q = p THEN [var |-> x, edges |-> edges] ELSE b.phis[q]]
      /\ c.cur = b.cur /\ c.stuck = b.stuck
      /\ b.incomplete \subseteq c.incomplete /\ c.incomplete \subseteq b.incomplete \cup {p}
      /\ Typed(c)

\* ... a phi is a value, a definition and an entry of phis ...
LEMMA PhiFields ==
  ASSUME NEW b, Typed(b), NEW blk \in Blocks(b), NEW x \in Names,
         NEW edges \in Seq(Edges(b.blocks))
  PROVE  /\ MakesPhi(b, NewPhi(b, x, blk, edges), x, blk, edges)
         /\ NewPhi(b, x, blk, edges).incomplete = b.incomplete
<1> DEFINE c == NewPhi(b, x, blk, edges)
           p == NextValue(b)
           ps == [q \in DOMAIN b.phis \cup {p} |->
                     IF q = p THEN [var |-> x, edges |-> edges] ELSE b.phis[q]]
           ds == [b.def EXCEPT ![blk][x] = p]
           hs == Append(b.home, blk)
<1>1. c = [b EXCEPT !.home = hs, !.phis = ps, !.def = ds]
  BY DEF NewPhi, Typed
<1>2. p \in Nat
  BY DEF Typed, NextValue
<1>3. hs \in Seq(1 .. b.blocks)
  BY DEF Typed, Blocks
<1>4. ds \in [1 .. b.blocks -> [Names -> Nat]]
  BY <1>2, Zenon DEF Typed, Blocks
<1>5. ps \in [DOMAIN b.phis \cup {p} -> Phis(b.blocks)] /\ DOMAIN b.phis \cup {p} \subseteq Nat
  BY <1>2, Zenon DEF Typed, Blocks, Phis
<1> HIDE DEF c, ps, ds, hs, p
<1>6. /\ c.blocks = b.blocks /\ c.preds = b.preds /\ c.succs = b.succs
      /\ c.def = ds /\ c.code = b.code /\ c.sealed = b.sealed /\ c.home = hs /\ c.phis = ps
      /\ c.incomplete = b.incomplete /\ c.cur = b.cur /\ c.stuck = b.stuck
  BY <1>1 DEF Typed
<1>7. Typed(c)
  BY <1>1, <1>3, <1>4, <1>5, <1>6, Zenon DEF Typed
<1> QED
  BY <1>6, <1>7 DEF ps, ds, hs, p, c, MakesPhi

\* ... which may be incomplete ...
LEMMA IncompleteFields ==
  ASSUME NEW b, Typed(b), NEW p \in Nat
  PROVE  LET c == [b EXCEPT !.incomplete = @ \cup {p}]
         IN /\ c.blocks = b.blocks /\ c.preds = b.preds /\ c.succs = b.succs
            /\ c.def = b.def /\ c.code = b.code /\ c.sealed = b.sealed
            /\ c.home = b.home /\ c.phis = b.phis /\ c.incomplete = b.incomplete \cup {p}
            /\ c.cur = b.cur /\ c.stuck = b.stuck
            /\ Typed(c)
<1> DEFINE ss == b.incomplete \cup {p}
           c == [b EXCEPT !.incomplete = ss]
<1>1. c = [b EXCEPT !.incomplete = @ \cup {p}] /\ ss \subseteq Nat
  BY DEF Typed
<1>0. c = [b EXCEPT !.incomplete = ss]
  OBVIOUS
<1> HIDE DEF ss, c
<1>2. /\ c.blocks = b.blocks /\ c.preds = b.preds /\ c.succs = b.succs
      /\ c.def = b.def /\ c.code = b.code /\ c.sealed = b.sealed /\ c.home = b.home
      /\ c.phis = b.phis /\ c.incomplete = ss /\ c.cur = b.cur /\ c.stuck = b.stuck
  BY <1>0 DEF Typed
<1>3. Typed(c)
  BY <1>0, <1>1, <1>2, Zenon DEF Typed
<1> QED
  BY <1>1, <1>2, <1>3 DEF ss, c

\* ... until its operands are appended.
LEMMA OperandFields ==
  ASSUME NEW b, Typed(b), NEW p \in DOMAIN b.phis, NEW e \in Edges(b.blocks)
  PROVE  LET c == [b EXCEPT !.phis[p].edges = Append(b.phis[p].edges, e)]
         IN /\ c.blocks = b.blocks /\ c.preds = b.preds /\ c.succs = b.succs
            /\ c.def = b.def /\ c.code = b.code /\ c.sealed = b.sealed
            /\ c.home = b.home
            /\ c.phis = [b.phis EXCEPT ![p].edges = Append(b.phis[p].edges, e)]
            /\ c.incomplete = b.incomplete /\ c.cur = b.cur /\ c.stuck = b.stuck
            /\ Typed(c)
<1> DEFINE ps == [b.phis EXCEPT ![p].edges = Append(b.phis[p].edges, e)]
           c == [b EXCEPT !.phis = ps]
<1>1. c = [b EXCEPT !.phis[p].edges = Append(b.phis[p].edges, e)]
  BY DEF Typed
<1>2. ps \in [DOMAIN b.phis -> Phis(b.blocks)]
  <2>1. b.phis[p] \in Phis(b.blocks)
    BY DEF Typed
  <2>2. Append(b.phis[p].edges, e) \in Seq(Edges(b.blocks))
    BY <2>1 DEF Phis
  <2>3. [b.phis[p] EXCEPT !.edges = Append(b.phis[p].edges, e)] \in Phis(b.blocks)
    BY <2>1, <2>2, Zenon DEF Phis
  <2> QED
    BY <2>3 DEF Typed
<1>3. DOMAIN ps = DOMAIN b.phis
  BY DEF Typed
<1>0. c = [b EXCEPT !.phis = ps]
  OBVIOUS
<1> HIDE DEF ps, c
<1>4. /\ c.blocks = b.blocks /\ c.preds = b.preds /\ c.succs = b.succs
      /\ c.def = b.def /\ c.code = b.code /\ c.sealed = b.sealed /\ c.home = b.home
      /\ c.phis = ps /\ c.incomplete = b.incomplete /\ c.cur = b.cur /\ c.stuck = b.stuck
  BY <1>0 DEF Typed
<1>5. Typed(c)
  BY <1>0, <1>2, <1>3, <1>4, Zenon DEF Typed
<1> QED
  BY <1>1, <1>4, <1>5 DEF ps, c

\* An instruction is appended to the current block.
LEMMA PerformFields ==
  ASSUME NEW b, Typed(b), NEW a \in Steps
  PROVE  LET c == Perform(b, a)
         IN /\ c.blocks = b.blocks /\ c.preds = b.preds /\ c.succs = b.succs
            /\ c.code = [b.code EXCEPT ![b.cur] = Append(@, a)]
            /\ c.def = [b.def EXCEPT ![b.cur] =
                          [x \in Names |-> IF x \in a.writes THEN a.val ELSE b.def[b.cur][x]]]
            /\ c.sealed = b.sealed /\ c.home = b.home
            /\ c.phis = b.phis /\ c.incomplete = b.incomplete /\ c.cur = b.cur /\ c.stuck = b.stuck
            /\ Typed(c)
<1> DEFINE c == Perform(b, a)
           cs == [b.code EXCEPT ![b.cur] = Append(@, a)]
           row == [x \in Names |-> IF x \in a.writes THEN a.val ELSE b.def[b.cur][x]]
           ds == [b.def EXCEPT ![b.cur] = row]
<1>1. c = [b EXCEPT !.code = cs, !.def = ds]
  BY DEF Perform, Typed
<1>2. cs \in [1 .. b.blocks -> Seq(Steps)]
  BY DEF Typed
<1>3. row \in [Names -> Nat]
  BY DEF Typed, Steps
<1>4. ds \in [1 .. b.blocks -> [Names -> Nat]]
  BY <1>3 DEF Typed
<1> HIDE DEF c, cs, ds
<1>5. /\ c.blocks = b.blocks /\ c.preds = b.preds /\ c.succs = b.succs
      /\ c.def = ds /\ c.code = cs /\ c.sealed = b.sealed /\ c.home = b.home
      /\ c.phis = b.phis /\ c.incomplete = b.incomplete /\ c.cur = b.cur /\ c.stuck = b.stuck
  BY <1>1 DEF Typed
<1>6. Typed(c)
  BY <1>1, <1>2, <1>4, <1>5, Zenon DEF Typed
<1> QED
  BY <1>5, <1>6 DEF c, cs, ds

\* A value that is made for the current block.
LEMMA ValueFields ==
  ASSUME NEW b, Typed(b)
  PROVE  LET c == [b EXCEPT !.home = Append(@, b.cur)]
         IN /\ c.blocks = b.blocks /\ c.preds = b.preds /\ c.succs = b.succs
            /\ c.def = b.def /\ c.code = b.code /\ c.sealed = b.sealed
            /\ c.home = Append(b.home, b.cur) /\ c.phis = b.phis
            /\ c.incomplete = b.incomplete /\ c.cur = b.cur /\ c.stuck = b.stuck
            /\ Typed(c)
<1> DEFINE hs == Append(b.home, b.cur)
           c == [b EXCEPT !.home = hs]
<1>1. c = [b EXCEPT !.home = Append(@, b.cur)] /\ hs \in Seq(1 .. b.blocks)
  BY DEF Typed
<1>0. c = [b EXCEPT !.home = hs]
  OBVIOUS
<1> HIDE DEF hs, c
<1>2. /\ c.blocks = b.blocks /\ c.preds = b.preds /\ c.succs = b.succs
      /\ c.def = b.def /\ c.code = b.code /\ c.sealed = b.sealed /\ c.home = hs
      /\ c.phis = b.phis /\ c.incomplete = b.incomplete /\ c.cur = b.cur /\ c.stuck = b.stuck
  BY <1>0 DEF Typed
<1>3. Typed(c)
  BY <1>0, <1>1, <1>2, Zenon DEF Typed
<1> QED
  BY <1>1, <1>2, <1>3 DEF hs, c

LEMMA BlocksFields ==
  ASSUME NEW b, Typed(b), NEW n \in Nat
  PROVE  LET c == NewBlocks(b, n)
             all == 1 .. b.blocks + n
         IN /\ c.blocks = b.blocks + n
            /\ c.preds = [u \in all |-> IF u \in Blocks(b) THEN b.preds[u] ELSE <<>>]
            /\ c.succs = [u \in all |-> IF u \in Blocks(b) THEN b.succs[u] ELSE <<>>]
            /\ c.def = [u \in all |-> IF u \in Blocks(b) THEN b.def[u]
                                      ELSE [x \in Names |-> NoValue]]
            /\ c.code = [u \in all |-> IF u \in Blocks(b) THEN b.code[u] ELSE <<>>]
            /\ c.sealed = b.sealed /\ c.home = b.home
            /\ c.phis = b.phis /\ c.incomplete = b.incomplete /\ c.cur = b.cur /\ c.stuck = b.stuck
            /\ Typed(c)
<1> DEFINE c == NewBlocks(b, n)
           m == b.blocks + n
           ps == [u \in 1 .. m |-> IF u \in Blocks(b) THEN b.preds[u] ELSE <<>>]
           ss == [u \in 1 .. m |-> IF u \in Blocks(b) THEN b.succs[u] ELSE <<>>]
           ds == [u \in 1 .. m |-> IF u \in Blocks(b) THEN b.def[u]
                                   ELSE [x \in Names |-> NoValue]]
           cs == [u \in 1 .. m |-> IF u \in Blocks(b) THEN b.code[u] ELSE <<>>]
<1>1. c = [b EXCEPT !.blocks = m, !.preds = ps, !.succs = ss, !.def = ds, !.code = cs]
  BY DEF NewBlocks
<1>2. m \in Nat /\ 1 .. b.blocks \subseteq 1 .. m
  BY DEF Typed
<1>3. Seq(1 .. b.blocks) \subseteq Seq(1 .. m)
  <2> HIDE DEF m
  <2>1. \A S, T : S \subseteq T => Seq(S) \subseteq Seq(T)
    OBVIOUS
  <2> QED
    BY <1>2, <2>1, Zenon
<1>4. ps \in [1 .. m -> Seq(1 .. m)] /\ ss \in [1 .. m -> Seq(1 .. m)]
  <2>1. <<>> \in Seq(1 .. m)
    OBVIOUS
  <2> QED
    BY <1>3, <2>1, Zenon DEF Typed, Blocks
<1>5. ds \in [1 .. m -> [Names -> Nat]]
  BY Zenon DEF Typed, Blocks, NoValue
<1>6. cs \in [1 .. m -> Seq(Steps)]
  BY DEF Typed, Blocks
<1>7. b.home \in Seq(1 .. m) /\ b.sealed \subseteq 1 .. m /\ b.cur \in 1 .. m
  BY <1>2, <1>3 DEF Typed
<1>8. Phis(b.blocks) \subseteq Phis(m)
  <2>1. Edges(b.blocks) \subseteq Edges(m)
    BY <1>2 DEF Edges
  <2>2. Seq(Edges(b.blocks)) \subseteq Seq(Edges(m))
    BY <2>1
  <2> QED
    BY <2>2 DEF Phis
<1>9. b.phis \in [DOMAIN b.phis -> Phis(m)]
  BY <1>8 DEF Typed
<1> HIDE DEF c, ps, ss, ds, cs, m
<1>10. /\ c.blocks = m /\ c.preds = ps /\ c.succs = ss
       /\ c.def = ds /\ c.code = cs /\ c.sealed = b.sealed /\ c.home = b.home
       /\ c.phis = b.phis /\ c.incomplete = b.incomplete /\ c.cur = b.cur /\ c.stuck = b.stuck
  BY <1>1 DEF Typed
<1>11. Typed(c)
  BY <1>1, <1>2, <1>4, <1>5, <1>6, <1>7, <1>9, <1>10, Zenon DEF Typed
<1> QED
  BY <1>10, <1>11 DEF ps, ss, ds, cs, c, m

-----------------------------------------------------------------------------
\* What makes a function under construction right: the soundness that every
\* operation keeps.

\* x has its last write before instruction n of the block at instruction j.
LastWrite(b, blk, x, n, j) ==
  /\ j \in DOMAIN b.code[blk] /\ j < n /\ x \in b.code[blk][j].writes
  /\ \A i \in DOMAIN b.code[blk] : j < i /\ i < n => x \notin b.code[blk][i].writes

\* x is written in the block.
Written(b, blk, x) == \E k \in DOMAIN b.code[blk] : x \in b.code[blk][k].writes

\* v is what x holds when the block is entered.
EntryValue(b, blk, x, v) ==
  \/ v \in DOMAIN b.phis /\ b.home[v] = blk /\ b.phis[v].var = x
  \/ /\ blk \in b.sealed /\ Len(b.preds[blk]) = 1 /\ v # NoValue
     /\ b.def[b.preds[blk][1]][x] = v

\* The instructions.
Linked(b) ==
  /\ \A blk \in Blocks(b) : \A k \in DOMAIN b.preds[blk] : b.succs[b.preds[blk][k]] # <<>>
  /\ \A blk \in Blocks(b) : \A k \in DOMAIN b.succs[blk] :
       \E m \in DOMAIN b.preds[b.succs[blk][k]] : b.preds[b.succs[blk][k]][m] = blk

\* The last write of a block is what the block knows of the variable.
Stored(b) ==
  \A blk \in Blocks(b), x \in Names, j \in Nat :
    LastWrite(b, blk, x, Len(b.code[blk]) + 1, j) => b.def[blk][x] = b.code[blk][j].val

\* A use names the value last written before it in its block, or else what the
\* variable holds at the block's entry.
Reading(b) ==
  \A blk \in Blocks(b) : \A k \in DOMAIN b.code[blk] : \A x \in b.code[blk][k].reads :
    /\ \A j \in Nat : LastWrite(b, blk, x, k, j) => b.code[blk][k].val = b.code[blk][j].val
    /\ \/ \E j \in DOMAIN b.code[blk] : j < k /\ x \in b.code[blk][j].writes
       \/ EntryValue(b, blk, x, b.code[blk][k].val)

\* An instruction reads one variable.
Single(b) ==
  \A blk \in Blocks(b) : \A k \in DOMAIN b.code[blk] :
    \A x, y \in b.code[blk][k].reads : x = y

\* A new value is greater than those of the instructions before it ...
Ordered(b) ==
  \A blk \in Blocks(b) : \A j, k \in DOMAIN b.code[blk] :
    j < k /\ b.code[blk][k].reads = {} => b.code[blk][j].val < b.code[blk][k].val

\* ... and no phi, and it stands in the block that computes it.
NewValues(b) ==
  \A blk \in Blocks(b) : \A k \in DOMAIN b.code[blk] :
    b.code[blk][k].reads = {} =>
      b.code[blk][k].val \notin DOMAIN b.phis /\ b.home[b.code[blk][k].val] = blk

\* The value of an instruction is one of the function's.
Coded(b) ==
  \A blk \in Blocks(b) : \A k \in DOMAIN b.code[blk] : b.code[blk][k].val \in DOMAIN b.home

Laid(b) ==
  Linked(b) /\ Stored(b) /\ Reading(b) /\ Single(b) /\ Ordered(b) /\ NewValues(b) /\ Coded(b)

\* The values.
Entering(b) ==
  \A blk \in Blocks(b), x \in Names :
    b.def[blk][x] # NoValue => Written(b, blk, x) \/ EntryValue(b, blk, x, b.def[blk][x])

\* The k-th operand of a phi is what its variable is at the end of the k-th predecessor.
Operands(b) ==
  \A p \in DOMAIN b.phis : \A k \in DOMAIN b.phis[p].edges :
    /\ k \in DOMAIN b.preds[b.home[p]]
    /\ b.phis[p].edges[k].from = b.preds[b.home[p]][k]
    /\ b.phis[p].edges[k].val # NoValue
    /\ b.phis[p].edges[k].val = b.def[b.preds[b.home[p]][k]][b.phis[p].var]

\* The phis have all their operands or, as long as the block is not sealed, none; those
\* of X are being filled in.
Complete(b, X) ==
  \A p \in DOMAIN b.phis \ X :
    /\ b.home[p] \in b.sealed => Len(b.phis[p].edges) = Len(b.preds[b.home[p]])
    /\ b.home[p] \notin b.sealed => b.phis[p].edges = <<>>

\* A phi of a block that is not sealed is incomplete, and its variable is known there.
Waiting(b) ==
  \A p \in DOMAIN b.phis : b.home[p] \notin b.sealed =>
    p \in b.incomplete /\ b.def[b.home[p]][b.phis[p].var] # NoValue

\* Whatever is known of a variable is a value of the function.
Numbered(b) ==
  /\ \A blk \in Blocks(b), x \in Names : b.def[blk][x] \in DOMAIN b.home \cup {NoValue}
  /\ DOMAIN b.phis \subseteq DOMAIN b.home /\ b.incomplete \subseteq DOMAIN b.phis

\* The first predecessors lead back to the start, and a value comes from no block that
\* comes later than its use: no value is its own and no read of a variable turns round.
Ranks(b, r) ==
  /\ \A blk \in Blocks(b) : b.preds[blk] # <<>> => r[b.preds[blk][1]] < r[blk]
  /\ \A blk \in Blocks(b), x \in Names :
       b.def[blk][x] # NoValue => r[b.home[b.def[blk][x]]] <= r[blk]

Ranked(b) == \E r \in [Blocks(b) -> Nat] : Ranks(b, r)

\* What the function says of its variables.
Known(b, X) ==
  Entering(b) /\ Operands(b) /\ Complete(b, X) /\ Waiting(b) /\ Numbered(b) /\ Ranked(b)

\* A function whose SSA form is right so far.
Sound(b, X) == Typed(b) /\ Laid(b) /\ Known(b, X)

\* What reading variables leaves as it is.  Of the blocks without successors only
\* those in W get values, and of the phis only those in Q get operands.
Kept(b, c, W, Q) ==
  /\ c.blocks = b.blocks /\ c.preds = b.preds /\ c.succs = b.succs
  /\ c.code = b.code /\ c.sealed = b.sealed /\ c.cur = b.cur /\ c.stuck = b.stuck
  /\ \A v \in DOMAIN b.home : v \in DOMAIN c.home /\ c.home[v] = b.home[v]
  /\ \A p \in DOMAIN b.phis :
       /\ p \in DOMAIN c.phis /\ c.phis[p].var = b.phis[p].var
       /\ p \notin Q => c.phis[p] = b.phis[p]
  /\ \A p \in DOMAIN c.phis : p \in DOMAIN b.phis \/ p \notin DOMAIN b.home
  /\ \A blk \in Blocks(b), x \in Names :
       b.def[blk][x] # NoValue => c.def[blk][x] = b.def[blk][x]
  /\ \A blk \in Blocks(b) : b.succs[blk] = <<>> /\ blk \notin W =>
       /\ \A x \in Names : c.def[blk][x] = b.def[blk][x]
       /\ \A v \in DOMAIN c.home : c.home[v] = blk => v \in DOMAIN b.home

\* The types, one by one.
LEMMA TypedFacts ==
  ASSUME NEW b, Typed(b)
  PROVE  /\ \A u \in Blocks(b) :
              /\ b.preds[u] \in Seq(Blocks(b)) /\ b.succs[u] \in Seq(Blocks(b))
              /\ b.code[u] \in Seq(Steps)
              /\ \A k \in DOMAIN b.preds[u] : b.preds[u][k] \in Blocks(b)
              /\ \A k \in DOMAIN b.succs[u] : b.succs[u][k] \in Blocks(b)
              /\ \A k \in DOMAIN b.code[u] :
                   /\ b.code[u][k] \in Steps /\ k \in Nat
                   /\ b.code[u][k].reads \subseteq Names /\ b.code[u][k].writes \subseteq Names
                   /\ b.code[u][k].val \in Nat
              /\ \A x \in Names : b.def[u][x] \in Nat
         /\ b.home \in Seq(Blocks(b))
         /\ \A v \in DOMAIN b.home : b.home[v] \in Blocks(b) /\ v \in Nat /\ v # NoValue
         /\ \A q \in DOMAIN b.phis :
              /\ q \in Nat /\ b.phis[q] \in Phis(b.blocks)
              /\ b.phis[q].var \in Names /\ b.phis[q].edges \in Seq(Edges(b.blocks))
<1> DEFINE B == 1 .. b.blocks
<1>1. /\ Blocks(b) = B
      /\ b.preds \in [B -> Seq(B)] /\ b.succs \in [B -> Seq(B)]
      /\ b.def \in [B -> [Names -> Nat]] /\ b.code \in [B -> Seq(Steps)]
      /\ b.home \in Seq(B) /\ b.phis \in [DOMAIN b.phis -> Phis(b.blocks)]
      /\ DOMAIN b.phis \subseteq Nat
  BY DEF Typed, Blocks
<1> HIDE DEF B
<1>2. \A T : \A s \in Seq(T) : \A k \in DOMAIN s : s[k] \in T /\ k \in Nat /\ k # 0
  OBVIOUS
<1>3. \A a \in Steps : a.reads \subseteq Names /\ a.writes \subseteq Names /\ a.val \in Nat
  BY DEF Steps
<1>4. \A f \in Phis(b.blocks) : f.var \in Names /\ f.edges \in Seq(Edges(b.blocks))
  BY DEF Phis
<1>5. \A u \in Blocks(b) :
              /\ b.preds[u] \in Seq(Blocks(b)) /\ b.succs[u] \in Seq(Blocks(b))
              /\ b.code[u] \in Seq(Steps)
              /\ \A x \in Names : b.def[u][x] \in Nat
  BY <1>1
<1>6. \A u \in Blocks(b) :
              /\ \A k \in DOMAIN b.preds[u] : b.preds[u][k] \in Blocks(b)
              /\ \A k \in DOMAIN b.succs[u] : b.succs[u][k] \in Blocks(b)
  BY <1>2, <1>5
<1>7. \A u \in Blocks(b) : \A k \in DOMAIN b.code[u] :
                   /\ b.code[u][k] \in Steps /\ k \in Nat
                   /\ b.code[u][k].reads \subseteq Names /\ b.code[u][k].writes \subseteq Names
                   /\ b.code[u][k].val \in Nat
  BY <1>2, <1>3, <1>5
<1>8. b.home \in Seq(Blocks(b))
         /\ \A v \in DOMAIN b.home : b.home[v] \in Blocks(b) /\ v \in Nat /\ v # NoValue
  BY <1>1, <1>2 DEF NoValue
<1>9. \A q \in DOMAIN b.phis :
              /\ q \in Nat /\ b.phis[q] \in Phis(b.blocks)
              /\ b.phis[q].var \in Names /\ b.phis[q].edges \in Seq(Edges(b.blocks))
  BY <1>1, <1>4
<1> QED
  BY <1>5, <1>6, <1>7, <1>8, <1>9

\* A read may change nothing ...
LEMMA KeptSelf ==
  ASSUME NEW b, Typed(b), NEW W, NEW Q
  PROVE  Kept(b, b, W, Q)
  BY DEF Kept

\* ... and two reads change no more than one.
LEMMA KeptOnwards ==
  ASSUME NEW b, NEW c, NEW d, NEW W, NEW Q, Typed(b), Typed(c), Typed(d), Numbered(b),
         Kept(b, c, W, Q), NEW V, NEW R, Kept(c, d, V, R),
         \A u \in Blocks(b) : b.succs[u] = <<>> /\ u \in V => u \in W,
         \A p \in DOMAIN b.phis : p \in R => p \in Q
  PROVE  Kept(b, d, W, Q)
<1>0. Blocks(c) = Blocks(b)
  BY DEF Kept, Blocks
<1>1. /\ d.blocks = b.blocks /\ d.preds = b.preds /\ d.succs = b.succs
      /\ d.code = b.code /\ d.sealed = b.sealed /\ d.cur = b.cur /\ d.stuck = b.stuck
  BY DEF Kept
<1>2. \A v \in DOMAIN b.home : v \in DOMAIN d.home /\ d.home[v] = b.home[v]
  BY DEF Kept
<1>3. \A p \in DOMAIN b.phis :
       /\ p \in DOMAIN d.phis /\ d.phis[p].var = b.phis[p].var
       /\ p \notin Q => d.phis[p] = b.phis[p]
  BY DEF Kept
<1>4. \A p \in DOMAIN d.phis : p \in DOMAIN b.phis \/ p \notin DOMAIN b.home
  BY DEF Kept
<1>5. \A blk \in Blocks(b), x \in Names :
       b.def[blk][x] # NoValue => d.def[blk][x] = b.def[blk][x]
  BY <1>0 DEF Kept
<1>6. \A blk \in Blocks(b) : b.succs[blk] = <<>> /\ blk \notin W =>
       /\ \A x \in Names : d.def[blk][x] = b.def[blk][x]
       /\ \A v \in DOMAIN d.home : d.home[v] = blk => v \in DOMAIN b.home
  <2> SUFFICES ASSUME NEW blk \in Blocks(b), b.succs[blk] = <<>>, blk \notin W
               PROVE  /\ \A x \in Names : d.def[blk][x] = b.def[blk][x]
                      /\ \A v \in DOMAIN d.home : d.home[v] = blk => v \in DOMAIN b.home
    OBVIOUS
  <2>1. c.succs[blk] = <<>> /\ blk \in Blocks(c) /\ blk \notin V
    BY <1>0 DEF Kept
  <2>2. \A v \in DOMAIN d.home : d.home[v] = blk => v \in DOMAIN c.home /\ c.home[v] = blk
    BY <2>1 DEF Kept
  <2>3. \A x \in Names : d.def[blk][x] = c.def[blk][x]
    BY <2>1 DEF Kept
  <2> QED
    BY <2>2, <2>3 DEF Kept
<1> QED
  BY <1>1, <1>2, <1>3, <1>4, <1>5, <1>6 DEF Kept

\* A value on entry stays one.
LEMMA KeptEntry ==
  ASSUME NEW b, NEW c, NEW W, NEW Q, Typed(b), Typed(c), Numbered(b), Kept(b, c, W, Q),
         NEW blk \in Blocks(b), NEW x \in Names, NEW v, EntryValue(b, blk, x, v)
  PROVE  EntryValue(c, blk, x, v)
<1>1. CASE v \in DOMAIN b.phis /\ b.home[v] = blk /\ b.phis[v].var = x
  BY <1>1 DEF Kept, EntryValue, Numbered
<1>2. CASE /\ blk \in b.sealed /\ Len(b.preds[blk]) = 1 /\ v # NoValue
           /\ b.def[b.preds[blk][1]][x] = v
  <2>1. b.preds[blk] \in Seq(Blocks(b)) /\ 1 \in DOMAIN b.preds[blk]
    BY <1>2, SMTT(60) DEF Typed, Blocks
  <2>2. b.preds[blk][1] \in Blocks(b)
    BY <2>1
  <2>3. c.def[b.preds[blk][1]][x] = v
    BY <1>2, <2>2 DEF Kept
  <2> QED
    BY <1>2, <2>3 DEF Kept, EntryValue
<1> QED
  BY <1>1, <1>2 DEF EntryValue

\* The instructions are as they were, so what is said of them holds still.
LEMMA KeptLaid ==
  ASSUME NEW b, NEW c, NEW W, NEW Q, Typed(b), Typed(c), Numbered(b), Kept(b, c, W, Q), Laid(b)
  PROVE  Laid(c)
<1>0. Blocks(c) = Blocks(b) /\ c.code = b.code
  BY DEF Kept, Blocks
<1>1. Linked(c)
  BY <1>0 DEF Laid, Linked, Kept
<1>2. Stored(c)
  <2> SUFFICES ASSUME NEW blk \in Blocks(c), NEW x \in Names, NEW j \in Nat,
                      LastWrite(c, blk, x, Len(c.code[blk]) + 1, j)
               PROVE  c.def[blk][x] = c.code[blk][j].val
    BY DEF Stored
  <2>1. LastWrite(b, blk, x, Len(b.code[blk]) + 1, j)
    BY <1>0 DEF LastWrite
  <2>2. b.def[blk][x] = b.code[blk][j].val
    BY <1>0, <2>1 DEF Laid, Stored
  <2>3. b.code[blk][j].val \in DOMAIN b.home
    BY <1>0, <2>1 DEF Laid, Coded, LastWrite
  <2>4. b.def[blk][x] # NoValue
    BY <2>2, <2>3, SMTT(60) DEF Typed, NoValue
  <2> QED
    BY <1>0, <2>2, <2>4 DEF Kept
<1>3. Reading(c)
  <2> SUFFICES ASSUME NEW blk \in Blocks(b), NEW k \in DOMAIN b.code[blk],
                      NEW x \in b.code[blk][k].reads
               PROVE  /\ \A j \in Nat : LastWrite(c, blk, x, k, j)
                           => b.code[blk][k].val = b.code[blk][j].val
                      /\ \/ \E j \in DOMAIN b.code[blk] : j < k /\ x \in b.code[blk][j].writes
                         \/ EntryValue(c, blk, x, b.code[blk][k].val)
    BY <1>0 DEF Reading
  <2>1. \A j \in Nat : LastWrite(c, blk, x, k, j) => LastWrite(b, blk, x, k, j)
    BY <1>0 DEF LastWrite
  <2>2. x \in Names
    <3>1. b.code[blk][k] \in Steps
      BY SMTT(30) DEF Typed, Blocks
    <3> QED
      BY <3>1 DEF Steps
  <2>3. EntryValue(b, blk, x, b.code[blk][k].val) => EntryValue(c, blk, x, b.code[blk][k].val)
    BY <2>2, KeptEntry
  <2> QED
    BY <2>1, <2>3 DEF Laid, Reading
<1>4. Single(c) /\ Ordered(c)
  BY <1>0 DEF Laid, Single, Ordered
<1>5. Coded(c)
  BY <1>0 DEF Laid, Coded, Kept
<1>6. NewValues(c)
  BY <1>0 DEF Laid, Coded, NewValues, Kept
<1> QED
  BY <1>1, <1>2, <1>3, <1>4, <1>5, <1>6 DEF Laid

-----------------------------------------------------------------------------
\* A phi, a definition or an operand more.

\* What becomes of the fields then.
PhiMade(b, c, x, blk, edges, p) ==
  /\ p \in Nat /\ p # NoValue /\ p \notin DOMAIN b.home /\ p \notin DOMAIN b.phis
  /\ DOMAIN c.home = DOMAIN b.home \cup {p} /\ c.home[p] = blk
  /\ \A v \in DOMAIN b.home : c.home[v] = b.home[v]
  /\ c.def[blk][x] = p
  /\ \A u \in Blocks(b), y \in Names : u # blk \/ y # x => c.def[u][y] = b.def[u][y]
  /\ DOMAIN c.phis = DOMAIN b.phis \cup {p} /\ c.phis[p] = [var |-> x, edges |-> edges]
  /\ \A q \in DOMAIN b.phis : c.phis[q] = b.phis[q] /\ q # p
  /\ Kept(b, c, {blk}, {})

\* A new phi takes a number that no value has.
LEMMA PhiFacts ==
  ASSUME NEW b, NEW c, Typed(b), Numbered(b), NEW blk \in Blocks(b), NEW x \in Names, NEW edges,
         MakesPhi(b, c, x, blk, edges), b.def[blk][x] = NoValue
  PROVE  PhiMade(b, c, x, blk, edges, NextValue(b))
<1> DEFINE p == NextValue(b)
<1>1. /\ p \in Nat /\ p # NoValue /\ p \notin DOMAIN b.home
      /\ c.home = Append(b.home, blk) /\ p = Len(b.home) + 1 /\ b.home \in Seq(1 .. b.blocks)
  BY DEF NextValue, Typed, MakesPhi, NoValue
<1>2. p \notin DOMAIN b.phis
  BY <1>1 DEF Numbered
<1>3. /\ DOMAIN c.home = DOMAIN b.home \cup {p} /\ c.home[p] = blk
      /\ \A v \in DOMAIN b.home : c.home[v] = b.home[v]
  BY <1>1
<1>4. c.def = [b.def EXCEPT ![blk][x] = p] /\ b.def \in [Blocks(b) -> [Names -> Nat]]
  BY DEF MakesPhi, Typed, Blocks
<1>5. /\ c.def[blk][x] = p
      /\ \A u \in Blocks(b), y \in Names :
              u # blk \/ y # x => c.def[u][y] = b.def[u][y]
  BY <1>4
<1>6. c.phis = [q \in DOMAIN b.phis \cup {p} |->
                     IF q = p THEN [var |-> x, edges |-> edges] ELSE b.phis[q]]
  BY DEF MakesPhi
<1> HIDE DEF p
<1>7. /\ DOMAIN c.phis = DOMAIN b.phis \cup {p} /\ c.phis[p] = [var |-> x, edges |-> edges]
      /\ \A q \in DOMAIN b.phis : c.phis[q] = b.phis[q] /\ q # p
  BY <1>2, <1>6
<1>8. Kept(b, c, {blk}, {})
  BY <1>1, <1>2, <1>3, <1>5, <1>7 DEF Kept, MakesPhi
<1> QED
  BY <1>1, <1>2, <1>3, <1>5, <1>7, <1>8 DEF p, PhiMade

\* The operands are what x is at the ends of the predecessors.
Fits(b, x, blk, edges) ==
  \A k \in DOMAIN edges :
    /\ k \in DOMAIN b.preds[blk] /\ edges[k].from = b.preds[blk][k]
    /\ edges[k].val # NoValue /\ edges[k].val = b.def[b.preds[blk][k]][x]

\* A phi for a variable that the block does not know keeps the function sound.
LEMMA PhiSound ==
  ASSUME NEW b, NEW c, NEW X, NEW Y, Sound(b, X), X \subseteq Y,
         NEW blk \in Blocks(b), NEW x \in Names, NEW edges,
         MakesPhi(b, c, x, blk, edges), b.def[blk][x] = NoValue,
         Fits(b, x, blk, edges),
         blk \in b.sealed => NextValue(b) \in Y \/ Len(edges) = Len(b.preds[blk]),
         blk \notin b.sealed => edges = <<>> /\ NextValue(b) \in c.incomplete
  PROVE  Sound(c, Y)
<1> DEFINE p == NextValue(b)
<1>0. Typed(b) /\ Laid(b) /\ Known(b, X) /\ Numbered(b)
  BY DEF Sound, Known
<1> HIDE DEF p
<1>0a. PhiMade(b, c, x, blk, edges, p)
  BY <1>0, PhiFacts DEF p
<1>1. /\ p \in Nat /\ p # NoValue /\ p \notin DOMAIN b.home /\ p \notin DOMAIN b.phis
      /\ DOMAIN c.home = DOMAIN b.home \cup {p} /\ c.home[p] = blk
      /\ \A v \in DOMAIN b.home : c.home[v] = b.home[v]
      /\ c.def[blk][x] = p
      /\ \A u \in Blocks(b), y \in Names : u # blk \/ y # x => c.def[u][y] = b.def[u][y]
      /\ DOMAIN c.phis = DOMAIN b.phis \cup {p} /\ c.phis[p] = [var |-> x, edges |-> edges]
      /\ \A q \in DOMAIN b.phis : c.phis[q] = b.phis[q] /\ q # p
      /\ Kept(b, c, {blk}, {})
  BY <1>0a DEF PhiMade
<1>2. /\ Blocks(c) = Blocks(b) /\ Typed(c) /\ c.code = b.code /\ c.preds = b.preds
      /\ c.sealed = b.sealed
      /\ b.incomplete \subseteq c.incomplete /\ c.incomplete \subseteq b.incomplete \cup {p}
  BY DEF MakesPhi, Blocks, p
<1>3. Laid(c)
  BY <1>0, <1>1, <1>2, KeptLaid
<1>4. Entering(c)
  <2> SUFFICES ASSUME NEW u \in Blocks(b), NEW y \in Names, c.def[u][y] # NoValue
               PROVE  Written(c, u, y) \/ EntryValue(c, u, y, c.def[u][y])
    BY <1>2 DEF Entering
  <2>1. CASE u = blk /\ y = x
    BY <2>1, <1>1 DEF EntryValue
  <2>2. CASE u # blk \/ y # x
    <3>1. c.def[u][y] = b.def[u][y]
      BY <2>2, <1>1
    <3>2. Written(b, u, y) \/ EntryValue(b, u, y, b.def[u][y])
      BY <1>0, <3>1 DEF Known, Entering
    <3>3. EntryValue(b, u, y, b.def[u][y]) => EntryValue(c, u, y, b.def[u][y])
      BY <1>0, <1>1, <1>2, KeptEntry, SMTT(30)
    <3> QED
      BY <3>1, <3>2, <3>3, <1>2 DEF Written
  <2> QED
    BY <2>1, <2>2
<1>5. Operands(c)
  <2> SUFFICES ASSUME NEW q \in DOMAIN c.phis, NEW k \in DOMAIN c.phis[q].edges
               PROVE  /\ k \in DOMAIN c.preds[c.home[q]]
                      /\ c.phis[q].edges[k].from = c.preds[c.home[q]][k]
                      /\ c.phis[q].edges[k].val # NoValue
                      /\ c.phis[q].edges[k].val = c.def[c.preds[c.home[q]][k]][c.phis[q].var]
    BY DEF Operands
  <2>0. \A u \in Blocks(b) : \A j \in DOMAIN b.preds[u] : b.preds[u][j] \in Blocks(b)
    BY <1>0, TypedFacts
  <2>1. CASE q = p
    <3>1. c.home[q] = blk /\ c.phis[q].edges = edges /\ c.phis[q].var = x
      BY <2>1, <1>1
    <3>2. b.preds[blk][k] \in Blocks(b)
      BY <3>1, <2>0, SMTT(30) DEF Fits
    <3>3. b.def[b.preds[blk][k]][x] # NoValue /\ Fits(b, x, blk, edges)
      BY <3>1, SMTT(30) DEF Fits
    <3> QED
      BY <3>1, <3>2, <3>3, <1>1, <1>2 DEF Fits
  <2>2. CASE q \in DOMAIN b.phis
    <3>1. c.phis[q] = b.phis[q] /\ q \in DOMAIN b.home /\ c.home[q] = b.home[q]
      BY <2>2, <1>0, <1>1, SMTT(30) DEF Numbered
    <3>2. /\ k \in DOMAIN b.preds[b.home[q]]
          /\ b.phis[q].edges[k].from = b.preds[b.home[q]][k]
          /\ b.phis[q].edges[k].val # NoValue
          /\ b.phis[q].edges[k].val = b.def[b.preds[b.home[q]][k]][b.phis[q].var]
      BY <2>2, <3>1, <1>0, SMTT(30) DEF Known, Operands
    <3>3. b.home[q] \in Blocks(b) /\ b.phis[q].var \in Names
      BY <2>2, <3>1, <1>0, TypedFacts, SMTT(30)
    <3>4. b.preds[b.home[q]][k] \in Blocks(b)
      BY <3>2, <3>3, <2>0, SMTT(30)
    <3>5. c.def[b.preds[b.home[q]][k]][b.phis[q].var] = b.phis[q].edges[k].val
      <4> DEFINE u == b.preds[b.home[q]][k]
                 y == b.phis[q].var
      <4>1. u \in Blocks(b) /\ y \in Names /\ b.def[u][y] # NoValue
        BY <3>2, <3>3, <3>4, Zenon
      <4> HIDE DEF u, y
      <4>2. c.def[u][y] = b.def[u][y]
        BY <4>1, <1>1 DEF Kept
      <4> QED
        BY <4>2, <3>2, Zenon DEF u, y
    <3> QED
      BY <3>1, <3>2, <3>5, <1>2, ZenonT(30)
  <2>3. q = p \/ q \in DOMAIN b.phis
    BY <1>1
  <2> QED
    BY <2>1, <2>2, <2>3, Zenon
<1>6. Complete(c, Y)
  <2> SUFFICES ASSUME NEW q \in DOMAIN c.phis \ Y
               PROVE  /\ c.home[q] \in c.sealed =>
                           Len(c.phis[q].edges) = Len(c.preds[c.home[q]])
                      /\ c.home[q] \notin c.sealed => c.phis[q].edges = <<>>
    BY DEF Complete
  <2>1. CASE q = p
    BY <2>1, <1>1, <1>2 DEF p
  <2>2. CASE q \in DOMAIN b.phis
    <3>1. c.phis[q] = b.phis[q] /\ q \in DOMAIN b.home /\ c.home[q] = b.home[q]
      BY <2>2, <1>0, <1>1 DEF Numbered
    <3> QED
      BY <2>2, <3>1, <1>0, <1>2 DEF Known, Complete
  <2> QED
    BY <2>1, <2>2, <1>1
<1>7. Waiting(c)
  <2> SUFFICES ASSUME NEW q \in DOMAIN c.phis, c.home[q] \notin c.sealed
               PROVE  q \in c.incomplete /\ c.def[c.home[q]][c.phis[q].var] # NoValue
    BY DEF Waiting
  <2>1. CASE q = p
    BY <2>1, <1>1, <1>2 DEF p
  <2>2. CASE q \in DOMAIN b.phis
    <3>1. c.phis[q] = b.phis[q] /\ q \in DOMAIN b.home /\ c.home[q] = b.home[q]
      BY <2>2, <1>0, <1>1 DEF Numbered
    <3>2. q \in b.incomplete /\ b.def[b.home[q]][b.phis[q].var] # NoValue
      BY <2>2, <3>1, <1>0, <1>2 DEF Known, Waiting
    <3>3. b.home[q] \in Blocks(b) /\ b.phis[q].var \in Names
      BY <2>2, <3>1, <1>0, TypedFacts
    <3> QED
      BY <3>1, <3>2, <3>3, <1>1, <1>2
  <2> QED
    BY <2>1, <2>2, <1>1
<1>8. Numbered(c)
  BY <1>0, <1>1, <1>2 DEF Numbered
<1>9. Ranked(c)
  <2>1. PICK r \in [Blocks(b) -> Nat] : Ranks(b, r)
    BY <1>0 DEF Known, Ranked
  <2>2. Ranks(c, r)
    <3>1. \A u \in Blocks(b), y \in Names :
            c.def[u][y] # NoValue => r[c.home[c.def[u][y]]] <= r[u]
      <4> SUFFICES ASSUME NEW u \in Blocks(b), NEW y \in Names, c.def[u][y] # NoValue
                   PROVE  r[c.home[c.def[u][y]]] <= r[u]
        OBVIOUS
      <4>1. CASE u = blk /\ y = x
        BY <4>1, <1>1
      <4>2. CASE u # blk \/ y # x
        <5>1. c.def[u][y] = b.def[u][y] /\ b.def[u][y] \in DOMAIN b.home
          BY <4>2, <1>0, <1>1 DEF Numbered
        <5> QED
          BY <5>1, <2>1, <1>1 DEF Ranks
      <4> QED
        BY <4>1, <4>2
    <3> QED
      BY <3>1, <2>1, <1>2 DEF Ranks
  <2> QED
    BY <2>2, <1>2 DEF Ranked
<1> QED
  BY <1>2, <1>3, <1>4, <1>5, <1>6, <1>7, <1>8, <1>9 DEF Sound, Known

\* A variable is given, in a block with one predecessor, the value it has there.
MakesWrite(b, c, x, blk, v) ==
  /\ c.blocks = b.blocks /\ c.preds = b.preds /\ c.succs = b.succs
  /\ c.def = [b.def EXCEPT ![blk][x] = v]
  /\ c.code = b.code /\ c.sealed = b.sealed /\ c.home = b.home
  /\ c.phis = b.phis /\ c.incomplete = b.incomplete /\ c.cur = b.cur /\ c.stuck = b.stuck
  /\ Typed(c)

\* What a write keeps, and what it changes.
WriteKept(b, c, X, blk, x, v) ==
  /\ Sound(c, X) /\ Kept(b, c, {blk}, {}) /\ c.def[blk][x] = v
  /\ \A u \in Blocks(b), y \in Names : u # blk \/ y # x => c.def[u][y] = b.def[u][y]

\* In a block with one predecessor a variable is what it is at its end.
LEMMA WriteSound ==
  ASSUME NEW b, NEW c, NEW X, Sound(b, X), NEW blk \in Blocks(b), NEW x \in Names, NEW v \in Nat,
         MakesWrite(b, c, x, blk, v), b.def[blk][x] = NoValue \/ b.def[blk][x] = v, v # NoValue,
         blk \in b.sealed, Len(b.preds[blk]) = 1, b.def[b.preds[blk][1]][x] = v
  PROVE  WriteKept(b, c, X, blk, x, v)
<1>0. Typed(b) /\ Laid(b) /\ Known(b, X) /\ Numbered(b)
  BY DEF Sound, Known
<1>1. c.def = [b.def EXCEPT ![blk][x] = v] /\ b.def \in [Blocks(b) -> [Names -> Nat]]
  BY <1>0 DEF MakesWrite, Typed, Blocks
<1>2. /\ c.def[blk][x] = v
      /\ \A u \in Blocks(b), y \in Names : u # blk \/ y # x => c.def[u][y] = b.def[u][y]
  BY <1>1
<1>3. /\ Blocks(c) = Blocks(b) /\ Typed(c) /\ c.code = b.code /\ c.preds = b.preds
      /\ c.sealed = b.sealed /\ c.home = b.home /\ c.phis = b.phis /\ c.incomplete = b.incomplete
  BY DEF MakesWrite, Blocks
<1>4. /\ \A u \in Blocks(b), y \in Names :
           b.def[u][y] # NoValue => c.def[u][y] = b.def[u][y]
      /\ \A u \in Blocks(b), y \in Names : u # blk => c.def[u][y] = b.def[u][y]
  BY <1>2
<1>5. Kept(b, c, {blk}, {})
  BY <1>0, <1>3, <1>4 DEF Kept, MakesWrite, Numbered
<1>6. Laid(c)
  BY <1>0, <1>3, <1>5, KeptLaid
<1>7. \A u \in Blocks(b) :
        /\ b.preds[u] \in Seq(Blocks(b))
        /\ \A j \in DOMAIN b.preds[u] : b.preds[u][j] \in Blocks(b)
  BY <1>0, TypedFacts
<1>8. /\ 1 \in DOMAIN b.preds[blk] /\ b.preds[blk][1] \in Blocks(b)
      /\ b.preds[blk] # <<>>
  <2>1. b.preds[blk] \in Seq(Blocks(b))
    BY <1>7
  <2>2. 1 \in DOMAIN b.preds[blk]
    BY <2>1
  <2> QED
    BY <2>1, <2>2
<1>9. c.def[b.preds[blk][1]][x] = v
  BY <1>4, <1>8
<1>10. Entering(c)
  <2> SUFFICES ASSUME NEW u \in Blocks(b), NEW y \in Names, c.def[u][y] # NoValue
               PROVE  Written(c, u, y) \/ EntryValue(c, u, y, c.def[u][y])
    BY <1>3 DEF Entering
  <2>1. CASE u = blk /\ y = x
    BY <2>1, <1>2, <1>3, <1>9 DEF EntryValue
  <2>2. CASE u # blk \/ y # x
    <3>1. c.def[u][y] = b.def[u][y]
      BY <2>2, <1>2
    <3>2. Written(b, u, y) \/ EntryValue(b, u, y, b.def[u][y])
      BY <1>0, <3>1 DEF Known, Entering
    <3>3. EntryValue(b, u, y, b.def[u][y]) => EntryValue(c, u, y, b.def[u][y])
      BY <1>0, <1>3, <1>5, KeptEntry
    <3> QED
      BY <3>1, <3>2, <3>3, <1>3 DEF Written
  <2> QED
    BY <2>1, <2>2
<1>11. \A q \in DOMAIN b.phis : b.home[q] \in Blocks(b) /\ b.phis[q].var \in Names
  BY <1>0, TypedFacts, SMTT(30) DEF Numbered
<1>12. Operands(c)
  <2> SUFFICES ASSUME NEW q \in DOMAIN b.phis, NEW k \in DOMAIN b.phis[q].edges
               PROVE  /\ k \in DOMAIN b.preds[b.home[q]]
                      /\ b.phis[q].edges[k].from = b.preds[b.home[q]][k]
                      /\ b.phis[q].edges[k].val # NoValue
                      /\ b.phis[q].edges[k].val = c.def[b.preds[b.home[q]][k]][b.phis[q].var]
    BY <1>3, SMTT(30) DEF Operands
  <2>1. /\ k \in DOMAIN b.preds[b.home[q]]
        /\ b.phis[q].edges[k].from = b.preds[b.home[q]][k]
        /\ b.phis[q].edges[k].val # NoValue
        /\ b.phis[q].edges[k].val = b.def[b.preds[b.home[q]][k]][b.phis[q].var]
    BY <1>0, SMTT(30) DEF Known, Operands
  <2>2. b.preds[b.home[q]][k] \in Blocks(b)
    BY <2>1, <1>7, <1>11, Zenon
  <2> QED
    BY <2>1, <2>2, <1>4, <1>11, ZenonT(30)
<1>13. Complete(c, X)
  BY <1>0, <1>3 DEF Known, Complete
<1>14. Waiting(c)
  BY <1>0, <1>3, <1>4, <1>11 DEF Known, Waiting
<1>15. v \in DOMAIN b.home
  BY <1>0, <1>8 DEF Numbered
<1>16. Numbered(c)
  BY <1>0, <1>2, <1>3, <1>15 DEF Numbered
<1>17. Ranked(c)
  <2>1. PICK r \in [Blocks(b) -> Nat] : Ranks(b, r)
    BY <1>0 DEF Known, Ranked
  <2>2. r[b.home[v]] <= r[blk]
    <3>1. r[b.home[v]] <= r[b.preds[blk][1]] /\ r[b.preds[blk][1]] < r[blk]
      BY <1>8, <2>1 DEF Ranks
    <3>2. b.home[v] \in Blocks(b)
      BY <1>0, <1>15, TypedFacts
    <3>3. r[b.home[v]] \in Nat /\ r[b.preds[blk][1]] \in Nat /\ r[blk] \in Nat
      BY <1>8, <3>2
    <3> QED
      BY <3>1, <3>3
  <2>3. Ranks(c, r)
    BY <2>1, <2>2, <1>2, <1>3 DEF Ranks
  <2> QED
    BY <2>3, <1>3 DEF Ranked
<1>18. Sound(c, X)
  BY <1>3, <1>6, <1>10, <1>12, <1>13, <1>14, <1>16, <1>17 DEF Sound, Known
<1> QED
  BY <1>2, <1>5, <1>18 DEF WriteKept

\* When that is so.
WriteFits(b, c, X, blk, x, v) ==
  /\ Sound(b, X) /\ MakesWrite(b, c, x, blk, v)
  /\ blk \in Blocks(b) /\ x \in Names /\ v \in Nat /\ v # NoValue
  /\ b.def[blk][x] = NoValue \/ b.def[blk][x] = v
  /\ blk \in b.sealed /\ Len(b.preds[blk]) = 1 /\ b.def[b.preds[blk][1]][x] = v

LEMMA WriteKeeps ==
  ASSUME NEW b, NEW c, NEW X, NEW blk, NEW x, NEW v, WriteFits(b, c, X, blk, x, v)
  PROVE  WriteKept(b, c, X, blk, x, v)
<1>1. /\ Sound(b, X) /\ MakesWrite(b, c, x, blk, v)
      /\ blk \in Blocks(b) /\ x \in Names /\ v \in Nat /\ v # NoValue
      /\ b.def[blk][x] = NoValue \/ b.def[blk][x] = v
      /\ blk \in b.sealed /\ Len(b.preds[blk]) = 1 /\ b.def[b.preds[blk][1]][x] = v
  BY Zenon DEF WriteFits
<1> QED
  BY <1>1, WriteSound

\* A phi of X gets its next operand.
MakesOperand(b, c, p, e) ==
  /\ c.blocks = b.blocks /\ c.preds = b.preds /\ c.succs = b.succs
  /\ c.def = b.def /\ c.code = b.code /\ c.sealed = b.sealed /\ c.home = b.home
  /\ c.phis = [b.phis EXCEPT ![p].edges = Append(b.phis[p].edges, e)]
  /\ c.incomplete = b.incomplete /\ c.cur = b.cur /\ c.stuck = b.stuck
  /\ Typed(c)

\* e is the k-th operand of phi p.
IsOperand(b, p, k, e) ==
  /\ k \in DOMAIN b.preds[b.home[p]] /\ e.from = b.preds[b.home[p]][k]
  /\ e.val # NoValue /\ e.val = b.def[b.preds[b.home[p]][k]][b.phis[p].var]

\* An operand that is what the variable is at the predecessor's end.
LEMMA OperandSound ==
  ASSUME NEW b, NEW c, NEW X, Sound(b, X), NEW p \in DOMAIN b.phis, p \in X, NEW e,
         MakesOperand(b, c, p, e), e \in Edges(b.blocks),
         IsOperand(b, p, Len(b.phis[p].edges) + 1, e)
  PROVE  /\ Sound(c, X) /\ Kept(b, c, {}, {p})
         /\ DOMAIN c.phis = DOMAIN b.phis
         /\ \A q \in DOMAIN b.phis : c.phis[q].var = b.phis[q].var /\ (q # p => c.phis[q] = b.phis[q])
         /\ Len(c.phis[p].edges) = Len(b.phis[p].edges) + 1
<1>0. Typed(b) /\ Laid(b) /\ Known(b, X) /\ Numbered(b)
  BY DEF Sound, Known
<1>1. c.phis = [b.phis EXCEPT ![p].edges = Append(b.phis[p].edges, e)]
  BY DEF MakesOperand
<1>2. \A q \in DOMAIN b.phis : b.phis[q] \in Phis(b.blocks)
  BY <1>0 DEF Typed
<1>3. /\ DOMAIN c.phis = DOMAIN b.phis
      /\ \A q \in DOMAIN b.phis : c.phis[q].var = b.phis[q].var /\ (q # p => c.phis[q] = b.phis[q])
      /\ c.phis[p].edges = Append(b.phis[p].edges, e)
  BY <1>1, <1>2 DEF Phis
<1> DEFINE S == Edges(b.blocks)
<1>4. b.phis[p].edges \in Seq(S) /\ e \in S
  BY <1>0, TypedFacts
<1> HIDE DEF S
<1>5. /\ Blocks(c) = Blocks(b) /\ Typed(c) /\ c.code = b.code /\ c.preds = b.preds
      /\ c.sealed = b.sealed /\ c.home = b.home /\ c.def = b.def /\ c.incomplete = b.incomplete
  BY DEF MakesOperand, Blocks
<1>6. Kept(b, c, {}, {p})
  BY <1>0, <1>3, <1>5 DEF Kept, MakesOperand, Numbered
<1>7. Laid(c)
  BY <1>0, <1>5, <1>6, KeptLaid
<1>8. Entering(c)
  <2>1. \A u \in Blocks(b), y \in Names : \A v :
          EntryValue(b, u, y, v) => EntryValue(c, u, y, v)
    BY <1>0, <1>5, <1>6, KeptEntry
  <2> QED
    BY <2>1, <1>0, <1>5 DEF Known, Entering, Written
<1>9. Len(c.phis[p].edges) = Len(b.phis[p].edges) + 1
  BY <1>3, <1>4, SMTT(30)
<1>10. Operands(c)
  <2> SUFFICES ASSUME NEW q \in DOMAIN c.phis, NEW k \in DOMAIN c.phis[q].edges
               PROVE  IsOperand(c, q, k, c.phis[q].edges[k])
    BY ZenonT(30) DEF Operands, IsOperand
  <2> SUFFICES IsOperand(b, q, k, c.phis[q].edges[k])
    BY <1>3, <1>5, Zenon DEF IsOperand
  <2>1. CASE q = p /\ k = Len(b.phis[p].edges) + 1
    <3>1. c.phis[p].edges[k] = e
      BY <2>1, <1>3, <1>4
    <3> QED
      BY <2>1, <3>1
  <2>2. CASE k \in DOMAIN b.phis[q].edges /\ c.phis[q].edges[k] = b.phis[q].edges[k]
    <3>1. Operands(b) /\ q \in DOMAIN b.phis
      BY <1>0, <1>3, SMTT(30) DEF Known
    <3>2. IsOperand(b, q, k, b.phis[q].edges[k])
      BY <2>2, <3>1, Zenon DEF Operands, IsOperand
    <3> QED
      BY <2>2, <3>2
  <2>3. CASE q = p /\ k # Len(b.phis[p].edges) + 1
    <3>1. k \in DOMAIN b.phis[p].edges /\ c.phis[p].edges[k] = b.phis[p].edges[k]
      BY <2>3, <1>3, <1>4
    <3> QED
      BY <2>2, <2>3, <3>1
  <2> QED
    BY <1>3, <2>1, <2>2, <2>3, SMTT(30)
<1>11. Complete(c, X)
  BY <1>0, <1>3, <1>5 DEF Known, Complete
<1>12. Waiting(c)
  BY <1>0, <1>3, <1>5 DEF Known, Waiting
<1>13. Numbered(c) /\ Ranked(c)
  BY <1>0, <1>3, <1>5 DEF Known, Numbered, Ranked, Ranks
<1> QED
  BY <1>3, <1>5, <1>6, <1>7, <1>8, <1>9, <1>10, <1>11, <1>12, <1>13 DEF Sound, Known

-----------------------------------------------------------------------------
\* The invariant of the machine that reads a variable.

Calls(n) == [block : 1 .. n, phi : Nat]

\* The machine's state has its fields, and they have their types.
IsState(s) == s = [fn |-> s.fn, var |-> s.var, at |-> s.at, val |-> s.val, calls |-> s.calls]

RTyped(s) ==
  /\ IsState(s)
  /\ Typed(s.fn) /\ s.var \in Names /\ s.at \in Blocks(s.fn) /\ s.val \in Nat
  /\ s.calls \in Seq(Calls(s.fn.blocks))

\* The phis that calls under way will complete.
Own(calls) == {calls[i].phi : i \in DOMAIN calls}

\* The block a call waits for a value of.
Wanted(f, call) ==
  f.preds[call.block][IF call.phi = NoValue THEN 1 ELSE Len(f.phis[call.phi].edges) + 1]

\* The function is sound but for the phis under way, and whatever the read has added
\* stands where nothing was known of the variable.
RSound(b, X, start, p, s) ==
  /\ Sound(s.fn, X \cup Own(s.calls))
  /\ Kept(b, s.fn, IF p = NoValue THEN {start} ELSE {}, {p})
  /\ \A v \in DOMAIN s.fn.home : v \in DOMAIN b.home \/ b.def[s.fn.home[v]][s.var] = NoValue

\* What a call under way has found: one predecessor, or a phi of the variable.
Frame(b, p, s, i) ==
  LET call == s.calls[i]
  IN  /\ call.phi = NoValue => call.block \in s.fn.sealed /\ Len(s.fn.preds[call.block]) = 1
      /\ call.phi # NoValue =>
           /\ call.phi \in DOMAIN s.fn.phis /\ s.fn.phis[call.phi].var = s.var
           /\ s.fn.home[call.phi] = call.block
           /\ call.phi = p \/ (call.phi \notin DOMAIN b.phis /\ call.block \in s.fn.sealed)
           /\ i > 1 \/ p = NoValue => s.fn.def[call.block][s.var] = call.phi

RFrames(b, p, s) == \A i \in DOMAIN s.calls : Frame(b, p, s, i)

\* The phi of a call has operands to come.
More(f, call) == Len(f.phis[call.phi].edges) + 1 \in DOMAIN f.preds[call.block]

\* The first n of the calls that fill a phi have operands to come.
RMore(s, n) ==
  \A i \in DOMAIN s.calls : i <= n /\ s.calls[i].phi # NoValue => More(s.fn, s.calls[i])

\* Each call was made for the value that the call before it waits for.
RChain(start, s) ==
  /\ s.calls # <<>> => s.calls[1].block = start
  /\ \A i \in DOMAIN s.calls : i > 1 => s.calls[i].block = Wanted(s.fn, s.calls[i - 1])

\* The innermost call waits for the value that is looked up, or gets what it waits for.
RTop(start, p, s) ==
  /\ s.calls # <<>> =>
       LET w == Wanted(s.fn, s.calls[Len(s.calls)])
       IN  IF s.val = NoValue THEN s.at = w ELSE s.fn.def[w][s.var] = s.val
  /\ s.calls = <<>> =>
       /\ s.val = NoValue => s.at = start /\ p = NoValue
       /\ s.val # NoValue => IF p = NoValue THEN s.fn.def[start][s.var] = s.val
                             ELSE Len(s.fn.phis[p].edges) = Len(s.fn.preds[start])

\* No phi is filled in twice at once.
RDistinct(s) ==
  \A i, j \in DOMAIN s.calls :
    s.calls[i].phi = s.calls[j].phi /\ s.calls[i].phi # NoValue => i = j

\* When sealBlock fills phi p, the outermost call is its.
RMode(b, X, start, p, s) ==
  p # NoValue => /\ p \in X /\ p \in DOMAIN b.phis /\ b.home[p] = start /\ b.phis[p].var = s.var
                 /\ s.calls # <<>> => s.calls[1].phi = p

\* The value that a call for a single predecessor finds in its block is the one it
\* will be given: that of the next phi.
Later(s, i) ==
  \E j \in DOMAIN s.calls :
    /\ i < j /\ s.calls[j].phi # NoValue
    /\ s.fn.def[s.calls[i].block][s.var] = s.calls[j].phi
    /\ \A k \in DOMAIN s.calls : i < k /\ k < j => s.calls[k].phi = NoValue

\* A call for a single predecessor has not found its variable, or finds it in a phi ...
RLater(s) ==
  \A i \in DOMAIN s.calls : s.calls[i].phi = NoValue =>
    s.fn.def[s.calls[i].block][s.var] = NoValue \/ Later(s, i)

\* ... or gets that value now.
RValues(s) ==
  \A i \in DOMAIN s.calls : s.calls[i].phi = NoValue =>
    \/ s.fn.def[s.calls[i].block][s.var] = NoValue
    \/ Later(s, i)
    \/ /\ s.fn.def[s.calls[i].block][s.var] = s.val
       /\ \A j \in DOMAIN s.calls : j > i => s.calls[j].phi = NoValue

\* The function that the read began with.
Start0(b, start) == Typed(b) /\ Numbered(b) /\ start \in Blocks(b)

\* What holds in every state of a read ...
RBase(b, X, start, p, s) ==
  /\ Start0(b, start) /\ RTyped(s) /\ RSound(b, X, start, p, s) /\ RFrames(b, p, s)
  /\ RChain(start, s) /\ RDistinct(s) /\ RMode(b, X, start, p, s)

\* ... between two steps ...
RFull(b, X, start, p, s) ==
  /\ RBase(b, X, start, p, s) /\ RMore(s, Len(s.calls)) /\ RTop(start, p, s) /\ RValues(s)

\* ... and within a step, before a phi asks for its next operand.
RMid(b, X, start, p, s) ==
  /\ RBase(b, X, start, p, s) /\ RMore(s, Len(s.calls) - 1) /\ RLater(s)
  /\ s.calls # <<>> /\ s.calls[Len(s.calls)].phi # NoValue

\* f is q without its last element, and a is q with e after it.
IsFront(T, q, f) ==
  /\ f \in Seq(T) /\ Len(f) = Len(q) - 1 /\ Len(q) \in DOMAIN q /\ Len(q) \in Nat /\ Len(q) >= 1
  /\ \A i \in DOMAIN f : i \in DOMAIN q /\ f[i] = q[i] /\ i < Len(q) /\ i \in Nat /\ i >= 1
  /\ \A i \in DOMAIN q : i \in Nat /\ i >= 1 /\ i <= Len(q) /\ (i = Len(q) \/ i \in DOMAIN f)
  /\ f # <<>> => 1 \in DOMAIN f /\ Len(f) \in DOMAIN f

IsLast(T, q, e, a) ==
  /\ a \in Seq(T) /\ Len(a) = Len(q) + 1 /\ Len(q) \in Nat /\ a # <<>>
  /\ a[Len(a)] = e /\ Len(a) \in DOMAIN a
  /\ \A i \in DOMAIN q : i \in DOMAIN a /\ a[i] = q[i] /\ i <= Len(q) /\ i \in Nat /\ i >= 1
  /\ \A i \in DOMAIN a : i = Len(a) \/ i \in DOMAIN q
  /\ q # <<>> => 1 \in DOMAIN q /\ Len(q) \in DOMAIN q
  /\ q = <<>> => Len(a) = 1

\* What a pop and a push leave.
LEMMA FrontFacts ==
  ASSUME NEW T, NEW q \in Seq(T), q # <<>>
  PROVE  IsFront(T, q, SubSeq(q, 1, Len(q) - 1))
<1> DEFINE f == SubSeq(q, 1, Len(q) - 1)
           n == Len(q)
<1>1. n \in Nat /\ n >= 1 /\ DOMAIN q = 1 .. n
  OBVIOUS
<1>2. f \in Seq(T) /\ Len(f) = n - 1 /\ \A i \in 1 .. n - 1 : f[i] = q[i]
  BY <1>1
<1>3. DOMAIN f = 1 .. n - 1
  BY <1>2
<1>4. f # <<>> => n - 1 >= 1
  BY <1>1, <1>2, <1>3
<1> HIDE DEF f, n
<1> QED
  BY <1>1, <1>2, <1>3, <1>4 DEF IsFront, f, n

LEMMA LastFacts ==
  ASSUME NEW T, NEW q \in Seq(T), NEW e \in T
  PROVE  IsLast(T, q, e, Append(q, e))
<1> DEFINE a == Append(q, e)
           n == Len(q)
<1>1. n \in Nat /\ DOMAIN q = 1 .. n
  OBVIOUS
<1>2. a \in Seq(T) /\ Len(a) = n + 1 /\ a[n + 1] = e /\ \A i \in 1 .. n : a[i] = q[i]
  OBVIOUS
<1>3. DOMAIN a = 1 .. n + 1 /\ a # <<>>
  BY <1>1, <1>2
<1>4. q # <<>> => n >= 1
  OBVIOUS
<1>5. q = <<>> => n = 0
  OBVIOUS
<1> HIDE DEF a, n
<1> QED
  BY <1>1, <1>2, <1>3, <1>4, <1>5 DEF IsLast, a, n

-----------------------------------------------------------------------------
\* A call that has been answered asks for the next operand, or returns.

\* The machine has gone on with the same function and calls.
RGoes(s, t) == t.fn = s.fn /\ t.var = s.var /\ t.calls = s.calls

\* The calls and the function are the same.
LEMMA BaseGoes ==
  ASSUME NEW b, NEW X, NEW start, NEW p, NEW s, NEW t, RBase(b, X, start, p, s), RGoes(s, t),
         RTyped(t)
  PROVE  RBase(b, X, start, p, t)
<1>1. RSound(b, X, start, p, t)
  BY DEF RBase, RGoes, RSound
<1>2. RFrames(b, p, t)
  BY DEF RBase, RGoes, RFrames, Frame
<1>3. RChain(start, t)
  BY DEF RBase, RGoes, RChain
<1>4. RDistinct(t) /\ RMode(b, X, start, p, t)
  BY DEF RBase, RGoes, RDistinct, RMode
<1> QED
  BY <1>1, <1>2, <1>3, <1>4, SMTT(30) DEF RBase

\* What is known of the innermost call.
LEMMA TopFacts ==
  ASSUME NEW b, NEW X, NEW start, NEW p, NEW s, RBase(b, X, start, p, s), s.calls # <<>>
  PROVE  /\ Len(s.calls) \in DOMAIN s.calls /\ Len(s.calls) \in Nat /\ Len(s.calls) >= 1
         /\ s.calls[Len(s.calls)].block \in Blocks(s.fn)
         /\ s.calls[Len(s.calls)].phi \in Nat
         /\ Frame(b, p, s, Len(s.calls))
         /\ IsFront(Calls(s.fn.blocks), s.calls, SubSeq(s.calls, 1, Len(s.calls) - 1))
         /\ \A i \in DOMAIN s.calls : s.calls[i].block \in Blocks(s.fn) /\ s.calls[i].phi \in Nat
<1> DEFINE T == Calls(s.fn.blocks)
<1>1. s.calls \in Seq(T)
  BY DEF RBase, RTyped
<1> HIDE DEF T
<1>2. IsFront(T, s.calls, SubSeq(s.calls, 1, Len(s.calls) - 1))
  BY <1>1, FrontFacts
<1>3. Len(s.calls) \in DOMAIN s.calls /\ Len(s.calls) \in Nat /\ Len(s.calls) >= 1
  BY <1>2 DEF IsFront
<1>4. \A i \in DOMAIN s.calls : s.calls[i] \in T
  BY <1>1
<1>5. \A i \in DOMAIN s.calls : s.calls[i].block \in Blocks(s.fn) /\ s.calls[i].phi \in Nat
  BY <1>4 DEF T, Calls, Blocks
<1>6. Frame(b, p, s, Len(s.calls))
  BY <1>3 DEF RBase, RFrames
<1> QED
  BY <1>2, <1>3, <1>5, <1>6 DEF T

\* A phi that has operands to come asks for the next ...
LEMMA AsksNext ==
  ASSUME NEW b, NEW X, NEW start, NEW p, NEW s, RMid(b, X, start, p, s),
         NEW call, call = s.calls[Len(s.calls)],
         More(s.fn, call), NEW w, w = Wanted(s.fn, call)
  PROVE  RFull(b, X, start, p, [s EXCEPT !.at = w, !.val = NoValue])
<1> DEFINE t == [s EXCEPT !.at = w, !.val = NoValue]
<1>0. /\ RBase(b, X, start, p, s) /\ RMore(s, Len(s.calls) - 1) /\ RLater(s)
      /\ s.calls # <<>> /\ call.phi # NoValue /\ RTyped(s) /\ Typed(s.fn)
  BY DEF RMid, RBase, RTyped
<1>1. /\ Len(s.calls) \in DOMAIN s.calls /\ Len(s.calls) \in Nat /\ call.block \in Blocks(s.fn)
  BY <1>0, TopFacts
<1>2. w \in Blocks(s.fn)
  <2> DEFINE k == Len(s.fn.phis[call.phi].edges) + 1
  <2>1. k \in DOMAIN s.fn.preds[call.block] /\ w = s.fn.preds[call.block][k]
    BY <1>0, Zenon DEF More, Wanted
  <2> HIDE DEF k
  <2> QED
    BY <1>0, <1>1, <2>1, TypedFacts, SMTT(30)
<1>3. /\ t.fn = s.fn /\ t.var = s.var /\ t.calls = s.calls /\ t.at = w /\ t.val = NoValue
      /\ IsState(t)
  <2>1. IsState(s)
    BY <1>0 DEF RTyped
  <2>2. t.fn = s.fn /\ t.var = s.var /\ t.calls = s.calls /\ t.at = w /\ t.val = NoValue
    BY <2>1 DEF IsState
  <2>3. t = [s EXCEPT !.at = w, !.val = NoValue]
    OBVIOUS
  <2> HIDE DEF t
  <2>4. IsState(t)
    BY <2>1, <2>2, <2>3, Zenon DEF IsState
  <2> QED
    BY <2>2, <2>4
<1> HIDE DEF t
<1>4. RTyped(t)
  BY <1>0, <1>2, <1>3 DEF RTyped, NoValue
<1>5. RBase(b, X, start, p, t)
  BY <1>0, <1>3, <1>4, BaseGoes DEF RGoes
<1>6. RMore(t, Len(t.calls))
  <2> SUFFICES ASSUME NEW i \in DOMAIN s.calls, s.calls[i].phi # NoValue
               PROVE  More(s.fn, s.calls[i])
    BY <1>3 DEF RMore
  <2>1. CASE i = Len(s.calls)
    BY <2>1
  <2>2. CASE i # Len(s.calls)
    <3>1. i <= Len(s.calls) - 1
      <4>1. IsFront(Calls(s.fn.blocks), s.calls, SubSeq(s.calls, 1, Len(s.calls) - 1))
        BY <1>0, TopFacts, SMTT(30)
      <4> QED
        BY <2>2, <4>1, SMTT(30) DEF IsFront
    <3> QED
      BY <3>1, <1>0 DEF RMore
  <2> QED
    BY <2>1, <2>2
<1>7. RTop(start, p, t)
  BY <1>0, <1>3, Zenon DEF RTop, Wanted
<1>8. RValues(t)
  BY <1>0, <1>3 DEF RLater, RValues, Later
<1> QED
  BY <1>5, <1>6, <1>7, <1>8 DEF RFull, t

\* The calls without the innermost one.
LEMMA BasePops ==
  ASSUME NEW b, NEW X, NEW start, NEW p, NEW s, NEW t, RBase(b, X, start, p, s), s.calls # <<>>,
         RTyped(t), t.fn = s.fn, t.var = s.var, t.calls = SubSeq(s.calls, 1, Len(s.calls) - 1),
         Sound(s.fn, X \cup Own(t.calls))
  PROVE  RBase(b, X, start, p, t)
<1>1. IsFront(Calls(s.fn.blocks), s.calls, t.calls)
  BY TopFacts
<1>2. \A i \in DOMAIN t.calls : i \in DOMAIN s.calls /\ t.calls[i] = s.calls[i]
  BY <1>1, SMTT(30) DEF IsFront
<1>3. RSound(b, X, start, p, t)
  BY SMTT(30) DEF RBase, RSound
<1>4. RFrames(b, p, t)
  BY <1>2 DEF RBase, RFrames, Frame
<1>5. RChain(start, t)
  <2>1. t.calls # <<>> => 1 \in DOMAIN t.calls
    BY <1>1 DEF IsFront
  <2>2. \A i \in DOMAIN t.calls : i > 1 => i - 1 \in DOMAIN t.calls
    <3>1. t.calls \in Seq(Calls(s.fn.blocks))
      BY <1>1 DEF IsFront
    <3> QED
      BY <3>1
  <2> QED
    BY <2>1, <2>2, <1>2, Zenon DEF RBase, RChain
<1>6. RDistinct(t)
  BY <1>2 DEF RBase, RDistinct
<1>7. RMode(b, X, start, p, t)
  <2>1. t.calls # <<>> => 1 \in DOMAIN t.calls
    BY <1>1 DEF IsFront
  <2> QED
    BY <2>1, <1>2 DEF RBase, RMode
<1> QED
  BY <1>3, <1>4, <1>5, <1>6, <1>7 DEF RBase

\* ... one that has them all is the value of the call that made it ...
LEMMA HasAll ==
  ASSUME NEW b, NEW X, NEW start, NEW p, NEW s, RMid(b, X, start, p, s),
         NEW call, call = s.calls[Len(s.calls)],
         ~More(s.fn, call)
  PROVE  RFull(b, X, start, p, [s EXCEPT !.calls = SubSeq(@, 1, Len(@) - 1), !.val = call.phi])
<1> DEFINE q == call.phi
           n == Len(s.calls)
           t == [s EXCEPT !.calls = SubSeq(@, 1, Len(@) - 1), !.val = q]
<1>0. /\ RBase(b, X, start, p, s) /\ RMore(s, n - 1) /\ RLater(s)
      /\ s.calls # <<>> /\ q # NoValue /\ RTyped(s) /\ Typed(s.fn) /\ RSound(b, X, start, p, s)
      /\ Sound(s.fn, X \cup Own(s.calls)) /\ RMode(b, X, start, p, s) /\ RChain(start, s)
      /\ RFrames(b, p, s)
  BY DEF RMid, RBase, RTyped, RSound
<1>1. /\ n \in DOMAIN s.calls /\ n \in Nat /\ n >= 1
      /\ call.block \in Blocks(s.fn) /\ q \in Nat /\ Frame(b, p, s, n)
      /\ IsFront(Calls(s.fn.blocks), s.calls, SubSeq(s.calls, 1, n - 1))
  BY <1>0, TopFacts
<1>2. /\ t.fn = s.fn /\ t.var = s.var /\ t.calls = SubSeq(s.calls, 1, n - 1) /\ t.at = s.at
      /\ t.val = q /\ IsState(t)
  <2>1. IsState(s)
    BY <1>0 DEF RTyped
  <2> HIDE DEF q, n
  <2>2. t = [s EXCEPT !.calls = SubSeq(s.calls, 1, n - 1), !.val = q]
    BY DEF n
  <2> HIDE DEF t
  <2>3. /\ t.fn = s.fn /\ t.var = s.var /\ t.calls = SubSeq(s.calls, 1, n - 1) /\ t.at = s.at
        /\ t.val = q
    BY <2>1, <2>2, Zenon DEF IsState
  <2>4. IsState(t)
    BY <2>1, <2>2, <2>3, Zenon DEF IsState
  <2> QED
    BY <2>3, <2>4
<1> HIDE DEF t
<1>3. t.calls \in Seq(Calls(s.fn.blocks)) /\ IsFront(Calls(s.fn.blocks), s.calls, t.calls)
  BY <1>1, <1>2 DEF IsFront
<1>4. RTyped(t)
  BY <1>0, <1>1, <1>2, <1>3 DEF RTyped
<1>5. /\ q \in DOMAIN s.fn.phis /\ s.fn.phis[q].var = s.var /\ s.fn.home[q] = call.block
      /\ q = p \/ call.block \in s.fn.sealed
      /\ n > 1 \/ p = NoValue => s.fn.def[call.block][s.var] = q
  BY <1>0, <1>1, SMTT(30) DEF Frame
<1>6. Len(s.fn.phis[q].edges) = Len(s.fn.preds[call.block])
  <2>1. \A k \in DOMAIN s.fn.phis[q].edges : k \in DOMAIN s.fn.preds[call.block]
    BY <1>0, <1>5, ZenonT(30) DEF Sound, Known, Operands
  <2>2. s.fn.phis[q].edges \in Seq(Edges(s.fn.blocks)) /\ s.fn.preds[call.block] \in Seq(Blocks(s.fn))
    BY <1>0, <1>1, <1>5, TypedFacts, SMTT(30)
  <2> DEFINE e == s.fn.phis[q].edges
             r == s.fn.preds[call.block]
             S == Edges(s.fn.blocks)
             R == Blocks(s.fn)
  <2>a. e \in Seq(S) /\ r \in Seq(R) /\ (\A k \in DOMAIN e : k \in DOMAIN r) /\ Len(e) + 1 \notin DOMAIN r
    BY <2>1, <2>2, Zenon DEF More
  <2> HIDE DEF e, r, S, R
  <2>3. /\ Len(e) \in Nat /\ Len(r) \in Nat /\ DOMAIN e = 1 .. Len(e) /\ DOMAIN r = 1 .. Len(r)
        /\ Len(e) + 1 \notin DOMAIN r /\ DOMAIN e \subseteq DOMAIN r
    BY <2>a
  <2>4. Len(e) # 0 => Len(e) \in DOMAIN r
    BY <2>3
  <2> DEFINE m == Len(e)
             l == Len(r)
  <2>5. m \in Nat /\ l \in Nat /\ (m # 0 => m \in 1 .. l) /\ m + 1 \notin 1 .. l
    BY <2>3, <2>4
  <2> HIDE DEF m, l
  <2>6. m = l
    BY <2>5
  <2>7. Len(e) = Len(r)
    BY <2>6 DEF m, l
  <2> QED
    BY <2>7, SMTT(30) DEF e, r
<1> HIDE DEF q, n
<1>7. Sound(s.fn, X \cup Own(t.calls))
  <2>1. Complete(s.fn, X \cup Own(t.calls))
    <3> SUFFICES ASSUME NEW z \in DOMAIN s.fn.phis, z \notin X, z \notin Own(t.calls)
                 PROVE  /\ s.fn.home[z] \in s.fn.sealed =>
                             Len(s.fn.phis[z].edges) = Len(s.fn.preds[s.fn.home[z]])
                        /\ s.fn.home[z] \notin s.fn.sealed => s.fn.phis[z].edges = <<>>
      BY DEF Complete
    <3>1. CASE z = q
      <4>1. z # p
        <5>1. p # NoValue => p \in X
          BY <1>0 DEF RMode
        <5> QED
          BY <5>1, <3>1, <1>0 DEF q
      <4> QED
        BY <3>1, <4>1, <1>5, <1>6
    <3>2. CASE z # q
      <4>1. z \notin Own(s.calls)
        <5> SUFFICES ASSUME NEW i \in DOMAIN s.calls, s.calls[i].phi = z PROVE FALSE
          BY DEF Own
        <5>1. i = n \/ (i \in DOMAIN t.calls /\ t.calls[i] = s.calls[i])
          BY <1>3 DEF IsFront, n
        <5> QED
          BY <5>1, <3>2 DEF Own, n, q
      <4> QED
        BY <4>1, <1>0 DEF Sound, Known, Complete
    <3> QED
      BY <3>1, <3>2
  <2> QED
    BY <2>1, <1>0 DEF Sound, Known
<1>8. RBase(b, X, start, p, t)
  BY <1>0, <1>2, <1>4, <1>7, BasePops, Zenon DEF n
<1>9. \A i \in DOMAIN t.calls : i \in DOMAIN s.calls /\ t.calls[i] = s.calls[i] /\ i <= n - 1
  BY <1>1, <1>3 DEF IsFront, n
<1>10. RMore(t, Len(t.calls))
  BY <1>0, <1>2, <1>9, Zenon DEF RMore
<1>11. RTop(start, p, t)
  <2>1. CASE t.calls # <<>>
    <3>1. Len(t.calls) \in DOMAIN t.calls /\ Len(t.calls) = n - 1 /\ n > 1
      BY <2>1, <1>1, <1>3 DEF IsFront, n
    <3>2. t.calls[Len(t.calls)] = s.calls[n - 1]
      BY <3>1, <1>9
    <3>3. call.block = Wanted(s.fn, s.calls[n - 1])
      BY <3>1, <1>0, <1>1, Zenon DEF RChain, n
    <3> QED
      BY <2>1, <3>1, <3>2, <3>3, <1>0, <1>2, <1>5 DEF RTop
  <2>2. CASE t.calls = <<>>
    <3>1. n = 1
      <4>1. Len(t.calls) = 0
        BY <2>2
      <4>2. Len(t.calls) = n - 1
        BY <1>3 DEF IsFront, n
      <4> QED
        BY <4>1, <4>2, <1>1
    <3>2. call = s.calls[1] /\ call.block = start
      BY <3>1, <1>0 DEF RChain, n
    <3>3. p # NoValue => q = p
      BY <3>2, <1>0 DEF RMode, q
    <3> QED
      BY <2>2, <3>2, <3>3, <1>0, <1>2, <1>5, <1>6 DEF RTop
  <2> QED
    BY <2>1, <2>2
<1>12. RValues(t)
  <2> SUFFICES ASSUME NEW i \in DOMAIN t.calls, t.calls[i].phi = NoValue,
                      s.fn.def[t.calls[i].block][s.var] # NoValue
               PROVE  \/ Later(t, i)
                      \/ /\ s.fn.def[t.calls[i].block][s.var] = q
                         /\ \A j \in DOMAIN t.calls : j > i => t.calls[j].phi = NoValue
    BY <1>2, Zenon DEF RValues
  <2>1. i \in DOMAIN s.calls /\ s.calls[i] = t.calls[i]
    BY <1>9, SMTT(30)
  <2>2. Later(s, i)
    BY <2>1, <1>0 DEF RLater
  <2>3. PICK j \in DOMAIN s.calls :
          /\ i < j /\ s.calls[j].phi # NoValue
          /\ s.fn.def[s.calls[i].block][s.var] = s.calls[j].phi
          /\ \A k \in DOMAIN s.calls : i < k /\ k < j => s.calls[k].phi = NoValue
    BY <2>2 DEF Later
  <2>4. CASE j = n
    <3>1. s.calls[j].phi = q
      BY <2>4 DEF n, q
    <3>2. \A k \in DOMAIN t.calls : k > i => t.calls[k].phi = NoValue
      <4> SUFFICES ASSUME NEW k \in DOMAIN t.calls, k > i PROVE t.calls[k].phi = NoValue
        OBVIOUS
      <4>1. k \in DOMAIN s.calls /\ t.calls[k] = s.calls[k] /\ k < n
        BY <1>3 DEF IsFront, n
      <4> QED
        BY <4>1, <2>3, <2>4
    <3> QED
      BY <2>1, <2>3, <3>1, <3>2
  <2>5. CASE j # n
    <3>1. j \in DOMAIN t.calls /\ t.calls[j] = s.calls[j]
      BY <2>5, <1>3, <1>9, SMTT(30) DEF IsFront, n
    <3>2. Later(t, i)
      BY <2>1, <2>3, <3>1, <1>2, <1>9, ZenonT(30) DEF Later
    <3> QED
      BY <3>2, SMTT(30)
  <2> QED
    BY <2>4, <2>5, SMTT(30)
<1> QED
  BY <1>8, <1>10, <1>11, <1>12 DEF RFull, t, q

\* ... and so NextOperand keeps the invariant.
LEMMA NextOperandStep ==
  ASSUME NEW b, NEW X, NEW start, NEW p, NEW s, RMid(b, X, start, p, s)
  PROVE  RFull(b, X, start, p, NextOperand(s))
<1> DEFINE call == s.calls[Len(s.calls)]
           k == Len(s.fn.phis[call.phi].edges) + 1
<1>1. CASE k \in DOMAIN s.fn.preds[call.block]
  <2>1. NextOperand(s) = [s EXCEPT !.at = Wanted(s.fn, call), !.val = NoValue]
    BY <1>1 DEF NextOperand, Wanted, RMid
  <2>2. More(s.fn, call)
    BY <1>1 DEF More
  <2> HIDE DEF call
  <2>3. RFull(b, X, start, p, [s EXCEPT !.at = Wanted(s.fn, call), !.val = NoValue])
    BY <2>2, AsksNext, Zenon DEF call
  <2> QED
    BY <2>1, <2>3
<1>2. CASE k \notin DOMAIN s.fn.preds[call.block]
  <2>1. NextOperand(s) = [s EXCEPT !.calls = SubSeq(@, 1, Len(@) - 1), !.val = call.phi]
    BY <1>2 DEF NextOperand
  <2>2. ~More(s.fn, call)
    BY <1>2 DEF More
  <2> HIDE DEF call
  <2>3. RFull(b, X, start, p, [s EXCEPT !.calls = SubSeq(@, 1, Len(@) - 1), !.val = call.phi])
    BY <2>2, HasAll, Zenon DEF call
  <2> QED
    BY <2>1, <2>3
<1> QED
  BY <1>1, <1>2

-----------------------------------------------------------------------------
\* A variable is looked up: it is known in the block, or the block is open.

LEMMA SoundMore ==
  ASSUME NEW f, NEW X, NEW Y, Sound(f, X), X \subseteq Y
  PROVE  Sound(f, Y)
<1>1. Complete(f, Y)
  BY DEF Sound, Known, Complete
<1> QED
  BY <1>1 DEF Sound, Known

\* No phi is under way when no call is, but the one that is sealed.
LEMMA SoundZero ==
  ASSUME NEW f, NEW X, NEW Y, Sound(f, X), X \subseteq Y \cup {NoValue}
  PROVE  Sound(f, Y)
<1>1. NoValue \notin DOMAIN f.phis
  <2>1. Typed(f) /\ Numbered(f)
    BY DEF Sound, Known
  <2>2. \A v \in DOMAIN f.home : v # NoValue
    BY <2>1, TypedFacts
  <2> QED
    BY <2>1, <2>2 DEF Numbered
<1>2. Complete(f, Y)
  BY <1>1 DEF Sound, Known, Complete
<1> QED
  BY <1>2 DEF Sound, Known

\* A block that a call waits for has successors.
LEMMA WantedHasSuccessors ==
  ASSUME NEW b, NEW X, NEW start, NEW p, NEW s, RBase(b, X, start, p, s),
         NEW i \in DOMAIN s.calls, s.calls[i].phi # NoValue => More(s.fn, s.calls[i])
  PROVE  /\ Wanted(s.fn, s.calls[i]) \in Blocks(s.fn)
         /\ s.fn.succs[Wanted(s.fn, s.calls[i])] # <<>>
<1> DEFINE u == s.calls[i].block
           k == IF s.calls[i].phi = NoValue THEN 1
                ELSE Len(s.fn.phis[s.calls[i].phi].edges) + 1
<1>0. Typed(s.fn) /\ Linked(s.fn)
  BY DEF RBase, RSound, Sound, Laid
<1>1. u \in Blocks(s.fn)
  <2>1. s.calls # <<>>
    BY DEF RBase
  <2> QED
    BY <2>1, TopFacts
<1>2. k \in DOMAIN s.fn.preds[u]
  <2>1. CASE s.calls[i].phi = NoValue
    <3>1. Len(s.fn.preds[u]) = 1
      BY <2>1 DEF RBase, RFrames, Frame
    <3>2. s.fn.preds[u] \in Seq(Blocks(s.fn))
      BY <1>0, <1>1, TypedFacts
    <3>3. 1 \in DOMAIN s.fn.preds[u]
      <4> DEFINE r == s.fn.preds[u]
                 R == Blocks(s.fn)
      <4>1. r \in Seq(R) /\ Len(r) = 1
        BY <3>1, <3>2
      <4> HIDE DEF r, R
      <4>2. 1 \in DOMAIN r
        BY <4>1
      <4> QED
        BY <4>2 DEF r
    <3> QED
      BY <2>1, <3>3
  <2>2. CASE s.calls[i].phi # NoValue
    BY <2>2 DEF More
  <2> QED
    BY <2>1, <2>2
<1>3. Wanted(s.fn, s.calls[i]) = s.fn.preds[u][k]
  BY DEF Wanted
<1> HIDE DEF u, k
<1> QED
  BY <1>0, <1>1, <1>2, <1>3, TypedFacts DEF Linked

\* What the calls need of the function is kept while it is read.
LEMMA FramesKept ==
  ASSUME NEW b, NEW X, NEW start, NEW p, NEW s, NEW t, RBase(b, X, start, p, s),
         NEW V, Kept(s.fn, t.fn, V, {}), t.var = s.var, Numbered(s.fn)
  PROVE  /\ \A i \in DOMAIN s.calls : i \in DOMAIN t.calls /\ t.calls[i] = s.calls[i] =>
              /\ Frame(b, p, t, i)
              /\ Wanted(t.fn, t.calls[i]) = Wanted(s.fn, s.calls[i])
              /\ s.calls[i].phi # NoValue => (More(t.fn, t.calls[i]) <=> More(s.fn, s.calls[i]))
<1>0. Kept(s.fn, t.fn, V, {})
  OBVIOUS
<1> SUFFICES ASSUME NEW i \in DOMAIN s.calls, i \in DOMAIN t.calls, t.calls[i] = s.calls[i]
             PROVE  /\ Frame(b, p, t, i)
                    /\ Wanted(t.fn, t.calls[i]) = Wanted(s.fn, s.calls[i])
                    /\ s.calls[i].phi # NoValue => (More(t.fn, t.calls[i]) <=> More(s.fn, s.calls[i]))
  OBVIOUS
<1> DEFINE call == s.calls[i]
<1>1. Frame(b, p, s, i)
  BY DEF RBase, RFrames
<1>2. call.block \in Blocks(s.fn)
  <2>1. s.calls # <<>>
    BY DEF RBase
  <2> QED
    BY <2>1, TopFacts
<1>3. call.phi # NoValue => call.phi \in DOMAIN s.fn.phis
  BY <1>1 DEF Frame
<1>4. call.phi # NoValue => t.fn.phis[call.phi] = s.fn.phis[call.phi] /\ call.phi \in DOMAIN t.fn.phis
  BY <1>0, <1>3 DEF Kept
<1>5. Frame(b, p, t, i)
  <2>1. call.phi = NoValue => call.block \in t.fn.sealed /\ Len(t.fn.preds[call.block]) = 1
    BY <1>0, <1>1, SMTT(30) DEF Frame, Kept
  <2>2. ASSUME call.phi # NoValue
        PROVE  /\ call.phi \in DOMAIN t.fn.phis /\ t.fn.phis[call.phi].var = t.var
               /\ t.fn.home[call.phi] = call.block
               /\ call.phi = p \/ (call.phi \notin DOMAIN b.phis /\ call.block \in t.fn.sealed)
               /\ i > 1 \/ p = NoValue => t.fn.def[call.block][t.var] = call.phi
    <3>1. call.phi \in DOMAIN s.fn.home
      BY <2>2, <1>3, SMTT(30) DEF Numbered
    <3>2. t.fn.home[call.phi] = call.block
      BY <2>2, <3>1, <1>0, <1>1 DEF Frame, Kept
    <3>3. i > 1 \/ p = NoValue => t.fn.def[call.block][t.var] = call.phi
      <4>1. s.var \in Names
        BY DEF RBase, RTyped
      <4>2. i > 1 \/ p = NoValue => s.fn.def[call.block][s.var] = call.phi
        BY <2>2, <1>1 DEF Frame
      <4>3. s.fn.def[call.block][s.var] # NoValue =>
              t.fn.def[call.block][s.var] = s.fn.def[call.block][s.var]
        BY <4>1, <1>0, <1>2, SMTT(30) DEF Kept
      <4> QED
        BY <2>2, <4>2, <4>3
    <3> QED
      BY <2>2, <3>2, <3>3, <1>0, <1>1, <1>4, SMTT(30) DEF Frame, Kept
  <2> QED
    BY <2>1, <2>2 DEF Frame
<1>6. Wanted(t.fn, t.calls[i]) = Wanted(s.fn, s.calls[i])
  BY <1>0, <1>4, Zenon DEF Wanted, Kept
<1>7. call.phi # NoValue => (More(t.fn, t.calls[i]) <=> More(s.fn, s.calls[i]))
  BY <1>0, <1>4, Zenon DEF More, Kept
<1> QED
  BY <1>5, <1>6, <1>7

\* The innermost call waits for the variable in the block it is read in.
LEMMA AtFacts ==
  ASSUME NEW b, NEW X, NEW start, NEW p, NEW s, RFull(b, X, start, p, s), s.val = NoValue
  PROVE  /\ s.calls = <<>> => s.at = start /\ p = NoValue
         /\ s.calls # <<>> => s.at = Wanted(s.fn, s.calls[Len(s.calls)])
                              /\ s.fn.succs[s.at] # <<>>
         /\ \A i \in DOMAIN s.calls : s.calls[i].phi = NoValue =>
              s.fn.def[s.calls[i].block][s.var] = NoValue \/ Later(s, i)
<1>1. RBase(b, X, start, p, s) /\ RTop(start, p, s) /\ RMore(s, Len(s.calls)) /\ RValues(s)
  BY DEF RFull
<1>2. s.calls = <<>> => s.at = start /\ p = NoValue
  BY <1>1 DEF RTop
<1>3. ASSUME s.calls # <<>>
      PROVE  s.at = Wanted(s.fn, s.calls[Len(s.calls)]) /\ s.fn.succs[s.at] # <<>>
  <2>1. s.at = Wanted(s.fn, s.calls[Len(s.calls)])
    BY <1>1, <1>3 DEF RTop
  <2>2. Len(s.calls) \in DOMAIN s.calls /\ Len(s.calls) \in Nat
    BY <1>1, <1>3, TopFacts
  <2>3. s.calls[Len(s.calls)].phi # NoValue => More(s.fn, s.calls[Len(s.calls)])
    BY <1>1, <2>2 DEF RMore
  <2> QED
    BY <1>1, <2>1, <2>2, <2>3, WantedHasSuccessors
<1>4. \A i \in DOMAIN s.calls : s.calls[i].phi = NoValue =>
         s.fn.def[s.calls[i].block][s.var] = NoValue \/ Later(s, i)
  BY <1>1 DEF RValues
<1> QED
  BY <1>2, <1>3, <1>4

\* What a step of the machine makes of the function goes on from where it was.
LEMMA SoundOnwards ==
  ASSUME NEW b, NEW X, NEW start, NEW p, NEW s, NEW t, RBase(b, X, start, p, s),
         NEW V, NEW R, Kept(s.fn, t.fn, V, R), Sound(t.fn, X \cup Own(t.calls)), t.var = s.var,
         \A u \in V : u \in Blocks(s.fn) /\ (s.fn.succs[u] # <<>> \/ (p = NoValue /\ u = start)),
         \A q \in R : q = p \/ q \notin DOMAIN b.phis,
         \A v \in DOMAIN t.fn.home :
           v \in DOMAIN s.fn.home \/ s.fn.def[t.fn.home[v]][s.var] = NoValue
  PROVE  RSound(b, X, start, p, t)
<1> DEFINE W == IF p = NoValue THEN {start} ELSE {}
<1>1. Typed(b) /\ Numbered(b) /\ Typed(s.fn) /\ Kept(b, s.fn, W, {p}) /\ s.var \in Names
  BY DEF RBase, Start0, RTyped, RSound
<1>2. Typed(t.fn)
  BY DEF Sound
<1>3. b.succs = s.fn.succs /\ Blocks(b) = Blocks(s.fn)
  BY <1>1 DEF Kept, Blocks
<1>4. \A u \in Blocks(b) : b.succs[u] = <<>> /\ u \in V => u \in W
  BY <1>3
<1> HIDE DEF W
<1>5. Kept(b, t.fn, W, {p})
  BY <1>1, <1>2, <1>4, KeptOnwards
<1>6. ASSUME NEW v \in DOMAIN t.fn.home
      PROVE  v \in DOMAIN b.home \/ b.def[t.fn.home[v]][s.var] = NoValue
  <2>1. CASE v \in DOMAIN s.fn.home
    <3>1. t.fn.home[v] = s.fn.home[v]
      BY <2>1 DEF Kept
    <3> QED
      BY <2>1, <3>1 DEF RBase, RSound
  <2>2. CASE s.fn.def[t.fn.home[v]][s.var] = NoValue
    <3>1. t.fn.home[v] \in Blocks(b)
      <4>1. t.fn.home[v] \in Blocks(t.fn)
        BY <1>2, <1>6, TypedFacts
      <4>2. Blocks(t.fn) = Blocks(s.fn)
        BY DEF Kept, Blocks
      <4> QED
        BY <4>1, <4>2, <1>3
    <3> QED
      BY <2>2, <3>1, <1>1 DEF Kept
  <2> QED
    BY <2>1, <2>2
<1> QED
  BY <1>5, <1>6 DEF RSound, W

\* The variable is known in the block.
LEMMA LookupKnown ==
  ASSUME NEW b, NEW X, NEW start, NEW p, NEW s, RFull(b, X, start, p, s), s.val = NoValue,
         NEW v, v = s.fn.def[s.at][s.var], v # NoValue
  PROVE  RFull(b, X, start, p, [s EXCEPT !.val = v])
<1> DEFINE t == [s EXCEPT !.val = v]
<1>0. RBase(b, X, start, p, s) /\ RTyped(s) /\ IsState(s) /\ Typed(s.fn) /\ RTop(start, p, s)
      /\ RMore(s, Len(s.calls))
  BY DEF RFull, RBase, RTyped
<1>1. t = [s EXCEPT !.val = v]
  OBVIOUS
<1> HIDE DEF t
<1>2. t.fn = s.fn /\ t.var = s.var /\ t.calls = s.calls /\ t.at = s.at /\ t.val = v
  BY <1>0, <1>1 DEF IsState
<1>3. IsState(t)
  BY <1>0, <1>1, <1>2 DEF IsState
<1>4. v \in Nat
  BY <1>0, TypedFacts DEF RTyped
<1>5. RTyped(t)
  BY <1>0, <1>2, <1>3, <1>4 DEF RTyped
<1>6. RBase(b, X, start, p, t)
  BY <1>0, <1>2, <1>5, BaseGoes DEF RGoes
<1>7. RMore(t, Len(t.calls))
  BY <1>0, <1>2 DEF RMore
<1>8. RTop(start, p, t)
  BY <1>0, <1>2, AtFacts, SMTT(30) DEF RTop
<1>9. RValues(t)
  <2>1. \A i \in DOMAIN s.calls : s.calls[i].phi = NoValue =>
         s.fn.def[s.calls[i].block][s.var] = NoValue \/ Later(s, i)
    BY AtFacts
  <2> QED
    BY <2>1, <1>2 DEF RValues, Later
<1> QED
  BY <1>6, <1>7, <1>8, <1>9 DEF RFull, t

\* The block is not sealed: the variable is an incomplete phi.
LEMMA LookupIncomplete ==
  ASSUME NEW b, NEW X, NEW start, NEW p, NEW s, RFull(b, X, start, p, s), s.val = NoValue,
         s.fn.def[s.at][s.var] = NoValue, s.at \notin s.fn.sealed,
         NEW q, q = NextValue(s.fn), NEW c,
         MakesPhi(s.fn, c, s.var, s.at, <<>>), q \in c.incomplete
  PROVE  RFull(b, X, start, p, [s EXCEPT !.fn = c, !.val = q])
<1> DEFINE t == [s EXCEPT !.fn = c, !.val = q]
           Y == X \cup Own(s.calls)
<1>0. /\ RBase(b, X, start, p, s) /\ RTyped(s) /\ IsState(s) /\ Typed(s.fn)
      /\ RMore(s, Len(s.calls)) /\ Sound(s.fn, Y) /\ Numbered(s.fn) /\ Start0(b, start)
      /\ s.at \in Blocks(s.fn) /\ s.var \in Names /\ RFrames(b, p, s) /\ RDistinct(s)
      /\ RChain(start, s) /\ RMode(b, X, start, p, s)
  BY DEF RFull, RBase, RTyped, RSound, Sound, Known
<1>1. t = [s EXCEPT !.fn = c, !.val = q]
  OBVIOUS
<1> HIDE DEF t, Y
<1>2. t.fn = c /\ t.var = s.var /\ t.calls = s.calls /\ t.at = s.at /\ t.val = q
  BY <1>0, <1>1 DEF IsState
<1>3. IsState(t)
  BY <1>0, <1>1, <1>2, Zenon DEF IsState
<1>4. PhiMade(s.fn, c, s.var, s.at, <<>>, q)
  BY <1>0, PhiFacts
<1>5. q \in Nat /\ q # NoValue /\ c.def[s.at][s.var] = q /\ Kept(s.fn, c, {s.at}, {})
  BY <1>4 DEF PhiMade
<1>6. Blocks(c) = Blocks(s.fn) /\ c.blocks = s.fn.blocks /\ Typed(c)
  BY DEF MakesPhi, Blocks
<1>7. RTyped(t)
  BY <1>0, <1>2, <1>3, <1>5, <1>6 DEF RTyped
<1>8. Sound(c, Y)
  <2>1. Fits(s.fn, s.var, s.at, <<>>)
    BY DEF Fits
  <2> QED
    BY <2>1, <1>0, PhiSound
<1>9. RSound(b, X, start, p, t)
  <2>1. s.fn.succs[s.at] # <<>> \/ (p = NoValue /\ s.at = start)
    BY AtFacts
  <2>2. \A v \in DOMAIN c.home : v \in DOMAIN s.fn.home \/ s.fn.def[c.home[v]][s.var] = NoValue
    BY <1>4 DEF PhiMade
  <2> DEFINE V == {s.at}
             R == {}
  <2>3. Kept(s.fn, t.fn, V, R)
    BY <1>2, <1>5
  <2>4. \A u \in V : u \in Blocks(s.fn) /\ (s.fn.succs[u] # <<>> \/ (p = NoValue /\ u = start))
    BY <2>1, <1>0
  <2>5. \A r \in R : r = p \/ r \notin DOMAIN b.phis
    OBVIOUS
  <2> HIDE DEF V, R
  <2>6. \A v \in DOMAIN t.fn.home :
           v \in DOMAIN s.fn.home \/ s.fn.def[t.fn.home[v]][s.var] = NoValue
    BY <2>2, <1>2
  <2>7. Sound(t.fn, X \cup Own(t.calls)) /\ t.var = s.var
    BY <1>2, <1>8 DEF Y
  <2> QED
    BY <2>3, <2>4, <2>5, <2>6, <2>7, <1>0, SoundOnwards, Zenon
<1>10. \A i \in DOMAIN s.calls :
              /\ Frame(b, p, t, i)
              /\ Wanted(c, s.calls[i]) = Wanted(s.fn, s.calls[i])
              /\ s.calls[i].phi # NoValue => (More(c, s.calls[i]) <=> More(s.fn, s.calls[i]))
  <2>1. Kept(s.fn, t.fn, {s.at}, {})
    BY <1>2, <1>5
  <2>2. \A i \in DOMAIN s.calls : i \in DOMAIN t.calls /\ t.calls[i] = s.calls[i] =>
              /\ Frame(b, p, t, i)
              /\ Wanted(t.fn, t.calls[i]) = Wanted(s.fn, s.calls[i])
              /\ s.calls[i].phi # NoValue => (More(t.fn, t.calls[i]) <=> More(s.fn, s.calls[i]))
    BY <2>1, <1>0, <1>2, FramesKept, Zenon
  <2> QED
    BY <2>2, <1>2
<1>11. RFrames(b, p, t)
  BY <1>2, <1>10 DEF RFrames
<1>12. RChain(start, t)
  <2>1. \A i \in DOMAIN s.calls : i > 1 => i - 1 \in DOMAIN s.calls
    <3>1. s.calls \in Seq(Calls(s.fn.blocks))
      BY <1>0 DEF RTyped
    <3> QED
      BY <3>1
  <2> QED
    BY <2>1, <1>0, <1>2, <1>10 DEF RChain
<1>13. RDistinct(t) /\ RMode(b, X, start, p, t)
  BY <1>0, <1>2 DEF RDistinct, RMode
<1>14. RMore(t, Len(t.calls))
  BY <1>0, <1>2, <1>10 DEF RMore
<1>15. RTop(start, p, t)
  <2>1. s.calls = <<>> => s.at = start /\ p = NoValue
    BY AtFacts
  <2>2. s.calls # <<>> => s.at = Wanted(s.fn, s.calls[Len(s.calls)]) /\ Len(s.calls) \in DOMAIN s.calls
    BY <1>0, AtFacts, TopFacts, SMTT(30)
  <2> QED
    BY <2>1, <2>2, <1>2, <1>5, <1>10 DEF RTop
<1>16. RValues(t)
  <2> SUFFICES ASSUME NEW i \in DOMAIN s.calls, s.calls[i].phi = NoValue
               PROVE  c.def[s.calls[i].block][s.var] = NoValue \/ Later(t, i)
    BY <1>2 DEF RValues
  <2>1. s.fn.def[s.calls[i].block][s.var] = NoValue \/ Later(s, i)
    BY AtFacts
  <2>2. s.calls[i].block # s.at
    BY <1>0 DEF RFrames, Frame
  <2>3. s.calls[i].block \in Blocks(s.fn)
    <3>1. s.calls # <<>>
      BY <1>0 DEF RTyped
    <3> QED
      BY <3>1, <1>0, TopFacts
  <2>4. c.def[s.calls[i].block][s.var] = s.fn.def[s.calls[i].block][s.var]
    BY <2>2, <2>3, <1>0, <1>4, SMTT(30) DEF PhiMade
  <2> QED
    BY <2>1, <2>4, <1>2, Zenon DEF Later
<1> QED
  BY <1>0, <1>7, <1>9, <1>11, <1>12, <1>13, <1>14, <1>15, <1>16 DEF RFull, RBase, t

-----------------------------------------------------------------------------
\* A variable is looked up in a sealed block that does not know it.

\* A call is added: t goes on from s with one more.
LEMMA BasePushes ==
  ASSUME NEW b, NEW X, NEW start, NEW p, NEW s, NEW t, RFull(b, X, start, p, s), s.val = NoValue,
         NEW V, Kept(s.fn, t.fn, V, {}), t.var = s.var, RTyped(t), RSound(b, X, start, p, t),
         NEW e \in Calls(s.fn.blocks), t.calls = Append(s.calls, e), e.block = s.at,
         e.phi # NoValue => e.phi \notin DOMAIN s.fn.phis,
         Frame(b, p, t, Len(t.calls))
  PROVE  /\ RBase(b, X, start, p, t) /\ RMore(t, Len(s.calls))
         /\ IsLast(Calls(s.fn.blocks), s.calls, e, t.calls)
<1>0. /\ RBase(b, X, start, p, s) /\ RTyped(s) /\ Typed(s.fn)
      /\ RMore(s, Len(s.calls)) /\ Numbered(s.fn) /\ Start0(b, start)
      /\ RFrames(b, p, s) /\ RDistinct(s) /\ RChain(start, s) /\ RMode(b, X, start, p, s)
  BY DEF RFull, RBase, RTyped, RSound, Sound, Known
<1> DEFINE T == Calls(s.fn.blocks)
<1>1. IsLast(T, s.calls, e, t.calls)
  <2>1. s.calls \in Seq(T) /\ e \in T
    BY <1>0 DEF RTyped
  <2> HIDE DEF T
  <2> QED
    BY <2>1, LastFacts
<1> HIDE DEF T
<1>2. /\ \A i \in DOMAIN s.calls : i \in DOMAIN t.calls /\ t.calls[i] = s.calls[i]
                                  /\ i <= Len(s.calls) /\ i \in Nat /\ i >= 1
      /\ \A i \in DOMAIN t.calls : i = Len(t.calls) \/ i \in DOMAIN s.calls
      /\ t.calls[Len(t.calls)] = e /\ Len(t.calls) = Len(s.calls) + 1 /\ Len(s.calls) \in Nat
      /\ t.calls # <<>> /\ Len(t.calls) \in DOMAIN t.calls
      /\ s.calls # <<>> => 1 \in DOMAIN s.calls /\ Len(s.calls) \in DOMAIN s.calls
      /\ s.calls = <<>> => Len(t.calls) = 1
  BY <1>1 DEF IsLast
<1>3. \A i \in DOMAIN s.calls : i \in DOMAIN t.calls /\ t.calls[i] = s.calls[i] =>
              /\ Frame(b, p, t, i)
              /\ Wanted(t.fn, t.calls[i]) = Wanted(s.fn, s.calls[i])
              /\ s.calls[i].phi # NoValue => (More(t.fn, t.calls[i]) <=> More(s.fn, s.calls[i]))
  BY <1>0, FramesKept, Zenon
<1>4. RFrames(b, p, t)
  BY <1>2, <1>3 DEF RFrames
<1>5. RMore(t, Len(s.calls))
  <2> SUFFICES ASSUME NEW i \in DOMAIN t.calls, i <= Len(s.calls), t.calls[i].phi # NoValue
               PROVE  More(t.fn, t.calls[i])
    BY DEF RMore
  <2>1. i \in DOMAIN s.calls
    BY <1>2
  <2> QED
    BY <2>1, <1>0, <1>2, <1>3 DEF RMore
<1>6. RChain(start, t)
  <2>1. t.calls[1].block = start
    <3>1. CASE s.calls = <<>>
      BY <3>1, <1>2, AtFacts
    <3>2. CASE s.calls # <<>>
      BY <3>2, <1>0, <1>2 DEF RChain
    <3> QED
      BY <3>1, <3>2, Zenon
  <2>2. ASSUME NEW i \in DOMAIN t.calls, i > 1
        PROVE  t.calls[i].block = Wanted(t.fn, t.calls[i - 1])
    <3>1. CASE i = Len(t.calls)
      <4>1. s.calls # <<>> /\ i - 1 = Len(s.calls)
        BY <3>1, <2>2, <1>2
      <4>2. s.at = Wanted(s.fn, s.calls[Len(s.calls)])
        BY <4>1, AtFacts
      <4> QED
        BY <3>1, <4>1, <4>2, <1>2, <1>3
    <3>2. CASE i \in DOMAIN s.calls
      <4>1. i - 1 \in DOMAIN s.calls
        <5>1. s.calls \in Seq(T)
          BY <1>0 DEF RTyped, T
        <5> QED
          BY <2>2, <3>2, <5>1
      <4> QED
        BY <2>2, <3>2, <4>1, <1>0, <1>2, <1>3 DEF RChain
    <3> QED
      BY <3>1, <3>2, <1>2, Zenon
  <2> QED
    BY <2>1, <2>2 DEF RChain
<1>7. RDistinct(t)
  <2>1. \A i \in DOMAIN s.calls : s.calls[i].phi # NoValue => s.calls[i].phi # e.phi
    BY <1>0 DEF RFrames, Frame
  <2> QED
    BY <2>1, <1>0, <1>2, SMTT(30) DEF RDistinct
<1>8. RMode(b, X, start, p, t)
  <2>1. p # NoValue => s.calls # <<>>
    BY AtFacts, SMTT(30)
  <2> QED
    BY <2>1, <1>0, <1>2 DEF RMode
<1> QED
  BY <1>0, <1>1, <1>4, <1>5, <1>6, <1>7, <1>8, SMTT(30) DEF RBase, T

\* A phi that a call is waiting for has the value it had.
LEMMA LaterPushed ==
  ASSUME NEW T, NEW s, NEW t, NEW e, IsLast(T, s.calls, e, t.calls), t.var = s.var,
         NEW i \in DOMAIN s.calls, Later(s, i),
         t.fn.def[s.calls[i].block][s.var] = s.fn.def[s.calls[i].block][s.var]
  PROVE  Later(t, i)
<1>1. PICK j \in DOMAIN s.calls :
          /\ i < j /\ s.calls[j].phi # NoValue
          /\ s.fn.def[s.calls[i].block][s.var] = s.calls[j].phi
          /\ \A k \in DOMAIN s.calls : i < k /\ k < j => s.calls[k].phi = NoValue
  BY DEF Later
<1>2. /\ \A k \in DOMAIN s.calls : k \in DOMAIN t.calls /\ t.calls[k] = s.calls[k]
                                  /\ k <= Len(s.calls) /\ k \in Nat
      /\ \A k \in DOMAIN t.calls : k = Len(t.calls) \/ k \in DOMAIN s.calls
      /\ Len(t.calls) = Len(s.calls) + 1 /\ Len(s.calls) \in Nat
  BY DEF IsLast
<1>3. \A k \in DOMAIN t.calls : i < k /\ k < j => t.calls[k].phi = NoValue
  <2> SUFFICES ASSUME NEW k \in DOMAIN t.calls, i < k, k < j PROVE t.calls[k].phi = NoValue
    OBVIOUS
  <2>1. k # Len(t.calls)
    BY <1>2
  <2> QED
    BY <2>1, <1>1, <1>2
<1> QED
  BY <1>1, <1>2, <1>3, Zenon DEF Later

\* One predecessor: the call waits for what it has.
LEMMA LookupSingle ==
  ASSUME NEW b, NEW X, NEW start, NEW p, NEW s, RFull(b, X, start, p, s), s.val = NoValue,
         s.fn.def[s.at][s.var] = NoValue, s.at \in s.fn.sealed, Len(s.fn.preds[s.at]) = 1,
         NEW w, w = s.fn.preds[s.at][1], NEW e, e = [block |-> s.at, phi |-> NoValue]
  PROVE  RFull(b, X, start, p, [s EXCEPT !.at = w, !.calls = Append(@, e)])
<1> DEFINE t == [s EXCEPT !.at = w, !.calls = Append(@, e)]
           T == Calls(s.fn.blocks)
<1>0. /\ RBase(b, X, start, p, s) /\ RTyped(s) /\ IsState(s) /\ Typed(s.fn)
      /\ RMore(s, Len(s.calls)) /\ Sound(s.fn, X \cup Own(s.calls)) /\ Numbered(s.fn)
      /\ s.at \in Blocks(s.fn) /\ s.var \in Names /\ s.calls \in Seq(T) /\ RSound(b, X, start, p, s)
  BY DEF RFull, RBase, RTyped, RSound, Sound, Known
<1>1. t = [s EXCEPT !.at = w, !.calls = Append(s.calls, e)]
  BY <1>0 DEF IsState
<1> HIDE DEF t
<1>2. t.fn = s.fn /\ t.var = s.var /\ t.calls = Append(s.calls, e) /\ t.at = w /\ t.val = s.val
  BY <1>0, <1>1 DEF IsState
<1>3. IsState(t)
  BY <1>0, <1>1, <1>2, Zenon DEF IsState
<1>4. e \in T /\ e.block = s.at /\ e.phi = NoValue
  BY <1>0 DEF Calls, Blocks, NoValue
<1> HIDE DEF T
<1>5. IsLast(T, s.calls, e, t.calls)
  BY <1>0, <1>2, <1>4, LastFacts
<1>6. w \in Blocks(s.fn)
  <2>1. s.fn.preds[s.at] \in Seq(Blocks(s.fn))
    BY <1>0, TypedFacts
  <2>2. 1 \in DOMAIN s.fn.preds[s.at]
    BY <2>1
  <2> QED
    BY <2>2, <1>0, TypedFacts
<1>7. RTyped(t)
  BY <1>0, <1>2, <1>3, <1>5, <1>6 DEF RTyped, IsLast, T
<1>8. /\ \A i \in DOMAIN s.calls : i \in DOMAIN t.calls /\ t.calls[i] = s.calls[i]
      /\ \A i \in DOMAIN t.calls : i = Len(t.calls) \/ i \in DOMAIN s.calls
      /\ t.calls[Len(t.calls)] = e /\ t.calls # <<>>
  BY <1>5 DEF IsLast
<1>9. RSound(b, X, start, p, t)
  <2>1. Sound(t.fn, X \cup Own(t.calls))
    <3>1. X \cup Own(s.calls) \subseteq X \cup Own(t.calls)
      BY <1>8 DEF Own
    <3> QED
      BY <3>1, <1>0, <1>2, SoundMore
  <2> QED
    BY <2>1, <1>0, <1>2 DEF RSound
<1>10. Kept(s.fn, t.fn, {}, {})
  BY <1>0, <1>2, KeptSelf
<1>11. Frame(b, p, t, Len(t.calls))
  BY <1>2, <1>4, <1>8 DEF Frame
<1>12. RBase(b, X, start, p, t) /\ RMore(t, Len(s.calls))
  BY <1>0, <1>2, <1>4, <1>7, <1>9, <1>10, <1>11, BasePushes, Zenon DEF T
<1>13. RMore(t, Len(t.calls))
  <2> SUFFICES ASSUME NEW i \in DOMAIN t.calls, t.calls[i].phi # NoValue
               PROVE  More(t.fn, t.calls[i])
    BY DEF RMore
  <2>1. i \in DOMAIN s.calls
    BY <1>4, <1>8
  <2>2. i <= Len(s.calls)
    BY <2>1, <1>5 DEF IsLast
  <2> QED
    BY <2>2, <1>12 DEF RMore
<1>14. RTop(start, p, t)
  <2>1. Wanted(t.fn, t.calls[Len(t.calls)]) = w
    BY <1>2, <1>4, <1>8, Zenon DEF Wanted
  <2> QED
    BY <2>1, <1>2, <1>8, SMTT(30) DEF RTop
<1>15. RValues(t)
  <2> SUFFICES ASSUME NEW i \in DOMAIN t.calls, t.calls[i].phi = NoValue
               PROVE  t.fn.def[t.calls[i].block][t.var] = NoValue \/ Later(t, i)
    BY DEF RValues
  <2>1. CASE i = Len(t.calls)
    BY <2>1, <1>2, <1>4, <1>8
  <2>2. CASE i \in DOMAIN s.calls
    <3>1. s.calls[i] = t.calls[i]
      BY <2>2, <1>8
    <3>2. s.fn.def[s.calls[i].block][s.var] = NoValue \/ Later(s, i)
      BY <2>2, <3>1, AtFacts
    <3>3. Later(s, i) => Later(t, i)
      BY <2>2, <1>2, <1>5, LaterPushed, Zenon
    <3> QED
      BY <3>1, <3>2, <3>3, <1>2
  <2> QED
    BY <2>1, <2>2, <1>8
<1> QED
  BY <1>12, <1>13, <1>14, <1>15 DEF RFull, t

\* None or several predecessors: a phi, known before its operands are read.
LEMMA LookupPhi ==
  ASSUME NEW b, NEW X, NEW start, NEW p, NEW s, RFull(b, X, start, p, s), s.val = NoValue,
         s.fn.def[s.at][s.var] = NoValue, s.at \in s.fn.sealed, Len(s.fn.preds[s.at]) # 1,
         NEW q, q = NextValue(s.fn), NEW c, MakesPhi(s.fn, c, s.var, s.at, <<>>),
         NEW e, e = [block |-> s.at, phi |-> q]
  PROVE  RMid(b, X, start, p, [s EXCEPT !.fn = c, !.calls = Append(@, e)])
<1> DEFINE t == [s EXCEPT !.fn = c, !.calls = Append(@, e)]
           T == Calls(s.fn.blocks)
<1>0. /\ RBase(b, X, start, p, s) /\ RTyped(s) /\ IsState(s) /\ Typed(s.fn)
      /\ RMore(s, Len(s.calls)) /\ Sound(s.fn, X \cup Own(s.calls)) /\ Numbered(s.fn)
      /\ s.at \in Blocks(s.fn) /\ s.var \in Names /\ s.calls \in Seq(T)
      /\ RFrames(b, p, s) /\ Start0(b, start)
  BY DEF RFull, RBase, RTyped, RSound, Sound, Known
<1>1. t = [s EXCEPT !.fn = c, !.calls = Append(s.calls, e)]
  BY <1>0 DEF IsState
<1> HIDE DEF t
<1>2. t.fn = c /\ t.var = s.var /\ t.calls = Append(s.calls, e) /\ t.at = s.at /\ t.val = s.val
  BY <1>0, <1>1 DEF IsState
<1>3. IsState(t)
  BY <1>0, <1>1, <1>2, Zenon DEF IsState
<1>4. PhiMade(s.fn, c, s.var, s.at, <<>>, q)
  BY <1>0, PhiFacts
<1>5. /\ q \in Nat /\ q # NoValue /\ c.def[s.at][s.var] = q /\ Kept(s.fn, c, {s.at}, {})
      /\ q \notin DOMAIN s.fn.phis /\ q \notin DOMAIN s.fn.home
      /\ q \in DOMAIN c.phis /\ c.phis[q].var = s.var /\ c.home[q] = s.at
  BY <1>4 DEF PhiMade
<1>6. e \in T /\ e.block = s.at /\ e.phi = q
  BY <1>0, <1>5 DEF Calls, Blocks
<1>7. Blocks(c) = Blocks(s.fn) /\ c.blocks = s.fn.blocks /\ Typed(c) /\ c.sealed = s.fn.sealed
  BY DEF MakesPhi, Blocks
<1> HIDE DEF T
<1>8. IsLast(T, s.calls, e, t.calls)
  BY <1>0, <1>2, <1>6, LastFacts
<1>9. RTyped(t)
  BY <1>0, <1>2, <1>3, <1>7, <1>8 DEF RTyped, IsLast, T
<1>10. /\ \A i \in DOMAIN s.calls : i \in DOMAIN t.calls /\ t.calls[i] = s.calls[i]
       /\ \A i \in DOMAIN t.calls : i = Len(t.calls) \/ i \in DOMAIN s.calls
       /\ t.calls[Len(t.calls)] = e /\ t.calls # <<>> /\ Len(t.calls) \in DOMAIN t.calls
       /\ Len(t.calls) - 1 = Len(s.calls)
  BY <1>8 DEF IsLast
<1> DEFINE Y == X \cup Own(s.calls)
           Z == X \cup Own(t.calls)
<1>11. Sound(c, Z)
  <2>1. Fits(s.fn, s.var, s.at, <<>>)
    BY DEF Fits
  <2>2. Y \subseteq Z /\ q \in Z
    BY <1>6, <1>10 DEF Own
  <2>3. Sound(s.fn, Y)
    BY <1>0
  <2> HIDE DEF Y, Z
  <2> QED
    BY <2>1, <2>2, <2>3, <1>0, PhiSound
<1>12. RSound(b, X, start, p, t)
  <2>1. s.fn.succs[s.at] # <<>> \/ (p = NoValue /\ s.at = start)
    BY AtFacts
  <2>2. \A v \in DOMAIN c.home : v \in DOMAIN s.fn.home \/ s.fn.def[c.home[v]][s.var] = NoValue
    BY <1>4 DEF PhiMade
  <2> DEFINE V == {s.at}
             R == {}
  <2>3. Kept(s.fn, t.fn, V, R)
    BY <1>2, <1>5
  <2>4. \A u \in V : u \in Blocks(s.fn) /\ (s.fn.succs[u] # <<>> \/ (p = NoValue /\ u = start))
    BY <2>1, <1>0
  <2>5. \A r \in R : r = p \/ r \notin DOMAIN b.phis
    OBVIOUS
  <2> HIDE DEF V, R
  <2>6. \A v \in DOMAIN t.fn.home :
           v \in DOMAIN s.fn.home \/ s.fn.def[t.fn.home[v]][s.var] = NoValue
    BY <2>2, <1>2
  <2>7. Sound(t.fn, X \cup Own(t.calls)) /\ t.var = s.var
    BY <1>2, <1>11
  <2> QED
    BY <2>3, <2>4, <2>5, <2>6, <2>7, <1>0, SoundOnwards, Zenon
<1>13. Frame(b, p, t, Len(t.calls))
  <2>1. q \notin DOMAIN b.phis
    <3>1. \A v \in DOMAIN b.home : v \in DOMAIN s.fn.home
      BY <1>0 DEF RBase, RSound, Kept
    <3> QED
      BY <3>1, <1>0, <1>5 DEF Start0, Numbered
  <2> QED
    BY <2>1, <1>2, <1>5, <1>6, <1>7, <1>10 DEF Frame
<1>14. RBase(b, X, start, p, t) /\ RMore(t, Len(s.calls))
  <2> DEFINE V == {s.at}
  <2>1. Kept(s.fn, t.fn, V, {})
    BY <1>2, <1>5
  <2> HIDE DEF V
  <2> QED
    BY <2>1, <1>2, <1>5, <1>6, <1>9, <1>12, <1>13, BasePushes, Zenon DEF T
<1>15. RLater(t)
  <2> SUFFICES ASSUME NEW i \in DOMAIN t.calls, t.calls[i].phi = NoValue
               PROVE  t.fn.def[t.calls[i].block][t.var] = NoValue \/ Later(t, i)
    BY DEF RLater
  <2>1. i \in DOMAIN s.calls /\ t.calls[i] = s.calls[i]
    BY <1>5, <1>6, <1>10
  <2>2. s.fn.def[s.calls[i].block][s.var] = NoValue \/ Later(s, i)
    BY <2>1, AtFacts
  <2>3. s.calls[i].block # s.at
    BY <2>1, <1>0 DEF RFrames, Frame
  <2>4. s.calls[i].block \in Blocks(s.fn)
    <3>1. s.calls # <<>>
      BY <2>1
    <3> QED
      BY <2>1, <3>1, <1>0, TopFacts
  <2>5. c.def[s.calls[i].block][s.var] = s.fn.def[s.calls[i].block][s.var]
    BY <2>3, <2>4, <1>0, <1>4, SMTT(30) DEF PhiMade
  <2>6. Later(s, i) => Later(t, i)
    BY <2>1, <2>5, <1>2, <1>8, LaterPushed, ZenonT(30)
  <2> QED
    BY <2>1, <2>2, <2>5, <2>6, <1>2
<1> QED
  BY <1>5, <1>6, <1>10, <1>14, <1>15 DEF RMid, t

\* Lookup keeps the invariant.
LEMMA LookupStep ==
  ASSUME NEW b, NEW X, NEW start, NEW p, NEW s, RFull(b, X, start, p, s), s.val = NoValue
  PROVE  RFull(b, X, start, p, Lookup(s))
<1> DEFINE f == s.fn
           x == s.var
           blk == s.at
           q == NextValue(f)
<1>0. Typed(f) /\ x \in Names /\ blk \in Blocks(f)
  BY DEF RFull, RBase, RTyped
<1>1. CASE f.def[blk][x] # NoValue
  <2>1. Lookup(s) = [s EXCEPT !.val = f.def[blk][x]]
    BY <1>1 DEF Lookup
  <2> QED
    BY <2>1, <1>1, LookupKnown
<1>2. CASE f.def[blk][x] = NoValue /\ blk \notin f.sealed
  <2> DEFINE n == NewPhi(f, x, blk, <<>>)
             c == [n EXCEPT !.incomplete = @ \cup {q}]
  <2>1. Lookup(s) = [s EXCEPT !.fn = c, !.val = q]
    BY <1>2 DEF Lookup
  <2>2. <<>> \in Seq(Edges(f.blocks)) /\ q \in Nat
    BY <1>0 DEF NextValue, Typed
  <2> HIDE DEF q
  <2>3. MakesPhi(f, c, x, blk, <<>>) /\ q \in c.incomplete
    <3>1. MakesPhi(f, n, x, blk, <<>>) /\ n.incomplete = f.incomplete
      BY <2>2, <1>0, PhiFields, Zenon
    <3> HIDE DEF n
    <3>2. Typed(n)
      BY <3>1 DEF MakesPhi
    <3> HIDE DEF f, x, blk
    <3> QED
      BY <2>2, <3>1, <3>2, IncompleteFields DEF MakesPhi, q
  <2> HIDE DEF c
  <2>4. RFull(b, X, start, p, [s EXCEPT !.fn = c, !.val = q])
    BY <2>3, <1>2, LookupIncomplete, Zenon DEF q
  <2> QED
    BY <2>1, <2>4
<1>3. CASE f.def[blk][x] = NoValue /\ blk \in f.sealed /\ Len(f.preds[blk]) = 1
  <2>1. Lookup(s) = [s EXCEPT !.at = f.preds[blk][1],
                              !.calls = Append(@, [block |-> blk, phi |-> NoValue])]
    BY <1>3 DEF Lookup
  <2> DEFINE w == f.preds[blk][1]
             e == [block |-> blk, phi |-> NoValue]
  <2>2. RFull(b, X, start, p, [s EXCEPT !.at = w, !.calls = Append(@, e)])
    <3> HIDE DEF w, e
    <3> QED
      BY <1>3, LookupSingle, Zenon DEF w, e
  <2> QED
    BY <2>1, <2>2
<1>4. CASE f.def[blk][x] = NoValue /\ blk \in f.sealed /\ Len(f.preds[blk]) # 1
  <2> DEFINE c == NewPhi(f, x, blk, <<>>)
             t == [s EXCEPT !.fn = c, !.calls = Append(@, [block |-> blk, phi |-> q])]
  <2>1. Lookup(s) = NextOperand(t)
    BY <1>4 DEF Lookup
  <2>2. <<>> \in Seq(Edges(f.blocks))
    OBVIOUS
  <2>3. MakesPhi(f, c, x, blk, <<>>)
    BY <2>2, <1>0, PhiFields, Zenon
  <2> HIDE DEF c
  <2>4. RMid(b, X, start, p, t)
    BY <2>3, <1>4, LookupPhi, ZenonT(30)
  <2> HIDE DEF t
  <2> QED
    BY <2>1, <2>4, NextOperandStep
<1> QED
  BY <1>1, <1>2, <1>3, <1>4

-----------------------------------------------------------------------------
\* The innermost call gets its value: a block with one predecessor.

LEMMA LaterPopped ==
  ASSUME NEW T, NEW s, NEW t, IsFront(T, s.calls, t.calls), t.var = s.var,
         s.calls[Len(s.calls)].phi = NoValue,
         NEW i \in DOMAIN t.calls, Later(s, i),
         t.fn.def[s.calls[i].block][s.var] = s.fn.def[s.calls[i].block][s.var]
  PROVE  Later(t, i)
<1>1. PICK j \in DOMAIN s.calls :
        /\ i < j /\ s.calls[j].phi # NoValue
        /\ s.fn.def[s.calls[i].block][s.var] = s.calls[j].phi
        /\ \A k \in DOMAIN s.calls : i < k /\ k < j => s.calls[k].phi = NoValue
  BY DEF Later
<1>2. \A k \in DOMAIN t.calls : k \in DOMAIN s.calls /\ t.calls[k] = s.calls[k]
  BY DEF IsFront
<1>3. j \in DOMAIN t.calls
  BY <1>1 DEF IsFront
<1> QED
  BY <1>1, <1>2, <1>3, Zenon DEF Later

\* A function that has gone on, with the same calls.
LEMMA BaseKept ==
  ASSUME NEW b, NEW X, NEW start, NEW p, NEW s, NEW t, RBase(b, X, start, p, s),
         NEW V, Kept(s.fn, t.fn, V, {}), t.var = s.var, t.calls = s.calls,
         RTyped(t), RSound(b, X, start, p, t)
  PROVE  /\ RBase(b, X, start, p, t)
         /\ \A i \in DOMAIN s.calls :
              /\ Wanted(t.fn, s.calls[i]) = Wanted(s.fn, s.calls[i])
              /\ s.calls[i].phi # NoValue => (More(t.fn, s.calls[i]) <=> More(s.fn, s.calls[i]))
<1>0. Numbered(s.fn) /\ RTyped(s) /\ RChain(start, s)
  BY DEF RBase, RSound, Sound, Known
<1>1. \A i \in DOMAIN s.calls :
        /\ Frame(b, p, t, i)
        /\ Wanted(t.fn, s.calls[i]) = Wanted(s.fn, s.calls[i])
        /\ s.calls[i].phi # NoValue => (More(t.fn, s.calls[i]) <=> More(s.fn, s.calls[i]))
  <2>1. \A i \in DOMAIN s.calls : i \in DOMAIN t.calls /\ t.calls[i] = s.calls[i] =>
              /\ Frame(b, p, t, i)
              /\ Wanted(t.fn, t.calls[i]) = Wanted(s.fn, s.calls[i])
              /\ s.calls[i].phi # NoValue => (More(t.fn, t.calls[i]) <=> More(s.fn, s.calls[i]))
    BY <1>0, FramesKept, Zenon
  <2> QED
    BY <2>1
<1>2. RFrames(b, p, t)
  BY <1>1 DEF RFrames
<1>3. RChain(start, t)
  <2> SUFFICES ASSUME NEW i \in DOMAIN s.calls, i > 1
               PROVE  s.calls[i].block = Wanted(t.fn, s.calls[i - 1])
    BY <1>0 DEF RChain
  <2>1. i - 1 \in DOMAIN s.calls
    <3> DEFINE T == Calls(s.fn.blocks)
    <3>1. s.calls \in Seq(T)
      BY <1>0 DEF RTyped
    <3> HIDE DEF T
    <3> QED
      BY <3>1
  <2> QED
    BY <2>1, <1>0, <1>1 DEF RChain
<1>4. RDistinct(t) /\ RMode(b, X, start, p, t) /\ Start0(b, start)
  BY DEF RBase, RDistinct, RMode
<1> QED
  BY <1>1, <1>2, <1>3, <1>4 DEF RBase

\* The block with one predecessor takes the value over.
LEMMA ReturnSingle ==
  ASSUME NEW b, NEW X, NEW start, NEW p, NEW s, RFull(b, X, start, p, s), s.val # NoValue,
         s.calls # <<>>, NEW call, call = s.calls[Len(s.calls)], call.phi = NoValue,
         NEW c, MakesWrite(s.fn, c, s.var, call.block, s.val)
  PROVE  RFull(b, X, start, p, [s EXCEPT !.fn = c, !.calls = SubSeq(@, 1, Len(@) - 1)])
<1> DEFINE n == Len(s.calls)
           u == [s EXCEPT !.fn = c]
           t == [s EXCEPT !.fn = c, !.calls = SubSeq(@, 1, Len(@) - 1)]
           T == Calls(s.fn.blocks)
<1>0. /\ RBase(b, X, start, p, s) /\ RMore(s, n) /\ RTop(start, p, s) /\ RValues(s)
      /\ RTyped(s) /\ Typed(s.fn) /\ RSound(b, X, start, p, s) /\ RFrames(b, p, s)
      /\ Sound(s.fn, X \cup Own(s.calls)) /\ RMode(b, X, start, p, s) /\ RChain(start, s)
  BY SMTT(30) DEF RFull, RBase, RTyped, RSound
<1>1. /\ n \in DOMAIN s.calls /\ n \in Nat /\ n >= 1
      /\ call.block \in Blocks(s.fn) /\ Frame(b, p, s, n)
      /\ IsFront(T, s.calls, SubSeq(s.calls, 1, n - 1))
      /\ \A i \in DOMAIN s.calls : s.calls[i].block \in Blocks(s.fn) /\ s.calls[i].phi \in Nat
  BY <1>0, TopFacts, SMTT(30)
<1>2. /\ call.block \in s.fn.sealed /\ Len(s.fn.preds[call.block]) = 1
      /\ Wanted(s.fn, call) = s.fn.preds[call.block][1]
      /\ s.fn.def[Wanted(s.fn, call)][s.var] = s.val
  BY <1>0, <1>1, ZenonT(30) DEF Frame, RTop, Wanted
<1>3. s.fn.def[call.block][s.var] = NoValue \/ s.fn.def[call.block][s.var] = s.val
  <2>1. ~Later(s, n)
    BY <1>1, <1>0 DEF Later, IsFront, n
  <2> QED
    BY <2>1, <1>0, <1>1 DEF RValues
<1>4. /\ Sound(c, X \cup Own(s.calls)) /\ Kept(s.fn, c, {call.block}, {})
      /\ c.def[call.block][s.var] = s.val
      /\ \A w \in Blocks(s.fn), y \in Names :
           w # call.block \/ y # s.var => c.def[w][y] = s.fn.def[w][y]
  <2> DEFINE Y == X \cup Own(s.calls)
             blk == call.block
             x == s.var
             v == s.val
  <2>1. Sound(s.fn, Y) /\ blk \in Blocks(s.fn) /\ x \in Names /\ v \in Nat /\ v # NoValue
    BY <1>0, <1>1, SMTT(30) DEF RTyped
  <2>2. /\ MakesWrite(s.fn, c, x, blk, v) /\ blk \in s.fn.sealed /\ Len(s.fn.preds[blk]) = 1
        /\ s.fn.def[s.fn.preds[blk][1]][x] = v
        /\ s.fn.def[blk][x] = NoValue \/ s.fn.def[blk][x] = v
    BY <1>2, <1>3, Zenon
  <2>a. WriteFits(s.fn, c, Y, blk, x, v)
    BY <2>1, <2>2, Zenon DEF WriteFits
  <2> HIDE DEF Y, blk, x, v, u, t, n, T
  <2>b. WriteKept(s.fn, c, Y, blk, x, v)
    BY <2>a, WriteKeeps, Zenon
  <2>3. /\ Sound(c, Y) /\ Kept(s.fn, c, {blk}, {}) /\ c.def[blk][x] = v
        /\ \A w \in Blocks(s.fn), y \in Names : w # blk \/ y # x => c.def[w][y] = s.fn.def[w][y]
    BY <2>b, Zenon DEF WriteKept
  <2> QED
    BY <2>3, SMTT(30) DEF Y, blk, x, v
<1>5. Typed(c) /\ c.blocks = s.fn.blocks /\ c.home = s.fn.home /\ Blocks(c) = Blocks(s.fn)
  BY DEF MakesWrite, Blocks
<1> DEFINE g == SubSeq(s.calls, 1, n - 1)
<1>6. /\ u.fn = c /\ u.var = s.var /\ u.calls = s.calls /\ u.at = s.at /\ u.val = s.val
      /\ t.fn = c /\ t.var = s.var /\ t.calls = g /\ t.at = s.at /\ t.val = s.val
      /\ IsState(u) /\ IsState(t)
  <2>1. IsState(s)
    BY <1>0 DEF RTyped
  <2> HIDE DEF g
  <2>2. t = [s EXCEPT !.fn = c, !.calls = g] /\ u = [s EXCEPT !.fn = c]
    BY DEF g
  <2> HIDE DEF t, u
  <2>3. /\ u.fn = c /\ u.var = s.var /\ u.calls = s.calls /\ u.at = s.at /\ u.val = s.val
    BY <2>1, <2>2 DEF IsState
  <2>4. /\ t.fn = c /\ t.var = s.var /\ t.calls = g /\ t.at = s.at /\ t.val = s.val
    BY <2>1, <2>2 DEF IsState
  <2>5. IsState(u)
    BY <2>1, <2>2, <2>3 DEF IsState
  <2>6. IsState(t)
    BY <2>1, <2>2, <2>4, Zenon DEF IsState
  <2> QED
    BY <2>3, <2>4, <2>5, <2>6
<1> HIDE DEF t, u
<1>7. IsFront(T, s.calls, t.calls)
  BY <1>1, <1>6
<1> HIDE DEF g
<1>8. RTyped(u) /\ RTyped(t)
  BY <1>0, <1>5, <1>6, <1>7 DEF RTyped, IsFront
<1>9. s.fn.succs[call.block] # <<>> \/ (p = NoValue /\ call.block = start)
  <2>1. CASE n = 1
    BY <2>1, <1>0 DEF RChain, RMode
  <2>2. CASE n # 1
    <3>1. n - 1 \in DOMAIN s.calls /\ n - 1 <= n /\ n > 1
      <4>1. s.calls \in Seq(T)
        BY <1>0 DEF RTyped
      <4> HIDE DEF T
      <4>2. DOMAIN s.calls = 1 .. n
        BY <4>1
      <4>3. n \in Nat /\ n >= 1 /\ n # 1
        BY <2>2, <1>1
      <4> HIDE DEF n
      <4> QED
        BY <4>2, <4>3
    <3>2. call.block = Wanted(s.fn, s.calls[n - 1])
      BY <3>1, <1>0, <1>1 DEF RChain
    <3>3. s.calls[n - 1].phi # NoValue => More(s.fn, s.calls[n - 1])
      BY <3>1, <1>0 DEF RMore
    <3> HIDE DEF n
    <3> QED
      BY <3>1, <3>2, <3>3, <1>0, WantedHasSuccessors
  <2> QED
    BY <2>1, <2>2
<1>10. RSound(b, X, start, p, u)
  <2> DEFINE V == {call.block}
             R == {}
  <2>1. Kept(s.fn, u.fn, V, R)
    BY <1>4, <1>6
  <2>2. \A w \in V : w \in Blocks(s.fn) /\ (s.fn.succs[w] # <<>> \/ (p = NoValue /\ w = start))
    BY <1>1, <1>9
  <2>3. \A r \in R : r = p \/ r \notin DOMAIN b.phis
    OBVIOUS
  <2> HIDE DEF V, R
  <2>4. Sound(u.fn, X \cup Own(u.calls)) /\ u.var = s.var
    BY <1>4, <1>6
  <2>5. \A v \in DOMAIN u.fn.home :
           v \in DOMAIN s.fn.home \/ s.fn.def[u.fn.home[v]][s.var] = NoValue
    BY <1>5, <1>6
  <2> QED
    BY <2>1, <2>2, <2>3, <2>4, <2>5, <1>0, SoundOnwards, Zenon
<1>11. /\ RBase(b, X, start, p, u)
       /\ \A i \in DOMAIN s.calls :
              /\ Wanted(c, s.calls[i]) = Wanted(s.fn, s.calls[i])
              /\ s.calls[i].phi # NoValue => (More(c, s.calls[i]) <=> More(s.fn, s.calls[i]))
  <2> DEFINE V == {call.block}
  <2>1. Kept(s.fn, u.fn, V, {})
    BY <1>4, <1>6
  <2> HIDE DEF V
  <2>2. RBase(b, X, start, p, s) /\ RTyped(u) /\ u.var = s.var /\ u.calls = s.calls
    BY <1>0, <1>6, <1>8
  <2>3. /\ RBase(b, X, start, p, u)
        /\ \A i \in DOMAIN s.calls :
              /\ Wanted(u.fn, s.calls[i]) = Wanted(s.fn, s.calls[i])
              /\ s.calls[i].phi # NoValue => (More(u.fn, s.calls[i]) <=> More(s.fn, s.calls[i]))
    BY <2>1, <2>2, <1>10, BaseKept, Zenon
  <2> QED
    BY <2>3, <1>6
<1>12. Sound(c, X \cup Own(t.calls))
  <2> DEFINE Y == X \cup Own(s.calls)
             Z == X \cup Own(t.calls)
  <2>1. Y \subseteq Z \cup {NoValue}
    <3> SUFFICES ASSUME NEW i \in DOMAIN s.calls
                 PROVE  s.calls[i].phi \in Own(t.calls) \cup {NoValue}
      BY DEF Own
    <3>1. i = n \/ (i \in DOMAIN t.calls /\ t.calls[i] = s.calls[i])
      BY <1>7 DEF IsFront, n
    <3> QED
      BY <3>1 DEF Own, n
  <2>2. Sound(c, Y)
    BY <1>4
  <2> HIDE DEF Y, Z
  <2>3. Sound(c, Z)
    BY <2>1, <2>2, SoundZero
  <2> QED
    BY <2>3 DEF Z
<1>13. RBase(b, X, start, p, t)
  <2>1. t.calls = SubSeq(u.calls, 1, Len(u.calls) - 1) /\ u.calls # <<>>
    BY <1>6 DEF g, n
  <2> QED
    BY <2>1, <1>6, <1>8, <1>11, <1>12, BasePops, Zenon
<1>14. /\ \A i \in DOMAIN t.calls : i \in DOMAIN s.calls /\ t.calls[i] = s.calls[i]
                                  /\ i < n /\ i \in Nat /\ i >= 1 /\ i <= n
       /\ \A i \in DOMAIN s.calls : i \in Nat /\ i >= 1 /\ i <= n /\ (i = n \/ i \in DOMAIN t.calls)
  BY <1>1, <1>7 DEF IsFront, n
<1>15. RMore(t, Len(t.calls))
  BY <1>0, <1>6, <1>11, <1>14 DEF RMore
<1>16. RTop(start, p, t)
  <2>1. CASE t.calls # <<>>
    <3>1. Len(t.calls) \in DOMAIN t.calls /\ Len(t.calls) = n - 1 /\ n > 1
      BY <2>1, <1>1, <1>7 DEF IsFront, n
    <3>2. t.calls[Len(t.calls)] = s.calls[n - 1] /\ n - 1 \in DOMAIN s.calls
      BY <3>1, <1>14
    <3>3. call.block = Wanted(s.fn, s.calls[n - 1])
      BY <3>1, <1>0, <1>1 DEF RChain, n
    <3> QED
      BY <2>1, <3>1, <3>2, <3>3, <1>4, <1>6, <1>11 DEF RTop
  <2>2. CASE t.calls = <<>>
    <3>1. n = 1
      <4>1. Len(t.calls) = 0
        BY <2>2
      <4>2. Len(t.calls) = n - 1
        BY <1>7 DEF IsFront, n
      <4> HIDE DEF n
      <4> QED
        BY <4>1, <4>2, <1>1
    <3>2. call = s.calls[1] /\ call.block = start
      BY <3>1, <1>0 DEF RChain, n
    <3>3. p = NoValue
      BY <3>2, <1>0 DEF RMode
    <3> QED
      BY <2>2, <3>2, <3>3, <1>4, <1>6 DEF RTop
  <2> QED
    BY <2>1, <2>2
<1> HIDE DEF n
<1>17. RValues(t)
  <2> SUFFICES ASSUME NEW i \in DOMAIN t.calls, s.calls[i].phi = NoValue,
                      c.def[s.calls[i].block][s.var] # NoValue
               PROVE  \/ Later(t, i)
                      \/ /\ c.def[s.calls[i].block][s.var] = s.val
                         /\ \A j \in DOMAIN t.calls : j > i => s.calls[j].phi = NoValue
    BY <1>6, <1>14 DEF RValues
  <2> DEFINE blk == s.calls[i].block
             x == s.var
  <2>1. i \in DOMAIN s.calls /\ blk \in Blocks(s.fn) /\ i \in Nat /\ i < n
    BY <1>1, <1>14, SMTT(30)
  <2>2. CASE c.def[blk][x] = s.fn.def[blk][x]
    <3>1. Later(s, i) => Later(t, i)
      BY <2>2, <1>6, <1>7, LaterPopped, ZenonT(30)
    <3> QED
      BY <2>1, <2>2, <3>1, <1>0, <1>14, ZenonT(30) DEF RValues
  <2>3. CASE c.def[blk][x] # s.fn.def[blk][x]
    <3>1. blk = call.block /\ c.def[blk][x] = s.val /\ s.fn.def[blk][x] = NoValue
      <4>1. x \in Names
        BY <1>0 DEF RTyped
      <4> QED
        BY <2>1, <2>3, <4>1, <1>3, <1>4, Zenon
    <3> DEFINE w == Wanted(s.fn, call)
    <3>2. i + 1 \in DOMAIN s.calls /\ i + 1 > 1 /\ (i + 1) - 1 = i
      <4>1. s.calls \in Seq(T)
        BY <1>0 DEF RTyped
      <4> HIDE DEF T
      <4> QED
        BY <2>1, <4>1, <1>1 DEF n
    <3>3. s.calls[i + 1].block = w
      <4>1. s.calls[i + 1].block = Wanted(s.fn, s.calls[i])
        BY <3>2, <1>0, SMTT(30) DEF RChain
      <4> QED
        BY <3>1, <4>1, SMTT(30) DEF Wanted
    <3>4. s.fn.def[w][x] = s.val
      BY <1>2
    <3>5. i + 1 # n
      BY <3>1, <3>3, <3>4 DEF n
    <3>6. i + 1 \in DOMAIN t.calls
      BY <3>2, <3>5, <1>14
    <3> DEFINE m == i + 1
    <3>7. m \in DOMAIN s.calls /\ m > 1 /\ m \in DOMAIN t.calls /\ m \in Nat /\ i < m
          /\ (\A j \in DOMAIN s.calls : j > i => j = m \/ j > m)
          /\ (\A j \in DOMAIN s.calls : j > i /\ j < m => FALSE)
          /\ s.calls[m].block = w
      BY <2>1, <3>2, <3>3, <3>6, <1>14, SMTT(30)
    <3> HIDE DEF m, w
    <3>8. CASE s.calls[m].phi # NoValue
      <4>1. s.fn.def[w][x] = s.calls[m].phi
        BY <3>7, <3>8, <1>0 DEF RFrames, Frame
      <4>2. c.def[s.calls[i].block][x] = s.calls[m].phi
        BY <4>1, <3>1, <3>4
      <4> QED
        BY <3>7, <3>8, <4>2, <1>6, <1>14, SMTT(30) DEF Later
    <3>9. CASE s.calls[m].phi = NoValue /\ Later(s, m)
      <4>1. PICK j \in DOMAIN s.calls :
              /\ m < j /\ s.calls[j].phi # NoValue
              /\ s.fn.def[s.calls[m].block][s.var] = s.calls[j].phi
              /\ \A k \in DOMAIN s.calls : m < k /\ k < j => s.calls[k].phi = NoValue
        BY <3>9 DEF Later
      <4>2. j \in DOMAIN t.calls
        BY <4>1, <1>14 DEF n
      <4>3. i < j /\ \A k \in DOMAIN s.calls : i < k /\ k < j => s.calls[k].phi = NoValue
        BY <4>1, <3>7, <3>9, <1>14, <2>1
      <4>4. c.def[s.calls[i].block][x] = s.calls[j].phi
        BY <4>1, <3>1, <3>4, <3>7
      <4> QED
        BY <4>1, <4>2, <4>3, <4>4, <1>6, <1>14 DEF Later
    <3>10. CASE s.calls[m].phi = NoValue /\ ~Later(s, m)
      <4>1. \A j \in DOMAIN s.calls : j > m => s.calls[j].phi = NoValue
        BY <3>10, <3>4, <3>7, <1>0 DEF RValues
      <4> QED
        BY <4>1, <3>1, <3>7, <3>10, <1>14, SMTT(30)
    <3> QED
      BY <3>8, <3>9, <3>10, SMTT(30)
  <2> QED
    BY <2>2, <2>3
<1> QED
  BY <1>13, <1>15, <1>16, <1>17 DEF RFull, t

-----------------------------------------------------------------------------
\* The innermost call gets its value: a phi.

LEMMA ReturnPhi ==
  ASSUME NEW b, NEW X, NEW start, NEW p, NEW s, RFull(b, X, start, p, s), s.val # NoValue,
         s.calls # <<>>, NEW call, call = s.calls[Len(s.calls)], call.phi # NoValue,
         NEW e, e = [from |-> Wanted(s.fn, call), val |-> s.val],
         NEW c, MakesOperand(s.fn, c, call.phi, e)
  PROVE  RMid(b, X, start, p, [s EXCEPT !.fn = c])
<1> DEFINE n == Len(s.calls)
           q == call.phi
           t == [s EXCEPT !.fn = c]
           T == Calls(s.fn.blocks)
<1>0. /\ RBase(b, X, start, p, s) /\ RMore(s, n) /\ RTop(start, p, s) /\ RValues(s)
      /\ RTyped(s) /\ Typed(s.fn) /\ RSound(b, X, start, p, s) /\ RFrames(b, p, s)
      /\ Sound(s.fn, X \cup Own(s.calls)) /\ RMode(b, X, start, p, s) /\ RChain(start, s)
      /\ RDistinct(s) /\ Start0(b, start)
  BY DEF RFull, RBase, RTyped, RSound
<1>1. /\ n \in DOMAIN s.calls /\ n \in Nat /\ n >= 1
      /\ call.block \in Blocks(s.fn) /\ Frame(b, p, s, n)
      /\ \A i \in DOMAIN s.calls : s.calls[i].block \in Blocks(s.fn) /\ s.calls[i].phi \in Nat
  BY <1>0, TopFacts
<1>2. /\ q \in DOMAIN s.fn.phis /\ s.fn.phis[q].var = s.var /\ s.fn.home[q] = call.block
      /\ q = p \/ q \notin DOMAIN b.phis
  BY <1>1, SMTT(30) DEF Frame
<1>3. More(s.fn, call)
  BY <1>0, <1>1, SMTT(30) DEF RMore
<1>4. /\ Wanted(s.fn, call) \in Blocks(s.fn)
      /\ s.fn.def[Wanted(s.fn, call)][s.var] = s.val
      /\ Wanted(s.fn, call) = s.fn.preds[call.block][Len(s.fn.phis[q].edges) + 1]
  <2>1. Wanted(s.fn, call) \in Blocks(s.fn)
    <3> HIDE DEF n, q, t, T
    <3> QED
      BY <1>0, <1>1, <1>3, WantedHasSuccessors DEF n
  <2> QED
    BY <2>1, <1>0, Zenon DEF RTop, Wanted
<1>5. s.val \in Nat
  BY <1>0, SMTT(30) DEF RTyped
<1>6. e \in Edges(s.fn.blocks)
  BY <1>4, <1>5, ZenonT(30) DEF Edges, Blocks
<1>7. /\ Sound(c, X \cup Own(s.calls)) /\ Kept(s.fn, c, {}, {q})
      /\ DOMAIN c.phis = DOMAIN s.fn.phis
      /\ \A z \in DOMAIN s.fn.phis : c.phis[z].var = s.fn.phis[z].var
                                      /\ (z # q => c.phis[z] = s.fn.phis[z])
  <2> DEFINE f == s.fn
             Y == X \cup Own(s.calls)
  <2>1. IsOperand(f, q, Len(f.phis[q].edges) + 1, e)
    BY <1>2, <1>3, <1>4, Zenon DEF IsOperand, More
  <2>2. Sound(f, Y) /\ q \in Y /\ q \in DOMAIN f.phis /\ MakesOperand(f, c, q, e)
        /\ e \in Edges(f.blocks)
    BY <1>0, <1>1, <1>2, <1>6 DEF Own
  <2> HIDE DEF f, Y, n, q, t, T
  <2>3. /\ Sound(c, Y) /\ Kept(f, c, {}, {q})
        /\ DOMAIN c.phis = DOMAIN f.phis
        /\ \A z \in DOMAIN f.phis : c.phis[z].var = f.phis[z].var /\ (z # q => c.phis[z] = f.phis[z])
    BY <2>1, <2>2, OperandSound, ZenonT(30)
  <2> QED
    BY <2>3, SMTT(30) DEF f, Y
<1>8. /\ Typed(c) /\ c.blocks = s.fn.blocks /\ c.home = s.fn.home /\ Blocks(c) = Blocks(s.fn)
      /\ c.def = s.fn.def /\ c.sealed = s.fn.sealed /\ c.preds = s.fn.preds
  BY Zenon DEF MakesOperand, Blocks
<1>9. /\ t.fn = c /\ t.var = s.var /\ t.calls = s.calls /\ t.at = s.at /\ t.val = s.val
      /\ IsState(t)
  <2>1. IsState(s)
    BY <1>0 DEF RTyped
  <2>2. t = [s EXCEPT !.fn = c]
    OBVIOUS
  <2> HIDE DEF t
  <2>3. /\ t.fn = c /\ t.var = s.var /\ t.calls = s.calls /\ t.at = s.at /\ t.val = s.val
    BY <2>1, <2>2 DEF IsState
  <2>4. IsState(t)
    BY <2>1, <2>2, <2>3 DEF IsState
  <2> QED
    BY <2>3, <2>4
<1> HIDE DEF t
<1>10. RTyped(t)
  BY <1>0, <1>8, <1>9 DEF RTyped
<1>11. RSound(b, X, start, p, t)
  <2> DEFINE V == {}
             R == {q}
  <2>1. Kept(s.fn, t.fn, V, R)
    BY <1>7, <1>9
  <2>2. \A w \in V : w \in Blocks(s.fn) /\ (s.fn.succs[w] # <<>> \/ (p = NoValue /\ w = start))
    OBVIOUS
  <2>3. \A r \in R : r = p \/ r \notin DOMAIN b.phis
    BY <1>2
  <2> HIDE DEF V, R
  <2>4. Sound(t.fn, X \cup Own(t.calls)) /\ t.var = s.var
    BY <1>7, <1>9
  <2>5. \A v \in DOMAIN t.fn.home :
           v \in DOMAIN s.fn.home \/ s.fn.def[t.fn.home[v]][s.var] = NoValue
    BY <1>8, <1>9, SMTT(30)
  <2> QED
    BY <2>1, <2>2, <2>3, <2>4, <2>5, <1>0, SoundOnwards, Zenon
<1>12. RFrames(b, p, t)
  BY <1>0, <1>7, <1>8, <1>9, SMTT(30) DEF RFrames, Frame
<1>13. \A i \in DOMAIN s.calls : i # n =>
         /\ Wanted(c, s.calls[i]) = Wanted(s.fn, s.calls[i])
         /\ s.calls[i].phi # NoValue => (More(c, s.calls[i]) <=> More(s.fn, s.calls[i]))
  <2> SUFFICES ASSUME NEW i \in DOMAIN s.calls, i # n, s.calls[i].phi # NoValue
               PROVE  c.phis[s.calls[i].phi] = s.fn.phis[s.calls[i].phi]
    BY <1>8, Zenon DEF Wanted, More
  <2>1. s.calls[i].phi \in DOMAIN s.fn.phis
    BY <1>0 DEF RFrames, Frame
  <2>2. s.calls[i].phi # q
    BY <1>0, <1>1 DEF RDistinct
  <2> QED
    BY <2>1, <2>2, <1>7, SMTT(30)
<1>14. s.calls \in Seq(T)
  BY <1>0 DEF RTyped
<1>15. DOMAIN s.calls = 1 .. n
  <2> HIDE DEF T
  <2> QED
    BY <1>14
<1>16. RChain(start, t)
  <2> SUFFICES ASSUME NEW i \in DOMAIN s.calls, i > 1
               PROVE  s.calls[i].block = Wanted(c, s.calls[i - 1])
    BY <1>0, <1>9 DEF RChain
  <2>1. i - 1 \in DOMAIN s.calls /\ i - 1 # n
    <3> HIDE DEF n
    <3> QED
      BY <1>15, <1>1
  <2> QED
    BY <2>1, <1>0, <1>13 DEF RChain
<1>17. RDistinct(t) /\ RMode(b, X, start, p, t)
  BY <1>0, <1>9 DEF RDistinct, RMode
<1>18. RMore(t, n - 1)
  <2> SUFFICES ASSUME NEW i \in DOMAIN s.calls, i <= n - 1, s.calls[i].phi # NoValue
               PROVE  More(c, s.calls[i])
    BY <1>9, SMTT(30) DEF RMore
  <2>1. i # n /\ i <= n
    <3> HIDE DEF n
    <3> QED
      BY <1>15, <1>1, SMTT(30)
  <2> QED
    BY <2>1, <1>0, <1>13 DEF RMore
<1>19. RLater(t)
  <2> SUFFICES ASSUME NEW i \in DOMAIN s.calls, s.calls[i].phi = NoValue,
                      s.fn.def[s.calls[i].block][s.var] # NoValue
               PROVE  Later(t, i)
    BY <1>8, <1>9 DEF RLater
  <2>1. i # n /\ i < n
    <3>1. i # n
      BY SMTT(30)
    <3> HIDE DEF n
    <3> QED
      BY <3>1, <1>15, <1>1
  <2>2. Later(s, i)
    BY <2>1, <1>0, <1>1 DEF RValues
  <2> QED
    BY <2>2, <1>8, <1>9 DEF Later
<1> QED
  BY <1>0, <1>9, <1>10, <1>11, <1>12, <1>16, <1>17, <1>18, <1>19 DEF RMid, RBase, t

\* Return keeps the invariant.
LEMMA ReturnStep ==
  ASSUME NEW b, NEW X, NEW start, NEW p, NEW s, RFull(b, X, start, p, s), s.val # NoValue,
         s.calls # <<>>
  PROVE  RFull(b, X, start, p, Return(s))
<1> DEFINE call == s.calls[Len(s.calls)]
           q == call.phi
           edges == s.fn.phis[q].edges
           e == [from |-> s.fn.preds[call.block][Len(edges) + 1], val |-> s.val]
<1>0. RBase(b, X, start, p, s) /\ RMore(s, Len(s.calls)) /\ RTyped(s) /\ Typed(s.fn)
      /\ s.val \in Nat /\ s.var \in Names
  BY DEF RFull, RBase, RTyped
<1>1. /\ Len(s.calls) \in DOMAIN s.calls /\ call.block \in Blocks(s.fn)
      /\ Frame(b, p, s, Len(s.calls)) /\ Len(s.calls) \in Nat
  BY <1>0, TopFacts
<1>2. CASE q = NoValue
  <2> DEFINE c == WriteVariable(s.fn, s.var, call.block, s.val)
  <2>1. Return(s) = [s EXCEPT !.fn = c, !.calls = SubSeq(@, 1, Len(@) - 1)]
    BY <1>2 DEF Return
  <2>2. MakesWrite(s.fn, c, s.var, call.block, s.val)
    <3> DEFINE f == s.fn
               x == s.var
               blk == call.block
               v == s.val
    <3>1. Typed(f) /\ x \in Names /\ blk \in Blocks(f) /\ v \in Nat
      BY <1>0, <1>1
    <3> HIDE DEF f, x, blk, v
    <3>2. MakesWrite(f, WriteVariable(f, x, blk, v), x, blk, v)
      BY <3>1, WriteFields, ZenonT(30) DEF MakesWrite
    <3> QED
      BY <3>2 DEF f, x, blk, v
  <2> HIDE DEF c, call
  <2>3. RFull(b, X, start, p, [s EXCEPT !.fn = c, !.calls = SubSeq(@, 1, Len(@) - 1)])
    BY <2>2, <1>2, ReturnSingle, Zenon DEF call
  <2> QED
    BY <2>1, <2>3
<1>3. CASE q # NoValue
  <2> DEFINE c == [s.fn EXCEPT !.phis[q].edges = Append(edges, e)]
             t == [s EXCEPT !.fn = c]
  <2>1. Return(s) = NextOperand(t)
    <3>1. t = [s EXCEPT !.fn.phis[q].edges = Append(edges, e)]
      <4>1. IsState(s)
        BY <1>0 DEF RTyped
      <4> QED
        BY <4>1 DEF IsState
    <3> HIDE DEF t, c
    <3> QED
      BY <3>1, <1>3, Zenon DEF Return
  <2>2. e = [from |-> Wanted(s.fn, call), val |-> s.val]
    BY <1>3 DEF Wanted
  <2>3. MakesOperand(s.fn, c, q, e)
    <3>1. q \in DOMAIN s.fn.phis /\ More(s.fn, call)
      BY <1>0, <1>1, <1>3 DEF Frame, RMore
    <3>2. Wanted(s.fn, call) \in Blocks(s.fn)
      <4>1. call.phi # NoValue => More(s.fn, call)
        BY <3>1, SMTT(30)
      <4> HIDE DEF call, edges, e, c, t
      <4> QED
        BY <4>1, <1>0, <1>1, WantedHasSuccessors DEF call
    <3>3. e \in Edges(s.fn.blocks)
      <4> HIDE DEF e
      <4> QED
        BY <2>2, <3>2, <1>0, SMTT(30) DEF Edges, Blocks
    <3> DEFINE f == s.fn
    <3>4. Typed(f) /\ q \in DOMAIN f.phis /\ e \in Edges(f.blocks) /\ edges = f.phis[q].edges
      BY <3>1, <3>3, <1>0, Zenon
    <3>5. c = [f EXCEPT !.phis[q].edges = Append(f.phis[q].edges, e)]
      OBVIOUS
    <3> HIDE DEF e, q, f, edges, c, t
    <3>6. MakesOperand(f, [f EXCEPT !.phis[q].edges = Append(f.phis[q].edges, e)], q, e)
      BY <3>4, OperandFields DEF MakesOperand
    <3> QED
      BY <3>5, <3>6 DEF f
  <2> HIDE DEF c, e, call
  <2>4. RMid(b, X, start, p, t)
    BY <2>2, <2>3, <1>3, ReturnPhi, Zenon DEF call
  <2> HIDE DEF t
  <2> QED
    BY <2>1, <2>4, NextOperandStep
<1> QED
  BY <1>2, <1>3

\* Every step of a read keeps the invariant.
LEMMA ReadStepFull ==
  ASSUME NEW b, NEW X, NEW start, NEW p, NEW s, RFull(b, X, start, p, s)
  PROVE  RFull(b, X, start, p, ReadStep(s))
  BY LookupStep, ReturnStep DEF ReadStep, Ended

-----------------------------------------------------------------------------
\* A read from beginning to end.

\* f begins with base and goes on with the steps.
IsWalk(f, n, X, base, step) ==
  /\ f \in [0 .. n -> X] /\ f[0] = base
  /\ \A k \in 1 .. n : f[k] = step[k][f[k - 1]]

\* Such a function exists: what AfterReads and SealBlock compute by recursion does.
LEMMA RecursionExists ==
  ASSUME NEW n \in Nat, NEW X, NEW base \in X, NEW step \in [1 .. n -> [X -> X]]
  PROVE  \E f : IsWalk(f, n, X, base, step)
<1>2. PICK iter \in [SUBSET (1 .. n) -> X] : IsFold(iter, n, base, step)
  BY FoldExists, Zenon
<1> DEFINE f == [k \in 0 .. n |-> iter[1 .. k]]
<1>3. \A k \in 0 .. n : 1 .. k \in SUBSET (1 .. n)
  OBVIOUS
<1>4. f \in [0 .. n -> X]
  BY <1>3
<1>5. f[0] = base
  <2>1. 1 .. 0 = {}
    OBVIOUS
  <2>2. {} \in SUBSET (1 .. n)
    OBVIOUS
  <2>3. iter[{}] = base
    BY <1>2, <2>2, Zenon DEF IsFold
  <2> QED
    BY <2>1, <2>3
<1>6. ASSUME NEW k \in 1 .. n PROVE f[k] = step[k][f[k - 1]]
  <2>1. /\ 1 .. k \in SUBSET (1 .. n) /\ 1 .. k # {}
        /\ LastOf(1 .. k) = k /\ (1 .. k) \ {k} = 1 .. k - 1
    BY LastOfPrefix
  <2>2. iter[1 .. k] = step[k][iter[1 .. k - 1]]
    BY <1>2, <2>1, Zenon DEF IsFold
  <2>3. k \in 0 .. n /\ k - 1 \in 0 .. n
    OBVIOUS
  <2> QED
    BY <2>2, <2>3
<1> HIDE DEF f
<1> QED
  BY <1>4, <1>5, <1>6 DEF IsWalk

\* The functions under construction that have n blocks.
Functions(n) ==
  [blocks : {n}, preds : [1 .. n -> Seq(1 .. n)], succs : [1 .. n -> Seq(1 .. n)],
   def : [1 .. n -> [Names -> Nat]], code : [1 .. n -> Seq(Steps)],
   sealed : SUBSET (1 .. n), home : Seq(1 .. n),
   phis : UNION {[D -> Phis(n)] : D \in SUBSET Nat}, incomplete : SUBSET Nat,
   cur : 1 .. n, stuck : BOOLEAN]

States(n) == [fn : Functions(n), var : Names, at : 1 .. n, val : Nat, calls : Seq(Calls(n))]

\* Typed functions are the members of a set ...
LEMMA FunctionsTyped ==
  ASSUME NEW f, Typed(f)
  PROVE  f \in Functions(f.blocks)
<1>1. f.phis \in UNION {[D -> Phis(f.blocks)] : D \in SUBSET Nat}
  BY DEF Typed
<1> QED
  BY <1>1, Zenon DEF Typed, Functions

\* ... and so are the states of a read.
LEMMA StatesTyped ==
  ASSUME NEW s, RTyped(s)
  PROVE  s \in States(s.fn.blocks)
<1> DEFINE n == s.fn.blocks
<1>1. /\ IsState(s) /\ s.var \in Names /\ s.at \in 1 .. n /\ s.val \in Nat
      /\ s.calls \in Seq(Calls(n)) /\ s.fn \in Functions(n)
  BY FunctionsTyped DEF RTyped, Blocks
<1> HIDE DEF n
<1>2. s \in States(n)
  BY <1>1, SMTT(30) DEF States, IsState
<1> QED
  BY <1>2 DEF n

\* A read is of one variable throughout ...
LEMMA NextOperandVar ==
  ASSUME NEW s, IsState(s)
  PROVE  NextOperand(s).var = s.var
<1> DEFINE call == s.calls[Len(s.calls)]
           k == Len(s.fn.phis[call.phi].edges) + 1
           w == s.fn.preds[call.block][k]
           g == SubSeq(s.calls, 1, Len(s.calls) - 1)
           q == call.phi
<1>1. \/ NextOperand(s) = [s EXCEPT !.at = w, !.val = NoValue]
      \/ NextOperand(s) = [s EXCEPT !.calls = g, !.val = q]
  BY Zenon DEF NextOperand
<1> HIDE DEF w, g, q
<1> QED
  BY <1>1, Zenon DEF IsState

\* ... and in one function, of one number of blocks.
LEMMA ReadStepVar ==
  ASSUME NEW s, IsState(s)
  PROVE  ReadStep(s).var = s.var
<1>1. \A f, calls : /\ IsState([s EXCEPT !.fn = f, !.calls = calls])
                    /\ [s EXCEPT !.fn = f, !.calls = calls].var = s.var
                    /\ IsState([s EXCEPT !.fn = f]) /\ [s EXCEPT !.fn = f].var = s.var
  <2> TAKE f, calls
  <2> DEFINE t == [s EXCEPT !.fn = f, !.calls = calls]
             u == [s EXCEPT !.fn = f]
  <2>1. t = [s EXCEPT !.fn = f, !.calls = calls] /\ u = [s EXCEPT !.fn = f]
    OBVIOUS
  <2> HIDE DEF t, u
  <2>2. /\ t.fn = f /\ t.var = s.var /\ t.calls = calls /\ t.at = s.at /\ t.val = s.val
        /\ u.fn = f /\ u.var = s.var /\ u.calls = s.calls /\ u.at = s.at /\ u.val = s.val
    BY <2>1 DEF IsState
  <2>3. IsState(t) /\ IsState(u)
    BY <2>1, <2>2, Zenon DEF IsState
  <2> QED
    BY <2>2, <2>3 DEF t, u
<1>2. Lookup(s).var = s.var
  <2> DEFINE f == NewPhi(s.fn, s.var, s.at, <<>>)
             g == [f EXCEPT !.incomplete = @ \cup {NextValue(s.fn)}]
             q == NextValue(s.fn)
             calls == Append(s.calls, [block |-> s.at, phi |-> q])
             more == Append(s.calls, [block |-> s.at, phi |-> NoValue])
             w == s.fn.preds[s.at][1]
             t == [s EXCEPT !.fn = f, !.calls = calls]
  <2>1. \/ Lookup(s) = [s EXCEPT !.val = s.fn.def[s.at][s.var]]
        \/ Lookup(s) = [s EXCEPT !.fn = g, !.val = q]
        \/ Lookup(s) = [s EXCEPT !.at = w, !.calls = more]
        \/ Lookup(s) = NextOperand(t)
    BY DEF Lookup
  <2>2. IsState(t) /\ t.var = s.var
    <3> HIDE DEF f, calls
    <3> QED
      BY <1>1, ZenonT(30)
  <2> HIDE DEF f, g, q, calls, more, w, t
  <2> QED
    BY <2>1, <2>2, NextOperandVar, Zenon DEF IsState
<1>3. Return(s).var = s.var
  <2> DEFINE call == s.calls[Len(s.calls)]
             edges == s.fn.phis[call.phi].edges
             e == [from |-> s.fn.preds[call.block][Len(edges) + 1], val |-> s.val]
             f == WriteVariable(s.fn, s.var, call.block, s.val)
             g == [s.fn EXCEPT !.phis[call.phi].edges = Append(edges, e)]
             calls == SubSeq(s.calls, 1, Len(s.calls) - 1)
             t == [s EXCEPT !.fn = g]
  <2>1. \/ Return(s) = [s EXCEPT !.fn = f, !.calls = calls]
        \/ Return(s) = NextOperand(t)
    <3>1. t = [s EXCEPT !.fn.phis[call.phi].edges = Append(edges, e)]
      BY DEF IsState
    <3> HIDE DEF t
    <3> QED
      BY <3>1, Zenon DEF Return
  <2>2. IsState(t) /\ t.var = s.var
    <3> HIDE DEF g
    <3> QED
      BY <1>1, Zenon
  <2> HIDE DEF f, g, calls, t
  <2> QED
    BY <2>1, <2>2, NextOperandVar, Zenon DEF IsState
<1> QED
  BY <1>2, <1>3 DEF ReadStep

\* A read, for as long as it goes on.
LEMMA AfterReadsFull ==
  ASSUME MaxReads \in Nat, NEW b, NEW X, NEW start, NEW p, NEW s, RFull(b, X, start, p, s)
  PROVE  RFull(b, X, start, p, AfterReads(s)) /\ AfterReads(s).var = s.var
<1> DEFINE n == b.blocks
           Z == {t \in States(n) : RFull(b, X, start, p, t) /\ t.var = s.var}
           step == [k \in 1 .. MaxReads |-> [t \in Z |-> ReadStep(t)]]
<1>1. \A t : RFull(b, X, start, p, t) /\ t.var = s.var => t \in Z
  <2> SUFFICES ASSUME NEW t, RFull(b, X, start, p, t) PROVE t \in States(n)
    OBVIOUS
  <2>1. RTyped(t) /\ t.fn.blocks = n
    BY DEF RFull, RBase, RSound, Kept
  <2> QED
    BY <2>1, StatesTyped
<1>2. step \in [1 .. MaxReads -> [Z -> Z]]
  <2>1. \A t \in Z : ReadStep(t) \in Z
    <3> SUFFICES ASSUME NEW t \in Z PROVE ReadStep(t) \in Z
      OBVIOUS
    <3>1. RFull(b, X, start, p, ReadStep(t)) /\ ReadStep(t).var = t.var
      BY ReadStepFull, ReadStepVar, Zenon DEF RFull, RBase, RTyped
    <3> QED
      BY <1>1, <3>1
  <2> QED
    BY <2>1
<1>3. s \in Z
  BY <1>1
<1>4. \A t \in Z : /\ \A k \in 1 .. MaxReads : step[k][t] = ReadStep(t)
                   /\ RFull(b, X, start, p, t) /\ t.var = s.var
  OBVIOUS
<1> HIDE DEF Z, step
<1>5. PICK f \in [0 .. MaxReads -> Z] : f[0] = s /\ \A k \in 1 .. MaxReads : f[k] = step[k][f[k - 1]]
  <2>1. \E f : IsWalk(f, MaxReads, Z, s, step)
    BY <1>2, <1>3, RecursionExists
  <2> QED
    BY <2>1 DEF IsWalk
<1> DEFINE G(g) == [k \in 0 .. MaxReads |-> IF k = 0 THEN s ELSE LET before == g[k - 1] IN ReadStep(before)]
<1>6. f = G(f)
  <2>1. \A k \in 0 .. MaxReads : f[k] = IF k = 0 THEN s ELSE ReadStep(f[k - 1])
    <3> SUFFICES ASSUME NEW k \in 0 .. MaxReads, k # 0 PROVE f[k] = ReadStep(f[k - 1])
      BY <1>5
    <3>1. k \in 1 .. MaxReads /\ k - 1 \in 0 .. MaxReads
      OBVIOUS
    <3>2. f[k - 1] \in Z
      BY <1>5, <3>1
    <3> QED
      BY <1>4, <1>5, <3>1, <3>2
  <2> QED
    BY <1>5, <2>1
<1> DEFINE h == CHOOSE g : g = G(g)
<1>7. h = G(h)
  <2> HIDE DEF G
  <2> QED
    BY <1>6
<1>8. AfterReads(s) = h[MaxReads]
  BY DEF AfterReads
<1> HIDE DEF h
<1>9. \A k \in 0 .. MaxReads : h[k] = IF k = 0 THEN s ELSE ReadStep(h[k - 1])
  BY <1>7
<1> DEFINE S == {k \in 0 .. MaxReads : h[k] \in Z}
<1>10. \A k \in 0 .. MaxReads : k \in S
  <2>1. 0 \in S
    BY <1>3, <1>9
  <2>2. \A i \in 1 .. MaxReads : i - 1 \in S => i \in S
    <3> SUFFICES ASSUME NEW i \in 1 .. MaxReads, h[i - 1] \in Z PROVE h[i] \in Z
      OBVIOUS
    <3>1. h[i] = ReadStep(h[i - 1])
      BY <1>9
    <3>2. RFull(b, X, start, p, h[i]) /\ h[i].var = s.var
      <4> DEFINE t == h[i - 1]
      <4>1. RFull(b, X, start, p, t) /\ t.var = s.var
        BY <1>4
      <4>2. IsState(t)
        BY <4>1 DEF RFull, RBase, RTyped
      <4> HIDE DEF t
      <4>3. RFull(b, X, start, p, ReadStep(t)) /\ ReadStep(t).var = s.var
        BY <4>1, <4>2, ReadStepFull, ReadStepVar
      <4> QED
        BY <3>1, <4>3 DEF t
    <3> QED
      BY <3>2, <1>1
  <2> HIDE DEF S
  <2> QED
    BY <2>1, <2>2, Onwards, Zenon
<1>11. h[MaxReads] \in Z
  BY <1>10
<1> QED
  BY <1>4, <1>8, <1>11

\* A variable that is read has the value that was found, and nothing else changed
\* but what the blocks on the way know of it.
IsRead(b, c, x, blk, v) ==
  /\ Kept(b, c, {blk}, {}) /\ c.def[blk][x] = v /\ v \in Nat /\ v # NoValue
  /\ \A u \in DOMAIN c.home : u \in DOMAIN b.home \/ b.def[c.home[u]][x] = NoValue

\* A read that ends has the value of the variable, and the function is sound.
LEMMA ReadSound ==
  ASSUME MaxReads \in Nat, NEW b, NEW X, Sound(b, X), NEW x \in Names, NEW blk \in Blocks(b),
         NEW r, r = ReadVariable(b, x, blk), Ended(r)
  PROVE  Sound(r.fn, X) /\ IsRead(b, r.fn, x, blk, r.val)
<1> DEFINE s == [fn |-> b, var |-> x, at |-> blk, val |-> NoValue, calls |-> <<>>]
<1>0. Typed(b) /\ Numbered(b)
  BY DEF Sound, Known
<1>1. s.fn = b /\ s.var = x /\ s.at = blk /\ s.val = NoValue /\ s.calls = <<>> /\ IsState(s)
  BY DEF IsState
<1>2. r = AfterReads(s)
  BY DEF ReadVariable
<1> HIDE DEF s
<1>3. Own(s.calls) = {} /\ DOMAIN s.calls = {} /\ s.calls \in Seq(Calls(b.blocks))
  BY <1>1 DEF Own
<1>4. RFull(b, X, blk, NoValue, s)
  <2>1. RTyped(s)
    BY <1>0, <1>1, <1>3 DEF RTyped, NoValue
  <2>2. RSound(b, X, blk, NoValue, s)
    <3>1. Kept(b, b, {blk}, {NoValue})
      BY <1>0, KeptSelf
    <3>2. X \cup Own(s.calls) = X
      BY <1>3
    <3> QED
      BY <1>1, <3>1, <3>2, Zenon DEF RSound
  <2>3. RFrames(b, NoValue, s) /\ RChain(blk, s) /\ RDistinct(s) /\ RMode(b, X, blk, NoValue, s)
    BY <1>1, <1>3 DEF RFrames, RChain, RDistinct, RMode
  <2>4. RMore(s, Len(s.calls)) /\ RTop(blk, NoValue, s) /\ RValues(s)
    BY <1>1, <1>3 DEF RMore, RTop, RValues
  <2> QED
    BY <1>0, <2>1, <2>2, <2>3, <2>4 DEF RFull, RBase, Start0
<1>5. RFull(b, X, blk, NoValue, r) /\ r.var = s.var
  BY <1>2, <1>4, AfterReadsFull
<1>6. r.calls = <<>> /\ r.val # NoValue
  BY DEF Ended
<1>7. Own(r.calls) = {}
  BY <1>6 DEF Own
<1>8. /\ RSound(b, X, blk, NoValue, r) /\ RTop(blk, NoValue, r) /\ r.val \in Nat
  BY <1>5 DEF RFull, RBase, RTyped
<1>9. r.var = x
  BY <1>5, <1>1
<1>10. Sound(r.fn, X)
  <2>1. X \cup Own(r.calls) = X
    BY <1>7
  <2> QED
    BY <1>8, <2>1 DEF RSound
<1>11. Kept(b, r.fn, {blk}, {NoValue})
  BY <1>8 DEF RSound
<1>12. Kept(b, r.fn, {blk}, {})
  <2>1. NoValue \notin DOMAIN b.phis
    BY <1>0, TypedFacts DEF Numbered
  <2> QED
    BY <1>11, <2>1 DEF Kept
<1> QED
  BY <1>6, <1>8, <1>9, <1>10, <1>12 DEF RSound, RTop, IsRead

-----------------------------------------------------------------------------
\* The operands of one phi of the block that is sealed.

\* A phi has all its operands, and the block where it stands has no new value.
IsFilled(b, c, p) ==
  /\ Kept(b, c, {}, {p})
  /\ Len(c.phis[p].edges) = Len(b.preds[b.home[p]])
  /\ \A v \in DOMAIN c.home : c.home[v] = b.home[p] => v \in DOMAIN b.home

\* A stuck function keeps its types.
LEMMA StuckFields ==
  ASSUME NEW b, Typed(b)
  PROVE  Typed(Stuck(b)) /\ Stuck(b).stuck = TRUE /\ Stuck(b).blocks = b.blocks
<1> DEFINE c == Stuck(b)
<1>1. c = [b EXCEPT !.stuck = TRUE]
  BY DEF Stuck
<1> HIDE DEF c
<1>2. /\ c.blocks = b.blocks /\ c.preds = b.preds /\ c.succs = b.succs
      /\ c.def = b.def /\ c.code = b.code /\ c.sealed = b.sealed /\ c.home = b.home
      /\ c.phis = b.phis /\ c.incomplete = b.incomplete /\ c.cur = b.cur /\ c.stuck = TRUE
  BY <1>1 DEF Typed
<1>3. Typed(c)
  BY <1>1, <1>2, Zenon DEF Typed
<1> QED
  BY <1>2, <1>3 DEF c

\* Phi p of a block that is being sealed gets its operands.
LEMMA FilledSound ==
  ASSUME MaxReads \in Nat, NEW b, NEW X, Sound(b, X), NEW p \in DOMAIN b.phis, p \in X,
         b.def[b.home[p]][b.phis[p].var] # NoValue
  PROVE  /\ Typed(AddPhiOperands(b, p)) /\ AddPhiOperands(b, p).blocks = b.blocks
         /\ \/ AddPhiOperands(b, p).stuck
            \/ Sound(AddPhiOperands(b, p), X) /\ IsFilled(b, AddPhiOperands(b, p), p)
<1> DEFINE start == b.home[p]
           x == b.phis[p].var
           call == [block |-> start, phi |-> p]
           s == [fn |-> b, var |-> x, at |-> start, val |-> NoValue, calls |-> <<call>>]
           r == AfterReads(NextOperand(s))
<1>0. Typed(b) /\ Numbered(b)
  BY DEF Sound, Known
<1>1. s.fn = b /\ s.var = x /\ s.at = start /\ s.val = NoValue /\ s.calls = <<call>> /\ IsState(s)
  BY DEF IsState
<1>2. AddPhiOperands(b, p) = IF Ended(r) THEN r.fn ELSE Stuck(b)
  BY DEF AddPhiOperands
<1>3. start \in Blocks(b) /\ x \in Names /\ p \in Nat /\ p # NoValue
  BY <1>0, TypedFacts DEF Numbered
<1>4. call.block = start /\ call.phi = p /\ call \in Calls(b.blocks)
  BY <1>3 DEF Calls, Blocks
<1> HIDE DEF s, call
<1>5. /\ s.calls \in Seq(Calls(b.blocks)) /\ DOMAIN s.calls = {1} /\ s.calls[1] = call
      /\ Len(s.calls) = 1 /\ s.calls # <<>>
  <2> DEFINE T == Calls(b.blocks)
  <2> HIDE DEF T
  <2>1. call \in T
    BY <1>4 DEF T
  <2>2. <<call>> \in Seq(T) /\ DOMAIN <<call>> = {1} /\ <<call>>[1] = call /\ Len(<<call>>) = 1
        /\ <<call>> # <<>>
    BY <2>1
  <2> QED
    BY <1>1, <2>2 DEF T
<1>6. Own(s.calls) = {p}
  BY <1>4, <1>5 DEF Own
<1>7. RMid(b, X, start, p, s)
  <2>1. RTyped(s)
    BY <1>0, <1>1, <1>3, <1>5, SMTT(30) DEF RTyped, NoValue
  <2>2. RSound(b, X, start, p, s)
    <3>1. Kept(b, b, {}, {p})
      BY <1>0, KeptSelf
    <3>2. X \cup Own(s.calls) = X
      BY <1>6
    <3> QED
      BY <1>1, <1>3, <3>1, <3>2 DEF RSound
  <2>3. RFrames(b, p, s)
    BY <1>1, <1>3, <1>4, <1>5 DEF RFrames, Frame
  <2>4. RChain(start, s) /\ RDistinct(s) /\ RMode(b, X, start, p, s)
    BY <1>1, <1>3, <1>4, <1>5 DEF RChain, RDistinct, RMode
  <2>5. RMore(s, Len(s.calls) - 1) /\ RLater(s) /\ s.calls[Len(s.calls)].phi # NoValue
    BY <1>3, <1>4, <1>5 DEF RMore, RLater
  <2> HIDE DEF start, x
  <2> QED
    BY <1>0, <1>3, <1>5, <2>1, <2>2, <2>3, <2>4, <2>5 DEF RMid, RBase, Start0
<1> HIDE DEF start, x
<1>8. RFull(b, X, start, p, NextOperand(s)) /\ NextOperand(s).var = x
  BY <1>1, <1>7, NextOperandStep, NextOperandVar
<1>9. RFull(b, X, start, p, r) /\ r.var = x
  <2> DEFINE t == NextOperand(s)
  <2> HIDE DEF t
  <2>1. RFull(b, X, start, p, t) /\ t.var = x
    BY <1>8 DEF t
  <2>2. RFull(b, X, start, p, AfterReads(t)) /\ AfterReads(t).var = x
    BY <2>1, AfterReadsFull
  <2> QED
    BY <2>2 DEF t
<1> HIDE DEF r
<1>10. CASE Ended(r)
  <2>1. r.calls = <<>> /\ r.val # NoValue
    BY <1>10 DEF Ended
  <2>2. /\ RSound(b, X, start, p, r) /\ RTop(start, p, r) /\ RTyped(r)
    BY <1>9 DEF RFull, RBase
  <2>3. X \cup Own(r.calls) = X
    BY <2>1 DEF Own
  <2>4. Sound(r.fn, X)
    BY <2>2, <2>3 DEF RSound
  <2>5. Kept(b, r.fn, {}, {p}) /\ r.fn.blocks = b.blocks /\ r.fn.preds = b.preds
    BY <2>2, <1>3, SMTT(30) DEF RSound, Kept
  <2>6. Len(r.fn.phis[p].edges) = Len(b.preds[start])
    BY <2>1, <2>2, <2>5, <1>3, SMTT(30) DEF RTop
  <2>7. \A v \in DOMAIN r.fn.home : r.fn.home[v] = start => v \in DOMAIN b.home
    BY <2>2, <1>9 DEF RSound, start, x
  <2>8. Typed(r.fn)
    BY <2>2 DEF RTyped
  <2>9. IsFilled(b, r.fn, p)
    BY <2>5, <2>6, <2>7 DEF IsFilled, start
  <2> QED
    BY <1>2, <1>10, <2>4, <2>5, <2>8, <2>9
<1>11. CASE ~Ended(r)
  BY <1>0, <1>2, <1>11, StuckFields, Zenon
<1> QED
  BY <1>10, <1>11

\* What the code says depends on these fields only.
LEMMA SameLaid ==
  ASSUME NEW b, NEW c, Laid(b), Blocks(c) = Blocks(b),
         c.preds = b.preds, c.succs = b.succs, c.def = b.def, c.code = b.code,
         c.home = b.home, c.phis = b.phis,
         \A u, x, v : EntryValue(b, u, x, v) => EntryValue(c, u, x, v)
  PROVE  Laid(c)
<1>1. Linked(c)
  BY DEF Laid, Linked
<1>2. Single(c)
  BY DEF Laid, Single
<1>3. Ordered(c)
  BY DEF Laid, Ordered
<1>4. NewValues(c)
  BY DEF Laid, NewValues
<1>5. Coded(c)
  BY DEF Laid, Coded
<1>6. \A u, x, k, j : LastWrite(c, u, x, k, j) <=> LastWrite(b, u, x, k, j)
  BY DEF LastWrite
<1>7. Stored(c)
  BY <1>6 DEF Laid, Stored
<1>8. Reading(c)
  BY <1>6 DEF Laid, Reading
<1> QED
  BY <1>1, <1>2, <1>3, <1>4, <1>5, <1>7, <1>8 DEF Laid

\* A block whose phis have all their operands is sealed.
LEMMA SealSound ==
  ASSUME NEW b, NEW X, Sound(b, X), NEW blk \in Blocks(b),
         \A p \in X : p \in DOMAIN b.phis => b.home[p] = blk,
         \A p \in DOMAIN b.phis : b.home[p] = blk => Len(b.phis[p].edges) = Len(b.preds[blk]),
         NEW c, c = [b EXCEPT !.sealed = @ \cup {blk}]
  PROVE  Sound(c, {})
<1>0. Typed(b) /\ Laid(b) /\ Known(b, X)
  BY DEF Sound
<1>1. /\ c.blocks = b.blocks /\ c.preds = b.preds /\ c.succs = b.succs
      /\ c.def = b.def /\ c.code = b.code /\ c.sealed = b.sealed \cup {blk}
      /\ c.home = b.home /\ c.phis = b.phis /\ c.incomplete = b.incomplete
      /\ Typed(c) /\ Blocks(c) = Blocks(b)
  BY <1>0, SealedFields DEF Blocks
<1>2. \A u, x, v : EntryValue(b, u, x, v) => EntryValue(c, u, x, v)
  BY <1>1 DEF EntryValue
<1>3. Laid(c)
  BY <1>0, <1>1, <1>2, SameLaid, Zenon
<1>4. Entering(c)
  BY <1>0, <1>1, <1>2, Zenon DEF Known, Entering, Written
<1>5. Operands(c) /\ Numbered(c) /\ Waiting(c)
  <2>1. Operands(c)
    BY <1>0, <1>1 DEF Known, Operands
  <2>2. Numbered(c)
    BY <1>0, <1>1 DEF Known, Numbered
  <2>3. Waiting(c)
    BY <1>0, <1>1 DEF Known, Waiting
  <2> QED
    BY <2>1, <2>2, <2>3
<1>6. Ranked(c)
  BY <1>0, <1>1, Zenon DEF Known, Ranked, Ranks
<1>7. Complete(c, {})
  BY <1>0, <1>1 DEF Known, Complete
<1> QED
  BY <1>1, <1>3, <1>4, <1>5, <1>6, <1>7 DEF Sound, Known

-----------------------------------------------------------------------------
\* sealBlock fills in the phis one after the other, in any order.

\* A block is sealed: the structure is the same, and the blocks without successors
\* have what they had.
IsSealed(b, c, blk) ==
  /\ c.blocks = b.blocks /\ c.preds = b.preds /\ c.succs = b.succs /\ c.code = b.code
  /\ c.sealed = b.sealed \cup {blk} /\ c.cur = b.cur /\ c.stuck = b.stuck
  /\ \A u \in Blocks(b), x \in Names : b.def[u][x] # NoValue => c.def[u][x] = b.def[u][x]
  /\ \A u \in Blocks(b) : b.succs[u] = <<>> =>
       /\ \A x \in Names : c.def[u][x] = b.def[u][x]
       /\ \A v \in DOMAIN c.home : c.home[v] = u => v \in DOMAIN b.home /\ b.home[v] = u

\* What has been done when some phis X of the block are filled.
Sealing(b, blk, X, c) ==
  \/ c.stuck
  \/ /\ Sound(c, X) /\ Kept(b, c, {}, X)
     /\ \A v \in DOMAIN c.home : c.home[v] = blk => v \in DOMAIN b.home

\* X are the phis of the block.
AllPhisAt(b, blk, X) ==
  /\ X = {p \in DOMAIN b.phis : b.home[p] = blk}
  /\ \A p \in X : b.def[blk][b.phis[p].var] # NoValue

\* One phi more has been filled in.
SealingGoes(b, blk, X, c, p, d) ==
  /\ Typed(d) /\ d.blocks = b.blocks /\ Sealing(b, blk, X, d)
  /\ \/ d.stuck
     \/ /\ Len(d.phis[p].edges) = Len(b.preds[blk])
        /\ \A q \in X : q # p => d.phis[q] = c.phis[q]

\* sealBlock goes on to the next phi.
LEMMA SealingStep ==
  ASSUME MaxReads \in Nat, NEW b, Typed(b), Numbered(b), NEW blk \in Blocks(b),
         NEW X, AllPhisAt(b, blk, X),
         NEW c, Typed(c), c.blocks = b.blocks, Sealing(b, blk, X, c), ~c.stuck, NEW p \in X,
         NEW d, d = AddPhiOperands(c, p)
  PROVE  SealingGoes(b, blk, X, c, p, d)
<1>0. Sound(c, X) /\ Kept(b, c, {}, X) /\ \A v \in DOMAIN c.home : c.home[v] = blk => v \in DOMAIN b.home
  BY DEF Sealing
<1>1. /\ p \in DOMAIN b.phis /\ p \in DOMAIN b.home /\ b.home[p] = blk
      /\ b.phis[p].var \in Names /\ b.def[blk][b.phis[p].var] # NoValue
  BY TypedFacts DEF Numbered, AllPhisAt
<1>2. /\ p \in DOMAIN c.phis /\ c.home[p] = blk /\ c.phis[p].var = b.phis[p].var
      /\ c.def[blk][c.phis[p].var] # NoValue /\ c.preds = b.preds
  BY <1>0, <1>1 DEF Kept
<1>3. /\ Typed(d) /\ d.blocks = b.blocks
      /\ d.stuck \/ (Sound(d, X) /\ IsFilled(c, d, p))
  BY <1>0, <1>2, FilledSound
<1>4. CASE d.stuck
  BY <1>3, <1>4 DEF Sealing, SealingGoes
<1>5. CASE ~d.stuck
  <2>1. Sound(d, X) /\ Kept(c, d, {}, {p}) /\ Len(d.phis[p].edges) = Len(b.preds[blk])
        /\ \A v \in DOMAIN d.home : d.home[v] = blk => v \in DOMAIN c.home
    BY <1>2, <1>3, <1>5 DEF IsFilled
  <2>2. Kept(b, d, {}, X)
    <3> DEFINE W == {}
               R == {p}
    <3>1. Kept(c, d, W, R) /\ Kept(b, c, W, X)
      BY <2>1, <1>0
    <3>2. \A u \in Blocks(b) : b.succs[u] = <<>> /\ u \in W => u \in W
      OBVIOUS
    <3>3. \A q \in DOMAIN b.phis : q \in R => q \in X
      OBVIOUS
    <3> HIDE DEF W, R
    <3>4. Kept(b, d, W, X)
      BY <3>1, <3>2, <3>3, <1>3, KeptOnwards
    <3> QED
      BY <3>4 DEF W
  <2>3. \A v \in DOMAIN d.home : d.home[v] = blk => v \in DOMAIN b.home
    BY <2>1, <1>0 DEF Kept
  <2>4. \A q \in X : q # p => d.phis[q] = c.phis[q]
    BY <2>1, <1>0 DEF Kept, AllPhisAt
  <2> QED
    BY <1>3, <2>1, <2>2, <2>3, <2>4 DEF Sealing, SealingGoes
<1> QED
  BY <1>4, <1>5

\* Once all phis of the block have their operands, it can be sealed.
LEMMA SealedSound ==
  ASSUME MaxReads \in Nat, NEW b, Sound(b, {}), NEW blk \in Blocks(b), blk \notin b.sealed,
         NEW c, c = SealBlock(b, blk)
  PROVE  Typed(c) /\ (c.stuck \/ (Sound(c, {}) /\ IsSealed(b, c, blk)))
<1> DEFINE X == {p \in DOMAIN b.phis : b.home[p] = blk}
           n == Len(b.home)
           Z == {d \in Functions(b.blocks) : Typed(d) /\ d.blocks = b.blocks /\ Sealing(b, blk, X, d)}
           Next1(p, d) == IF p \in b.incomplete /\ b.home[p] = blk /\ ~d.stuck
                          THEN AddPhiOperands(d, p) ELSE d
           step == [p \in 1 .. n |-> [d \in Z |-> Next1(p, d)]]
<1>0. Typed(b) /\ Numbered(b) /\ Waiting(b) /\ n \in Nat /\ DOMAIN b.home = 1 .. n
  BY DEF Sound, Known, Typed
<1>1. \A p \in X : /\ b.def[blk][b.phis[p].var] # NoValue /\ p \in b.incomplete
                   /\ p \in 1 .. n /\ b.home[p] = blk
  BY <1>0 DEF Waiting, Numbered
<1>2. \A p \in b.incomplete : b.home[p] = blk => p \in X
  BY <1>0 DEF Numbered
<1> HIDE DEF n
<1>3. \A d : Typed(d) /\ d.blocks = b.blocks /\ Sealing(b, blk, X, d) => d \in Z
  BY FunctionsTyped
<1>4. \A d \in Z : Typed(d) /\ d.blocks = b.blocks /\ Sealing(b, blk, X, d)
  OBVIOUS
<1> HIDE DEF Z
<1>5. ASSUME NEW p \in 1 .. n, NEW d \in Z
      PROVE  /\ Next1(p, d) \in Z
             /\ d.stuck => Next1(p, d).stuck
             /\ p \in X => \/ Next1(p, d).stuck
                           \/ Len(Next1(p, d).phis[p].edges) = Len(b.preds[blk])
             /\ \A q \in X : q # p => Next1(p, d).stuck \/ Next1(p, d).phis[q] = d.phis[q]
  <2>1. CASE p \in X /\ ~d.stuck
    <3>1. Next1(p, d) = AddPhiOperands(d, p)
      BY <2>1, <1>1
    <3> DEFINE e == AddPhiOperands(d, p)
               Y == X
    <3>2. /\ AllPhisAt(b, blk, Y) /\ p \in Y /\ blk \in Blocks(b) /\ Typed(b) /\ Numbered(b)
          /\ MaxReads \in Nat
          /\ Typed(d) /\ d.blocks = b.blocks /\ Sealing(b, blk, Y, d) /\ ~d.stuck
      BY <1>0, <1>1, <1>4, <2>1 DEF AllPhisAt
    <3>3. e = AddPhiOperands(d, p)
      OBVIOUS
    <3> HIDE DEF Y, X, e, Next1, step
    <3>4. SealingGoes(b, blk, Y, d, p, e)
      BY <3>2, <3>3, SealingStep
    <3>5. Next1(p, d) = e
      BY <3>1, <3>3
    <3> QED
      BY <3>4, <3>5, <2>1, <1>3, Zenon DEF Y, SealingGoes
  <2>2. CASE p \notin X \/ d.stuck
    <3>1. Next1(p, d) = d
      BY <2>2, <1>2
    <3> HIDE DEF Next1
    <3> QED
      BY <3>1, <2>2
  <2> QED
    BY <2>1, <2>2
<1>6. step \in [1 .. n -> [Z -> Z]] /\ \A p \in 1 .. n, d \in Z : step[p][d] = Next1(p, d)
  <2> HIDE DEF Next1, X
  <2> QED
    BY <1>5
<1>7. b \in Z
  <2>1. Sound(b, X)
    <3>1. {} \subseteq X
      OBVIOUS
    <3> HIDE DEF X
    <3> QED
      BY <3>1, SoundMore
  <2>2. Kept(b, b, {}, X)
    BY <1>0, KeptSelf
  <2> QED
    BY <2>1, <2>2, <1>0, <1>3 DEF Sealing
<1> HIDE DEF step
<1>8. PICK f \in [0 .. n -> Z] : f[0] = b /\ \A k \in 1 .. n : f[k] = step[k][f[k - 1]]
  <2>1. \E f : IsWalk(f, n, Z, b, step)
    BY <1>0, <1>6, <1>7, RecursionExists
  <2> QED
    BY <2>1, Zenon DEF IsWalk
<1> DEFINE G(g) == [p \in 0 .. n |->
                      IF p = 0 THEN b
                      ELSE LET before == g[p - 1]
                           IN  IF p \in b.incomplete /\ b.home[p] = blk /\ ~before.stuck
                               THEN AddPhiOperands(before, p) ELSE before]
<1>9. f = G(f)
  <2>1. \A k \in 0 .. n : f[k] = IF k = 0 THEN b ELSE Next1(k, f[k - 1])
    <3> SUFFICES ASSUME NEW k \in 0 .. n, k # 0 PROVE f[k] = Next1(k, f[k - 1])
      BY <1>8
    <3>1. k \in 1 .. n /\ k - 1 \in 0 .. n
      BY <1>0
    <3>2. f[k - 1] \in Z
      BY <1>8, <3>1
    <3> HIDE DEF Next1
    <3> QED
      BY <1>6, <1>8, <3>1, <3>2
  <2> QED
    BY <1>8, <2>1
<1> DEFINE h == CHOOSE g : g = G(g)
<1>10. h = G(h)
  <2> HIDE DEF G
  <2> QED
    BY <1>9
<1>11. c = IF b.stuck \/ h[n].stuck THEN Stuck(b) ELSE [h[n] EXCEPT !.sealed = @ \cup {blk}]
  BY DEF SealBlock, n
<1> HIDE DEF h
<1>12. \A k \in 0 .. n : h[k] = IF k = 0 THEN b ELSE Next1(k, h[k - 1])
  BY <1>10, Zenon
<1> HIDE DEF G, Next1
<1> DEFINE Done(k) == h[k].stuck \/ \A p \in X : p <= k => Len(h[k].phis[p].edges) = Len(b.preds[blk])
           S == {k \in 0 .. n : h[k] \in Z /\ Done(k)}
<1>13. \A k \in 0 .. n : k \in S
  <2>1. 0 \in S
    <3>1. h[0] = b /\ 0 \in 0 .. n
      BY <1>0, <1>12
    <3>2. \A p \in X : ~(p <= 0)
      BY <1>0, <1>1
    <3> QED
      BY <3>1, <3>2, <1>7
  <2>2. \A i \in 1 .. n : i - 1 \in S => i \in S
    <3> SUFFICES ASSUME NEW i \in 1 .. n, h[i - 1] \in Z, Done(i - 1) PROVE h[i] \in Z /\ Done(i)
      BY <1>0
    <3>1. h[i] = Next1(i, h[i - 1])
      BY <1>0, <1>12
    <3> DEFINE d == h[i - 1]
    <3>2. /\ h[i] \in Z
          /\ d.stuck => h[i].stuck
          /\ i \in X => h[i].stuck \/ Len(h[i].phis[i].edges) = Len(b.preds[blk])
          /\ \A q \in X : q # i => h[i].stuck \/ h[i].phis[q] = d.phis[q]
      BY <3>1, <1>5
    <3>3. \A p \in X : p <= i => p = i \/ p <= i - 1
      BY <1>0, <1>1
    <3> HIDE DEF X
    <3> QED
      BY <3>2, <3>3
  <2> HIDE DEF S
  <2> QED
    BY <2>1, <2>2, <1>0, Onwards, Zenon
<1> DEFINE d == h[n]
<1>14. d \in Z /\ Done(n)
  BY <1>0, <1>13
<1> HIDE DEF d
<1>15. b.stuck \in BOOLEAN /\ d.stuck \in BOOLEAN /\ Typed(d)
  BY <1>0, <1>4, <1>14, Zenon DEF Typed
<1>16. c = IF b.stuck \/ d.stuck THEN Stuck(b) ELSE [d EXCEPT !.sealed = @ \cup {blk}]
  BY <1>11 DEF d
<1>17. CASE b.stuck \/ d.stuck
  BY <1>0, <1>16, <1>17, StuckFields, Zenon
<1>18. ASSUME b.stuck = FALSE, d.stuck = FALSE
       PROVE  Typed(c) /\ Sound(c, {}) /\ IsSealed(b, c, blk)
  <2>0. c = [d EXCEPT !.sealed = @ \cup {blk}]
    BY <1>18, <1>16
  <2>1. /\ Typed(d) /\ Sound(d, X) /\ Kept(b, d, {}, X)
        /\ \A v \in DOMAIN d.home : d.home[v] = blk => v \in DOMAIN b.home
        /\ \A p \in X : Len(d.phis[p].edges) = Len(b.preds[blk])
    <3>1. \A p \in X : p <= n
      BY <1>0, <1>1
    <3> QED
      BY <3>1, <1>4, <1>14, <1>18 DEF Sealing, d
  <2>2. \A p \in DOMAIN d.phis : d.home[p] = blk <=> p \in X
    <3>1. \A p \in DOMAIN d.phis : d.home[p] = blk => p \in X
      <4> SUFFICES ASSUME NEW p \in DOMAIN d.phis, d.home[p] = blk PROVE p \in X
        OBVIOUS
      <4>1. p \in DOMAIN d.home
        BY <2>1 DEF Sound, Known, Numbered
      <4>2. p \in DOMAIN b.home
        BY <4>1, <2>1
      <4>3. p \in DOMAIN b.phis /\ b.home[p] = blk
        BY <4>2, <2>1 DEF Kept
      <4> QED
        BY <4>3
    <3>2. \A p \in X : d.home[p] = blk
      BY <1>0, <2>1 DEF Kept, Numbered
    <3> QED
      BY <3>1, <3>2
  <2>3. Sound(c, {})
    <3>1. blk \in Blocks(d) /\ d.preds = b.preds
      BY <2>1 DEF Kept, Blocks
    <3>2. \A p \in X : p \in DOMAIN d.phis => d.home[p] = blk
      <4> HIDE DEF X
      <4> QED
        BY <2>2
    <3>3. \A p \in DOMAIN d.phis : d.home[p] = blk => Len(d.phis[p].edges) = Len(d.preds[blk])
      <4> SUFFICES ASSUME NEW p \in DOMAIN d.phis, d.home[p] = blk
                   PROVE  Len(d.phis[p].edges) = Len(d.preds[blk])
        OBVIOUS
      <4> HIDE DEF X
      <4>1. p \in X
        BY <2>2
      <4>2. Len(d.phis[p].edges) = Len(b.preds[blk])
        BY <2>1, <4>1
      <4> QED
        BY <3>1, <4>2
    <3>4. Sound(d, X)
      BY <2>1
    <3> HIDE DEF X
    <3> QED
      BY <3>1, <3>2, <3>3, <3>4, <2>0, SealSound
  <2>4. IsSealed(b, c, blk)
    <3>1. /\ c.blocks = d.blocks /\ c.preds = d.preds /\ c.succs = d.succs
          /\ c.def = d.def /\ c.code = d.code /\ c.sealed = d.sealed \cup {blk}
          /\ c.home = d.home /\ c.cur = d.cur /\ c.stuck = d.stuck
      <4>1. blk \in Blocks(d)
        BY <2>1 DEF Kept, Blocks
      <4> QED
        BY <4>1, <2>0, <2>1, SealedFields
    <3>2. Kept(b, d, {}, X)
      BY <2>1
    <3> HIDE DEF X
    <3> QED
      BY <3>1, <3>2 DEF Kept, IsSealed
  <2> QED
    BY <2>3, <2>4 DEF Sound
<1> QED
  BY <1>18, <1>15, <1>17, Zenon

-----------------------------------------------------------------------------
\* More blocks.

\* Nothing is known of a variable in the block, and no value stands there.
Blank(b, u) ==
  /\ \A x \in Names : b.def[u][x] = NoValue
  /\ \A v \in DOMAIN b.home : b.home[v] # u

\* Where the builder stands is no part of soundness.
LEMMA GotoSound ==
  ASSUME NEW b, Sound(b, {}), NEW blk \in Blocks(b)
  PROVE  Sound(Goto(b, blk), {})
<1> DEFINE c == Goto(b, blk)
<1>0. Typed(b)
  BY DEF Sound
<1>1. /\ c.blocks = b.blocks /\ c.preds = b.preds /\ c.succs = b.succs
      /\ c.def = b.def /\ c.code = b.code /\ c.sealed = b.sealed /\ c.home = b.home
      /\ c.phis = b.phis /\ c.incomplete = b.incomplete /\ Typed(c)
  BY <1>0, GotoFields
<1> HIDE DEF c
<1>2. Blocks(c) = Blocks(b)
  BY <1>1 DEF Blocks
<1>3. \A u, x, v : EntryValue(c, u, x, v) <=> EntryValue(b, u, x, v)
  BY <1>1 DEF EntryValue
<1>4. Laid(c)
  <2>1. Linked(c)
    BY <1>1, <1>2 DEF Sound, Laid, Linked
  <2>2. Stored(c)
    BY <1>1, <1>2 DEF Sound, Laid, Stored, LastWrite
  <2>3. Single(c) /\ Ordered(c)
    BY <1>1, <1>2 DEF Sound, Laid, Single, Ordered
  <2>4. NewValues(c) /\ Coded(c)
    BY <1>1, <1>2 DEF Sound, Laid, NewValues, Coded
  <2>5. Reading(c)
    <3>1. Reading(b)
      BY DEF Sound, Laid
    <3>2. \A u, x, k, j : LastWrite(c, u, x, k, j) <=> LastWrite(b, u, x, k, j)
      BY <1>1 DEF LastWrite
    <3> QED
      BY <1>1, <1>2, <1>3, <3>1, <3>2 DEF Reading
  <2> QED
    BY <2>1, <2>2, <2>3, <2>4, <2>5 DEF Laid
<1>5. Known(c, {})
  <2>1. Entering(c)
    BY <1>1, <1>2, <1>3, SMTT(30) DEF Sound, Known, Entering, Written
  <2>2. Operands(c)
    BY <1>1, <1>2 DEF Sound, Known, Operands
  <2>5. Complete(c, {})
    BY <1>1, <1>2 DEF Sound, Known, Complete
  <2>3. Waiting(c) /\ Numbered(c)
    BY <1>1, <1>2 DEF Sound, Known, Waiting, Numbered
  <2>4. Ranked(c)
    BY <1>1, <1>2 DEF Sound, Known, Ranked, Ranks
  <2> QED
    BY <2>1, <2>2, <2>3, <2>4, <2>5 DEF Known
<1> QED
  BY <1>1, <1>4, <1>5 DEF Sound, c

\* The function c is b with some blocks more.
Extends(b, c) ==
  /\ b.blocks \in Nat /\ c.blocks \in Nat /\ b.blocks <= c.blocks
  /\ \A u \in Blocks(b) : /\ u \in Blocks(c) /\ c.preds[u] = b.preds[u] /\ c.succs[u] = b.succs[u]
                          /\ c.def[u] = b.def[u] /\ c.code[u] = b.code[u]
  /\ \A u \in Blocks(c) : u \notin Blocks(b) =>
       /\ c.preds[u] = <<>> /\ c.succs[u] = <<>> /\ c.code[u] = <<>>
       /\ \A x \in Names : c.def[u][x] = NoValue
  /\ c.sealed = b.sealed /\ c.home = b.home /\ c.phis = b.phis /\ c.incomplete = b.incomplete
  /\ c.cur = b.cur /\ c.stuck = b.stuck /\ Typed(c)

\* New blocks are empty and have no edges.
LEMMA BlocksExtend ==
  ASSUME NEW b, Typed(b), NEW n \in Nat
  PROVE  Extends(b, NewBlocks(b, n)) /\ NewBlocks(b, n).blocks = b.blocks + n
<1> DEFINE c == NewBlocks(b, n)
           all == 1 .. b.blocks + n
<1>1. /\ c.blocks = b.blocks + n
      /\ c.preds = [u \in all |-> IF u \in Blocks(b) THEN b.preds[u] ELSE <<>>]
      /\ c.succs = [u \in all |-> IF u \in Blocks(b) THEN b.succs[u] ELSE <<>>]
      /\ c.def = [u \in all |-> IF u \in Blocks(b) THEN b.def[u] ELSE [x \in Names |-> NoValue]]
      /\ c.code = [u \in all |-> IF u \in Blocks(b) THEN b.code[u] ELSE <<>>]
      /\ c.sealed = b.sealed /\ c.home = b.home
      /\ c.phis = b.phis /\ c.incomplete = b.incomplete /\ c.cur = b.cur /\ c.stuck = b.stuck
      /\ Typed(c)
  BY BlocksFields, Zenon
<1> HIDE DEF c
<1>2. /\ b.blocks \in Nat /\ b.blocks <= b.blocks + n /\ Blocks(b) \subseteq all
      /\ Blocks(c) = all
  BY <1>1 DEF Typed, Blocks
<1> HIDE DEF all
<1>3. \A u \in Blocks(b) : /\ u \in Blocks(c) /\ c.preds[u] = b.preds[u] /\ c.succs[u] = b.succs[u]
                          /\ c.def[u] = b.def[u] /\ c.code[u] = b.code[u]
  BY <1>1, <1>2
<1>4. \A u \in Blocks(c) : u \notin Blocks(b) =>
       /\ c.preds[u] = <<>> /\ c.succs[u] = <<>> /\ c.code[u] = <<>>
       /\ \A x \in Names : c.def[u][x] = NoValue
  BY <1>1, <1>2
<1> QED
  BY <1>1, <1>2, <1>3, <1>4, Zenon DEF Extends, c, Typed

\* They keep the function sound.
LEMMA BlocksSound ==
  ASSUME NEW b, NEW c, Sound(b, {}), Extends(b, c)
  PROVE  Sound(c, {})
<1>0. Typed(b) /\ Laid(b) /\ Known(b, {}) /\ Numbered(b)
  BY DEF Sound, Known
<1>1. /\ \A u \in Blocks(b) : /\ u \in Blocks(c) /\ c.preds[u] = b.preds[u] /\ c.succs[u] = b.succs[u]
                              /\ c.def[u] = b.def[u] /\ c.code[u] = b.code[u]
      /\ \A u \in Blocks(c) : u \notin Blocks(b) =>
           /\ c.preds[u] = <<>> /\ c.succs[u] = <<>> /\ c.code[u] = <<>>
           /\ \A x \in Names : c.def[u][x] = NoValue
      /\ c.sealed = b.sealed /\ c.home = b.home /\ c.phis = b.phis /\ c.incomplete = b.incomplete
  BY DEF Extends
<1>2. /\ \A u \in Blocks(b) :
           /\ \A k \in DOMAIN b.preds[u] : b.preds[u][k] \in Blocks(b)
           /\ \A k \in DOMAIN b.succs[u] : b.succs[u][k] \in Blocks(b)
           /\ b.preds[u] \in Seq(Blocks(b))
      /\ \A v \in DOMAIN b.home : b.home[v] \in Blocks(b)
      /\ \A q \in DOMAIN b.phis : q \in DOMAIN b.home /\ b.phis[q].var \in Names
  BY <1>0, TypedFacts DEF Numbered
<1>3. ASSUME NEW u \in Blocks(b), NEW x \in Names, NEW v, EntryValue(b, u, x, v)
      PROVE  EntryValue(c, u, x, v)
  <2>1. CASE v \in DOMAIN b.phis /\ b.home[v] = u /\ b.phis[v].var = x
    BY <2>1, <1>1 DEF EntryValue
  <2>2. CASE u \in b.sealed /\ Len(b.preds[u]) = 1 /\ v # NoValue /\ b.def[b.preds[u][1]][x] = v
    <3>1. 1 \in DOMAIN b.preds[u]
      <4> DEFINE T == Blocks(b)
      <4>1. b.preds[u] \in Seq(T)
        BY <1>2
      <4> HIDE DEF T
      <4> QED
        BY <2>2, <4>1
    <3>2. b.preds[u][1] \in Blocks(b)
      BY <3>1, <1>2
    <3> QED
      BY <2>2, <3>2, <1>1 DEF EntryValue
  <2> QED
    BY <2>1, <2>2, <1>3 DEF EntryValue
<1>4. Linked(c)
  <2>1. ASSUME NEW u \in Blocks(c), NEW k \in DOMAIN c.preds[u]
        PROVE  c.succs[c.preds[u][k]] # <<>>
    <3>1. u \in Blocks(b) /\ c.preds[u] = b.preds[u]
      <4>1. c.preds[u] # <<>>
        OBVIOUS
      <4> QED
        BY <4>1, <1>1
    <3>2. b.preds[u][k] \in Blocks(b) /\ b.succs[b.preds[u][k]] # <<>>
      BY <3>1, <1>0, <1>2 DEF Laid, Linked
    <3> QED
      BY <3>1, <3>2, <1>1
  <2>2. ASSUME NEW u \in Blocks(c), NEW k \in DOMAIN c.succs[u]
        PROVE  \E m \in DOMAIN c.preds[c.succs[u][k]] : c.preds[c.succs[u][k]][m] = u
    <3>1. u \in Blocks(b) /\ c.succs[u] = b.succs[u]
      <4>1. c.succs[u] # <<>>
        OBVIOUS
      <4> QED
        BY <4>1, <1>1
    <3>2. b.succs[u][k] \in Blocks(b)
      BY <3>1, <1>2
    <3>3. \E m \in DOMAIN b.preds[b.succs[u][k]] : b.preds[b.succs[u][k]][m] = u
      BY <3>1, <1>0 DEF Laid, Linked
    <3> QED
      BY <3>1, <3>2, <3>3, <1>1
  <2> QED
    BY <2>1, <2>2 DEF Linked
<1>5. Stored(c)
  <2> SUFFICES ASSUME NEW u \in Blocks(c), NEW x \in Names, NEW j \in Nat,
                      LastWrite(c, u, x, Len(c.code[u]) + 1, j)
               PROVE  c.def[u][x] = c.code[u][j].val
    BY DEF Stored
  <2>1. u \in Blocks(b)
    <3>1. j \in DOMAIN c.code[u]
      BY DEF LastWrite
    <3>2. c.code[u] # <<>>
      BY <3>1
    <3> QED
      BY <3>2, <1>1
  <2>2. LastWrite(b, u, x, Len(b.code[u]) + 1, j)
    BY <2>1, <1>1 DEF LastWrite
  <2> QED
    BY <2>1, <2>2, <1>0, <1>1 DEF Laid, Stored
<1>6. \A u \in Blocks(c) : \A k \in DOMAIN c.code[u] : u \in Blocks(b) /\ c.code[u] = b.code[u]
  <2> SUFFICES ASSUME NEW u \in Blocks(c), NEW k \in DOMAIN c.code[u] PROVE u \in Blocks(b)
    BY <1>1
  <2>1. c.code[u] # <<>>
    OBVIOUS
  <2> QED
    BY <2>1, <1>1
<1>7. Reading(c)
  <2> SUFFICES ASSUME NEW u \in Blocks(c), NEW k \in DOMAIN c.code[u],
                      NEW x \in c.code[u][k].reads
               PROVE  /\ \A j \in Nat : LastWrite(c, u, x, k, j)
                           => c.code[u][k].val = c.code[u][j].val
                      /\ \/ \E j \in DOMAIN c.code[u] : j < k /\ x \in c.code[u][j].writes
                         \/ EntryValue(c, u, x, c.code[u][k].val)
    BY DEF Reading
  <2>1. u \in Blocks(b) /\ c.code[u] = b.code[u]
    BY <1>6
  <2>2. \A j \in Nat : LastWrite(c, u, x, k, j) => LastWrite(b, u, x, k, j)
    BY <2>1 DEF LastWrite
  <2>3. x \in Names
    BY <2>1, <1>0, TypedFacts
  <2>4. EntryValue(b, u, x, b.code[u][k].val) => EntryValue(c, u, x, b.code[u][k].val)
    BY <2>1, <2>3, <1>3
  <2> QED
    BY <2>1, <2>2, <2>4, <1>0 DEF Laid, Reading
<1>8. Single(c) /\ Ordered(c)
  BY <1>0, <1>6 DEF Laid, Single, Ordered
<1>9. NewValues(c) /\ Coded(c)
  BY <1>0, <1>1, <1>6 DEF Laid, NewValues, Coded
<1>10. Entering(c)
  <2> SUFFICES ASSUME NEW u \in Blocks(c), NEW x \in Names, c.def[u][x] # NoValue
               PROVE  Written(c, u, x) \/ EntryValue(c, u, x, c.def[u][x])
    BY SMTT(30) DEF Entering
  <2>1. u \in Blocks(b)
    BY <1>1, SMTT(30)
  <2> QED
    BY <2>1, <1>0, <1>1, <1>3 DEF Known, Entering, Written
<1>11. Operands(c)
  <2> SUFFICES ASSUME NEW q \in DOMAIN b.phis, NEW k \in DOMAIN b.phis[q].edges
               PROVE  /\ k \in DOMAIN c.preds[b.home[q]]
                      /\ b.phis[q].edges[k].from = c.preds[b.home[q]][k]
                      /\ b.phis[q].edges[k].val # NoValue
                      /\ b.phis[q].edges[k].val = c.def[c.preds[b.home[q]][k]][b.phis[q].var]
    BY <1>1, SMTT(30) DEF Operands
  <2>1. /\ k \in DOMAIN b.preds[b.home[q]]
        /\ b.phis[q].edges[k].from = b.preds[b.home[q]][k]
        /\ b.phis[q].edges[k].val # NoValue
        /\ b.phis[q].edges[k].val = b.def[b.preds[b.home[q]][k]][b.phis[q].var]
    BY <1>0, SMTT(30) DEF Known, Operands
  <2>2. b.home[q] \in Blocks(b) /\ c.preds[b.home[q]] = b.preds[b.home[q]]
    BY <1>1, <1>2, SMTT(30)
  <2>3. b.preds[b.home[q]][k] \in Blocks(b)
    BY <2>1, <2>2, <1>2, Zenon
  <2> QED
    BY <2>1, <2>2, <2>3, <1>1, ZenonT(30)
<1>12. Complete(c, {})
  BY <1>0, <1>1, <1>2 DEF Known, Complete
<1>13. Waiting(c)
  BY <1>0, <1>1, <1>2 DEF Known, Waiting
<1>14. Numbered(c)
  <2>1. \A u \in Blocks(c), x \in Names : c.def[u][x] \in DOMAIN c.home \cup {NoValue}
    BY <1>0, <1>1 DEF Numbered
  <2> QED
    BY <2>1, <1>0, <1>1 DEF Numbered
<1>15. Ranked(c)
  <2>1. PICK r \in [Blocks(b) -> Nat] : Ranks(b, r)
    BY <1>0 DEF Known, Ranked
  <2> DEFINE s == [u \in Blocks(c) |-> IF u \in Blocks(b) THEN r[u] ELSE 0]
  <2>2. s \in [Blocks(c) -> Nat]
    BY <2>1
  <2>3. \A u \in Blocks(b) : s[u] = r[u]
    BY <1>1
  <2> HIDE DEF s
  <2>4. ASSUME NEW u \in Blocks(c), c.preds[u] # <<>> PROVE s[c.preds[u][1]] < s[u]
    <3>1. u \in Blocks(b) /\ c.preds[u] = b.preds[u]
      BY <2>4, <1>1
    <3>2. b.preds[u][1] \in Blocks(b)
      <4>1. 1 \in DOMAIN b.preds[u]
        <5> DEFINE T == Blocks(b)
        <5>1. b.preds[u] \in Seq(T) /\ b.preds[u] # <<>>
          BY <2>4, <3>1, <1>2
        <5> HIDE DEF T
        <5> QED
          BY <5>1
      <4> QED
        BY <4>1, <3>1, <1>2
    <3> QED
      BY <2>1, <2>3, <2>4, <3>1, <3>2 DEF Ranks
  <2>5. ASSUME NEW u \in Blocks(c), NEW x \in Names, c.def[u][x] # NoValue
        PROVE  s[c.home[c.def[u][x]]] <= s[u]
    <3>1. u \in Blocks(b) /\ c.def[u][x] = b.def[u][x]
      BY <2>5, <1>1
    <3>2. b.def[u][x] \in DOMAIN b.home
      BY <3>1, <2>5, <1>0 DEF Numbered
    <3> QED
      BY <2>1, <2>3, <2>5, <3>1, <3>2, <1>1, <1>2 DEF Ranks
  <2> QED
    BY <2>2, <2>4, <2>5 DEF Ranked, Ranks
<1>16. Typed(c)
  BY DEF Extends
<1> QED
  BY <1>4, <1>5, <1>7, <1>8, <1>9, <1>10, <1>11, <1>12, <1>13, <1>14, <1>15, <1>16 DEF Sound, Laid, Known

-----------------------------------------------------------------------------
\* An edge.

\* The edge is there, after the others of its two blocks.
Edged(b, c, from, to) ==
  /\ c.blocks = b.blocks
  /\ \A u \in Blocks(b) : u # to => c.preds[u] = b.preds[u]
  /\ \A u \in Blocks(b) : u # from => c.succs[u] = b.succs[u]
  /\ c.preds[to] = Append(b.preds[to], from) /\ c.succs[from] = Append(b.succs[from], to)
  /\ c.preds[to] # <<>> /\ c.succs[from] # <<>>
  /\ c.def = b.def /\ c.code = b.code /\ c.sealed = b.sealed /\ c.home = b.home
  /\ c.phis = b.phis /\ c.incomplete = b.incomplete /\ c.cur = b.cur /\ c.stuck = b.stuck
  /\ Typed(c)

\* What addEdge does.
LEMMA EdgeMade ==
  ASSUME NEW b, Typed(b), NEW from \in Blocks(b), NEW to \in Blocks(b)
  PROVE  Edged(b, AddEdge(b, from, to), from, to)
<1> DEFINE c == AddEdge(b, from, to)
           T == Blocks(b)
<1>1. /\ c.blocks = b.blocks /\ c.preds = [b.preds EXCEPT ![to] = Append(@, from)]
      /\ c.succs = [b.succs EXCEPT ![from] = Append(@, to)]
      /\ c.def = b.def /\ c.code = b.code /\ c.sealed = b.sealed /\ c.home = b.home
      /\ c.phis = b.phis /\ c.incomplete = b.incomplete /\ c.cur = b.cur /\ c.stuck = b.stuck
      /\ Typed(c)
  BY EdgeFields, Zenon
<1> HIDE DEF c
<1>2. b.preds \in [T -> Seq(T)] /\ b.succs \in [T -> Seq(T)] /\ from \in T /\ to \in T
  BY Zenon DEF Typed, Blocks
<1> HIDE DEF T
<1>3. /\ \A u \in T : u # to => c.preds[u] = b.preds[u]
      /\ \A u \in T : u # from => c.succs[u] = b.succs[u]
      /\ c.preds[to] = Append(b.preds[to], from) /\ c.succs[from] = Append(b.succs[from], to)
  BY <1>1, <1>2, Zenon
<1>4. \A q \in Seq(T), e \in T : Append(q, e) # <<>>
  <2> SUFFICES ASSUME NEW q \in Seq(T), NEW e \in T PROVE Append(q, e) # <<>>
    OBVIOUS
  <2>1. IsLast(T, q, e, Append(q, e))
    BY LastFacts
  <2> QED
    BY <2>1 DEF IsLast
<1>5. c.preds[to] # <<>> /\ c.succs[from] # <<>>
  BY <1>2, <1>3, <1>4, Zenon
<1> QED
  BY <1>1, <1>3, <1>5 DEF Edged, T, c

\* An edge may be added to a block that is not sealed.
LEMMA EdgeSound ==
  ASSUME NEW b, NEW c, Sound(b, {}), NEW from \in Blocks(b), NEW to \in Blocks(b),
         Edged(b, c, from, to), to \notin b.sealed,
         b.preds[to] = <<>> => Blank(b, to) /\ b.succs[to] = <<>> /\ to # from
  PROVE  Sound(c, {})
<1>0. Typed(b) /\ Laid(b) /\ Known(b, {}) /\ Numbered(b)
  BY DEF Sound, Known
<1>1. /\ Blocks(c) = Blocks(b)
      /\ \A u \in Blocks(b) : u # to => c.preds[u] = b.preds[u]
      /\ \A u \in Blocks(b) : u # from => c.succs[u] = b.succs[u]
      /\ c.preds[to] = Append(b.preds[to], from) /\ c.succs[from] = Append(b.succs[from], to)
      /\ c.preds[to] # <<>> /\ c.succs[from] # <<>>
      /\ c.def = b.def /\ c.code = b.code /\ c.sealed = b.sealed /\ c.home = b.home
      /\ c.phis = b.phis /\ c.incomplete = b.incomplete /\ Typed(c)
  BY DEF Edged, Blocks
<1>2. /\ \A u \in Blocks(b) :
           /\ \A k \in DOMAIN b.preds[u] : b.preds[u][k] \in Blocks(b)
           /\ \A k \in DOMAIN b.succs[u] : b.succs[u][k] \in Blocks(b)
           /\ b.preds[u] \in Seq(Blocks(b)) /\ b.succs[u] \in Seq(Blocks(b))
      /\ \A v \in DOMAIN b.home : b.home[v] \in Blocks(b)
      /\ \A q \in DOMAIN b.phis : q \in DOMAIN b.home /\ b.phis[q].var \in Names
  BY <1>0, TypedFacts DEF Numbered
<1>3. \A T : \A q \in Seq(T), e \in T :
        /\ Len(q) \in Nat
        /\ \A k \in DOMAIN q : k \in DOMAIN Append(q, e) /\ Append(q, e)[k] = q[k]
        /\ \A k \in DOMAIN Append(q, e) :
             k \in DOMAIN q \/ (k = Len(q) + 1 /\ Append(q, e)[k] = e)
        /\ Len(q) + 1 \in DOMAIN Append(q, e) /\ Append(q, e)[Len(q) + 1] = e
        /\ q # <<>> => 1 \in DOMAIN q
        /\ q = <<>> => Append(q, e)[1] = e
  OBVIOUS
<1>4. /\ \A k \in DOMAIN b.preds[to] : k \in DOMAIN c.preds[to] /\ c.preds[to][k] = b.preds[to][k]
      /\ \A k \in DOMAIN c.preds[to] :
           \/ k \in DOMAIN b.preds[to]
           \/ c.preds[to][k] = from
      /\ \E k \in DOMAIN c.preds[to] : c.preds[to][k] = from
      /\ b.preds[to] # <<>> => 1 \in DOMAIN b.preds[to]
      /\ b.preds[to] = <<>> => c.preds[to][1] = from
  BY <1>1, <1>2, <1>3, SMTT(30)
<1>5. /\ \A k \in DOMAIN c.succs[from] :
           \/ k \in DOMAIN b.succs[from] /\ c.succs[from][k] = b.succs[from][k]
           \/ c.succs[from][k] = to
  BY <1>1, <1>2, <1>3
<1>6. \A u, x, v : EntryValue(b, u, x, v) => EntryValue(c, u, x, v)
  BY <1>0, <1>1, Zenon DEF EntryValue, Typed, Blocks
<1>7. Linked(c)
  <2>1. ASSUME NEW u \in Blocks(b), NEW k \in DOMAIN c.preds[u]
        PROVE  c.succs[c.preds[u][k]] # <<>>
    <3>1. CASE c.preds[u][k] = from
      BY <3>1, <1>1
    <3>2. CASE c.preds[u][k] # from
      <4>1. k \in DOMAIN b.preds[u] /\ c.preds[u][k] = b.preds[u][k]
        BY <2>1, <3>2, <1>1, <1>4, ZenonT(30)
      <4>2. b.succs[b.preds[u][k]] # <<>> /\ b.preds[u][k] \in Blocks(b)
        BY <4>1, <1>0, <1>2 DEF Laid, Linked
      <4> QED
        BY <3>2, <4>1, <4>2, <1>1
    <3> QED
      BY <3>1, <3>2
  <2>2. ASSUME NEW u \in Blocks(b), NEW k \in DOMAIN c.succs[u]
        PROVE  \E m \in DOMAIN c.preds[c.succs[u][k]] : c.preds[c.succs[u][k]][m] = u
    <3>1. CASE u = from /\ c.succs[u][k] = to
      BY <3>1, <1>4
    <3>2. CASE u # from \/ c.succs[u][k] # to
      <4>1. k \in DOMAIN b.succs[u] /\ c.succs[u][k] = b.succs[u][k]
        BY <2>2, <3>2, <1>1, <1>5, Zenon
      <4>2. PICK m \in DOMAIN b.preds[b.succs[u][k]] : b.preds[b.succs[u][k]][m] = u
        BY <4>1, <1>0 DEF Laid, Linked
      <4>3. b.succs[u][k] \in Blocks(b)
        BY <4>1, <1>2
      <4>4. CASE b.succs[u][k] = to
        BY <4>1, <4>2, <4>4, <1>4
      <4>5. CASE b.succs[u][k] # to
        BY <4>1, <4>2, <4>3, <4>5, <1>1
      <4> QED
        BY <4>4, <4>5
    <3> QED
      BY <3>1, <3>2
  <2> QED
    BY <2>1, <2>2, <1>1 DEF Linked
<1>8. Stored(c)
  BY <1>0, <1>1, SMTT(30) DEF Laid, Stored, LastWrite
<1>9. Single(c) /\ Ordered(c)
  BY <1>0, <1>1 DEF Laid, Single, Ordered
<1>10. NewValues(c) /\ Coded(c)
  BY <1>0, <1>1 DEF Laid, NewValues, Coded
<1>11. Reading(c)
  <2>1. Reading(b)
    BY <1>0 DEF Laid
  <2>2. \A u, x, k, j : LastWrite(c, u, x, k, j) <=> LastWrite(b, u, x, k, j)
    BY <1>1, SMTT(30) DEF LastWrite
  <2> QED
    BY <1>1, <1>6, <2>1, <2>2 DEF Reading
<1>12. Entering(c)
  BY <1>0, <1>1, <1>6, SMTT(30) DEF Known, Entering, Written
<1>13. Operands(c)
  <2> SUFFICES ASSUME NEW q \in DOMAIN b.phis, NEW k \in DOMAIN b.phis[q].edges
               PROVE  /\ k \in DOMAIN c.preds[b.home[q]]
                      /\ b.phis[q].edges[k].from = c.preds[b.home[q]][k]
                      /\ b.phis[q].edges[k].val # NoValue
                      /\ b.phis[q].edges[k].val = b.def[c.preds[b.home[q]][k]][b.phis[q].var]
    BY <1>1, SMTT(30) DEF Operands
  <2>1. /\ k \in DOMAIN b.preds[b.home[q]]
        /\ b.phis[q].edges[k].from = b.preds[b.home[q]][k]
        /\ b.phis[q].edges[k].val # NoValue
        /\ b.phis[q].edges[k].val = b.def[b.preds[b.home[q]][k]][b.phis[q].var]
    BY <1>0, SMTT(30) DEF Known, Operands
  <2>2. k \in DOMAIN c.preds[b.home[q]] /\ c.preds[b.home[q]][k] = b.preds[b.home[q]][k]
    BY <2>1, <1>1, <1>2, <1>4, ZenonT(30)
  <2> QED
    BY <2>1, <2>2, ZenonT(30)
<1>14. Complete(c, {})
  <2> SUFFICES ASSUME NEW q \in DOMAIN b.phis
               PROVE  /\ b.home[q] \in b.sealed => Len(b.phis[q].edges) = Len(c.preds[b.home[q]])
                      /\ b.home[q] \notin b.sealed => b.phis[q].edges = <<>>
    BY <1>1 DEF Complete
  <2> QED
    BY <1>0, <1>1, <1>2, Zenon DEF Known, Complete
<1>15. Waiting(c)
  BY <1>0, <1>1 DEF Known, Waiting
<1>16. Numbered(c)
  BY <1>0, <1>1 DEF Numbered
<1>17. Ranked(c)
  <2>1. PICK r \in [Blocks(b) -> Nat] : Ranks(b, r)
    BY <1>0 DEF Known, Ranked
  <2>2. \A u \in Blocks(b) : b.preds[u] # <<>> => 1 \in DOMAIN b.preds[u] /\ b.preds[u][1] \in Blocks(b)
    BY <1>2, <1>3
  <2>3. CASE b.preds[to] # <<>>
    <3>1. c.preds[to][1] = b.preds[to][1]
      BY <2>3, <1>4
    <3>2. Ranks(c, r)
      BY <2>1, <2>3, <3>1, <1>1, Zenon DEF Ranks
    <3> QED
      BY <3>2, <1>1 DEF Ranked
  <2>4. CASE b.preds[to] = <<>>
    <3> DEFINE s == [u \in Blocks(b) |-> IF u = to THEN r[from] + 1 ELSE r[u]]
    <3>1. s \in [Blocks(b) -> Nat] /\ s[to] = r[from] + 1
          /\ \A u \in Blocks(b) : (u # to => s[u] = r[u]) /\ r[u] \in Nat
      BY <2>1
    <3> HIDE DEF s
    <3>2. Blank(b, to) /\ b.succs[to] = <<>> /\ to # from /\ c.preds[to][1] = from
      BY <2>4, <1>4
    <3>3. ASSUME NEW u \in Blocks(b), c.preds[u] # <<>> PROVE s[c.preds[u][1]] < s[u]
      <4>1. CASE u = to
        BY <4>1, <3>1, <3>2
      <4>2. CASE u # to
        <5>1. c.preds[u] = b.preds[u]
          BY <4>2, <1>1
        <5>2. 1 \in DOMAIN b.preds[u] /\ b.preds[u][1] \in Blocks(b)
          BY <3>3, <5>1, <2>2
        <5>3. b.preds[u][1] # to
          BY <5>2, <3>2, <1>0 DEF Laid, Linked
        <5> QED
          BY <3>1, <3>3, <4>2, <5>1, <5>2, <5>3, <2>1 DEF Ranks
      <4> QED
        BY <4>1, <4>2
    <3>4. ASSUME NEW u \in Blocks(b), NEW x \in Names, b.def[u][x] # NoValue
          PROVE  s[b.home[b.def[u][x]]] <= s[u]
      <4>1. b.def[u][x] \in DOMAIN b.home
        BY <3>4, <1>0 DEF Numbered
      <4>2. b.home[b.def[u][x]] # to /\ u # to
        BY <3>2, <3>4, <4>1 DEF Blank
      <4> QED
        BY <2>1, <3>1, <3>4, <4>1, <4>2, <1>2 DEF Ranks
    <3>5. Ranks(c, s)
      BY <3>3, <3>4, <1>1 DEF Ranks
    <3> QED
      BY <3>1, <3>5, <1>1 DEF Ranked
  <2> QED
    BY <2>3, <2>4
<1> QED
  BY <1>1, <1>7, <1>8, <1>9, <1>10, <1>11, <1>12, <1>13, <1>14, <1>15, <1>16, <1>17
     DEF Sound, Laid, Known

-----------------------------------------------------------------------------
\* An instruction.

\* What an instruction of the current block may be.
Fitting(b, a) ==
  /\ a \in Steps /\ a.val \in DOMAIN b.home
  /\ \A x, y \in a.reads : x = y
  /\ \A x \in a.reads : a.val = b.def[b.cur][x]
  /\ a.reads = {} => /\ a.val \notin DOMAIN b.phis /\ b.home[a.val] = b.cur
                     /\ \A k \in DOMAIN b.code[b.cur] : b.code[b.cur][k].val < a.val
  /\ b.succs[b.cur] = <<>> \/ a.writes = {}

\* The instruction is there, and the variables it writes have its value.
Performs(b, c, a) ==
  /\ c.blocks = b.blocks /\ c.preds = b.preds /\ c.succs = b.succs
  /\ \A u \in Blocks(b) : u # b.cur => c.code[u] = b.code[u] /\ c.def[u] = b.def[u]
  /\ IsLast(Steps, b.code[b.cur], a, c.code[b.cur])
  /\ \A x \in Names : c.def[b.cur][x] = IF x \in a.writes THEN a.val ELSE b.def[b.cur][x]
  /\ c.sealed = b.sealed /\ c.home = b.home
  /\ c.phis = b.phis /\ c.incomplete = b.incomplete /\ c.cur = b.cur /\ c.stuck = b.stuck
  /\ Typed(c)

\* What an instruction does.
LEMMA PerformMade ==
  ASSUME NEW b, Typed(b), NEW a \in Steps
  PROVE  Performs(b, Perform(b, a), a)
<1> DEFINE c == Perform(b, a)
           T == Blocks(b)
           row == [x \in Names |-> IF x \in a.writes THEN a.val ELSE b.def[b.cur][x]]
<1>1. /\ c.blocks = b.blocks /\ c.preds = b.preds /\ c.succs = b.succs
      /\ c.code = [b.code EXCEPT ![b.cur] = Append(@, a)]
      /\ c.def = [b.def EXCEPT ![b.cur] = row]
      /\ c.sealed = b.sealed /\ c.home = b.home
      /\ c.phis = b.phis /\ c.incomplete = b.incomplete /\ c.cur = b.cur /\ c.stuck = b.stuck
      /\ Typed(c)
  BY PerformFields
<1> HIDE DEF c
<1>2. b.code \in [T -> Seq(Steps)] /\ b.cur \in T /\ b.def \in [T -> [Names -> Nat]]
  BY DEF Typed, Blocks
<1> HIDE DEF T
<1>3. IsLast(Steps, b.code[b.cur], a, Append(b.code[b.cur], a))
  BY <1>2, LastFacts
<1>4. \A x \in Names : row[x] = IF x \in a.writes THEN a.val ELSE b.def[b.cur][x]
  OBVIOUS
<1> HIDE DEF row
<1>5. /\ \A u \in T : u # b.cur => c.code[u] = b.code[u] /\ c.def[u] = b.def[u]
      /\ c.code[b.cur] = Append(b.code[b.cur], a) /\ c.def[b.cur] = row
  BY <1>1, <1>2
<1> QED
  BY <1>1, <1>3, <1>4, <1>5 DEF Performs, T, c

\* An instruction that reads what its block knows, or computes a new value, keeps the
\* function sound; after the block's terminator it may not write.
LEMMA PerformSound ==
  ASSUME NEW b, NEW c, NEW a, Sound(b, {}), Fitting(b, a), Performs(b, c, a)
  PROVE  Sound(c, {})
<1> DEFINE cur == b.cur
           old == b.code[cur]
           new == c.code[cur]
           n == Len(new)
<1>0. Typed(b) /\ Laid(b) /\ Known(b, {}) /\ Numbered(b)
  BY DEF Sound, Known
<1>1. /\ Blocks(c) = Blocks(b) /\ c.preds = b.preds /\ c.succs = b.succs
      /\ \A u \in Blocks(b) : u # cur => c.code[u] = b.code[u] /\ c.def[u] = b.def[u]
      /\ \A x \in Names : c.def[cur][x] = IF x \in a.writes THEN a.val ELSE b.def[cur][x]
      /\ c.sealed = b.sealed /\ c.home = b.home
      /\ c.phis = b.phis /\ c.incomplete = b.incomplete /\ Typed(c)
  BY DEF Performs, Blocks
<1>2. /\ n = Len(old) + 1 /\ Len(old) \in Nat /\ n \in DOMAIN new /\ new[n] = a
      /\ \A i \in DOMAIN old : i \in DOMAIN new /\ new[i] = old[i] /\ i <= Len(old) /\ i \in Nat /\ i >= 1
                               /\ i < n /\ i # n
      /\ \A i \in DOMAIN new : i = n \/ i \in DOMAIN old
  <2>1. IsLast(Steps, old, a, new)
    BY DEF Performs
  <2> HIDE DEF old, new
  <2> QED
    BY <2>1 DEF IsLast
<1>3. /\ cur \in Blocks(b) /\ a \in Steps /\ a.reads \subseteq Names /\ a.writes \subseteq Names
      /\ a.val \in Nat /\ a.val # NoValue /\ a.val \in DOMAIN b.home
  <2>1. cur \in Blocks(b)
    BY <1>0 DEF Typed, Blocks
  <2>2. a.val \in DOMAIN b.home /\ a \in Steps
    BY DEF Fitting
  <2> QED
    BY <2>1, <2>2, <1>0, TypedFacts DEF Steps
<1>4. \A u \in Blocks(b), x \in Names :
        b.def[u][x] # NoValue /\ (u # cur \/ x \notin a.writes) => c.def[u][x] = b.def[u][x]
  BY <1>1
<1> HIDE DEF n, old, new
<1>5. /\ \A u \in Blocks(b) :
           /\ \A k \in DOMAIN b.preds[u] :
                b.preds[u][k] \in Blocks(b) /\ b.succs[b.preds[u][k]] # <<>>
           /\ b.preds[u] \in Seq(Blocks(b))
      /\ \A v \in DOMAIN b.home : b.home[v] \in Blocks(b)
      /\ \A q \in DOMAIN b.phis : q \in DOMAIN b.home /\ b.phis[q].var \in Names
  BY <1>0, TypedFacts DEF Numbered, Laid, Linked
<1>6. \A u \in Blocks(b), x \in Names : \A k \in DOMAIN b.preds[u] :
        c.def[b.preds[u][k]][x] = b.def[b.preds[u][k]][x]
  <2> SUFFICES ASSUME NEW u \in Blocks(b), NEW x \in Names, NEW k \in DOMAIN b.preds[u]
               PROVE  c.def[b.preds[u][k]][x] = b.def[b.preds[u][k]][x]
    OBVIOUS
  <2>1. CASE b.preds[u][k] = cur
    <3>1. a.writes = {}
      BY <2>1, <1>5 DEF Fitting, cur
    <3> QED
      BY <2>1, <3>1, <1>1
  <2>2. CASE b.preds[u][k] # cur
    BY <2>2, <1>1, <1>5
  <2> QED
    BY <2>1, <2>2
<1>7. ASSUME NEW u \in Blocks(b), NEW x \in Names, NEW v, EntryValue(b, u, x, v)
      PROVE  EntryValue(c, u, x, v)
  <2>1. CASE v \in DOMAIN b.phis /\ b.home[v] = u /\ b.phis[v].var = x
    BY <2>1, <1>1 DEF EntryValue
  <2>2. CASE u \in b.sealed /\ Len(b.preds[u]) = 1 /\ v # NoValue /\ b.def[b.preds[u][1]][x] = v
    <3>1. 1 \in DOMAIN b.preds[u]
      <4> DEFINE T == Blocks(b)
      <4>1. b.preds[u] \in Seq(T)
        BY <1>5
      <4> HIDE DEF T
      <4> QED
        BY <2>2, <4>1
    <3>2. c.def[b.preds[u][1]][x] = v
      BY <2>2, <3>1, <1>6
    <3> QED
      BY <2>2, <3>2, <1>1 DEF EntryValue
  <2> QED
    BY <2>1, <2>2, <1>7 DEF EntryValue
<1>8. Linked(c)
  BY <1>0, <1>1 DEF Laid, Linked
<1>9. \A x \in Names, j \in Nat : LastWrite(b, cur, x, Len(old) + 1, j) => b.def[cur][x] = old[j].val
  BY <1>0, <1>3 DEF Laid, Stored, old
<1>10. Stored(c)
  <2> SUFFICES ASSUME NEW u \in Blocks(b), NEW x \in Names, NEW j \in Nat,
                      LastWrite(c, u, x, Len(c.code[u]) + 1, j)
               PROVE  c.def[u][x] = c.code[u][j].val
    BY <1>1 DEF Stored
  <2>1. CASE u # cur
    <3>1. LastWrite(b, u, x, Len(b.code[u]) + 1, j)
      BY <2>1, <1>1 DEF LastWrite
    <3> QED
      BY <2>1, <3>1, <1>0, <1>1 DEF Laid, Stored
  <2>2. CASE u = cur
    <3>1. /\ j \in DOMAIN new /\ x \in new[j].writes
          /\ \A i \in DOMAIN new : j < i /\ i < n + 1 => x \notin new[i].writes
      BY <2>2 DEF LastWrite, n, new
    <3>2. CASE x \in a.writes
      <4>1. ~(j < n)
        BY <1>2, <3>1, <3>2
      <4>2. j = n
        BY <1>2, <3>1, <4>1
      <4> QED
        BY <2>2, <3>2, <4>2, <1>1, <1>2 DEF new
    <3>3. CASE x \notin a.writes
      <4>1. j \in DOMAIN old /\ old[j] = new[j]
        BY <1>2, <3>1, <3>3
      <4>2. \A i \in DOMAIN old : j < i /\ i < Len(old) + 1 => x \notin old[i].writes
        BY <1>2, <3>1
      <4>3. LastWrite(b, cur, x, Len(old) + 1, j)
        BY <4>1, <4>2, <3>1, <1>2 DEF LastWrite, old
      <4> QED
        BY <2>2, <3>3, <4>1, <4>3, <1>1, <1>9 DEF new
    <3> QED
      BY <3>2, <3>3
  <2> QED
    BY <2>1, <2>2
<1>11. Reading(c)
  <2> SUFFICES ASSUME NEW u \in Blocks(b), NEW k \in DOMAIN c.code[u],
                      NEW x \in c.code[u][k].reads
               PROVE  /\ \A j \in Nat : LastWrite(c, u, x, k, j)
                           => c.code[u][k].val = c.code[u][j].val
                      /\ \/ \E j \in DOMAIN c.code[u] : j < k /\ x \in c.code[u][j].writes
                         \/ EntryValue(c, u, x, c.code[u][k].val)
    BY <1>1 DEF Reading
  <2>1. CASE u # cur
    <3>1. c.code[u] = b.code[u]
      BY <2>1, <1>1
    <3>2. \A j \in Nat : LastWrite(c, u, x, k, j) => LastWrite(b, u, x, k, j)
      BY <3>1 DEF LastWrite
    <3>3. x \in Names
      BY <3>1, <1>0, TypedFacts
    <3>4. EntryValue(b, u, x, b.code[u][k].val) => EntryValue(c, u, x, b.code[u][k].val)
      BY <3>3, <1>7
    <3> QED
      BY <3>1, <3>2, <3>4, <1>0 DEF Laid, Reading
  <2>2. CASE u = cur /\ k # n
    <3>1. k \in DOMAIN old /\ new[k] = old[k]
      BY <2>2, <1>2 DEF new
    <3>2. \A j \in Nat : LastWrite(c, u, x, k, j) => LastWrite(b, u, x, k, j) /\ new[j] = old[j]
      <4> SUFFICES ASSUME NEW j \in Nat, LastWrite(c, u, x, k, j)
                   PROVE  LastWrite(b, u, x, k, j) /\ new[j] = old[j]
        OBVIOUS
      <4>1. /\ j \in DOMAIN new /\ j < k /\ x \in new[j].writes
            /\ \A i \in DOMAIN new : j < i /\ i < k => x \notin new[i].writes
        BY <2>2 DEF LastWrite, new
      <4>2. j \in DOMAIN old
        BY <3>1, <4>1, <1>2
      <4> QED
        BY <2>2, <4>1, <4>2, <1>2 DEF LastWrite, old
    <3>3. x \in Names /\ x \in old[k].reads
      BY <2>2, <3>1, <1>0, TypedFacts DEF old, new
    <3>4. EntryValue(b, u, x, old[k].val) => EntryValue(c, u, x, old[k].val)
      BY <3>3, <1>7
    <3>5. /\ \A j \in Nat : LastWrite(b, u, x, k, j) => old[k].val = old[j].val
          /\ \/ \E j \in DOMAIN old : j < k /\ x \in old[j].writes
             \/ EntryValue(b, u, x, old[k].val)
      BY <2>2, <3>1, <3>3, <1>0 DEF Laid, Reading, old
    <3>6. \A j \in DOMAIN old : j \in DOMAIN new /\ new[j] = old[j]
      BY <1>2
    <3> QED
      BY <2>2, <3>1, <3>2, <3>4, <3>5, <3>6 DEF new
  <2>3. CASE u = cur /\ k = n
    <3>1. x \in a.reads /\ x \in Names /\ a.val = b.def[cur][x]
      BY <2>3, <1>2, <1>3 DEF new, Fitting, cur
    <3>2. \A j \in Nat : LastWrite(c, u, x, n, j) => a.val = new[j].val
      <4> SUFFICES ASSUME NEW j \in Nat, LastWrite(c, u, x, n, j)
                   PROVE  a.val = new[j].val
        OBVIOUS
      <4>1. /\ j \in DOMAIN new /\ j < n /\ x \in new[j].writes
            /\ \A i \in DOMAIN new : j < i /\ i < n => x \notin new[i].writes
        BY <2>3 DEF LastWrite, new
      <4>2. j \in DOMAIN old
        BY <4>1, <1>2
      <4>3. LastWrite(b, cur, x, Len(old) + 1, j)
        BY <4>1, <4>2, <1>2 DEF LastWrite, old
      <4> QED
        BY <3>1, <4>2, <4>3, <1>2, <1>9
    <3>3. Written(b, cur, x) \/ EntryValue(b, cur, x, a.val)
      BY <3>1, <1>0, <1>3 DEF Known, Entering
    <3>4. CASE Written(b, cur, x)
      <4>1. PICK j \in DOMAIN old : x \in old[j].writes
        BY <3>4 DEF Written, old
      <4>2. j \in DOMAIN new /\ j < n /\ x \in new[j].writes
        BY <4>1, <1>2
      <4> QED
        BY <2>3, <3>2, <4>2, <1>2 DEF new
    <3>5. CASE EntryValue(b, cur, x, a.val)
      <4>1. EntryValue(c, cur, x, a.val)
        BY <3>1, <3>5, <1>3, <1>7
      <4> QED
        BY <2>3, <3>2, <4>1, <1>2 DEF new
    <3> QED
      BY <3>3, <3>4, <3>5
  <2> QED
    BY <2>1, <2>2, <2>3
<1>12. Single(c)
  <2> SUFFICES ASSUME NEW u \in Blocks(b), NEW k \in DOMAIN c.code[u],
                      NEW x \in c.code[u][k].reads, NEW y \in c.code[u][k].reads
               PROVE  x = y
    BY <1>1 DEF Single
  <2>1. CASE u = cur
    BY <2>1, <1>0, <1>2, <1>3, SMTT(30) DEF Laid, Single, Fitting, old, new
  <2>2. CASE u # cur
    BY <2>2, <1>0, <1>1 DEF Laid, Single
  <2> QED
    BY <2>1, <2>2
<1>13. Ordered(c)
  <2> SUFFICES ASSUME NEW u \in Blocks(b), NEW j \in DOMAIN c.code[u], NEW k \in DOMAIN c.code[u],
                      j < k, c.code[u][k].reads = {}
               PROVE  c.code[u][j].val < c.code[u][k].val
    BY <1>1 DEF Ordered
  <2>1. CASE u = cur
    <3>1. j \in DOMAIN old
      BY <2>1, <1>2 DEF new
    <3>2. CASE k = n
      BY <2>1, <3>1, <3>2, <1>2 DEF Fitting, old, new, cur
    <3>3. CASE k \in DOMAIN old
      BY <2>1, <3>1, <3>3, <1>0, <1>2, <1>3, Zenon DEF Laid, Ordered, old, new
    <3> QED
      BY <2>1, <3>2, <3>3, <1>2 DEF new
  <2>2. CASE u # cur
    BY <2>2, <1>0, <1>1 DEF Laid, Ordered
  <2> QED
    BY <2>1, <2>2
<1>14. NewValues(c) /\ Coded(c)
  <2> SUFFICES ASSUME NEW u \in Blocks(b), NEW k \in DOMAIN c.code[u]
               PROVE  /\ c.code[u][k].val \in DOMAIN b.home
                      /\ c.code[u][k].reads = {} =>
                           c.code[u][k].val \notin DOMAIN b.phis /\ b.home[c.code[u][k].val] = u
    BY <1>1 DEF NewValues, Coded
  <2>1. CASE u = cur /\ k = n
    BY <2>1, <1>2, <1>3 DEF Fitting, new, cur
  <2>2. CASE u = cur /\ k # n
    <3>1. k \in DOMAIN old /\ c.code[u][k] = old[k]
      BY <2>2, <1>2 DEF new
    <3> QED
      BY <2>2, <3>1, <1>0, <1>3 DEF Laid, NewValues, Coded, old
  <2>3. CASE u # cur
    BY <2>3, <1>0, <1>1 DEF Laid, NewValues, Coded
  <2> QED
    BY <2>1, <2>2, <2>3
<1>15. Entering(c)
  <2> SUFFICES ASSUME NEW u \in Blocks(b), NEW x \in Names, c.def[u][x] # NoValue
               PROVE  Written(c, u, x) \/ EntryValue(c, u, x, c.def[u][x])
    BY <1>1 DEF Entering
  <2>1. CASE u = cur /\ x \in a.writes
    BY <2>1, <1>2 DEF Written, new
  <2>2. CASE u # cur \/ x \notin a.writes
    <3>1. c.def[u][x] = b.def[u][x]
      BY <2>2, <1>1
    <3>2. Written(b, u, x) \/ EntryValue(b, u, x, b.def[u][x])
      BY <3>1, <1>0 DEF Known, Entering
    <3>3. Written(b, u, x) => Written(c, u, x)
      <4>1. CASE u = cur
        BY <4>1, <1>2, SMTT(30) DEF Written, old, new
      <4>2. CASE u # cur
        BY <4>2, <1>1, SMTT(30) DEF Written
      <4> QED
        BY <4>1, <4>2
    <3> QED
      BY <3>1, <3>2, <3>3, <1>7
  <2> QED
    BY <2>1, <2>2
<1>16. Operands(c)
  <2> SUFFICES ASSUME NEW q \in DOMAIN b.phis, NEW k \in DOMAIN b.phis[q].edges
               PROVE  /\ k \in DOMAIN b.preds[b.home[q]]
                      /\ b.phis[q].edges[k].from = b.preds[b.home[q]][k]
                      /\ b.phis[q].edges[k].val # NoValue
                      /\ b.phis[q].edges[k].val = c.def[b.preds[b.home[q]][k]][b.phis[q].var]
    BY <1>1, SMTT(30) DEF Operands
  <2>1. /\ k \in DOMAIN b.preds[b.home[q]]
        /\ b.phis[q].edges[k].from = b.preds[b.home[q]][k]
        /\ b.phis[q].edges[k].val # NoValue
        /\ b.phis[q].edges[k].val = b.def[b.preds[b.home[q]][k]][b.phis[q].var]
    BY <1>0 DEF Known, Operands
  <2>2. b.home[q] \in Blocks(b) /\ b.phis[q].var \in Names
    BY <1>5
  <2> QED
    BY <2>1, <2>2, <1>6, ZenonT(30)
<1>17. Complete(c, {})
  BY <1>0, <1>1 DEF Known, Complete
<1>18. Waiting(c)
  <2> SUFFICES ASSUME NEW q \in DOMAIN b.phis, b.home[q] \notin b.sealed
               PROVE  q \in b.incomplete /\ c.def[b.home[q]][b.phis[q].var] # NoValue
    BY <1>1 DEF Waiting
  <2>1. q \in b.incomplete /\ b.def[b.home[q]][b.phis[q].var] # NoValue
    BY <1>0 DEF Known, Waiting
  <2>2. b.home[q] \in Blocks(b) /\ b.phis[q].var \in Names
    BY <1>5
  <2> QED
    BY <2>1, <2>2, <1>1, <1>3
<1>19. Numbered(c)
  <2>1. ASSUME NEW u \in Blocks(b), NEW x \in Names
        PROVE  c.def[u][x] \in DOMAIN b.home \cup {NoValue}
    BY <1>0, <1>1, <1>3 DEF Numbered
  <2> QED
    BY <2>1, <1>0, <1>1 DEF Numbered
<1>20. Ranked(c)
  <2>1. PICK r \in [Blocks(b) -> Nat] : Ranks(b, r)
    BY <1>0 DEF Known, Ranked
  <2>2. r[b.home[a.val]] <= r[cur]
    <3>1. CASE a.reads = {}
      <4>1. b.home[a.val] = cur
        BY <3>1 DEF Fitting
      <4> QED
        BY <2>1, <4>1, <1>3
    <3>2. CASE a.reads # {}
      <4>1. PICK x \in a.reads : a.val = b.def[cur][x]
        BY <3>2 DEF Fitting
      <4> QED
        BY <4>1, <2>1, <1>3, Zenon DEF Ranks
    <3> QED
      BY <3>1, <3>2
  <2>3. ASSUME NEW u \in Blocks(b), NEW x \in Names, c.def[u][x] # NoValue
        PROVE  r[b.home[c.def[u][x]]] <= r[u]
    BY <2>1, <2>2, <2>3, <1>1 DEF Ranks
  <2>4. Ranks(c, r)
    BY <2>1, <2>3, <1>1 DEF Ranks
  <2> QED
    BY <2>4, <1>1 DEF Ranked
<1> QED
  BY <1>1, <1>8, <1>10, <1>11, <1>12, <1>13, <1>14, <1>15, <1>16, <1>17, <1>18, <1>19, <1>20
     DEF Sound, Laid, Known

-----------------------------------------------------------------------------
\* An assignment, and a use or a copy.

\* An instruction more, at most, and values that nobody else's variables have.
Worked(b, c) ==
  /\ c.blocks = b.blocks /\ c.preds = b.preds /\ c.succs = b.succs
  /\ c.sealed = b.sealed /\ c.cur = b.cur /\ c.stuck = b.stuck
  /\ \A u \in Blocks(b), x \in Names : b.def[u][x] # NoValue => c.def[u][x] # NoValue
  /\ \A u \in Blocks(b) : u # b.cur /\ b.succs[u] = <<>> /\ Blank(b, u) => Blank(c, u)

\* A value more for the current block, not a phi and not of any variable yet.
ValueMore(b, c) ==
  /\ c.blocks = b.blocks /\ c.preds = b.preds /\ c.succs = b.succs
  /\ c.def = b.def /\ c.code = b.code /\ c.sealed = b.sealed /\ c.phis = b.phis
  /\ c.incomplete = b.incomplete /\ c.cur = b.cur /\ c.stuck = b.stuck /\ Typed(c)
  /\ NextValue(b) \in Nat /\ NextValue(b) \notin DOMAIN b.home /\ NextValue(b) # NoValue
  /\ \A v \in DOMAIN b.home : v < NextValue(b)
  /\ DOMAIN c.home = DOMAIN b.home \cup {NextValue(b)} /\ c.home[NextValue(b)] = b.cur
  /\ \A v \in DOMAIN b.home : c.home[v] = b.home[v]

\* What a new value is.
LEMMA ValueMade ==
  ASSUME NEW b, Typed(b), NEW c, c = [b EXCEPT !.home = Append(@, b.cur)]
  PROVE  ValueMore(b, c)
<1> DEFINE T == 1 .. b.blocks
           p == NextValue(b)
<1>1. /\ c.blocks = b.blocks /\ c.preds = b.preds /\ c.succs = b.succs
      /\ c.def = b.def /\ c.code = b.code /\ c.sealed = b.sealed
      /\ c.home = Append(b.home, b.cur) /\ c.phis = b.phis
      /\ c.incomplete = b.incomplete /\ c.cur = b.cur /\ c.stuck = b.stuck
      /\ Typed(c)
  BY ValueFields
<1>2. b.home \in Seq(T) /\ b.cur \in T /\ p = Len(b.home) + 1
  BY DEF Typed, NextValue
<1> HIDE DEF T, p
<1>3. /\ p \in Nat /\ p \notin DOMAIN b.home /\ p # 0
      /\ \A v \in DOMAIN b.home : v < p
      /\ DOMAIN c.home = DOMAIN b.home \cup {p} /\ c.home[p] = b.cur
      /\ \A v \in DOMAIN b.home : c.home[v] = b.home[v]
  BY <1>1, <1>2
<1> QED
  BY <1>1, <1>3 DEF ValueMore, p, NoValue

\* It keeps the function sound.
LEMMA ValueSound ==
  ASSUME NEW b, NEW c, Sound(b, {}), ValueMore(b, c)
  PROVE  Sound(c, {})
<1>0. Typed(b) /\ Laid(b) /\ Known(b, {}) /\ Numbered(b)
  BY DEF Sound, Known
<1>1. /\ Blocks(c) = Blocks(b) /\ c.preds = b.preds /\ c.succs = b.succs
      /\ c.def = b.def /\ c.code = b.code /\ c.sealed = b.sealed
      /\ c.phis = b.phis /\ c.incomplete = b.incomplete /\ Typed(c)
      /\ \A v \in DOMAIN b.home : v \in DOMAIN c.home /\ c.home[v] = b.home[v]
  BY DEF ValueMore, Blocks
<1>2. \A q \in DOMAIN b.phis : q \in DOMAIN b.home
  BY <1>0 DEF Numbered
<1>3. \A u, x, v : EntryValue(b, u, x, v) => EntryValue(c, u, x, v)
  BY <1>1, <1>2 DEF EntryValue
<1>4. Linked(c)
  BY <1>0, <1>1 DEF Laid, Linked
<1>5. Stored(c)
  BY <1>0, <1>1 DEF Laid, Stored, LastWrite
<1>6. Single(c) /\ Ordered(c)
  BY <1>0, <1>1 DEF Laid, Single, Ordered
<1>7. NewValues(c) /\ Coded(c)
  BY <1>0, <1>1 DEF Laid, NewValues, Coded
<1>8. Reading(c)
  <2>1. Reading(b)
    BY <1>0 DEF Laid
  <2>2. \A u, x, k, j : LastWrite(c, u, x, k, j) <=> LastWrite(b, u, x, k, j)
    BY <1>1 DEF LastWrite
  <2> QED
    BY <1>1, <1>3, <2>1, <2>2 DEF Reading
<1>9. Entering(c)
  BY <1>0, <1>1, <1>3, SMTT(30) DEF Known, Entering, Written
<1>10. Operands(c)
  BY <1>0, <1>1, <1>2 DEF Known, Operands
<1>11. Complete(c, {})
  BY <1>0, <1>1, <1>2 DEF Known, Complete
<1>12. Waiting(c)
  BY <1>0, <1>1, <1>2 DEF Known, Waiting
<1>13. Numbered(c)
  BY <1>0, <1>1 DEF Numbered
<1>14. Ranked(c)
  <2>1. PICK r \in [Blocks(b) -> Nat] : Ranks(b, r)
    BY <1>0 DEF Known, Ranked
  <2>2. \A u \in Blocks(b), x \in Names :
          b.def[u][x] # NoValue => c.home[b.def[u][x]] = b.home[b.def[u][x]]
    BY <1>0, <1>1 DEF Numbered
  <2>3. Ranks(c, r)
    BY <2>1, <2>2, <1>1 DEF Ranks
  <2> QED
    BY <2>3, <1>1 DEF Ranked
<1> QED
  BY <1>1, <1>4, <1>5, <1>6, <1>7, <1>8, <1>9, <1>10, <1>11, <1>12, <1>13, <1>14
     DEF Sound, Laid, Known

\* The variables xs get a new value in the current block, which has no successors yet.
LEMMA StoreSound ==
  ASSUME NEW b, Sound(b, {}), NEW xs \in SUBSET Names, b.succs[b.cur] = <<>>,
         NEW c, c = Store(b, xs)
  PROVE  Sound(c, {}) /\ Worked(b, c) /\ \A x \in xs : c.def[b.cur][x] # NoValue
<1> DEFINE d == [b EXCEPT !.home = Append(@, b.cur)]
           p == NextValue(b)
           a == [reads |-> {}, writes |-> xs, val |-> p]
<1>0. Typed(b) /\ Laid(b) /\ Numbered(b)
  BY DEF Sound, Known
<1>1. ValueMore(b, d)
  BY <1>0, ValueMade
<1>2. c = Perform(d, a)
  BY DEF Store
<1>3. a.reads = {} /\ a.writes = xs /\ a.val = p
  OBVIOUS
<1>4. p \in Nat /\ p # NoValue
  BY <1>1 DEF ValueMore
<1>5. a \in Steps
  BY <1>4 DEF Steps
<1> HIDE DEF d, a, p
<1>6. Sound(d, {})
  BY <1>1, ValueSound
<1>7. Fitting(d, a)
  <2>1. /\ d.phis = b.phis /\ d.code = b.code /\ d.cur = b.cur /\ d.succs = b.succs
        /\ p \in DOMAIN d.home /\ d.home[p] = b.cur /\ p \notin DOMAIN b.home
        /\ \A v \in DOMAIN b.home : v < p
    BY <1>1 DEF ValueMore, p
  <2>2. p \notin DOMAIN b.phis
    BY <1>0, <2>1 DEF Numbered
  <2>3. b.cur \in Blocks(b)
    BY <1>0 DEF Typed, Blocks
  <2>4. \A k \in DOMAIN b.code[b.cur] : b.code[b.cur][k].val < p
    BY <1>0, <2>1, <2>3 DEF Laid, Coded
  <2> QED
    BY <1>3, <1>5, <2>1, <2>2, <2>4 DEF Fitting
<1>8. Typed(d)
  BY <1>1 DEF ValueMore
<1>9. Performs(d, c, a)
  BY <1>2, <1>5, <1>8, PerformMade
<1>10. Sound(c, {})
  BY <1>6, <1>7, <1>9, PerformSound
<1>11. /\ d.blocks = b.blocks /\ d.preds = b.preds /\ d.succs = b.succs /\ d.sealed = b.sealed
       /\ d.cur = b.cur /\ d.stuck = b.stuck /\ d.def = b.def
       /\ Blocks(d) = Blocks(b) /\ b.cur \in Blocks(b)
       /\ DOMAIN d.home = DOMAIN b.home \cup {p} /\ d.home[p] = b.cur
       /\ \A v \in DOMAIN b.home : d.home[v] = b.home[v]
  BY <1>0, <1>1 DEF ValueMore, Blocks, Typed, p
<1>12. /\ c.blocks = b.blocks /\ c.preds = b.preds /\ c.succs = b.succs /\ c.sealed = b.sealed
       /\ c.cur = b.cur /\ c.stuck = b.stuck /\ c.home = d.home
       /\ \A u \in Blocks(b) : u # b.cur => c.def[u] = b.def[u]
       /\ \A x \in Names : c.def[b.cur][x] = IF x \in xs THEN p ELSE b.def[b.cur][x]
  BY <1>3, <1>9, <1>11 DEF Performs
<1>13. Worked(b, c)
  <2>1. \A u \in Blocks(b), x \in Names : b.def[u][x] # NoValue => c.def[u][x] # NoValue
    BY <1>4, <1>12
  <2>2. \A u \in Blocks(b) : u # b.cur /\ Blank(b, u) => Blank(c, u)
    BY <1>11, <1>12 DEF Blank
  <2> QED
    BY <1>12, <2>1, <2>2 DEF Worked
<1> QED
  BY <1>4, <1>10, <1>12, <1>13

\* A variable is read in the current block, and variables get its value if the block has
\* no successors yet.
LEMMA LoadSound ==
  ASSUME MaxReads \in Nat, NEW b, Sound(b, {}), NEW x \in Names, NEW xs \in SUBSET Names,
         xs = {} \/ b.succs[b.cur] = <<>>, NEW c, c = Load(b, x, xs),
         ~b.stuck, Ended(ReadVariable(b, x, b.cur))
  PROVE  Sound(c, {}) /\ Worked(b, c)
<1> DEFINE r == ReadVariable(b, x, b.cur)
           a == [reads |-> {x}, writes |-> xs, val |-> r.val]
<1>0. Typed(b) /\ Laid(b) /\ Numbered(b) /\ b.cur \in Blocks(b)
  BY Zenon DEF Sound, Known, Typed, Blocks
<1>1. ~b.stuck /\ Ended(r)
  OBVIOUS
<1>2. c = Perform(r.fn, a)
  BY <1>1 DEF Load
<1>3. a.reads = {x} /\ a.writes = xs /\ a.val = r.val
  OBVIOUS
<1> HIDE DEF r
<1>4. Sound(r.fn, {}) /\ IsRead(b, r.fn, x, b.cur, r.val)
  BY <1>0, <1>1, ReadSound DEF r
<1> DEFINE d == r.fn
           v == r.val
<1> HIDE DEF d, v
<1>5. Sound(d, {}) /\ Kept(b, d, {b.cur}, {}) /\ d.def[b.cur][x] = v /\ v \in Nat /\ v # NoValue
  BY <1>4 DEF IsRead, d, v
<1>6. c = Perform(d, a) /\ a.val = v /\ a \in Steps
  BY <1>2, <1>3, <1>5 DEF d, v, Steps
<1> HIDE DEF a
<1>7. /\ d.blocks = b.blocks /\ d.preds = b.preds /\ d.succs = b.succs /\ d.sealed = b.sealed
      /\ d.cur = b.cur /\ d.stuck = b.stuck /\ Blocks(d) = Blocks(b)
      /\ \A u \in Blocks(b), y \in Names : b.def[u][y] # NoValue => d.def[u][y] = b.def[u][y]
      /\ \A u \in Blocks(b) : u # b.cur /\ b.succs[u] = <<>> =>
           /\ \A y \in Names : d.def[u][y] = b.def[u][y]
           /\ \A w \in DOMAIN d.home : d.home[w] = u => w \in DOMAIN b.home
      /\ \A w \in DOMAIN b.home : w \in DOMAIN d.home /\ d.home[w] = b.home[w]
  BY <1>5 DEF Kept, Blocks
<1>8. Fitting(d, a)
  <2>1. v \in DOMAIN d.home
    BY <1>0, <1>5, <1>7 DEF Sound, Known, Numbered
  <2> QED
    BY <1>3, <1>5, <1>6, <1>7, <2>1 DEF Fitting
<1>9. Performs(d, c, a)
  <2>1. Typed(d)
    BY <1>5 DEF Sound
  <2> QED
    BY <2>1, <1>6, PerformMade
<1>10. Sound(c, {})
  BY <1>5, <1>8, <1>9, PerformSound
<1>11. /\ c.blocks = b.blocks /\ c.preds = b.preds /\ c.succs = b.succs /\ c.sealed = b.sealed
       /\ c.cur = b.cur /\ c.stuck = b.stuck /\ c.home = d.home
       /\ \A u \in Blocks(b) : u # b.cur => c.def[u] = d.def[u]
       /\ \A y \in Names : c.def[b.cur][y] = IF y \in xs THEN v ELSE d.def[b.cur][y]
  BY <1>3, <1>6, <1>7, <1>9 DEF Performs
<1>12. Worked(b, c)
  <2>1. \A u \in Blocks(b), y \in Names : b.def[u][y] # NoValue => c.def[u][y] # NoValue
    BY <1>5, <1>7, <1>11
  <2>2. \A u \in Blocks(b) : u # b.cur /\ b.succs[u] = <<>> /\ Blank(b, u) => Blank(c, u)
    BY <1>7, <1>11 DEF Blank
  <2> QED
    BY <1>11, <2>1, <2>2 DEF Worked
<1> QED
  BY <1>10, <1>12

-----------------------------------------------------------------------------
\* The operands of && and || meet.

\* The current block is where two blocks meet that both know the result of a condition.
Meets(b, blk, from1, from2) ==
  /\ blk = b.cur /\ blk \in b.sealed /\ from1 \in Blocks(b) /\ from2 \in Blocks(b)
  /\ b.preds[blk] = <<from1, from2>>
  /\ b.def[from1][Result] # NoValue /\ b.def[from2][Result] # NoValue
  /\ b.def[blk][Result] = NoValue

\* The phi of && and ||, which no read has made.
LEMMA JoinedSound ==
  ASSUME NEW b, Sound(b, {}), NEW blk \in Blocks(b), NEW from1, NEW from2,
         Meets(b, blk, from1, from2), NEW c, c = Joined(b, blk, from1, from2)
  PROVE  Sound(c, {}) /\ Worked(b, c)
<1> DEFINE v1 == b.def[from1][Result]
           v2 == b.def[from2][Result]
           e1 == [from |-> from1, val |-> v1]
           e2 == [from |-> from2, val |-> v2]
           edges == <<e1, e2>>
           p == NextValue(b)
           d == NewPhi(b, Result, blk, edges)
           a == [reads |-> {Result}, writes |-> {}, val |-> p]
<1>0. /\ Typed(b) /\ Laid(b) /\ Numbered(b) /\ Result \in Names
      /\ blk = b.cur /\ blk \in b.sealed /\ b.preds[blk] = <<from1, from2>>
      /\ v1 # NoValue /\ v2 # NoValue /\ b.def[blk][Result] = NoValue
      /\ from1 \in Blocks(b) /\ from2 \in Blocks(b)
  BY DEF Sound, Known, Meets, Names
<1>1. v1 \in Nat /\ v2 \in Nat
  BY <1>0, TypedFacts
<1>2. e1 \in Edges(b.blocks) /\ e2 \in Edges(b.blocks)
  BY <1>0, <1>1 DEF Edges, Blocks
<1>3. /\ e1.from = from1 /\ e1.val = v1 /\ e2.from = from2 /\ e2.val = v2
  OBVIOUS
<1>4. c = Perform(d, a)
  BY DEF Joined
<1>5. a.reads = {Result} /\ a.writes = {} /\ a.val = p
  OBVIOUS
<1> HIDE DEF e1, e2, d, a, v1, v2
<1>6. /\ edges \in Seq(Edges(b.blocks)) /\ Len(edges) = 2 /\ DOMAIN edges = {1, 2}
      /\ edges[1] = e1 /\ edges[2] = e2
  <2> DEFINE T == Edges(b.blocks)
  <2>1. e1 \in T /\ e2 \in T
    BY <1>2
  <2> HIDE DEF T
  <2>2. edges \in Seq(T)
    BY <2>1
  <2>3. Len(edges) = 2 /\ edges[1] = e1 /\ edges[2] = e2
    OBVIOUS
  <2>4. DOMAIN edges = 1 .. Len(edges)
    BY <2>2
  <2> QED
    BY <2>2, <2>3, <2>4 DEF T
<1>7. /\ Len(b.preds[blk]) = 2 /\ DOMAIN b.preds[blk] = {1, 2}
      /\ b.preds[blk][1] = from1 /\ b.preds[blk][2] = from2
  <2> DEFINE q == <<from1, from2>>
  <2>1. Len(q) = 2 /\ q[1] = from1 /\ q[2] = from2 /\ DOMAIN q = {1, 2}
    OBVIOUS
  <2> QED
    BY <1>0, <2>1
<1> HIDE DEF edges
<1>8. MakesPhi(b, d, Result, blk, edges)
  BY <1>0, <1>6, PhiFields DEF d
<1>9. Fits(b, Result, blk, edges)
  BY <1>0, <1>3, <1>6, <1>7 DEF Fits, v1, v2
<1>10. Sound(d, {})
  <2> DEFINE E == {}
  <2>1. Sound(b, E) /\ E \subseteq E
    OBVIOUS
  <2> HIDE DEF E
  <2>2. Sound(d, E)
    BY <2>1, <1>0, <1>6, <1>7, <1>8, <1>9, PhiSound
  <2> QED
    BY <2>2 DEF E
<1>11. PhiMade(b, d, Result, blk, edges, p)
  BY <1>0, <1>8, PhiFacts
<1> HIDE DEF p
<1>12. /\ p \in Nat /\ p # NoValue /\ DOMAIN d.home = DOMAIN b.home \cup {p} /\ d.home[p] = blk
       /\ \A v \in DOMAIN b.home : d.home[v] = b.home[v]
       /\ d.def[blk][Result] = p
       /\ \A u \in Blocks(b), y \in Names : u # blk \/ y # Result => d.def[u][y] = b.def[u][y]
  BY <1>11 DEF PhiMade
<1>13. /\ d.blocks = b.blocks /\ d.preds = b.preds /\ d.succs = b.succs /\ d.sealed = b.sealed
       /\ d.cur = b.cur /\ d.stuck = b.stuck /\ Typed(d) /\ Blocks(d) = Blocks(b)
  BY <1>8 DEF MakesPhi, Blocks
<1>14. a \in Steps
  <2>1. a = [reads |-> {Result}, writes |-> {}, val |-> p]
    BY DEF a
  <2> QED
    BY <2>1, <1>0, <1>12 DEF Steps
<1>15. Fitting(d, a)
  BY <1>0, <1>5, <1>12, <1>13, <1>14 DEF Fitting
<1>16. Performs(d, c, a)
  BY <1>4, <1>13, <1>14, PerformMade
<1>17. Sound(c, {})
  BY <1>10, <1>15, <1>16, PerformSound
<1>18. /\ c.blocks = b.blocks /\ c.preds = b.preds /\ c.succs = b.succs /\ c.sealed = b.sealed
       /\ c.cur = b.cur /\ c.stuck = b.stuck /\ c.home = d.home
       /\ \A u \in Blocks(b) : u # blk => c.def[u] = d.def[u]
       /\ \A y \in Names : c.def[blk][y] = d.def[blk][y]
  BY <1>0, <1>5, <1>13, <1>16 DEF Performs
<1>19. Worked(b, c)
  <2>1. \A u \in Blocks(b), y \in Names : b.def[u][y] # NoValue => c.def[u][y] # NoValue
    BY <1>0, <1>12, <1>18
  <2>2. \A u \in Blocks(b) : u # b.cur /\ b.succs[u] = <<>> /\ Blank(b, u) => Blank(c, u)
    BY <1>0, <1>12, <1>18 DEF Blank
  <2> QED
    BY <1>18, <2>1, <2>2 DEF Worked
<1> QED
  BY <1>17, <1>19
=============================================================================
