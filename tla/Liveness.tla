------------------------------ MODULE Liveness ------------------------------
(***************************************************************************)
(* Which values are live where (opt/liveness.go) and which are live        *)
(* together (opt/interference.go).  Both are sets of keys: a parameter is  *)
(* known by its place in the parameter list, counted from 0, an            *)
(* instruction by its ID, counted from 1, so that parameters and the first *)
(* instructions share keys.                                                *)
(***************************************************************************)
EXTENDS IR, FiniteSets

NumParams(f) == Cardinality({v \in DOMAIN f.ins : f.ins[v].op = "param"})

\* The parameters of f are its objects 1, 2, ...
Key(f, v) == IF f.ins[v].op = "param" THEN v - 1 ELSE v - NumParams(f)

KeysOf(f, S) == {Key(f, v) : v \in S}

\* The keys an instruction reads where it stands; a phi reads on the edges.
Reads(f, v) ==
  IF f.ins[v].op = "phi" THEN {} ELSE KeysOf(f, ToSet(OperandsOf(f.ins[v])))

\* What block b uses before it defines it, and what it defines.
UseDef(f, b) ==
  LET Step(s, v) == [use |-> s.use \cup (Reads(f, v) \ s.def), def |-> s.def \cup {Key(f, v)}]
      s == FoldLeft(Step, [use |-> {}, def |-> {}], f.code[b])
  IN [s EXCEPT !.use = @ \cup (Reads(f, f.term[b]) \ s.def)]

\* Mutant: the operands of phis are not live at the ends of the edge blocks.
PhiReadsMissed(f, b, s) == {}

PhiReads(f, b, s) ==
  UNION {LET i == f.ins[v] IN {Key(f, i.args[j]) : j \in {k \in DOMAIN i.to : i.to[k] = b}} :
           v \in Phis(f, s)}

\* Of [in, out], the live keys at the borders of each block, one more round.
LiveRound(f, usedef, live) ==
  LET Out(b) == UNION {live.in[s] \cup PhiReads(f, b, s) : s \in ToSet(f.succs[b])}
      out == Evaluated([b \in BlockSet(f) |-> live.out[b] \cup Out(b)])
  IN [out |-> out,
      in |-> Evaluated([b \in BlockSet(f) |-> usedef[b].use \cup (out[b] \ usedef[b].def)])]

LiveFrom(f, usedef) ==
  FoldLeft(LAMBDA live, b : LiveRound(f, usedef, live),
           [in |-> [b \in BlockSet(f) |-> {}], out |-> [b \in BlockSet(f) |-> {}]],
           f.blocks \o f.blocks)

Live(f) == LiveFrom(f, Evaluated([b \in BlockSet(f) |-> UseDef(f, b)]))

\* <<v, keys>> for each instruction v of block b, keys those live after it.
LiveAfter(f, b, out) ==
  FoldRight(LAMBDA v, w : [keys |-> (w.keys \ {Key(f, v)}) \cup Reads(f, v),
                           at |-> w.at \cup {<<v, w.keys>>}],
            f.code[b], [keys |-> out \cup Reads(f, f.term[b]), at |-> {}]).at

\* Pairs of keys that are live together, in either order.
Interference(f, live) ==
  LET params == {Key(f, v) : v \in {w \in DOMAIN f.ins : f.ins[w].op = "param"}}
      InBlock(b) ==
        (live.out[b] \X live.out[b])
          \cup UNION {{Key(f, w[1])} \X w[2] : w \in LiveAfter(f, b, live.out[b])}
  IN (params \X (live.in[Entry(f)] \cup params)) \cup UNION {InBlock(b) : b \in BlockSet(f)}

Interferes(edges, j, k) == j # k /\ (<<j, k>> \in edges \/ <<k, j>> \in edges)
=============================================================================
