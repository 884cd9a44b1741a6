---------------------------- MODULE ScalarPasses ----------------------------
(***************************************************************************)
(* The passes that rewrite instructions and leave the control flow graph   *)
(* alone: store-load forwarding (opt/store_load.go, opt/escape.go),        *)
(* constant folding (opt/constfold.go), dead code elimination              *)
(* (opt/dce.go), copy propagation (opt/copyprop.go), common subexpression  *)
(* elimination (opt/cse.go), strength reduction (opt/strength.go) and phi  *)
(* simplification (opt/phisimp.go).  A pass maps a function to             *)
(* [fn |-> the function it leaves, changed |-> what it reports].           *)
(***************************************************************************)
EXTENDS IR

Pass(f, changed) == [fn |-> f, changed |-> changed]

\* Step(r, v) for every instruction v of every block of r.fn, in order.  A step
\* may rewrite any instruction; the blocks keep theirs until the sweep is over.
OverInstructions(Step(_, _), r) ==
  FoldLeft(LAMBDA s, b : FoldLeft(Step, s, r.fn.code[b]), r, r.fn.blocks)

\* f without the instructions in gone.
Deleting(f, gone) ==
  [f EXCEPT !.code = Evaluated([b \in DOMAIN @ |->
     IF b \in BlockSet(f) THEN SelectSeq(@[b], LAMBDA v : v \notin gone) ELSE @[b]])]

-----------------------------------------------------------------------------
\* Store-load forwarding.

\* The addresses of locals used other than as the pointer of a load or store.
EscapingAOL(f) ==
  {a \in DOMAIN f.ins : f.ins[a].op = "aol" /\
     \E v \in Placed(f) : LET i == f.ins[v] IN
       \E j \in DOMAIN i.args : i.args[j] = a /\ ~(i.op \in {"load", "store"} /\ j = 1)}

\* A store or a call: the pointers loaded since the last one are no longer
\* known, and neither is what it may overwrite.
Forget(s, i) ==
  [s EXCEPT !.avail = <<>>,
            !.known = Evaluated([a \in DOMAIN @ \ (s.escaping \cup
                         IF i.op = "store" THEN {i.args[1]} ELSE {}) |-> @[a]])]

\* s.known: the value last stored through, or loaded through, the address of a
\* local; s.avail: for a pointer, a load of it that no store or call followed.
ForwardInto(s, v) ==
  LET i == s.fn.ins[v]
      p == i.args[1]
      Private(a) == s.fn.ins[a].op = "aol" /\ a \notin s.escaping
      Forwarded(t, x) == [t EXCEPT !.fn = ReplaceUsesOf(@, v, x), !.gone = @ \cup {v},
                                   !.changed = TRUE]
      Known(t) == IF Private(p) THEN [t EXCEPT !.known = p :> v @@ @] ELSE t
  IN CASE i.op = "store" ->
            LET t == Forget(s, i)
            IN IF Private(p) THEN [t EXCEPT !.known = p :> i.args[2] @@ @] ELSE t
       [] i.op = "call" -> Forget(s, i)
       [] i.op = "load" /\ Private(p) /\ p \in DOMAIN s.known -> Forwarded(s, s.known[p])
       [] i.op = "load" /\ ~(Private(p) /\ p \in DOMAIN s.known) ->
            IF p \in DOMAIN s.avail THEN Forwarded(Known(s), s.avail[p])
            ELSE [Known(s) EXCEPT !.avail = p :> v @@ @]
       [] OTHER -> s

\* A block with one predecessor starts with the loads available at its end, if
\* that block came before it.
StoreLoadForwardingPass(f) ==
  LET Start(s, b) ==
        LET q == f.preds[b] IN
        [s EXCEPT !.known = <<>>,
                  !.avail = IF Len(q) = 1 /\ q[1] \in DOMAIN s.out THEN s.out[q[1]] ELSE <<>>]
      OverBlock(s, b) ==
        LET t == FoldLeft(ForwardInto, Start(s, b), f.code[b])
        IN [t EXCEPT !.out = b :> t.avail @@ @]
      end == FoldLeft(OverBlock,
               [fn |-> f, changed |-> FALSE, gone |-> {}, known |-> <<>>, avail |-> <<>>,
                out |-> <<>>, escaping |-> EscapingAOL(f)], f.blocks)
  IN Pass(Deleting(end.fn, end.gone), end.changed)

-----------------------------------------------------------------------------
\* Constant folding: at the width of ConstWord.Val.

FoldBinaryOp(f, i) ==
  LET l == f.ins[i.args[1]]
      r == f.ins[i.args[2]]
      Zero(x) == x.op = "const" /\ x.n = 0
  IN IF l.op = "const" /\ r.op = "const"
       THEN IF i.k = "div" /\ r.n = 0 THEN {} ELSE {Arith(i.k, l.n, r.n, HostMod)}
     ELSE IF i.k = "mul" /\ (Zero(l) \/ Zero(r)) THEN {0}
     ELSE IF i.k = "sub" /\ i.args[1] = i.args[2] THEN {0}
     ELSE {}

FoldCompare(f, i) ==
  LET l == f.ins[i.args[1]]
      r == f.ins[i.args[2]]
  IN IF l.op = "const" /\ r.op = "const" THEN {Bit(Truth(i.k, l.n, r.n))}
     ELSE IF i.args[1] = i.args[2] THEN {Bit(Truth(i.k, 0, 0))}
     ELSE {}

\* The constant that replaces an instruction, if any.
Folded(f, i) ==
  CASE i.op = "bin" -> FoldBinaryOp(f, i)
    [] i.op = "cmp" -> FoldCompare(f, i)
    [] OTHER -> {}

ConstFoldPass(f) ==
  OverInstructions(LAMBDA r, v :
    IF Folded(r.fn, r.fn.ins[v]) = {} THEN r
    ELSE Pass([r.fn EXCEPT !.ins[v] =
                 Ins("const", <<>>, <<>>, "", CHOOSE n \in Folded(r.fn, @) : TRUE)], TRUE),
    Pass(f, FALSE))

-----------------------------------------------------------------------------
\* Dead code elimination: one sweep, by the uses counted before it.

\* Mutant: a division is kept, because it may fail.
HasSideEffectsOrFails(i) ==
  i.op \in {"store", "call"} \cup Terminators \/ (i.op = "bin" /\ i.k = "div")

HasSideEffects(i) == i.op \in {"store", "call"} \cup Terminators

DCEPass(f) ==
  LET dead == {v \in UNION {ToSet(f.code[b]) : b \in BlockSet(f)} :
                 v \notin Used(f) /\ ~HasSideEffects(f.ins[v])}
  IN Pass(Deleting(f, dead), dead # {})

-----------------------------------------------------------------------------
\* Copy propagation: an identity's uses become uses of its operand; the
\* instruction stays, and a change is reported as long as it is there.

SimplifyBinaryOp(f, i) ==
  LET Is(v, n) == IsConst(f, v) /\ f.ins[v].n = n
  IN IF \/ i.k \in {"add", "sub", "shl", "shr"} /\ Is(i.args[2], 0)
        \/ i.k \in {"mul", "div"} /\ Is(i.args[2], 1)
       THEN {i.args[1]}
     ELSE IF \/ i.k = "add" /\ Is(i.args[1], 0)
             \/ i.k = "mul" /\ Is(i.args[1], 1)
       THEN {i.args[2]}
     ELSE {}

CopyPropPass(f) ==
  OverInstructions(LAMBDA r, v :
    LET i == r.fn.ins[v]
        same == IF i.op = "bin" THEN SimplifyBinaryOp(r.fn, i) ELSE {}
    IN IF same = {} THEN r
       ELSE Pass(ReplaceUsesOf(r.fn, v, CHOOSE x \in same : TRUE), TRUE),
    Pass(f, FALSE))

-----------------------------------------------------------------------------
\* Common subexpressions of a block; the replaced instruction stays.

ValueKey(f, v) == IF IsConst(f, v) THEN <<"const", f.ins[v].n>> ELSE <<"value", v>>

ExprKey(f, i) ==
  CASE i.op \in {"bin", "cmp"} ->
         LET k == <<ValueKey(f, i.args[1]), ValueKey(f, i.args[2])>>
         IN {<<i.op, i.k, IF i.k \in {"add", "mul", "eq"} THEN ToSet(k) ELSE k>>}
    [] i.op = "aol" -> {<<"aol", i.args[1]>>}
    [] OTHER -> {}

CSEPass(f) ==
  LET Step(s, v) ==
        LET key == ExprKey(s.fn, s.fn.ins[v])
            first == {e \in s.seen : {e[1]} = key}
        IN IF key = {} THEN s
           ELSE IF first = {} THEN [s EXCEPT !.seen = @ \cup {<<CHOOSE x \in key : TRUE, v>>}]
           ELSE [s EXCEPT !.fn = ReplaceUsesOf(@, v, (CHOOSE e \in first : TRUE)[2]),
                          !.changed = TRUE]
      OverBlock(r, b) ==
        LET end == FoldLeft(Step, [fn |-> r.fn, changed |-> r.changed, seen |-> {}], f.code[b])
        IN Pass(end.fn, end.changed)
  IN FoldLeft(OverBlock, Pass(f, FALSE), f.blocks)

-----------------------------------------------------------------------------
\* Strength reduction: the shift count is a new constant that is in no block.

Log2(n) == {k \in 1 .. n : 2 ^ k = n}

Reduce(r, v) ==
  LET f == r.fn
      i == f.ins[v]
      Shift(k, x, n) ==
        Pass([AddObject(f, NextId(f), Ins("const", <<>>, <<>>, "", CHOOSE e \in Log2(n) : TRUE))
                EXCEPT !.ins[v] = [i EXCEPT !.k = k, !.args = <<x, NextId(f)>>]], TRUE)
      Power(x) == IsConst(f, x) /\ Log2(f.ins[x].n) # {}
  IN IF i.op # "bin" THEN r
     ELSE IF i.k = "mul" /\ Power(i.args[2]) THEN Shift("shl", i.args[1], f.ins[i.args[2]].n)
     ELSE IF i.k = "div" /\ Power(i.args[2]) THEN Shift("shr", i.args[1], f.ins[i.args[2]].n)
     ELSE IF i.k = "mul" /\ Power(i.args[1]) THEN Shift("shl", i.args[2], f.ins[i.args[1]].n)
     ELSE r

StrengthReductionPass(f) == OverInstructions(Reduce, Pass(f, FALSE))

-----------------------------------------------------------------------------
\* Phi simplification: a phi whose operands, other than itself, are one value.

SimplifyPhi(i, v) ==
  LET others == ToSet(i.args) \ {v}
  IN IF i.op = "phi" /\ \E x \in others : others = {x} THEN others ELSE {}

PhiSimpPass(f) ==
  LET Step(s, v) ==
        LET value == SimplifyPhi(s.fn.ins[v], v)
        IN IF value = {} THEN s
           ELSE [fn |-> ReplaceUsesOf(s.fn, v, CHOOSE x \in value : TRUE),
                 changed |-> TRUE, gone |-> s.gone \cup {v}]
      end == OverInstructions(Step, [fn |-> f, changed |-> FALSE, gone |-> {}])
  IN Pass(Deleting(end.fn, end.gone), end.changed)
=============================================================================
