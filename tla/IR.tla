--------------------------------- MODULE IR ---------------------------------
(***************************************************************************)
(* A function of the intermediate representation (ir/ir.go) as the         *)
(* optimizer passes see it, and what it computes when the 6809 backend's   *)
(* code for it runs.  An instruction or terminator is an object with a     *)
(* number; a block lists the numbers of its instructions, among them, when *)
(* the builder made it, its terminator (addInstr appends it to the list    *)
(* as well as setting Terminator; the inliner only sets Terminator).       *)
(*                                                                         *)
(*   op       args                 to                k        n            *)
(*   param                                                                 *)
(*   const                                                    its value    *)
(*   bin      left, right                            operator              *)
(*   cmp      left, right                            operator              *)
(*   phi      edge values          edge blocks                             *)
(*   aol      the local                                                    *)
(*   load     pointer                                                      *)
(*   store    pointer, value                                               *)
(*   call     arguments                              inside, outside or     *)
(*                                                   indirect              *)
(*   jump                          target                                  *)
(*   branch   condition            true, false                             *)
(*   return   value                                                        *)
(*                                                                         *)
(* A call is a Call of a function of the program (inside) or of one that   *)
(* is not (outside), or an IndirectCall or BuiltinCall (indirect).         *)
(*                                                                         *)
(* All values are words; bytes, casts and aggregates are left out.  A      *)
(* constant is a 64-bit number in the compiler (ConstWord.Val) and a word  *)
(* of the target in the program.                                           *)
(***************************************************************************)
EXTENDS Naturals, Sequences, SequencesExt, TLC

CONSTANTS WordMod,   \* 2 to the width of a word of the target
          HostMod,   \* 2 to the width of ConstWord.Val
          MaxBlocks  \* a run of a function is given up after so many blocks

ASSUME ModAssumption ==
  /\ WordMod \in Nat \ {0} /\ HostMod \in Nat \ {0} /\ HostMod % WordMod = 0
  /\ MaxBlocks \in Nat

Terminators == {"jump", "branch", "return"}

Ins(op, args, to, k, n) == [op |-> op, args |-> args, to |-> to, k |-> k, n |-> n]

\* f.blocks: the blocks in order, the entry first; for each block its code, the
\* number of its terminator, its successors and predecessors.
Code(f, b) == [i \in 1 .. Len(f.code[b]) |-> f.ins[f.code[b][i]]]
Term(f, b) == f.ins[f.term[b]]
BlockSet(f) == ToSet(f.blocks)
Entry(f) == f.blocks[1]

\* The function g; its values are computed once, not at every application.
Evaluated(g) == g @@ <<>>

Replaced(s, x, y) == Evaluated([i \in DOMAIN s |-> IF s[i] = x THEN y ELSE s[i]])
Occurrences(s, x) == Len(SelectSeq(s, LAMBDA y : y = x))
MaxOf(S) == CHOOSE x \in S : \A y \in S : y <= x

\* A call of a function of the program.
IsInside(i) == i.op = "call" /\ i.k = "inside"

\* A call of a pointer or of a built-in function.
IsIndirect(i) == i.op = "call" /\ i.k = "indirect"

IsConst(f, v) == f.ins[v].op = "const"

\* A new object, numbered n.
AddObject(f, n, i) == [f EXCEPT !.ins = n :> i @@ @]
NextId(f) == MaxOf(DOMAIN f.ins) + 1

-----------------------------------------------------------------------------
\* opt.go: what the passes share.

OperandsOf(i) == i.args

\* ReplaceUsesOf; new may be the operand of old itself.
ReplaceUsesOf(f, old, new) ==
  [f EXCEPT !.ins = Evaluated([v \in DOMAIN f.ins |->
     [f.ins[v] EXCEPT !.args = Replaced(@, old, new)]])]

\* The objects in the blocks of f.
Placed(f) ==
  UNION {ToSet(f.code[b]) \cup {f.term[b]} : b \in BlockSet(f)}

\* Mutant: the terminators that are not in the code of their block are missed.
UsedInCode(f) ==
  UNION {ToSet(OperandsOf(f.ins[v])) : v \in UNION {ToSet(f.code[b]) : b \in BlockSet(f)}}

\* The values some instruction or terminator in the blocks of f uses.
Used(f) == UNION {ToSet(OperandsOf(f.ins[v])) : v \in Placed(f)}

-----------------------------------------------------------------------------
\* Running a function.  The slot of a value is also the storage of the local
\* variable that starts out with it, at the address AddressOf(v).

AddressOf(v) == 1000 + v

Arith(k, x, y, mod) ==
  CASE k = "add" -> (x + y) % mod
    [] k = "sub" -> (x + mod - y) % mod
    [] k = "mul" -> (x * y) % mod
    [] k = "div" -> x \div y
    [] k = "shl" -> (x * 2 ^ y) % mod
    [] k = "shr" -> x \div (2 ^ y)

Truth(k, x, y) ==
  CASE k = "eq" -> x = y [] k = "neq" -> x # y
    [] k = "lt" -> x < y [] k = "lte" -> x <= y

Bit(p) == IF p THEN 1 ELSE 0

\* A run: the value slots, the calls made, the block, where it came from.
Value(f, run, v) ==
  IF IsConst(f, v) THEN f.ins[v].n % WordMod ELSE run.slot[v]

SetSlot(run, v, x) == [run EXCEPT !.slot[v] = x]

\* A callee sees its arguments and what they point to, and writes there.
CallWith(f, run, v) ==
  LET x == Evaluated([j \in DOMAIN f.ins[v].args |-> Value(f, run, f.ins[v].args[j])])
      Local(a) == {l \in DOMAIN run.slot : AddressOf(l) = a}
      passed == UNION {Local(x[j]) : j \in DOMAIN x}
  IN [run EXCEPT
        !.calls = Append(@, [args |-> x, seen |-> {<<l, run.slot[l]>> : l \in passed}]),
        !.slot = Evaluated([l \in DOMAIN run.slot |->
                    IF l = v THEN (Len(run.calls) + 2) % WordMod
                    ELSE IF l \in passed THEN (run.slot[l] + 1) % WordMod
                    ELSE run.slot[l]])]

Execute(f, run, v) ==
  LET i == f.ins[v]
      x(j) == Value(f, run, i.args[j])
  IN IF run.stuck THEN run ELSE
     CASE i.op = "const" -> SetSlot(run, v, i.n % WordMod)
       [] i.op = "bin" ->
            IF i.k = "div" /\ x(2) = 0 THEN [run EXCEPT !.stuck = TRUE]
            ELSE SetSlot(run, v, Arith(i.k, x(1), x(2), WordMod))
       [] i.op = "cmp" -> SetSlot(run, v, Bit(Truth(i.k, x(1), x(2))))
       [] i.op = "aol" -> SetSlot(run, v, AddressOf(i.args[1]))
       [] i.op = "load" -> SetSlot(run, v, run.slot[x(1) - 1000])
       [] i.op = "store" -> SetSlot(run, x(1) - 1000, x(2))
       [] i.op = "call" -> CallWith(f, run, v)
       [] OTHER -> run

\* The edge into block b: its phis take their values all at once.
Phis(f, b) == {v \in ToSet(f.code[b]) : f.ins[v].op = "phi"}

EnterBlock(f, run, from, b) ==
  LET edge(v) == {j \in DOMAIN f.ins[v].to : f.ins[v].to[j] = from}
  IN IF \E v \in Phis(f, b) : edge(v) = {} THEN [run EXCEPT !.stuck = TRUE, !.at = b]
     ELSE [run EXCEPT !.at = b,
             !.slot = Evaluated([v \in DOMAIN run.slot |->
                IF v \in Phis(f, b)
                  THEN Value(f, run, f.ins[v].args[CHOOSE j \in edge(v) : TRUE])
                  ELSE run.slot[v]])]

\* Step executes an instruction.
RunBlock(f, Step(_, _), run) ==
  LET r == FoldLeft(Step, run, f.code[run.at])
      t == Term(f, run.at)
  IN IF r.stuck THEN r
     ELSE CASE t.op = "return" -> [r EXCEPT !.done = TRUE, !.result = Value(f, r, t.args[1])]
            [] t.op = "jump" -> EnterBlock(f, r, run.at, t.to[1])
            [] t.op = "branch" ->
                 EnterBlock(f, r, run.at,
                            IF Value(f, r, t.args[1]) # 0 THEN t.to[1] ELSE t.to[2])

\* f called with the arguments arg after the calls in calls.  It does nothing
\* more after a division by zero or an edge that a phi does not know.
RunFunction(f, Step(_, _), arg, calls) ==
  FoldLeft(LAMBDA run, n : IF run.done \/ run.stuck THEN run ELSE RunBlock(f, Step, run),
           [slot |-> Evaluated([v \in DOMAIN f.ins |-> IF v \in DOMAIN arg THEN arg[v] ELSE 0]),
            calls |-> calls, at |-> Entry(f), done |-> FALSE, stuck |-> FALSE, result |-> 0],
           [n \in 1 .. MaxBlocks |-> n])

\* A call of callee, which calls only functions outside the program.
CallInside(f, callee, run, v) ==
  LET end == RunFunction(callee, LAMBDA r, w : Execute(callee, r, w),
               Evaluated([j \in DOMAIN f.ins[v].args |-> Value(f, run, f.ins[v].args[j])]),
               run.calls)
  IN [SetSlot(run, v, end.result) EXCEPT !.calls = end.calls, !.stuck = ~end.done]

\* What is seen of f, which calls callee: the calls that leave the program and
\* its result.
Behaviour(f, callee, arg) ==
  LET end == RunFunction(f, LAMBDA run, v :
               IF IsInside(f.ins[v]) /\ ~run.stuck THEN CallInside(f, callee, run, v)
               ELSE Execute(f, run, v), arg, <<>>)
  IN [calls |-> end.calls, done |-> end.done, stuck |-> end.stuck, result |-> end.result]

-----------------------------------------------------------------------------
\* What every pass must leave in order.

\* The successors of a block are the targets of its terminator, the lists of
\* successors and predecessors mirror each other, and a phi has one operand for
\* each predecessor.
Consistent(f) ==
  /\ \A b \in BlockSet(f) :
       /\ f.succs[b] = Term(f, b).to
       /\ ToSet(f.succs[b]) \cup ToSet(f.preds[b]) \subseteq BlockSet(f)
       /\ \A c \in BlockSet(f) : Occurrences(f.succs[b], c) = Occurrences(f.preds[c], b)
       /\ \A v \in Phis(f, b) :
            /\ ToSet(f.ins[v].to) \subseteq ToSet(f.preds[b])
            /\ \A c \in BlockSet(f) : Occurrences(f.ins[v].to, c) = Occurrences(f.preds[b], c)

ReachedWithout(f, d) ==
  LET step(S) == S \cup UNION {ToSet(f.succs[b]) \ {d} : b \in S}
  IN FoldLeft(LAMBDA S, n : step(S), {Entry(f)} \ {d}, f.blocks)

\* Every path from the entry to block b goes through block d.
Dominates(f, d, b) == b \notin ReachedWithout(f, d)

\* A value is computed before every use, on every path to it.
UsesDominated(f) ==
  LET Defs(b) == {v \in ToSet(f.code[b]) : f.ins[v].op \notin Terminators}
      Computed(v, b) == \/ f.ins[v].op \in {"param", "const"}
                        \/ \E d \in BlockSet(f) : v \in Defs(d) /\ d # b /\ Dominates(f, d, b)
      Here(v, b, i) == \E j \in 1 .. i - 1 : f.code[b][j] = v
  IN \A b \in BlockSet(f) \cap ReachedWithout(f, 0) :
       /\ \A i \in 1 .. Len(f.code[b]) : LET x == Code(f, b)[i] IN
            x.op \notin Terminators =>
              \A j \in DOMAIN x.args :
                IF x.op = "phi"
                  THEN Computed(x.args[j], x.to[j]) \/ x.args[j] \in Defs(x.to[j])
                  ELSE Computed(x.args[j], b) \/ Here(x.args[j], b, i)
       /\ \A v \in ToSet(Term(f, b).args) : Computed(v, b) \/ v \in Defs(b)
=============================================================================
