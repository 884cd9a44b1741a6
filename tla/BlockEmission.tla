---------------------------- MODULE BlockEmission ----------------------------
(***************************************************************************)
(* The code that the M6809 backend writes for the blocks of a function     *)
(* (m6809/backend.go): the loop of emitFunc over the blocks, the usual     *)
(* instructions with every value in its slot, and the terminators, whose   *)
(* branches depend on which block comes next and on which edges have phis. *)
(* While it writes, the backend keeps track of the value that is in D or B *)
(* and does not load it again.                                             *)
(*                                                                         *)
(* A function has a frame of f.frame words, blocks f.body (sequences of    *)
(* operations) with terminators f.term, and the moves that the phis of an  *)
(* edge need, f.moves: from <<from, to>> to sequences of [dst, src].       *)
(* f.bytes are the slots of bytes, f.taken those of locals whose address   *)
(* is taken.  What is written depends on c: the function c.f, c.layout     *)
(* (-no-branch-layout6809 is absent) and c.track (NoLocalRegAlloc is not   *)
(* set).                                                                   *)
(***************************************************************************)
EXTENDS AssemblyCode

CONSTANT MaxBlocks  \* the meaning of a function is given up after so many blocks

ASSUME EmissionAssumption == MaxBlocks \in Nat

Operation(op, dst, src, k, n) == [op |-> op, dst |-> dst, src |-> src, k |-> k, n |-> n]

Blocks(f) == DOMAIN f.body

Comparisons == {"eq", "neq", "lt", "lte", "gt", "gte"}

Operations ==
  {o \in [op : {"const", "add", "compare", "call", "callvoid", "load", "store", "loadptr", "storeptr"},
          dst : Nat, src : Nat, k : Comparisons \cup {""}, n : Int] :
     o.op = "compare" => o.k # ""}

\* What the backend is given: slots are numbered from 1, comparisons compare, and a
\* terminator has the targets its kind needs, which are blocks of the function.
WellFormed(f) ==
  /\ f.frame \in Nat
  /\ f.body \in Seq(Seq(Operations))
  /\ f.term \in [Blocks(f) -> [op : {"jump", "return", "returnvoid", "test", "branch"},
                               to : Seq(Blocks(f)), src : Nat, k : Comparisons \cup {""}, n : Int]]
  /\ \A b \in Blocks(f) :
       /\ f.term[b].op = "jump" => Len(f.term[b].to) = 1
       /\ f.term[b].op \in {"test", "branch"} => Len(f.term[b].to) = 2
       /\ f.term[b].op = "branch" => f.term[b].k # ""
  /\ \A e \in DOMAIN f.moves : f.moves[e] \in Seq([dst : Nat, src : Nat])

-----------------------------------------------------------------------------
\* The state of the emission: the lines, and the slots whose values D and B are
\* known to hold, or 0.
Empty == [code |-> <<>>, inD |-> 0, inB |-> 0]
Write(s, lines) == [s EXCEPT !.code = @ \o lines]
ClobberAllRegs(s) == [s EXCEPT !.inD = 0, !.inB = 0]

CanTrack(c, v) == c.track /\ v \notin c.f.taken

SetD(c, s, v) == [s EXCEPT !.inD = IF CanTrack(c, v) THEN v ELSE 0, !.inB = 0]
SetB(c, s, v) == [s EXCEPT !.inB = IF CanTrack(c, v) THEN v ELSE 0, !.inD = 0]

LoadVal(c, s, v) ==
  IF v \in {s.inD, s.inB} THEN s
  ELSE IF v \in c.f.bytes THEN SetB(c, Write(s, <<Ld("b", v)>>), v)
  ELSE SetD(c, Write(s, <<Ld("d", v)>>), v)

\* loadVal16 to X.
LoadX(s, v) == Write(s, IF s.inD = v THEN <<Tfr("d", "x")>> ELSE <<Ld("x", v)>>)

StoreResult(c, s, v) ==
  IF v \in c.f.bytes THEN SetB(c, Write(s, <<St("b", v)>>), v)
  ELSE SetD(c, Write(s, <<St("d", v)>>), v)

-----------------------------------------------------------------------------
\* The branch condition for an unsigned comparison.
CondOp(k) ==
  CASE k = "eq" -> "eq" [] k = "neq" -> "ne" [] k = "lt" -> "lo" [] k = "lte" -> "ls"
    [] k = "gt" -> "hi" [] k = "gte" -> "hs"

\* The same against zero, where "lt" and "gte" are decided.
CondOpZero(k) == IF k \in {"eq", "lte"} THEN "eq" ELSE "ne"

EmitCompare(c, s, o, b, i) ==
  LET true == NextLabel(b, i, 1)
      end == NextLabel(b, i, 2)
      branch == IF o.n # 0 THEN <<Bcc(CondOp(o.k), true)>>
                ELSE IF o.k = "lt" THEN <<>>
                ELSE IF o.k = "gte" THEN <<Bra(true)>>
                ELSE <<Bcc(CondOpZero(o.k), true)>>
  IN StoreResult(c, Write(LoadVal(c, s, o.src),
                          <<CmpImm(o.n)>> \o branch
                            \o <<ClrB, Bra(end), Label(true), LdImm("b", 1), Label(end)>>), o.dst)

\* emitCallInstr with one argument on the stack.
EmitCall(c, s, v) ==
  Write(ClobberAllRegs(Write(LoadVal(c, s, v), <<Pshs("d"), Jsr>>)), <<Leas(1)>>)

\* const initializes a local whose address is taken; load and store are of a
\* global or, by its address, of a local.
EmitInstr(c, s, o, b, i) ==
  CASE o.op = "const" -> StoreResult(c, Write(s, <<LdImm("d", o.n)>>), o.dst)
    [] o.op = "add" ->
         StoreResult(c, Write(LoadVal(c, s, o.src), IF o.n = 0 THEN <<>> ELSE <<AddImm("d", o.n)>>), o.dst)
    [] o.op = "compare" -> EmitCompare(c, s, o, b, i)
    [] o.op = "call" -> StoreResult(c, EmitCall(c, s, o.src), o.dst)
    [] o.op = "callvoid" -> EmitCall(c, s, o.src)
    [] o.op = "load" -> StoreResult(c, Write(s, <<Ld("d", o.src)>>), o.dst)
    [] o.op = "store" -> Write(LoadVal(c, s, o.src), <<St("d", o.dst)>>)
    [] o.op = "loadptr" -> StoreResult(c, Write(LoadX(s, o.src), <<LdAtX>>), o.dst)
    [] o.op = "storeptr" -> Write(LoadX(LoadVal(c, s, o.src), o.dst), <<StAtX>>)

HasPhiAssignments(f, from, to) == <<from, to>> \in DOMAIN f.moves

\* Mutant: what the last move left in D is still known.
EmitPhiAssignmentsKept(c, s, from, to) ==
  IF HasPhiAssignments(c.f, from, to)
    THEN FoldLeft(LAMBDA r, v : Write(LoadVal(c, r, v.src), <<St("d", v.dst)>>), s, c.f.moves[<<from, to>>])
    ELSE s

EmitPhiAssignments(c, s, from, to) ==
  IF HasPhiAssignments(c.f, from, to)
    THEN ClobberAllRegs(FoldLeft(LAMBDA r, v : Write(LoadVal(c, r, v.src), <<St("d", v.dst)>>),
                                 s, c.f.moves[<<from, to>>]))
    ELSE s

EmitJump(c, s, b, to) ==
  Write(EmitPhiAssignments(c, s, b, to), IF ~c.layout \/ to # b + 1 THEN <<LBra(BlockLabel(to))>> ELSE <<>>)

\* Block near comes next; the branch goes to far if k.
FallThrough(c, s, b, near, far, k) ==
  LET away == NextLabel(b, 0, 1)
      end == NextLabel(b, 0, 2)
      Branched(l) == EmitPhiAssignments(c, Write(s, <<LBcc(k, l)>>), b, near)
  IN IF ~HasPhiAssignments(c.f, b, far) THEN Branched(BlockLabel(far))
     ELSE Write(EmitPhiAssignments(c, Write(Branched(away), <<LBra(end), Label(away)>>), b, far),
                <<LBra(BlockLabel(far)), Label(end)>>)

\* emitBranchWithLayout: to block t if k, else to block e.
EmitBranchWithLayout(c, s, b, t, e, k) ==
  LET true == NextLabel(b, 0, 1)
      else == EmitPhiAssignments(c, Write(s, <<LBcc(k, true)>>), b, e)
  IN IF c.layout /\ t = b + 1 THEN FallThrough(c, s, b, t, e, InvertCondOp(k))
     ELSE IF c.layout /\ e = b + 1 THEN FallThrough(c, s, b, e, t, k)
     ELSE IF c.layout /\ ~HasPhiAssignments(c.f, b, t) /\ ~HasPhiAssignments(c.f, b, e)
       THEN Write(s, <<LBcc(k, BlockLabel(t)), LBra(BlockLabel(e))>>)
     ELSE Write(EmitPhiAssignments(c, Write(else, <<LBra(BlockLabel(e)), Label(true)>>), b, t), <<LBra(BlockLabel(t))>>)

\* A branch on a fused comparison, or on a byte.
EmitTerminator(c, s, b) ==
  LET t == c.f.term[b]
      Compared == Write(LoadVal(c, s, t.src), <<CmpImm(t.n)>>)
  IN CASE t.op = "jump" -> EmitJump(c, s, b, t.to[1])
       [] t.op = "return" -> Write(LoadVal(c, s, t.src), <<Tfr("d", "x"), Leas(c.f.frame), Rts>>)
       [] t.op = "returnvoid" -> Write(s, <<Leas(c.f.frame), Rts>>)
       [] t.op = "test" ->
            EmitBranchWithLayout(c, Write(LoadVal(c, s, t.src), <<TstB>>), b, t.to[1], t.to[2], "ne")
       [] t.op = "branch" ->
            IF t.n # 0 THEN EmitBranchWithLayout(c, Compared, b, t.to[1], t.to[2], CondOp(t.k))
            ELSE IF t.k = "gte" THEN EmitJump(c, Compared, b, t.to[1])
            ELSE IF t.k = "lt" THEN EmitJump(c, Compared, b, t.to[2])
            ELSE EmitBranchWithLayout(c, Compared, b, t.to[1], t.to[2], CondOpZero(t.k))

EmitBlock(c, s, b) ==
  LET instructions == FoldLeft(LAMBDA r, i : EmitInstr(c, r, c.f.body[b][i], b, i),
                               ClobberAllRegs(Write(s, <<Label(BlockLabel(b))>>)),
                               [i \in DOMAIN c.f.body[b] |-> i])
  IN EmitTerminator(c, ClobberAllRegs(instructions), b)

EmitFunc(c) ==
  FoldLeft(LAMBDA s, b : EmitBlock(c, s, b), Write(Empty, <<Leas(-c.f.frame)>>),
           [b \in Blocks(c.f) |-> b]).code

-----------------------------------------------------------------------------
\* What the function means.

\* Not a word.
NoResult == WordMod

Compares(k, x, n) ==
  CASE k = "eq" -> x = n [] k = "neq" -> x # n [] k = "lt" -> x < n [] k = "lte" -> x <= n
    [] k = "gt" -> x > n [] k = "gte" -> x >= n

Perform(q, o) ==
  CASE o.op = "const" -> [q EXCEPT !.mem[o.dst] = o.n]
    [] o.op \in {"load", "store"} -> [q EXCEPT !.mem[o.dst] = q.mem[o.src]]
    [] o.op = "loadptr" -> [q EXCEPT !.mem[o.dst] = q.mem[q.mem[o.src]]]
    [] o.op = "storeptr" -> [q EXCEPT !.mem[q.mem[o.dst]] = q.mem[o.src]]
    [] o.op = "add" -> [q EXCEPT !.mem[o.dst] = (q.mem[o.src] + o.n) % WordMod]
    [] o.op = "compare" -> [q EXCEPT !.mem[o.dst] = IF Compares(o.k, q.mem[o.src], o.n) THEN 1 ELSE 0]
    [] o.op = "call" -> [q EXCEPT !.seen = Append(@, q.mem[o.src]),
                                  !.mem[o.dst] = (Len(q.seen) + 2) % WordMod]
    [] o.op = "callvoid" -> [q EXCEPT !.seen = Append(@, q.mem[o.src])]

\* The edge to a block: the moves of a function have different destinations,
\* none of which is a source.
Goto(f, q, to) ==
  [q EXCEPT !.at = to,
            !.mem = IF HasPhiAssignments(f, q.at, to)
                      THEN FoldLeft(LAMBDA mem, v : [mem EXCEPT ![v.dst] = q.mem[v.src]],
                                    q.mem, f.moves[<<q.at, to>>])
                      ELSE @]

PerformBlock(f, q) ==
  LET r == FoldLeft(Perform, q, f.body[q.at])
      t == f.term[q.at]
  IN CASE t.op = "return" -> [r EXCEPT !.done = TRUE, !.result = r.mem[t.src]]
       [] t.op = "returnvoid" -> [r EXCEPT !.done = TRUE, !.result = NoResult]
       [] t.op = "jump" -> Goto(f, r, t.to[1])
       [] t.op = "test" -> Goto(f, r, IF r.mem[t.src] # 0 THEN t.to[1] ELSE t.to[2])
       [] t.op = "branch" -> Goto(f, r, IF Compares(t.k, r.mem[t.src], t.n) THEN t.to[1] ELSE t.to[2])

Meaning(f, mem) ==
  LET q == FoldLeft(LAMBDA r, n : IF r.done THEN r ELSE PerformBlock(f, r),
             [mem |-> mem, seen |-> <<>>, at |-> 1, done |-> FALSE, result |-> -1],
             [n \in 1 .. MaxBlocks |-> n])
  IN [seen |-> q.seen, done |-> q.done, result |-> q.result]
=============================================================================
