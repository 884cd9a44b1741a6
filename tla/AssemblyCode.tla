---------------------------- MODULE AssemblyCode ----------------------------
(***************************************************************************)
(* The lines of 6809 assembly code that the backend writes for a function, *)
(* and what the processor does with them.  Memory is a set of numbered     *)
(* slots; of the flags, Z and C are kept, which decide all branches but    *)
(* those of signed comparisons.                                            *)
(***************************************************************************)
EXTENDS Integers, Sequences, SequencesExt, TLC

CONSTANTS ByteMod,   \* 2 to the width of B
          MaxSteps   \* a run is given up after the square of this many lines

ASSUME MachineAssumption == ByteMod \in Nat \ {0} /\ MaxSteps \in Nat

WordMod == ByteMod * ByteMod

\* Labels: .L_f_b1 and so on are the blocks'; .LL1 and so on are made by nextLabel,
\* the j-th for instruction i of block b, or for its terminator if i is 0.
BlockLabel(b) == <<b, 0, 0>>
NextLabel(b, i, j) == <<b, i, j>>
NoLabel == <<0, 0, 0>>

Jumps == {"bra", "lbra"}
Conditionals == {"bcc", "lbcc"}
Branches == Jumps \cup Conditionals
ConditionCodes == {"eq", "ne", "lo", "hs", "ls", "hi"}

\* A line: register or condition, the label it stands for or goes to, the slot,
\* the number.
Lines ==
  [op : Branches \cup {"label", "ld", "ldimm", "st", "add", "cmpd", "tst", "clr", "tfrd", "tfrx",
                       "pshs", "puls", "leas", "ldx", "stx", "jsr", "rts"},
   r : ConditionCodes \cup {"d", "x", "b", "s", ""}, to : Nat \X Nat \X Nat, m : Nat, n : Int]

Line(op, r, to, m, n) == [op |-> op, r |-> r, to |-> to, m |-> m, n |-> n]

Label(l) == Line("label", "", l, 0, 0)
Bra(l) == Line("bra", "", l, 0, 0)
LBra(l) == Line("lbra", "", l, 0, 0)
Bcc(k, l) == Line("bcc", k, l, 0, 0)
LBcc(k, l) == Line("lbcc", k, l, 0, 0)
Ld(r, m) == Line("ld", r, NoLabel, m, 0)
LdImm(r, n) == Line("ldimm", r, NoLabel, 0, n)
St(r, m) == Line("st", r, NoLabel, m, 0)
AddImm(r, n) == Line("add", r, NoLabel, 0, n)
CmpImm(n) == Line("cmpd", "d", NoLabel, 0, n)
TstB == Line("tst", "b", NoLabel, 0, 0)
ClrB == Line("clr", "b", NoLabel, 0, 0)
Tfr(q, r) == Line(IF q = "d" THEN "tfrd" ELSE "tfrx", r, NoLabel, 0, 0)
Pshs(r) == Line("pshs", r, NoLabel, 0, 0)
Leas(n) == Line("leas", "s", NoLabel, 0, n)      \* n words up
LdAtX == Line("ldx", "d", NoLabel, 0, 0)         \* ldd ,x
StAtX == Line("stx", "d", NoLabel, 0, 0)         \* std ,x
Jsr == Line("jsr", "", NoLabel, 0, 0)
Rts == Line("rts", "", NoLabel, 0, 0)

\* condInverses and invertCondOp.
InvertCondOp(k) ==
  CASE k = "eq" -> "ne" [] k = "ne" -> "eq" [] k = "lo" -> "hs" [] k = "hs" -> "lo"
    [] k = "ls" -> "hi" [] k = "hi" -> "ls"

Holds(k, z, c) ==
  CASE k = "eq" -> z [] k = "ne" -> ~z [] k = "lo" -> c [] k = "hs" -> ~c
    [] k = "ls" -> c \/ z [] k = "hi" -> ~(c \/ z)

LabelsOf(code) == {i.to : i \in {j \in ToSet(code) : j.op = "label"}}

-----------------------------------------------------------------------------
\* Running lines.  stack grows at its end; a called function sees the word on
\* top and leaves its result in D and junk in X.

Low(x) == x % ByteMod

GetReg(p, r) == CASE r = "d" -> p.d [] r = "x" -> p.x [] r = "b" -> Low(p.d)

SetReg(p, r, v) ==
  CASE r = "d" -> [p EXCEPT !.d = v]
    [] r = "x" -> [p EXCEPT !.x = v]
    [] r = "b" -> [p EXCEPT !.d = @ - Low(@) + Low(v)]

Flags(p, v) == [p EXCEPT !.z = (v = 0)]

Add(p, r, n) ==
  LET sum == GetReg(p, r) + n
      mod == IF r = "b" THEN ByteMod ELSE WordMod
  IN Flags([SetReg(p, r, sum % mod) EXCEPT !.c = sum >= mod], sum % mod)

CallOut(p) ==
  [p EXCEPT !.seen = Append(@, Last(p.stack)), !.d = (Len(p.seen) + 2) % WordMod, !.x = 0]

\* Line i, that is not a branch.
Do(p, i) ==
  CASE i.op = "ld" -> Flags(SetReg(p, i.r, p.mem[i.m]), p.mem[i.m])
    [] i.op = "ldimm" -> Flags(SetReg(p, i.r, i.n), i.n)
    [] i.op = "st" -> Flags([p EXCEPT !.mem[i.m] = GetReg(p, i.r)], GetReg(p, i.r))
    [] i.op = "ldx" -> Flags([p EXCEPT !.d = p.mem[p.x]], p.mem[p.x])
    [] i.op = "stx" -> Flags([p EXCEPT !.mem[p.x] = p.d], p.d)
    [] i.op = "add" -> Add(p, i.r, i.n)
    [] i.op = "cmpd" -> [p EXCEPT !.z = (p.d = i.n), !.c = p.d < i.n]
    [] i.op = "tst" -> Flags(p, Low(p.d))
    [] i.op = "clr" -> [Flags(SetReg(p, "b", 0), 0) EXCEPT !.c = FALSE]
    [] i.op = "tfrd" -> SetReg(p, i.r, p.d)
    [] i.op = "tfrx" -> SetReg(p, i.r, p.x)
    [] i.op = "pshs" -> [p EXCEPT !.stack = Append(@, p.d)]
    [] i.op = "puls" -> [SetReg(p, i.r, Last(p.stack)) EXCEPT !.stack = Front(@)]
    [] i.op = "leas" ->
         [p EXCEPT !.stack = IF i.n < 0 THEN @ \o [j \in 1 .. -i.n |-> 0]
                             ELSE SubSeq(@, 1, Len(@) - i.n)]
    [] i.op = "jsr" -> CallOut(p)
    [] OTHER -> p

\* at: for each label the place of its line.
StepCode(code, at, p) ==
  LET i == code[p.pc]
  IN CASE i.op \in Jumps -> [p EXCEPT !.pc = at[i.to]]
       [] i.op \in Conditionals -> [p EXCEPT !.pc = IF Holds(i.r, p.z, p.c) THEN at[i.to] ELSE @ + 1]
       [] i.op = "rts" -> [p EXCEPT !.done = TRUE]
       [] OTHER -> [Do(p, i) EXCEPT !.pc = @ + 1]

Start(mem) ==
  [d |-> 0, x |-> 0, z |-> FALSE, c |-> FALSE, mem |-> mem, stack |-> <<>>,
   seen |-> <<>>, pc |-> 1, done |-> FALSE]

Ended(code, p) == p.done \/ p.pc > Len(code)

\* MaxSteps strides of MaxSteps lines.
RunFrom(code, at, mem) ==
  LET Stride(p) == FoldLeft(LAMBDA q, n : IF Ended(code, q) THEN q ELSE StepCode(code, at, q),
                            p, [n \in 1 .. MaxSteps |-> n])
  IN FoldLeft(LAMBDA p, n : IF Ended(code, p) THEN p ELSE Stride(p),
              Start(mem), [n \in 1 .. MaxSteps |-> n])

\* What is seen of a run: what the calls saw, and the result, which D and X have.
\* If they differ, or the stack is not as it was, the result is no word.
Outcome(code, mem) ==
  LET at == [l \in LabelsOf(code) |-> SelectInSeq(code, LAMBDA i : i = Label(l))] @@ <<>>
      p == RunFrom(code, at, mem)
  IN [seen |-> p.seen, done |-> p.done, stack |-> p.stack,
      result |-> IF p.done /\ p.x = p.d THEN p.x ELSE WordMod]
=============================================================================
