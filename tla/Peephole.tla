------------------------------ MODULE Peephole ------------------------------
(***************************************************************************)
(* peepholeOptimize (m6809/peephole.go): four passes over the lines of the *)
(* code, again and again until none of them changes anything.  The first   *)
(* looks at each line with the one or two it has kept before it.  Left out *)
(* are the lines for U, Y and A, the ways to fold an address increment     *)
(* into a load or store, which the backend does not write next to one, and *)
(* comments.                                                               *)
(***************************************************************************)
EXTENDS AssemblyCode

\* A pass returns the code, whether it changed it, and whether it ended in a
\* slice out of range.
Passed(code, changed) == [code |-> code, changed |-> changed, panic |-> FALSE]

TrivialMath(i) == i = AddImm("d", 0) \/ i = Leas(0)

Before(code, n) == IF Len(code) >= n THEN code[Len(code) - n + 1] ELSE Rts

SetsFlagsOfB(i) == i.r = "b" /\ i.op \in {"ld", "ldimm", "st", "add", "clr"}

\* What prev left in the register of load i.
Redundant(prev, i) == i.op = "ld" /\ prev.op = "st" /\ prev.r = i.r /\ prev.m = i.m

Moved(prev, i) ==
  /\ i.op = "ld" /\ prev.op = "st" /\ prev.m = i.m
  /\ <<prev.r, i.r>> \in {<<"d", "x">>, <<"x", "d">>}

\* The rules for line i after prev; each has lines to put for the two of them.
Window(prev, i) ==
  CASE prev = Pshs("d") /\ i.op = "puls" /\ i.r = "d" -> <<<<>>>>
    [] prev = Pshs("d") /\ i.op = "puls" /\ i.r = "x" -> <<<<Tfr("d", "x")>>>>
    [] prev.op = "leas" /\ i.op = "leas" ->
         <<IF prev.n + i.n = 0 THEN <<>> ELSE <<Leas(prev.n + i.n)>>>>
    [] prev = Tfr("d", "x") /\ i = Tfr("x", "d") -> <<<<prev>>>>
    [] i = TstB /\ SetsFlagsOfB(prev) -> <<<<prev>>>>
    [] i.op = "st" /\ i = prev -> <<<<prev>>>>
    [] Redundant(prev, i) -> <<<<prev>>>>
    [] Moved(prev, i) -> <<<<prev, Tfr(prev.r, i.r)>>>>
    [] OTHER -> <<>>

\* A load of what was stored before a conditional branch.
LoadedAcross(prev2, prev, i) ==
  prev.op \in Conditionals /\ i.r \in {"b", "d"} /\ Redundant(prev2, i)

BranchToNext(prev, i) == prev.op \in Jumps /\ i = Label(prev.to)

BranchOverJump(prev2, prev, i) ==
  prev.op \in Jumps /\ prev2.op \in Conditionals /\ i = Label(prev2.to)

\* Both rules may fire, but the jump can only be removed once: the second removal
\* is beyond the end of what is kept.
AtLabel(s, i) ==
  LET prev == Before(s.code, 1)
      prev2 == Before(s.code, 2)
      next == BranchToNext(prev, i)
      over == BranchOverJump(prev2, prev, i)
      kept == IF over THEN SubSeq(s.code, 1, Len(s.code) - 2) \o <<LBcc(InvertCondOp(prev2.r), prev.to)>>
              ELSE IF next THEN Front(s.code) ELSE s.code
  IN [code |-> Append(kept, i), changed |-> s.changed \/ next \/ over,
      panic |-> s.panic \/ (next /\ over)]

Slide(s, i) ==
  LET window == Window(Before(s.code, 1), i)
  IN IF s.panic THEN s
     ELSE IF TrivialMath(i) \/ LoadedAcross(Before(s.code, 2), Before(s.code, 1), i)
       THEN [s EXCEPT !.changed = TRUE]
     ELSE IF window # <<>>
       THEN [s EXCEPT !.changed = TRUE, !.code = Front(@) \o window[1]]
     ELSE IF i.op = "label" THEN AtLabel(s, i)
     ELSE [s EXCEPT !.code = Append(@, i)]

SlidingWindow(code) == FoldLeft(Slide, Passed(<<>>, FALSE), code)

\* The labels that the lines whose operation is in ops go to.
TargetsOf(code, ops) == {i.to : i \in {j \in ToSet(code) : j.op \in ops}}

KeepLabels(code, used) ==
  FoldLeft(LAMBDA kept, i : IF i.op # "label" \/ i.to \in used THEN Append(kept, i) ELSE kept,
           <<>>, code)

\* Mutant: a label that only conditional branches go to is dropped.
DropUnjumpedLabels(code) ==
  LET kept == KeepLabels(code, TargetsOf(code, Jumps)) IN Passed(kept, kept # code)

\* Labels that no line goes to.
DropUnusedLabels(code) ==
  LET kept == KeepLabels(code, TargetsOf(code, Branches)) IN Passed(kept, kept # code)

\* Mutant: a jump to itself counts too.
LabelTargetItself(code, l) ==
  LET at == SelectInSeq(code, LAMBDA i : i = Label(l))
  IN IF at \in 1 .. Len(code) - 1 /\ code[at + 1].op \in Jumps THEN <<code[at + 1].to>> ELSE <<>>

\* Label l is followed by a jump elsewhere: <<where>>, else <<>>.
LabelTarget(code, l) ==
  LET at == SelectInSeq(code, LAMBDA i : i = Label(l))
  IN IF at \in 1 .. Len(code) - 1 /\ code[at + 1].op \in Jumps /\ code[at + 1].to # l
       THEN <<code[at + 1].to>> ELSE <<>>

Long(op) == CASE op = "bra" -> "lbra" [] op = "bcc" -> "lbcc" [] OTHER -> op

\* A branch to a jump goes where the jump goes.
ThreadJumps(code) ==
  LET Threaded(i) == i.op \in Branches /\ LabelTarget(code, i.to) # <<>>
  IN Passed([j \in DOMAIN code |->
               IF Threaded(code[j])
                 THEN [code[j] EXCEPT !.op = Long(@), !.to = LabelTarget(code, @)[1]]
               ELSE code[j]],
            \E i \in ToSet(code) : Threaded(i))

\* What follows a jump or a return, up to the next label.
DropUnreachable(code) ==
  LET Step(s, i) ==
        IF i.op # "label" /\ s.unreachable THEN s
        ELSE [code |-> Append(s.code, i), unreachable |-> i.op \in Jumps \cup {"rts"}]
      kept == FoldLeft(Step, [code |-> <<>>, unreachable |-> FALSE], code).code
  IN Passed(kept, kept # code)
=============================================================================
