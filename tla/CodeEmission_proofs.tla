----------------------- MODULE CodeEmission_proofs -----------------------
(***************************************************************************)
(* The code that is emitted, for functions of every size.  First its       *)
(* labels: every branch has the one label it goes to, when the code is     *)
(* written and whatever the peephole passes remove.  Then the relaxation   *)
(* of its branches: lines only shrink and only move closer to each other,  *)
(* so a branch that was made short reaches its label however much shrinks  *)
(* after it; and each pass but the last shortens a branch, so they end     *)
(* before their cap unless there are as many branches as passes.           *)
(***************************************************************************)
EXTENDS CodeEmission, NumberLemmas, FiniteSetTheorems, SequenceTheorems, TLAPS

-----------------------------------------------------------------------------
(* Lines, labels and targets.                                              *)

\* A label's line has nothing but the label, a conditional branch has a condition.
ProperLines ==
  {i \in Lines : /\ i.op = "label" => i = Label(i.to)
                 /\ i.op \in Conditionals => i.r \in ConditionCodes}

Targets(lines) == TargetsOf(lines, Branches)

UniqueLabels(lines) ==
  \A j, k \in DOMAIN lines :
    lines[j].op = "label" /\ lines[k].op = "label" /\ lines[j].to = lines[k].to => j = k

\* Every label that a branch goes to stands in the code, and none stands there twice.
Bound(lines) ==
  /\ lines \in Seq(ProperLines)
  /\ UniqueLabels(lines)
  /\ Targets(lines) \subseteq LabelsOf(lines)

LEMMA LabelIn ==
  \A lines, l : l \in LabelsOf(lines) <=> \E j \in DOMAIN lines : lines[j].op = "label" /\ lines[j].to = l
BY DEF LabelsOf, ToSet

LEMMA TargetIn ==
  \A lines, l : l \in Targets(lines) <=> \E j \in DOMAIN lines : lines[j].op \in Branches /\ lines[j].to = l
BY DEF Targets, TargetsOf, ToSet

\* The labels and targets of code that is put together.
LEMMA Joined ==
  ASSUME NEW a \in Seq(ProperLines), NEW b \in Seq(ProperLines)
  PROVE  /\ a \o b \in Seq(ProperLines)
         /\ LabelsOf(a \o b) = LabelsOf(a) \cup LabelsOf(b)
         /\ Targets(a \o b) = Targets(a) \cup Targets(b)
         /\ UniqueLabels(a) /\ UniqueLabels(b) /\ LabelsOf(a) \cap LabelsOf(b) = {} => UniqueLabels(a \o b)
         /\ UniqueLabels(a \o b) => UniqueLabels(a)
<1> DEFINE m == Len(a)
           n == Len(b)
           c == a \o b
<1>1. /\ m \in Nat /\ n \in Nat /\ DOMAIN a = 1 .. m /\ DOMAIN b = 1 .. n
      /\ c \in Seq(ProperLines) /\ DOMAIN c = 1 .. m + n
      /\ \A j \in 1 .. m : c[j] = a[j]
      /\ \A j \in 1 .. n : c[j + m] = b[j]
  OBVIOUS
<1> HIDE DEF m, n, c
<1>2. \A j \in 1 .. m : j \in 1 .. m + n
  BY <1>1
<1>3. \A j \in 1 .. n : j + m \in 1 .. m + n /\ j + m \notin 1 .. m
  BY <1>1
<1>4. \A j \in 1 .. m + n : j \notin 1 .. m => j - m \in 1 .. n /\ (j - m) + m = j
  BY <1>1
<1>5. LabelsOf(c) = LabelsOf(a) \cup LabelsOf(b)
  <2>1. ASSUME NEW l, l \in LabelsOf(c) PROVE l \in LabelsOf(a) \cup LabelsOf(b)
    <3>1. PICK j \in 1 .. m + n : c[j].op = "label" /\ c[j].to = l
      BY <1>1, <2>1, LabelIn
    <3>2. CASE j \in 1 .. m
      BY <1>1, <3>1, <3>2, LabelIn
    <3>3. CASE j \notin 1 .. m
      <4>1. c[j] = b[j - m] /\ j - m \in 1 .. n
        BY <1>1, <1>4, <3>3
      <4> QED
        BY <1>1, <3>1, <4>1, LabelIn
    <3> QED
      BY <3>2, <3>3
  <2>2. ASSUME NEW l, l \in LabelsOf(a) PROVE l \in LabelsOf(c)
    BY <1>1, <1>2, <2>2, LabelIn
  <2>3. ASSUME NEW l, l \in LabelsOf(b) PROVE l \in LabelsOf(c)
    <3>1. PICK j \in 1 .. n : b[j].op = "label" /\ b[j].to = l
      BY <1>1, <2>3, LabelIn
    <3>2. j + m \in DOMAIN c /\ c[j + m] = b[j]
      BY <1>1, <1>3
    <3> QED
      BY <3>1, <3>2, LabelIn
  <2> QED
    BY <2>1, <2>2, <2>3
<1>6. Targets(c) = Targets(a) \cup Targets(b)
  <2>1. ASSUME NEW l, l \in Targets(c) PROVE l \in Targets(a) \cup Targets(b)
    <3>1. PICK j \in 1 .. m + n : c[j].op \in Branches /\ c[j].to = l
      BY <1>1, <2>1, TargetIn
    <3>2. CASE j \in 1 .. m
      BY <1>1, <3>1, <3>2, TargetIn
    <3>3. CASE j \notin 1 .. m
      <4>1. c[j] = b[j - m] /\ j - m \in 1 .. n
        BY <1>1, <1>4, <3>3
      <4> QED
        BY <1>1, <3>1, <4>1, TargetIn
    <3> QED
      BY <3>2, <3>3
  <2>2. ASSUME NEW l, l \in Targets(a) PROVE l \in Targets(c)
    BY <1>1, <1>2, <2>2, TargetIn
  <2>3. ASSUME NEW l, l \in Targets(b) PROVE l \in Targets(c)
    <3>1. PICK j \in 1 .. n : b[j].op \in Branches /\ b[j].to = l
      BY <1>1, <2>3, TargetIn
    <3>2. j + m \in DOMAIN c /\ c[j + m] = b[j]
      BY <1>1, <1>3
    <3> QED
      BY <3>1, <3>2, TargetIn
  <2> QED
    BY <2>1, <2>2, <2>3
<1>7. ASSUME UniqueLabels(a), UniqueLabels(b), LabelsOf(a) \cap LabelsOf(b) = {} PROVE UniqueLabels(c)
  <2> SUFFICES ASSUME NEW j \in 1 .. m + n, NEW k \in 1 .. m + n,
                      c[j].op = "label", c[k].op = "label", c[j].to = c[k].to
               PROVE  j = k
    BY <1>1 DEF UniqueLabels
  <2>1. CASE j \in 1 .. m /\ k \in 1 .. m
    BY <1>1, <1>7, <2>1 DEF UniqueLabels
  <2>2. ASSUME NEW x \in 1 .. m, NEW y \in 1 .. m + n, y \notin 1 .. m,
               c[x].op = "label", c[y].op = "label", c[x].to = c[y].to
        PROVE  FALSE
    <3>1. c[x] = a[x] /\ c[y] = b[y - m] /\ y - m \in 1 .. n
      BY <1>1, <1>4, <2>2
    <3>2. c[x].to \in LabelsOf(a)
      BY <1>1, <2>2, <3>1, LabelIn
    <3>3. c[x].to \in LabelsOf(b)
      BY <1>1, <2>2, <3>1, LabelIn
    <3> QED
      BY <1>7, <3>2, <3>3
  <2>3. CASE j \notin 1 .. m /\ k \notin 1 .. m
    <3>1. c[j] = b[j - m] /\ j - m \in 1 .. n /\ c[k] = b[k - m] /\ k - m \in 1 .. n
      BY <1>1, <1>4, <2>3
    <3>2. j - m = k - m
      BY <1>1, <1>7, <3>1 DEF UniqueLabels
    <3> QED
      BY <1>1, <1>4, <2>3, <3>2
  <2> QED
    BY <2>1, <2>2, <2>3
<1>8. UniqueLabels(c) => UniqueLabels(a)
  <2> SUFFICES ASSUME UniqueLabels(c), NEW j \in 1 .. m, NEW k \in 1 .. m,
                      a[j].op = "label", a[k].op = "label", a[j].to = a[k].to
               PROVE  j = k
    BY <1>1 DEF UniqueLabels
  <2> QED
    BY <1>1, <1>2 DEF UniqueLabels
<1> QED
  BY <1>1, <1>5, <1>6, <1>7, <1>8 DEF c

\* A line that neither is a label nor goes to one.
Plain(i) == i \in ProperLines /\ i.op # "label" /\ i.op \notin Branches

LEMMA NoLines == <<>> \in Seq(ProperLines) /\ LabelsOf(<<>>) = {} /\ Targets(<<>>) = {} /\ UniqueLabels(<<>>)
<1>1. DOMAIN <<>> = {}
  OBVIOUS
<1>2. LabelsOf(<<>>) = {} /\ Targets(<<>>) = {}
  BY <1>1, LabelIn, TargetIn
<1>3. UniqueLabels(<<>>)
  BY <1>1 DEF UniqueLabels
<1> QED
  BY <1>2, <1>3

LEMMA OneLine ==
  ASSUME NEW i \in ProperLines
  PROVE  /\ <<i>> \in Seq(ProperLines)
         /\ LabelsOf(<<i>>) = IF i.op = "label" THEN {i.to} ELSE {}
         /\ Targets(<<i>>) = IF i.op \in Branches THEN {i.to} ELSE {}
         /\ UniqueLabels(<<i>>)
<1>1. DOMAIN <<i>> = {1} /\ <<i>>[1] = i /\ <<i>> \in Seq(ProperLines)
  OBVIOUS
<1> DEFINE s == <<i>>
<1> HIDE DEF s
<1>2. DOMAIN s = {1} /\ s[1] = i
  BY <1>1 DEF s
<1>3. LabelsOf(s) = IF i.op = "label" THEN {i.to} ELSE {}
  BY <1>2, LabelIn
<1>4. Targets(s) = IF i.op \in Branches THEN {i.to} ELSE {}
  BY <1>2, TargetIn
<1>5. UniqueLabels(s)
  BY <1>2 DEF UniqueLabels
<1> QED
  BY <1>1, <1>3, <1>4, <1>5 DEF s

\* A plain line adds nothing, a label itself.
LEMMA Added ==
  ASSUME NEW c \in Seq(ProperLines), NEW i \in ProperLines
  PROVE  /\ Append(c, i) \in Seq(ProperLines)
         /\ LabelsOf(Append(c, i)) = LabelsOf(c) \cup LabelsOf(<<i>>)
         /\ Targets(Append(c, i)) = Targets(c) \cup Targets(<<i>>)
         /\ UniqueLabels(c) /\ LabelsOf(c) \cap LabelsOf(<<i>>) = {} => UniqueLabels(Append(c, i))
         /\ UniqueLabels(Append(c, i)) => UniqueLabels(c) /\ LabelsOf(c) \cap LabelsOf(<<i>>) = {}
<1>1. Append(c, i) = c \o <<i>>
  OBVIOUS
<1>2. <<i>> \in Seq(ProperLines) /\ UniqueLabels(<<i>>)
  BY OneLine
<1>3. ASSUME UniqueLabels(Append(c, i)) PROVE LabelsOf(c) \cap LabelsOf(<<i>>) = {}
  <2> SUFFICES ASSUME NEW l, l \in LabelsOf(c), l \in LabelsOf(<<i>>) PROVE FALSE
    OBVIOUS
  <2> DEFINE d == Append(c, i)
             n == Len(c)
  <2>1. i.op = "label" /\ i.to = l
    BY OneLine
  <2>2. PICK j \in DOMAIN c : c[j].op = "label" /\ c[j].to = l
    BY LabelIn
  <2>3. n \in Nat /\ DOMAIN c = 1 .. n /\ DOMAIN d = 1 .. n + 1 /\ d[n + 1] = i /\ d[j] = c[j]
    OBVIOUS
  <2> HIDE DEF d, n
  <2>4. j \in 1 .. n + 1 /\ n + 1 \in 1 .. n + 1 /\ j # n + 1
    BY <2>3
  <2>5. UniqueLabels(d)
    BY <1>3 DEF d
  <2> QED
    BY <2>1, <2>2, <2>3, <2>4, <2>5 DEF UniqueLabels
<1> DEFINE d == Append(c, i)
           e == <<i>>
<1> HIDE DEF d, e
<1>4. d = c \o e /\ e \in Seq(ProperLines) /\ UniqueLabels(e)
  BY <1>1, <1>2 DEF d, e
<1>5. /\ d \in Seq(ProperLines)
      /\ LabelsOf(d) = LabelsOf(c) \cup LabelsOf(e)
      /\ Targets(d) = Targets(c) \cup Targets(e)
      /\ UniqueLabels(c) /\ LabelsOf(c) \cap LabelsOf(e) = {} => UniqueLabels(d)
      /\ UniqueLabels(d) => UniqueLabels(c)
  BY <1>4, Joined
<1> QED
  BY <1>3, <1>5 DEF d, e

-----------------------------------------------------------------------------
(* The sliding window.                                                     *)

LEMMA OpsOfLines ==
  /\ \A l : Label(l).op = "label" /\ Label(l).to = l
  /\ \A n : Leas(n).op = "leas"
  /\ \A q, r : Tfr(q, r).op \in {"tfrd", "tfrx"}
  /\ \A r : Pshs(r).op = "pshs"
  /\ Rts.op = "rts" /\ TstB.op = "tst"
  /\ Tfr("d", "x").op = "tfrd" /\ Tfr("x", "d").op = "tfrx"
BY DEF Label, Leas, Tfr, Rts, TstB, Pshs, Line

PlainOps ==
  {"ld", "ldimm", "st", "add", "cmpd", "tst", "clr", "tfrd", "tfrx", "pshs", "puls", "leas", "ldx",
   "stx", "jsr", "rts"}

PlainRegisters == {"d", "x", "b", "s", ""}

LEMMA LineFacts ==
  /\ NoLabel \in Nat \X Nat \X Nat
  /\ \A op \in PlainOps, r \in PlainRegisters, m \in Nat, n \in Int :
       Plain(Line(op, r, NoLabel, m, n))
  /\ \A l \in Nat \X Nat \X Nat : Label(l) \in ProperLines
  /\ \A k \in ConditionCodes, l \in Nat \X Nat \X Nat :
       Line("bcc", k, l, 0, 0) \in ProperLines /\ Line("lbcc", k, l, 0, 0) \in ProperLines
  /\ \A l \in Nat \X Nat \X Nat :
       Line("bra", "", l, 0, 0) \in ProperLines /\ Line("lbra", "", l, 0, 0) \in ProperLines
<1>1. NoLabel \in Nat \X Nat \X Nat
  BY DEF NoLabel
<1> DEFINE none == ""
           Ops == PlainOps \cup Branches \cup {"label"}
           Registers == ConditionCodes \cup PlainRegisters
<1>0. /\ \A op \in PlainOps : op \in Ops
      /\ \A op \in Conditionals : op \in Ops
      /\ \A op \in Jumps : op \in Ops
      /\ "label" \in Ops
      /\ \A r \in ConditionCodes : r \in Registers
      /\ \A r \in PlainRegisters : r \in Registers
      /\ none \in Registers
      /\ 0 \in Nat /\ 0 \in Int
  <2>1. \A op \in Jumps \cup Conditionals : op \in Ops
    BY DEF Branches
  <2>2. \A r \in PlainRegisters : r \in Registers
    OBVIOUS
  <2>3. none \in Registers
    BY DEF PlainRegisters
  <2>4. /\ \A op \in PlainOps : op \in Ops
        /\ "label" \in Ops
        /\ \A r \in ConditionCodes : r \in Registers
    OBVIOUS
  <2> HIDE DEF Ops, Registers, none
  <2> QED
    BY <2>1, <2>2, <2>3, <2>4
<1>2. ASSUME NEW op \in Ops, NEW r \in Registers,
             NEW l \in Nat \X Nat \X Nat, NEW m \in Nat, NEW n \in Int
      PROVE  Line(op, r, l, m, n) \in Lines /\ Line(op, r, l, m, n).op = op
             /\ Line(op, r, l, m, n).to = l /\ Line(op, r, l, m, n).r = r
  BY DEF Line, Lines, PlainOps, PlainRegisters
<1> HIDE DEF Ops, Registers, none
<1>3. \A op \in PlainOps : op # "label" /\ op \notin Branches
  BY DEF PlainOps, Branches, Jumps, Conditionals
<1>4. /\ "bcc" \in Branches /\ "lbcc" \in Branches /\ "bra" \in Branches /\ "lbra" \in Branches
      /\ \A op \in Branches : op # "label"
      /\ \A op \in Jumps : op \notin Conditionals /\ op \in Branches
      /\ "bra" \in Jumps /\ "lbra" \in Jumps
      /\ "label" \notin Conditionals /\ Conditionals \subseteq Branches
  BY DEF Branches, Jumps, Conditionals
<1>5. \A op \in PlainOps, r \in PlainRegisters, m \in Nat, n \in Int :
        Plain(Line(op, r, NoLabel, m, n))
  <2> SUFFICES ASSUME NEW op \in PlainOps, NEW r \in PlainRegisters, NEW m \in Nat, NEW n \in Int
               PROVE  Plain(Line(op, r, NoLabel, m, n))
    OBVIOUS
  <2> DEFINE i == Line(op, r, NoLabel, m, n)
  <2>1. op \in Ops /\ r \in Registers
    BY <1>0
  <2>2. i \in Lines /\ i.op = op
    BY <1>1, <1>2, <2>1
  <2> HIDE DEF i
  <2>3. Plain(i)
    BY <1>3, <1>4, <2>2 DEF Plain, ProperLines
  <2> QED
    BY <2>3 DEF i
<1>6. \A l \in Nat \X Nat \X Nat : Label(l) \in ProperLines
  <2> SUFFICES ASSUME NEW l \in Nat \X Nat \X Nat PROVE Label(l) \in ProperLines
    OBVIOUS
  <2>1. Label(l) \in Lines
    BY <1>0, <1>2 DEF Label, none
  <2> QED
    BY <1>4, <2>1, OpsOfLines DEF ProperLines
<1>7. \A op \in Conditionals, k \in ConditionCodes, l \in Nat \X Nat \X Nat :
        Line(op, k, l, 0, 0) \in ProperLines
  <2> SUFFICES ASSUME NEW op \in Conditionals, NEW k \in ConditionCodes, NEW l \in Nat \X Nat \X Nat
               PROVE  Line(op, k, l, 0, 0) \in ProperLines
    OBVIOUS
  <2> DEFINE i == Line(op, k, l, 0, 0)
  <2>1. op \in Ops /\ k \in Registers /\ 0 \in Nat /\ 0 \in Int
    BY <1>0
  <2>2. i \in Lines /\ i.op = op /\ i.r = k
    BY <1>2, <2>1
  <2> HIDE DEF i
  <2>3. i \in ProperLines
    BY <1>4, <2>2 DEF ProperLines
  <2> QED
    BY <2>3 DEF i
<1>8. \A op \in Jumps, l \in Nat \X Nat \X Nat : Line(op, "", l, 0, 0) \in ProperLines
  <2> SUFFICES ASSUME NEW op \in Jumps, NEW l \in Nat \X Nat \X Nat
               PROVE  Line(op, none, l, 0, 0) \in ProperLines
    BY DEF none
  <2> DEFINE i == Line(op, none, l, 0, 0)
  <2>1. op \in Ops /\ none \in Registers /\ 0 \in Nat /\ 0 \in Int
    BY <1>0
  <2>2. i \in Lines /\ i.op = op
    BY <1>2, <2>1
  <2> HIDE DEF i
  <2>3. i \in ProperLines
    BY <1>4, <2>2 DEF ProperLines
  <2> QED
    BY <2>3 DEF i
<1> QED
  BY <1>1, <1>4, <1>5, <1>6, <1>7, <1>8 DEF Conditionals

LEMMA PlainLines ==
  /\ \A n \in Int : Plain(Leas(n)) /\ Plain(CmpImm(n)) /\ Plain(AddImm("d", n))
                    /\ Plain(LdImm("d", n)) /\ Plain(LdImm("b", n))
  /\ \A q, r \in {"d", "x"} : Plain(Tfr(q, r))
  /\ \A r \in {"d", "b", "x"}, m \in Nat : Plain(Ld(r, m)) /\ Plain(St(r, m))
  /\ Plain(Rts) /\ Plain(TstB) /\ Plain(ClrB) /\ Plain(Pshs("d")) /\ Plain(Jsr)
  /\ Plain(LdAtX) /\ Plain(StAtX)
<1>0. /\ "ld" \in PlainOps /\ "ldimm" \in PlainOps /\ "st" \in PlainOps /\ "add" \in PlainOps
      /\ "cmpd" \in PlainOps /\ "tst" \in PlainOps /\ "clr" \in PlainOps /\ "tfrd" \in PlainOps
      /\ "tfrx" \in PlainOps /\ "pshs" \in PlainOps /\ "leas" \in PlainOps /\ "ldx" \in PlainOps
      /\ "stx" \in PlainOps /\ "jsr" \in PlainOps /\ "rts" \in PlainOps
      /\ "d" \in PlainRegisters /\ "x" \in PlainRegisters /\ "b" \in PlainRegisters
      /\ "s" \in PlainRegisters /\ "" \in PlainRegisters
      /\ 0 \in Nat /\ 0 \in Int
  BY DEF PlainOps, PlainRegisters
<1> USE <1>0, LineFacts
<1>1. \A n \in Int : Plain(Leas(n)) /\ Plain(CmpImm(n)) /\ Plain(AddImm("d", n))
                     /\ Plain(LdImm("d", n)) /\ Plain(LdImm("b", n))
  BY DEF Leas, CmpImm, AddImm, LdImm
<1>2. \A q, r \in {"d", "x"} : Plain(Tfr(q, r))
  BY DEF Tfr
<1>3. \A r \in {"d", "b", "x"}, m \in Nat : Plain(Ld(r, m)) /\ Plain(St(r, m))
  BY DEF Ld, St
<1>4. Plain(Rts) /\ Plain(TstB) /\ Plain(ClrB) /\ Plain(Pshs("d")) /\ Plain(Jsr)
  BY DEF Rts, TstB, ClrB, Pshs, Jsr
<1>5. Plain(LdAtX) /\ Plain(StAtX)
  BY DEF LdAtX, StAtX
<1> QED
  BY <1>1, <1>2, <1>3, <1>4, <1>5

\* What a rule puts in place of two lines; neither of them is a label or a branch.
LEMMA WindowFacts ==
  ASSUME NEW prev \in ProperLines, NEW i \in ProperLines, Window(prev, i) # <<>>
  PROVE  /\ Plain(prev) /\ Plain(i) /\ prev.op # "rts"
         /\ \/ Window(prev, i) = <<<<>>>>
            \/ Window(prev, i) = <<<<prev>>>>
            \/ \E j : Plain(j) /\ Window(prev, i) = <<<<j>>>>
            \/ \E j : Plain(j) /\ Window(prev, i) = <<<<prev, j>>>>
<1> DEFINE Put ==
             \/ Window(prev, i) = <<<<>>>>
             \/ Window(prev, i) = <<<<prev>>>>
             \/ \E j : Plain(j) /\ Window(prev, i) = <<<<j>>>>
             \/ \E j : Plain(j) /\ Window(prev, i) = <<<<prev, j>>>>
           Ops == /\ prev.op \in {"pshs", "leas", "tfrd", "ld", "ldimm", "st", "add", "clr"}
                  /\ i.op \in {"puls", "leas", "tfrx", "tst", "st", "ld"}
<1>0. SUFFICES Ops /\ Put
  <2>1. ASSUME Ops PROVE Plain(prev) /\ Plain(i) /\ prev.op # "rts"
    BY <2>1 DEF Plain, Branches, Jumps, Conditionals
  <2> QED
    BY <2>1
<1>1. i.n \in Int /\ prev.n \in Int
  BY DEF ProperLines, Lines
<1>2. CASE prev = Pshs("d") /\ i.op = "puls" /\ i.r = "d"
  <2>1. Window(prev, i) = <<<<>>>>
    BY <1>2, OpsOfLines DEF Window, Redundant, Moved, SetsFlagsOfB
  <2> QED
    BY <1>2, <2>1, OpsOfLines
<1>3. CASE prev = Pshs("d") /\ i.op = "puls" /\ i.r = "x"
  <2>1. Window(prev, i) = <<<<Tfr("d", "x")>>>>
    BY <1>3, OpsOfLines DEF Window, Redundant, Moved, SetsFlagsOfB
  <2>2. Plain(Tfr("d", "x"))
    BY PlainLines
  <2> QED
    BY <1>3, <2>1, <2>2, OpsOfLines
<1>4. CASE prev.op = "leas" /\ i.op = "leas"
  <2>1. Window(prev, i) = <<IF prev.n + i.n = 0 THEN <<>> ELSE <<Leas(prev.n + i.n)>>>>
    BY <1>4, OpsOfLines DEF Window, Redundant, Moved, SetsFlagsOfB
  <2>2. Plain(Leas(prev.n + i.n))
    BY <1>1, PlainLines
  <2> QED
    BY <1>4, <2>1, <2>2
<1>5. CASE prev = Tfr("d", "x") /\ i = Tfr("x", "d")
  <2>1. Window(prev, i) = <<<<prev>>>>
    BY <1>5, OpsOfLines DEF Window, Redundant, Moved, SetsFlagsOfB
  <2> QED
    BY <1>5, <2>1, OpsOfLines
<1>6. CASE i = TstB /\ SetsFlagsOfB(prev)
  <2>1. Window(prev, i) = <<<<prev>>>>
    BY <1>6, OpsOfLines DEF Window, Redundant, Moved, SetsFlagsOfB
  <2> QED
    BY <1>6, <2>1, OpsOfLines DEF SetsFlagsOfB
<1>7. CASE i.op = "st" /\ i = prev
  <2>1. Window(prev, i) = <<<<prev>>>>
    BY <1>7, OpsOfLines DEF Window, Redundant, Moved, SetsFlagsOfB
  <2> QED
    BY <1>7, <2>1
<1>8. CASE Redundant(prev, i)
  <2>1. Window(prev, i) = <<<<prev>>>>
    BY <1>8, OpsOfLines DEF Window, Redundant, Moved, SetsFlagsOfB
  <2> QED
    BY <1>8, <2>1 DEF Redundant
<1>9. CASE Moved(prev, i)
  <2>1. prev.op = "st" /\ i.op = "ld" /\ prev.r \in {"d", "x"} /\ i.r \in {"d", "x"}
    BY <1>9 DEF Moved
  <2>2. Window(prev, i) = <<<<prev, Tfr(prev.r, i.r)>>>>
    BY <1>9, <2>1, OpsOfLines DEF Window, Redundant, Moved, SetsFlagsOfB
  <2>3. Plain(Tfr(prev.r, i.r))
    BY <2>1, PlainLines
  <2> QED
    BY <2>1, <2>2, <2>3
<1>10. CASE ~ \/ prev = Pshs("d") /\ i.op = "puls" /\ i.r = "d"
              \/ prev = Pshs("d") /\ i.op = "puls" /\ i.r = "x"
              \/ prev.op = "leas" /\ i.op = "leas"
              \/ prev = Tfr("d", "x") /\ i = Tfr("x", "d")
              \/ i = TstB /\ SetsFlagsOfB(prev)
              \/ i.op = "st" /\ i = prev
              \/ Redundant(prev, i)
              \/ Moved(prev, i)
  <2>1. Window(prev, i) = <<>>
    BY Zenon, <1>10 DEF Window
  <2> QED
    BY <2>1
<1> QED
  BY <1>2, <1>3, <1>4, <1>5, <1>6, <1>7, <1>8, <1>9, <1>10

\* d has the labels of c and no other targets.
Keeps(c, d) ==
  /\ d \in Seq(ProperLines)
  /\ LabelsOf(d) = LabelsOf(c)
  /\ Targets(d) \subseteq Targets(c)
  /\ UniqueLabels(c) => UniqueLabels(d)

LEMMA KeepsTransitive ==
  \A c, d, e : Keeps(c, d) /\ Keeps(d, e) => Keeps(c, e)
BY DEF Keeps

LEMMA KeepsAppended ==
  ASSUME NEW c \in Seq(ProperLines), NEW d, Keeps(c, d), NEW i \in ProperLines
  PROVE  Keeps(Append(c, i), Append(d, i))
<1>1. d \in Seq(ProperLines)
  BY DEF Keeps
<1> DEFINE e == <<i>>
           f == Append(c, i)
           g == Append(d, i)
<1>2. /\ LabelsOf(f) = LabelsOf(c) \cup LabelsOf(e) /\ Targets(f) = Targets(c) \cup Targets(e)
      /\ UniqueLabels(f) => UniqueLabels(c) /\ LabelsOf(c) \cap LabelsOf(e) = {}
  BY Added
<1>3. /\ g \in Seq(ProperLines)
      /\ LabelsOf(g) = LabelsOf(d) \cup LabelsOf(e) /\ Targets(g) = Targets(d) \cup Targets(e)
      /\ UniqueLabels(d) /\ LabelsOf(d) \cap LabelsOf(e) = {} => UniqueLabels(g)
  BY <1>1, Added
<1> HIDE DEF e, f, g
<1>4. Keeps(f, g)
  BY <1>2, <1>3 DEF Keeps
<1> QED
  BY <1>4 DEF f, g

LEMMA KeepsDropped ==
  ASSUME NEW c \in Seq(ProperLines), NEW i \in ProperLines, i.op # "label"
  PROVE  Keeps(Append(c, i), c)
<1> DEFINE e == <<i>>
           f == Append(c, i)
<1>1. LabelsOf(e) = {}
  BY OneLine
<1>2. /\ LabelsOf(f) = LabelsOf(c) \cup LabelsOf(e) /\ Targets(f) = Targets(c) \cup Targets(e)
      /\ UniqueLabels(f) => UniqueLabels(c)
  BY Added
<1> HIDE DEF e, f
<1>3. Keeps(f, c)
  BY <1>1, <1>2 DEF Keeps
<1> QED
  BY <1>3 DEF f

\* A plain line more.
LEMMA KeepsExtended ==
  ASSUME NEW c \in Seq(ProperLines), NEW i, Plain(i)
  PROVE  Keeps(c, Append(c, i))
<1>0. i \in ProperLines
  BY DEF Plain
<1> DEFINE e == <<i>>
           f == Append(c, i)
<1>1. LabelsOf(e) = {} /\ Targets(e) = {}
  BY <1>0, OneLine DEF Plain
<1>2. /\ f \in Seq(ProperLines)
      /\ LabelsOf(f) = LabelsOf(c) \cup LabelsOf(e) /\ Targets(f) = Targets(c) \cup Targets(e)
      /\ UniqueLabels(c) /\ LabelsOf(c) \cap LabelsOf(e) = {} => UniqueLabels(f)
  BY <1>0, Added
<1> HIDE DEF e, f
<1>3. Keeps(c, f)
  BY <1>1, <1>2 DEF Keeps
<1> QED
  BY <1>3 DEF f

LEMMA KeepsItself == \A c \in Seq(ProperLines) : Keeps(c, c)
BY DEF Keeps

LEMMA FrontFacts ==
  ASSUME NEW c \in Seq(ProperLines), Before(c, 1).op # "rts"
  PROVE  /\ Front(c) \in Seq(ProperLines)
         /\ Before(c, 1) \in ProperLines
         /\ c = Append(Front(c), Before(c, 1))
         /\ \A n \in 2 .. 3 : Before(c, n) = Before(Front(c), n - 1)
         /\ Len(c) \in Nat /\ Front(Front(c)) = SubSeq(c, 1, Len(c) - 2)
<1>1. Len(c) >= 1 /\ Len(c) \in Nat
  BY OpsOfLines DEF Before
<1>2. Before(c, 1) = c[Len(c)]
  BY <1>1 DEF Before
<1>3. Front(c) = SubSeq(c, 1, Len(c) - 1)
  BY DEF Front
<1>4. Front(c) \in Seq(ProperLines) /\ Len(Front(c)) = Len(c) - 1
      /\ \A j \in 1 .. Len(c) - 1 : Front(c)[j] = c[j]
  <2> DEFINE n == Len(c) - 1
             d == SubSeq(c, 1, n)
  <2>1. n \in Nat /\ n <= Len(c) /\ \A j \in 1 .. n : c[j] \in ProperLines
    BY <1>1
  <2>2. /\ d \in Seq(ProperLines)
        /\ Len(d) = IF 1 <= n THEN n - 1 + 1 ELSE 0
        /\ \A j \in 1 .. n - 1 + 1 : d[j] = c[1 + j - 1]
    BY <2>1, SubSeqProperties
  <2> HIDE DEF n, d
  <2>3. Len(d) = n /\ \A j \in 1 .. n : d[j] = c[j]
    BY <2>1, <2>2
  <2> QED
    BY <1>3, <2>2, <2>3 DEF n, d
<1>5. c = Append(Front(c), c[Len(c)])
  BY <1>1, <1>4
<1>6. \A n \in 2 .. 3 : Before(c, n) = Before(Front(c), n - 1)
  BY <1>1, <1>4 DEF Before
<1>7. Front(Front(c)) = SubSeq(c, 1, Len(c) - 2)
  <2>1. Front(Front(c)) = SubSeq(Front(c), 1, Len(c) - 2)
    BY <1>4 DEF Front
  <2>2. SubSeq(SubSeq(c, 1, Len(c) - 1), 1, Len(c) - 2) = SubSeq(c, 1, Len(c) - 2)
    BY <1>1
  <2> QED
    BY <1>3, <2>1, <2>2
<1> QED
  BY <1>1, <1>2, <1>4, <1>5, <1>6, <1>7

Results == [code : Seq(ProperLines), changed : BOOLEAN, panic : BOOLEAN]

\* What the second pass over lines does with line i, unless the slice is out of range.
Step(s, i, t) ==
  /\ t \in Results
  /\ ~t.panic => ~s.panic /\ Keeps(Append(s.code, i), t.code)

LEMMA AtLabelKeeps ==
  ASSUME NEW s \in Results, ~s.panic, NEW i \in ProperLines, i.op = "label"
  PROVE  Step(s, i, AtLabel(s, i))
<1> DEFINE c == s.code
           prev == Before(c, 1)
           prev2 == Before(c, 2)
           next == BranchToNext(prev, i)
           over == BranchOverJump(prev2, prev, i)
           branch == LBcc(InvertCondOp(prev2.r), prev.to)
           F == SubSeq(c, 1, Len(c) - 2)
           kept == IF over THEN F \o <<branch>> ELSE IF next THEN Front(c) ELSE c
           t == AtLabel(s, i)
<1>1. t = [code |-> Append(kept, i), changed |-> s.changed \/ next \/ over,
           panic |-> s.panic \/ (next /\ over)]
  BY DEF AtLabel
<1>2. c \in Seq(ProperLines) /\ s.changed \in BOOLEAN /\ s.panic \in BOOLEAN
  BY DEF Results
<1>3. next \in BOOLEAN /\ over \in BOOLEAN
  BY DEF BranchToNext, BranchOverJump
<1>4. (next => prev.op \in Jumps) /\ (over => prev.op \in Jumps /\ prev2.op \in Conditionals)
  BY DEF BranchToNext, BranchOverJump
<1> HIDE DEF c, next, over, prev, prev2
<1>5. \A op \in Branches : op # "rts" /\ op # "label"
  BY DEF Branches, Jumps, Conditionals
<1>6. Jumps \subseteq Branches /\ Conditionals \subseteq Branches
  BY DEF Branches
<1>7. Keeps(c, kept)
  <2>1. CASE ~next /\ ~over
    BY <1>2, <2>1, KeepsItself
  <2>2. CASE next /\ ~over
    <3>1. Front(c) \in Seq(ProperLines) /\ prev \in ProperLines /\ c = Append(Front(c), prev)
      BY <1>2, <1>4, <1>5, <1>6, <2>2, FrontFacts DEF prev
    <3>2. prev.op # "label"
      BY <1>4, <1>5, <1>6, <2>2
    <3>3. Keeps(c, Front(c))
      BY <3>1, <3>2, KeepsDropped
    <3> QED
      BY <2>2, <3>3
  <2>3. CASE over
    <3>1. /\ Front(c) \in Seq(ProperLines) /\ prev \in ProperLines /\ c = Append(Front(c), prev)
          /\ prev2 = Before(Front(c), 1) /\ Front(Front(c)) = F
      BY <1>2, <1>4, <1>5, <1>6, <2>3, FrontFacts DEF prev, prev2, c
    <3>2. F \in Seq(ProperLines) /\ prev2 \in ProperLines /\ Front(c) = Append(F, prev2)
      BY <1>4, <1>5, <1>6, <2>3, <3>1, FrontFacts
    <3>3. branch \in ProperLines /\ branch.op \in Branches /\ branch.to = prev.to
      <4>1. prev2.r \in ConditionCodes /\ prev.to \in Nat \X Nat \X Nat
        BY <1>4, <2>3, <3>1, <3>2 DEF ProperLines, Lines
      <4>2. InvertCondOp(prev2.r) \in ConditionCodes
        BY <4>1 DEF InvertCondOp, ConditionCodes
      <4>3. branch.op = "lbcc" /\ branch.to = prev.to
        BY DEF LBcc, Line
      <4> QED
        BY <4>1, <4>2, <4>3, LineFacts DEF LBcc, Branches, Conditionals
    <3>4. Keeps(c, Append(F, branch))
      <4> DEFINE d == Front(c)
                 e == Append(F, branch)
      <4>1. /\ LabelsOf(c) = LabelsOf(d) \cup LabelsOf(<<prev>>)
            /\ Targets(c) = Targets(d) \cup Targets(<<prev>>)
            /\ UniqueLabels(c) => UniqueLabels(d)
        BY <3>1, Added, ZenonT(30)
      <4>2. /\ LabelsOf(d) = LabelsOf(F) \cup LabelsOf(<<prev2>>)
            /\ Targets(d) = Targets(F) \cup Targets(<<prev2>>)
            /\ UniqueLabels(d) => UniqueLabels(F)
        BY <3>2, Added, ZenonT(30)
      <4>3. /\ e \in Seq(ProperLines) /\ LabelsOf(e) = LabelsOf(F) \cup LabelsOf(<<branch>>)
            /\ Targets(e) = Targets(F) \cup Targets(<<branch>>)
            /\ UniqueLabels(F) /\ LabelsOf(F) \cap LabelsOf(<<branch>>) = {} => UniqueLabels(e)
        BY <3>2, <3>3, Added
      <4>4. prev.op # "label" /\ prev2.op # "label" /\ branch.op # "label" /\ prev.op \in Branches
        BY <1>4, <1>5, <1>6, <2>3, <3>3
      <4>5. LabelsOf(<<prev>>) = {} /\ LabelsOf(<<prev2>>) = {} /\ LabelsOf(<<branch>>) = {}
        BY <3>1, <3>2, <3>3, <4>4, OneLine
      <4>6. Targets(<<branch>>) = {prev.to} /\ Targets(<<prev>>) = {prev.to}
        BY <3>1, <3>3, <4>4, OneLine
      <4> HIDE DEF d, e, branch, F
      <4>7. Keeps(c, e)
        BY <4>1, <4>2, <4>3, <4>5, <4>6 DEF Keeps
      <4> QED
        BY <4>7 DEF e, branch, F
    <3>5. kept = Append(F, branch)
      <4>1. F \o <<branch>> = Append(F, branch)
        BY <3>2, <3>3
      <4> QED
        BY <2>3, <4>1
    <3> QED
      BY <3>4, <3>5
  <2> QED
    BY <1>3, <2>1, <2>2, <2>3
<1> HIDE DEF kept
<1>8. Keeps(Append(c, i), Append(kept, i)) /\ Append(kept, i) \in Seq(ProperLines)
  BY <1>2, <1>7, KeepsAppended DEF Keeps
<1> HIDE DEF t
<1>9. t.code = Append(kept, i) /\ t \in Results
  BY <1>1, <1>2, <1>3, <1>8 DEF Results
<1> QED
  BY <1>8, <1>9 DEF Step, c, t

LEMMA SlideKeeps ==
  ASSUME NEW s \in Results, NEW i \in ProperLines
  PROVE  Step(s, i, Slide(s, i))
<1> DEFINE c == s.code
           prev == Before(c, 1)
           prev2 == Before(c, 2)
           window == Window(prev, i)
           t == Slide(s, i)
<1>1. c \in Seq(ProperLines) /\ s.changed \in BOOLEAN /\ s.panic \in BOOLEAN
  BY DEF Results
<1>2. t = IF s.panic THEN s
          ELSE IF TrivialMath(i) \/ LoadedAcross(prev2, prev, i) THEN [s EXCEPT !.changed = TRUE]
          ELSE IF window # <<>> THEN [s EXCEPT !.changed = TRUE, !.code = Front(@) \o window[1]]
          ELSE IF i.op = "label" THEN AtLabel(s, i)
          ELSE [s EXCEPT !.code = Append(@, i)]
  BY DEF Slide
<1> HIDE DEF t
<1>3. CASE s.panic
  BY <1>1, <1>2, <1>3 DEF Step, t
<1>4. CASE ~s.panic /\ (TrivialMath(i) \/ LoadedAcross(prev2, prev, i))
  <2>1. i.op # "label"
    BY <1>4 DEF TrivialMath, LoadedAcross, Redundant, AddImm, Leas, Line
  <2>2. t \in Results /\ t.code = c
    BY <1>1, <1>2, <1>4 DEF Results
  <2> QED
    BY <1>1, <1>4, <2>1, <2>2, KeepsDropped DEF Step, t
<1>5. CASE ~s.panic /\ ~(TrivialMath(i) \/ LoadedAcross(prev2, prev, i)) /\ window # <<>>
  <2> DEFINE d == Front(c) \o window[1]
  <2>1. prev \in ProperLines
    <3>1. Rts \in ProperLines
      BY PlainLines DEF Plain
    <3>2. CASE Len(c) >= 1
      BY <1>1, <3>2 DEF Before
    <3> QED
      BY <3>1, <3>2 DEF Before
  <2>2. /\ Plain(prev) /\ Plain(i) /\ prev.op # "rts"
        /\ \/ window = <<<<>>>>
           \/ window = <<<<prev>>>>
           \/ \E j : Plain(j) /\ window = <<<<j>>>>
           \/ \E j : Plain(j) /\ window = <<<<prev, j>>>>
    BY <1>5, <2>1, WindowFacts
  <2>3. Front(c) \in Seq(ProperLines) /\ c = Append(Front(c), prev)
    BY <1>1, <2>2, FrontFacts
  <2>4. t = [s EXCEPT !.changed = TRUE, !.code = d]
    BY <1>2, <1>5
  <2> HIDE DEF prev, window, prev2
  <2>5. Keeps(Append(c, i), c) /\ Keeps(c, Front(c))
    BY <1>1, <2>1, <2>2, <2>3, KeepsDropped DEF Plain
  <2>6. Keeps(Front(c), d)
    <3>1. CASE window = <<<<>>>>
      <4>1. d = Front(c)
        BY <2>3, <3>1
      <4> QED
        BY <2>3, <4>1, KeepsItself
    <3>2. ASSUME NEW j, Plain(j), window = <<<<j>>>> PROVE Keeps(Front(c), d)
      <4>1. j \in ProperLines
        BY <3>2 DEF Plain
      <4>2. window[1] = <<j>>
        BY <3>2
      <4>3. d = Append(Front(c), j)
        BY <2>3, <4>1, <4>2
      <4> QED
        BY <2>3, <3>2, <4>3, KeepsExtended
    <3>3. ASSUME NEW j, Plain(j), window = <<<<prev, j>>>> PROVE Keeps(Front(c), d)
      <4>1. j \in ProperLines
        BY <3>3 DEF Plain
      <4>2. window[1] = <<prev, j>>
        BY <3>3
      <4>3. d = Append(Append(Front(c), prev), j)
        BY <2>1, <2>3, <4>1, <4>2
      <4> QED
        BY <1>1, <2>2, <2>3, <3>3, <4>3, KeepsExtended, KeepsTransitive
    <3> QED
      BY <2>2, <3>1, <3>2, <3>3
  <2>7. Keeps(Append(c, i), d)
    BY <2>5, <2>6, KeepsTransitive
  <2> HIDE DEF d
  <2>8. d \in Seq(ProperLines)
    BY <2>7 DEF Keeps
  <2>9. t \in Results /\ t.code = d
    BY <1>1, <2>4, <2>8 DEF Results
  <2> QED
    BY <1>5, <2>7, <2>9 DEF Step, t
<1>6. CASE /\ ~s.panic /\ ~(TrivialMath(i) \/ LoadedAcross(prev2, prev, i))
           /\ ~(window # <<>>) /\ i.op = "label"
  BY <1>2, <1>6, AtLabelKeeps DEF t
<1>7. CASE /\ ~s.panic /\ ~(TrivialMath(i) \/ LoadedAcross(prev2, prev, i))
           /\ ~(window # <<>>) /\ i.op # "label"
  <2> DEFINE d == Append(c, i)
  <2>1. t = [s EXCEPT !.code = d]
    BY <1>2, <1>7
  <2>2. d \in Seq(ProperLines)
    BY <1>1
  <2>3. Keeps(d, d)
    BY <2>2, KeepsItself
  <2> HIDE DEF d
  <2>4. t \in Results /\ t.code = d
    BY <1>1, <2>1, <2>2 DEF Results
  <2> QED
    BY <1>7, <2>3, <2>4 DEF Step, t, d
<1> QED
  BY <1>3, <1>4, <1>5, <1>6, <1>7

\* Lists, one line after the other.
LEMMA FirstLines ==
  ASSUME NEW lines \in Seq(ProperLines), NEW n \in Nat, n = Len(lines)
  PROVE  /\ SubSeq(lines, 1, 0) = <<>>
         /\ SubSeq(lines, 1, n) = lines
         /\ \A k \in 1 .. n : /\ lines[k] \in ProperLines
                              /\ SubSeq(lines, 1, k - 1) \in Seq(ProperLines)
                              /\ SubSeq(lines, 1, k) = Append(SubSeq(lines, 1, k - 1), lines[k])
<1>1. SubSeq(lines, 1, 0) = <<>>
  BY SubSeqEmpty
<1>2. SubSeq(lines, 1, n) = lines
  BY SubSeqFull
<1>3. ASSUME NEW k \in 1 .. n
      PROVE  /\ lines[k] \in ProperLines
             /\ SubSeq(lines, 1, k - 1) \in Seq(ProperLines)
             /\ SubSeq(lines, 1, k) = Append(SubSeq(lines, 1, k - 1), lines[k])
  <2>1. \A j \in 1 .. n : lines[j] \in ProperLines
    OBVIOUS
  <2>2. \A j \in 1 .. k - 1 : lines[j] \in ProperLines
    BY <2>1
  <2>3. SubSeq(lines, 1, k - 1) \in Seq(ProperLines)
    BY <2>2, SubSeqProperties
  <2>4. 1 \in 1 .. Len(lines) /\ k \in 1 .. Len(lines)
    OBVIOUS
  <2>5. SubSeq(lines, 1, k) = SubSeq(lines, 1, k - 1) \o <<lines[k]>>
    BY <2>4, SubSeqRecursiveSecond
  <2>6. SubSeq(lines, 1, k - 1) \o <<lines[k]>> = Append(SubSeq(lines, 1, k - 1), lines[k])
    BY <2>1, <2>3
  <2> QED
    BY <2>1, <2>3, <2>5, <2>6
<1> QED
  BY <1>1, <1>2, <1>3

\* FoldLeft, expanded.
IsSlide(it, lines, base) ==
  it = [S \in SUBSET (DOMAIN lines) |->
          IF S = {} THEN base ELSE Slide(it[S \ {LastOf(S)}], lines[LastOf(S)])]

LEMMA SlideSteps ==
  ASSUME NEW lines \in Seq(ProperLines), NEW n \in Nat, n = Len(lines)
  PROVE  \E val : /\ val[0] = Passed(<<>>, FALSE)
                  /\ \A k \in 1 .. n : val[k] = Slide(val[k - 1], lines[k])
                  /\ SlidingWindow(lines) = val[n]
<1> DEFINE base == Passed(<<>>, FALSE)
<1>1. SlidingWindow(lines) = (CHOOSE it : IsSlide(it, lines, base))[DOMAIN lines]
  BY Zenon DEF SlidingWindow, FoldLeft, MapThenFoldSet, IsSlide, Max, LastOf
<1>2. base \in Results
  BY NoLines DEF Results, Passed
<1> HIDE DEF base
<1> DEFINE step == [k \in 1 .. n |-> [s \in Results |-> Slide(s, lines[k])]]
<1>3. DOMAIN lines = 1 .. n /\ \A k \in 1 .. n : lines[k] \in ProperLines
  OBVIOUS
<1>4. step \in [1 .. n -> [Results -> Results]]
  BY <1>3, SlideKeeps DEF Step
<1>5. PICK f \in [SUBSET (1 .. n) -> Results] : IsFold(f, n, base, step)
  <2> HIDE DEF step
  <2>1. n \in Nat /\ base \in Results /\ step \in [1 .. n -> [Results -> Results]]
    BY <1>2, <1>4
  <2> QED
    BY <2>1, FoldExists
<1>6. IsSlide(f, lines, base)
  <2>1. ASSUME NEW S \in SUBSET (1 .. n), S # {}
        PROVE  f[S] = Slide(f[S \ {LastOf(S)}], lines[LastOf(S)])
    <3>1. LastOf(S) \in 1 .. n /\ S \ {LastOf(S)} \in SUBSET (1 .. n)
      BY <2>1, LastOfFacts
    <3>2. f[S \ {LastOf(S)}] \in Results
      BY <3>1
    <3>3. f[S] = step[LastOf(S)][f[S \ {LastOf(S)}]]
      BY <1>5, <2>1 DEF IsFold
    <3> QED
      BY <3>1, <3>2, <3>3
  <2>2. f[{}] = base
    BY <1>5 DEF IsFold
  <2> QED
    BY <1>3, <1>5, <2>1, <2>2 DEF IsSlide
<1> DEFINE it == CHOOSE g : IsSlide(g, lines, base)
           val == [k \in 0 .. n |-> it[1 .. k]]
<1>7. IsSlide(it, lines, base)
  BY Zenon, <1>6
<1> HIDE DEF it, step
<1>8. \A S \in SUBSET (1 .. n) : it[S] = IF S = {} THEN base ELSE Slide(it[S \ {LastOf(S)}], lines[LastOf(S)])
  BY <1>3, <1>7 DEF IsSlide
<1>9. ASSUME NEW k \in 1 .. n PROVE val[k] = Slide(val[k - 1], lines[k])
  <2>1. 1 .. k \in SUBSET (1 .. n) /\ 1 .. k # {} /\ LastOf(1 .. k) = k /\ (1 .. k) \ {k} = 1 .. k - 1
    BY LastOfPrefix
  <2>2. k \in 0 .. n /\ k - 1 \in 0 .. n
    OBVIOUS
  <2>3. it[1 .. k] = Slide(it[1 .. k - 1], lines[k])
    BY <1>8, <2>1
  <2> QED
    BY <2>2, <2>3
<1>10. val[0] = base
  <2>1. 1 .. 0 = {} /\ 1 .. 0 \in SUBSET (1 .. n) /\ 0 \in 0 .. n
    OBVIOUS
  <2> QED
    BY <1>8, <2>1
<1>11. SlidingWindow(lines) = val[n]
  <2>1. n \in 0 .. n /\ DOMAIN lines = 1 .. n
    BY <1>3
  <2> QED
    BY <1>1, <2>1 DEF it
<1> HIDE DEF val
<1> QED
  BY <1>9, <1>10, <1>11 DEF base

LEMMA WindowKeeps ==
  ASSUME NEW lines \in Seq(ProperLines)
  PROVE  /\ SlidingWindow(lines) \in Results
         /\ ~SlidingWindow(lines).panic => Keeps(lines, SlidingWindow(lines).code)
<1> DEFINE n == Len(lines)
           Good(k, s) == s \in Results /\ (~s.panic => Keeps(SubSeq(lines, 1, k), s.code))
<1>1. n \in Nat /\ n = Len(lines)
  OBVIOUS
<1> HIDE DEF n
<1>2. PICK val : /\ val[0] = Passed(<<>>, FALSE)
                 /\ \A k \in 1 .. n : val[k] = Slide(val[k - 1], lines[k])
                 /\ SlidingWindow(lines) = val[n]
  BY <1>1, SlideSteps
<1> DEFINE T == {k \in Nat : Good(k, val[k])}
<1>3. 0 \in T
  <2>1. SubSeq(lines, 1, 0) = <<>>
    BY <1>1, FirstLines
  <2>2. val[0] \in Results /\ val[0].code = <<>>
    BY <1>2, NoLines DEF Results, Passed
  <2>3. Keeps(<<>>, <<>>)
    BY NoLines, KeepsItself
  <2> QED
    BY <2>1, <2>2, <2>3
<1>4. ASSUME NEW k \in 1 .. n, k - 1 \in T PROVE k \in T
  <2>1. k \in Nat /\ k - 1 \in Nat /\ Good(k - 1, val[k - 1])
    BY <1>4
  <2>2. lines[k] \in ProperLines /\ SubSeq(lines, 1, k - 1) \in Seq(ProperLines)
        /\ SubSeq(lines, 1, k) = Append(SubSeq(lines, 1, k - 1), lines[k])
    BY <1>1, FirstLines
  <2>3. Step(val[k - 1], lines[k], val[k])
    BY <1>2, <2>1, <2>2, SlideKeeps
  <2>4. ASSUME ~val[k].panic PROVE Keeps(SubSeq(lines, 1, k), val[k].code)
    <3>1. ~val[k - 1].panic /\ Keeps(Append(val[k - 1].code, lines[k]), val[k].code)
      BY <2>3, <2>4 DEF Step
    <3>2. Keeps(SubSeq(lines, 1, k - 1), val[k - 1].code)
      BY <2>1, <3>1
    <3>3. Keeps(Append(SubSeq(lines, 1, k - 1), lines[k]), Append(val[k - 1].code, lines[k]))
      BY <2>2, <3>2, KeepsAppended
    <3> QED
      BY <2>2, <3>1, <3>3, KeepsTransitive
  <2>5. val[k] \in Results
    BY <2>3 DEF Step
  <2> QED
    BY <2>1, <2>4, <2>5
<1> HIDE DEF T
<1>5. \A k \in 0 .. n : k \in T
  BY <1>1, <1>3, <1>4, Onwards
<1>6. n \in T
  BY <1>1, <1>5
<1>7. Good(n, val[n])
  BY <1>6 DEF T
<1> QED
  BY <1>1, <1>2, <1>7, FirstLines

-----------------------------------------------------------------------------
(* Unused labels.                                                          *)

KeptLabel(kept, i, used) == IF i.op # "label" \/ i.to \in used THEN Append(kept, i) ELSE kept

IsKeep(it, lines, base, used) ==
  it = [S \in SUBSET (DOMAIN lines) |->
          IF S = {} THEN base ELSE KeptLabel(it[S \ {LastOf(S)}], lines[LastOf(S)], used)]

LEMMA KeepSteps ==
  ASSUME NEW lines \in Seq(ProperLines), NEW n \in Nat, n = Len(lines),
         NEW used, NEW kept, kept = KeepLabels(lines, used)
  PROVE  \E val : /\ val[0] = <<>>
                  /\ \A k \in 1 .. n : val[k] = KeptLabel(val[k - 1], lines[k], used)
                  /\ kept = val[n]
<1> DEFINE base == <<>>
           X == Seq(ProperLines)
<1>1. KeepLabels(lines, used) = (CHOOSE it : IsKeep(it, lines, base, used))[DOMAIN lines]
  BY Zenon DEF KeepLabels, FoldLeft, MapThenFoldSet, IsKeep, KeptLabel, Max, LastOf
<1>2. base \in X
  OBVIOUS
<1> HIDE DEF base
<1> DEFINE step == [k \in 1 .. n |-> [s \in X |-> KeptLabel(s, lines[k], used)]]
<1>3. DOMAIN lines = 1 .. n /\ \A k \in 1 .. n : lines[k] \in ProperLines
  OBVIOUS
<1>4. step \in [1 .. n -> [X -> X]]
  BY <1>3 DEF KeptLabel
<1> HIDE DEF X
<1>5. PICK f \in [SUBSET (1 .. n) -> X] : IsFold(f, n, base, step)
  <2> HIDE DEF step
  <2>1. n \in Nat /\ base \in X /\ step \in [1 .. n -> [X -> X]]
    BY <1>2, <1>4
  <2> QED
    BY <2>1, FoldExists
<1>6. IsKeep(f, lines, base, used)
  <2>1. ASSUME NEW S \in SUBSET (1 .. n), S # {}
        PROVE  f[S] = KeptLabel(f[S \ {LastOf(S)}], lines[LastOf(S)], used)
    <3>1. LastOf(S) \in 1 .. n /\ S \ {LastOf(S)} \in SUBSET (1 .. n)
      BY <2>1, LastOfFacts
    <3>2. f[S \ {LastOf(S)}] \in X
      BY <3>1
    <3>3. f[S] = step[LastOf(S)][f[S \ {LastOf(S)}]]
      BY <1>5, <2>1 DEF IsFold
    <3> QED
      BY <3>1, <3>2, <3>3
  <2>2. f[{}] = base
    BY <1>5 DEF IsFold
  <2> QED
    BY <1>3, <1>5, <2>1, <2>2 DEF IsKeep
<1> DEFINE it == CHOOSE g : IsKeep(g, lines, base, used)
           val == [k \in 0 .. n |-> it[1 .. k]]
<1>7. IsKeep(it, lines, base, used)
  BY Zenon, <1>6
<1> HIDE DEF it, step
<1>8. \A S \in SUBSET (1 .. n) :
        it[S] = IF S = {} THEN base ELSE KeptLabel(it[S \ {LastOf(S)}], lines[LastOf(S)], used)
  BY <1>3, <1>7 DEF IsKeep
<1>9. ASSUME NEW k \in 1 .. n PROVE val[k] = KeptLabel(val[k - 1], lines[k], used)
  <2>1. 1 .. k \in SUBSET (1 .. n) /\ 1 .. k # {} /\ LastOf(1 .. k) = k /\ (1 .. k) \ {k} = 1 .. k - 1
    BY LastOfPrefix
  <2>2. k \in 0 .. n /\ k - 1 \in 0 .. n
    OBVIOUS
  <2>3. it[1 .. k] = KeptLabel(it[1 .. k - 1], lines[k], used)
    BY <1>8, <2>1
  <2> QED
    BY <2>2, <2>3
<1>10. val[0] = base
  <2>1. 1 .. 0 = {} /\ 1 .. 0 \in SUBSET (1 .. n) /\ 0 \in 0 .. n
    OBVIOUS
  <2> QED
    BY <1>8, <2>1
<1>11. kept = val[n]
  <2>1. n \in 0 .. n /\ DOMAIN lines = 1 .. n
    BY <1>3
  <2> QED
    BY <1>1, <2>1 DEF it
<1> HIDE DEF val
<1> QED
  BY <1>9, <1>10, <1>11 DEF base

\* d has the labels of c that are used and the targets of c.
Selects(c, d, used) ==
  /\ d \in Seq(ProperLines)
  /\ LabelsOf(d) = LabelsOf(c) \cap used
  /\ Targets(d) = Targets(c)
  /\ UniqueLabels(c) => UniqueLabels(d)

LEMMA KeptLabelSelects ==
  ASSUME NEW c \in Seq(ProperLines), NEW d, NEW used, Selects(c, d, used), NEW i \in ProperLines
  PROVE  Selects(Append(c, i), KeptLabel(d, i, used), used)
<1> DEFINE e == <<i>>
           f == Append(c, i)
           g == Append(d, i)
<1>1. d \in Seq(ProperLines)
  BY DEF Selects
<1>2. /\ LabelsOf(f) = LabelsOf(c) \cup LabelsOf(e) /\ Targets(f) = Targets(c) \cup Targets(e)
      /\ UniqueLabels(f) => UniqueLabels(c) /\ LabelsOf(c) \cap LabelsOf(e) = {}
  BY Added
<1>3. /\ g \in Seq(ProperLines)
      /\ LabelsOf(g) = LabelsOf(d) \cup LabelsOf(e) /\ Targets(g) = Targets(d) \cup Targets(e)
      /\ UniqueLabels(d) /\ LabelsOf(d) \cap LabelsOf(e) = {} => UniqueLabels(g)
  BY <1>1, Added
<1>4. /\ LabelsOf(e) = IF i.op = "label" THEN {i.to} ELSE {}
      /\ i.op = "label" => Targets(e) = {}
  BY OneLine DEF Branches, Jumps, Conditionals
<1> HIDE DEF e, f, g
<1>5. CASE i.op # "label" \/ i.to \in used
  <2>1. KeptLabel(d, i, used) = g
    BY <1>5 DEF KeptLabel, g
  <2>2. Selects(f, g, used)
    BY <1>2, <1>3, <1>4, <1>5 DEF Selects
  <2> QED
    BY <2>1, <2>2 DEF f
<1>6. CASE ~(i.op # "label" \/ i.to \in used)
  <2>1. KeptLabel(d, i, used) = d
    BY <1>6 DEF KeptLabel
  <2>2. Selects(f, d, used)
    BY <1>1, <1>2, <1>4, <1>6 DEF Selects
  <2> QED
    BY <2>1, <2>2 DEF f
<1> QED
  BY <1>5, <1>6

LEMMA KeepLabelsSelects ==
  ASSUME NEW lines \in Seq(ProperLines), NEW used
  PROVE  Selects(lines, KeepLabels(lines, used), used)
<1> DEFINE n == Len(lines)
           kept == KeepLabels(lines, used)
<1>1. n \in Nat /\ n = Len(lines) /\ kept = KeepLabels(lines, used)
  OBVIOUS
<1> HIDE DEF n, kept
<1>2. PICK val : /\ val[0] = <<>>
                 /\ \A k \in 1 .. n : val[k] = KeptLabel(val[k - 1], lines[k], used)
                 /\ kept = val[n]
  BY <1>1, KeepSteps
<1> DEFINE T == {k \in Nat : Selects(SubSeq(lines, 1, k), val[k], used)}
<1>3. 0 \in T
  <2>1. SubSeq(lines, 1, 0) = <<>> /\ val[0] = <<>>
    BY <1>1, <1>2, FirstLines
  <2>2. Selects(<<>>, <<>>, used)
    BY NoLines DEF Selects
  <2> QED
    BY <2>1, <2>2
<1>4. ASSUME NEW k \in 1 .. n, k - 1 \in T PROVE k \in T
  <2>1. k \in Nat /\ Selects(SubSeq(lines, 1, k - 1), val[k - 1], used)
    BY <1>4
  <2>2. lines[k] \in ProperLines /\ SubSeq(lines, 1, k - 1) \in Seq(ProperLines)
        /\ SubSeq(lines, 1, k) = Append(SubSeq(lines, 1, k - 1), lines[k])
    BY <1>1, FirstLines
  <2>3. Selects(SubSeq(lines, 1, k), val[k], used)
    BY <1>2, <2>1, <2>2, KeptLabelSelects
  <2> QED
    BY <2>1, <2>3
<1> HIDE DEF T
<1>5. \A k \in 0 .. n : k \in T
  BY <1>1, <1>3, <1>4, Onwards
<1>6. n \in T
  BY <1>1, <1>5
<1>7. Selects(SubSeq(lines, 1, n), val[n], used)
  BY <1>6 DEF T
<1> QED
  BY <1>1, <1>2, <1>7, FirstLines

-----------------------------------------------------------------------------
(* Unreachable lines.                                                      *)

Regions == [code : Seq(ProperLines), unreachable : BOOLEAN]

Reached(s, i) ==
  IF i.op # "label" /\ s.unreachable THEN s
  ELSE [code |-> Append(s.code, i), unreachable |-> i.op \in Jumps \cup {"rts"}]

IsReach(it, lines, base) ==
  it = [S \in SUBSET (DOMAIN lines) |->
          IF S = {} THEN base ELSE Reached(it[S \ {LastOf(S)}], lines[LastOf(S)])]

LEMMA ReachSteps ==
  ASSUME NEW lines \in Seq(ProperLines), NEW n \in Nat, n = Len(lines)
  PROVE  \E val : /\ val[0] = [code |-> <<>>, unreachable |-> FALSE]
                  /\ \A k \in 1 .. n : val[k] = Reached(val[k - 1], lines[k])
                  /\ DropUnreachable(lines).code = val[n].code
                  /\ ~DropUnreachable(lines).panic
<1> DEFINE base == [code |-> <<>>, unreachable |-> FALSE]
<1>1. DropUnreachable(lines) = Passed((CHOOSE it : IsReach(it, lines, base))[DOMAIN lines].code,
                                      (CHOOSE it : IsReach(it, lines, base))[DOMAIN lines].code # lines)
  BY Zenon DEF DropUnreachable, FoldLeft, MapThenFoldSet, IsReach, Reached, Max, LastOf
<1>2. base \in Regions
  BY DEF Regions
<1> HIDE DEF base
<1> DEFINE step == [k \in 1 .. n |-> [s \in Regions |-> Reached(s, lines[k])]]
<1>3. DOMAIN lines = 1 .. n /\ \A k \in 1 .. n : lines[k] \in ProperLines
  OBVIOUS
<1>4. step \in [1 .. n -> [Regions -> Regions]]
  <2>1. ASSUME NEW s \in Regions, NEW i \in ProperLines PROVE Reached(s, i) \in Regions
    BY DEF Reached, Regions
  <2> QED
    BY <1>3, <2>1
<1>5. PICK f \in [SUBSET (1 .. n) -> Regions] : IsFold(f, n, base, step)
  <2> HIDE DEF step
  <2>1. n \in Nat /\ base \in Regions /\ step \in [1 .. n -> [Regions -> Regions]]
    BY <1>2, <1>4
  <2> QED
    BY <2>1, FoldExists
<1>6. IsReach(f, lines, base)
  <2>1. ASSUME NEW S \in SUBSET (1 .. n), S # {}
        PROVE  f[S] = Reached(f[S \ {LastOf(S)}], lines[LastOf(S)])
    <3>1. LastOf(S) \in 1 .. n /\ S \ {LastOf(S)} \in SUBSET (1 .. n)
      BY <2>1, LastOfFacts
    <3>2. f[S \ {LastOf(S)}] \in Regions
      BY <3>1
    <3>3. f[S] = step[LastOf(S)][f[S \ {LastOf(S)}]]
      BY <1>5, <2>1 DEF IsFold
    <3> QED
      BY <3>1, <3>2, <3>3
  <2>2. f[{}] = base
    BY <1>5 DEF IsFold
  <2> QED
    BY <1>3, <1>5, <2>1, <2>2 DEF IsReach
<1> DEFINE it == CHOOSE g : IsReach(g, lines, base)
           val == [k \in 0 .. n |-> it[1 .. k]]
<1>7. IsReach(it, lines, base)
  BY Zenon, <1>6
<1> HIDE DEF it, step
<1>8. \A S \in SUBSET (1 .. n) : it[S] = IF S = {} THEN base ELSE Reached(it[S \ {LastOf(S)}], lines[LastOf(S)])
  BY <1>3, <1>7 DEF IsReach
<1>9. ASSUME NEW k \in 1 .. n PROVE val[k] = Reached(val[k - 1], lines[k])
  <2>1. 1 .. k \in SUBSET (1 .. n) /\ 1 .. k # {} /\ LastOf(1 .. k) = k /\ (1 .. k) \ {k} = 1 .. k - 1
    BY LastOfPrefix
  <2>2. k \in 0 .. n /\ k - 1 \in 0 .. n
    OBVIOUS
  <2>3. it[1 .. k] = Reached(it[1 .. k - 1], lines[k])
    BY <1>8, <2>1
  <2> QED
    BY <2>2, <2>3
<1>10. val[0] = base
  <2>1. 1 .. 0 = {} /\ 1 .. 0 \in SUBSET (1 .. n) /\ 0 \in 0 .. n
    OBVIOUS
  <2> QED
    BY <1>8, <2>1
<1>11. DropUnreachable(lines).code = val[n].code /\ ~DropUnreachable(lines).panic
  <2>1. n \in 0 .. n /\ DOMAIN lines = 1 .. n
    BY <1>3
  <2>2. DropUnreachable(lines) = Passed(it[DOMAIN lines].code, it[DOMAIN lines].code # lines)
    BY Zenon, <1>1 DEF it
  <2>3. it[DOMAIN lines] = val[n]
    BY <2>1
  <2> HIDE DEF val
  <2> QED
    BY <2>2, <2>3 DEF Passed
<1> HIDE DEF val
<1> QED
  BY <1>9, <1>10, <1>11 DEF base

LEMMA DropUnreachableKeeps ==
  ASSUME NEW lines \in Seq(ProperLines)
  PROVE  Keeps(lines, DropUnreachable(lines).code) /\ ~DropUnreachable(lines).panic
<1> DEFINE n == Len(lines)
<1>1. n \in Nat /\ n = Len(lines)
  OBVIOUS
<1> HIDE DEF n
<1>2. PICK val : /\ val[0] = [code |-> <<>>, unreachable |-> FALSE]
                 /\ \A k \in 1 .. n : val[k] = Reached(val[k - 1], lines[k])
                 /\ DropUnreachable(lines).code = val[n].code
                 /\ ~DropUnreachable(lines).panic
  BY <1>1, ReachSteps
<1> DEFINE T == {k \in Nat : val[k] \in Regions /\ Keeps(SubSeq(lines, 1, k), val[k].code)}
<1>3. 0 \in T
  <2>1. SubSeq(lines, 1, 0) = <<>>
    BY <1>1, FirstLines
  <2>2. val[0] \in Regions /\ val[0].code = <<>>
    BY <1>2, NoLines DEF Regions
  <2>3. Keeps(<<>>, <<>>)
    BY NoLines, KeepsItself
  <2> QED
    BY <2>1, <2>2, <2>3
<1>4. ASSUME NEW k \in 1 .. n, k - 1 \in T PROVE k \in T
  <2> DEFINE c == SubSeq(lines, 1, k - 1)
             s == val[k - 1]
             i == lines[k]
             t == val[k]
  <2>1. k \in Nat /\ s \in Regions /\ Keeps(c, s.code)
    BY <1>4
  <2>2. i \in ProperLines /\ c \in Seq(ProperLines) /\ SubSeq(lines, 1, k) = Append(c, i)
    BY <1>1, FirstLines
  <2>3. t = Reached(s, i)
    BY <1>2
  <2> HIDE DEF c, s, i, t
  <2>4. Keeps(Append(c, i), Append(s.code, i)) /\ Append(s.code, i) \in Seq(ProperLines)
    BY <2>1, <2>2, KeepsAppended DEF Keeps
  <2>5. t \in Regions /\ Keeps(Append(c, i), t.code)
    <3>1. CASE i.op # "label" /\ s.unreachable
      <4>1. t = s
        BY <2>3, <3>1 DEF Reached
      <4>2. Keeps(Append(s.code, i), s.code)
        BY <2>1, <2>2, <3>1, KeepsDropped DEF Regions
      <4> QED
        BY <2>1, <2>4, <4>1, <4>2, KeepsTransitive
    <3>2. CASE ~(i.op # "label" /\ s.unreachable)
      <4>1. t = [code |-> Append(s.code, i), unreachable |-> i.op \in Jumps \cup {"rts"}]
        BY <2>3, <3>2 DEF Reached
      <4>2. t \in Regions /\ t.code = Append(s.code, i)
        BY <2>4, <4>1 DEF Regions
      <4> QED
        BY <2>4, <4>2
    <3> QED
      BY <3>1, <3>2
  <2> QED
    BY <2>1, <2>2, <2>5 DEF t
<1> HIDE DEF T
<1>5. \A k \in 0 .. n : k \in T
  BY <1>1, <1>3, <1>4, Onwards
<1>6. n \in T
  BY <1>1, <1>5
<1>7. Keeps(SubSeq(lines, 1, n), val[n].code)
  BY <1>6 DEF T
<1> QED
  BY <1>1, <1>2, <1>7, FirstLines

-----------------------------------------------------------------------------
(* Branches to jumps.                                                      *)

LEMMA LabelTargetIsTarget ==
  ASSUME NEW c \in Seq(ProperLines), NEW l, LabelTarget(c, l) # <<>>
  PROVE  LabelTarget(c, l)[1] \in Targets(c) /\ LabelTarget(c, l)[1] \in Nat \X Nat \X Nat
<1> DEFINE at == SelectInSeq(c, LAMBDA i : i = Label(l))
<1>1. /\ at \in 1 .. Len(c) - 1
      /\ c[at + 1].op \in Jumps
      /\ LabelTarget(c, l) = <<c[at + 1].to>>
  BY DEF LabelTarget
<1> HIDE DEF at
<1>2. at + 1 \in DOMAIN c
  BY <1>1
<1>3. c[at + 1] \in ProperLines
  BY <1>2
<1>4. c[at + 1].to \in Targets(c)
  BY <1>1, <1>2, TargetIn DEF Branches
<1>5. c[at + 1].to \in Nat \X Nat \X Nat
  BY <1>3 DEF ProperLines, Lines
<1> QED
  BY <1>1, <1>4, <1>5

LEMMA LongFacts ==
  /\ \A op \in Branches : Long(op) \in Branches /\ Long(op) # "label"
  /\ \A op \in Branches : Long(op) \in Conditionals => op \in Conditionals
  /\ \A op \in Branches : op # "label"
  /\ Conditionals \subseteq Branches
BY DEF Long, Branches, Jumps, Conditionals

LEMMA ThreadJumpsKeeps ==
  ASSUME NEW c \in Seq(ProperLines)
  PROVE  Keeps(c, ThreadJumps(c).code) /\ ~ThreadJumps(c).panic
<1> DEFINE Threaded(i) == i.op \in Branches /\ LabelTarget(c, i.to) # <<>>
           d == [j \in DOMAIN c |->
                   IF Threaded(c[j])
                     THEN [c[j] EXCEPT !.op = Long(@), !.to = LabelTarget(c, @)[1]]
                   ELSE c[j]]
<1>1. ThreadJumps(c).code = d /\ ~ThreadJumps(c).panic
  BY DEF ThreadJumps, Passed
<1>2. ASSUME NEW j \in DOMAIN c
      PROVE  /\ d[j] \in ProperLines
             /\ d[j].op = "label" <=> c[j].op = "label"
             /\ d[j].op = "label" => d[j].to = c[j].to
             /\ d[j].op \in Branches => d[j].to \in Targets(c)
  <2> DEFINE i == c[j]
             t == LabelTarget(c, i.to)[1]
  <2>1. i \in ProperLines
    OBVIOUS
  <2>2. CASE Threaded(i)
    <3>1. t \in Targets(c) /\ t \in Nat \X Nat \X Nat
      BY <2>2, LabelTargetIsTarget
    <3>2. d[j] = [i EXCEPT !.op = Long(@), !.to = t]
      BY <2>2
    <3> HIDE DEF d, t
    <3>3. i \in Lines /\ i.op \in Branches /\ (i.op \in Conditionals => i.r \in ConditionCodes)
      BY <2>1, <2>2 DEF ProperLines
    <3> HIDE DEF i
    <3>4. d[j] \in Lines /\ d[j].op = Long(i.op) /\ d[j].to = t /\ d[j].r = i.r
      <4> DEFINE op == Long(i.op)
      <4>1. op \in Branches
        BY <3>3, LongFacts
      <4>2. d[j] = [i EXCEPT !.op = op, !.to = t]
        BY <3>2
      <4> HIDE DEF op
      <4>3. d[j] \in Lines
        BY <3>1, <3>3, <4>1, <4>2 DEF Lines
      <4>4. d[j].op = op /\ d[j].to = t /\ d[j].r = i.r
        BY <3>3, <4>2 DEF Lines
      <4> QED
        BY <4>3, <4>4 DEF op
    <3>5. d[j].op \in Branches /\ d[j].op # "label" /\ i.op # "label"
      BY <3>3, <3>4, LongFacts
    <3>6. d[j] \in ProperLines
      BY <3>3, <3>4, <3>5, LongFacts DEF ProperLines
    <3> QED
      BY <3>1, <3>4, <3>5, <3>6 DEF i
  <2>3. CASE ~Threaded(i)
    <3>1. d[j] = i
      BY <2>3
    <3> QED
      BY <2>1, <3>1, TargetIn
  <2> QED
    BY <2>2, <2>3
<1>3. DOMAIN d = DOMAIN c
  OBVIOUS
<1> HIDE DEF d
<1>4. d \in Seq(ProperLines)
  <2> DEFINE n == Len(c)
  <2>1. n \in Nat /\ DOMAIN c = 1 .. n
    OBVIOUS
  <2> HIDE DEF n
  <2>2. d \in [1 .. n -> ProperLines]
    <3>1. d = [j \in DOMAIN d |-> d[j]]
      BY DEF d
    <3> QED
      BY <1>2, <1>3, <2>1, <3>1
  <2> QED
    BY <2>1, <2>2, IsASeq
<1>5. LabelsOf(d) = LabelsOf(c)
  <2>1. ASSUME NEW l, l \in LabelsOf(d) PROVE l \in LabelsOf(c)
    BY <1>2, <1>3, <2>1, LabelIn
  <2>2. ASSUME NEW l, l \in LabelsOf(c) PROVE l \in LabelsOf(d)
    BY <1>2, <1>3, <2>2, LabelIn
  <2> QED
    BY <2>1, <2>2
<1>6. Targets(d) \subseteq Targets(c)
  BY <1>2, <1>3, TargetIn
<1>7. UniqueLabels(c) => UniqueLabels(d)
  BY <1>2, <1>3 DEF UniqueLabels
<1>8. Keeps(c, d)
  BY <1>4, <1>5, <1>6, <1>7 DEF Keeps
<1> QED
  BY <1>1, <1>8

LEMMA KeepsBound ==
  ASSUME NEW c, Bound(c), NEW d, Keeps(c, d)
  PROVE  Bound(d)
BY DEF Bound, Keeps

LEMMA DropUnusedBound ==
  ASSUME NEW c, Bound(c)
  PROVE  Bound(DropUnusedLabels(c).code) /\ ~DropUnusedLabels(c).panic
<1> DEFINE used == TargetsOf(c, Branches)
           d == KeepLabels(c, used)
<1>1. DropUnusedLabels(c).code = d /\ ~DropUnusedLabels(c).panic
  BY DEF DropUnusedLabels, Passed
<1>2. Selects(c, d, used)
  BY KeepLabelsSelects DEF Bound
<1>3. used = Targets(c)
  BY DEF Targets
<1> HIDE DEF d, used
<1>4. Bound(d)
  BY <1>2, <1>3 DEF Bound, Selects
<1> QED
  BY <1>1, <1>4

-----------------------------------------------------------------------------
(* The emission of code.                                                   *)

\* After c comes more, up to d: labels of L, and branches to these or to labels of T.
Grows(c, d, L, T) ==
  /\ d \in Seq(ProperLines)
  /\ LabelsOf(c) \subseteq LabelsOf(d) /\ LabelsOf(d) \subseteq LabelsOf(c) \cup L
  /\ Targets(d) \subseteq Targets(c) \cup T \cup LabelsOf(d)
  /\ UniqueLabels(c) /\ LabelsOf(c) \cap L = {} => UniqueLabels(d)

States == [code : Seq(ProperLines), inD : Nat, inB : Nat]

Emits(s, t, L, T) == t \in States /\ Grows(s.code, t.code, L, T)

LEMMA GrowsThen ==
  ASSUME NEW c, NEW d, NEW e, NEW L, NEW T, NEW M, NEW U, L \cap M = {},
         Grows(c, d, L, T), Grows(d, e, M, U)
  PROVE  Grows(c, e, L \cup M, T \cup U)
<1>1. /\ e \in Seq(ProperLines)
      /\ LabelsOf(c) \subseteq LabelsOf(e) /\ LabelsOf(e) \subseteq LabelsOf(c) \cup (L \cup M)
      /\ Targets(e) \subseteq Targets(c) \cup (T \cup U) \cup LabelsOf(e)
  BY DEF Grows
<1>2. UniqueLabels(c) /\ LabelsOf(c) \cap (L \cup M) = {} => UniqueLabels(e)
  <2>1. ASSUME UniqueLabels(c), LabelsOf(c) \cap (L \cup M) = {} PROVE UniqueLabels(e)
    <3>1. UniqueLabels(d)
      BY <2>1 DEF Grows
    <3>2. LabelsOf(d) \cap M = {}
      BY <2>1 DEF Grows
    <3> QED
      BY <3>1, <3>2 DEF Grows
  <2> QED
    BY <2>1
<1> QED
  BY <1>1, <1>2 DEF Grows

LEMMA EmitsThen ==
  ASSUME NEW s, NEW t, NEW u, NEW L, NEW T, NEW M, NEW U, L \cap M = {},
         Emits(s, t, L, T), Emits(t, u, M, U)
  PROVE  Emits(s, u, L \cup M, T \cup U)
BY GrowsThen DEF Emits

\* More labels may be made and gone to.
LEMMA EmitsMore ==
  ASSUME NEW s, NEW t, NEW L, NEW T, Emits(s, t, L, T),
         NEW M, NEW U, L \subseteq M, T \subseteq U
  PROVE  Emits(s, t, M, U)
BY DEF Emits, Grows

\* What stands in the code need not be elsewhere.
LEMMA EmitsFound ==
  ASSUME NEW s, NEW t, NEW L, NEW T, NEW U, Emits(s, t, L, T), T \subseteq U \cup LabelsOf(t.code)
  PROVE  Emits(s, t, L, U)
BY DEF Emits, Grows

\* Nothing but plain lines.
EmitsPlain(s, t) == Emits(s, t, {}, {})

LEMMA PlainThen ==
  \A s, t, u : EmitsPlain(s, t) /\ EmitsPlain(t, u) => EmitsPlain(s, u)
<1> SUFFICES ASSUME NEW s, NEW t, NEW u, EmitsPlain(s, t), EmitsPlain(t, u) PROVE EmitsPlain(s, u)
  OBVIOUS
<1>1. Emits(s, u, {} \cup {}, {} \cup {})
  BY EmitsThen DEF EmitsPlain
<1>2. {} \cup {} = {}
  OBVIOUS
<1> QED
  BY <1>1, <1>2 DEF EmitsPlain

LEMMA PlainBefore ==
  ASSUME NEW s, NEW t, NEW u, NEW L, NEW T, EmitsPlain(s, t), Emits(t, u, L, T)
  PROVE  Emits(s, u, L, T)
<1>1. Emits(s, u, {} \cup L, {} \cup T)
  BY EmitsThen DEF EmitsPlain
<1>2. {} \cup L = L /\ {} \cup T = T
  OBVIOUS
<1> QED
  BY <1>1, <1>2

LEMMA PlainAfter ==
  ASSUME NEW s, NEW t, NEW u, NEW L, NEW T, Emits(s, t, L, T), EmitsPlain(t, u)
  PROVE  Emits(s, u, L, T)
<1>1. Emits(s, u, L \cup {}, T \cup {})
  BY EmitsThen DEF EmitsPlain
<1>2. L \cup {} = L /\ T \cup {} = T
  OBVIOUS
<1> QED
  BY <1>1, <1>2

\* One more line.
LEMMA GrowsByLine ==
  ASSUME NEW c \in Seq(ProperLines)
  PROVE  /\ \A i : Plain(i) => Grows(c, Append(c, i), {}, {})
         /\ \A i \in ProperLines : i.op \in Branches => Grows(c, Append(c, i), {}, {i.to})
         /\ \A l \in Nat \X Nat \X Nat :
              Grows(c, Append(c, Label(l)), {l}, {}) /\ l \in LabelsOf(Append(c, Label(l)))
         /\ Grows(c, c, {}, {})
<1>1. ASSUME NEW i, Plain(i) PROVE Grows(c, Append(c, i), {}, {})
  <2>1. Keeps(c, Append(c, i))
    BY <1>1, KeepsExtended
  <2> QED
    BY <2>1 DEF Keeps, Grows
<1>2. ASSUME NEW i \in ProperLines, i.op \in Branches PROVE Grows(c, Append(c, i), {}, {i.to})
  <2> DEFINE d == Append(c, i)
             e == <<i>>
  <2>1. /\ d \in Seq(ProperLines)
        /\ LabelsOf(d) = LabelsOf(c) \cup LabelsOf(e) /\ Targets(d) = Targets(c) \cup Targets(e)
        /\ UniqueLabels(c) /\ LabelsOf(c) \cap LabelsOf(e) = {} => UniqueLabels(d)
    BY Added
  <2>2. LabelsOf(e) = {} /\ Targets(e) = {i.to}
    BY <1>2, OneLine, LongFacts
  <2> HIDE DEF d, e
  <2>3. Grows(c, d, {}, {i.to})
    BY <2>1, <2>2 DEF Grows
  <2> QED
    BY <2>3 DEF d
<1>3. ASSUME NEW l \in Nat \X Nat \X Nat
      PROVE  Grows(c, Append(c, Label(l)), {l}, {}) /\ l \in LabelsOf(Append(c, Label(l)))
  <2> DEFINE i == Label(l)
             d == Append(c, i)
             e == <<i>>
  <2>0. i \in ProperLines /\ i.op = "label" /\ i.to = l
    BY LineFacts, OpsOfLines
  <2> HIDE DEF i
  <2>1. /\ d \in Seq(ProperLines)
        /\ LabelsOf(d) = LabelsOf(c) \cup LabelsOf(e) /\ Targets(d) = Targets(c) \cup Targets(e)
        /\ UniqueLabels(c) /\ LabelsOf(c) \cap LabelsOf(e) = {} => UniqueLabels(d)
    BY <2>0, Added
  <2>2. LabelsOf(e) = {l} /\ Targets(e) = {}
    BY <2>0, OneLine, LongFacts
  <2> HIDE DEF d, e
  <2>3. Grows(c, d, {l}, {}) /\ l \in LabelsOf(d)
    BY <2>1, <2>2 DEF Grows
  <2> QED
    BY <2>3 DEF d, i
<1>4. Grows(c, c, {}, {})
  BY DEF Grows
<1> QED
  BY <1>1, <1>2, <1>3, <1>4

LEMMA Appends ==
  ASSUME NEW c \in Seq(ProperLines), NEW i \in ProperLines, NEW j \in ProperLines, NEW k \in ProperLines
  PROVE  /\ c \o <<>> = c
         /\ c \o <<i>> = Append(c, i)
         /\ c \o <<i, j>> = Append(Append(c, i), j)
         /\ c \o <<i, j, k>> = Append(Append(Append(c, i), j), k)
OBVIOUS

LEMMA WriteEmits ==
  ASSUME NEW s \in States, NEW lines, NEW L, NEW T, Grows(s.code, s.code \o lines, L, T)
  PROVE  /\ Emits(s, Write(s, lines), L, T)
         /\ Write(s, lines).code = s.code \o lines
<1> DEFINE d == s.code \o lines
<1>1. d \in Seq(ProperLines)
  BY DEF Grows
<1>2. Write(s, lines) = [s EXCEPT !.code = d]
  BY DEF Write
<1> HIDE DEF d
<1>3. Write(s, lines) \in States /\ Write(s, lines).code = d
  BY <1>1, <1>2 DEF States
<1> QED
  BY <1>3 DEF Emits, d

LEMMA WriteLines ==
  ASSUME NEW s \in States
  PROVE  /\ EmitsPlain(s, s) /\ EmitsPlain(s, Write(s, <<>>))
         /\ \A i : Plain(i) => EmitsPlain(s, Write(s, <<i>>))
         /\ \A i, j : Plain(i) /\ Plain(j) => EmitsPlain(s, Write(s, <<i, j>>))
         /\ \A i, j, k : Plain(i) /\ Plain(j) /\ Plain(k) => EmitsPlain(s, Write(s, <<i, j, k>>))
<1> DEFINE c == s.code
<1>1. c \in Seq(ProperLines)
  BY DEF States
<1>2. \A i : Plain(i) => i \in ProperLines
  BY DEF Plain
<1>3. EmitsPlain(s, s)
  BY <1>1, GrowsByLine DEF EmitsPlain, Emits
<1>4. EmitsPlain(s, Write(s, <<>>))
  <2>1. c \o <<>> = c
    BY <1>1
  <2> QED
    BY <1>1, <2>1, GrowsByLine, WriteEmits DEF EmitsPlain
<1>5. ASSUME NEW i, Plain(i) PROVE EmitsPlain(s, Write(s, <<i>>))
  <2>1. c \o <<i>> = Append(c, i)
    BY <1>1, <1>2, <1>5, Appends
  <2> QED
    BY <1>1, <1>5, <2>1, GrowsByLine, WriteEmits DEF EmitsPlain
<1>6. ASSUME NEW d \in Seq(ProperLines), NEW i, Plain(i), Grows(c, d, {}, {})
      PROVE  Grows(c, Append(d, i), {}, {})
  <2>1. Grows(d, Append(d, i), {}, {})
    BY <1>6, GrowsByLine
  <2>2. {} \cap {} = {} /\ {} \cup {} = {}
    OBVIOUS
  <2>3. Grows(c, Append(d, i), {} \cup {}, {} \cup {})
    BY <1>6, <2>1, <2>2, GrowsThen
  <2> QED
    BY <2>2, <2>3
<1>7. Grows(c, c, {}, {})
  BY <1>1, GrowsByLine
<1>8. ASSUME NEW i, NEW j, Plain(i), Plain(j) PROVE EmitsPlain(s, Write(s, <<i, j>>))
  <2>1. c \o <<i, j>> = Append(Append(c, i), j)
    BY <1>1, <1>2, <1>8, Appends
  <2>2. Append(c, i) \in Seq(ProperLines)
    BY <1>1, <1>2, <1>8
  <2>3. Grows(c, Append(c, i), {}, {})
    BY <1>1, <1>6, <1>7, <1>8
  <2>4. Grows(c, Append(Append(c, i), j), {}, {})
    BY <1>6, <1>8, <2>2, <2>3
  <2> QED
    BY <2>1, <2>4, WriteEmits DEF EmitsPlain
<1>9. ASSUME NEW i, NEW j, NEW k, Plain(i), Plain(j), Plain(k) PROVE EmitsPlain(s, Write(s, <<i, j, k>>))
  <2>1. c \o <<i, j, k>> = Append(Append(Append(c, i), j), k)
    BY <1>1, <1>2, <1>9, Appends
  <2>2. Append(c, i) \in Seq(ProperLines) /\ Append(Append(c, i), j) \in Seq(ProperLines)
    BY <1>1, <1>2, <1>9
  <2>3. Grows(c, Append(c, i), {}, {})
    BY <1>1, <1>6, <1>7, <1>9
  <2>4. Grows(c, Append(Append(c, i), j), {}, {})
    BY <1>6, <1>9, <2>2, <2>3
  <2>5. Grows(c, Append(Append(Append(c, i), j), k), {}, {})
    BY <1>6, <1>9, <2>2, <2>4
  <2> QED
    BY <2>1, <2>5, WriteEmits DEF EmitsPlain
<1> HIDE DEF c
<1> QED
  BY <1>3, <1>4, <1>5, <1>8, <1>9

LEMMA EmitsStates == \A s, t : EmitsPlain(s, t) => t \in States
BY DEF EmitsPlain, Emits

\* What D and B hold is no part of the code.
LEMMA TrackEmits ==
  ASSUME NEW s \in States, NEW v \in Nat, NEW c
  PROVE  EmitsPlain(s, ClobberAllRegs(s)) /\ EmitsPlain(s, SetD(c, s, v)) /\ EmitsPlain(s, SetB(c, s, v))
<1>1. ASSUME NEW x \in Nat, NEW y \in Nat PROVE EmitsPlain(s, [s EXCEPT !.inD = x, !.inB = y])
  <2> DEFINE t == [s EXCEPT !.inD = x, !.inB = y]
  <2>1. t \in States /\ t.code = s.code /\ s.code \in Seq(ProperLines)
    BY DEF States
  <2> HIDE DEF t
  <2>2. EmitsPlain(s, t)
    BY <2>1, GrowsByLine DEF EmitsPlain, Emits
  <2> QED
    BY <2>2 DEF t
<1>2. \A x, y \in Nat : [s EXCEPT !.inB = x, !.inD = y] = [s EXCEPT !.inD = y, !.inB = x]
  BY DEF States
<1>3. EmitsPlain(s, ClobberAllRegs(s))
  BY <1>1 DEF ClobberAllRegs
<1>4. (IF CanTrack(c, v) THEN v ELSE 0) \in Nat
  OBVIOUS
<1> DEFINE x == IF CanTrack(c, v) THEN v ELSE 0
<1>5. EmitsPlain(s, [s EXCEPT !.inD = x, !.inB = 0]) /\ EmitsPlain(s, [s EXCEPT !.inB = x, !.inD = 0])
  <2> HIDE DEF x
  <2>1. x \in Nat /\ 0 \in Nat
    BY <1>4 DEF x
  <2>2. [s EXCEPT !.inB = x, !.inD = 0] = [s EXCEPT !.inD = 0, !.inB = x]
    BY <1>2, <2>1
  <2>3. EmitsPlain(s, [s EXCEPT !.inD = 0, !.inB = x]) /\ EmitsPlain(s, [s EXCEPT !.inD = x, !.inB = 0])
    BY <1>1, <2>1
  <2> QED
    BY <2>2, <2>3
<1> QED
  BY <1>3, <1>5 DEF SetD, SetB

LEMMA LoadValEmits ==
  ASSUME NEW s \in States, NEW v \in Nat, NEW c
  PROVE  EmitsPlain(s, LoadVal(c, s, v))
<1> DEFINE t == Write(s, <<Ld("b", v)>>)
           u == Write(s, <<Ld("d", v)>>)
<1>1. EmitsPlain(s, t) /\ EmitsPlain(s, u) /\ EmitsPlain(s, s)
  BY WriteLines, PlainLines
<1>2. EmitsPlain(s, SetB(c, t, v)) /\ EmitsPlain(s, SetD(c, u, v))
  <2> HIDE DEF t, u
  <2> QED
    BY <1>1, EmitsStates, TrackEmits, PlainThen
<1> QED
  BY <1>1, <1>2 DEF LoadVal

LEMMA StoreResultEmits ==
  ASSUME NEW s \in States, NEW v \in Nat, NEW c
  PROVE  EmitsPlain(s, StoreResult(c, s, v))
<1> DEFINE t == Write(s, <<St("b", v)>>)
           u == Write(s, <<St("d", v)>>)
<1>1. EmitsPlain(s, t) /\ EmitsPlain(s, u)
  BY WriteLines, PlainLines
<1>2. EmitsPlain(s, SetB(c, t, v)) /\ EmitsPlain(s, SetD(c, u, v))
  <2> HIDE DEF t, u
  <2> QED
    BY <1>1, EmitsStates, TrackEmits, PlainThen
<1> QED
  BY <1>2 DEF StoreResult

LEMMA LoadXEmits ==
  ASSUME NEW s \in States, NEW v \in Nat
  PROVE  EmitsPlain(s, LoadX(s, v))
<1>1. EmitsPlain(s, Write(s, <<Tfr("d", "x")>>)) /\ EmitsPlain(s, Write(s, <<Ld("x", v)>>))
  BY WriteLines, PlainLines
<1> QED
  BY <1>1 DEF LoadX

LEMMA EmitCallEmits ==
  ASSUME NEW s \in States, NEW v \in Nat, NEW c
  PROVE  EmitsPlain(s, EmitCall(c, s, v))
<1> DEFINE t == LoadVal(c, s, v)
           u == Write(t, <<Pshs("d"), Jsr>>)
           w == ClobberAllRegs(u)
           x == Write(w, <<Leas(1)>>)
<1>1. EmitCall(c, s, v) = x
  BY DEF EmitCall
<1>2. EmitsPlain(s, t)
  BY LoadValEmits
<1>3. EmitsPlain(t, u)
  BY <1>2, EmitsStates, WriteLines, PlainLines
<1>4. EmitsPlain(u, w)
  BY <1>3, EmitsStates, TrackEmits
<1>5. EmitsPlain(w, x)
  BY <1>4, EmitsStates, WriteLines, PlainLines
<1> HIDE DEF t, u, w, x
<1> QED
  BY <1>1, <1>2, <1>3, <1>4, <1>5, PlainThen

-----------------------------------------------------------------------------
(* The labels that are made for instructions I of block b.                 *)

Made(b, I) == {<<b, i, j>> : i \in I, j \in 1 .. 2}

LEMMA MadeFacts ==
  ASSUME NEW b \in Nat, NEW I \in SUBSET Nat
  PROVE  /\ \A l : l \in Made(b, I) <=> \E i \in I, j \in 1 .. 2 : l = <<b, i, j>>
         /\ \A i \in I : NextLabel(b, i, 1) \in Made(b, I) /\ NextLabel(b, i, 2) \in Made(b, I)
         /\ \A i \in I : NextLabel(b, i, 1) # NextLabel(b, i, 2)
         /\ \A i \in I : /\ NextLabel(b, i, 1) \in Nat \X Nat \X Nat
                         /\ NextLabel(b, i, 2) \in Nat \X Nat \X Nat
         /\ \A J \in SUBSET Nat : I \cap J = {} => Made(b, I) \cap Made(b, J) = {}
         /\ \A J \in SUBSET Nat : I \subseteq J => Made(b, I) \subseteq Made(b, J)
         /\ BlockLabel(b) \notin Made(b, I) /\ BlockLabel(b) \in Nat \X Nat \X Nat
<1>1. \A J, l : l \in Made(b, J) <=> \E i \in J, j \in 1 .. 2 : l = <<b, i, j>>
  BY DEF Made
<1>2. 1 \in 1 .. 2 /\ 2 \in 1 .. 2 /\ 0 \notin 1 .. 2
  OBVIOUS
<1>3. \A i \in I : NextLabel(b, i, 1) \in Made(b, I) /\ NextLabel(b, i, 2) \in Made(b, I)
  BY <1>1, <1>2 DEF NextLabel
<1>4. \A i \in I : NextLabel(b, i, 1) # NextLabel(b, i, 2)
  BY DEF NextLabel
<1>5. \A i \in I : NextLabel(b, i, 1) \in Nat \X Nat \X Nat /\ NextLabel(b, i, 2) \in Nat \X Nat \X Nat
  BY DEF NextLabel
<1>6. ASSUME NEW J \in SUBSET Nat, I \cap J = {} PROVE Made(b, I) \cap Made(b, J) = {}
  <2>1. ASSUME NEW l, l \in Made(b, I), l \in Made(b, J) PROVE FALSE
    <3>1. PICK i \in I, j \in 1 .. 2 : l = <<b, i, j>>
      BY <1>1, <2>1, ZenonT(30)
    <3>2. PICK x \in J, y \in 1 .. 2 : l = <<b, x, y>>
      BY <1>1, <2>1, ZenonT(30)
    <3>3. i = x
      BY <3>1, <3>2
    <3> QED
      BY <1>6, <3>3
  <2> QED
    BY <2>1
<1>7. ASSUME NEW J \in SUBSET Nat, I \subseteq J PROVE Made(b, I) \subseteq Made(b, J)
  <2> SUFFICES ASSUME NEW l, l \in Made(b, I) PROVE l \in Made(b, J)
    OBVIOUS
  <2>1. PICK i \in I, j \in 1 .. 2 : l = <<b, i, j>>
    BY <1>1, ZenonT(30)
  <2>2. i \in J
    BY <1>7
  <2> QED
    BY <1>1, <2>1, <2>2
<1>8. BlockLabel(b) \notin Made(b, I) /\ BlockLabel(b) \in Nat \X Nat \X Nat
  BY <1>1, <1>2 DEF BlockLabel
<1> QED
  BY <1>1, <1>3, <1>4, <1>5, <1>6, <1>7, <1>8

LEMMA MadeApart ==
  ASSUME NEW b \in Nat, NEW I \in SUBSET Nat, NEW J \in SUBSET Nat, I \cap J = {}
  PROVE  Made(b, I) \cap Made(b, J) = {}
BY MadeFacts

LEMMA MadeMore ==
  ASSUME NEW b \in Nat, NEW I \in SUBSET Nat, NEW J \in SUBSET Nat, I \subseteq J
  PROVE  Made(b, I) \subseteq Made(b, J)
BY MadeFacts

\* A branch, and a label.
LEMMA LabelLines ==
  ASSUME NEW s \in States, NEW l \in Nat \X Nat \X Nat
  PROVE  /\ Emits(s, Write(s, <<LBra(l)>>), {}, {l})
         /\ Emits(s, Write(s, <<Bra(l)>>), {}, {l})
         /\ \A k \in ConditionCodes : Emits(s, Write(s, <<LBcc(k, l)>>), {}, {l})
         /\ \A k \in ConditionCodes : Emits(s, Write(s, <<Bcc(k, l)>>), {}, {l})
         /\ Emits(s, Write(s, <<Label(l)>>), {l}, {})
         /\ l \in LabelsOf(Write(s, <<Label(l)>>).code)
<1> DEFINE c == s.code
<1>1. c \in Seq(ProperLines)
  BY DEF States
<1>2. ASSUME NEW i \in ProperLines, i.op \in Branches, i.to = l
      PROVE  Emits(s, Write(s, <<i>>), {}, {l})
  <2>1. c \o <<i>> = Append(c, i)
    BY <1>1, Appends
  <2> QED
    BY <1>1, <1>2, <2>1, GrowsByLine, WriteEmits
<1>3. /\ LBra(l) \in ProperLines /\ LBra(l).op \in Branches /\ LBra(l).to = l
      /\ Bra(l) \in ProperLines /\ Bra(l).op \in Branches /\ Bra(l).to = l
  <2>1. LBra(l).op = "lbra" /\ LBra(l).to = l /\ Bra(l).op = "bra" /\ Bra(l).to = l
    BY DEF LBra, Bra, Line
  <2>2. LBra(l) \in ProperLines /\ Bra(l) \in ProperLines
    BY LineFacts DEF LBra, Bra
  <2> QED
    BY <2>1, <2>2 DEF Branches, Jumps
<1>4. ASSUME NEW k \in ConditionCodes
      PROVE  /\ LBcc(k, l) \in ProperLines /\ LBcc(k, l).op \in Branches /\ LBcc(k, l).to = l
             /\ Bcc(k, l) \in ProperLines /\ Bcc(k, l).op \in Branches /\ Bcc(k, l).to = l
  <2>1. LBcc(k, l).op = "lbcc" /\ LBcc(k, l).to = l /\ Bcc(k, l).op = "bcc" /\ Bcc(k, l).to = l
    BY DEF LBcc, Bcc, Line
  <2>2. LBcc(k, l) \in ProperLines /\ Bcc(k, l) \in ProperLines
    BY LineFacts DEF LBcc, Bcc
  <2> QED
    BY <2>1, <2>2 DEF Branches, Conditionals
<1>5. /\ Emits(s, Write(s, <<Label(l)>>), {l}, {})
      /\ l \in LabelsOf(Write(s, <<Label(l)>>).code)
  <2>1. c \o <<Label(l)>> = Append(c, Label(l))
    BY <1>1, Appends, LineFacts
  <2> QED
    BY <1>1, <2>1, GrowsByLine, WriteEmits
<1> QED
  BY <1>2, <1>3, <1>4, <1>5

LEMMA WriteTwice ==
  ASSUME NEW s \in States, NEW a \in Seq(ProperLines), NEW b \in Seq(ProperLines)
  PROVE  Write(s, a \o b) = Write(Write(s, a), b)
<1>1. s.code \in Seq(ProperLines)
  BY DEF States
<1>2. \A x \in Seq(ProperLines) : x \o (a \o b) = (x \o a) \o b
  OBVIOUS
<1>3. Write(s, a).code = s.code \o a
  BY DEF Write, States
<1> QED
  BY <1>1, <1>2, <1>3 DEF Write, States

LEMMA CondOpFacts ==
  /\ \A k \in Comparisons : CondOp(k) \in ConditionCodes
  /\ \A k : CondOpZero(k) \in ConditionCodes
  /\ \A k \in ConditionCodes : InvertCondOp(k) \in ConditionCodes
  /\ "ne" \in ConditionCodes
<1>1. \A k \in Comparisons : CondOp(k) \in ConditionCodes
  BY DEF Comparisons, ConditionCodes, CondOp
<1>2. \A k : CondOpZero(k) \in ConditionCodes
  BY DEF ConditionCodes, CondOpZero
<1>3. \A k \in ConditionCodes : InvertCondOp(k) \in ConditionCodes
  BY DEF ConditionCodes, InvertCondOp
<1>4. "ne" \in ConditionCodes
  BY DEF ConditionCodes
<1> QED
  BY <1>1, <1>2, <1>3, <1>4

LEMMA EmitCompareEmits ==
  ASSUME NEW s \in States, NEW o \in Operations, o.op = "compare", NEW b \in Nat, NEW i \in Nat, NEW c
  PROVE  Emits(s, EmitCompare(c, s, o, b, i), Made(b, {i}), {})
<1> DEFINE true == NextLabel(b, i, 1)
           end == NextLabel(b, i, 2)
           k == o.k
           n == o.n
           branch == IF n # 0 THEN <<Bcc(CondOp(k), true)>>
                     ELSE IF k = "lt" THEN <<>>
                     ELSE IF k = "gte" THEN <<Bra(true)>>
                     ELSE <<Bcc(CondOpZero(k), true)>>
           tail == <<ClrB, Bra(end), Label(true), LdImm("b", 1), Label(end)>>
           s1 == LoadVal(c, s, o.src)
           s2 == Write(s1, <<CmpImm(n)>>)
           s3 == Write(s2, branch)
           s4 == Write(s3, <<ClrB>>)
           s5 == Write(s4, <<Bra(end)>>)
           s6 == Write(s5, <<Label(true)>>)
           s7 == Write(s6, <<LdImm("b", 1)>>)
           s8 == Write(s7, <<Label(end)>>)
           s9 == StoreResult(c, s8, o.dst)
<1>1. o.src \in Nat /\ o.dst \in Nat /\ n \in Int /\ k \in Comparisons
  BY DEF Operations
<1>2. /\ true \in Nat \X Nat \X Nat /\ end \in Nat \X Nat \X Nat /\ true # end
      /\ true \in Made(b, {i}) /\ end \in Made(b, {i})
  <2>1. {i} \in SUBSET Nat /\ i \in {i}
    OBVIOUS
  <2> QED
    BY <2>1, MadeFacts
<1> HIDE DEF true, end, n, k
<1>3. EmitsPlain(s, s1)
  BY <1>1, LoadValEmits
<1>4. EmitsPlain(s1, s2)
  BY <1>1, <1>3, EmitsStates, WriteLines, PlainLines
<1> HIDE DEF s1, s2
<1>5. Emits(s2, s3, {}, {true})
  <2>1. s2 \in States
    BY <1>4, EmitsStates
  <2>2. CASE n # 0
    <3>1. branch = <<Bcc(CondOp(k), true)>>
      BY <2>2
    <3> QED
      BY <1>1, <1>2, <2>1, <3>1, LabelLines, CondOpFacts
  <2>3. CASE n = 0 /\ k = "lt"
    <3>1. branch = <<>>
      BY <2>3
    <3>2. Emits(s2, s3, {}, {})
      BY <2>1, <3>1, WriteLines DEF EmitsPlain
    <3> HIDE DEF s3
    <3>3. {} \subseteq {true}
      OBVIOUS
    <3> QED
      BY <3>2, <3>3, EmitsMore
  <2>4. CASE n = 0 /\ k = "gte"
    <3>1. branch = <<Bra(true)>>
      BY <2>4
    <3> QED
      BY <1>2, <2>1, <3>1, LabelLines
  <2>5. CASE n = 0 /\ k # "lt" /\ k # "gte"
    <3>1. branch = <<Bcc(CondOpZero(k), true)>>
      BY <2>5
    <3> QED
      BY <1>2, <2>1, <3>1, LabelLines, CondOpFacts
  <2> QED
    BY <2>2, <2>3, <2>4, <2>5
<1>6. branch \in Seq(ProperLines)
  <2>1. Bra(true) \in ProperLines
    BY <1>2, LineFacts DEF Bra
  <2>2. Bcc(CondOp(k), true) \in ProperLines /\ Bcc(CondOpZero(k), true) \in ProperLines
    BY <1>1, <1>2, LineFacts, CondOpFacts DEF Bcc
  <2>3. /\ <<Bra(true)>> \in Seq(ProperLines) /\ <<Bcc(CondOp(k), true)>> \in Seq(ProperLines)
        /\ <<Bcc(CondOpZero(k), true)>> \in Seq(ProperLines) /\ <<>> \in Seq(ProperLines)
    BY <2>1, <2>2, OneLine
  <2> QED
    BY Zenon, <2>3
<1> HIDE DEF branch, s3
<1>7. EmitsPlain(s3, s4)
  BY <1>5, WriteLines, PlainLines DEF Emits
<1> HIDE DEF s4
<1>8. Emits(s4, s5, {}, {end})
  BY <1>2, <1>7, EmitsStates, LabelLines
<1> HIDE DEF s5
<1>9. Emits(s5, s6, {true}, {}) /\ true \in LabelsOf(s6.code)
  <2>1. s5 \in States
    BY <1>8 DEF Emits
  <2> QED
    BY <1>2, <2>1, LabelLines
<1> HIDE DEF s6
<1>10. EmitsPlain(s6, s7)
  BY <1>9, WriteLines, PlainLines DEF Emits
<1> HIDE DEF s7
<1>11. Emits(s7, s8, {end}, {}) /\ end \in LabelsOf(s8.code)
  <2>1. s7 \in States
    BY <1>10, EmitsStates
  <2> QED
    BY <1>2, <2>1, LabelLines
<1>12. Write(s1, <<CmpImm(n)>> \o branch \o tail) = s8
  <2>1. /\ <<CmpImm(n)>> \in Seq(ProperLines) /\ <<ClrB>> \in Seq(ProperLines)
        /\ <<Bra(end)>> \in Seq(ProperLines) /\ <<Label(true)>> \in Seq(ProperLines)
        /\ <<LdImm("b", 1)>> \in Seq(ProperLines) /\ <<Label(end)>> \in Seq(ProperLines)
    <3>1. CmpImm(n) \in ProperLines /\ ClrB \in ProperLines /\ LdImm("b", 1) \in ProperLines
      BY <1>1, PlainLines DEF Plain
    <3>2. Bra(end) \in ProperLines /\ Label(true) \in ProperLines /\ Label(end) \in ProperLines
      BY <1>2, LineFacts DEF Bra
    <3> QED
      BY <3>1, <3>2, OneLine
  <2>2. tail = <<ClrB>> \o <<Bra(end)>> \o <<Label(true)>> \o <<LdImm("b", 1)>> \o <<Label(end)>>
    OBVIOUS
  <2> DEFINE t1 == <<ClrB>>
             t2 == <<Bra(end)>>
             t3 == <<Label(true)>>
             t4 == <<LdImm("b", 1)>>
             t5 == <<Label(end)>>
             t0 == <<CmpImm(n)>>
  <2>3. s1 \in States /\ s2 \in States /\ s3 \in States /\ s4 \in States /\ s5 \in States /\ s6 \in States
    BY <1>3, <1>4, <1>5, <1>7, <1>8, <1>9 DEF EmitsPlain, Emits
  <2>4. s7 \in States
    BY <1>10, EmitsStates
  <2>5. /\ s2 = Write(s1, t0) /\ s3 = Write(s2, branch) /\ s4 = Write(s3, t1) /\ s5 = Write(s4, t2)
        /\ s6 = Write(s5, t3) /\ s7 = Write(s6, t4) /\ s8 = Write(s7, t5)
    BY DEF s2, s3, s4, s5, s6, s7
  <2> HIDE DEF t0, t1, t2, t3, t4, t5, s8, tail
  <2>6. tail = t1 \o t2 \o t3 \o t4 \o t5
    BY <2>2 DEF t1, t2, t3, t4, t5
  <2>7. /\ t0 \in Seq(ProperLines) /\ t1 \in Seq(ProperLines) /\ t2 \in Seq(ProperLines)
        /\ t3 \in Seq(ProperLines) /\ t4 \in Seq(ProperLines) /\ t5 \in Seq(ProperLines)
    BY <2>1 DEF t0, t1, t2, t3, t4, t5
  <2>8. /\ t1 \o t2 \in Seq(ProperLines) /\ t1 \o t2 \o t3 \in Seq(ProperLines)
        /\ t1 \o t2 \o t3 \o t4 \in Seq(ProperLines) /\ tail \in Seq(ProperLines)
        /\ t0 \o branch \in Seq(ProperLines)
    BY <1>6, <2>6, <2>7
  <2>9. Write(s1, t0 \o branch \o tail) = Write(s3, tail)
    <3>1. Write(s1, t0 \o branch \o tail) = Write(Write(s1, t0 \o branch), tail)
      BY <2>3, <2>8, WriteTwice, ZenonT(30)
    <3>2. Write(s1, t0 \o branch) = s3
      BY <1>6, <2>3, <2>5, <2>7, WriteTwice
    <3> QED
      BY <3>1, <3>2
  <2>10. Write(s3, tail) = s8
    <3> DEFINE u2 == t1 \o t2
               u3 == u2 \o t3
               u4 == u3 \o t4
    <3>1. /\ u2 \in Seq(ProperLines) /\ u3 \in Seq(ProperLines) /\ u4 \in Seq(ProperLines)
          /\ tail = u4 \o t5
      BY <2>6, <2>8
    <3>2. Write(s3, u2) = s5
      BY <2>3, <2>5, <2>7, WriteTwice
    <3>3. Write(s3, u3) = s6
      <4> HIDE DEF u2
      <4> QED
        BY <2>3, <2>5, <2>7, <3>1, <3>2, WriteTwice
    <3>4. Write(s3, u4) = s7
      <4> HIDE DEF u3
      <4> QED
        BY <2>3, <2>5, <2>7, <3>1, <3>3, WriteTwice
    <3> HIDE DEF u4
    <3> QED
      BY <2>3, <2>5, <2>7, <3>1, <3>4, WriteTwice
  <2> QED
    BY <2>9, <2>10 DEF t0
<1> HIDE DEF s8
<1>13. EmitsPlain(s8, s9)
  BY <1>1, <1>11, StoreResultEmits DEF Emits
<1>14. EmitCompare(c, s, o, b, i) = s9
  <2>1. EmitCompare(c, s, o, b, i) =
          StoreResult(c, Write(s1, <<CmpImm(n)>> \o branch \o tail), o.dst)
    BY Zenon DEF EmitCompare, s1, branch, true, end, n, k
  <2> QED
    BY <1>12, <2>1
<1> HIDE DEF s9
<1>15. Emits(s, s5, {}, {true, end})
  <2>1. Emits(s, s4, {}, {true})
    BY <1>3, <1>4, <1>5, <1>7, PlainBefore, PlainAfter
  <2>2. Emits(s, s5, {} \cup {}, {true} \cup {end})
    <3>1. {} \cap {} = {}
      OBVIOUS
    <3> QED
      BY <1>8, <2>1, <3>1, EmitsThen
  <2>3. {} \cup {} = {} /\ {true} \cup {end} = {true, end}
    OBVIOUS
  <2> QED
    BY <2>2, <2>3
<1>16. Emits(s5, s9, {true, end}, {}) /\ true \in LabelsOf(s9.code) /\ end \in LabelsOf(s9.code)
  <2>1. Emits(s5, s7, {true}, {})
    BY <1>9, <1>10, PlainAfter
  <2>2. Emits(s5, s8, {true} \cup {end}, {} \cup {})
    <3>1. {true} \cap {end} = {}
      BY <1>2
    <3> QED
      BY <1>11, <2>1, <3>1, EmitsThen
  <2>3. {} \cup {} = {} /\ {true} \cup {end} = {true, end}
    OBVIOUS
  <2>4. Emits(s5, s9, {true, end}, {})
    BY <1>13, <2>2, <2>3, PlainAfter
  <2>5. LabelsOf(s6.code) \subseteq LabelsOf(s7.code) /\ LabelsOf(s7.code) \subseteq LabelsOf(s8.code)
        /\ LabelsOf(s8.code) \subseteq LabelsOf(s9.code)
    BY <1>10, <1>11, <1>13 DEF EmitsPlain, Emits, Grows
  <2> QED
    BY <1>9, <1>11, <2>4, <2>5
<1>17. Emits(s, s9, {} \cup {true, end}, {true, end} \cup {})
  <2>1. {} \cap {true, end} = {}
    OBVIOUS
  <2> QED
    BY <1>15, <1>16, <2>1, EmitsThen
<1>18. Emits(s, s9, Made(b, {i}), {true, end})
  <2>1. {} \cup {true, end} \subseteq Made(b, {i}) /\ {true, end} \cup {} \subseteq {true, end}
    BY <1>2
  <2> QED
    BY <1>17, <2>1, EmitsMore
<1>19. {true, end} \subseteq {} \cup LabelsOf(s9.code)
  BY <1>16
<1>20. Emits(s, s9, Made(b, {i}), {})
  BY <1>18, <1>19, EmitsFound
<1> QED
  BY <1>14, <1>20

LEMMA EmitInstrEmits ==
  ASSUME NEW s \in States, NEW o \in Operations, NEW b \in Nat, NEW i \in Nat, NEW c
  PROVE  Emits(s, EmitInstr(c, s, o, b, i), Made(b, {i}), {})
<1>1. o.src \in Nat /\ o.dst \in Nat /\ o.n \in Int
      /\ o.op \in {"const", "add", "compare", "call", "callvoid", "load", "store", "loadptr", "storeptr"}
  BY DEF Operations
<1> DEFINE e == EmitInstr(c, s, o, b, i)
<1>2. ASSUME EmitsPlain(s, e) PROVE Emits(s, e, Made(b, {i}), {})
  <2>1. {} \subseteq Made(b, {i}) /\ {} \subseteq {}
    OBVIOUS
  <2> HIDE DEF e
  <2> QED
    BY <1>2, <2>1, EmitsMore DEF EmitsPlain
<1>3. CASE o.op = "const"
  <2> DEFINE t == Write(s, <<LdImm("d", o.n)>>)
  <2>1. EmitsPlain(s, t)
    BY <1>1, WriteLines, PlainLines
  <2>2. e = StoreResult(c, t, o.dst)
    BY <1>3 DEF EmitInstr
  <2> HIDE DEF t, e
  <2>3. EmitsPlain(s, e)
    BY <1>1, <2>1, <2>2, EmitsStates, StoreResultEmits, PlainThen
  <2> QED
    BY <1>2, <2>3 DEF e
<1>4. CASE o.op = "add"
  <2> DEFINE t == LoadVal(c, s, o.src)
             u == Write(t, IF o.n = 0 THEN <<>> ELSE <<AddImm("d", o.n)>>)
  <2>1. EmitsPlain(s, t)
    BY <1>1, LoadValEmits
  <2>2. e = StoreResult(c, u, o.dst)
    BY <1>4 DEF EmitInstr
  <2> HIDE DEF t, e
  <2>3. EmitsPlain(t, u)
    BY <1>1, <2>1, EmitsStates, WriteLines, PlainLines
  <2> HIDE DEF u
  <2>4. EmitsPlain(s, e)
    BY <1>1, <2>1, <2>2, <2>3, EmitsStates, StoreResultEmits, PlainThen
  <2> QED
    BY <1>2, <2>4 DEF e
<1>5. CASE o.op = "compare"
  <2>1. e = EmitCompare(c, s, o, b, i)
    BY <1>5 DEF EmitInstr
  <2> QED
    BY <1>5, <2>1, EmitCompareEmits
<1>6. CASE o.op = "call"
  <2> DEFINE t == EmitCall(c, s, o.src)
  <2>1. EmitsPlain(s, t)
    BY <1>1, EmitCallEmits
  <2>2. e = StoreResult(c, t, o.dst)
    BY <1>6 DEF EmitInstr
  <2> HIDE DEF t, e
  <2>3. EmitsPlain(s, e)
    BY <1>1, <2>1, <2>2, EmitsStates, StoreResultEmits, PlainThen
  <2> QED
    BY <1>2, <2>3 DEF e
<1>7. CASE o.op = "callvoid"
  <2>1. e = EmitCall(c, s, o.src)
    BY <1>7 DEF EmitInstr
  <2>2. EmitsPlain(s, e)
    BY <1>1, <2>1, EmitCallEmits
  <2> QED
    BY <1>2, <2>2
<1>8. CASE o.op = "load"
  <2> DEFINE t == Write(s, <<Ld("d", o.src)>>)
  <2>1. EmitsPlain(s, t)
    BY <1>1, WriteLines, PlainLines
  <2>2. e = StoreResult(c, t, o.dst)
    BY <1>8 DEF EmitInstr
  <2> HIDE DEF t, e
  <2>3. EmitsPlain(s, e)
    BY <1>1, <2>1, <2>2, EmitsStates, StoreResultEmits, PlainThen
  <2> QED
    BY <1>2, <2>3 DEF e
<1>9. CASE o.op = "store"
  <2> DEFINE t == LoadVal(c, s, o.src)
             u == Write(t, <<St("d", o.dst)>>)
  <2>1. EmitsPlain(s, t)
    BY <1>1, LoadValEmits
  <2>2. e = u
    BY <1>9 DEF EmitInstr
  <2> HIDE DEF t, e
  <2>3. EmitsPlain(t, u)
    BY <1>1, <2>1, EmitsStates, WriteLines, PlainLines
  <2>4. EmitsPlain(s, e)
    BY <2>1, <2>2, <2>3, PlainThen
  <2> QED
    BY <1>2, <2>4 DEF e
<1>10. CASE o.op = "loadptr"
  <2> DEFINE t == LoadX(s, o.src)
             u == Write(t, <<LdAtX>>)
  <2>1. EmitsPlain(s, t)
    BY <1>1, LoadXEmits
  <2>2. e = StoreResult(c, u, o.dst)
    BY <1>10 DEF EmitInstr
  <2> HIDE DEF t, e
  <2>3. EmitsPlain(t, u)
    BY <2>1, EmitsStates, WriteLines, PlainLines
  <2> HIDE DEF u
  <2>4. EmitsPlain(s, e)
    BY <1>1, <2>1, <2>2, <2>3, EmitsStates, StoreResultEmits, PlainThen
  <2> QED
    BY <1>2, <2>4 DEF e
<1>11. CASE o.op = "storeptr"
  <2> DEFINE t == LoadVal(c, s, o.src)
             u == LoadX(t, o.dst)
             w == Write(u, <<StAtX>>)
  <2>1. EmitsPlain(s, t)
    BY <1>1, LoadValEmits
  <2>2. e = w
    BY <1>11 DEF EmitInstr
  <2> HIDE DEF t, e
  <2>3. EmitsPlain(t, u)
    BY <1>1, <2>1, EmitsStates, LoadXEmits
  <2> HIDE DEF u
  <2>4. EmitsPlain(u, w)
    BY <2>3, EmitsStates, WriteLines, PlainLines
  <2>5. EmitsPlain(s, e)
    BY <2>1, <2>2, <2>3, <2>4, PlainThen
  <2> QED
    BY <1>2, <2>5 DEF e
<1> HIDE DEF e
<1> QED
  BY <1>1, <1>3, <1>4, <1>5, <1>6, <1>7, <1>8, <1>9, <1>10, <1>11

-----------------------------------------------------------------------------
(* The moves of an edge.                                                   *)

Moves == [dst : Nat, src : Nat]

EmitMove(c, s, v) == Write(LoadVal(c, s, v.src), <<St("d", v.dst)>>)

EmitMoves(c, s, moves) ==
  FoldLeft(LAMBDA r, v : Write(LoadVal(c, r, v.src), <<St("d", v.dst)>>), s, moves)

LEMMA EmitMoveEmits ==
  ASSUME NEW s \in States, NEW v \in Moves, NEW c
  PROVE  EmitsPlain(s, EmitMove(c, s, v)) /\ EmitMove(c, s, v) \in States
<1> DEFINE t == LoadVal(c, s, v.src)
           u == Write(t, <<St("d", v.dst)>>)
<1>1. v.src \in Nat /\ v.dst \in Nat
  BY DEF Moves
<1>2. EmitsPlain(s, t)
  BY <1>1, LoadValEmits
<1> HIDE DEF t
<1>3. EmitsPlain(t, u)
  BY <1>1, <1>2, EmitsStates, WriteLines, PlainLines
<1> HIDE DEF u
<1>4. EmitsPlain(s, u) /\ u \in States
  BY <1>2, <1>3, PlainThen, EmitsStates
<1> QED
  BY <1>4 DEF EmitMove, t, u

LEMMA MoveSteps ==
  ASSUME NEW moves \in Seq(Moves), NEW c,
         NEW n \in Nat, n = Len(moves), NEW base \in States, NEW end, end = EmitMoves(c, base, moves)
  PROVE  \E val : /\ val[0] = base
                  /\ \A k \in 1 .. n : val[k] = EmitMove(c, val[k - 1], moves[k])
                  /\ end = val[n]
<1> DEFINE Choice(it) ==
      it = [S \in SUBSET (DOMAIN moves) |->
              IF S = {} THEN base ELSE EmitMove(c, it[S \ {LastOf(S)}], moves[LastOf(S)])]
<1>1. end = (CHOOSE it : Choice(it))[DOMAIN moves]
  BY Zenon DEF EmitMoves, EmitMove, FoldLeft, MapThenFoldSet, Max, LastOf
<1>2. DOMAIN moves = 1 .. n
  OBVIOUS
<1>3. ASSUME NEW k \in 1 .. n, NEW s \in States PROVE EmitMove(c, s, moves[k]) \in States
  <2>1. moves[k] \in Moves
    OBVIOUS
  <2> QED
    BY <2>1, EmitMoveEmits
<1> DEFINE step == [k \in 1 .. n |-> [s \in States |-> EmitMove(c, s, moves[k])]]
<1>4. step \in [1 .. n -> [States -> States]]
  BY <1>3
<1>5. PICK f \in [SUBSET (1 .. n) -> States] : IsFold(f, n, base, step)
  <2> HIDE DEF step
  <2>1. n \in Nat /\ base \in States /\ step \in [1 .. n -> [States -> States]]
    BY <1>4
  <2> QED
    BY <2>1, FoldExists
<1>6. Choice(f)
  <2>1. ASSUME NEW S \in SUBSET (1 .. n), S # {}
        PROVE  f[S] = EmitMove(c, f[S \ {LastOf(S)}], moves[LastOf(S)])
    <3>1. LastOf(S) \in 1 .. n /\ S \ {LastOf(S)} \in SUBSET (1 .. n)
      BY <2>1, LastOfFacts
    <3>2. f[S \ {LastOf(S)}] \in States
      BY <3>1
    <3>3. f[S] = step[LastOf(S)][f[S \ {LastOf(S)}]]
      BY <1>5, <2>1 DEF IsFold
    <3> QED
      BY <3>1, <3>2, <3>3
  <2>2. f[{}] = base
    BY <1>5 DEF IsFold
  <2> QED
    BY <1>2, <1>5, <2>1, <2>2
<1> DEFINE it == CHOOSE g : Choice(g)
           val == [k \in 0 .. n |-> it[1 .. k]]
<1>7. Choice(it)
  <2> HIDE DEF Choice
  <2> QED
    BY Zenon, <1>6
<1> HIDE DEF it, step
<1>8. \A S \in SUBSET (1 .. n) :
        it[S] = IF S = {} THEN base ELSE EmitMove(c, it[S \ {LastOf(S)}], moves[LastOf(S)])
  BY <1>2, <1>7
<1>9. ASSUME NEW k \in 1 .. n PROVE val[k] = EmitMove(c, val[k - 1], moves[k])
  <2>1. 1 .. k \in SUBSET (1 .. n) /\ 1 .. k # {} /\ LastOf(1 .. k) = k /\ (1 .. k) \ {k} = 1 .. k - 1
    BY LastOfPrefix
  <2>2. k \in 0 .. n /\ k - 1 \in 0 .. n
    OBVIOUS
  <2>3. it[1 .. k] = EmitMove(c, it[1 .. k - 1], moves[k])
    BY <1>8, <2>1
  <2> QED
    BY <2>2, <2>3
<1>10. val[0] = base
  <2>1. 1 .. 0 = {} /\ 1 .. 0 \in SUBSET (1 .. n) /\ 0 \in 0 .. n
    OBVIOUS
  <2> QED
    BY <1>8, <2>1
<1>11. end = val[n]
  <2>1. n \in 0 .. n
    OBVIOUS
  <2> QED
    BY <1>1, <1>2, <2>1 DEF it
<1> HIDE DEF val
<1> QED
  BY <1>9, <1>10, <1>11

LEMMA EmitMovesEmits ==
  ASSUME NEW moves \in Seq(Moves), NEW c, NEW s \in States
  PROVE  EmitsPlain(s, EmitMoves(c, s, moves))
<1> DEFINE n == Len(moves)
           end == EmitMoves(c, s, moves)
<1>1. n \in Nat /\ n = Len(moves) /\ end = EmitMoves(c, s, moves)
  OBVIOUS
<1>2. \A k \in 1 .. n : moves[k] \in Moves
  OBVIOUS
<1> HIDE DEF n, end
<1>3. PICK val : /\ val[0] = s
                 /\ \A k \in 1 .. n : val[k] = EmitMove(c, val[k - 1], moves[k])
                 /\ end = val[n]
  BY <1>1, MoveSteps
<1> DEFINE T == {k \in Nat : EmitsPlain(s, val[k])}
<1>4. 0 \in T
  BY <1>3, WriteLines
<1>5. ASSUME NEW k \in 1 .. n, k - 1 \in T PROVE k \in T
  <2>1. k \in Nat /\ EmitsPlain(s, val[k - 1])
    BY <1>5
  <2>2. EmitsPlain(val[k - 1], val[k])
    BY <1>2, <1>3, <2>1, EmitsStates, EmitMoveEmits
  <2>3. EmitsPlain(s, val[k])
    BY <2>1, <2>2, PlainThen
  <2> QED
    BY <2>1, <2>3
<1> HIDE DEF T
<1>6. \A k \in 0 .. n : k \in T
  BY <1>1, <1>4, <1>5, Onwards
<1>7. n \in T
  BY <1>1, <1>6
<1>8. EmitsPlain(s, end)
  BY <1>3, <1>7 DEF T
<1> QED
  BY <1>8 DEF end

LEMMA PhiAssignmentsEmit ==
  ASSUME NEW c, WellFormed(c.f), NEW s \in States, NEW from, NEW to
  PROVE  EmitsPlain(s, EmitPhiAssignments(c, s, from, to))
<1> DEFINE moves == c.f.moves[<<from, to>>]
           t == EmitMoves(c, s, moves)
<1>1. CASE HasPhiAssignments(c.f, from, to)
  <2>1. moves \in Seq(Moves)
    BY <1>1 DEF HasPhiAssignments, WellFormed, Moves
  <2>2. EmitPhiAssignments(c, s, from, to) = ClobberAllRegs(t)
    BY Zenon, <1>1 DEF EmitPhiAssignments, EmitMoves
  <2> HIDE DEF moves
  <2>3. EmitsPlain(s, t)
    BY <2>1, EmitMovesEmits
  <2> HIDE DEF t
  <2>4. 0 \in Nat /\ t \in States
    BY <2>3, EmitsStates
  <2>5. EmitsPlain(t, ClobberAllRegs(t))
    BY <2>4, TrackEmits
  <2> QED
    BY <2>2, <2>3, <2>5, PlainThen
<1>2. CASE ~HasPhiAssignments(c.f, from, to)
  <2>1. EmitPhiAssignments(c, s, from, to) = s
    BY <1>2 DEF EmitPhiAssignments
  <2> QED
    BY <2>1, WriteLines
<1> QED
  BY <1>1, <1>2

-----------------------------------------------------------------------------
(* Terminators.                                                            *)

\* Labels at which code ends up that is written one after the other.
LEMMA EmitsLabels ==
  \A s, t, L, T : Emits(s, t, L, T) => t \in States /\ LabelsOf(s.code) \subseteq LabelsOf(t.code)
BY DEF Emits, Grows

LEMMA EmitJumpEmits ==
  ASSUME NEW c, WellFormed(c.f), NEW s \in States, NEW b, NEW to \in Nat
  PROVE  Emits(s, EmitJump(c, s, b, to), {}, {BlockLabel(to)})
<1> DEFINE t == EmitPhiAssignments(c, s, b, to)
           l == BlockLabel(to)
           u == Write(t, <<LBra(l)>>)
           w == Write(t, <<>>)
<1>1. EmitsPlain(s, t) /\ t \in States
  BY PhiAssignmentsEmit, EmitsStates
<1>2. l \in Nat \X Nat \X Nat
  BY DEF BlockLabel
<1>3. EmitJump(c, s, b, to) = IF ~c.layout \/ to # b + 1 THEN u ELSE w
  BY DEF EmitJump
<1> HIDE DEF t, l
<1>4. Emits(t, u, {}, {l})
  BY <1>1, <1>2, LabelLines
<1>5. Emits(t, w, {}, {l})
  <2>1. Emits(t, w, {}, {})
    BY <1>1, WriteLines DEF EmitsPlain
  <2>2. {} \subseteq {l}
    OBVIOUS
  <2> HIDE DEF w
  <2> QED
    BY <2>1, <2>2, EmitsMore
<1> HIDE DEF u, w
<1>6. Emits(s, u, {}, {l}) /\ Emits(s, w, {}, {l})
  BY <1>1, <1>4, <1>5, PlainBefore
<1> QED
  BY <1>3, <1>6 DEF l

\* Two labels made for the terminator of block b, and a label of a block.
LEMMA TerminatorLabels ==
  ASSUME NEW b \in Nat
  PROVE  /\ NextLabel(b, 0, 1) \in Nat \X Nat \X Nat /\ NextLabel(b, 0, 2) \in Nat \X Nat \X Nat
         /\ NextLabel(b, 0, 1) # NextLabel(b, 0, 2)
         /\ NextLabel(b, 0, 1) \in Made(b, {0}) /\ NextLabel(b, 0, 2) \in Made(b, {0})
<1>1. {0} \in SUBSET Nat /\ 0 \in {0}
  OBVIOUS
<1> QED
  BY <1>1, MadeFacts

LEMMA FallThroughEmits ==
  ASSUME NEW c, WellFormed(c.f), NEW s \in States, NEW b \in Nat, NEW near, NEW far \in Nat,
         NEW k \in ConditionCodes
  PROVE  Emits(s, FallThrough(c, s, b, near, far, k), Made(b, {0}), {BlockLabel(far)})
<1> DEFINE l == BlockLabel(far)
           away == NextLabel(b, 0, 1)
           end == NextLabel(b, 0, 2)
           e == FallThrough(c, s, b, near, far, k)
<1>1. /\ l \in Nat \X Nat \X Nat /\ away \in Nat \X Nat \X Nat /\ end \in Nat \X Nat \X Nat
      /\ away # end /\ away \in Made(b, {0}) /\ end \in Made(b, {0})
  BY TerminatorLabels DEF BlockLabel
<1>2. CASE ~HasPhiAssignments(c.f, b, far)
  <2> DEFINE t == Write(s, <<LBcc(k, l)>>)
             u == EmitPhiAssignments(c, t, b, near)
  <2>1. e = u
    BY <1>2 DEF FallThrough
  <2>2. Emits(s, t, {}, {l}) /\ t \in States
    <3> HIDE DEF l
    <3> QED
      BY <1>1, LabelLines DEF Emits
  <2> HIDE DEF t, e
  <2>3. EmitsPlain(t, u)
    BY <2>2, PhiAssignmentsEmit
  <2>4. Emits(s, e, {}, {l})
    BY <2>1, <2>2, <2>3, PlainAfter
  <2>5. {} \subseteq Made(b, {0}) /\ {l} \subseteq {l}
    OBVIOUS
  <2> QED
    BY <2>4, <2>5, EmitsMore DEF e
<1>3. CASE HasPhiAssignments(c.f, b, far)
  <2> DEFINE s1 == Write(s, <<LBcc(k, away)>>)
             s2 == EmitPhiAssignments(c, s1, b, near)
             s3 == Write(s2, <<LBra(end)>>)
             s4 == Write(s3, <<Label(away)>>)
             s5 == EmitPhiAssignments(c, s4, b, far)
             s6 == Write(s5, <<LBra(l)>>)
             s7 == Write(s6, <<Label(end)>>)
  <2>1. e = Write(EmitPhiAssignments(c, Write(s2, <<LBra(end), Label(away)>>), b, far),
                  <<LBra(l), Label(end)>>)
    BY <1>3 DEF FallThrough
  <2> HIDE DEF l, away, end, e
  <2>2. Emits(s, s1, {}, {away})
    BY <1>1, LabelLines
  <2> HIDE DEF s1
  <2>3. EmitsPlain(s1, s2)
    BY <2>2, EmitsLabels, PhiAssignmentsEmit
  <2> HIDE DEF s2
  <2>4. Emits(s2, s3, {}, {end})
    BY <1>1, <2>3, EmitsStates, LabelLines
  <2> HIDE DEF s3
  <2>5. Emits(s3, s4, {away}, {}) /\ away \in LabelsOf(s4.code)
    <3>1. s3 \in States
      BY <2>4, EmitsLabels
    <3> QED
      BY <1>1, <3>1, LabelLines
  <2> HIDE DEF s4
  <2>6. EmitsPlain(s4, s5)
    BY <2>5, EmitsLabels, PhiAssignmentsEmit
  <2> HIDE DEF s5
  <2>7. Emits(s5, s6, {}, {l})
    BY <1>1, <2>6, EmitsStates, LabelLines
  <2> HIDE DEF s6
  <2>8. Emits(s6, s7, {end}, {}) /\ end \in LabelsOf(s7.code)
    <3>1. s6 \in States
      BY <2>7, EmitsLabels
    <3> QED
      BY <1>1, <3>1, LabelLines
  <2>9. e = s7
    <3> DEFINE a == <<LBra(end)>>
               x == <<Label(away)>>
               y == <<LBra(l)>>
               z == <<Label(end)>>
    <3>1. a \in Seq(ProperLines) /\ x \in Seq(ProperLines) /\ y \in Seq(ProperLines) /\ z \in Seq(ProperLines)
      <4>1. LBra(end) \in ProperLines /\ Label(away) \in ProperLines /\ LBra(l) \in ProperLines
            /\ Label(end) \in ProperLines
        BY <1>1, LineFacts DEF LBra
      <4> QED
        BY <4>1, OneLine
    <3>2. <<LBra(end), Label(away)>> = a \o x /\ <<LBra(l), Label(end)>> = y \o z
      OBVIOUS
    <3>3. s2 \in States /\ s5 \in States
      BY <2>3, <2>6, EmitsStates
    <3>4. s3 = Write(s2, a) /\ s4 = Write(s3, x) /\ s6 = Write(s5, y) /\ s7 = Write(s6, z)
          /\ s5 = EmitPhiAssignments(c, s4, b, far)
      BY DEF s3, s4, s5, s6
    <3> HIDE DEF a, x, y, z, s7
    <3>5. Write(s2, a \o x) = s4
      BY <3>1, <3>3, <3>4, WriteTwice
    <3>6. Write(s5, y \o z) = s7
      BY <3>1, <3>3, <3>4, WriteTwice
    <3> QED
      BY <2>1, <3>2, <3>4, <3>5, <3>6
  <2> HIDE DEF s7
  <2>10. {} \cup {} = {} /\ {} \cap {} = {} /\ {away} \cap {end} = {}
         /\ {} \cap {away, end} = {} /\ {away} \cup {end} = {away, end} /\ {} \cup {away, end} = {away, end}
         /\ {away} \cup {end} \cup ({l} \cup {}) = {away, end, l}
    BY <1>1
  <2>11. Emits(s, s3, {}, {away} \cup {end})
    <3>1. Emits(s, s2, {}, {away})
      BY <2>2, <2>3, PlainAfter
    <3>2. Emits(s, s3, {} \cup {}, {away} \cup {end})
      BY <2>4, <2>10, <3>1, EmitsThen
    <3> QED
      BY <2>10, <3>2
  <2>12. Emits(s3, s7, {away, end}, {l} \cup {})
    <3>1. Emits(s3, s5, {away}, {})
      BY <2>5, <2>6, PlainAfter
    <3>2. Emits(s5, s7, {} \cup {end}, {l} \cup {})
      <4>1. {} \cap {end} = {}
        OBVIOUS
      <4> QED
        BY <2>7, <2>8, <4>1, EmitsThen
    <3>3. {} \cup {end} = {end} /\ {} \cup ({l} \cup {}) = {l} \cup {}
      OBVIOUS
    <3>4. Emits(s3, s7, {away} \cup {end}, {} \cup ({l} \cup {}))
      BY <2>10, <3>1, <3>2, <3>3, EmitsThen
    <3> QED
      BY <2>10, <3>3, <3>4
  <2>13. Emits(s, s7, {away, end}, {away, end, l})
    <3>1. Emits(s, s7, {} \cup {away, end}, ({away} \cup {end}) \cup ({l} \cup {}))
      BY <2>10, <2>11, <2>12, EmitsThen
    <3> QED
      BY <2>10, <3>1
  <2>14. {away, end, l} \subseteq {l} \cup LabelsOf(s7.code)
    <3>1. LabelsOf(s4.code) \subseteq LabelsOf(s5.code)
      BY <2>6, EmitsLabels DEF EmitsPlain
    <3>2. LabelsOf(s5.code) \subseteq LabelsOf(s6.code)
      BY <2>7, EmitsLabels
    <3>3. LabelsOf(s6.code) \subseteq LabelsOf(s7.code)
      BY <2>8, EmitsLabels
    <3> QED
      BY <2>5, <2>8, <3>1, <3>2, <3>3
  <2>15. Emits(s, s7, {away, end}, {l})
    BY <2>13, <2>14, EmitsFound
  <2>16. {away, end} \subseteq Made(b, {0}) /\ {l} \subseteq {l}
    BY <1>1
  <2> QED
    BY <2>9, <2>15, <2>16, EmitsMore DEF e, l
<1> QED
  BY <1>2, <1>3

LEMMA BranchWithLayoutEmits ==
  ASSUME NEW c, WellFormed(c.f), NEW s \in States, NEW b \in Nat, NEW t \in Nat, NEW e \in Nat,
         NEW k \in ConditionCodes
  PROVE  Emits(s, EmitBranchWithLayout(c, s, b, t, e, k), Made(b, {0}), {BlockLabel(t), BlockLabel(e)})
<1> DEFINE l == BlockLabel(t)
           m == BlockLabel(e)
           true == NextLabel(b, 0, 1)
           r == EmitBranchWithLayout(c, s, b, t, e, k)
<1>1. /\ l \in Nat \X Nat \X Nat /\ m \in Nat \X Nat \X Nat /\ true \in Nat \X Nat \X Nat
      /\ true \in Made(b, {0})
  BY TerminatorLabels DEF BlockLabel
<1>2. Made(b, {0}) \subseteq Made(b, {0}) /\ {l} \subseteq {l, m} /\ {m} \subseteq {l, m}
  OBVIOUS
<1>3. CASE c.layout /\ t = b + 1
  <2>1. r = FallThrough(c, s, b, t, e, InvertCondOp(k))
    BY <1>3 DEF EmitBranchWithLayout
  <2>2. Emits(s, r, Made(b, {0}), {m})
    BY <2>1, CondOpFacts, FallThroughEmits
  <2> HIDE DEF r, l, m
  <2> QED
    BY <1>2, <2>2, EmitsMore DEF r, l, m
<1>4. CASE ~(c.layout /\ t = b + 1) /\ c.layout /\ e = b + 1
  <2>1. r = FallThrough(c, s, b, e, t, k)
    BY <1>4 DEF EmitBranchWithLayout
  <2>2. Emits(s, r, Made(b, {0}), {l})
    BY <2>1, FallThroughEmits
  <2> HIDE DEF r, l, m
  <2> QED
    BY <1>2, <2>2, EmitsMore DEF r, l, m
<1>5. CASE /\ ~(c.layout /\ t = b + 1) /\ ~(c.layout /\ e = b + 1)
           /\ c.layout /\ ~HasPhiAssignments(c.f, b, t) /\ ~HasPhiAssignments(c.f, b, e)
  <2> DEFINE s1 == Write(s, <<LBcc(k, l)>>)
             s2 == Write(s1, <<LBra(m)>>)
  <2>1. r = Write(s, <<LBcc(k, l), LBra(m)>>)
    BY <1>5 DEF EmitBranchWithLayout
  <2> HIDE DEF r, l, m
  <2>2. r = s2
    <3>1. LBcc(k, l) \in ProperLines /\ LBra(m) \in ProperLines
      BY <1>1, LineFacts DEF LBcc, LBra
    <3>2. <<LBcc(k, l)>> \in Seq(ProperLines) /\ <<LBra(m)>> \in Seq(ProperLines)
      BY <3>1, OneLine
    <3>3. <<LBcc(k, l), LBra(m)>> = <<LBcc(k, l)>> \o <<LBra(m)>>
      OBVIOUS
    <3> QED
      BY <2>1, <3>2, <3>3, WriteTwice, ZenonT(30)
  <2>3. Emits(s, s1, {}, {l})
    BY <1>1, LabelLines
  <2> HIDE DEF s1
  <2>4. Emits(s1, s2, {}, {m})
    BY <1>1, <2>3, EmitsLabels, LabelLines
  <2> HIDE DEF s2
  <2>5. Emits(s, s2, {} \cup {}, {l} \cup {m})
    <3>1. {} \cap {} = {}
      OBVIOUS
    <3> QED
      BY <2>3, <2>4, <3>1, EmitsThen
  <2>6. {} \cup {} \subseteq Made(b, {0}) /\ {l} \cup {m} \subseteq {l, m}
    OBVIOUS
  <2> QED
    BY <2>2, <2>5, <2>6, EmitsMore DEF r, l, m
<1>6. CASE /\ ~(c.layout /\ t = b + 1) /\ ~(c.layout /\ e = b + 1)
           /\ ~(c.layout /\ ~HasPhiAssignments(c.f, b, t) /\ ~HasPhiAssignments(c.f, b, e))
  <2> DEFINE s1 == Write(s, <<LBcc(k, true)>>)
             s2 == EmitPhiAssignments(c, s1, b, e)
             s3 == Write(s2, <<LBra(m)>>)
             s4 == Write(s3, <<Label(true)>>)
             s5 == EmitPhiAssignments(c, s4, b, t)
             s6 == Write(s5, <<LBra(l)>>)
  <2>1. r = Write(EmitPhiAssignments(c, Write(s2, <<LBra(m), Label(true)>>), b, t), <<LBra(l)>>)
    BY Zenon, <1>6 DEF EmitBranchWithLayout
  <2> HIDE DEF l, m, true, r
  <2>2. Emits(s, s1, {}, {true})
    BY <1>1, LabelLines
  <2> HIDE DEF s1
  <2>3. EmitsPlain(s1, s2)
    BY <2>2, EmitsLabels, PhiAssignmentsEmit
  <2> HIDE DEF s2
  <2>4. Emits(s2, s3, {}, {m})
    BY <1>1, <2>3, EmitsStates, LabelLines
  <2> HIDE DEF s3
  <2>5. Emits(s3, s4, {true}, {}) /\ true \in LabelsOf(s4.code)
    <3>1. s3 \in States
      BY <2>4, EmitsLabels
    <3> QED
      BY <1>1, <3>1, LabelLines
  <2> HIDE DEF s4
  <2>6. EmitsPlain(s4, s5)
    BY <2>5, EmitsLabels, PhiAssignmentsEmit
  <2> HIDE DEF s5
  <2>7. Emits(s5, s6, {}, {l})
    BY <1>1, <2>6, EmitsStates, LabelLines
  <2>8. r = s6
    <3> DEFINE a == <<LBra(m)>>
               x == <<Label(true)>>
    <3>1. a \in Seq(ProperLines) /\ x \in Seq(ProperLines)
      <4>1. LBra(m) \in ProperLines /\ Label(true) \in ProperLines
        BY <1>1, LineFacts DEF LBra
      <4> QED
        BY <4>1, OneLine
    <3>2. <<LBra(m), Label(true)>> = a \o x
      OBVIOUS
    <3>3. s2 \in States /\ s3 = Write(s2, a) /\ s4 = Write(s3, x) /\ s5 = EmitPhiAssignments(c, s4, b, t)
      BY <2>3, EmitsStates DEF s3, s4, s5
    <3> HIDE DEF a, x
    <3>4. Write(s2, a \o x) = s4
      BY <3>1, <3>3, WriteTwice
    <3> QED
      BY <2>1, <3>2, <3>3, <3>4
  <2> HIDE DEF s6
  <2>9. Emits(s, s3, {} \cup {}, {true} \cup {m})
    <3>1. Emits(s, s2, {}, {true})
      BY <2>2, <2>3, PlainAfter
    <3>2. {} \cap {} = {}
      OBVIOUS
    <3> QED
      BY <2>4, <3>1, <3>2, EmitsThen
  <2>10. Emits(s3, s6, {true} \cup {}, {} \cup {l})
    <3>1. Emits(s3, s5, {true}, {})
      BY <2>5, <2>6, PlainAfter
    <3>2. {true} \cap {} = {}
      OBVIOUS
    <3> QED
      BY <2>7, <3>1, <3>2, EmitsThen
  <2>11. Emits(s, s6, ({} \cup {}) \cup ({true} \cup {}), ({true} \cup {m}) \cup ({} \cup {l}))
    <3>1. ({} \cup {}) \cap ({true} \cup {}) = {}
      OBVIOUS
    <3> QED
      BY <2>9, <2>10, <3>1, EmitsThen
  <2>12. Emits(s, s6, Made(b, {0}), {true, m, l})
    <3>1. /\ ({} \cup {}) \cup ({true} \cup {}) \subseteq Made(b, {0})
          /\ ({true} \cup {m}) \cup ({} \cup {l}) \subseteq {true, m, l}
      BY <1>1
    <3> QED
      BY <2>11, <3>1, EmitsMore
  <2>13. {true, m, l} \subseteq {l, m} \cup LabelsOf(s6.code)
    <3>1. LabelsOf(s4.code) \subseteq LabelsOf(s5.code)
      BY <2>6, EmitsLabels DEF EmitsPlain
    <3>2. LabelsOf(s5.code) \subseteq LabelsOf(s6.code)
      BY <2>7, EmitsLabels
    <3> QED
      BY <2>5, <3>1, <3>2
  <2>14. Emits(s, s6, Made(b, {0}), {l, m})
    BY <2>12, <2>13, EmitsFound
  <2> QED
    BY <2>8, <2>14 DEF r, l, m
<1> QED
  BY <1>3, <1>4, <1>5, <1>6

BlockLabels(f) == {BlockLabel(x) : x \in Blocks(f)}

LEMMA FunctionFacts ==
  ASSUME NEW f, WellFormed(f)
  PROVE  /\ Blocks(f) \subseteq Nat /\ 0 \notin Blocks(f) /\ Blocks(f) = 1 .. Len(f.body) /\ Len(f.body) \in Nat
         /\ f.frame \in Nat
         /\ \A b \in Blocks(f) : /\ f.body[b] \in Seq(Operations)
                                 /\ f.term[b].src \in Nat /\ f.term[b].n \in Int
                                 /\ f.term[b].op \in {"jump", "return", "returnvoid", "test", "branch"}
                                 /\ f.term[b].op = "branch" => f.term[b].k \in Comparisons
                                 /\ f.term[b].op \in {"jump", "test", "branch"} => f.term[b].to[1] \in Blocks(f)
                                 /\ f.term[b].op \in {"test", "branch"} => f.term[b].to[2] \in Blocks(f)
<1>1. /\ Blocks(f) = 1 .. Len(f.body) /\ Len(f.body) \in Nat
      /\ \A b \in Blocks(f) : f.body[b] \in Seq(Operations)
  <2> DEFINE body == f.body
  <2>1. body \in Seq(Seq(Operations))
    BY DEF WellFormed
  <2>2. Blocks(f) = DOMAIN body
    BY DEF Blocks
  <2> HIDE DEF body
  <2>3. DOMAIN body = 1 .. Len(body) /\ Len(body) \in Nat /\ \A b \in DOMAIN body : body[b] \in Seq(Operations)
    BY <2>1
  <2> QED
    BY <2>2, <2>3 DEF body
<1>2. Blocks(f) \subseteq Nat /\ 0 \notin Blocks(f) /\ f.frame \in Nat
  <2>1. f.frame \in Nat
    BY DEF WellFormed
  <2> QED
    BY <1>1, <2>1
<1>3. ASSUME NEW b \in Blocks(f)
      PROVE  /\ f.term[b].src \in Nat /\ f.term[b].n \in Int
             /\ f.term[b].op \in {"jump", "return", "returnvoid", "test", "branch"}
             /\ f.term[b].op = "branch" => f.term[b].k \in Comparisons
             /\ f.term[b].op \in {"jump", "test", "branch"} => f.term[b].to[1] \in Blocks(f)
             /\ f.term[b].op \in {"test", "branch"} => f.term[b].to[2] \in Blocks(f)
  <2> DEFINE t == f.term[b]
             S == Blocks(f)
  <2>1. /\ t.src \in Nat /\ t.n \in Int /\ t.k \in Comparisons \cup {""} /\ t.to \in Seq(S)
        /\ t.op \in {"jump", "return", "returnvoid", "test", "branch"}
    BY DEF WellFormed
  <2>2. /\ t.op = "jump" => Len(t.to) = 1
        /\ t.op \in {"test", "branch"} => Len(t.to) = 2
        /\ t.op = "branch" => t.k # ""
    BY DEF WellFormed
  <2> HIDE DEF t, S
  <2> DEFINE to == t.to
  <2>3. to \in Seq(S)
    BY <2>1
  <2> HIDE DEF to
  <2>4. (Len(to) = 1 => to[1] \in S) /\ (Len(to) = 2 => to[1] \in S /\ to[2] \in S)
    BY <2>3
  <2>5. /\ t.op = "branch" => t.k \in Comparisons
        /\ t.op \in {"jump", "test", "branch"} => t.to[1] \in S
        /\ t.op \in {"test", "branch"} => t.to[2] \in S
    BY <2>1, <2>2, <2>4 DEF to
  <2> QED
    BY <2>1, <2>5 DEF t, S
<1> QED
  BY <1>1, <1>2, <1>3

LEMMA EmitTerminatorEmits ==
  ASSUME NEW c, WellFormed(c.f), NEW s \in States, NEW b \in Blocks(c.f)
  PROVE  Emits(s, EmitTerminator(c, s, b), Made(b, {0}), BlockLabels(c.f))
<1> DEFINE t == c.f.term[b]
           x == t.to[1]
           y == t.to[2]
           r == EmitTerminator(c, s, b)
           s1 == LoadVal(c, s, t.src)
           s2 == Write(s1, <<CmpImm(t.n)>>)
           s3 == Write(s1, <<TstB>>)
           L == Made(b, {0})
           T == BlockLabels(c.f)
<1>1. /\ Blocks(c.f) \subseteq Nat /\ c.f.frame \in Nat /\ b \in Nat
      /\ t.src \in Nat /\ t.n \in Int
      /\ t.op \in {"jump", "return", "returnvoid", "test", "branch"}
      /\ t.op = "branch" => t.k \in Comparisons
      /\ t.op \in {"jump", "test", "branch"} => x \in Blocks(c.f)
      /\ t.op \in {"test", "branch"} => y \in Blocks(c.f)
  BY FunctionFacts
<1>2. \A z \in Blocks(c.f) : BlockLabel(z) \in T
  BY DEF BlockLabels
<1>3. EmitsPlain(s, s1) /\ s1 \in States
  BY <1>1, LoadValEmits, EmitsStates
<1>4. EmitsPlain(s1, s2) /\ s2 \in States /\ EmitsPlain(s1, s3) /\ s3 \in States
  BY <1>1, <1>3, WriteLines, PlainLines, EmitsStates
<1>5. EmitsPlain(s, s2) /\ EmitsPlain(s, s3)
  <2> HIDE DEF s1, s2, s3
  <2> QED
    BY <1>3, <1>4, PlainThen
<1>6. ASSUME NEW u, NEW w, NEW U, EmitsPlain(s, u),
             Emits(u, w, {}, U) \/ Emits(u, w, L, U), U \subseteq T
      PROVE  Emits(s, w, L, T)
  <2>1. Emits(s, w, {}, U) \/ Emits(s, w, L, U)
    BY <1>6, PlainBefore
  <2>2. {} \subseteq L /\ L \subseteq L
    OBVIOUS
  <2> QED
    BY <1>6, <2>1, <2>2, EmitsMore
<1>7. EmitsPlain(s, s)
  BY WriteLines
<1>8. CASE t.op = "jump"
  <2>1. r = EmitJump(c, s, b, x)
    BY <1>8 DEF EmitTerminator
  <2>2. x \in Nat /\ {BlockLabel(x)} \subseteq T
    BY <1>1, <1>2, <1>8
  <2>3. Emits(s, r, {}, {BlockLabel(x)})
    BY <2>1, <2>2, EmitJumpEmits
  <2> HIDE DEF r, L, T, x
  <2> QED
    BY <1>6, <1>7, <2>2, <2>3 DEF r, L, T
<1>9. CASE t.op = "return"
  <2>1. r = Write(s1, <<Tfr("d", "x"), Leas(c.f.frame), Rts>>)
    BY <1>9 DEF EmitTerminator
  <2>2. EmitsPlain(s1, r)
    BY <1>1, <1>3, <2>1, WriteLines, PlainLines
  <2>3. Emits(s, r, {}, {}) /\ {} \subseteq T
    BY <1>3, <2>2, PlainThen DEF EmitsPlain
  <2> HIDE DEF r, L, T
  <2> QED
    BY <1>6, <1>7, <2>3 DEF r, L, T
<1>10. CASE t.op = "returnvoid"
  <2>1. r = Write(s, <<Leas(c.f.frame), Rts>>)
    BY <1>10 DEF EmitTerminator
  <2>2. EmitsPlain(s, r)
    BY <1>1, <2>1, WriteLines, PlainLines
  <2>3. Emits(s, r, {}, {}) /\ {} \subseteq T
    BY <2>2 DEF EmitsPlain
  <2> HIDE DEF r, L, T
  <2> QED
    BY <1>6, <1>7, <2>3 DEF r, L, T
<1>11. ASSUME NEW u \in States, EmitsPlain(s, u), x \in Blocks(c.f), y \in Blocks(c.f), NEW k \in ConditionCodes
       PROVE  Emits(s, EmitBranchWithLayout(c, u, b, x, y, k), L, T)
  <2> DEFINE w == EmitBranchWithLayout(c, u, b, x, y, k)
  <2>1. x \in Nat /\ y \in Nat /\ {BlockLabel(x), BlockLabel(y)} \subseteq T
    BY <1>1, <1>2, <1>11
  <2>2. Emits(u, w, L, {BlockLabel(x), BlockLabel(y)})
    <3> HIDE DEF x, y
    <3> QED
      BY <1>1, <1>11, <2>1, BranchWithLayoutEmits
  <2> HIDE DEF w, L, T, x, y
  <2> QED
    BY <1>6, <1>11, <2>1, <2>2 DEF w
<1>12. ASSUME NEW u \in States, EmitsPlain(s, u), NEW z \in Blocks(c.f)
       PROVE  Emits(s, EmitJump(c, u, b, z), L, T)
  <2> DEFINE w == EmitJump(c, u, b, z)
  <2>1. z \in Nat /\ {BlockLabel(z)} \subseteq T
    BY <1>1, <1>2
  <2>2. Emits(u, w, {}, {BlockLabel(z)})
    BY <1>1, <1>12, <2>1, EmitJumpEmits
  <2> HIDE DEF w, L, T
  <2> QED
    BY <1>6, <1>12, <2>1, <2>2 DEF w
<1>13. CASE t.op = "test"
  <2>1. r = EmitBranchWithLayout(c, s3, b, x, y, "ne")
    BY <1>13 DEF EmitTerminator
  <2>2. Emits(s, r, L, T)
    <3> HIDE DEF s3, x, y, t, L, T
    <3> QED
      BY <1>1, <1>4, <1>5, <1>11, <1>13, <2>1, CondOpFacts
  <2> QED
    BY <2>2
<1>14. CASE t.op = "branch"
  <2>1. r = IF t.n # 0 THEN EmitBranchWithLayout(c, s2, b, x, y, CondOp(t.k))
            ELSE IF t.k = "gte" THEN EmitJump(c, s2, b, x)
            ELSE IF t.k = "lt" THEN EmitJump(c, s2, b, y)
            ELSE EmitBranchWithLayout(c, s2, b, x, y, CondOpZero(t.k))
    BY <1>14 DEF EmitTerminator
  <2>2. Emits(s, r, L, T)
    <3> HIDE DEF s2, x, y, t, L, T, r
    <3>1. x \in Blocks(c.f) /\ y \in Blocks(c.f) /\ s2 \in States /\ EmitsPlain(s, s2)
      BY <1>1, <1>4, <1>5, <1>14
    <3>2. CondOp(t.k) \in ConditionCodes /\ CondOpZero(t.k) \in ConditionCodes
      BY <1>1, <1>14, CondOpFacts
    <3> QED
      BY <1>11, <1>12, <2>1, <3>1, <3>2
  <2> QED
    BY <2>2
<1> QED
  BY <1>1, <1>8, <1>9, <1>10, <1>13, <1>14

-----------------------------------------------------------------------------
(* Instructions and blocks.                                                *)

\* The instructions of a block.
EmitNth(c, s, b, i) == EmitInstr(c, s, c.f.body[b][i], b, i)

InstructionsIn(c, b, order) == \A k \in DOMAIN order : c.f.body[b][order[k]] \in Operations

EmitInOrder(c, s, b, order) ==
  FoldLeft(LAMBDA r, i : EmitInstr(c, r, c.f.body[b][i], b, i), s, order)

IsRun(val, c, b, base, order, end) ==
  /\ val[0] = base
  /\ \A k \in 1 .. Len(order) : val[k] = EmitNth(c, val[k - 1], b, order[k])
  /\ end = val[Len(order)]

LEMMA InstructionSteps ==
  ASSUME NEW c, NEW b \in Nat, NEW order \in Seq(Nat), InstructionsIn(c, b, order),
         NEW n \in Nat, n = Len(order), NEW base \in States, NEW end, end = EmitInOrder(c, base, b, order)
  PROVE  \E val : IsRun(val, c, b, base, order, end)
<1> DEFINE Choice(it) ==
      it = [S \in SUBSET (DOMAIN order) |->
              IF S = {} THEN base ELSE EmitNth(c, it[S \ {LastOf(S)}], b, order[LastOf(S)])]
<1>1. end = (CHOOSE it : Choice(it))[DOMAIN order]
  BY Zenon DEF EmitInOrder, EmitNth, FoldLeft, MapThenFoldSet, Max, LastOf
<1>2. DOMAIN order = 1 .. n
  OBVIOUS
<1>3. ASSUME NEW k \in 1 .. n, NEW s \in States PROVE EmitNth(c, s, b, order[k]) \in States
  <2>1. order[k] \in Nat /\ c.f.body[b][order[k]] \in Operations
    BY DEF InstructionsIn
  <2> QED
    BY <2>1, EmitInstrEmits, EmitsLabels DEF EmitNth
<1> DEFINE step == [k \in 1 .. n |-> [s \in States |-> EmitNth(c, s, b, order[k])]]
<1>4. step \in [1 .. n -> [States -> States]]
  BY <1>3
<1>5. PICK f \in [SUBSET (1 .. n) -> States] : IsFold(f, n, base, step)
  <2> HIDE DEF step
  <2>1. n \in Nat /\ base \in States /\ step \in [1 .. n -> [States -> States]]
    BY <1>4
  <2> QED
    BY <2>1, FoldExists
<1>6. Choice(f)
  <2>1. ASSUME NEW S \in SUBSET (1 .. n), S # {}
        PROVE  f[S] = EmitNth(c, f[S \ {LastOf(S)}], b, order[LastOf(S)])
    <3>1. LastOf(S) \in 1 .. n /\ S \ {LastOf(S)} \in SUBSET (1 .. n)
      BY <2>1, LastOfFacts
    <3>2. f[S \ {LastOf(S)}] \in States
      BY <3>1
    <3>3. f[S] = step[LastOf(S)][f[S \ {LastOf(S)}]]
      BY <1>5, <2>1 DEF IsFold
    <3> QED
      BY <3>1, <3>2, <3>3
  <2>2. f[{}] = base
    BY <1>5 DEF IsFold
  <2> QED
    BY <1>2, <1>5, <2>1, <2>2
<1> DEFINE it == CHOOSE g : Choice(g)
           val == [k \in 0 .. n |-> it[1 .. k]]
<1>7. Choice(it)
  <2> HIDE DEF Choice
  <2> QED
    BY Zenon, <1>6
<1> HIDE DEF it, step
<1>8. \A S \in SUBSET (1 .. n) :
        it[S] = IF S = {} THEN base ELSE EmitNth(c, it[S \ {LastOf(S)}], b, order[LastOf(S)])
  BY <1>2, <1>7
<1>9. ASSUME NEW k \in 1 .. n PROVE val[k] = EmitNth(c, val[k - 1], b, order[k])
  <2>1. 1 .. k \in SUBSET (1 .. n) /\ 1 .. k # {} /\ LastOf(1 .. k) = k /\ (1 .. k) \ {k} = 1 .. k - 1
    BY LastOfPrefix
  <2>2. k \in 0 .. n /\ k - 1 \in 0 .. n
    OBVIOUS
  <2>3. it[1 .. k] = EmitNth(c, it[1 .. k - 1], b, order[k])
    BY <1>8, <2>1
  <2> QED
    BY <2>2, <2>3
<1>10. val[0] = base
  <2>1. 1 .. 0 = {} /\ 1 .. 0 \in SUBSET (1 .. n) /\ 0 \in 0 .. n
    OBVIOUS
  <2> QED
    BY <1>8, <2>1
<1>11. end = val[n]
  <2>1. n \in 0 .. n
    OBVIOUS
  <2> QED
    BY <1>1, <1>2, <2>1 DEF it
<1> HIDE DEF val
<1>12. IsRun(val, c, b, base, order, end)
  BY <1>9, <1>10, <1>11 DEF IsRun
<1> QED
  BY <1>12

LEMMA InstructionsEmit ==
  ASSUME NEW c, NEW b \in Nat, c.f.body[b] \in Seq(Operations), NEW s \in States
  PROVE  Emits(s, EmitInOrder(c, s, b, [i \in DOMAIN c.f.body[b] |-> i]), Made(b, 1 .. Len(c.f.body[b])), {})
<1> DEFINE body == c.f.body[b]
           order == [i \in DOMAIN body |-> i]
           n == Len(body)
           end == EmitInOrder(c, s, b, order)
<1>1. /\ n \in Nat /\ end = EmitInOrder(c, s, b, order)
      /\ DOMAIN body = 1 .. n /\ \A k \in 1 .. n : body[k] \in Operations
  OBVIOUS
<1>2. order \in Seq(Nat) /\ Len(order) = n
  <2> HIDE DEF n
  <2>1. order = [k \in 1 .. n |-> k] /\ \A k \in 1 .. n : k \in Nat
    BY <1>1
  <2> QED
    BY <1>1, <2>1
<1>3. \A k \in 1 .. n : order[k] = k
  BY <1>1
<1> HIDE DEF n, end, order
<1>4. InstructionsIn(c, b, order)
  BY <1>1, <1>2, <1>3 DEF InstructionsIn
<1> HIDE DEF body
<1>5. PICK val : IsRun(val, c, b, s, order, end)
  <2>1. /\ n \in Nat /\ order \in Seq(Nat) /\ n = Len(order) /\ s \in States
        /\ InstructionsIn(c, b, order) /\ end = EmitInOrder(c, s, b, order) /\ b \in Nat
    BY <1>1, <1>2, <1>4
  <2> QED
    BY <2>1, InstructionSteps
<1>11. /\ val[0] = s
       /\ \A k \in 1 .. n : val[k] = EmitNth(c, val[k - 1], b, order[k])
       /\ end = val[n]
  BY <1>2, <1>5 DEF IsRun
<1> DEFINE T == {k \in Nat : Emits(s, val[k], Made(b, 1 .. k), {})}
<1>6. 0 \in T
  <2>1. Emits(s, s, {}, {}) /\ {} \subseteq Made(b, 1 .. 0) /\ {} \subseteq {}
    BY WriteLines DEF EmitsPlain
  <2>2. Emits(s, s, Made(b, 1 .. 0), {})
    BY <2>1, EmitsMore
  <2> QED
    BY <1>11, <2>2
<1>7. ASSUME NEW k \in 1 .. n, k - 1 \in T PROVE k \in T
  <2>1. k \in Nat /\ Emits(s, val[k - 1], Made(b, 1 .. k - 1), {})
    BY <1>7
  <2>2. val[k] = EmitInstr(c, val[k - 1], body[k], b, k) /\ body[k] \in Operations
    BY <1>1, <1>3, <1>11 DEF EmitNth, body
  <2>3. Emits(val[k - 1], val[k], Made(b, {k}), {})
    BY <2>1, <2>2, EmitsLabels, EmitInstrEmits
  <2>4. /\ 1 .. k - 1 \in SUBSET Nat /\ {k} \in SUBSET Nat /\ 1 .. k \in SUBSET Nat
        /\ (1 .. k - 1) \cap {k} = {} /\ 1 .. k - 1 \subseteq 1 .. k /\ {k} \subseteq 1 .. k
    BY <2>1
  <2>5. /\ Made(b, 1 .. k - 1) \cap Made(b, {k}) = {}
        /\ Made(b, 1 .. k - 1) \subseteq Made(b, 1 .. k) /\ Made(b, {k}) \subseteq Made(b, 1 .. k)
    <3> DEFINE I == 1 .. k - 1
               J == {k}
               K == 1 .. k
    <3> HIDE DEF I, J, K
    <3>1. /\ I \in SUBSET Nat /\ J \in SUBSET Nat /\ K \in SUBSET Nat
          /\ I \cap J = {} /\ I \subseteq K /\ J \subseteq K
      BY <2>4 DEF I, J, K
    <3>2. Made(b, I) \cap Made(b, J) = {} /\ Made(b, I) \subseteq Made(b, K) /\ Made(b, J) \subseteq Made(b, K)
      BY <3>1, MadeApart, MadeMore
    <3> QED
      BY <3>2 DEF I, J, K
  <2>6. Emits(s, val[k], Made(b, 1 .. k - 1) \cup Made(b, {k}), {} \cup {})
    BY <2>1, <2>3, <2>5, EmitsThen
  <2>7. Made(b, 1 .. k - 1) \cup Made(b, {k}) \subseteq Made(b, 1 .. k) /\ {} \cup {} \subseteq {}
    BY <2>5
  <2>8. Emits(s, val[k], Made(b, 1 .. k), {})
    BY <2>6, <2>7, EmitsMore
  <2> QED
    BY <2>1, <2>8
<1> HIDE DEF T
<1>8. \A k \in 0 .. n : k \in T
  BY <1>1, <1>6, <1>7, Onwards
<1>9. n \in T
  BY <1>1, <1>8
<1>10. Emits(s, end, Made(b, 1 .. n), {})
  BY <1>11, <1>9 DEF T
<1> QED
  BY <1>10 DEF end, n, order, body

-----------------------------------------------------------------------------
(* The blocks of a function.                                               *)

OfBlocks(B) == {l \in Nat \X Nat \X Nat : l[1] \in B}

LEMMA OfBlocksFacts ==
  /\ \A B, C : B \cap C = {} => OfBlocks(B) \cap OfBlocks(C) = {}
  /\ \A B, C : B \subseteq C => OfBlocks(B) \subseteq OfBlocks(C)
  /\ \A b \in Nat : BlockLabel(b) \in OfBlocks({b})
  /\ \A b \in Nat, I \in SUBSET Nat : Made(b, I) \subseteq OfBlocks({b})
<1>1. \A B, C : B \cap C = {} => OfBlocks(B) \cap OfBlocks(C) = {}
  BY DEF OfBlocks
<1>2. \A B, C : B \subseteq C => OfBlocks(B) \subseteq OfBlocks(C)
  BY DEF OfBlocks
<1>3. \A b \in Nat : BlockLabel(b) \in OfBlocks({b})
  BY DEF OfBlocks, BlockLabel
<1>4. ASSUME NEW b \in Nat, NEW I \in SUBSET Nat PROVE Made(b, I) \subseteq OfBlocks({b})
  <2> SUFFICES ASSUME NEW l, l \in Made(b, I) PROVE l \in OfBlocks({b})
    OBVIOUS
  <2>1. PICK i \in I, j \in 1 .. 2 : l = <<b, i, j>>
    BY MadeFacts
  <2>2. l \in Nat \X Nat \X Nat /\ l[1] = b
    BY <2>1
  <2> QED
    BY <2>2 DEF OfBlocks
<1> QED
  BY <1>1, <1>2, <1>3, <1>4

LEMMA EmitBlockEmits ==
  ASSUME NEW c, WellFormed(c.f), NEW s \in States, NEW b \in Blocks(c.f)
  PROVE  /\ Emits(s, EmitBlock(c, s, b), OfBlocks({b}), BlockLabels(c.f))
         /\ BlockLabel(b) \in LabelsOf(EmitBlock(c, s, b).code)
<1> DEFINE l == BlockLabel(b)
           body == c.f.body[b]
           n == Len(body)
           order == [i \in DOMAIN c.f.body[b] |-> i]
           s1 == Write(s, <<Label(l)>>)
           s2 == ClobberAllRegs(s1)
           s3 == EmitInOrder(c, s2, b, order)
           s4 == ClobberAllRegs(s3)
           s5 == EmitTerminator(c, s4, b)
           T == BlockLabels(c.f)
<1>1. EmitBlock(c, s, b) = s5
  BY Zenon DEF EmitBlock, EmitInOrder
<1>2. b \in Nat /\ body \in Seq(Operations) /\ l \in Nat \X Nat \X Nat /\ 0 \in Nat
  BY FunctionFacts DEF BlockLabel
<1>3. n \in Nat
  BY <1>2
<1> HIDE DEF l, n, order
<1>5. Emits(s, s1, {l}, {}) /\ l \in LabelsOf(s1.code)
  BY <1>2, LabelLines
<1> HIDE DEF s1
<1>6. EmitsPlain(s1, s2)
  BY <1>2, <1>5, EmitsLabels, TrackEmits
<1> HIDE DEF s2
<1>7. Emits(s2, s3, Made(b, 1 .. n), {})
  <2>1. s2 \in States
    BY <1>6, EmitsStates
  <2> QED
    BY <1>2, <2>1, InstructionsEmit DEF n, order
<1> HIDE DEF s3
<1>8. EmitsPlain(s3, s4)
  BY <1>2, <1>7, EmitsLabels, TrackEmits
<1> HIDE DEF s4
<1>9. Emits(s4, s5, Made(b, {0}), T)
  BY <1>8, EmitsStates, EmitTerminatorEmits
<1> HIDE DEF s5, T
<1>10. /\ 1 .. n \in SUBSET Nat /\ {0} \in SUBSET Nat /\ (1 .. n) \cap {0} = {}
  BY <1>3
<1>11. /\ l \notin Made(b, 1 .. n) /\ l \notin Made(b, {0})
       /\ Made(b, 1 .. n) \cap Made(b, {0}) = {}
  <2> DEFINE I == 1 .. n
             J == {0}
  <2> HIDE DEF I, J
  <2>1. I \in SUBSET Nat /\ J \in SUBSET Nat /\ I \cap J = {}
    BY <1>10 DEF I, J
  <2>2. l \notin Made(b, I) /\ l \notin Made(b, J)
    BY <1>2, <2>1, MadeFacts DEF l
  <2>3. Made(b, I) \cap Made(b, J) = {}
    BY <1>2, <2>1, MadeApart
  <2> QED
    BY <2>2, <2>3 DEF I, J
<1>12. Emits(s, s4, {l} \cup Made(b, 1 .. n), {} \cup {})
  <2>1. Emits(s, s2, {l}, {})
    BY <1>5, <1>6, PlainAfter
  <2>2. Emits(s2, s4, Made(b, 1 .. n), {})
    BY <1>7, <1>8, PlainAfter
  <2>3. {l} \cap Made(b, 1 .. n) = {}
    BY <1>11
  <2> QED
    BY <2>1, <2>2, <2>3, EmitsThen
<1>13. Emits(s, s5, {l} \cup Made(b, 1 .. n) \cup Made(b, {0}), ({} \cup {}) \cup T)
  <2>1. ({l} \cup Made(b, 1 .. n)) \cap Made(b, {0}) = {}
    BY <1>11
  <2> QED
    BY <1>9, <1>12, <2>1, EmitsThen
<1>14. {l} \cup Made(b, 1 .. n) \cup Made(b, {0}) \subseteq OfBlocks({b}) /\ ({} \cup {}) \cup T \subseteq T
  BY <1>2, <1>10, OfBlocksFacts, ZenonT(30) DEF l
<1>15. Emits(s, s5, OfBlocks({b}), T)
  BY <1>13, <1>14, EmitsMore
<1>16. l \in LabelsOf(s5.code)
  <2>1. LabelsOf(s1.code) \subseteq LabelsOf(s2.code)
    BY <1>6, EmitsLabels DEF EmitsPlain
  <2>2. LabelsOf(s2.code) \subseteq LabelsOf(s3.code)
    BY <1>7, EmitsLabels
  <2>3. LabelsOf(s3.code) \subseteq LabelsOf(s4.code)
    BY <1>8, EmitsLabels DEF EmitsPlain
  <2>4. LabelsOf(s4.code) \subseteq LabelsOf(s5.code)
    BY <1>9, EmitsLabels
  <2> QED
    BY <1>5, <2>1, <2>2, <2>3, <2>4
<1> QED
  BY <1>1, <1>15, <1>16 DEF l, T

EmitBlocks(c, s, order) == FoldLeft(LAMBDA r, b : EmitBlock(c, r, b), s, order)

LEMMA BlockSteps ==
  ASSUME NEW c, WellFormed(c.f), NEW order \in Seq(Blocks(c.f)),
         NEW n \in Nat, n = Len(order), NEW base \in States, NEW end, end = EmitBlocks(c, base, order)
  PROVE  \E val : /\ val[0] = base
                  /\ \A k \in 1 .. n : val[k] = EmitBlock(c, val[k - 1], order[k])
                  /\ end = val[n]
<1> DEFINE Choice(it) ==
      it = [S \in SUBSET (DOMAIN order) |->
              IF S = {} THEN base ELSE EmitBlock(c, it[S \ {LastOf(S)}], order[LastOf(S)])]
<1>1. end = (CHOOSE it : Choice(it))[DOMAIN order]
  BY Zenon DEF EmitBlocks, FoldLeft, MapThenFoldSet, Max, LastOf
<1>2. DOMAIN order = 1 .. n
  OBVIOUS
<1>3. ASSUME NEW k \in 1 .. n, NEW s \in States PROVE EmitBlock(c, s, order[k]) \in States
  <2>1. order[k] \in Blocks(c.f)
    OBVIOUS
  <2> QED
    BY <2>1, EmitBlockEmits, EmitsLabels
<1> DEFINE step == [k \in 1 .. n |-> [s \in States |-> EmitBlock(c, s, order[k])]]
<1>4. step \in [1 .. n -> [States -> States]]
  BY <1>3
<1>5. PICK f \in [SUBSET (1 .. n) -> States] : IsFold(f, n, base, step)
  <2> HIDE DEF step
  <2>1. n \in Nat /\ base \in States /\ step \in [1 .. n -> [States -> States]]
    BY <1>4
  <2> QED
    BY <2>1, FoldExists
<1>6. Choice(f)
  <2>1. ASSUME NEW S \in SUBSET (1 .. n), S # {}
        PROVE  f[S] = EmitBlock(c, f[S \ {LastOf(S)}], order[LastOf(S)])
    <3>1. LastOf(S) \in 1 .. n /\ S \ {LastOf(S)} \in SUBSET (1 .. n)
      BY <2>1, LastOfFacts
    <3>2. f[S \ {LastOf(S)}] \in States
      BY <3>1
    <3>3. f[S] = step[LastOf(S)][f[S \ {LastOf(S)}]]
      BY <1>5, <2>1 DEF IsFold
    <3> QED
      BY <3>1, <3>2, <3>3
  <2>2. f[{}] = base
    BY <1>5 DEF IsFold
  <2> QED
    BY <1>2, <1>5, <2>1, <2>2
<1> DEFINE it == CHOOSE g : Choice(g)
           val == [k \in 0 .. n |-> it[1 .. k]]
<1>7. Choice(it)
  <2> HIDE DEF Choice
  <2> QED
    BY Zenon, <1>6
<1> HIDE DEF it, step
<1>8. \A S \in SUBSET (1 .. n) :
        it[S] = IF S = {} THEN base ELSE EmitBlock(c, it[S \ {LastOf(S)}], order[LastOf(S)])
  BY <1>2, <1>7
<1>9. ASSUME NEW k \in 1 .. n PROVE val[k] = EmitBlock(c, val[k - 1], order[k])
  <2>1. 1 .. k \in SUBSET (1 .. n) /\ 1 .. k # {} /\ LastOf(1 .. k) = k /\ (1 .. k) \ {k} = 1 .. k - 1
    BY LastOfPrefix
  <2>2. k \in 0 .. n /\ k - 1 \in 0 .. n
    OBVIOUS
  <2>3. it[1 .. k] = EmitBlock(c, it[1 .. k - 1], order[k])
    BY <1>8, <2>1
  <2> QED
    BY <2>2, <2>3
<1>10. val[0] = base
  <2>1. 1 .. 0 = {} /\ 1 .. 0 \in SUBSET (1 .. n) /\ 0 \in 0 .. n
    OBVIOUS
  <2> QED
    BY <1>8, <2>1
<1>11. end = val[n]
  <2>1. n \in 0 .. n
    OBVIOUS
  <2> QED
    BY <1>1, <1>2, <2>1 DEF it
<1> HIDE DEF val
<1> QED
  BY <1>9, <1>10, <1>11

LEMMA EmitFuncBound ==
  ASSUME NEW c, WellFormed(c.f)
  PROVE  Bound(EmitFunc(c))
<1> DEFINE n == Len(c.f.body)
           order == [b \in Blocks(c.f) |-> b]
           s == Write(Empty, <<Leas(-c.f.frame)>>)
           end == EmitBlocks(c, s, order)
           T == BlockLabels(c.f)
<1>1. EmitFunc(c) = end.code
  BY Zenon DEF EmitFunc, EmitBlocks
<1>2. n \in Nat /\ Blocks(c.f) = 1 .. n /\ c.f.frame \in Nat
  BY FunctionFacts
<1> HIDE DEF n
<1>3. order \in Seq(Blocks(c.f)) /\ Len(order) = n /\ \A k \in 1 .. n : order[k] = k
  BY <1>2
<1>4. s \in States /\ LabelsOf(s.code) = {} /\ Targets(s.code) = {} /\ UniqueLabels(s.code)
  <2>1. Empty \in States /\ Empty.code = <<>>
    BY DEF Empty, States
  <2>2. Plain(Leas(-c.f.frame))
    BY <1>2, PlainLines
  <2>3. EmitsPlain(Empty, s)
    BY <2>1, <2>2, WriteLines
  <2> HIDE DEF s
  <2> QED
    BY <2>1, <2>3, NoLines DEF EmitsPlain, Emits, Grows
<1>5. end = EmitBlocks(c, s, order)
  OBVIOUS
<1> HIDE DEF order, s, end, T
<1>6. PICK val : /\ val[0] = s
                 /\ \A k \in 1 .. n : val[k] = EmitBlock(c, val[k - 1], order[k])
                 /\ end = val[n]
  BY <1>2, <1>3, <1>4, <1>5, BlockSteps
<1> DEFINE P(k) == /\ Emits(s, val[k], OfBlocks(1 .. k), T)
                   /\ \A b \in 1 .. k : BlockLabel(b) \in LabelsOf(val[k].code)
           N == {k \in Nat : P(k)}
<1>7. 0 \in N
  <2>1. Emits(s, s, {}, {}) /\ {} \subseteq OfBlocks(1 .. 0) /\ {} \subseteq T
    BY <1>4, WriteLines DEF EmitsPlain
  <2>2. Emits(s, s, OfBlocks(1 .. 0), T)
    BY <2>1, EmitsMore
  <2> QED
    BY <1>6, <2>2
<1>8. ASSUME NEW k \in 1 .. n, k - 1 \in N PROVE k \in N
  <2>1. k \in Nat /\ P(k - 1)
    BY <1>8
  <2>2. val[k] = EmitBlock(c, val[k - 1], k) /\ k \in Blocks(c.f)
    BY <1>2, <1>3, <1>6
  <2>3. Emits(val[k - 1], val[k], OfBlocks({k}), T) /\ BlockLabel(k) \in LabelsOf(val[k].code)
    BY <2>1, <2>2, EmitsLabels, EmitBlockEmits DEF T
  <2>4. (1 .. k - 1) \cap {k} = {} /\ 1 .. k - 1 \subseteq 1 .. k /\ {k} \subseteq 1 .. k
    BY <2>1
  <2>5. /\ OfBlocks(1 .. k - 1) \cap OfBlocks({k}) = {}
        /\ OfBlocks(1 .. k - 1) \subseteq OfBlocks(1 .. k) /\ OfBlocks({k}) \subseteq OfBlocks(1 .. k)
    BY <2>4, OfBlocksFacts
  <2>6. Emits(s, val[k], OfBlocks(1 .. k - 1) \cup OfBlocks({k}), T \cup T)
    BY <2>1, <2>3, <2>5, EmitsThen
  <2>7. OfBlocks(1 .. k - 1) \cup OfBlocks({k}) \subseteq OfBlocks(1 .. k) /\ T \cup T \subseteq T
    BY <2>5
  <2>8. Emits(s, val[k], OfBlocks(1 .. k), T)
    BY <2>6, <2>7, EmitsMore
  <2>9. ASSUME NEW b \in 1 .. k PROVE BlockLabel(b) \in LabelsOf(val[k].code)
    <3>1. LabelsOf(val[k - 1].code) \subseteq LabelsOf(val[k].code)
      BY <2>3, EmitsLabels
    <3>2. b = k \/ b \in 1 .. k - 1
      BY <2>1
    <3> QED
      BY <2>1, <2>3, <3>1, <3>2
  <2> QED
    BY <2>1, <2>8, <2>9
<1> HIDE DEF N
<1>9. \A k \in 0 .. n : k \in N
  BY <1>2, <1>7, <1>8, Onwards
<1>10. n \in N
  BY <1>2, <1>9
<1>11. P(n)
  BY <1>10 DEF N
<1>12. T \subseteq LabelsOf(end.code)
  BY <1>2, <1>6, <1>11 DEF T, BlockLabels
<1>13. Bound(end.code)
  <2>1. LabelsOf(s.code) \cap OfBlocks(1 .. n) = {}
    BY <1>4
  <2>2. Grows(s.code, end.code, OfBlocks(1 .. n), T)
    BY <1>6, <1>11 DEF Emits
  <2> QED
    BY <1>4, <1>12, <2>1, <2>2 DEF Bound, Grows
<1> QED
  BY <1>1, <1>13

-----------------------------------------------------------------------------
(* The labels, after every step.                                           *)

\* No line has a size before the assembler starts.
LabelsInv ==
  /\ Bound(code)
  /\ stage \in Stages \cup Ends
  /\ {layout, track, changed} \subseteq BOOLEAN
  /\ passes \in 0 .. RelaxPasses
  /\ IF stage \in {"window", "labels", "threads", "unreachable", "round", "panicked"}
       THEN DOMAIN size = {} ELSE DOMAIN size = DOMAIN code

LEMMA InitLabels == Init => LabelsInv
<1> SUFFICES ASSUME Init PROVE LabelsInv
  OBVIOUS
<1> DEFINE c == [f |-> function, layout |-> layout, track |-> track]
<1>1. c.f = function /\ code = EmitFunc(c) /\ function \in Functions
  BY DEF Init
<1>2. WellFormed(c.f)
  BY <1>1, FunctionsAssumption
<1> HIDE DEF c
<1>3. Bound(code)
  BY <1>1, <1>2, EmitFuncBound
<1>4. DOMAIN size = {}
  BY DEF Init
<1>5. stage = "window" /\ passes = 0 /\ passes \in 0 .. RelaxPasses
  BY AssemblerAssumption DEF Init
<1>6. layout \in BOOLEAN /\ track \in BOOLEAN /\ changed \in BOOLEAN
  BY DEF Init
<1> QED
  BY <1>3, <1>4, <1>5, <1>6 DEF LabelsInv, Stages

LEMMA PassKeepsLabels ==
  ASSUME LabelsInv,
         NEW now \in {"window", "labels", "threads", "unreachable"},
         NEW next \in {"labels", "threads", "unreachable", "round"},
         NEW result, result.panic \/ Bound(result.code), PeepholePass(now, result, next)
  PROVE  LabelsInv'
<1>1. /\ stage = now /\ code' = IF result.panic THEN code ELSE result.code
      /\ changed' = (changed \/ result.changed) /\ stage' = IF result.panic THEN "panicked" ELSE next
      /\ layout' = layout /\ track' = track /\ size' = size /\ passes' = passes
  BY DEF PeepholePass
<1>2. Bound(code')
  BY <1>1 DEF LabelsInv
<1>3. Bound(code)'
  BY <1>2 DEF Bound, UniqueLabels, Targets
<1>4. changed' \in BOOLEAN
  BY <1>1
<1>5. DOMAIN size' = {}
  BY <1>1 DEF LabelsInv
<1>6. stage' \in {"labels", "threads", "unreachable", "round", "panicked"}
  BY <1>1
<1> QED
  BY <1>1, <1>3, <1>4, <1>5, <1>6 DEF LabelsInv, Stages, Ends

LEMMA StepLabels == ASSUME LabelsInv, [Next]_vars PROVE LabelsInv'
<1>1. Bound(code) /\ code \in Seq(ProperLines)
  BY DEF LabelsInv, Bound
<1>2. CASE Rewrite
  <2>1. SlidingWindow(code).panic \/ Bound(SlidingWindow(code).code)
    BY <1>1, WindowKeeps, KeepsBound
  <2> QED
    BY <1>2, <2>1, PassKeepsLabels DEF Rewrite
<1>3. CASE DropLabels
  <2>1. DropUnusedLabels(code).panic \/ Bound(DropUnusedLabels(code).code)
    BY <1>1, DropUnusedBound
  <2> QED
    BY <1>3, <2>1, PassKeepsLabels DEF DropLabels
<1>4. CASE Thread
  <2>1. ThreadJumps(code).panic \/ Bound(ThreadJumps(code).code)
    BY <1>1, ThreadJumpsKeeps, KeepsBound
  <2> QED
    BY <1>4, <2>1, PassKeepsLabels DEF Thread
<1>5. CASE DropDead
  <2>1. DropUnreachable(code).panic \/ Bound(DropUnreachable(code).code)
    BY <1>1, DropUnreachableKeeps, KeepsBound
  <2> QED
    BY <1>5, <2>1, PassKeepsLabels DEF DropDead
<1>6. CASE NextRound
  BY <1>6 DEF NextRound, LabelsInv, Stages, Ends
<1>7. CASE Assemble
  <2>1. size' = [j \in DOMAIN code |-> InitialSize(code[j])] /\ code' = code
    BY <1>7 DEF Assemble
  <2>2. DOMAIN size' = DOMAIN code'
    BY <2>1
  <2>3. /\ stage' = "relax" /\ layout' = layout /\ track' = track /\ changed' = changed /\ passes' = passes
    BY <1>7 DEF Assemble
  <2> QED
    BY <2>1, <2>2, <2>3 DEF LabelsInv, Stages, Ends
<1>8. CASE Relax
  <2>1. /\ stage = "relax" /\ passes < RelaxPasses /\ passes' = passes + 1 /\ stage' \in {"encode", "relax"}
        /\ DOMAIN size' = DOMAIN code
        /\ code' = code /\ layout' = layout /\ track' = track /\ changed' = changed
    BY Zenon, <1>8 DEF Relax
  <2>2. passes' \in 0 .. RelaxPasses
    BY <2>1, AssemblerAssumption DEF LabelsInv
  <2> QED
    BY <2>1, <2>2 DEF LabelsInv, Stages, Ends
<1>9. CASE Encode
  <2>1. /\ stage \in {"encode", "relax"} /\ stage' \in {"encoded", "out of range"}
        /\ code' = code /\ layout' = layout /\ track' = track /\ changed' = changed
        /\ size' = size /\ passes' = passes
    BY <1>9 DEF Encode
  <2> QED
    BY <2>1 DEF LabelsInv, Stages, Ends
<1>10. CASE UNCHANGED vars
  BY <1>10 DEF vars, LabelsInv
<1> QED
  BY <1>2, <1>3, <1>4, <1>5, <1>6, <1>7, <1>8, <1>9, <1>10 DEF Next

\* The code is bound and the assembler has sizes for its lines, after every step.
THEOREM LabelsInvariance == Spec => []LabelsInv
<1> QED
  BY InitLabels, StepLabels, PTL DEF Spec

\* The lines that stand for a label are one.
LEMMA LabelsStand ==
  ASSUME NEW lines, Bound(lines), NEW l \in TargetsOf(lines, Branches)
  PROVE  Cardinality({j \in DOMAIN lines : lines[j] = Label(l)}) = 1
<1>1. lines \in Seq(ProperLines) /\ UniqueLabels(lines) /\ l \in LabelsOf(lines)
  BY DEF Bound, Targets
<1>2. PICK k \in DOMAIN lines : lines[k].op = "label" /\ lines[k].to = l
  BY <1>1, LabelIn
<1>3. \A j \in DOMAIN lines : lines[j].op = "label" => lines[j] = Label(lines[j].to)
  BY <1>1 DEF ProperLines
<1>4. Label(l).op = "label" /\ Label(l).to = l
  BY DEF Label, Line
<1>5. {j \in DOMAIN lines : lines[j] = Label(l)} = {k}
  <2>1. lines[k] = Label(l)
    BY <1>2, <1>3
  <2>2. ASSUME NEW j \in DOMAIN lines, lines[j] = Label(l) PROVE j = k
    BY <1>1, <1>2, <1>4, <2>2 DEF UniqueLabels
  <2> QED
    BY <2>1, <2>2
<1> QED
  BY <1>5, FS_Singleton

LEMMA LabelsInvLinesOK == LabelsInv => LinesOK
<1> SUFFICES ASSUME LabelsInv PROVE LinesOK
  OBVIOUS
<1>1. Bound(code) /\ code \in Seq(ProperLines)
  BY DEF LabelsInv, Bound
<1>2. code \in Seq(Lines)
  <2>1. ProperLines \subseteq Lines
    BY DEF ProperLines
  <2> HIDE DEF Lines
  <2> QED
    BY <1>1, <2>1
<1>3. \A l \in TargetsOf(code, Branches) : Cardinality({j \in DOMAIN code : code[j] = Label(l)}) = 1
  BY <1>1, LabelsStand
<1>4. DOMAIN size \in {{}, DOMAIN code}
  BY DEF LabelsInv
<1> QED
  BY <1>2, <1>3, <1>4 DEF LabelsInv, LinesOK

\* LinesOK, for every function: each label that a branch goes to stands in the code,
\* once, after emission and after every pass of the peephole optimizer, which drops
\* lines, labels and jumps of all kinds (m6809/peephole.go).
THEOREM LabelsStandOnce == Spec => []LinesOK
<1> QED
  BY LabelsInvariance, LabelsInvLinesOK, PTL

-----------------------------------------------------------------------------
(* Addresses.                                                              *)

\* after is where the line after each line goes, if sizes are those of the lines.
IsTotal(after, sizes, n) ==
  after = [j \in 0 .. n |-> IF j = 0 THEN 0 ELSE after[j - 1] + sizes[j]]

\* Totals exist: by the least number of lines that would have none.
LEMMA TotalsExist ==
  ASSUME NEW sizes, NEW n \in Nat, \A j \in 1 .. n : sizes[j] \in Nat
  PROVE  \E after \in [0 .. n -> Nat] : IsTotal(after, sizes, n)
<1> DEFINE Has(m) == \E after \in [0 .. m -> Nat] : IsTotal(after, sizes, m)
           T == {m \in 0 .. n : ~Has(m)}
<1>1. SUFFICES ASSUME T # {} PROVE FALSE
  <2>1. T = {} /\ n \in 0 .. n
    BY <1>1
  <2> QED
    BY <2>1
<1>2. PICK m \in T : \A k \in T : m <= k
  <2>1. T \subseteq Nat
    OBVIOUS
  <2> HIDE DEF T
  <2> QED
    BY <1>1, <2>1, LeastNumber
<1>3. m \in 0 .. n /\ ~Has(m)
  OBVIOUS
<1>4. CASE m = 0
  <2> DEFINE none == [j \in 0 .. 0 |-> 0]
  <2>1. none \in [0 .. 0 -> Nat]
    OBVIOUS
  <2>2. none = [j \in 0 .. 0 |-> IF j = 0 THEN 0 ELSE none[j - 1] + sizes[j]]
    OBVIOUS
  <2> QED
    BY <1>3, <1>4, <2>1, <2>2 DEF IsTotal
<1>5. CASE m # 0
  <2>1. m - 1 \in 0 .. n /\ m \in 1 .. n /\ ~ (m <= m - 1)
    BY <1>3, <1>5
  <2>2. Has(m - 1)
    BY <1>2, <2>1
  <2>3. PICK f \in [0 .. m - 1 -> Nat] : IsTotal(f, sizes, m - 1)
    BY <2>2
  <2> DEFINE g == [j \in 0 .. m |-> IF j = m THEN f[m - 1] + sizes[m] ELSE f[j]]
  <2>4. \A j \in 0 .. m : j # m => j \in 0 .. m - 1 /\ (j # 0 => j - 1 \in 0 .. m - 1 /\ j - 1 # m)
    BY <2>1
  <2>5. m - 1 \in 0 .. m - 1 /\ m - 1 \in 0 .. m /\ m - 1 # m /\ sizes[m] \in Nat
    BY <2>1
  <2>6. g \in [0 .. m -> Nat]
    BY <2>4, <2>5
  <2>7. \A j \in 0 .. m : g[j] = IF j = 0 THEN 0 ELSE g[j - 1] + sizes[j]
    <3> SUFFICES ASSUME NEW j \in 0 .. m
                 PROVE  g[j] = IF j = 0 THEN 0 ELSE g[j - 1] + sizes[j]
      OBVIOUS
    <3>1. CASE j = m
      BY <1>5, <2>5, <3>1
    <3>2. CASE j # m
      <4>1. j \in 0 .. m - 1 /\ g[j] = f[j]
        BY <2>4, <3>2
      <4>2. f[j] = IF j = 0 THEN 0 ELSE f[j - 1] + sizes[j]
        BY <2>3, <4>1 DEF IsTotal
      <4>3. j # 0 => j - 1 \in 0 .. m /\ g[j - 1] = f[j - 1]
        BY <2>4, <3>2
      <4> QED
        BY <4>1, <4>2, <4>3
    <3> QED
      BY <3>1, <3>2
  <2>8. g = [j \in 0 .. m |-> IF j = 0 THEN 0 ELSE g[j - 1] + sizes[j]]
    <3>1. DOMAIN g = 0 .. m
      OBVIOUS
    <3> HIDE DEF g
    <3> QED
      BY <2>6, <2>7
  <2> QED
    BY <1>3, <2>6, <2>8 DEF IsTotal
<1> QED
  BY <1>4, <1>5

\* What totals are, step by step.
LEMMA TotalsFacts ==
  ASSUME NEW sizes, NEW n \in Nat, \A j \in 1 .. n : sizes[j] \in Nat,
         NEW after, IsTotal(after, sizes, n)
  PROVE  /\ after[0] = 0
         /\ \A j \in 1 .. n : after[j] = after[j - 1] + sizes[j]
         /\ \A j \in 0 .. n : after[j] \in Nat
<1>1. \A j \in 0 .. n : after[j] = IF j = 0 THEN 0 ELSE after[j - 1] + sizes[j]
  BY DEF IsTotal
<1>2. after[0] = 0
  BY <1>1
<1>3. \A j \in 1 .. n : j \in 0 .. n /\ j # 0
  OBVIOUS
<1>4. \A j \in 1 .. n : after[j] = after[j - 1] + sizes[j]
  BY <1>1, <1>3
<1>5. \A j \in 0 .. n : after[j] \in Nat
  <2> DEFINE T == {j \in 0 .. n : after[j] \notin Nat}
  <2> SUFFICES ASSUME T # {} PROVE FALSE
    OBVIOUS
  <2>1. PICK m \in T : \A k \in T : m <= k
    <3>1. T \subseteq Nat
      OBVIOUS
    <3> HIDE DEF T
    <3> QED
      BY <3>1, LeastNumber
  <2>2. m \in 0 .. n /\ after[m] \notin Nat /\ m # 0
    BY <1>2
  <2>3. m \in 1 .. n /\ m - 1 \in 0 .. n /\ ~ (m <= m - 1)
    BY <2>2
  <2>4. after[m - 1] \in Nat
    BY <2>1, <2>3
  <2> QED
    BY <1>4, <2>2, <2>3, <2>4
<1> QED
  BY <1>2, <1>4, <1>5

\* The address of each line is the size of all before it.
LEMMA LayoutFacts ==
  ASSUME NEW n \in Nat, NEW sizes \in [1 .. n -> Nat]
  PROVE  /\ Layout(sizes) \in [1 .. n -> Nat]
         /\ n # 0 => Layout(sizes)[1] = 0
         /\ \A j \in 1 .. n : j # n => Layout(sizes)[j + 1] = Layout(sizes)[j] + sizes[j]
<1> DEFINE after == CHOOSE f : IsTotal(f, sizes, Len(sizes))
<1>1. \A j \in 1 .. n : sizes[j] \in Nat
  OBVIOUS
<1>2. IsTotal(after, sizes, n)
  <2> DEFINE k == Len(sizes)
  <2>1. k = n
    OBVIOUS
  <2> HIDE DEF k
  <2>2. \E f : IsTotal(f, sizes, k)
    BY <1>1, <2>1, TotalsExist
  <2>3. IsTotal(CHOOSE f : IsTotal(f, sizes, k), sizes, k)
    BY <2>2
  <2> QED
    BY <2>1, <2>3 DEF k
<1> HIDE DEF after
<1>3. /\ after[0] = 0
      /\ \A j \in 1 .. n : after[j] = after[j - 1] + sizes[j]
      /\ \A j \in 0 .. n : after[j] \in Nat
  BY <1>1, <1>2, TotalsFacts
<1>4. Layout(sizes) = [j \in 1 .. n |-> after[j - 1]]
  BY Zenon DEF Layout, IsTotal, after
<1> HIDE DEF Layout
<1>5. \A j \in 1 .. n : j - 1 \in 0 .. n /\ after[j - 1] \in Nat
  BY <1>3
<1>6. Layout(sizes) \in [1 .. n -> Nat]
  BY <1>4, <1>5
<1>7. n # 0 => Layout(sizes)[1] = 0
  <2>1. n # 0 => 1 \in 1 .. n /\ 1 - 1 = 0
    OBVIOUS
  <2> QED
    BY <1>3, <1>4, <2>1
<1>8. \A j \in 1 .. n : j # n => Layout(sizes)[j + 1] = Layout(sizes)[j] + sizes[j]
  <2>1. \A j \in 1 .. n : j # n => j + 1 \in 1 .. n /\ (j + 1) - 1 = j
    OBVIOUS
  <2> QED
    BY <1>3, <1>4, <2>1
<1> QED
  BY <1>6, <1>7, <1>8

-----------------------------------------------------------------------------
(* Lines that shrink.                                                      *)

\* Lines that shrink move down, the closer to the end the further: no two of them
\* move apart.
LEMMA LinesDrawCloser ==
  ASSUME NEW n \in Nat, NEW old \in [1 .. n -> Nat], NEW new \in [1 .. n -> Nat],
         \A j \in 1 .. n : new[j] <= old[j]
  PROVE  \A i \in 1 .. n : \A j \in 1 .. n : i <= j =>
           /\ Layout(new)[i] <= Layout(new)[j]
           /\ Layout(new)[j] - Layout(new)[i] <= Layout(old)[j] - Layout(old)[i]
<1> DEFINE A == Layout(old)
           B == Layout(new)
<1>1. /\ A \in [1 .. n -> Nat]
      /\ B \in [1 .. n -> Nat]
      /\ \A j \in 1 .. n : j # n => A[j + 1] = A[j] + old[j] /\ B[j + 1] = B[j] + new[j]
  BY LayoutFacts
<1> HIDE DEF A, B
<1>2. SUFFICES ASSUME NEW i \in 1 .. n
               PROVE  \A j \in 1 .. n : i <= j => B[i] <= B[j] /\ B[j] - B[i] <= A[j] - A[i]
  BY DEF A, B
<1> DEFINE T == {j \in i .. n : ~(B[i] <= B[j] /\ B[j] - B[i] <= A[j] - A[i])}
<1>3. T = {}
  <2> SUFFICES ASSUME T # {} PROVE FALSE
    OBVIOUS
  <2>1. PICK m \in T : \A k \in T : m <= k
    <3>1. T \subseteq Nat
      OBVIOUS
    <3> HIDE DEF T
    <3> QED
      BY <3>1, LeastNumber
  <2>2. m \in i .. n /\ m \in 1 .. n /\ A[i] \in Nat /\ B[i] \in Nat
    BY <1>1
  <2>3. m # i
    BY <2>2
  <2>4. m - 1 \in i .. n /\ m - 1 \in 1 .. n /\ m - 1 # n /\ (m - 1) + 1 = m /\ ~ (m <= m - 1)
    BY <2>2, <2>3
  <2>5. B[i] <= B[m - 1] /\ B[m - 1] - B[i] <= A[m - 1] - A[i]
    BY <2>1, <2>4
  <2>6. A[m] = A[m - 1] + old[m - 1] /\ B[m] = B[m - 1] + new[m - 1]
    BY <1>1, <2>4
  <2>7. new[m - 1] <= old[m - 1] /\ new[m - 1] \in Nat /\ old[m - 1] \in Nat
    BY <2>4
  <2>8. A[m - 1] \in Nat /\ B[m - 1] \in Nat
    BY <1>1, <2>4
  <2>9. B[i] <= B[m] /\ B[m] - B[i] <= A[m] - A[i]
    <3>1. \A a, b, c, d, p, q \in Nat :
             b <= d /\ d - b <= c - a /\ p <= q => b <= d + p /\ (d + p) - b <= (c + q) - a
      OBVIOUS
    <3>2. /\ B[i] <= B[m - 1] + new[m - 1]
          /\ (B[m - 1] + new[m - 1]) - B[i] <= (A[m - 1] + old[m - 1]) - A[i]
      <4> HIDE DEF T
      <4> QED
        BY <2>2, <2>5, <2>7, <2>8, <3>1
    <3> QED
      BY <2>6, <3>2
  <2> QED
    BY <2>1, <2>9
<1>4. \A j \in 1 .. n : i <= j => j \in i .. n
  OBVIOUS
<1> QED
  BY <1>3, <1>4

-----------------------------------------------------------------------------
(* The invariant.                                                          *)

BranchLines == {j \in DOMAIN code : code[j].op \in Branches}

\* The code is a list of lines, and every branch goes to a label that stands in it:
\* what LinesOK says and the assembler's table of symbols needs.
Closed ==
  /\ code \in Seq(Lines)
  /\ \A j \in BranchLines : \E k \in DOMAIN code : code[k] = Label(code[j].to)

\* The branches that are short already.
Short == {j \in BranchLines : size[j] = 2}

\* The sizes are numbers and a branch has two bytes or more.
Sized == size \in [DOMAIN code -> Nat] /\ \A j \in BranchLines : size[j] >= 2

Relaxing == stage \in {"relax", "encode", "encoded", "out of range"}

Few == Cardinality(BranchLines) < RelaxPasses

\* Short branches reach their labels from the addresses of the last pass and, when
\* the lines have moved after it, from where they are then.  Each pass that is
\* followed by another shortened a branch.
Relaxed ==
  /\ Sized
  /\ ShortBranchesInRange(pc)
  /\ ShortBranchesInRange(Layout(size))
  /\ stage = "relax" => passes <= Cardinality(Short)
  /\ stage = "encode" => pc = Layout(size)
  /\ stage = "encoded" /\ Few => pc = Layout(size)
  /\ stage # "out of range"

RInv ==
  /\ passes \in Nat
  /\ ~Relaxing => passes = 0
  /\ Relaxing /\ Closed => Relaxed

\* Where the label stands that line j branches to.
Target(j) == SelectInSeq(code, LAMBDA i : i = Label(code[j].to))

LEMMA InitialSizes ==
  \A i : InitialSize(i) \in Nat /\ (i.op \in Branches => InitialSize(i) > 2)
<1> SUFFICES ASSUME NEW i
             PROVE  InitialSize(i) \in Nat /\ (i.op \in Branches => InitialSize(i) > 2)
  OBVIOUS
<1> QED
  BY DEF InitialSize, Branches, Jumps, Conditionals

\* A branch's label stands at another line, and its symbol is that line's address.
LEMMA Symbol ==
  ASSUME Closed, NEW at, NEW j \in BranchLines
  PROVE  /\ Target(j) \in DOMAIN code
         /\ Target(j) # j
         /\ Symbols(at)[code[j].to] = at[Target(j)]
<1> DEFINE I == {i \in 1 .. Len(code) : code[i] = Label(code[j].to)}
<1>1. DOMAIN code = 1 .. Len(code) /\ Len(code) \in Nat
  BY DEF Closed
<1>2. PICK k \in DOMAIN code : code[k] = Label(code[j].to)
  BY DEF Closed
<1>3. Target(j) = IF I # {} THEN Min(I) ELSE 0
  BY DEF Target, SelectInSeq
<1>4. I # {} /\ I \subseteq Nat
  BY <1>1, <1>2
<1>5. Min(I) \in I
  <2> HIDE DEF I
  <2>1. \E x \in I : \A y \in I : x <= y
    BY <1>4, LeastNumber
  <2> QED
    BY <2>1 DEF Min
<1>6. Target(j) \in I
  BY <1>3, <1>4, <1>5
<1>7. Target(j) \in DOMAIN code /\ code[Target(j)] = Label(code[j].to)
  BY <1>1, <1>6
<1>8. \A l : Label(l).op = "label" /\ Label(l).to = l
  BY DEF Label, Line
<1>9. Target(j) # j
  <2>1. code[j].op # "label" /\ code[Target(j)].op = "label"
    BY <1>8, <1>7 DEF BranchLines, Branches, Jumps, Conditionals
  <2> QED
    BY <2>1
<1>10. code[j].to \in LabelsOf(code)
  <2>1. code[k].op = "label" /\ code[k].to = code[j].to
    BY <1>8, <1>2
  <2>2. code[k] \in ToSet(code)
    BY <1>2 DEF ToSet
  <2> QED
    BY <2>1, <2>2 DEF LabelsOf
<1>11. Symbols(at)[code[j].to] = at[Target(j)]
  BY <1>10 DEF Symbols, Target
<1> QED
  BY <1>7, <1>9, <1>11

\* How far a branch has to reach is the difference of two addresses.
LEMMA RangeMeans ==
  ASSUME Closed, NEW at, NEW j \in BranchLines
  PROVE  /\ InRange(at, Symbols(at), j) <=>
              /\ at[Target(j)] - (at[j] + 2) >= -ShortReach
              /\ at[Target(j)] - (at[j] + 2) < ShortReach
         /\ Reaches(at, Symbols(at), j) <=> InRange(at, Symbols(at), j)
<1>1. Offset(at, Symbols(at), j) = at[Target(j)] - (at[j] + 2)
  BY Symbol DEF Offset
<1> QED
  BY <1>1 DEF InRange, Reaches

\* A short branch that reaches its label still does when lines have shrunk: the
\* label comes closer, and does not come to lie on the other side of the branch.
LEMMA StaysInRange ==
  ASSUME Closed, NEW n \in Nat, DOMAIN code = 1 .. n,
         NEW old \in [1 .. n -> Nat], NEW new \in [1 .. n -> Nat],
         \A i \in 1 .. n : new[i] <= old[i],
         NEW j \in BranchLines, new[j] = 2,
         InRange(Layout(old), Symbols(Layout(old)), j)
  PROVE  InRange(Layout(new), Symbols(Layout(new)), j)
<1> DEFINE A == Layout(old)
           B == Layout(new)
           t == Target(j)
<1>1. j \in 1 .. n /\ t \in 1 .. n /\ t # j
  BY Symbol DEF BranchLines
<1>2. /\ A[t] \in Nat /\ A[j] \in Nat /\ B[t] \in Nat /\ B[j] \in Nat
      /\ j # n => B[j + 1] = B[j] + 2 /\ B[j + 1] \in Nat
  <2>1. /\ A \in [1 .. n -> Nat]
        /\ B \in [1 .. n -> Nat]
        /\ \A i \in 1 .. n : i # n => B[i + 1] = B[i] + new[i]
    BY LayoutFacts
  <2>2. j # n => j + 1 \in 1 .. n
    BY <1>1
  <2> HIDE DEF A, B, t
  <2> QED
    BY <1>1, <2>1, <2>2
<1>3. \A i \in 1 .. n : \A k \in 1 .. n : i <= k => B[i] <= B[k] /\ B[k] - B[i] <= A[k] - A[i]
  BY LinesDrawCloser
<1>4. A[t] - (A[j] + 2) >= -ShortReach /\ A[t] - (A[j] + 2) < ShortReach
  BY RangeMeans
<1> HIDE DEF A, B, t
<1>5. B[t] - (B[j] + 2) >= -ShortReach /\ B[t] - (B[j] + 2) < ShortReach
  <2>1. CASE j < t
    <3>1. j # n /\ j + 1 \in 1 .. n /\ j + 1 <= t /\ j <= t
      BY <1>1, <2>1
    <3>2. B[j + 1] <= B[t] /\ B[t] - B[j] <= A[t] - A[j]
      BY <1>1, <1>3, <3>1
    <3>3. B[j] + 2 <= B[t]
      BY <1>2, <3>1, <3>2
    <3>4. \A a, b, c, d, r \in Nat :
             /\ c + 2 <= d /\ d - c <= b - a /\ b - (a + 2) < r
             => d - (c + 2) >= -r /\ d - (c + 2) < r
      OBVIOUS
    <3> QED
      BY <1>2, <1>4, <3>2, <3>3, <3>4, AssemblerAssumption
  <2>2. CASE t < j
    <3>1. B[t] <= B[j] /\ B[j] - B[t] <= A[j] - A[t]
      BY <1>1, <1>3, <2>2
    <3>2. \A a, b, c, d, r \in Nat :
             /\ d <= c /\ c - d <= a - b /\ b - (a + 2) >= -r
             => d - (c + 2) >= -r /\ d - (c + 2) < r
      OBVIOUS
    <3> QED
      BY <1>2, <1>4, <3>1, <3>2, AssemblerAssumption
  <2> QED
    BY <1>1, <2>1, <2>2
<1> QED
  BY <1>5, RangeMeans DEF B, t

-----------------------------------------------------------------------------
(* The steps.                                                              *)

\* ShortBranchesInRange for sizes that are not those of the state.
AllInRange(at, sizes) == \A j \in BranchLines : sizes[j] = 2 => InRange(at, Symbols(at), j)

LEMMA SameCode ==
  ASSUME code' = code
  PROVE  /\ BranchLines' = BranchLines /\ (Closed' <=> Closed) /\ (Few' <=> Few)
         /\ ShortBranchesInRange(pc)' <=> AllInRange(pc', size')
         /\ ShortBranchesInRange(Layout(size))' <=> AllInRange(Layout(size'), size')
         /\ \A at : ShortBranchesInRange(at) <=> AllInRange(at, size)
<1>1. BranchLines' = BranchLines /\ (Closed' <=> Closed) /\ (Few' <=> Few)
  BY DEF BranchLines, Closed, Few
<1>2. ShortBranchesInRange(pc)' <=> AllInRange(pc', size')
  BY DEF ShortBranchesInRange, AllInRange, BranchLines, InRange, Offset, Symbols, SelectInSeq
<1>3. ShortBranchesInRange(Layout(size))' <=> AllInRange(Layout(size'), size')
  BY DEF ShortBranchesInRange, AllInRange, BranchLines, InRange, Offset, Symbols, SelectInSeq
<1>4. \A at : ShortBranchesInRange(at) <=> AllInRange(at, size)
  BY DEF ShortBranchesInRange, AllInRange, BranchLines
<1> QED
  BY <1>1, <1>2, <1>3, <1>4

LEMMA LinesCounted ==
  ASSUME Closed
  PROVE  /\ Len(code) \in Nat /\ DOMAIN code = 1 .. Len(code)
         /\ IsFiniteSet(BranchLines) /\ Cardinality(BranchLines) \in Nat
         /\ \A S \in SUBSET BranchLines :
              IsFiniteSet(S) /\ Cardinality(S) \in Nat /\ Cardinality(S) <= Cardinality(BranchLines)
<1>1. Len(code) \in Nat /\ DOMAIN code = 1 .. Len(code)
  BY DEF Closed
<1>2. IsFiniteSet(1 .. Len(code))
  BY <1>1, FS_Interval
<1>3. IsFiniteSet(BranchLines)
  <2>1. BranchLines \subseteq 1 .. Len(code)
    BY <1>1 DEF BranchLines
  <2> QED
    BY <1>2, <2>1, FS_Subset
<1>4. Cardinality(BranchLines) \in Nat
  BY <1>3, FS_CardinalityType
<1>5. \A S \in SUBSET BranchLines :
        IsFiniteSet(S) /\ Cardinality(S) \in Nat /\ Cardinality(S) <= Cardinality(BranchLines)
  <2> SUFFICES ASSUME NEW S \in SUBSET BranchLines
               PROVE  IsFiniteSet(S) /\ Cardinality(S) \in Nat
                      /\ Cardinality(S) <= Cardinality(BranchLines)
    OBVIOUS
  <2>1. IsFiniteSet(S) /\ Cardinality(S) <= Cardinality(BranchLines)
    BY <1>3, FS_Subset
  <2> QED
    BY <2>1, FS_CardinalityType
<1> QED
  BY <1>1, <1>3, <1>4, <1>5

LEMMA InitRelaxed == Init => RInv
BY DEF Init, RInv, Relaxing

\* The peephole optimizer is done before the assembler begins.
LEMMA PeepholeKeeps ==
  ASSUME RInv, Rewrite \/ DropLabels \/ Thread \/ DropDead \/ NextRound
  PROVE  RInv'
<1>1. ~Relaxing /\ ~Relaxing' /\ passes' = passes
  <2>1. CASE Rewrite
    BY <2>1 DEF Rewrite, PeepholePass, Relaxing
  <2>2. CASE DropLabels
    BY <2>2 DEF DropLabels, PeepholePass, Relaxing
  <2>3. CASE Thread
    BY <2>3 DEF Thread, PeepholePass, Relaxing
  <2>4. CASE DropDead
    BY <2>4 DEF DropDead, PeepholePass, Relaxing
  <2>5. CASE NextRound
    BY <2>5 DEF NextRound, Relaxing
  <2> QED
    BY <2>1, <2>2, <2>3, <2>4, <2>5
<1> QED
  BY <1>1 DEF RInv

\* At first all branches are long.
LEMMA AssembleKeeps == ASSUME RInv, Assemble PROVE RInv'
<1>1. /\ stage = "round" /\ stage' = "relax" /\ code' = code /\ passes' = passes
      /\ size' = [j \in DOMAIN code |-> InitialSize(code[j])]
      /\ pc' = Layout(size')
  BY DEF Assemble
<1>2. passes' = 0 /\ Relaxing'
  BY <1>1 DEF RInv, Relaxing
<1> SUFFICES ASSUME Closed
             PROVE  /\ Sized' /\ AllInRange(pc', size') /\ AllInRange(Layout(size'), size')
                    /\ passes' <= Cardinality(Short')
  BY <1>1, <1>2, SameCode DEF RInv, Relaxed
<1>3. \A j \in BranchLines : size'[j] > 2 /\ size'[j] \in Nat
  BY <1>1, InitialSizes DEF BranchLines
<1>4. Sized'
  <2>1. size' \in [DOMAIN code -> Nat]
    BY <1>1, InitialSizes
  <2> QED
    BY <1>1, <1>3, <2>1, SameCode DEF Sized
<1>5. \A at : AllInRange(at, size')
  BY <1>3 DEF AllInRange
<1>6. passes' <= Cardinality(Short')
  <2>1. Short' \subseteq BranchLines
    BY <1>1, SameCode DEF Short
  <2>2. Cardinality(Short') \in Nat
    BY <2>1, LinesCounted
  <2> QED
    BY <1>2, <2>2
<1> QED
  BY <1>4, <1>5, <1>6

\* The branches that a pass shortens.
Shrunk ==
  {j \in DOMAIN code :
     code[j].op \in Branches /\ size[j] > 2 /\ Reaches(Layout(size), Symbols(Layout(size)), j)}

\* What a pass does.
LEMMA RelaxFacts ==
  ASSUME Relax
  PROVE  /\ stage = "relax" /\ passes < RelaxPasses /\ code' = code /\ pc' = Layout(size)
         /\ size' = [j \in DOMAIN code |-> IF j \in Shrunk THEN 2 ELSE size[j]]
         /\ passes' = passes + 1
         /\ stage' = IF Shrunk = {} THEN "encode" ELSE "relax"
BY Zenon DEF Relax, Shrunk

\* A pass makes short what is in reach, and what was short stays in reach, both
\* from where the lines were and from where they are now.
LEMMA RelaxKeeps == ASSUME RInv, Relax PROVE RInv'
<1>1. /\ stage = "relax" /\ passes < RelaxPasses /\ code' = code /\ pc' = Layout(size)
      /\ size' = [j \in DOMAIN code |-> IF j \in Shrunk THEN 2 ELSE size[j]]
      /\ passes' = passes + 1
      /\ stage' = IF Shrunk = {} THEN "encode" ELSE "relax"
  BY RelaxFacts
<1>2. Relaxing /\ Relaxing' /\ stage' # "out of range" /\ stage' # "encoded"
  BY <1>1 DEF Relaxing
<1> SUFFICES ASSUME Closed
             PROVE  /\ Sized' /\ AllInRange(pc', size') /\ AllInRange(Layout(size'), size')
                    /\ stage' = "relax" => passes' <= Cardinality(Short')
                    /\ stage' = "encode" => pc' = Layout(size')
  <2>1. passes' \in Nat
    BY <1>1 DEF RInv
  <2>2. ShortBranchesInRange(pc)' /\ ShortBranchesInRange(Layout(size))'
        <=> AllInRange(pc', size') /\ AllInRange(Layout(size'), size')
    BY <1>1, SameCode
  <2> QED
    BY <1>1, <1>2, <2>1, <2>2, SameCode DEF RInv, Relaxed
<1>3. /\ Sized /\ passes \in Nat /\ passes <= Cardinality(Short)
      /\ AllInRange(Layout(size), size)
  BY <1>1, <1>2, SameCode DEF RInv, Relaxed
<1> DEFINE n == Len(code)
<1>4. n \in Nat /\ DOMAIN code = 1 .. n
  BY LinesCounted
<1>5. Shrunk \subseteq BranchLines
  BY DEF Shrunk, BranchLines
<1> HIDE DEF n
<1>6. size \in [1 .. n -> Nat] /\ \A j \in BranchLines : size[j] >= 2
  BY <1>3, <1>4 DEF Sized
<1>7. BranchLines \subseteq 1 .. n
  BY <1>4 DEF BranchLines
<1>8. /\ size' \in [1 .. n -> Nat]
      /\ \A j \in 1 .. n : size'[j] = IF j \in Shrunk THEN 2 ELSE size[j]
  BY <1>1, <1>4, <1>6
<1>9. \A j \in 1 .. n : size'[j] <= size[j]
  <2> SUFFICES ASSUME NEW j \in 1 .. n PROVE size'[j] <= size[j]
    OBVIOUS
  <2>1. size[j] \in Nat
    BY <1>6
  <2>2. CASE j \in Shrunk
    BY <1>5, <1>6, <1>8, <2>2
  <2>3. CASE j \notin Shrunk
    BY <1>8, <2>1, <2>3
  <2> QED
    BY <2>2, <2>3
<1>10. Sized'
  <2>1. \A j \in BranchLines : size'[j] >= 2
    BY <1>6, <1>7, <1>8
  <2> QED
    BY <1>1, <1>4, <1>8, <2>1, SameCode DEF Sized
<1>11. AllInRange(Layout(size), size')
  <2> SUFFICES ASSUME NEW j \in BranchLines, size'[j] = 2
               PROVE  InRange(Layout(size), Symbols(Layout(size)), j)
    BY DEF AllInRange
  <2>1. CASE j \in Shrunk
    <3>1. Reaches(Layout(size), Symbols(Layout(size)), j)
      BY <2>1 DEF Shrunk
    <3> QED
      BY <3>1, RangeMeans
  <2>2. CASE j \notin Shrunk
    <3>1. size[j] = 2
      BY <1>7, <1>8, <2>2
    <3> QED
      BY <1>3, <3>1 DEF AllInRange
  <2> QED
    BY <2>1, <2>2
<1>12. AllInRange(Layout(size'), size')
  <2> SUFFICES ASSUME NEW j \in BranchLines, size'[j] = 2
               PROVE  InRange(Layout(size'), Symbols(Layout(size')), j)
    BY DEF AllInRange
  <2>1. InRange(Layout(size), Symbols(Layout(size)), j)
    BY <1>11 DEF AllInRange
  <2> QED
    BY <1>4, <1>6, <1>8, <1>9, <2>1, StaysInRange
<1>13. stage' = "relax" => passes' <= Cardinality(Short')
  <2> SUFFICES ASSUME Shrunk # {} PROVE passes' <= Cardinality(Short')
    BY <1>1
  <2>1. PICK j \in Shrunk : TRUE
    OBVIOUS
  <2>2. Short' = {i \in BranchLines : size'[i] = 2}
    BY <1>1, SameCode DEF Short
  <2>3. Short \subseteq BranchLines /\ Short' \subseteq BranchLines
    BY <2>2 DEF Short
  <2>4. Short \cup {j} \subseteq Short'
    BY <1>5, <1>7, <1>8, <2>2 DEF Short
  <2>5. j \notin Short
    BY <2>1, <1>6, <1>7 DEF Shrunk, Short
  <2>6. /\ IsFiniteSet(Short) /\ Cardinality(Short) \in Nat
        /\ IsFiniteSet(Short') /\ Cardinality(Short') \in Nat
    BY <2>3, LinesCounted
  <2>7. Cardinality(Short \cup {j}) = Cardinality(Short) + 1
    BY <2>5, <2>6, FS_AddElement
  <2>8. Cardinality(Short \cup {j}) <= Cardinality(Short')
    BY <2>4, <2>6, FS_Subset
  <2> QED
    BY <1>1, <1>3, <2>6, <2>7, <2>8
<1>14. stage' = "encode" => pc' = Layout(size')
  <2> SUFFICES ASSUME Shrunk = {} PROVE pc' = Layout(size')
    BY <1>1
  <2>1. size' = size
    BY <1>1, <1>4, <1>6
  <2> QED
    BY <1>1, <2>1
<1> QED
  BY <1>1, <1>10, <1>11, <1>12, <1>13, <1>14

\* The addresses are final unless the passes ran out, and for that as many branches
\* would have to be short.
LEMMA EncodeKeeps == ASSUME RInv, Encode PROVE RInv'
<1>1. /\ stage = "encode" \/ (stage = "relax" /\ passes = RelaxPasses)
      /\ stage' = IF ShortBranchesInRange(pc) THEN "encoded" ELSE "out of range"
      /\ code' = code /\ size' = size /\ pc' = pc /\ passes' = passes
  BY DEF Encode
<1>2. Relaxing /\ Relaxing' /\ stage' # "relax" /\ stage' # "encode"
  BY <1>1 DEF Relaxing
<1> SUFFICES ASSUME Closed
             PROVE  /\ Sized' /\ AllInRange(pc', size') /\ AllInRange(Layout(size'), size')
                    /\ Few => pc' = Layout(size')
                    /\ stage' # "out of range"
  <2>1. passes' \in Nat
    BY <1>1 DEF RInv
  <2>2. ShortBranchesInRange(pc)' /\ ShortBranchesInRange(Layout(size))'
        <=> AllInRange(pc', size') /\ AllInRange(Layout(size'), size')
    BY <1>1, SameCode
  <2> QED
    BY <1>1, <1>2, <2>1, <2>2, SameCode DEF RInv, Relaxed
<1>3. /\ Sized /\ ShortBranchesInRange(pc) /\ ShortBranchesInRange(Layout(size))
      /\ stage = "relax" => passes <= Cardinality(Short)
      /\ stage = "encode" => pc = Layout(size)
  BY <1>2 DEF RInv, Relaxed
<1>4. Sized'
  BY <1>1, <1>3, SameCode DEF Sized
<1>5. AllInRange(pc', size') /\ AllInRange(Layout(size'), size')
  BY <1>1, <1>3, SameCode
<1>6. Few => pc' = Layout(size')
  <2> SUFFICES ASSUME Few, stage = "relax" PROVE FALSE
    BY <1>1, <1>3
  <2>1. Short \subseteq BranchLines
    BY DEF Short
  <2>2. /\ Cardinality(Short) \in Nat /\ Cardinality(BranchLines) \in Nat
        /\ Cardinality(Short) <= Cardinality(BranchLines)
    BY <2>1, LinesCounted
  <2>3. RelaxPasses <= Cardinality(Short)
    BY <1>1, <1>3
  <2> QED
    BY <2>2, <2>3, AssemblerAssumption DEF Few
<1> QED
  BY <1>1, <1>3, <1>4, <1>5, <1>6

LEMMA StepRelaxed == ASSUME RInv, [Next]_vars PROVE RInv'
<1>1. CASE Rewrite \/ DropLabels \/ Thread \/ DropDead \/ NextRound
  BY <1>1, PeepholeKeeps
<1>2. CASE Assemble
  BY <1>2, AssembleKeeps
<1>3. CASE Relax
  BY <1>3, RelaxKeeps
<1>4. CASE Encode
  BY <1>4, EncodeKeeps
<1>5. CASE UNCHANGED vars
  <2>1. /\ code' = code /\ stage' = stage /\ passes' = passes /\ size' = size /\ pc' = pc
    BY <1>5 DEF vars
  <2>2. (Relaxing' <=> Relaxing) /\ (Sized' <=> Sized) /\ Short' = Short
    BY <2>1, SameCode DEF Relaxing, Sized, Short
  <2>3. /\ ShortBranchesInRange(pc)' <=> ShortBranchesInRange(pc)
        /\ ShortBranchesInRange(Layout(size))' <=> ShortBranchesInRange(Layout(size))
    BY <2>1, SameCode
  <2>4. Relaxed' <=> Relaxed
    <3>1. Layout(size)' = Layout(size)
      BY <2>1
    <3>2. Few' <=> Few
      BY <2>1, SameCode
    <3> QED
      BY <2>1, <2>2, <2>3, <3>1, <3>2 DEF Relaxed
  <2>5. Closed' <=> Closed
    BY <2>1, SameCode
  <2> QED
    BY <2>1, <2>2, <2>4, <2>5 DEF RInv
<1> QED
  BY <1>1, <1>2, <1>3, <1>4, <1>5 DEF Next

\* RInv holds of every function's code and every number of passes.
THEOREM RelaxationInvariance == Spec => []RInv
<1>1. Init => RInv
  BY InitRelaxed
<1>2. RInv /\ [Next]_vars => RInv'
  BY StepRelaxed
<1> QED
  BY <1>1, <1>2, PTL DEF Spec

-----------------------------------------------------------------------------
(* The theorems.                                                           *)

\* LinesOK says that each label a branch goes to stands in the code.
LEMMA LinesAreClosed == ASSUME LinesOK PROVE Closed
<1>1. code \in Seq(Lines)
  BY DEF LinesOK
<1>2. ASSUME NEW j \in BranchLines
      PROVE  \E k \in DOMAIN code : code[k] = Label(code[j].to)
  <2> DEFINE K == {k \in DOMAIN code : code[k] = Label(code[j].to)}
  <2>1. code[j] \in {i \in ToSet(code) : i.op \in Branches}
    BY DEF ToSet, BranchLines
  <2>2. Cardinality(K) = 1
    BY <2>1 DEF LinesOK, TargetsOf
  <2>3. K # {}
    BY <2>2, FS_EmptySet
  <2> QED
    BY <2>3
<1> QED
  BY <1>1, <1>2 DEF Closed

\* BranchesReach, for every function: code that has fewer branches than relaxation
\* has passes is written with lines where their addresses say, and every short
\* branch reaches.
THEOREM ShortBranchesReach == Spec => [](Few => BranchesReach)
<1>1. RInv /\ LinesOK => (Few => BranchesReach)
  BY LinesAreClosed DEF RInv, Relaxed, Relaxing, BranchesReach
<1> QED
  BY <1>1, RelaxationInvariance, LabelsStandOnce, PTL

\* The encoder never reports a branch out of range, whatever the number of passes:
\* also when they ran out and the lines moved on, it looks at the addresses with
\* which the last pass chose the branches (cmd/asm6809/main.go:1423).
THEOREM NothingOutOfRange == Spec => [](stage # "out of range")
<1>1. RInv /\ LinesOK => stage # "out of range"
  BY LinesAreClosed DEF RInv, Relaxed, Relaxing
<1> QED
  BY <1>1, RelaxationInvariance, LabelsStandOnce, PTL
=============================================================================
