---------------------- MODULE ClobberConvention_proofs ----------------------
(***************************************************************************)
(* For every set of functions, every set of programs and every depth: the  *)
(* summaries are exact when code is generated, and no caller loses a value *)
(* it left in Y unless a function called through a pointer fails to give Y *)
(* back.                                                                   *)
(***************************************************************************)
EXTENDS ClobberConvention, TLAPS, SequenceTheorems

Frame == [fn : Func, entry : Nat \cup {Junk}, live : BOOLEAN]

\* An activation of f returns with Y as it was on entry.
GivesBack(f) == SavesY(f) \/ "y" \notin total[f]

\* f itself never writes Y, and runs nothing that loses it.
LeavesY(f) == f \notin prog.keeps /\ "y" \notin total[f]

\* Between a suspended activation and the one it called.
Suspended(k) ==
  /\ GivesBack(stack[k + 1].fn) \/ "y" \in total[stack[k].fn]
  /\ stack[k].live =>
       /\ stack[k].fn \in prog.keeps
       /\ stack[k + 1].entry = k /\ GivesBack(stack[k + 1].fn)
  /\ LeavesY(stack[k].fn) => stack[k + 1].entry = stack[k].entry

Summarised ==
  \A f \in Func :
    /\ Base(prog, f) \subseteq total[f]
    /\ total[f] \subseteq UNION {Base(prog, g) : g \in Reached(prog, f)}

FixedPoint ==
  phase = "run" => \A f \in Func : \A g \in prog.callees[f] : total[g] \subseteq total[f]

Activations ==
  /\ \A k \in 1 .. Len(stack) - 1 : Suspended(k)
  /\ stack # <<>> =>
       /\ LeavesY(Top.fn) => y = Top.entry
       /\ Top.live => y = Len(stack) /\ Top.fn \in prog.keeps

\* What holds at every step.
IInv ==
  /\ TypeOK
  /\ phase = "analyze" => stack = <<>>
  /\ Summarised
  /\ FixedPoint
  /\ PointersKeepY => Activations

-----------------------------------------------------------------------------
\* What a callee reaches its caller reaches (the call graph that
\* AnalyzeProgramClobbers propagates along).
LEMMA ReachedThroughCallee ==
  ASSUME NEW p \in Program, NEW f \in Func, NEW g \in p.callees[f]
  PROVE  f \in Reached(p, f) /\ Reached(p, g) \subseteq Reached(p, f)
BY DEF Reached, Program

\* Propagation keeps every summary between a function's own clobbers and those
\* of all it reaches.
LEMMA PropagateSummarised ==
  ASSUME TypeOK, Summarised, NEW f \in Func, NEW g \in Func, Propagate(f, g)
  PROVE  Summarised'
<1> prog \in Program
  BY ProgramsAssumption DEF TypeOK
<1>1. ASSUME NEW h \in Func
      PROVE  Base(prog, h) \subseteq total'[h]
  BY DEF Summarised, Propagate, TypeOK
<1>2. ASSUME NEW h \in Func
      PROVE  total'[h] \subseteq UNION {Base(prog, k) : k \in Reached(prog, h)}
  <2>1. CASE h = f
    <3>1. Reached(prog, g) \subseteq Reached(prog, f)
      BY ReachedThroughCallee DEF Propagate
    <3>2. total[g] \subseteq UNION {Base(prog, k) : k \in Reached(prog, f)}
      BY <3>1 DEF Summarised
    <3>3. total'[f] = total[f] \cup total[g]
      BY DEF Propagate, TypeOK
    <3> QED BY <2>1, <3>2, <3>3 DEF Summarised
  <2>2. CASE h # f
    BY <2>2 DEF Summarised, Propagate, TypeOK
  <2> QED BY <2>1, <2>2
<1>3. prog' = prog
  BY DEF Propagate
<1> QED BY <1>1, <1>2, <1>3 DEF Summarised, Base, Reached

\* At the fixed point a summary takes in everything that is reached.
LEMMA FixedPointReaches ==
  ASSUME TypeOK, Summarised, FixedPoint, phase = "run"
  PROVE  SummaryExact
<1> prog \in Program
  BY ProgramsAssumption DEF TypeOK
<1> SUFFICES ASSUME NEW f \in Func
             PROVE  \A g \in Reached(prog, f) : Base(prog, g) \subseteq total[f]
  BY DEF SummaryExact, Summarised
<1> DEFINE S == {g \in Func : total[g] \subseteq total[f]}
<1>1. f \in S /\ \A h \in S : prog.callees[h] \subseteq S
  BY DEF FixedPoint, Program
<1>2. Reached(prog, f) \subseteq S
  BY <1>1 DEF Reached
<1> QED BY <1>2 DEF Summarised, S

-----------------------------------------------------------------------------
\* A function that copies has Y in its summary, one that neither copies nor
\* allocates Y does not write it.
LEMMA CopiersSummarised ==
  ASSUME TypeOK, Summarised, NEW f \in prog.copies
  PROVE  f \in Func /\ "y" \in total[f] /\ f \notin prog.keeps
BY ProgramsAssumption, PoolAssumption DEF TypeOK, Summarised, Base, Program

\* A call marks the caller's activation and puts one more on the stack.
LEMMA EnterStack ==
  ASSUME TypeOK, Running, NEW g \in Func, NEW live \in BOOLEAN, Enter(g, live)
  PROVE  /\ stack' \in Seq(Frame)
         /\ Len(stack') = Len(stack) + 1 /\ Len(stack) \in Nat \ {0}
         /\ \A k \in 1 .. Len(stack) - 1 : stack'[k] = stack[k]
         /\ stack'[Len(stack)].fn = Top.fn
         /\ stack'[Len(stack)].entry = Top.entry
         /\ stack'[Len(stack)].live = live
         /\ stack'[Len(stack) + 1] = [fn |-> g, entry |-> y', live |-> FALSE]
         /\ y' \in Nat \cup {Junk}
<1> DEFINE n == Len(stack)
           called == [stack EXCEPT ![n].live = live]
           new == [fn |-> g, entry |-> y', live |-> FALSE]
<1>1. stack \in Seq(Frame) /\ n \in Nat \ {0}
  BY EmptySeq DEF TypeOK, Frame, Running
<1>2. stack[n] \in Frame
  BY <1>1, ElementOfSeq
<1>3. [stack[n] EXCEPT !.live = live] \in Frame
  BY <1>2 DEF Frame
<1>4. /\ called \in Seq(Frame) /\ Len(called) = n
      /\ \A k \in 1 .. n : called[k] = IF k = n THEN [stack[n] EXCEPT !.live = live]
                                            ELSE stack[k]
  BY <1>1, <1>3, ExceptSeq
<1>5. y' \in Nat \cup {Junk} /\ new \in Frame
  BY <1>1 DEF Enter, TypeOK, Frame
<1>6. stack' = Append(called, new)
  BY DEF Enter
<1> HIDE DEF called, new
<1>7. /\ stack' \in Seq(Frame) /\ Len(stack') = n + 1
      /\ \A k \in 1 .. n : stack'[k] = called[k]
      /\ stack'[n + 1] = new
  BY <1>4, <1>5, <1>6, AppendProperties
<1>8. /\ stack'[n].fn = Top.fn /\ stack'[n].entry = Top.entry /\ stack'[n].live = live
  BY <1>1, <1>2, <1>4, <1>7 DEF Top, Frame
<1> QED BY <1>1, <1>4, <1>5, <1>7, <1>8 DEF new

\* A return takes the last activation off.
LEMMA ReturnStack ==
  ASSUME TypeOK, Return
  PROVE  /\ stack' \in Seq(Frame) /\ stack' # <<>>
         /\ Len(stack) \in Nat /\ Len(stack') = Len(stack) - 1 /\ Len(stack') >= 1
         /\ \A k \in 1 .. Len(stack') : stack'[k] = stack[k]
<1>1. stack \in Seq(Frame) /\ Len(stack) \in Nat /\ Len(stack) > 1
  BY LenProperties DEF TypeOK, Frame, Return
<1>2. \A k \in 1 .. Len(stack) - 1 : stack[k] \in Frame
  BY <1>1, ElementOfSeq
<1>3. /\ stack' \in Seq(Frame) /\ Len(stack') = Len(stack) - 1
      /\ \A k \in 1 .. Len(stack) - 1 : stack'[k] = stack[k]
  BY <1>1, <1>2, SubSeqProperties DEF Return
<1> QED BY <1>1, <1>3

-----------------------------------------------------------------------------
\* A call leaves every suspended activation with what it counts on: the callee
\* of a direct call has no more in its summary than the caller, and one called
\* through a pointer gives Y back by assumption.
LEMMA EnterPreserves ==
  ASSUME IInv, Running, NEW g \in Func, NEW live \in BOOLEAN, Enter(g, live),
         live => MayKeep(Top.fn, g),
         PointersKeepY => GivesBack(g) \/ "y" \in total[Top.fn]
  PROVE  IInv'
<1> DEFINE n == Len(stack)
<1>1. /\ stack' \in Seq(Frame)
      /\ Len(stack') = n + 1 /\ n \in Nat \ {0}
      /\ \A k \in 1 .. n - 1 : stack'[k] = stack[k]
      /\ stack'[n].fn = Top.fn
      /\ stack'[n].entry = Top.entry
      /\ stack'[n].live = live
      /\ stack'[n + 1] = [fn |-> g, entry |-> y', live |-> FALSE]
      /\ y' \in Nat \cup {Junk}
  BY EnterStack DEF IInv
<1>2. UNCHANGED <<prog, total, phase>> /\ phase = "run"
  BY DEF Enter, Running
<1>3. TypeOK'
  BY <1>1, <1>2 DEF IInv, TypeOK, Frame
<1>4. Summarised' /\ FixedPoint' /\ PointersKeepY' = PointersKeepY
  BY <1>2 DEF IInv, Summarised, FixedPoint, PointersKeepY, SavesY, CallerAvoidsY, Base, Reached
<1>5. ASSUME PointersKeepY
      PROVE  Activations'
  <2>1. Activations
    BY <1>5 DEF IInv
  <2>2. ASSUME NEW k \in 1 .. n - 1
        PROVE  Suspended(k)'
    <3>1. /\ stack'[k] = stack[k]
          /\ stack'[k + 1].fn = stack[k + 1].fn
          /\ stack'[k + 1].entry = stack[k + 1].entry
      BY <1>1 DEF Top
    <3>2. Suspended(k)
      BY <2>1 DEF Activations
    <3> QED BY <3>1, <3>2, <1>2 DEF Suspended, GivesBack, LeavesY, SavesY, CallerAvoidsY
  <2>3. ASSUME NEW k \in Nat, k = n
        PROVE  Suspended(k)'
    <3>1. live => y' = n /\ "y" \notin total[g] /\ Top.fn \in prog.keeps
      BY DEF Enter, MayKeep
    <3>2. ~live /\ LeavesY(Top.fn) => y' = Top.entry
      BY <1>1, <2>1 DEF Activations, Enter, Running
    <3>3. stack'[n + 1].fn = g /\ stack'[n + 1].entry = y'
      BY <1>1
    <3>4. GivesBack(g) \/ "y" \in total[Top.fn]
      BY <1>5
    <3>5. GivesBack(g)' <=> GivesBack(g)
      BY <1>2 DEF GivesBack, SavesY, CallerAvoidsY
    <3>6. live => GivesBack(g)
      BY <3>1 DEF GivesBack
    <3>7. LeavesY(Top.fn) => y' = Top.entry
      BY <3>1, <3>2 DEF LeavesY
    <3> QED BY <1>1, <1>2, <2>3, <3>1, <3>3, <3>4, <3>5, <3>6, <3>7
         DEF Suspended, GivesBack, LeavesY, SavesY, CallerAvoidsY
  <2>4. stack'[n + 1].entry = y' /\ stack'[n + 1].live = FALSE
    BY <1>1
  <2>5. ASSUME NEW k \in 1 .. n
        PROVE  Suspended(k)'
    <3>1. CASE k = n
      BY <1>1, <2>3, <3>1
    <3>2. CASE k # n
      BY <1>1, <2>2, <3>2
    <3> QED BY <3>1, <3>2
  <2> QED BY <1>1, <2>4, <2>5 DEF Activations, Top
<1> QED BY <1>2, <1>3, <1>4, <1>5 DEF IInv

\* A return restores Y if the function saved it, and else finds it as it was.
LEMMA ReturnPreserves ==
  ASSUME IInv, Return
  PROVE  IInv'
<1> DEFINE n == Len(stack)
<1>1. /\ stack' \in Seq(Frame) /\ stack' # <<>>
      /\ n \in Nat /\ Len(stack') = n - 1 /\ Len(stack') >= 1
      /\ \A k \in 1 .. n - 1 : stack'[k] = stack[k]
  BY ReturnStack DEF IInv
<1>2. UNCHANGED <<prog, total, phase>> /\ phase = "run" /\ stack # <<>>
  BY DEF Return, Running
<1>3. stack[n] \in Frame
  <2>1. stack \in Seq(Frame) /\ n \in 1 .. Len(stack)
    BY <1>1 DEF IInv, TypeOK, Frame
  <2> QED BY <2>1, ElementOfSeq
<1>4. TypeOK'
  BY <1>1, <1>2, <1>3 DEF IInv, TypeOK, Frame, Return, Top
<1>5. Summarised' /\ FixedPoint' /\ PointersKeepY' = PointersKeepY
  BY <1>2 DEF IInv, Summarised, FixedPoint, PointersKeepY, SavesY, CallerAvoidsY, Base, Reached
<1>6. ASSUME PointersKeepY
      PROVE  Activations'
  <2>1. Activations
    BY <1>6 DEF IInv
  <2>2. ASSUME NEW k \in 1 .. n - 2
        PROVE  Suspended(k)'
    <3>1. stack'[k] = stack[k] /\ stack'[k + 1] = stack[k + 1] /\ Suspended(k)
      BY <1>1, <2>1 DEF Activations
    <3> QED BY <3>1, <1>2 DEF Suspended, GivesBack, LeavesY, SavesY, CallerAvoidsY
  <2>3. GivesBack(Top.fn) => y' = Top.entry
    BY <1>2, <2>1 DEF Activations, GivesBack, LeavesY, Return, SavesY
  <2>4. Suspended(n - 1) /\ Top = stack[n]
    BY <1>1, <2>1 DEF Activations, Top
  <2>5. LeavesY(stack[n - 1].fn) => y' = stack[n - 1].entry
    BY <1>1, <2>3, <2>4 DEF Suspended, LeavesY
  <2>6. stack[n - 1].live => y' = n - 1 /\ stack[n - 1].fn \in prog.keeps
    BY <1>1, <2>3, <2>4 DEF Suspended
  <2>7. stack'[n - 1] = stack[n - 1]
    BY <1>1
  <2>8. \A k \in 1 .. Len(stack') - 1 : Suspended(k)'
    BY <1>1, <2>2
  <2> QED BY <1>1, <1>2, <2>5, <2>6, <2>7, <2>8 DEF Activations, Top, LeavesY
<1> QED BY <1>2, <1>4, <1>5, <1>6 DEF IInv

\* Work inside an activation touches Y only where nobody counts on it.
LEMMA WorkPreserves ==
  ASSUME IInv, Copy \/ Work
  PROVE  IInv'
<1> DEFINE n == Len(stack)
           idle == [stack[n] EXCEPT !.live = FALSE]
<1>1. stack \in Seq(Frame) /\ n \in Nat \ {0} /\ phase = "run" /\ stack # <<>>
  BY EmptySeq DEF IInv, TypeOK, Frame, Copy, Work, Running
<1>2. UNCHANGED <<prog, total, phase>> /\ y' = Junk
  BY DEF Copy, Work
<1>3. stack[n] \in Frame
  BY <1>1, ElementOfSeq
<1>4. Top.fn \in Func /\ ~LeavesY(Top.fn)
  BY <1>1, <1>3, CopiersSummarised DEF IInv, Copy, Work, LeavesY, Top, Frame
<1>5. /\ stack' \in Seq(Frame) /\ Len(stack') = n
      /\ \A k \in 1 .. n : stack'[k].fn = stack[k].fn /\ stack'[k].entry = stack[k].entry
      /\ \A k \in 1 .. n - 1 : stack'[k] = stack[k]
      /\ stack'[n].live => Top.live /\ Copy
  <2>1. CASE Copy
    BY <1>1, <2>1 DEF Copy, Top
  <2>2. CASE Work
    <3>1. idle \in Frame /\ idle.fn = stack[n].fn /\ idle.entry = stack[n].entry
          /\ idle.live = FALSE
      BY <1>3 DEF Frame
    <3>2. stack' = [stack EXCEPT ![n] = idle]
      BY <2>2 DEF Work
    <3> QED BY <1>1, <3>1, <3>2, ExceptSeq
  <2> QED BY <2>1, <2>2
<1>6. TypeOK'
  BY <1>1, <1>2, <1>5 DEF IInv, TypeOK, Frame
<1>7. Summarised' /\ FixedPoint' /\ PointersKeepY' = PointersKeepY
  BY <1>2 DEF IInv, Summarised, FixedPoint, PointersKeepY, SavesY, CallerAvoidsY, Base, Reached
<1>8. ASSUME PointersKeepY
      PROVE  Activations'
  <2>1. Activations
    BY <1>8 DEF IInv
  <2>2. ASSUME NEW k \in 1 .. n - 1
        PROVE  Suspended(k)'
    <3>1. /\ stack'[k] = stack[k] /\ Suspended(k)
          /\ stack'[k + 1].fn = stack[k + 1].fn /\ stack'[k + 1].entry = stack[k + 1].entry
      BY <1>1, <1>5, <2>1 DEF Activations
    <3> QED BY <3>1, <1>2 DEF Suspended, GivesBack, LeavesY, SavesY, CallerAvoidsY
  <2>3. stack'[n].fn = Top.fn /\ ~stack'[n].live
    BY <1>1, <1>5, <2>1, CopiersSummarised DEF Activations, Copy, IInv, Top
  <2>4. \A k \in 1 .. Len(stack') - 1 : Suspended(k)'
    BY <1>5, <2>2
  <2> QED BY <1>1, <1>2, <1>4, <1>5, <2>3, <2>4 DEF Activations, Top, LeavesY
<1> QED BY <1>1, <1>2, <1>6, <1>7, <1>8 DEF IInv

-----------------------------------------------------------------------------
\* The inductive invariant holds at first: nothing runs yet, and a summary is
\* what the function itself clobbers.
LEMMA InitEstablishes ==
  Init => IInv
<1> SUFFICES ASSUME Init PROVE IInv
  OBVIOUS
<1> prog \in Program
  BY ProgramsAssumption DEF Init
<1>1. TypeOK
  BY EmptySeq DEF Init, TypeOK, Base, Mask
<1>2. Summarised
  BY ReachedThroughCallee, ZenonT(30) DEF Init, Summarised, Reached
<1> QED BY <1>1, <1>2 DEF Init, IInv, FixedPoint, Activations, Running

\* The analysis widens a summary by what it was missing.
LEMMA PropagatePreserves ==
  ASSUME IInv, NEW f \in Func, NEW g \in Func, Propagate(f, g)
  PROVE  IInv'
<1>1. Summarised'
  BY PropagateSummarised DEF IInv
<1>2. TypeOK'
  BY DEF IInv, TypeOK, Propagate, Mask
<1>3. phase' = "analyze" /\ stack' = <<>>
  BY DEF Propagate, IInv
<1> QED BY <1>1, <1>2, <1>3, EmptySeq DEF IInv, FixedPoint, Activations

\* The program starts with the fixed point reached and one activation.
LEMMA StartPreserves ==
  ASSUME IInv, Start
  PROVE  IInv'
<1> DEFINE first == [fn |-> Main, entry |-> y, live |-> FALSE]
<1>1. first \in Frame /\ stack' = <<first>> /\ UNCHANGED <<prog, total, y>>
  BY FuncAssumption DEF IInv, TypeOK, Frame, Start, Activation
<1>2. /\ <<first>> \in Seq(Frame) /\ <<first>> # <<>>
      /\ Len(<<first>>) = 1 /\ <<first>>[1] = first
  BY <1>1
<1>3. TypeOK'
  BY <1>1, <1>2 DEF IInv, TypeOK, Frame, Start
<1>4. Summarised' /\ FixedPoint'
  BY <1>1 DEF IInv, Summarised, FixedPoint, Base, Reached, Start
<1>5. Activations'
  BY <1>1, <1>2 DEF Activations, Top
<1> QED BY <1>3, <1>4, <1>5 DEF IInv, Start

\* Every step keeps the inductive invariant.
LEMMA StepPreserves ==
  ASSUME IInv, [Next]_vars
  PROVE  IInv'
<1>1. ASSUME NEW f \in Func, NEW g \in Func, Propagate(f, g) PROVE IInv'
  BY <1>1, PropagatePreserves
<1>2. CASE Start
  BY <1>2, StartPreserves
<1>3. CASE Copy \/ Work
  BY <1>3, WorkPreserves
<1>4. CASE Return
  BY <1>4, ReturnPreserves
<1>5. ASSUME NEW g \in Func, Call(g) PROVE IInv'
  <2>1. PICK live \in IF MayKeep(Top.fn, g) THEN BOOLEAN ELSE {FALSE} : Enter(g, live)
    BY <1>5 DEF Call
  <2>2. live \in BOOLEAN /\ (live => MayKeep(Top.fn, g))
    BY <2>1
  <2>3. Running /\ Top.fn \in Func
    <3>1. Running /\ stack \in Seq(Frame)
      BY <1>5 DEF Call, IInv, TypeOK, Frame
    <3>2. Len(stack) \in 1 .. Len(stack)
      BY <3>1, EmptySeq DEF Running
    <3>3. Top \in Frame
      BY <3>1, <3>2, ElementOfSeq DEF Top
    <3> QED BY <3>1, <3>3 DEF Frame
  <2>4. total[g] \subseteq total[Top.fn]
    BY <1>5, <2>3 DEF IInv, FixedPoint, Call, Running
  <2>5. GivesBack(g) \/ "y" \in total[Top.fn]
    BY <2>4 DEF GivesBack
  <2> QED BY <2>1, <2>2, <2>3, <2>5, EnterPreserves
<1>6. ASSUME NEW g \in Func, IndirectCall(g) PROVE IInv'
  <2>1. PointersKeepY => GivesBack(g)
    BY <1>6 DEF PointersKeepY, GivesBack, IndirectCall
  <2>2. Running /\ Enter(g, FALSE)
    BY <1>6 DEF IndirectCall
  <2> QED BY <2>1, <2>2, EnterPreserves
<1>7. CASE UNCHANGED vars
  BY <1>7 DEF vars, IInv, TypeOK, Summarised, FixedPoint, Activations, Suspended, PointersKeepY,
     GivesBack, LeavesY, SavesY, CallerAvoidsY, Top, Base, Reached
<1> QED BY <1>1, <1>2, <1>3, <1>4, <1>5, <1>6, <1>7 DEF Next

-----------------------------------------------------------------------------
\* The inductive invariant holds throughout.
THEOREM Invariance == Spec => []IInv
<1>1. Init => IInv
  BY InitEstablishes
<1>2. IInv /\ [Next]_vars => IInv'
  BY StepPreserves
<1> QED BY <1>1, <1>2, PTL DEF Spec

\* Types, for every program; some activation runs as long as the program does.
THEOREM TypeCorrect == Spec => []TypeOK
<1>1. IInv => TypeOK
  BY DEF IInv
<1> QED BY <1>1, Invariance, PTL

\* Whatever the order of propagation and however recursive the program, code is
\* generated from summaries that list what a function and all it reaches clobber,
\* and nothing else (AnalyzeProgramClobbers).
THEOREM SummariesAreExact == Spec => []SummaryExact
<1>1. IInv => SummaryExact
  BY FixedPointReaches DEF IInv, SummaryExact
<1> QED BY <1>1, Invariance, PTL

\* Leaving the save of Y to callers that avoid Y loses no value, as long as every
\* function called through a pointer gives Y back (saveY in emitFunc with
\* computeRegisterInterferences).
THEOREM ConventionIsSound == Spec => []CallersKeepY
<1>1. IInv => CallersKeepY
  BY DEF IInv, Activations, CallersKeepY, LiveYIntact, Running
<1> QED BY <1>1, Invariance, PTL
=============================================================================
