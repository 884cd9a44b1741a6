------------------------- MODULE PhiLowering_proofs -------------------------
(***************************************************************************)
(* The scan over a block's edges foresees every save that emission makes,  *)
(* so the frame always has the scratch slot the instructions use; and the  *)
(* instructions of an edge whose locations fit the slot carry out the      *)
(* sequentializer's schedule, so they are the parallel assignment.         *)
(***************************************************************************)
EXTENDS PhiLowering, NumberLemmas, TLAPS, FiniteSetTheorems, SequenceTheorems

\* The machine that runs a schedule on unbroken storage.
M == INSTANCE CopyMachine_proofs

\* What the moves themselves say of a save, before any of them is scheduled: a
\* set of moves each of whose destinations another one reads, with no move onto
\* itself and no two that exchange their locations.
Cyclic(ms, C) ==
  /\ C # {}
  /\ \A i \in C : \E k \in C : ms[k].src = ms[i].dest
  /\ \A i, k \in C : ms[i].src = ms[k].dest => ms[k].src # ms[i].dest

NeedsSave(ms) == \E C \in SUBSET DOMAIN ms : Cyclic(ms, C)

\* As long as nothing is saved, such a set waits; what is saved was one.
SavesNeeded ==
  /\ ~HasSave => \A C \in SUBSET DOMAIN moves : Cyclic(moves, C) => C \subseteq pending
  /\ HasSave => NeedsSave(moves) /\ OnLongCycle(moves)
  /\ pc = "copies" => HasSave

\* The two edges of the block, and which of them is at work.
AtWork ==
  /\ edges \in Seq(MoveLists) /\ Len(edges) = 2
  /\ phase = "done" => pc = "idle"
  /\ pc = "idle" => moves = <<>> /\ pending = {}
  /\ pc # "idle" => e \in DOMAIN edges /\ moves = edges[e] /\ Shape /\ SavesNeeded

\* What the scan has found out about the edges.
Foreseen ==
  /\ phase = "scan" => scratch = 0 /\ \A k \in 1 .. e - 1 : ~NeedsSave(edges[k])
  /\ phase # "scan" /\ scratch = 0 => \A k \in DOMAIN edges : ~NeedsSave(edges[k])

LInv == LTypeOK /\ AtWork /\ Foreseen /\ ScratchOnlyForCycles

\* Every location fits the scratch slot, as registers, words and bytes do.
Narrow == \A l \in Loc : Width[l] <= ScratchSize

\* On such locations emission is the machine at work.
Emitted == phase = "emit" /\ pc # "idle" => M!IInv

NarrowInv == LInv /\ FrameIntact /\ Emitted

-----------------------------------------------------------------------------
(***************************************************************************)
(* The sequentializer that CopyMachine extends is the one extended here,   *)
(* so the lemmas on its shape hold here too.                               *)
(***************************************************************************)

\* The machine's parameters are this module's.
LEMMA MachineAssumptions ==
  M!LocAssumption /\ M!MovesAssumption /\ M!UnsetAssumption
<1>1. M!IsFiniteSet(Loc)
  BY LocAssumption DEF M!IsFiniteSet, IsFiniteSet
<1> QED
  BY <1>1, LocAssumption, MovesAssumption, TornAssumption
     DEF M!LocAssumption, M!MovesAssumption, M!UnsetAssumption

\* The sequentializer that both modules extend is one and the same.
LEMMA SameSequentializer ==
  /\ EmitReady => M!EmitReady
  /\ EmitSwap => M!EmitSwap
  /\ EmitSave => M!EmitSave
  /\ EmitCycleCopy => M!EmitCycleCopy
  /\ EmitRestore => M!EmitRestore
  /\ StartTrace \/ TraceMove \/ Return => M!StartTrace \/ M!TraceMove \/ M!Return
<1> USE DEF Ready, M!Ready, Dest, M!Dest, Src, M!Src, Emit, M!Emit
<1>1. CycleIndices = M!CycleIndices /\ (CycleClosed <=> M!CycleClosed)
  BY DEF CycleIndices, M!CycleIndices, CycleClosed, M!CycleClosed,
     Visited, M!Visited
<1>2. EmitReady => M!EmitReady
  BY DEF EmitReady, M!EmitReady, CopyStep, M!CopyStep
<1>3. EmitSwap => M!EmitSwap
  BY <1>1 DEF EmitSwap, M!EmitSwap, SwapStep, M!SwapStep, Members, M!Members
<1>4. EmitSave => M!EmitSave
  BY <1>1 DEF EmitSave, M!EmitSave, SaveStep, M!SaveStep
<1>5. EmitCycleCopy => M!EmitCycleCopy
  BY DEF EmitCycleCopy, M!EmitCycleCopy, CopyStep, M!CopyStep
<1>6. EmitRestore => M!EmitRestore
  BY DEF EmitRestore, M!EmitRestore, RestoreStep, M!RestoreStep,
     Members, M!Members
<1>7. StartTrace => M!StartTrace
  BY DEF StartTrace, M!StartTrace
<1>8. TraceMove => M!TraceMove
  BY DEF TraceMove, M!TraceMove, Visited, M!Visited, Writers, M!Writers
<1>9. Return => M!Return
  BY DEF Return, M!Return
<1> QED
  BY <1>2, <1>3, <1>4, <1>5, <1>6, <1>7, <1>8, <1>9

LEMMA SameShape ==
  /\ MoveLists = M!MoveLists
  /\ \A i : Dest(i) = M!Dest(i) /\ Src(i) = M!Src(i)
  /\ Real = M!Real
  /\ NoneReady <=> M!NoneReady
  /\ \A s : Chain(s) <=> M!Chain(s)
  /\ Shape <=> M!Shape
<1>1. MoveLists = M!MoveLists
  BY DEF MoveLists, M!MoveLists, Move, M!Move
<1>2. \A i : Dest(i) = M!Dest(i) /\ Src(i) = M!Src(i)
  BY DEF Dest, M!Dest, Src, M!Src
<1>3. Real = M!Real
  BY DEF Real, M!Real, Identities, M!Identities, Dest, M!Dest, Src, M!Src
<1>4. NoneReady <=> M!NoneReady
  BY DEF NoneReady, M!NoneReady, Ready, M!Ready, Dest, M!Dest, Src, M!Src
<1>5. \A s : Chain(s) <=> M!Chain(s)
  BY DEF Chain, M!Chain, Dest, M!Dest, Src, M!Src
<1>6. Tracing <=> M!Tracing
  BY <1>2, <1>4, <1>5 DEF Tracing, M!Tracing
<1>7. Breaking <=> M!Breaking
  BY <1>2, <1>4, <1>5 DEF Breaking, M!Breaking
<1>8. Shape <=> M!Shape
  BY <1>1, <1>3, <1>6, <1>7 DEF Shape, M!Shape, Step, M!Step
<1> QED
  BY <1>1, <1>2, <1>3, <1>4, <1>5, <1>8

LEMMA MovesFacts ==
  ASSUME moves \in MoveLists
  PROVE  /\ IsFiniteSet(DOMAIN moves)
         /\ DOMAIN moves \subseteq Nat \ {0}
         /\ \A i \in DOMAIN moves :
              /\ Dest(i) \in Loc
              /\ Src(i) \in Loc \cup Const
         /\ \A i, k \in DOMAIN moves : Dest(i) = Dest(k) => i = k
<1>1. M!IsFiniteSet(DOMAIN moves) <=> IsFiniteSet(DOMAIN moves)
  BY DEF M!IsFiniteSet, IsFiniteSet
<1> QED
  BY <1>1, MachineAssumptions, SameShape, M!MovesFacts
     DEF M!LocAssumption, M!MovesAssumption, M!UnsetAssumption

LEMMA NoneReadyIsPermutation ==
  ASSUME moves \in MoveLists, pending \subseteq Real, NoneReady
  PROVE  /\ \A i \in pending : \E k \in pending : Dest(k) = Src(i)
         /\ \A i, k \in pending : Src(i) = Src(k) => i = k
BY MachineAssumptions, SameShape, M!NoneReadyIsPermutation
   DEF M!LocAssumption, M!MovesAssumption, M!UnsetAssumption

LEMMA ClosedTrace ==
  ASSUME Shape, CycleClosed
  PROVE  /\ CycleIndices = visited
         /\ curr = visited[1]
         /\ Len(visited) >= 2
         /\ Src(visited[Len(visited)]) = Dest(visited[1])
         /\ NoneReady /\ Chain(visited)
<1>1. CycleIndices = M!CycleIndices /\ (CycleClosed <=> M!CycleClosed)
  BY DEF CycleIndices, M!CycleIndices, CycleClosed, M!CycleClosed,
     Visited, M!Visited
<1> QED
  BY <1>1, MachineAssumptions, SameShape, M!ClosedTrace
     DEF M!LocAssumption, M!MovesAssumption, M!UnsetAssumption

LEMMA StepKeepsShape ==
  ASSUME Shape, Next
  PROVE  Shape'
<1>1. M!Next
  BY SameSequentializer DEF Next, M!Next
<1>2. M!Shape'
  BY <1>1, MachineAssumptions, SameShape, M!StepKeepsShape
     DEF M!LocAssumption, M!MovesAssumption, M!UnsetAssumption
<1>3. (Shape <=> M!Shape)'
  BY SameShape, PTL
<1> QED
  BY <1>2, <1>3

-----------------------------------------------------------------------------
\* Each move of a closed trace reads what the next one writes, the last one what
\* the first one writes.
LEMMA RoundTheTrace ==
  ASSUME Shape, CycleClosed
  PROVE  /\ Len(visited) \in Nat /\ Len(visited) >= 2
         /\ \A p \in 1 .. Len(visited) :
              /\ visited[p] \in pending /\ visited[p] \in DOMAIN moves
              /\ p # Len(visited) => Src(visited[p]) = Dest(visited[p + 1])
         /\ Src(visited[Len(visited)]) = Dest(visited[1])
         /\ \A p, q \in 1 .. Len(visited) :
              Dest(visited[p]) = Dest(visited[q]) => p = q
<1>1. /\ Len(visited) >= 2 /\ Chain(visited)
      /\ Src(visited[Len(visited)]) = Dest(visited[1])
  BY ClosedTrace
<1>2. /\ Len(visited) \in Nat /\ DOMAIN visited = 1 .. Len(visited)
      /\ \A p \in 1 .. Len(visited) : visited[p] \in DOMAIN moves
  BY DEF Shape
<1>3. ASSUME NEW p \in 1 .. Len(visited), p # Len(visited)
      PROVE  Src(visited[p]) = Dest(visited[p + 1])
  <2>1. p + 1 \in 1 .. Len(visited) /\ p + 1 # 1 /\ (p + 1) - 1 = p
    BY <1>3 DEF Shape
  <2> QED
    BY <1>1, <1>2, <2>1 DEF Chain
<1>4. \A i, k \in DOMAIN moves : Dest(i) = Dest(k) => i = k
  BY MovesFacts DEF Shape
<1> QED
  BY <1>1, <1>2, <1>3, <1>4 DEF Chain

\* A closed trace of more than two moves is a set of moves that needs a save.
LEMMA LongTraceIsCyclic ==
  ASSUME Shape, CycleClosed, Len(visited) # 2
  PROVE  Members(visited) \in SUBSET DOMAIN moves /\ Cyclic(moves, Members(visited))
<1> PICK n \in Nat : n = Len(visited)
  BY RoundTheTrace
<1>1. /\ n >= 3 /\ DOMAIN visited = 1 .. n
      /\ Members(visited) = {visited[p] : p \in 1 .. n}
  <2>1. n >= 2 /\ n # 2
    BY RoundTheTrace
  <2>2. DOMAIN visited = 1 .. n
    BY DEF Shape
  <2> QED
    BY <2>1, <2>2 DEF Members
<1>2. \A p \in 1 .. n : p # n => Src(visited[p]) = Dest(visited[p + 1])
  BY RoundTheTrace
<1>3. Src(visited[n]) = Dest(visited[1])
  BY RoundTheTrace
<1>4. \A p, q \in 1 .. n : Dest(visited[p]) = Dest(visited[q]) => p = q
  BY RoundTheTrace
<1>5. \A p \in 1 .. n : visited[p] \in DOMAIN moves
  BY RoundTheTrace
<1>6. ASSUME NEW p \in 1 .. n
      PROVE  \E q \in 1 .. n : Src(visited[q]) = Dest(visited[p])
  <2>1. CASE p = 1
    BY <1>1, <1>3, <2>1
  <2>2. CASE p # 1
    <3>1. p - 1 \in 1 .. n /\ p - 1 # n /\ (p - 1) + 1 = p
      BY <1>1, <2>2
    <3> QED
      BY <1>2, <3>1
  <2> QED
    BY <2>1, <2>2
<1>7. ASSUME NEW p \in 1 .. n, NEW q \in 1 .. n, Src(visited[p]) = Dest(visited[q])
      PROVE  q = IF p = n THEN 1 ELSE p + 1
  <2>1. p # n => p + 1 \in 1 .. n
    BY <1>1
  <2>2. 1 \in 1 .. n
    BY <1>1
  <2> QED
    BY <1>2, <1>3, <1>4, <1>7, <2>1, <2>2
<1>8. ASSUME NEW p \in 1 .. n, NEW q \in 1 .. n,
             Src(visited[p]) = Dest(visited[q]), Src(visited[q]) = Dest(visited[p])
      PROVE  FALSE
  <2>1. q = IF p = n THEN 1 ELSE p + 1
    BY <1>7, <1>8
  <2>2. p = IF q = n THEN 1 ELSE q + 1
    BY <1>7, <1>8
  <2> QED
    BY <1>1, <2>1, <2>2
<1>9. Members(visited) # {}
  BY <1>1
<1>10. \A i \in Members(visited) : \E p \in 1 .. n : i = visited[p]
  BY <1>1
<1>11. \A p \in 1 .. n : visited[p] \in Members(visited)
  BY <1>1
<1>12. \A i \in Members(visited) :
          \E k \in Members(visited) : Src(k) = Dest(i)
  BY <1>6, <1>10, <1>11
<1>13. \A i, k \in Members(visited) : Src(i) = Dest(k) => Src(k) # Dest(i)
  BY <1>8, <1>10
<1>14. Members(visited) \subseteq DOMAIN moves
  BY <1>5, <1>10
<1> QED
  BY <1>9, <1>12, <1>13, <1>14 DEF Cyclic, Dest, Src

\* Its destinations form one cycle, of which no smaller set is closed.
LEMMA LongTraceIsLongCycle ==
  ASSUME Shape, CycleClosed, Len(visited) # 2
  PROVE  OnLongCycle(moves)
<1> PICK n \in Nat : n = Len(visited)
  BY RoundTheTrace
<1> DEFINE d  == [p \in 1 .. n |-> Dest(visited[p])]
           ds == {d[p] : p \in 1 .. n}
<1>1. n \in Nat /\ n >= 3
  <2>1. n >= 2 /\ n # 2
    BY RoundTheTrace
  <2> QED
    BY <2>1
<1>2. ASSUME NEW p \in 1 .. n
      PROVE  /\ visited[p] \in DOMAIN moves
             /\ moves[visited[p]].dest = d[p]
             /\ moves[visited[p]].src = IF p = n THEN d[1] ELSE d[p + 1]
  <2>1. visited[p] \in DOMAIN moves /\ moves[visited[p]].dest = d[p]
    BY RoundTheTrace DEF Dest
  <2>2. p # n => p + 1 \in 1 .. n
    BY <1>1
  <2>3. 1 \in 1 .. n
    BY <1>1
  <2>4. p # n => moves[visited[p]].src = Dest(visited[p + 1])
    BY RoundTheTrace DEF Src
  <2>5. p = n => moves[visited[p]].src = Dest(visited[1])
    BY RoundTheTrace DEF Src
  <2> QED
    BY <2>1, <2>2, <2>3, <2>4, <2>5
<1>3. \A p, q \in 1 .. n : d[p] = d[q] => p = q
  BY RoundTheTrace
<1>4. \A i, k \in DOMAIN moves : moves[i].dest = moves[k].dest => i = k
  BY MovesFacts DEF Shape, Dest
<1>5. Cardinality(ds) = n
  <2>1. d \in Bijection(1 .. n, ds)
    BY <1>3 DEF Bijection, Injection, Surjection, IsInjective
  <2> HIDE DEF d, ds
  <2> QED
    BY <1>1, <2>1, FS_CountingElements DEF ExistsBijection
<1> HIDE DEF d
<1>6. ds \in SUBSET {moves[i].dest : i \in DOMAIN moves}
  BY <1>2
<1>7. \A i \in DOMAIN moves : moves[i].dest \in ds => \E p \in 1 .. n : i = visited[p]
  BY <1>2, <1>4
<1>8. \A p \in 1 .. n : /\ p # n => p + 1 \in 1 .. n
                        /\ p # 1 => p - 1 \in 1 .. n /\ p - 1 # n /\ (p - 1) + 1 = p
                        /\ 1 \in 1 .. n /\ n \in 1 .. n
  BY <1>1
<1>9. Sources(moves, ds) = ds
  <2>1. ASSUME NEW i \in DOMAIN moves, moves[i].dest \in ds
        PROVE  moves[i].src \in ds
    <3>1. PICK p \in 1 .. n : i = visited[p]
      BY <1>7, <2>1
    <3>2. CASE p = n
      BY <1>2, <1>8, <3>1, <3>2
    <3>3. CASE p # n
      <4>1. moves[i].src = d[p + 1] /\ p + 1 \in 1 .. n
        BY <1>2, <1>8, <3>1, <3>3
      <4> QED
        BY <4>1
    <3> QED
      BY <3>2, <3>3
  <2>2. ASSUME NEW p \in 1 .. n
        PROVE  \E i \in DOMAIN moves : moves[i].dest \in ds /\ moves[i].src = d[p]
    <3>1. PICK q \in 1 .. n : d[p] = IF q = n THEN d[1] ELSE d[q + 1]
      <4>1. CASE p = 1
        BY <1>8, <4>1
      <4>2. CASE p # 1
        <5>1. p - 1 \in 1 .. n /\ p - 1 # n /\ (p - 1) + 1 = p
          BY <1>8, <4>2
        <5> QED
          BY <5>1
      <4> QED
        BY <4>1, <4>2
    <3>2. /\ visited[q] \in DOMAIN moves
          /\ moves[visited[q]].dest = d[q] /\ moves[visited[q]].src = d[p]
      BY <1>2, <3>1
    <3>3. moves[visited[q]].dest \in ds
      BY <3>2
    <3> QED
      BY <3>2, <3>3
  <2>3. \A x \in ds : \E p \in 1 .. n : x = d[p]
    OBVIOUS
  <2> HIDE DEF ds
  <2>4. ds \subseteq Sources(moves, ds)
    BY <2>2, <2>3 DEF Sources
  <2>5. Sources(moves, ds) \subseteq ds
    BY <2>1 DEF Sources
  <2> QED
    BY <2>4, <2>5
<1>10. ASSUME NEW sub \in (SUBSET ds) \ {{}, ds}, Sources(moves, sub) = sub
       PROVE  FALSE
  <2> DEFINE S == {p \in 1 .. n : d[p] \in sub}
  <2>1. ASSUME NEW p \in 1 .. n, d[p] \in sub
        PROVE  (IF p = n THEN d[1] ELSE d[p + 1]) \in sub
    <3>1. /\ visited[p] \in DOMAIN moves
          /\ moves[visited[p]].dest \in sub
          /\ moves[visited[p]].src = IF p = n THEN d[1] ELSE d[p + 1]
      BY <1>2, <2>1
    <3>2. moves[visited[p]].src \in Sources(moves, sub)
      BY <3>1 DEF Sources
    <3> QED
      BY <1>10, <3>1, <3>2
  <2>2. /\ \A q \in S : q # n => q + 1 \in S
        /\ n \in S => 1 \in S
    BY <1>8, <2>1
  <2>3. S \subseteq 1 .. n /\ S # {}
    OBVIOUS
  <2>4. S = 1 .. n
    <3> HIDE DEF S
    <3> QED
      BY <1>1, <2>2, <2>3, AllTheWayRound
  <2>5. \A p \in 1 .. n : d[p] \in sub
    BY <2>4
  <2> QED
    BY <2>5
<1> HIDE DEF ds
<1> QED
  BY <1>1, <1>5, <1>6, <1>9, <1>10 DEF OnLongCycle

-----------------------------------------------------------------------------
\* A longer schedule holds a save if the old one did or the new step is one.
LEMMA SaveAppended ==
  ASSUME steps \in Seq(Step), NEW s \in Step, steps' = Append(steps, s)
  PROVE  HasSave' <=> HasSave \/ s.kind = "save"
<1>1. /\ DOMAIN steps = 1 .. Len(steps) /\ DOMAIN steps' = 1 .. Len(steps) + 1
      /\ Len(steps) \in Nat
      /\ \A p \in 1 .. Len(steps) : steps'[p] = steps[p]
      /\ steps'[Len(steps) + 1] = s
  OBVIOUS
<1>2. \A p \in DOMAIN steps' : p \in DOMAIN steps \/ p = Len(steps) + 1
  BY <1>1
<1>3. Len(steps) + 1 \in DOMAIN steps' /\ \A p \in DOMAIN steps : p \in DOMAIN steps'
  BY <1>1
<1> QED
  BY <1>1, <1>2, <1>3 DEF HasSave

\* A ready move lies on no cycle, so what waits for a save goes on waiting.
LEMMA ReadyKeepsNeeded ==
  ASSUME Shape, SavesNeeded, EmitReady
  PROVE  SavesNeeded'
<1>1. PICK i \in pending : /\ Ready(i)
                           /\ steps' = Append(steps, CopyStep(Dest(i), Src(i)))
                           /\ pending' = pending \ {i}
                           /\ pc' = "schedule" /\ moves' = moves
  BY DEF EmitReady, Emit
<1>2. Dest(i) \in Loc /\ Src(i) \in Loc \cup Const /\ steps \in Seq(Step)
  BY MovesFacts DEF Shape, Real
<1>3. CopyStep(Dest(i), Src(i)) \in Step /\ CopyStep(Dest(i), Src(i)).kind # "save"
  BY <1>2 DEF CopyStep, Step
<1>4. HasSave' <=> HasSave
  BY <1>1, <1>2, <1>3, SaveAppended
<1>5. ASSUME ~HasSave, NEW C \in SUBSET DOMAIN moves, Cyclic(moves, C)
      PROVE  C \subseteq pending'
  <2>1. C \subseteq pending
    BY <1>5 DEF SavesNeeded
  <2>2. i \notin C
    <3> SUFFICES ASSUME i \in C PROVE FALSE
      OBVIOUS
    <3>1. PICK k \in C : Src(k) = Dest(i)
      BY <1>5 DEF Cyclic, Dest, Src
    <3>2. k # i
      BY <1>5, <3>1 DEF Cyclic, Dest, Src
    <3> QED
      BY <1>1, <2>1, <3>1, <3>2 DEF Ready
  <2> QED
    BY <1>1, <2>1, <2>2
<1> QED
  BY <1>1, <1>4, <1>5 DEF SavesNeeded

\* Two moves that are swapped belong to no set that needs a save.
LEMMA SwapKeepsNeeded ==
  ASSUME Shape, SavesNeeded, EmitSwap
  PROVE  SavesNeeded'
<1> DEFINE i == visited[1]
           k == visited[2]
<1>1. /\ CycleClosed /\ Len(visited) = 2
      /\ steps' = Append(steps, SwapStep(Dest(i), Dest(k)))
      /\ pending' = pending \ Members(visited)
      /\ pc' = "schedule" /\ moves' = moves
  BY ClosedTrace DEF EmitSwap, Emit
<1>2. /\ NoneReady /\ Src(k) = Dest(i) /\ Src(i) = Dest(k)
      /\ i \in pending /\ k \in pending
      /\ i \in DOMAIN moves /\ k \in DOMAIN moves
  <2>1. Len(visited) = 2
    BY <1>1
  <2>2. 1 \in 1 .. Len(visited) /\ 2 \in 1 .. Len(visited) /\ 1 # Len(visited)
    BY <2>1
  <2>3. Src(visited[1]) = Dest(visited[1 + 1])
    BY <1>1, <2>2, RoundTheTrace
  <2> QED
    BY <1>1, <2>2, <2>3, RoundTheTrace, ClosedTrace
<1>3. Members(visited) = {i, k}
  <2>1. visited \in Seq(DOMAIN moves) /\ Len(visited) = 2
    BY <1>1 DEF Shape
  <2>2. DOMAIN visited = {1, 2}
    BY <2>1
  <2> QED
    BY <2>2 DEF Members
<1>4. Dest(i) \in Loc /\ Dest(k) \in Loc /\ steps \in Seq(Step)
  BY <1>2, MovesFacts DEF Shape
<1> HIDE DEF i, k
<1>5. /\ SwapStep(Dest(i), Dest(k)) \in Step
      /\ SwapStep(Dest(i), Dest(k)).kind # "save"
  BY <1>4 DEF SwapStep, Step
<1>6. HasSave' <=> HasSave
  BY <1>1, <1>4, <1>5, SaveAppended
<1>7. \A l, j \in pending : Src(l) = Src(j) => l = j
  BY <1>2, NoneReadyIsPermutation DEF Shape
<1>8. ASSUME ~HasSave, NEW C \in SUBSET DOMAIN moves, Cyclic(moves, C)
      PROVE  C \subseteq pending'
  <2>1. C \subseteq pending
    BY <1>8 DEF SavesNeeded
  <2>2. \A l \in C : \E j \in C : Src(j) = Dest(l)
    BY <1>8 DEF Cyclic, Dest, Src
  <2>3. \A l, j \in C : Src(l) = Dest(j) => Src(j) # Dest(l)
    BY <1>8 DEF Cyclic, Dest, Src
  <2>4. i \notin C
    BY <1>2, <1>7, <2>1, <2>2, <2>3
  <2>5. k \notin C
    BY <1>2, <1>7, <2>1, <2>2, <2>3
  <2> QED
    BY <1>1, <1>3, <2>1, <2>4, <2>5
<1> QED
  BY <1>1, <1>6, <1>8 DEF SavesNeeded

\* A save is emitted only for a cycle that needs it.
LEMMA SaveKeepsNeeded ==
  ASSUME Shape, SavesNeeded, EmitSave
  PROVE  SavesNeeded'
<1>1. /\ CycleClosed /\ Len(visited) # 2
      /\ steps' = Append(steps, SaveStep(Dest(visited[1])))
      /\ pc' = "copies" /\ moves' = moves
  BY ClosedTrace DEF EmitSave, Emit
<1>2. visited[1] \in DOMAIN moves /\ steps \in Seq(Step)
  <2>1. Len(visited) \in Nat /\ Len(visited) >= 2
    BY <1>1, RoundTheTrace
  <2>2. 1 \in 1 .. Len(visited)
    BY <2>1
  <2> QED
    BY <1>1, <2>2, RoundTheTrace DEF Shape
<1>3. Dest(visited[1]) \in Loc
  BY <1>2, MovesFacts DEF Shape
<1>4. /\ SaveStep(Dest(visited[1])) \in Step
      /\ SaveStep(Dest(visited[1])).kind = "save"
  BY <1>3 DEF SaveStep, Step
<1>5. HasSave'
  BY <1>1, <1>2, <1>4, SaveAppended
<1>6. NeedsSave(moves)
  BY <1>1, LongTraceIsCyclic DEF NeedsSave
<1>7. OnLongCycle(moves)
  BY <1>1, LongTraceIsLongCycle
<1> QED
  BY <1>1, <1>5, <1>6, <1>7 DEF SavesNeeded

\* The copies and the restore follow a save that is already out.
LEMMA CopiesKeepNeeded ==
  ASSUME Shape, SavesNeeded, EmitCycleCopy \/ EmitRestore
  PROVE  SavesNeeded'
<1>1. HasSave /\ moves' = moves
  BY DEF SavesNeeded, EmitCycleCopy, EmitRestore
<1>2. at \in DOMAIN cycle /\ cycle[at] \in DOMAIN moves /\ steps \in Seq(Step)
  BY DEF Shape, Breaking, EmitCycleCopy, EmitRestore
<1>3. Dest(cycle[at]) \in Loc /\ Src(cycle[at]) \in Loc \cup Const
  BY <1>2, MovesFacts DEF Shape
<1>4. \E s \in Step : steps' = Append(steps, s)
  <2>1. /\ CopyStep(Dest(cycle[at]), Src(cycle[at])) \in Step
        /\ RestoreStep(Dest(cycle[at])) \in Step
    BY <1>3 DEF CopyStep, RestoreStep, Step
  <2> QED
    BY <2>1 DEF EmitCycleCopy, EmitRestore, Emit
<1>5. HasSave'
  BY <1>1, <1>2, <1>4, SaveAppended
<1> QED
  BY <1>1, <1>5 DEF SavesNeeded

\* What the moves say of a save is what the sequentializer does.
LEMMA StepKeepsNeeded ==
  ASSUME Shape, SavesNeeded, Next
  PROVE  SavesNeeded'
<1>1. ASSUME StartTrace \/ TraceMove \/ Return PROVE SavesNeeded'
  <2>1. pc' # "copies" /\ UNCHANGED <<moves, pending, steps>>
    BY <1>1 DEF StartTrace, TraceMove, Return
  <2> QED
    BY <2>1 DEF SavesNeeded, HasSave
<1> QED
  BY <1>1, ReadyKeepsNeeded, SwapKeepsNeeded, SaveKeepsNeeded, CopiesKeepNeeded
     DEF Next

-----------------------------------------------------------------------------
\* The edges of a block are lists of moves with distinct destinations.
LEMMA EdgesAreMoveLists ==
  ASSUME LInit
  PROVE  edges \in Seq(MoveLists) /\ Len(edges) = 2
<1>1. PICK ds \in PhiLists : edges \in EdgesInto(ds) \X EdgesInto(ds)
  BY DEF LInit
<1>2. EdgesInto(ds) \subseteq MoveLists
  <2> SUFFICES ASSUME NEW m \in EdgesInto(ds) PROVE m \in MoveLists
    OBVIOUS
  <2>1. /\ ds \in Seq(Loc) /\ Len(ds) <= MaxMoves
        /\ \A i, k \in DOMAIN ds : ds[i] = ds[k] => i = k
    BY PhiListsAssumption
  <2>2. /\ m \in [DOMAIN ds -> Move]
        /\ \A i \in DOMAIN ds : m[i].dest = ds[i]
    BY DEF EdgesInto
  <2>3. DOMAIN ds = 1 .. Len(ds) /\ Len(ds) \in 0 .. MaxMoves
    BY <2>1, MovesAssumption
  <2>4. m \in [1 .. Len(ds) -> Move]
    BY <2>2, <2>3
  <2>5. \A i, k \in DOMAIN m : m[i].dest = m[k].dest => i = k
    BY <2>1, <2>2
  <2> QED
    BY <2>3, <2>4, <2>5 DEF MoveLists
<1>3. PICK a \in MoveLists, b \in MoveLists : edges = <<a, b>>
  BY <1>1, <1>2
<1> QED
  BY <1>3

\* Fewer than three moves never need a save, so emitFunc may skip their edge.
LEMMA ShortEdgesNeedNone ==
  ASSUME NEW ms \in MoveLists, NeedsSave(ms)
  PROVE  Len(ms) >= 3
<1>1. PICK n \in 0 .. MaxMoves : ms \in [1 .. n -> Move]
  BY DEF MoveLists
<1>2. PICK C \in SUBSET DOMAIN ms : Cyclic(ms, C)
  BY DEF NeedsSave
<1>3. PICK i \in C : TRUE
  BY <1>2 DEF Cyclic
<1>4. PICK k \in C : ms[k].src = ms[i].dest
  BY <1>2 DEF Cyclic
<1>5. PICK l \in C : ms[l].src = ms[k].dest
  BY <1>2 DEF Cyclic
<1>6. i # k /\ k # l /\ i # l
  BY <1>2, <1>4, <1>5 DEF Cyclic
<1>7. i \in 1 .. n /\ k \in 1 .. n /\ l \in 1 .. n
  BY <1>1
<1>8. n \in Nat
  BY MovesAssumption
<1>9. n >= 3
  BY <1>6, <1>7, <1>8
<1>10. Len(ms) = n
  BY <1>1, <1>8
<1> QED
  BY <1>9, <1>10

\* The sequentializer starts on an edge with everything still to do.
LEMMA CallBegins ==
  ASSUME NEW m \in MoveLists, Call(m)
  PROVE  moves' = m /\ pc' = "schedule" /\ Shape' /\ SavesNeeded'
<1>1. /\ moves' = m /\ pending' = {i \in DOMAIN m : m[i].dest # m[i].src}
      /\ pc' = "schedule" /\ curr' = 0
      /\ visited' = <<>> /\ cycle' = <<>> /\ at' = 1 /\ steps' = <<>>
  BY DEF Call
<1>2. (pending \subseteq Real)'
  BY <1>1 DEF Real, Identities, Dest, Src
<1>3. Shape'
  BY <1>1, <1>2 DEF Shape, Tracing, Breaking
<1>4. ~HasSave'
  BY <1>1 DEF HasSave
<1>5. ASSUME NEW C \in SUBSET DOMAIN m, Cyclic(m, C) PROVE C \subseteq pending'
  BY <1>1, <1>5 DEF Cyclic
<1> QED
  BY <1>1, <1>3, <1>4, <1>5 DEF SavesNeeded

\* What an emitted step is: a swap exchanges two locations, and a restore or a
\* save happens only when the schedule holds a save.
LEMMA StepsEmitted ==
  ASSUME Shape, SavesNeeded, Next
  PROVE  \/ steps' = steps /\ (StartTrace \/ TraceMove \/ Return)
         \/ /\ Len(steps') > Len(steps)
            /\ EmitReady \/ EmitSwap \/ EmitSave \/ EmitCycleCopy \/ EmitRestore
            /\ steps'[Len(steps')] \in Step
            /\ steps'[Len(steps')].kind = "swap" => steps'[Len(steps')].src \in Loc
            /\ steps'[Len(steps')].kind \in {"save", "restore"} => HasSave'
<1> DEFINE s == steps'[Len(steps')]
<1>1. ASSUME NEW t \in Step, Emit(t)
      PROVE  Len(steps') > Len(steps) /\ s = t /\ (t.kind = "save" => HasSave')
  BY <1>1, SaveAppended DEF Emit, Shape
<1> HIDE DEF s
<1>2. ASSUME StartTrace \/ TraceMove \/ Return PROVE steps' = steps
  BY <1>2 DEF StartTrace, TraceMove, Return
<1>3. ASSUME EmitReady
      PROVE  \E t \in Step : Emit(t) /\ t.kind = "copy"
  <2>1. PICK i \in pending : Emit(CopyStep(Dest(i), Src(i)))
    BY <1>3 DEF EmitReady
  <2>2. Dest(i) \in Loc /\ Src(i) \in Loc \cup Const
    BY MovesFacts DEF Shape, Real
  <2> QED
    BY <2>1, <2>2 DEF CopyStep, Step
<1>4. ASSUME EmitSwap
      PROVE  \E t \in Step : Emit(t) /\ t.kind = "swap" /\ t.src \in Loc
  <2>1. /\ CycleClosed /\ Len(visited) = 2
        /\ Emit(SwapStep(Dest(visited[1]), Dest(visited[2])))
    BY <1>4, ClosedTrace DEF EmitSwap
  <2>2. 1 \in 1 .. Len(visited) /\ 2 \in 1 .. Len(visited)
    BY <2>1
  <2>3. Dest(visited[1]) \in Loc /\ Dest(visited[2]) \in Loc
    BY <2>1, <2>2, RoundTheTrace, MovesFacts DEF Shape
  <2> QED
    BY <2>1, <2>3 DEF SwapStep, Step
<1>5. ASSUME EmitSave
      PROVE  \E t \in Step : Emit(t) /\ t.kind = "save"
  <2>1. CycleClosed /\ Emit(SaveStep(Dest(visited[1])))
    BY <1>5, ClosedTrace DEF EmitSave
  <2>2. Len(visited) \in Nat /\ Len(visited) >= 2
    BY <2>1, RoundTheTrace
  <2>3. 1 \in 1 .. Len(visited)
    BY <2>2
  <2>4. Dest(visited[1]) \in Loc
    BY <2>1, <2>3, RoundTheTrace, MovesFacts DEF Shape
  <2> QED
    BY <2>1, <2>4 DEF SaveStep, Step
<1>6. ASSUME EmitCycleCopy \/ EmitRestore
      PROVE  HasSave' /\ \E t \in Step : Emit(t) /\ t.kind \in {"copy", "restore"}
  <2>1. at \in DOMAIN cycle /\ cycle[at] \in DOMAIN moves
    BY <1>6 DEF Shape, Breaking, EmitCycleCopy, EmitRestore
  <2>2. Dest(cycle[at]) \in Loc /\ Src(cycle[at]) \in Loc \cup Const
    BY <2>1, MovesFacts DEF Shape
  <2>3. \/ Emit(CopyStep(Dest(cycle[at]), Src(cycle[at])))
        \/ Emit(RestoreStep(Dest(cycle[at])))
    BY <1>6 DEF EmitCycleCopy, EmitRestore
  <2>4. HasSave /\ steps \in Seq(Step)
    BY <1>6 DEF SavesNeeded, Shape, EmitCycleCopy, EmitRestore
  <2>5. \E t \in Step : Emit(t) /\ t.kind \in {"copy", "restore"}
    BY <2>2, <2>3 DEF CopyStep, RestoreStep, Step
  <2> QED
    BY <2>4, <2>5, SaveAppended DEF Emit
<1> QED
  BY <1>1, <1>2, <1>3, <1>4, <1>5, <1>6 DEF Next, s

-----------------------------------------------------------------------------
\* What a location or the slot may hold.
Held == Loc \cup Const \cup {Torn, Unset}

\* Whatever a step of the schedule does, it leaves values in their places.
LEMMA RunKeepsTypes ==
  ASSUME store \in [Loc -> Held], temp \in Held, inFrame \in BOOLEAN,
         NEW s \in Step, s.kind = "swap" => s.src \in Loc, Run(s)
  PROVE  store' \in [Loc -> Held] /\ temp' \in Held /\ inFrame' \in BOOLEAN
<1>1. /\ s.dest \in Loc /\ s.src \in Loc \cup Const
      /\ s.kind \in {"copy", "swap", "save", "restore"}
  BY DEF Step
<1>2. \A x \in Loc \cup Const : Read(x) \in Held
  BY DEF Read, Held
<1>3. \A v \in Held, sz \in Nat : Kept(v, sz) \subseteq Held
  BY DEF Kept, Held
<1>4. \A sz \in Nat : Spilled(store, sz) \subseteq [Loc -> Held]
  BY DEF Spilled, Held
<1>5. Width[s.dest] \in Nat
  BY <1>1, WidthAssumption
<1>6. CASE RunCopy(s)
  BY <1>1, <1>2, <1>6 DEF RunCopy
<1>7. CASE RunSwap(s)
  <2>1. PICK v \in Held, st \in [Loc -> Held] :
          /\ store' = [st EXCEPT ![s.dest] = st[s.src], ![s.src] = v]
          /\ temp' = v \/ temp' = temp
    BY <1>1, <1>3, <1>4, <1>5, <1>7 DEF RunSwap
  <2>2. s.src \in Loc
    BY <1>7 DEF RunSwap
  <2>3. inFrame' \in BOOLEAN
    BY <1>7 DEF RunSwap
  <2> QED
    BY <1>1, <2>1, <2>2, <2>3
<1>8. CASE RunSave(s)
  BY <1>1, <1>2, <1>3, <1>4, <1>5, <1>8 DEF RunSave
<1>9. CASE RunRestore(s)
  BY <1>1, <1>9 DEF RunRestore
<1> QED
  BY <1>6, <1>7, <1>8, <1>9 DEF Run

\* The lowering begins with both edges still to be looked at.
LEMMA LInitEstablishes == LInit => LInv
<1> SUFFICES ASSUME LInit PROVE LInv
  OBVIOUS
<1>1. edges \in Seq(MoveLists) /\ Len(edges) = 2
  BY EdgesAreMoveLists
<1>2. /\ e = 1 /\ phase = "scan" /\ scratch = 0 /\ pc = "idle"
      /\ moves = <<>> /\ pending = {} /\ inFrame = TRUE
      /\ store = [l \in Loc |-> l] /\ temp = Unset
  BY DEF LInit, Initially
<1> QED
  BY <1>1, <1>2 DEF LInv, LTypeOK, AtWork, Foreseen, ScratchOnlyForCycles

\* An edge too short to need a save is passed over; the others are planned.
LEMMA ScanEdgeKeeps ==
  ASSUME LInv, ScanEdge
  PROVE  LInv'
<1>1. /\ phase = "scan" /\ pc = "idle" /\ e \in {1, 2} /\ DOMAIN edges = {1, 2}
      /\ edges[e] \in MoveLists /\ scratch = 0
      /\ UNCHANGED <<edges, phase, scratch, store, temp, inFrame>>
  BY DEF LInv, LTypeOK, AtWork, Foreseen, ScanEdge, UnchangedMachine
<1>2. CASE Len(edges[e]) >= 3
  <2>1. Call(edges[e]) /\ e' = e
    BY <1>2 DEF ScanEdge
  <2>2. moves' = edges[e] /\ pc' = "schedule" /\ Shape' /\ SavesNeeded'
    BY <1>1, <2>1, CallBegins
  <2>3. (pending \subseteq DOMAIN moves)'
    BY <2>2 DEF Shape, Real
  <2>4. LTypeOK'
    BY <1>1, <2>1, <2>2, <2>3 DEF LInv, LTypeOK
  <2> QED
    BY <1>1, <2>1, <2>2, <2>4 DEF LInv, AtWork, Foreseen, ScratchOnlyForCycles
<1>3. CASE ~(Len(edges[e]) >= 3)
  <2>1. e' = e + 1 /\ UNCHANGED <<moves, pending, pc>>
    BY <1>3 DEF ScanEdge
  <2>2. ~NeedsSave(edges[e])
    BY <1>1, <1>3, ShortEdgesNeedNone
  <2>3. \A k \in 1 .. e' - 1 : k \in 1 .. e - 1 \/ k = e
    BY <1>1, <2>1
  <2>4. Foreseen'
    BY <1>1, <2>1, <2>2, <2>3 DEF LInv, Foreseen
  <2>5. LTypeOK'
    BY <1>1, <2>1 DEF LInv, LTypeOK, AtWork
  <2> QED
    BY <1>1, <2>1, <2>4, <2>5 DEF LInv, AtWork, ScratchOnlyForCycles
<1> QED
  BY <1>2, <1>3

\* An edge planned to the end without a save needed none.
LEMMA EdgeScannedKeeps ==
  ASSUME LInv, EdgeScanned
  PROVE  LInv'
<1>1. /\ phase = "scan" /\ pc = "done" /\ pc' = "idle"
      /\ moves' = <<>> /\ pending' = {}
      /\ UNCHANGED <<edges, store, temp, inFrame>>
  BY DEF EdgeScanned, Idle, UnchangedMachine
<1>2. /\ e \in {1, 2} /\ DOMAIN edges = {1, 2} /\ moves = edges[e] /\ scratch = 0
      /\ Len(edges) = 2 /\ pending = {} /\ SavesNeeded
  BY <1>1 DEF LInv, LTypeOK, AtWork, Foreseen, Shape
<1>3. CASE HasSave
  <2>1. scratch' = 2 /\ phase' = "emit" /\ e' = 1
    BY <1>3 DEF EdgeScanned, ScratchSize
  <2>2. OnLongCycle(edges[e])
    BY <1>2, <1>3 DEF SavesNeeded
  <2>3. ScratchOnlyForCycles'
    BY <1>1, <1>2, <2>2 DEF ScratchOnlyForCycles
  <2>4. LTypeOK'
    BY <1>1, <1>2, <2>1 DEF LInv, LTypeOK, ScratchSize
  <2> QED
    BY <1>1, <2>1, <2>3, <2>4 DEF LInv, AtWork, Foreseen
<1>4. CASE ~HasSave
  <2>1. scratch' = 0 /\ phase' = phase /\ e' = e + 1
    BY <1>4 DEF EdgeScanned
  <2>2. ~NeedsSave(edges[e])
    BY <1>2, <1>4 DEF SavesNeeded, NeedsSave, Cyclic
  <2>3. \A k \in 1 .. e' - 1 : k \in 1 .. e - 1 \/ k = e
    BY <1>2, <2>1
  <2>4. Foreseen'
    BY <1>1, <2>1, <2>2, <2>3 DEF LInv, Foreseen
  <2>5. LTypeOK'
    BY <1>1, <1>2, <2>1 DEF LInv, LTypeOK
  <2> QED
    BY <1>1, <2>1, <2>4, <2>5 DEF LInv, AtWork, ScratchOnlyForCycles
<1> QED
  BY <1>3, <1>4

\* Both edges were looked at: without a slot, neither needs one.
LEMMA ScanOverKeeps ==
  ASSUME LInv, ScanOver
  PROVE  LInv'
<1>1. /\ phase = "scan" /\ pc = "idle" /\ e = 3 /\ scratch = 0
      /\ DOMAIN edges = {1, 2} /\ Len(edges) = 2
      /\ \A k \in 1 .. e - 1 : ~NeedsSave(edges[k])
  BY DEF LInv, LTypeOK, AtWork, Foreseen, ScanOver
<1>2. /\ phase' = "emit" /\ e' = 1
      /\ UNCHANGED <<moves, pending, pc, edges, scratch, store, temp, inFrame>>
  BY DEF ScanOver, UnchangedMachine
<1>3. Foreseen'
  BY <1>1, <1>2 DEF Foreseen
<1>4. LTypeOK'
  <2>1. e' \in 1 .. Len(edges') + 1
    <3>1. edges \in Seq(MoveLists)
      BY DEF LInv, AtWork
    <3> QED
      BY <1>1, <1>2, <3>1
  <2> QED
    BY <1>1, <1>2, <2>1 DEF LInv, LTypeOK
<1> QED
  BY <1>1, <1>2, <1>3, <1>4 DEF LInv, AtWork, ScratchOnlyForCycles

\* The edge that is emitted is planned again, from the same moves.
LEMMA BeginEdgeKeeps ==
  ASSUME LInv, BeginEdge
  PROVE  LInv'
<1>1. /\ phase = "emit" /\ e \in DOMAIN edges /\ edges[e] \in MoveLists
      /\ Call(edges[e]) /\ store' = [l \in Loc |-> l] /\ temp' = Unset
      /\ UNCHANGED <<edges, e, phase, scratch, inFrame>>
  <2>1. phase = "emit" /\ e \in DOMAIN edges /\ edges \in Seq(MoveLists)
    BY DEF LInv, LTypeOK, AtWork, BeginEdge
  <2> QED
    BY <2>1 DEF BeginEdge, Initially
<1>2. moves' = edges[e] /\ pc' = "schedule" /\ Shape' /\ SavesNeeded'
  BY <1>1, CallBegins
<1>3. (pending \subseteq DOMAIN moves)'
  BY <1>2 DEF Shape, Real
<1>4. LTypeOK'
  BY <1>1, <1>2, <1>3 DEF LInv, LTypeOK
<1> QED
  BY <1>1, <1>2, <1>4 DEF LInv, AtWork, Foreseen, ScratchOnlyForCycles

\* The next edge, or the end.
LEMMA EndEdgeKeeps ==
  ASSUME LInv, EndEdge
  PROVE  LInv'
<1>1. /\ phase = "emit" /\ e \in {1, 2} /\ DOMAIN edges = {1, 2} /\ Len(edges) = 2
      /\ e' = e + 1 /\ phase' = (IF e = 2 THEN "done" ELSE phase)
      /\ pc' = "idle" /\ moves' = <<>> /\ pending' = {}
      /\ UNCHANGED <<edges, scratch, store, temp, inFrame>>
  BY DEF LInv, LTypeOK, AtWork, EndEdge, Idle, UnchangedMachine
<1>2. LTypeOK'
  <2>1. e' \in 1 .. Len(edges') + 1
    <3>1. edges \in Seq(MoveLists)
      BY DEF LInv, AtWork
    <3> QED
      BY <1>1, <3>1, SMTT(30)
  <2>2. phase' = "emit" => e' \in DOMAIN edges'
    BY <1>1
  <2> QED
    BY <1>1, <2>1, <2>2 DEF LInv, LTypeOK
<1> QED
  BY <1>1, <1>2 DEF LInv, AtWork, Foreseen, ScratchOnlyForCycles

\* A step of the sequentializer, run if the edge is being emitted.
LEMMA SequenceKeeps ==
  ASSUME LInv, Sequence
  PROVE  LInv'
<1>1. /\ phase \in {"scan", "emit"} /\ Next
      /\ UNCHANGED <<edges, e, phase, scratch>>
  BY DEF Sequence
<1>2. pc # "idle"
  BY <1>1 DEF Next, EmitReady, StartTrace, TraceMove, EmitSwap, EmitSave,
     EmitCycleCopy, EmitRestore, Return, CycleClosed
<1>3. Shape /\ SavesNeeded /\ moves = edges[e] /\ e \in DOMAIN edges
  BY <1>2 DEF LInv, AtWork
<1>4. Shape' /\ SavesNeeded'
  BY <1>1, <1>3, StepKeepsShape, StepKeepsNeeded
<1>5. moves' = moves
  BY <1>1 DEF Next, EmitReady, StartTrace, TraceMove, EmitSwap, EmitSave,
     EmitCycleCopy, EmitRestore, Return
<1>6. store' \in [Loc -> Held] /\ temp' \in Held /\ inFrame' \in BOOLEAN
  <2>1. store \in [Loc -> Held] /\ temp \in Held /\ inFrame \in BOOLEAN
    BY DEF LInv, LTypeOK, Held
  <2>2. CASE UnchangedMachine
    BY <2>1, <2>2 DEF UnchangedMachine
  <2>3. CASE Len(steps') > Len(steps) /\ Run(steps'[Len(steps')])
    <3>1. steps' # steps
      BY <2>3, <1>3 DEF Shape
    <3>2. /\ steps'[Len(steps')] \in Step
          /\ steps'[Len(steps')].kind = "swap" => steps'[Len(steps')].src \in Loc
      BY <1>1, <1>3, <3>1, StepsEmitted
    <3> QED
      BY <2>1, <2>3, <3>2, RunKeepsTypes
  <2> QED
    BY <2>2, <2>3 DEF Sequence
<1>7. (pending \subseteq DOMAIN moves)'
  BY <1>4 DEF Shape, Real
<1>8. LTypeOK'
  BY <1>1, <1>4, <1>6, <1>7 DEF LInv, LTypeOK, Shape, Held
<1>9. pc' # "idle"
  BY <1>4 DEF Shape
<1> QED
  BY <1>1, <1>3, <1>4, <1>5, <1>8, <1>9
     DEF LInv, AtWork, Foreseen, ScratchOnlyForCycles

\* The inductive step, for locations of any width.
LEMMA LStepPreserves == LInv /\ [LNext]_lvars => LInv'
<1> SUFFICES ASSUME LInv, [LNext]_lvars PROVE LInv'
  OBVIOUS
<1>1. ASSUME UNCHANGED lvars PROVE LInv'
  <2>1. (Shape <=> Shape') /\ (SavesNeeded <=> SavesNeeded')
    BY <1>1 DEF lvars, Shape, Tracing, Breaking, Real, Identities, NoneReady,
       Ready, Chain, Dest, Src, SavesNeeded, HasSave
  <2> QED
    BY <1>1, <2>1 DEF lvars, LInv, LTypeOK, AtWork, Foreseen, ScratchOnlyForCycles
<1> QED
  BY <1>1, ScanEdgeKeeps, EdgeScannedKeeps, ScanOverKeeps, BeginEdgeKeeps,
     EndEdgeKeeps, SequenceKeeps DEF LNext, Terminated

\* Every reachable state of the lowering satisfies the inductive invariant.
THEOREM LInvariance == LSpec => []LInv
  BY LInitEstablishes, LStepPreserves, PTL DEF LSpec

\* The lowering's state has its type.
THEOREM LTypeCorrect == LSpec => []LTypeOK
<1>1. LInv => LTypeOK
  BY DEF LInv
<1> QED
  BY <1>1, LInvariance, PTL

\* A frame is given a scratch slot only for an edge with a real cycle of three
\* or more moves (emitFunc, backend.go), so leaf functions keep empty frames.
THEOREM SlotOnlyForCycles == LSpec => []ScratchOnlyForCycles
<1>1. LInv => ScratchOnlyForCycles
  BY DEF LInv
<1> QED
  BY <1>1, LInvariance, PTL

-----------------------------------------------------------------------------
(***************************************************************************)
(* On locations that fit the slot, the instructions do what the machine of *)
(* CopyMachine does, so what is proved about that machine holds of them.   *)
(***************************************************************************)

\* The machine's invariant holds when it starts ...
LEMMA MachineStarts == M!MInit => M!IInv
  BY MachineAssumptions, M!InitEstablishes
     DEF M!LocAssumption, M!MovesAssumption, M!UnsetAssumption

\* ... its steps keep it ...
LEMMA MachineSteps == M!IInv /\ [M!MNext]_(M!mvars) => M!IInv'
  BY MachineAssumptions, M!StepPreserves
     DEF M!LocAssumption, M!MovesAssumption, M!UnsetAssumption

\* ... and at the end it has made every move of the edge.
LEMMA MachineMovesAll ==
  M!IInv /\ pc = "done" => store = M!Assignment!AllMoved(moves, [l \in Loc |-> l])
  BY MachineAssumptions, M!DoneIsAllMoved
     DEF M!LocAssumption, M!MovesAssumption, M!UnsetAssumption

\* An instruction whose operands fit the slot, where it uses one, stays inside it
\* and does what the machine does for the step.
LEMMA RunIsMachineRun ==
  ASSUME Narrow, NEW s \in Step, Run(s),
         s.kind = "swap" => s.src \in Loc,
         s.kind \in {"save", "restore"} => scratch = ScratchSize
  PROVE  M!Run(s) /\ (inFrame => inFrame')
<1>1. /\ s.dest \in Loc /\ Width[s.dest] \in Nat /\ Width[s.dest] <= 2
      /\ s.kind \in {"copy", "swap", "save", "restore"}
  BY WidthAssumption DEF Step, Narrow, ScratchSize
<1>2. Read(s.src) = M!Read(s.src)
  BY DEF Read, M!Read
<1>3. CASE RunCopy(s)
  BY <1>2, <1>3 DEF RunCopy, M!Run
<1>4. CASE RunSwap(s)
  <2>1. ~(Width[s.dest] > 2) /\ s.kind = "swap" /\ s.src \in Loc
    BY <1>1, <1>4 DEF RunSwap
  <2>2. /\ store' = [store EXCEPT ![s.dest] = store[s.src], ![s.src] = store[s.dest]]
        /\ temp' = temp
    BY <1>4, <2>1 DEF RunSwap
  <2>3. inFrame => inFrame'
    BY <1>4, <2>1 DEF RunSwap
  <2> QED
    BY <2>1, <2>2, <2>3 DEF M!Run, M!Read
<1>5. CASE RunSave(s)
  <2>1. s.kind = "save" /\ scratch = 2
    BY <1>5 DEF RunSave, ScratchSize
  <2>2. Fits(Width[s.dest])
    BY <1>1, <2>1 DEF Fits
  <2>3. temp' = Read(s.src) /\ store' = store
    BY <1>5, <2>2 DEF RunSave, Kept, Spilled
  <2>4. inFrame => inFrame'
    BY <1>5, <2>2 DEF RunSave
  <2> QED
    BY <1>2, <2>1, <2>3, <2>4 DEF M!Run
<1>6. CASE RunRestore(s)
  <2>1. s.kind = "restore" /\ scratch = 2
    BY <1>6 DEF RunRestore, ScratchSize
  <2>2. Fits(Width[s.dest])
    BY <1>1, <2>1 DEF Fits
  <2>3. inFrame => inFrame'
    BY <1>6, <2>2 DEF RunRestore
  <2>4. M!Run(s)
    BY <1>6 DEF RunRestore, M!Run
  <2> QED
    BY <2>3, <2>4
<1> QED
  BY <1>3, <1>4, <1>5, <1>6 DEF Run

\* An edge that begins is the machine in an initial state.
LEMMA BeginEdgeEmitted ==
  ASSUME LInv, BeginEdge
  PROVE  M!IInv'
<1>1. edges[e] \in MoveLists
  <2>1. phase = "emit" /\ e \in DOMAIN edges /\ edges \in Seq(MoveLists)
    BY DEF LInv, LTypeOK, AtWork, BeginEdge
  <2> QED
    BY <2>1
<1>2. /\ moves' = edges[e]
      /\ pending' = {i \in DOMAIN edges[e] : edges[e][i].dest # edges[e][i].src}
      /\ pc' = "schedule" /\ curr' = 0
      /\ visited' = <<>> /\ cycle' = <<>> /\ at' = 1 /\ steps' = <<>>
      /\ store' = [l \in Loc |-> l] /\ temp' = Unset
  BY DEF BeginEdge, Call, Initially
<1>3. M!MoveLists = MoveLists
  BY DEF M!MoveLists, MoveLists, M!Move, Move
<1>4. pending' = (DOMAIN moves \ M!Identities)'
  BY <1>2 DEF M!Identities, M!Dest, M!Src
<1>5. M!MInit'
  BY <1>1, <1>2, <1>3, <1>4 DEF M!MInit, M!Init
<1>6. (M!MInit => M!IInv)'
  BY MachineStarts, PTL
<1> QED
  BY <1>5, <1>6

\* While an edge is emitted, a step of the sequentializer is one of the machine,
\* inside the frame: the scan foresaw the slot that saves and restores use.
LEMMA SequenceEmitted ==
  ASSUME Narrow, NarrowInv, Sequence
  PROVE  FrameIntact' /\ Emitted'
<1>1. /\ phase \in {"scan", "emit"} /\ Next
      /\ UNCHANGED <<edges, e, phase, scratch>>
  BY DEF Sequence
<1>2. pc # "idle"
  BY <1>1 DEF Next, EmitReady, StartTrace, TraceMove, EmitSwap, EmitSave,
     EmitCycleCopy, EmitRestore, Return, CycleClosed
<1>3. /\ Shape /\ SavesNeeded /\ moves = edges[e] /\ e \in DOMAIN edges
      /\ scratch \in {0, ScratchSize} /\ inFrame
  BY <1>2 DEF NarrowInv, LInv, AtWork, LTypeOK, FrameIntact
<1>4. SavesNeeded' /\ moves' = moves
  BY <1>1, <1>3, StepKeepsNeeded
     DEF Next, EmitReady, StartTrace, TraceMove, EmitSwap, EmitSave,
         EmitCycleCopy, EmitRestore, Return
<1>5. CASE phase = "scan"
  <2>1. UnchangedMachine /\ phase' = "scan"
    BY <1>1, <1>5 DEF Sequence
  <2> QED
    BY <1>3, <2>1 DEF UnchangedMachine, FrameIntact, Emitted
<1>6. CASE phase = "emit"
  <2>1. M!IInv
    BY <1>2, <1>6 DEF NarrowInv, Emitted
  <2>2. HasSave' => scratch = ScratchSize
    <3>1. HasSave' => NeedsSave(edges[e])
      BY <1>3, <1>4 DEF SavesNeeded
    <3>2. scratch = 0 => ~NeedsSave(edges[e])
      BY <1>3, <1>6 DEF NarrowInv, LInv, Foreseen
    <3> QED
      BY <1>3, <3>1, <3>2
  <2>3. CASE steps' = steps /\ (StartTrace \/ TraceMove \/ Return)
    <3>1. UnchangedMachine
      BY <1>3, <2>3 DEF Sequence, Shape
    <3>2. M!Planning
      BY <2>3, <3>1, SameSequentializer DEF M!Planning, UnchangedMachine
    <3>3. M!IInv'
      BY <2>1, <3>2, MachineSteps DEF M!MNext
    <3> QED
      BY <1>3, <3>1, <3>3 DEF UnchangedMachine, FrameIntact, Emitted
  <2>4. CASE /\ Len(steps') > Len(steps)
             /\ EmitReady \/ EmitSwap \/ EmitSave \/ EmitCycleCopy \/ EmitRestore
             /\ steps'[Len(steps')] \in Step
             /\ steps'[Len(steps')].kind = "swap" => steps'[Len(steps')].src \in Loc
             /\ steps'[Len(steps')].kind \in {"save", "restore"} => HasSave'
    <3>1. Run(steps'[Len(steps')])
      BY <1>6, <2>4 DEF Sequence
    <3>2. M!Run(steps'[Len(steps')]) /\ (inFrame => inFrame')
      BY <2>2, <2>4, <3>1, RunIsMachineRun
    <3>3. M!Emitting
      BY <2>4, <3>2, SameSequentializer DEF M!Emitting
    <3>4. M!IInv'
      BY <2>1, <3>3, MachineSteps DEF M!MNext
    <3> QED
      BY <1>3, <3>2, <3>4 DEF FrameIntact, Emitted
  <2> QED
    BY <1>1, <1>3, <2>3, <2>4, StepsEmitted
<1> QED
  BY <1>1, <1>5, <1>6

\* The inductive step on locations that fit the slot.
LEMMA NarrowStepPreserves ==
  Narrow => (NarrowInv /\ [LNext]_lvars => NarrowInv')
<1> SUFFICES ASSUME Narrow, NarrowInv, [LNext]_lvars PROVE NarrowInv'
  OBVIOUS
<1>1. LInv'
  BY LStepPreserves DEF NarrowInv
<1>2. FrameIntact' /\ Emitted'
  <2>1. ASSUME ScanEdge PROVE FrameIntact' /\ Emitted'
    BY <2>1 DEF NarrowInv, FrameIntact, Emitted, ScanEdge, UnchangedMachine
  <2>2. ASSUME EdgeScanned \/ EndEdge PROVE FrameIntact' /\ Emitted'
    BY <2>2 DEF NarrowInv, FrameIntact, Emitted, EdgeScanned, EndEdge,
       UnchangedMachine, Idle
  <2>3. ASSUME ScanOver PROVE FrameIntact' /\ Emitted'
    BY <2>3 DEF NarrowInv, FrameIntact, Emitted, ScanOver, UnchangedMachine
  <2>4. ASSUME BeginEdge PROVE FrameIntact' /\ Emitted'
    BY <2>4, BeginEdgeEmitted DEF NarrowInv, FrameIntact, Emitted, BeginEdge
  <2>5. ASSUME Sequence PROVE FrameIntact' /\ Emitted'
    BY <2>5, SequenceEmitted
  <2>6. ASSUME UNCHANGED lvars PROVE FrameIntact' /\ Emitted'
    <3>1. UNCHANGED M!mvars /\ UNCHANGED <<phase, pc, inFrame>>
      BY <2>6 DEF lvars, M!mvars
    <3> QED
      BY <3>1, MachineSteps DEF NarrowInv, FrameIntact, Emitted
  <2> QED
    BY <2>1, <2>2, <2>3, <2>4, <2>5, <2>6 DEF LNext, Terminated
<1> QED
  BY <1>1, <1>2 DEF NarrowInv

\* On locations that fit the slot, the inductive invariant holds throughout.
THEOREM NarrowInvariance == Narrow => (LSpec => []NarrowInv)
<1>1. LInit => NarrowInv
  <2>1. LInit => LInv
    BY LInitEstablishes
  <2>2. LInit => FrameIntact /\ Emitted
    BY DEF LInit, FrameIntact, Emitted
  <2> QED
    BY <2>1, <2>2 DEF NarrowInv
<1>2. Narrow => (NarrowInv /\ [LNext]_lvars => NarrowInv')
  BY NarrowStepPreserves
<1> SUFFICES ASSUME Narrow PROVE LSpec => []NarrowInv
  OBVIOUS
<1>3. NarrowInv /\ [LNext]_lvars => NarrowInv'
  BY <1>2
<1> QED
  BY <1>1, <1>3, PTL DEF LSpec

\* No instruction touches memory beyond the scratch slot, provided every location
\* fits it: what the scan of emitFunc decides from the moves alone is what
\* emitPhiAssignments needs.
THEOREM FramesIntact == Narrow => (LSpec => []FrameIntact)
<1>1. NarrowInv => FrameIntact
  BY DEF NarrowInv
<1> QED
  BY <1>1, NarrowInvariance, PTL

\* The instructions emitted for an edge leave every phi with the value its
\* argument had when the edge was taken ("without data loss",
\* opt/parallel_copy.go), provided every location fits the slot.
THEOREM EdgesAreParallel == Narrow => (LSpec => []EdgeIsParallel)
<1>1. NarrowInv => EdgeIsParallel
  <2> SUFFICES ASSUME NarrowInv, phase = "emit", pc = "done"
               PROVE  store = PA!AllMoved(moves, Initially)
    BY DEF EdgeIsParallel
  <2>1. store = M!Assignment!AllMoved(moves, [l \in Loc |-> l])
    BY MachineMovesAll DEF NarrowInv, Emitted
  <2> QED
    BY <2>1 DEF M!Assignment!AllMoved, M!Assignment!Moved, PA!AllMoved, PA!Moved,
       Initially
<1> QED
  BY <1>1, NarrowInvariance, PTL
=============================================================================
