------------------------- MODULE CopyMachine_proofs -------------------------
(***************************************************************************)
(* The sequentialized schedule is the parallel assignment, for every set   *)
(* of locations and every list of moves with distinct destinations.  The   *)
(* lemmas on the sequencer's shape come first: they say nothing of the     *)
(* storage, and PhiLowering_proofs takes them from here.                   *)
(***************************************************************************)
EXTENDS CopyMachine, TLAPS, FiniteSetTheorems, SequenceTheorems

-----------------------------------------------------------------------------
\* What a list of moves is: destinations are locations, and no two are equal.
LEMMA MovesFacts ==
  ASSUME moves \in MoveLists
  PROVE  /\ IsFiniteSet(DOMAIN moves)
         /\ DOMAIN moves \subseteq Nat \ {0}
         /\ \A i \in DOMAIN moves :
              /\ Dest(i) \in Loc
              /\ Src(i) \in Loc \cup Const
         /\ \A i, k \in DOMAIN moves : Dest(i) = Dest(k) => i = k
<1>1. PICK n \in 0..MaxMoves : moves \in [1..n -> Move]
  BY DEF MoveLists
<1>2. IsFiniteSet(1..n)
  BY FS_Interval
<1>3. DOMAIN moves = 1..n
  BY <1>1
<1>4. \A i, k \in DOMAIN moves : moves[i].dest = moves[k].dest => i = k
  BY DEF MoveLists
<1>5. \A i \in DOMAIN moves : moves[i] \in Move
  BY <1>1
<1>6. DOMAIN moves \subseteq Nat \ {0}
  BY <1>3
<1> QED
  BY <1>2, <1>3, <1>4, <1>5, <1>6 DEF Dest, Src, Move

\* Why "all remaining moves form one or more directed cycles": with distinct
\* destinations, each of them read by another pending move, the sources are
\* the destinations, and no two moves share one.
LEMMA NoneReadyIsPermutation ==
  ASSUME moves \in MoveLists, pending \subseteq Real, NoneReady
  PROVE  /\ \A i \in pending : \E k \in pending : Dest(k) = Src(i)
         /\ \A i, k \in pending : Src(i) = Src(k) => i = k
<1> DEFINE h == [i \in pending |-> CHOOSE k \in pending : Src(k) = Dest(i)]
<1>1. pending \subseteq DOMAIN moves /\ IsFiniteSet(pending)
  BY MovesFacts, FS_Subset DEF Real
<1>2. \A i \in pending : h[i] \in pending /\ Src(h[i]) = Dest(i)
  BY DEF NoneReady, Ready
<1>3. \A i, k \in pending : h[i] = h[k] => i = k
  BY <1>1, <1>2, MovesFacts
<1>4. h \in Injection(pending, pending)
  BY <1>2, <1>3 DEF Injection, IsInjective
<1>5. h \in Surjection(pending, pending)
  BY <1>1, <1>4, FS_Injection
<1>6. \A k \in pending : \E i \in pending : h[i] = k
  BY <1>5 DEF Surjection
<1>7. \A k \in pending : \E i \in pending : Src(k) = Dest(i)
  BY <1>2, <1>6
<1>8. ASSUME NEW k \in pending, NEW l \in pending, Src(k) = Src(l)
      PROVE  k = l
  <2>1. PICK i \in pending : h[i] = k
    BY <1>6
  <2>2. PICK j \in pending : h[j] = l
    BY <1>6
  <2>3. Dest(i) = Dest(j)
    BY <1>2, <1>8, <2>1, <2>2
  <2> QED
    BY <1>1, <2>1, <2>2, <2>3, MovesFacts
<1> QED
  BY <1>7, <1>8

\* The parts of a move do not change, as the list of moves does not.
LEMMA MovesFixed ==
  ASSUME moves' = moves
  PROVE  /\ \A i \in DOMAIN moves : Dest(i)' = Dest(i) /\ Src(i)' = Src(i)
         /\ Real' = Real
  BY DEF Dest, Src, Real, Identities

\* A trace that closes has gone once around the cycle it started on.
LEMMA ClosedTrace ==
  ASSUME Shape, CycleClosed
  PROVE  /\ CycleIndices = visited
         /\ curr = visited[1]
         /\ Len(visited) >= 2
         /\ Src(visited[Len(visited)]) = Dest(visited[1])
         /\ NoneReady /\ Chain(visited)
<1>1. NoneReady /\ Chain(visited) /\ curr \in pending /\ pc = "trace"
  BY DEF Shape, Tracing, CycleClosed
<1>2. /\ visited \in Seq(DOMAIN moves)
      /\ DOMAIN visited = 1..Len(visited) /\ Len(visited) \in Nat
  BY DEF Shape
<1>3. PICK p \in DOMAIN visited : visited[p] = curr
  BY DEF CycleClosed, Visited
<1>4. Dest(curr) = Src(visited[Len(visited)]) /\ Len(visited) \in DOMAIN visited
  BY <1>1, <1>2, <1>3 DEF Shape, Tracing
<1>5. p = 1
  <2> SUFFICES ASSUME p # 1 PROVE FALSE
    OBVIOUS
  <2>1. p - 1 \in DOMAIN visited
    BY <1>2
  <2>2. Src(visited[p - 1]) = Src(visited[Len(visited)])
    BY <1>1, <1>3, <1>4 DEF Chain
  <2>3. visited[p - 1] = visited[Len(visited)]
    BY <1>1, <1>4, <2>1, <2>2, NoneReadyIsPermutation DEF Chain, Shape
  <2>4. p - 1 = Len(visited)
    BY <1>1, <1>2, <1>4, <2>1, <2>3 DEF Chain
  <2> QED
    BY <1>2, <2>4
<1>6. Len(visited) # 1
  <2> SUFFICES ASSUME Len(visited) = 1 PROVE FALSE
    OBVIOUS
  <2>1. Dest(curr) = Src(curr)
    BY <1>3, <1>4, <1>5
  <2> QED
    BY <1>1, <2>1 DEF Shape, Real, Identities
<1>7. \A q \in DOMAIN visited : visited[q] = curr => q = 1
  BY <1>1, <1>3, <1>5 DEF Chain
<1>8. CycleIndices = SubSeq(visited, 1, Len(visited))
  BY <1>3, <1>5, <1>7 DEF CycleIndices
<1>9. SubSeq(visited, 1, Len(visited)) = visited
  BY <1>2
<1> QED
  BY <1>1, <1>2, <1>3, <1>4, <1>5, <1>6, <1>8, <1>9

\* Nobody outside a cycle of pending moves reads a location the cycle writes.
LEMMA CycleIsClosed ==
  ASSUME moves \in MoveLists, pending \subseteq Real, NoneReady,
         NEW c \in Seq(DOMAIN moves), Chain(c), Len(c) # 0,
         Src(c[Len(c)]) = Dest(c[1])
  PROVE  \A p \in DOMAIN c : \A k \in pending \ Members(c) : Dest(c[p]) # Src(k)
<1> SUFFICES ASSUME NEW p \in DOMAIN c, NEW k \in pending, Dest(c[p]) = Src(k)
             PROVE  k \in Members(c)
  OBVIOUS
<1>1. PICK q \in DOMAIN c : Src(c[q]) = Dest(c[p])
  <2>1. CASE p = 1
    BY <2>1
  <2>2. CASE p # 1
    BY <2>2 DEF Chain
  <2> QED
    BY <2>1, <2>2
<1>2. c[q] \in pending
  BY DEF Chain
<1>3. c[q] = k
  BY <1>1, <1>2, NoneReadyIsPermutation
<1> QED
  BY <1>3 DEF Members

-----------------------------------------------------------------------------
\* Appending a step of the right type keeps the schedule's type.
LEMMA EmitKeepsType ==
  ASSUME steps \in Seq(Step), NEW s \in Step, Emit(s)
  PROVE  steps' \in Seq(Step)
  BY DEF Emit

\* Fewer pending moves are still real moves.
LEMMA PendingShrinks ==
  ASSUME pending \subseteq Real, moves' = moves, pending' \subseteq pending
  PROVE  (pending \subseteq Real)'
  BY MovesFixed

\* A ready move is copied and leaves the outer loop where it was.
LEMMA ReadyKeepsShape ==
  ASSUME Shape, EmitReady
  PROVE  Shape'
<1>1. PICK i \in pending : /\ Emit(CopyStep(Dest(i), Src(i)))
                           /\ pending' = pending \ {i}
  BY DEF EmitReady
<1>2. /\ pc = "schedule" /\ pc' = "schedule" /\ moves' = moves
      /\ UNCHANGED <<curr, visited, cycle, at>>
  BY DEF EmitReady
<1>3. Dest(i) \in Loc /\ Src(i) \in Loc \cup Const
  BY MovesFacts DEF Shape, Real
<1>4. CopyStep(Dest(i), Src(i)) \in Step
  BY <1>3 DEF CopyStep, Step
<1>5. steps' \in Seq(Step) /\ (pending \subseteq Real)'
  BY <1>1, <1>2, <1>4, EmitKeepsType, PendingShrinks DEF Shape
<1> QED
  BY <1>2, <1>5 DEF Shape, Tracing, Breaking

\* The trace starts only when every pending move is read by another.
LEMMA StartTraceKeepsShape ==
  ASSUME Shape, StartTrace
  PROVE  Shape'
<1>1. /\ pc' = "trace" /\ visited' = <<>> /\ curr' \in pending
      /\ \A i \in pending : ~Ready(i)
      /\ UNCHANGED <<moves, pending, cycle, at, steps>>
  BY DEF StartTrace
<1>2. Tracing'
  BY <1>1 DEF Tracing, NoneReady, Ready, Chain, Dest, Src
<1>3. (pending \subseteq Real)' /\ pending \subseteq DOMAIN moves
  BY <1>1, PendingShrinks DEF Shape, Real
<1> QED
  BY <1>1, <1>2, <1>3 DEF Shape, Breaking

\* The trace goes on along the cycle; some pending move always writes what the
\* current one reads.
LEMMA TraceMoveKeepsShape ==
  ASSUME Shape, TraceMove
  PROVE  Shape'
<1>1. /\ pc = "trace" /\ curr \notin Visited
      /\ visited' = Append(visited, curr)
      /\ UNCHANGED <<moves, pending, cycle, at, steps>>
  BY DEF TraceMove
<1>2. NoneReady /\ Chain(visited) /\ curr \in pending /\ curr \in DOMAIN moves
  BY <1>1 DEF Shape, Tracing, Real
<1>3. PICK k \in pending : Dest(k) = Src(curr)
  BY <1>2, NoneReadyIsPermutation DEF Shape
<1>4. /\ pc' = pc
      /\ curr' \in pending /\ Dest(curr') = Src(curr)
  BY <1>3 DEF TraceMove, Writers
<1>5. /\ visited \in Seq(DOMAIN moves) /\ Len(visited') = Len(visited) + 1
      /\ visited' \in Seq(DOMAIN moves)
      /\ DOMAIN visited = 1..Len(visited)
      /\ DOMAIN visited' = 1..(Len(visited) + 1)
      /\ \A p \in DOMAIN visited : visited'[p] = visited[p]
      /\ visited'[Len(visited) + 1] = curr
  BY <1>1, <1>2 DEF Shape
<1>6. Chain(visited)'
  <2>1. \A p \in DOMAIN visited' : visited'[p] \in pending'
    BY <1>1, <1>2, <1>5 DEF Chain
  <2>2. \A p, q \in DOMAIN visited' : visited'[p] = visited'[q] => p = q
    BY <1>1, <1>2, <1>5 DEF Chain, Visited
  <2>3. ASSUME NEW p \in DOMAIN visited', p # 1
        PROVE  Dest(visited'[p]) = Src(visited'[p - 1])
    <3>1. CASE p = Len(visited) + 1
      <4>1. /\ p - 1 = Len(visited) /\ Len(visited) # 0
            /\ Len(visited) \in DOMAIN visited
        BY <1>5, <2>3, <3>1
      <4>2. visited'[p] = curr /\ visited'[p - 1] = visited[Len(visited)]
        BY <1>5, <3>1, <4>1
      <4> QED
        BY <1>1, <4>1, <4>2 DEF Shape, Tracing
    <3>2. CASE p \in DOMAIN visited
      BY <1>2, <1>5, <2>3, <3>2 DEF Chain
    <3> QED
      BY <1>5, <3>1, <3>2
  <2> QED
    BY <1>1, <2>1, <2>2, <2>3 DEF Chain, Dest, Src
<1>7. NoneReady'
  BY <1>1, <1>2 DEF NoneReady, Ready, Dest, Src
<1>8. Dest(curr)' = Src(visited[Len(visited)])'
  BY <1>1, <1>4, <1>5 DEF Dest, Src
<1>9. (pending \subseteq Real)' /\ pending \subseteq DOMAIN moves
  BY <1>1, PendingShrinks DEF Shape, Real
<1> QED
  BY <1>1, <1>4, <1>5, <1>6, <1>7, <1>8, <1>9 DEF Shape, Breaking, Tracing

\* A cycle of two is swapped and leaves the list.
LEMMA SwapKeepsShape ==
  ASSUME Shape, EmitSwap
  PROVE  Shape'
<1>1. /\ CycleClosed /\ Len(visited) = 2
      /\ Emit(SwapStep(Dest(visited[1]), Dest(visited[2])))
      /\ pending' \subseteq pending
      /\ pc' = "schedule"
      /\ UNCHANGED <<moves, curr, visited, cycle, at>>
  BY ClosedTrace DEF EmitSwap
<1>2. visited[1] \in DOMAIN moves /\ visited[2] \in DOMAIN moves
  <2>1. visited \in Seq(DOMAIN moves) /\ Len(visited) = 2
    BY <1>1 DEF Shape
  <2> QED
    BY <2>1
<1>3. Dest(visited[1]) \in Loc /\ Dest(visited[2]) \in Loc
  BY <1>2, MovesFacts DEF Shape
<1>4. SwapStep(Dest(visited[1]), Dest(visited[2])) \in Step
  BY <1>3 DEF SwapStep, Step
<1>5. steps' \in Seq(Step) /\ (pending \subseteq Real)'
  BY <1>1, <1>4, EmitKeepsType, PendingShrinks DEF Shape
<1> QED
  BY <1>1, <1>5 DEF Shape, Tracing, Breaking

\* The cycle to be broken is the whole trace.
LEMMA SaveKeepsShape ==
  ASSUME Shape, EmitSave
  PROVE  Shape'
<1>1. /\ CycleClosed /\ cycle' = visited /\ at' = 1
      /\ Emit(SaveStep(Dest(visited[1])))
      /\ pc' = "copies"
      /\ UNCHANGED <<moves, pending, curr, visited>>
  BY ClosedTrace DEF EmitSave
<1>2. /\ NoneReady /\ Chain(visited) /\ Len(visited) >= 2
      /\ Src(visited[Len(visited)]) = Dest(visited[1])
  BY <1>1, ClosedTrace
<1>3. visited[1] \in DOMAIN moves /\ Len(visited) \in Nat
  BY <1>2 DEF Shape
<1>4. Dest(visited[1]) \in Loc
  BY <1>3, MovesFacts DEF Shape
<1>5. SaveStep(Dest(visited[1])) \in Step
  BY <1>4 DEF SaveStep, Step
<1>6. steps' \in Seq(Step) /\ (pending \subseteq Real)'
  BY <1>1, <1>5, EmitKeepsType, PendingShrinks DEF Shape
<1>7. Breaking'
  BY <1>1, <1>2, <1>3 DEF Breaking, NoneReady, Ready, Chain, Dest, Src
<1> QED
  BY <1>1, <1>6, <1>7 DEF Shape, Tracing

\* One more copy of the cycle is out.
LEMMA CycleCopyKeepsShape ==
  ASSUME Shape, EmitCycleCopy
  PROVE  Shape'
<1>1. /\ pc = "copies" /\ at < Len(cycle) /\ at' = at + 1
      /\ Emit(CopyStep(Dest(cycle[at]), Src(cycle[at])))
      /\ UNCHANGED <<moves, pending, pc, curr, visited, cycle>>
  BY DEF EmitCycleCopy
<1>2. cycle[at] \in DOMAIN moves
  BY <1>1 DEF Shape
<1>3. Dest(cycle[at]) \in Loc /\ Src(cycle[at]) \in Loc \cup Const
  BY <1>2, MovesFacts DEF Shape
<1>4. CopyStep(Dest(cycle[at]), Src(cycle[at])) \in Step
  BY <1>3 DEF CopyStep, Step
<1>5. steps' \in Seq(Step) /\ (pending \subseteq Real)'
  BY <1>1, <1>4, EmitKeepsType, PendingShrinks DEF Shape
<1>6. at' \in Nat \ {0} /\ at' <= Len(cycle)
  BY <1>1 DEF Shape
<1>7. Breaking'
  BY <1>1, <1>6 DEF Shape, Breaking, NoneReady, Ready, Chain, Dest, Src
<1> QED
  BY <1>1, <1>5, <1>6, <1>7 DEF Shape, Tracing

\* The whole cycle leaves the list.
LEMMA RestoreKeepsShape ==
  ASSUME Shape, EmitRestore
  PROVE  Shape'
<1>1. /\ pc = "copies" /\ at = Len(cycle)
      /\ Emit(RestoreStep(Dest(cycle[at])))
      /\ pending' \subseteq pending
      /\ pc' = "schedule"
      /\ UNCHANGED <<moves, curr, visited, cycle, at>>
  BY DEF EmitRestore
<1>2. cycle[at] \in DOMAIN moves
  BY <1>1 DEF Shape, Breaking
<1>3. Dest(cycle[at]) \in Loc
  BY <1>2, MovesFacts DEF Shape
<1>4. RestoreStep(Dest(cycle[at])) \in Step
  BY <1>3 DEF RestoreStep, Step
<1>5. steps' \in Seq(Step) /\ (pending \subseteq Real)'
  BY <1>1, <1>4, EmitKeepsType, PendingShrinks DEF Shape
<1> QED
  BY <1>1, <1>5 DEF Shape, Tracing, Breaking

\* No step of the sequentializer spoils the shape.
LEMMA StepKeepsShape ==
  ASSUME Shape, Next
  PROVE  Shape'
<1>1. ASSUME Return PROVE Shape'
  <2>1. /\ pending = {} /\ pc' = "done"
        /\ UNCHANGED <<moves, pending, curr, visited, cycle, at, steps>>
    BY <1>1 DEF Return
  <2>2. (pending \subseteq Real)'
    BY <2>1
  <2> QED
    BY <2>1, <2>2 DEF Shape, Tracing, Breaking
<1> QED
  BY <1>1, ReadyKeepsShape, StartTraceKeepsShape, TraceMoveKeepsShape,
     SwapKeepsShape, SaveKeepsShape, CycleCopyKeepsShape, RestoreKeepsShape
     DEF Next

-----------------------------------------------------------------------------
\* What the storage holds while the schedule runs.
Scheduled == Real \ Unscheduled

\* A scheduled destination holds what its move asked for ...
Written == \A i \in Scheduled : store[Dest(i)] = Src(i)

\* ... and every other location what it held at first.
Untouched ==
  \A l \in Loc : (\A i \in Scheduled : Dest(i) # l) => store[l] = l

\* What is retired overwrites nothing that is pending.
Retired == \A i \in Real \ pending : \A k \in pending : Dest(i) # Src(k)

\* The temporary holds what the first copy of the cycle overwrites.
Saved == pc = "copies" => temp = Dest(cycle[1])

IInv ==
  /\ Shape
  /\ TypeOK
  /\ Written
  /\ Untouched
  /\ Retired
  /\ Saved

-----------------------------------------------------------------------------
\* Appending a step to the schedule makes it the one that runs.
LEMMA StepEmitted ==
  ASSUME steps \in Seq(Step), NEW e \in Step, steps' = Append(steps, e)
  PROVE  steps' \in Seq(Step) /\ steps'[Len(steps')] = e
  OBVIOUS

\* A location that no scheduled move wrote is read as the edge found it.
LEMMA SourceIntact ==
  ASSUME TypeOK, Untouched, NEW i \in DOMAIN moves,
         \A k \in Scheduled : Dest(k) # Src(i)
  PROVE  Read(Src(i)) = Src(i)
<1>1. Src(i) \in Loc \cup Const
  BY MovesFacts DEF TypeOK
<1>2. CASE Src(i) \in Loc
  BY <1>2 DEF Untouched, Read
<1>3. CASE Src(i) \notin Loc
  BY <1>3 DEF Read
<1> QED
  BY <1>2, <1>3

\* Making one more move keeps the storage as the scheduled moves left it.
LEMMA MoveMade ==
  ASSUME TypeOK, Written, Untouched, moves' = moves,
         NEW i \in Real, i \notin Scheduled,
         Scheduled' = Scheduled \cup {i},
         store' = [store EXCEPT ![Dest(i)] = Src(i)]
  PROVE  Written' /\ Untouched'
<1>1. i \in DOMAIN moves /\ Dest(i) \in Loc
  BY MovesFacts DEF TypeOK, Real
<1>2. \A k \in Scheduled : k \in DOMAIN moves /\ Dest(k) # Dest(i)
  BY <1>1, MovesFacts DEF TypeOK, Scheduled, Real
<1>3. Written'
  <2> SUFFICES ASSUME NEW k \in Scheduled' PROVE store'[Dest(k)] = Src(k)
    BY <1>1, <1>2, MovesFixed DEF Written
  <2>1. CASE k = i
    BY <2>1, <1>1 DEF TypeOK
  <2>2. CASE k \in Scheduled
    BY <2>2, <1>2 DEF Written, TypeOK
  <2> QED
    BY <2>1, <2>2
<1>4. Untouched'
  BY <1>1, <1>2, MovesFixed DEF Untouched, TypeOK
<1> QED
  BY <1>3, <1>4

\* A ready move is copied: its source is intact, and nobody pending reads what
\* it overwrites.
LEMMA ReadyPreserves ==
  ASSUME IInv, EmitReady, Run(steps'[Len(steps')])
  PROVE  IInv'
<1>1. PICK i \in pending : /\ Ready(i)
                           /\ steps' = Append(steps, CopyStep(Dest(i), Src(i)))
                           /\ pending' = pending \ {i}
  BY DEF EmitReady, Emit
<1>2. /\ pc = "schedule" /\ pc' = "schedule" /\ moves' = moves
      /\ UNCHANGED <<curr, visited, cycle, at>>
  BY DEF EmitReady
<1>3. /\ i \in DOMAIN moves /\ i \in Real
      /\ Dest(i) \in Loc /\ Src(i) \in Loc \cup Const
  BY MovesFacts DEF IInv, Shape, TypeOK, Real
<1>4. CopyStep(Dest(i), Src(i)) \in Step
  BY <1>3 DEF CopyStep, Step
<1>5. steps' \in Seq(Step) /\ steps'[Len(steps')] = CopyStep(Dest(i), Src(i))
  BY <1>1, <1>4, StepEmitted DEF IInv, TypeOK
<1>6. temp' = temp /\ store' = [store EXCEPT ![Dest(i)] = Read(Src(i))]
  BY <1>5 DEF Run, CopyStep
<1>7. Unscheduled = pending /\ Unscheduled' = pending'
  BY <1>2 DEF Unscheduled
<1>8. Scheduled' = Scheduled \cup {i}
  BY <1>1, <1>2, <1>3, <1>7, MovesFixed DEF Scheduled
<1>9. Read(Src(i)) = Src(i)
  BY <1>3, <1>7, SourceIntact DEF IInv, Retired, Scheduled
<1>10. TypeOK'
  BY <1>1, <1>2, <1>3, <1>5, <1>6, <1>9 DEF IInv, TypeOK, Value
<1>11. Written' /\ Untouched'
  BY <1>2, <1>3, <1>6, <1>7, <1>8, <1>9, MoveMade DEF IInv, Scheduled
<1>12. Retired'
  <2> SUFFICES ASSUME NEW k \in Real \ pending', NEW l \in pending'
               PROVE  Dest(k) # Src(l)
    BY <1>1, <1>2, MovesFixed DEF Retired, Real, IInv, TypeOK
  <2>1. CASE k = i
    BY <2>1, <1>1 DEF Ready
  <2>2. CASE k # i
    BY <2>2, <1>1 DEF IInv, Retired
  <2> QED
    BY <2>1, <2>2
<1> QED
  BY <1>2, <1>10, <1>11, <1>12, ReadyKeepsShape DEF IInv, Saved

\* The trace starts only when every pending move is read by another.
LEMMA StartTracePreserves ==
  ASSUME IInv, StartTrace, UNCHANGED <<store, temp>>
  PROVE  IInv'
<1>1. /\ pc = "schedule" /\ pc' = "trace" /\ visited' = <<>>
      /\ curr' \in pending
      /\ \A i \in pending : ~Ready(i)
      /\ UNCHANGED <<moves, pending, cycle, at, steps, store, temp>>
  BY DEF StartTrace
<1>2. TypeOK'
  BY <1>1 DEF IInv, TypeOK
<1>3. Unscheduled' = Unscheduled /\ Scheduled' = Scheduled
  BY <1>1, MovesFixed DEF Unscheduled, Scheduled
<1>4. Written' /\ Untouched' /\ Retired'
  BY <1>1, <1>3, MovesFixed
     DEF IInv, Written, Untouched, Retired, Scheduled, Real, Dest, Src
<1> QED
  BY <1>1, <1>2, <1>4, StartTraceKeepsShape DEF IInv, Saved

\* The trace goes on along the cycle; some pending move always writes what the
\* current one reads.
LEMMA TraceMovePreserves ==
  ASSUME IInv, TraceMove, UNCHANGED <<store, temp>>
  PROVE  IInv'
<1>1. /\ pc = "trace" /\ curr \notin Visited
      /\ visited' = Append(visited, curr)
      /\ UNCHANGED <<moves, pending, cycle, at, steps, store, temp>>
  BY DEF TraceMove
<1>2. TypeOK'
  BY <1>1, TraceMoveKeepsShape DEF IInv, Shape, TypeOK, Real
<1>3. Unscheduled' = Unscheduled /\ Scheduled' = Scheduled
  BY <1>1, MovesFixed DEF TraceMove, Unscheduled, Scheduled
<1>4. Written' /\ Untouched' /\ Retired'
  BY <1>1, <1>3, MovesFixed
     DEF IInv, Written, Untouched, Retired, Scheduled, Real, Dest, Src
<1>5. pc' # "copies"
  BY <1>1 DEF TraceMove
<1> QED
  BY <1>2, <1>4, <1>5, TraceMoveKeepsShape DEF IInv, Saved

\* Nothing is left to schedule.
LEMMA ReturnPreserves ==
  ASSUME IInv, Return, UNCHANGED <<store, temp>>
  PROVE  IInv'
<1>1. /\ pc = "schedule" /\ pc' = "done" /\ pending = {}
      /\ UNCHANGED <<moves, pending, curr, visited, cycle, at, steps>>
      /\ UNCHANGED <<store, temp>>
  BY DEF Return
<1>2. TypeOK'
  BY <1>1 DEF IInv, TypeOK
<1>3. Unscheduled' = Unscheduled /\ Scheduled' = Scheduled
  BY <1>1, MovesFixed DEF Unscheduled, Scheduled
<1>4. Written' /\ Untouched' /\ Retired'
  BY <1>1, <1>3, MovesFixed
     DEF IInv, Written, Untouched, Retired, Scheduled, Real, Dest, Src
<1> QED
  BY <1>1, <1>2, <1>4, StepKeepsShape DEF IInv, Saved, Next

-----------------------------------------------------------------------------
\* A two-cycle is a swap: both locations hold what the edge found there.
LEMMA SwapPreserves ==
  ASSUME IInv, EmitSwap, Run(steps'[Len(steps')])
  PROVE  IInv'
<1> DEFINE i == visited[1]
           k == visited[2]
<1>1. /\ CycleClosed /\ Len(visited) = 2
      /\ steps' = Append(steps, SwapStep(Dest(i), Dest(k)))
      /\ pending' = pending \ Members(visited)
      /\ pc = "trace" /\ pc' = "schedule"
      /\ UNCHANGED <<moves, curr, visited, cycle, at>>
  BY ClosedTrace DEF IInv, EmitSwap, Emit, CycleClosed
<1>2. NoneReady /\ Chain(visited) /\ Src(k) = Dest(i)
  BY <1>1, ClosedTrace DEF IInv
<1>3. DOMAIN visited = 1..2 /\ visited \in Seq(DOMAIN moves)
  BY <1>1 DEF IInv, TypeOK
<1>4. /\ i \in pending /\ k \in pending /\ i # k
      /\ Dest(k) = Src(i)
      /\ Members(visited) = {i, k}
  BY <1>2, <1>3 DEF Chain, Members
<1>5. /\ i \in Real /\ k \in Real
      /\ i \in DOMAIN moves /\ k \in DOMAIN moves
  BY <1>4 DEF IInv, Shape, Real
<1>6. Dest(i) \in Loc /\ Dest(k) \in Loc /\ Dest(i) # Dest(k)
  BY <1>4, <1>5, MovesFacts DEF IInv, TypeOK
<1>7. SwapStep(Dest(i), Dest(k)) \in Step
  BY <1>6 DEF SwapStep, Step
<1>8. steps' \in Seq(Step) /\ steps'[Len(steps')] = SwapStep(Dest(i), Dest(k))
  BY <1>1, <1>7, StepEmitted DEF IInv, TypeOK
<1>9. /\ temp' = temp
      /\ store' = [store EXCEPT ![Dest(i)] = Read(Dest(k)),
                                ![Dest(k)] = store[Dest(i)]]
  BY <1>8 DEF Run, SwapStep
<1>10. Unscheduled = pending /\ Unscheduled' = pending'
  BY <1>1 DEF Unscheduled
<1>11. Scheduled' = Scheduled \cup {i, k}
  BY <1>1, <1>4, <1>5, <1>10, MovesFixed DEF Scheduled
<1>12. \A l \in Scheduled : /\ l \in DOMAIN moves
                             /\ Dest(l) # Dest(i) /\ Dest(l) # Dest(k)
  BY <1>4, <1>5, <1>10, MovesFacts DEF Scheduled, Real, IInv, TypeOK
<1>13. Read(Dest(k)) = Dest(k) /\ store[Dest(i)] = Dest(i)
  BY <1>6, <1>12 DEF IInv, Untouched, Read
<1>14. TypeOK'
  BY <1>1, <1>6, <1>8, <1>9, <1>13 DEF IInv, TypeOK, Value
<1>15. store' \in [Loc -> Value] /\ store'[Dest(i)] = Src(i) /\ store'[Dest(k)] = Src(k)
  BY <1>2, <1>4, <1>6, <1>9, <1>13, <1>14 DEF IInv, TypeOK
<1>16. \A l \in Loc : l # Dest(i) /\ l # Dest(k) => store'[l] = store[l]
  BY <1>6, <1>9 DEF IInv, TypeOK
<1>17. Written'
  <2> SUFFICES ASSUME NEW l \in Scheduled' PROVE store'[Dest(l)] = Src(l)
    BY <1>1, <1>5, <1>11, <1>12, MovesFixed DEF Written
  <2>1. CASE l \in {i, k}
    BY <2>1, <1>15
  <2>2. CASE l \in Scheduled
    BY <2>2, <1>12, <1>16, MovesFacts DEF IInv, Written, TypeOK
  <2> QED
    BY <2>1, <2>2, <1>11
<1>18. Untouched'
  BY <1>1, <1>5, <1>11, <1>12, <1>16, MovesFixed DEF IInv, Untouched
<1>19. Retired'
  <2> SUFFICES ASSUME NEW l \in Real \ pending', NEW m \in pending'
               PROVE  Dest(l) # Src(m)
    BY <1>1, MovesFixed DEF Retired, Real, IInv, TypeOK
  <2>1. CASE l \in {i, k}
    <3>1. m \in pending \ Members(visited) /\ Src(visited[Len(visited)]) = Dest(visited[1])
      BY <1>1, <1>2
    <3>2. moves \in MoveLists /\ pending \subseteq Real /\ NoneReady /\ Chain(visited)
      BY <1>2 DEF IInv, Shape
    <3>3. visited \in Seq(DOMAIN moves) /\ Len(visited) # 0
      BY <1>1, <1>3
    <3>4. \A p \in DOMAIN visited : \A l1 \in pending \ Members(visited) :
             Dest(visited[p]) # Src(l1)
      BY <3>1, <3>2, <3>3, CycleIsClosed
    <3> QED
      BY <2>1, <1>3, <3>1, <3>4
  <2>2. CASE l \notin {i, k}
    BY <2>2, <1>1, <1>4 DEF IInv, Retired
  <2> QED
    BY <2>1, <2>2
<1> QED
  BY <1>1, <1>14, <1>17, <1>18, <1>19, SwapKeepsShape DEF IInv, Saved

\* The save keeps the one value of the cycle that the copies will overwrite
\* before it is read.
LEMMA SavePreserves ==
  ASSUME IInv, EmitSave, Run(steps'[Len(steps')])
  PROVE  IInv'
<1> DEFINE i == visited[1]
<1>1. /\ CycleClosed /\ Len(visited) # 2
      /\ steps' = Append(steps, SaveStep(Dest(i)))
      /\ cycle' = visited /\ at' = 1
      /\ pc = "trace" /\ pc' = "copies"
      /\ UNCHANGED <<moves, pending, curr, visited>>
  BY ClosedTrace DEF IInv, EmitSave, Emit, CycleClosed
<1>2. Chain(visited) /\ Len(visited) >= 2
  BY <1>1, ClosedTrace DEF IInv
<1>3. visited \in Seq(DOMAIN moves) /\ DOMAIN visited = 1..Len(visited)
  BY DEF IInv, TypeOK
<1>4. i \in pending /\ i \in DOMAIN moves
  BY <1>2, <1>3 DEF Chain
<1>5. Dest(i) \in Loc
  BY <1>4, MovesFacts DEF IInv, TypeOK
<1>6. SaveStep(Dest(i)) \in Step
  BY <1>5 DEF SaveStep, Step
<1>7. steps' \in Seq(Step) /\ steps'[Len(steps')] = SaveStep(Dest(i))
  BY <1>1, <1>6, StepEmitted DEF IInv, TypeOK
<1>8. store' = store /\ temp' = Read(Dest(i))
  BY <1>7 DEF Run, SaveStep
<1>9. Unscheduled = pending /\ Unscheduled' = pending
  BY <1>1 DEF Unscheduled
<1>10. Scheduled' = Scheduled
  BY <1>1, <1>9, MovesFixed DEF Scheduled
<1>11. \A l \in Scheduled : Dest(l) # Dest(i)
  BY <1>4, <1>9, MovesFacts DEF Scheduled, Real, IInv, TypeOK
<1>12. temp' = Dest(i)
  BY <1>5, <1>8, <1>11 DEF IInv, Untouched, Read
<1>13. TypeOK'
  BY <1>1, <1>3, <1>5, <1>7, <1>8, <1>12 DEF IInv, TypeOK, Value
<1>14. Written' /\ Untouched' /\ Retired'
  BY <1>1, <1>8, <1>10, MovesFixed
     DEF IInv, Written, Untouched, Retired, Scheduled, Real, Dest, Src
<1>15. Saved'
  BY <1>1, <1>4, <1>12, MovesFixed DEF Saved
<1> QED
  BY <1>13, <1>14, <1>15, SaveKeepsShape DEF IInv

\* A copy along the cycle reads a location that the cycle has not overwritten.
LEMMA CycleCopyPreserves ==
  ASSUME IInv, EmitCycleCopy, Run(steps'[Len(steps')])
  PROVE  IInv'
<1> DEFINE i == cycle[at]
<1>1. /\ pc = "copies" /\ at < Len(cycle) /\ at' = at + 1
      /\ steps' = Append(steps, CopyStep(Dest(i), Src(i)))
      /\ UNCHANGED <<moves, pending, pc, curr, visited, cycle>>
  BY DEF EmitCycleCopy, Emit
<1>2. /\ NoneReady /\ Chain(cycle) /\ Len(cycle) >= 2
      /\ Src(cycle[Len(cycle)]) = Dest(cycle[1]) /\ temp = Dest(cycle[1])
  BY <1>1 DEF IInv, Shape, Saved, Breaking
<1>3. /\ cycle \in Seq(DOMAIN moves) /\ DOMAIN cycle = 1..Len(cycle)
      /\ at \in DOMAIN cycle /\ at + 1 \in DOMAIN cycle
      /\ at \in Nat \ {0} /\ Len(cycle) \in Nat
  BY <1>1 DEF IInv, TypeOK
<1>4. /\ i \in pending /\ cycle[at + 1] \in pending
      /\ Dest(cycle[at + 1]) = Src(i)
  BY <1>2, <1>3 DEF Chain
<1>5. /\ i \in Real /\ cycle[at + 1] \in Real
      /\ i \in DOMAIN moves /\ cycle[at + 1] \in DOMAIN moves
  BY <1>4 DEF IInv, Shape, Real
<1>6. Dest(i) \in Loc /\ Src(i) \in Loc \cup Const
  BY <1>5, MovesFacts DEF IInv, TypeOK
<1>7. CopyStep(Dest(i), Src(i)) \in Step
  BY <1>6 DEF CopyStep, Step
<1>8. steps' \in Seq(Step) /\ steps'[Len(steps')] = CopyStep(Dest(i), Src(i))
  BY <1>1, <1>7, StepEmitted DEF IInv, TypeOK
<1>9. temp' = temp /\ store' = [store EXCEPT ![Dest(i)] = Read(Src(i))]
  BY <1>8 DEF Run, CopyStep
<1>10. /\ Unscheduled = pending \ {cycle[p] : p \in 1..(at - 1)}
       /\ Unscheduled' = Unscheduled \ {i}
  <2>1. Unscheduled' = pending \ {cycle[p] : p \in 1..at}
    BY <1>1, <1>3 DEF Unscheduled
  <2>2. 1..at = (1..(at - 1)) \cup {at}
    BY <1>3
  <2> QED
    BY <1>1, <2>1, <2>2 DEF Unscheduled
<1>11. \A p \in 1..(at - 1) : cycle[p] # i /\ cycle[p] # cycle[at + 1]
  <2> TAKE p \in 1..(at - 1)
  <2>1. p \in DOMAIN cycle /\ p # at /\ p # at + 1
    BY <1>3
  <2> QED
    BY <1>2, <1>3, <2>1 DEF Chain
<1>12. i \in Unscheduled /\ cycle[at + 1] \in Unscheduled
  BY <1>4, <1>10, <1>11
<1>13. Scheduled' = Scheduled \cup {i} /\ i \notin Scheduled
  BY <1>1, <1>5, <1>10, <1>12, MovesFixed DEF Scheduled
<1>14. \A l \in Scheduled : Dest(l) # Src(i)
  BY <1>4, <1>5, <1>12, MovesFacts DEF Scheduled, Real, IInv, TypeOK
<1>15. Read(Src(i)) = Src(i)
  BY <1>5, <1>14, SourceIntact DEF IInv
<1>16. TypeOK'
  BY <1>1, <1>3, <1>6, <1>8, <1>9, <1>15 DEF IInv, TypeOK, Value
<1>17. Written' /\ Untouched'
  BY <1>1, <1>5, <1>9, <1>13, <1>15, MoveMade DEF IInv
<1>18. Retired' /\ Saved'
  BY <1>1, <1>2, <1>3, <1>9, MovesFixed
     DEF IInv, Retired, Saved, Real, Identities, Dest, Src
<1> QED
  BY <1>16, <1>17, <1>18, CycleCopyKeepsShape DEF IInv

\* The restore makes the last move of the cycle from the temporary.
LEMMA RestorePreserves ==
  ASSUME IInv, EmitRestore, Run(steps'[Len(steps')])
  PROVE  IInv'
<1> DEFINE i == cycle[at]
<1>1. /\ pc = "copies" /\ pc' = "schedule" /\ at = Len(cycle)
      /\ steps' = Append(steps, RestoreStep(Dest(i)))
      /\ pending' = pending \ Members(cycle)
      /\ UNCHANGED <<moves, curr, visited, cycle, at>>
  BY DEF EmitRestore, Emit
<1>2. /\ NoneReady /\ Chain(cycle) /\ Len(cycle) >= 2
      /\ Src(i) = Dest(cycle[1]) /\ temp = Src(i)
  BY <1>1 DEF IInv, Shape, Saved, Breaking
<1>3. /\ cycle \in Seq(DOMAIN moves) /\ DOMAIN cycle = 1..at
      /\ at \in Nat \ {0} /\ at \in DOMAIN cycle /\ 1 \in DOMAIN cycle
  BY <1>1 DEF IInv, TypeOK
<1>4. i \in pending /\ i \in Real /\ i \in DOMAIN moves
  BY <1>2, <1>3 DEF Chain, IInv, Shape, Real
<1>5. /\ Dest(i) \in Loc /\ Src(i) \in Loc
  BY <1>2, <1>3, <1>4, MovesFacts DEF IInv, TypeOK
<1>6. RestoreStep(Dest(i)) \in Step
  BY <1>5 DEF RestoreStep, Step
<1>7. steps' \in Seq(Step) /\ steps'[Len(steps')] = RestoreStep(Dest(i))
  BY <1>1, <1>6, StepEmitted DEF IInv, TypeOK
<1>8. temp' = temp /\ store' = [store EXCEPT ![Dest(i)] = Src(i)]
  BY <1>2, <1>7 DEF Run, RestoreStep
<1>9. /\ Unscheduled = pending \ {cycle[p] : p \in 1..(at - 1)}
      /\ Unscheduled' = Unscheduled \ {i}
  <2>1. Members(cycle) = {cycle[p] : p \in 1..at}
    BY <1>3 DEF Members
  <2>2. 1..at = (1..(at - 1)) \cup {at}
    BY <1>3
  <2> QED
    BY <1>1, <2>1, <2>2 DEF Unscheduled
<1>10. i \in Unscheduled
  BY <1>2, <1>3, <1>4, <1>9 DEF Chain
<1>11. Scheduled' = Scheduled \cup {i} /\ i \notin Scheduled
  BY <1>1, <1>4, <1>9, <1>10, MovesFixed DEF Scheduled
<1>12. TypeOK'
  BY <1>1, <1>3, <1>5, <1>7, <1>8 DEF IInv, TypeOK, Value
<1>13. Written' /\ Untouched'
  BY <1>1, <1>4, <1>8, <1>11, MoveMade DEF IInv
<1>14. Retired'
  <2> SUFFICES ASSUME NEW l \in Real \ pending', NEW m \in pending'
               PROVE  Dest(l) # Src(m)
    BY <1>1, MovesFixed DEF Retired, Real, IInv, TypeOK
  <2>1. CASE l \in Members(cycle)
    <3>1. \A p \in DOMAIN cycle : Dest(cycle[p]) # Src(m)
      BY <1>1, <1>2, CycleIsClosed DEF IInv, Shape, TypeOK
    <3> QED
      BY <2>1, <3>1 DEF Members
  <2>2. CASE l \notin Members(cycle)
    BY <2>2, <1>1 DEF IInv, Retired
  <2> QED
    BY <2>1, <2>2
<1> QED
  BY <1>1, <1>12, <1>13, <1>14, RestoreKeepsShape DEF IInv, Saved

-----------------------------------------------------------------------------
\* Before anything is scheduled the storage is untouched and nothing is on its way.
LEMMA InitEstablishes == MInit => IInv
<1> SUFFICES ASSUME MInit PROVE IInv
  OBVIOUS
<1>1. /\ moves \in MoveLists /\ pending = Real /\ pc = "schedule"
      /\ curr = 0 /\ visited = <<>> /\ cycle = <<>> /\ at = 1 /\ steps = <<>>
      /\ store = [l \in Loc |-> l] /\ temp = Unset
  BY DEF MInit, Init, Real
<1>2. Scheduled = {}
  BY <1>1 DEF Scheduled, Unscheduled
<1>3. TypeOK
  BY <1>1 DEF TypeOK, Value, Real
<1> QED
  BY <1>1, <1>2, <1>3
     DEF IInv, Shape, Written, Untouched, Retired, Saved, Tracing, Breaking

\* The inductive step: the preservation lemmas, one per action, together.
LEMMA StepPreserves == IInv /\ [MNext]_mvars => IInv'
<1> SUFFICES ASSUME IInv, [MNext]_mvars PROVE IInv'
  OBVIOUS
<1>1. ASSUME Emitting PROVE IInv'
  BY <1>1, ReadyPreserves, SwapPreserves, SavePreserves, CycleCopyPreserves,
     RestorePreserves DEF Emitting
<1>2. ASSUME Planning PROVE IInv'
  BY <1>2, StartTracePreserves, TraceMovePreserves, ReturnPreserves DEF Planning
<1>3. ASSUME UNCHANGED mvars PROVE IInv'
  <2>1. Shape'
    BY <1>3 DEF mvars, IInv, Shape, Tracing, Breaking, Real, Identities,
       NoneReady, Ready, Chain, Dest, Src
  <2>2. TypeOK' /\ UNCHANGED mvars
    BY <1>3 DEF IInv, TypeOK, mvars
  <2>3. Unscheduled' = Unscheduled
    BY <1>3 DEF mvars, Unscheduled
  <2> QED
    BY <2>1, <2>2, <2>3 DEF mvars, IInv, Written, Untouched, Retired, Saved,
       Scheduled, Real, Identities, Dest, Src
<1> QED
  BY <1>1, <1>2, <1>3 DEF MNext, Terminated

-----------------------------------------------------------------------------
\* Every reachable state satisfies the inductive invariant.
THEOREM Invariance == Spec => []IInv
  BY InitEstablishes, StepPreserves, PTL DEF Spec

\* The sequentializer's state has its type, and no step stores an unset value.
THEOREM TypeCorrect == Spec => []TypeOK
<1>1. IInv => TypeOK
  BY DEF IInv
<1> QED
  BY <1>1, Invariance, PTL

\* No value is overwritten before it is read (parallel_copy.go:53-56).
THEOREM NoCopyIsLost == Spec => []NoLostCopy
<1>1. ASSUME IInv PROVE NoLostCopy
  <2> SUFFICES ASSUME NEW i \in Unscheduled
               PROVE  \/ Read(Src(i)) = Src(i)
                      \/ pc = "copies" /\ i = cycle[Len(cycle)] /\ temp = Src(i)
    BY DEF NoLostCopy
  <2>1. i \in pending /\ i \in DOMAIN moves
    BY <1>1 DEF IInv, TypeOK, Unscheduled
  <2>2. CASE pc # "copies"
    <3>1. \A k \in Scheduled : Dest(k) # Src(i)
      BY <1>1, <2>1, <2>2 DEF IInv, Retired, Scheduled, Unscheduled
    <3> QED
      BY <1>1, <2>1, <3>1, SourceIntact DEF IInv
  <2>3. CASE pc = "copies"
    <3>1. /\ NoneReady /\ Chain(cycle) /\ Len(cycle) >= 2 /\ at <= Len(cycle)
          /\ Src(cycle[Len(cycle)]) = Dest(cycle[1]) /\ temp = Dest(cycle[1])
      BY <1>1, <2>3 DEF IInv, Shape, Saved, Breaking
    <3>2. /\ cycle \in Seq(DOMAIN moves) /\ DOMAIN cycle = 1..Len(cycle)
          /\ Len(cycle) \in Nat /\ at \in Nat \ {0} /\ Len(cycle) # 0
      BY <1>1, <3>1 DEF IInv, TypeOK
    <3>3. \A k \in Scheduled :
             \/ k \in Real \ pending
             \/ \E p \in 1..(at - 1) : k = cycle[p]
      BY <2>3 DEF Scheduled, Unscheduled
    <3>4. CASE i \notin Members(cycle)
      <4>1. \A p \in DOMAIN cycle : Dest(cycle[p]) # Src(i)
        BY <1>1, <2>1, <3>1, <3>2, <3>4, CycleIsClosed DEF IInv, Shape
      <4>2. 1..(at - 1) \subseteq DOMAIN cycle
        BY <3>1, <3>2
      <4>3. \A k \in Scheduled : Dest(k) # Src(i)
        BY <1>1, <2>1, <3>3, <4>1, <4>2 DEF IInv, Retired
      <4> QED
        BY <1>1, <2>1, <4>3, SourceIntact DEF IInv
    <3>5. CASE i \in Members(cycle)
      <4>1. PICK q \in DOMAIN cycle : i = cycle[q]
        BY <3>5 DEF Members
      <4>2. q \notin 1..(at - 1)
        BY <2>3, <4>1 DEF Unscheduled
      <4>3. CASE q = Len(cycle)
        BY <2>3, <3>1, <4>1, <4>3
      <4>4. CASE q # Len(cycle)
        <5>1. q + 1 \in DOMAIN cycle /\ q + 1 # 1 /\ q = (q + 1) - 1
          BY <3>2, <4>4
        <5>2. cycle[q + 1] \in pending /\ Dest(cycle[q + 1]) = Src(i)
          BY <3>1, <4>1, <5>1 DEF Chain
        <5>3. \A p \in 1..(at - 1) : p \in DOMAIN cycle /\ p # q + 1
          BY <3>1, <3>2, <4>2, <5>1
        <5>4. \A p \in 1..(at - 1) : cycle[p] # cycle[q + 1]
          BY <3>1, <5>1, <5>3 DEF Chain
        <5>5. cycle[q + 1] \notin Scheduled
          BY <3>3, <5>2, <5>4
        <5>6. \A k \in Scheduled : Dest(k) # Src(i)
          BY <1>1, <5>2, <5>5, MovesFacts DEF Scheduled, Real, IInv, TypeOK
        <5> QED
          BY <1>1, <2>1, <5>6, SourceIntact DEF IInv
      <4> QED
        BY <4>3, <4>4
    <3> QED
      BY <3>4, <3>5
  <2> QED
    BY <2>2, <2>3
<1> QED
  BY <1>1, Invariance, PTL

\* What cannot be ordered is a union of cycles, and a trace walks one of them.
THEOREM TracesAreCycles == Spec => []TraceClosesAtStart
<1>1. ASSUME IInv PROVE TraceClosesAtStart
  <2>1. ASSUME pc = "trace" PROVE Writers(curr) # {}
    <3>1. NoneReady /\ curr \in pending
      BY <1>1, <2>1 DEF IInv, Shape, Tracing
    <3> QED
      BY <1>1, <3>1, NoneReadyIsPermutation DEF IInv, Shape, Writers
  <2>2. ASSUME CycleClosed PROVE curr = visited[1] /\ Len(visited) >= 2
    BY <1>1, <2>2, ClosedTrace DEF IInv
  <2> QED
    BY <2>1, <2>2 DEF TraceClosesAtStart
<1> QED
  BY <1>1, Invariance, PTL

-----------------------------------------------------------------------------
\* With nothing left to schedule, the storage is what the moves ask for at once.
LEMMA NothingLeftIsAllMoved ==
  ASSUME IInv, pending = {}, pc # "copies"
  PROVE  store = Assignment!AllMoved(moves, [l \in Loc |-> l])
<1>1. Scheduled = Real
  BY DEF Scheduled, Unscheduled
<1> DEFINE init == [l \in Loc |-> l]
<1>2. ASSUME NEW l \in Loc PROVE store[l] = Assignment!Moved(moves, init, l)
  <2>1. CASE \E i \in DOMAIN moves : moves[i].dest = l
    <3> DEFINE i == CHOOSE i \in DOMAIN moves : moves[i].dest = l
    <3>1. i \in DOMAIN moves /\ moves[i].dest = l
      BY <2>1
    <3>2. Assignment!Moved(moves, init, l) = moves[i].src
      BY <2>1 DEF Assignment!Moved
    <3>3. CASE i \in Real
      BY <1>1, <3>1, <3>2, <3>3 DEF IInv, Written, Dest, Src
    <3>4. CASE i \notin Real
      <4>1. moves[i].src = l
        BY <3>1, <3>4 DEF Real, Identities, Dest, Src
      <4>2. \A k \in Scheduled : Dest(k) # l
        BY <1>1, <3>1, <3>4, MovesFacts DEF Real, Dest, IInv, TypeOK
      <4> QED
        BY <3>2, <4>1, <4>2 DEF IInv, Untouched
    <3> QED
      BY <3>3, <3>4
  <2>2. CASE ~\E i \in DOMAIN moves : moves[i].dest = l
    <3>1. Assignment!Moved(moves, init, l) = l
      BY <2>2 DEF Assignment!Moved
    <3>2. \A k \in Scheduled : Dest(k) # l
      BY <1>1, <2>2 DEF Real, Dest
    <3> QED
      BY <3>1, <3>2 DEF IInv, Untouched
  <2> QED
    BY <2>1, <2>2
<1>3. store \in [Loc -> Value]
  BY DEF IInv, TypeOK
<1> QED
  BY <1>2, <1>3 DEF Assignment!AllMoved

\* So it is when the sequentializer is done.
LEMMA DoneIsAllMoved ==
  IInv /\ pc = "done" => store = Assignment!AllMoved(moves, [l \in Loc |-> l])
  BY NothingLeftIsAllMoved DEF IInv, Shape

\* The emitted schedule implements the parallel assignment of the edge: however
\* many copies, swaps, saves and restores it takes, storage changes as if by one
\* simultaneous move.
THEOREM Refinement == Spec => ImplementsParallelAssign
<1>1. MInit => Assignment!Init
  BY DEF MInit, Init, Assignment!Init
<1>2. IInv /\ [MNext]_mvars => [Assignment!Cross]_(Assignment!vars)
  <2> SUFFICES ASSUME IInv, [MNext]_mvars
               PROVE  [Assignment!Cross]_(Assignment!vars)
    OBVIOUS
  <2>1. CASE Emitting
    <3>1. pc # "done" /\ pc' # "done" /\ moves' = moves
      BY <2>1 DEF Emitting, EmitReady, EmitSwap, EmitSave, EmitCycleCopy,
         EmitRestore, CycleClosed
    <3> QED
      BY <3>1 DEF Assignment!vars
  <2>2. CASE Planning
    <3>1. CASE Return
      <4>1. pc # "done" /\ pc' = "done" /\ moves' = moves /\ store' = store
        BY <2>2, <3>1 DEF Planning, Return
      <4>2. store = Assignment!AllMoved(moves, [l \in Loc |-> l])
        BY <3>1, NothingLeftIsAllMoved DEF Return
      <4> QED
        BY <4>1, <4>2 DEF Assignment!Cross
    <3>2. CASE ~Return
      <4>1. pc # "done" /\ pc' # "done" /\ moves' = moves
        BY <2>2, <3>2 DEF Planning, StartTrace, TraceMove
      <4> QED
        BY <4>1 DEF Assignment!vars
    <3> QED
      BY <3>1, <3>2
  <2>3. CASE UNCHANGED mvars
    BY <2>3 DEF mvars, Assignment!vars
  <2> QED
    BY <2>1, <2>2, <2>3 DEF MNext, Terminated
<1> QED
  BY <1>1, <1>2, Invariance, PTL
     DEF Spec, ImplementsParallelAssign, Assignment!Spec
=============================================================================
