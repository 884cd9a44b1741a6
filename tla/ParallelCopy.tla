---------------------------- MODULE ParallelCopy ----------------------------
(***************************************************************************)
(* The parallel copy sequentializer, SequentializeParallelCopies of        *)
(* opt/parallel_copy.go.  A control-flow edge into a block with phis is a  *)
(* set of moves Dest <- Src that happen at once; the sequentializer orders *)
(* them into copies, swaps, and a save and a restore around a long cycle.  *)
(*                                                                         *)
(* Every append to "steps" in the code is a step of this machine.  The     *)
(* code's slice "pending" always lists moves in their original order, so   *)
(* here it is the set of their indices and "the first" is the least.       *)
(***************************************************************************)
EXTENDS Naturals, Sequences, FiniteSets

CONSTANTS Loc,       \* storage a move can write: stack slots and registers
          Const,     \* sources that are never a destination
          MaxMoves   \* the longest list of moves considered

ASSUME LocAssumption   == IsFiniteSet(Loc) /\ Loc \cap Const = {}
ASSUME MovesAssumption == MaxMoves \in Nat

VARIABLES
  moves,     \* the argument: a list of parallel moves, never changed
  pending,   \* indices of the moves not yet scheduled
  pc,        \* "schedule" (outer loop), "trace", "copies" or "done"
  curr,      \* the move the trace looks at
  visited,   \* the moves traced so far
  cycle,     \* cycleIndices, while its copies are emitted
  at,        \* how many of the cycle's copies are emitted, plus one
  steps      \* the schedule emitted so far

vars == <<moves, pending, pc, curr, visited, cycle, at, steps>>

Move == [dest : Loc, src : Loc \cup Const]

Dest(i) == moves[i].dest
Src(i)  == moves[i].src

\* One phi owns one destination, so the destinations of an edge differ.
MoveLists ==
  {m \in UNION {[1..n -> Move] : n \in 0..MaxMoves} :
     \A i, k \in DOMAIN m : m[i].dest = m[k].dest => i = k}

CopyStep(d, s)   == [kind |-> "copy", dest |-> d, src |-> s]
SwapStep(l1, l2) == [kind |-> "swap", dest |-> l1, src |-> l2]
SaveStep(s)      == [kind |-> "save", dest |-> s, src |-> s]
RestoreStep(d)   == [kind |-> "restore", dest |-> d, src |-> d]

Step == [kind : {"copy", "swap", "save", "restore"},
         dest : Loc, src : Loc \cup Const]

Emit(s) == steps' = Append(steps, s)

Identities == {i \in DOMAIN moves : Dest(i) = Src(i)}

Init ==
  /\ moves \in MoveLists
  /\ pending = DOMAIN moves \ Identities
  /\ pc = "schedule"
  /\ curr = 0 /\ visited = <<>> /\ cycle = <<>> /\ at = 1
  /\ steps = <<>>

-----------------------------------------------------------------------------
\* Mutant: the scan for readers stops one move short of the end of the list.
ReadyMissingLast(i) ==
  \A k \in pending \ {i} :
     (\E l \in pending : l > k) => Src(k) # Dest(i)

\* Mutant: a move also waits for its own source to be rewritten.
ReadyBothWays(i) ==
  \A k \in pending \ {i} : Src(k) # Dest(i) /\ Dest(k) # Src(i)

\* No other pending move still reads the location that move i overwrites.
Ready(i) == \A k \in pending \ {i} : Src(k) # Dest(i)

EmitReady ==
  /\ pc = "schedule"
  /\ \E i \in pending :
       /\ Ready(i)
       /\ \A k \in pending : k < i => ~Ready(k)
       /\ Emit(CopyStep(Dest(i), Src(i)))
       /\ pending' = pending \ {i}
  /\ UNCHANGED <<moves, pc, curr, visited, cycle, at>>

\* Nothing is ready: every pending move lies on a cycle.
StartTrace ==
  /\ pc = "schedule"
  /\ pending # {}
  /\ \A i \in pending : ~Ready(i)
  /\ pc' = "trace"
  /\ visited' = <<>>
  /\ curr' \in pending /\ \A i \in pending : curr' <= i
  /\ UNCHANGED <<moves, pending, cycle, at, steps>>

Visited == {visited[p] : p \in DOMAIN visited}

\* The pending moves that write what move i reads.
Writers(i) == {k \in pending : Dest(k) = Src(i)}

\* Go on to the move that writes what this one reads.  The code's fallback for
\* "no such move" leaves the trace, with nothing scheduled.
TraceMove ==
  /\ pc = "trace"
  /\ curr \notin Visited
  /\ visited' = Append(visited, curr)
  /\ IF Writers(curr) = {}
     THEN pc' = "schedule" /\ curr' = curr
     ELSE /\ pc' = pc
          /\ curr' \in Writers(curr) /\ \A k \in Writers(curr) : curr' <= k
  /\ UNCHANGED <<moves, pending, cycle, at, steps>>

-----------------------------------------------------------------------------
CycleClosed == pc = "trace" /\ curr \in Visited

\* cycleIndices: the trace from the move that closes it onwards.
CycleIndices ==
  LET pos == CHOOSE p \in DOMAIN visited : visited[p] = curr
  IN  SubSeq(visited, pos, Len(visited))

Members(c) == {c[p] : p \in DOMAIN c}

EmitSwap ==
  /\ CycleClosed
  /\ Len(CycleIndices) = 2
  /\ Emit(SwapStep(Dest(CycleIndices[1]), Dest(CycleIndices[2])))
  /\ pending' = pending \ Members(CycleIndices)
  /\ pc' = "schedule"
  /\ UNCHANGED <<moves, curr, visited, cycle, at>>

\* Mutant: the location saved is the source of the first move.
EmitSaveOfSrc ==
  /\ CycleClosed
  /\ Len(CycleIndices) # 2
  /\ cycle' = CycleIndices /\ at' = 1
  /\ Emit(SaveStep(Src(CycleIndices[1])))
  /\ pc' = "copies"
  /\ UNCHANGED <<moves, pending, curr, visited>>

\* Mutant: the cycle is broken without saving anything.
EmitNoSave ==
  /\ CycleClosed
  /\ Len(CycleIndices) # 2
  /\ cycle' = CycleIndices /\ at' = 2
  /\ Emit(CopyStep(Dest(CycleIndices[1]), Src(CycleIndices[1])))
  /\ pc' = "copies"
  /\ UNCHANGED <<moves, pending, curr, visited>>

\* A longer cycle is broken by saving its first destination.
EmitSave ==
  /\ CycleClosed
  /\ Len(CycleIndices) # 2
  /\ cycle' = CycleIndices /\ at' = 1
  /\ Emit(SaveStep(Dest(CycleIndices[1])))
  /\ pc' = "copies"
  /\ UNCHANGED <<moves, pending, curr, visited>>

EmitCycleCopy ==
  /\ pc = "copies"
  /\ at < Len(cycle)
  /\ Emit(CopyStep(Dest(cycle[at]), Src(cycle[at])))
  /\ at' = at + 1
  /\ UNCHANGED <<moves, pending, pc, curr, visited, cycle>>

EmitRestore ==
  /\ pc = "copies"
  /\ at = Len(cycle)
  /\ Emit(RestoreStep(Dest(cycle[at])))
  /\ pending' = pending \ Members(cycle)
  /\ pc' = "schedule"
  /\ UNCHANGED <<moves, curr, visited, cycle, at>>

Return ==
  /\ pc = "schedule"
  /\ pending = {}
  /\ pc' = "done"
  /\ UNCHANGED <<moves, pending, curr, visited, cycle, at, steps>>

Next ==
  \/ EmitReady \/ StartTrace \/ TraceMove \/ EmitSwap
  \/ EmitSave \/ EmitCycleCopy \/ EmitRestore \/ Return

-----------------------------------------------------------------------------
\* The shape of the sequentializer's state, whoever runs its schedule: what is
\* pending while nothing is ready, what a trace has walked and what a cycle
\* being broken is.
Real == DOMAIN moves \ Identities

NoneReady == \A i \in pending : ~Ready(i)

\* Distinct pending moves, each writing what the one before it reads.
Chain(s) ==
  /\ \A p \in DOMAIN s : s[p] \in pending
  /\ \A p, q \in DOMAIN s : s[p] = s[q] => p = q
  /\ \A p \in DOMAIN s : p # 1 => Dest(s[p]) = Src(s[p - 1])

Tracing ==
  pc = "trace" =>
    /\ NoneReady
    /\ Chain(visited)
    /\ curr \in pending
    /\ Len(visited) # 0 => Dest(curr) = Src(visited[Len(visited)])

Breaking ==
  pc = "copies" =>
    /\ NoneReady
    /\ Chain(cycle)
    /\ Len(cycle) >= 2
    /\ at <= Len(cycle)
    /\ Src(cycle[Len(cycle)]) = Dest(cycle[1])

Shape ==
  /\ moves \in MoveLists
  /\ pending \subseteq Real
  /\ pc \in {"schedule", "trace", "copies", "done"}
  /\ curr \in {0} \cup DOMAIN moves
  /\ visited \in Seq(DOMAIN moves)
  /\ cycle \in Seq(DOMAIN moves)
  /\ at \in Nat \ {0}
  /\ steps \in Seq(Step)
  /\ pc = "done" => pending = {}
  /\ Tracing
  /\ Breaking
=============================================================================
