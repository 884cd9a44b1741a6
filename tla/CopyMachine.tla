----------------------------- MODULE CopyMachine -----------------------------
(***************************************************************************)
(* The sequentializer of ParallelCopy together with a machine that runs    *)
(* its schedule: each step runs as it is emitted.  A location's initial    *)
(* value is named by the location, a constant's by the constant, so the    *)
(* storage says where each value came from.                                *)
(***************************************************************************)
EXTENDS ParallelCopy

CONSTANT Unset     \* what the temporary holds before anything is saved

ASSUME UnsetAssumption == Unset \notin Loc \cup Const

VARIABLES store,   \* the value each location holds
          temp     \* the temporary that "save" writes and "restore" reads

mvars == <<moves, pending, pc, curr, visited, cycle, at, steps, store, temp>>

Value == Loc \cup Const

Read(x) == IF x \in Loc THEN store[x] ELSE x

\* What each kind of step does to the storage.
Run(s) ==
  \/ /\ s.kind = "copy"
     /\ store' = [store EXCEPT ![s.dest] = Read(s.src)]
     /\ UNCHANGED temp
  \/ /\ s.kind = "swap"
     /\ store' = [store EXCEPT ![s.dest] = Read(s.src), ![s.src] = store[s.dest]]
     /\ UNCHANGED temp
  \/ /\ s.kind = "save"
     /\ temp' = Read(s.src)
     /\ UNCHANGED store
  \/ /\ s.kind = "restore"
     /\ store' = [store EXCEPT ![s.dest] = temp]
     /\ UNCHANGED temp

MInit ==
  /\ Init
  /\ store = [l \in Loc |-> l]
  /\ temp = Unset

Emitting ==
  /\ EmitReady \/ EmitSwap \/ EmitSave \/ EmitCycleCopy \/ EmitRestore
  /\ Run(steps'[Len(steps')])

Planning ==
  /\ StartTrace \/ TraceMove \/ Return
  /\ UNCHANGED <<store, temp>>

Terminated == pc = "done" /\ UNCHANGED mvars

MNext == Emitting \/ Planning \/ Terminated

Spec == MInit /\ [][MNext]_mvars

FairSpec == Spec /\ WF_mvars(MNext)
-----------------------------------------------------------------------------
(***************************************************************************)
(* Properties.                                                             *)
(***************************************************************************)

TypeOK ==
  /\ moves \in MoveLists
  /\ pending \in SUBSET DOMAIN moves
  /\ pc \in {"schedule", "trace", "copies", "done"}
  /\ curr \in {0} \cup DOMAIN moves
  /\ visited \in Seq(DOMAIN moves)
  /\ cycle \in Seq(DOMAIN moves)
  /\ at \in Nat \ {0}
  /\ steps \in Seq(Step)
  /\ store \in [Loc -> Value]
  /\ temp \in Value \cup {Unset}

\* The moves whose copy has not been emitted: the pending ones, less those of
\* the cycle being broken whose copy is out already.
Unscheduled ==
  IF pc = "copies" THEN pending \ {cycle[p] : p \in 1..(at - 1)} ELSE pending

\* The Lost Copy problem (parallel_copy.go:53-56): while the move is still to be
\* made, the location it reads holds what the edge found there.  The move that
\* closes a broken cycle reads the temporary instead.
NoLostCopy ==
  \A i \in Unscheduled :
    \/ Read(Src(i)) = Src(i)
    \/ pc = "copies" /\ i = cycle[Len(cycle)] /\ temp = Src(i)

\* Without a ready move, what is pending is a permutation of locations: a trace
\* comes back to the very move it started from, never into the middle of itself
\* (the code's comment "all remaining moves form one or more directed cycles").
TraceClosesAtStart ==
  /\ pc = "trace" => Writers(curr) # {}
  /\ CycleClosed => curr = visited[1] /\ Len(visited) >= 2

\* The schedule as a whole is the parallel assignment.
Assignment ==
  INSTANCE ParallelAssign
    WITH store <- IF pc = "done" THEN store ELSE [l \in Loc |-> l],
         finished <- pc = "done"

ImplementsParallelAssign == Assignment!Spec

\* The loop over pending moves ends.
Terminates == <>(pc = "done")
=============================================================================
