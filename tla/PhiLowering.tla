---------------------------- MODULE PhiLowering ----------------------------
(***************************************************************************)
(* How the M6809 backend lowers the phis of a block (m6809/backend.go):    *)
(* emitFunc first runs the sequentializer over every edge, to decide       *)
(* whether the frame gets a scratch slot; emitPhiAssignments then runs it  *)
(* again on each edge and turns its steps into instructions.  The model    *)
(* runs those instructions on locations that have a width in bytes.        *)
(*                                                                         *)
(* A copy reads the argument's value, which the code may find in D or B    *)
(* instead of in its location.  Y is not a location of a function with     *)
(* wide values: AllocateRegisters keeps it out of the pool there.          *)
(***************************************************************************)
EXTENDS ParallelCopy

CONSTANTS Reg,       \* the locations that are registers (U and Y)
          Width,     \* bytes each location holds
          PhiLists,  \* the phi lists considered, each by its destinations
          Torn,      \* a value that was not copied whole
          Unset      \* what the scratch slot holds before anything is saved

ScratchSize == 2     \* allocateRawSlot(2)

ASSUME WidthAssumption ==
  /\ Width \in [Loc -> Nat \ {0}]
  /\ Reg \subseteq Loc /\ \A r \in Reg : Width[r] = 2
ASSUME PhiListsAssumption ==
  \A ds \in PhiLists :
    /\ ds \in Seq(Loc) /\ Len(ds) <= MaxMoves
    /\ \A i, k \in DOMAIN ds : ds[i] = ds[k] => i = k
ASSUME TornAssumption == Torn \notin Loc \cup Const /\ Unset \notin Loc \cup Const

VARIABLES
  edges,    \* the moves of each edge into the block, never changed
  e,        \* the edge at work
  phase,    \* "scan", "emit" or "done"
  scratch,  \* bytes of scratch slot in the frame: 0 (cssaScratchOffset = -1) or 2
  store,    \* what each location holds while the edge is crossed
  temp,     \* what the scratch slot holds
  inFrame   \* every scratch access so far was inside the slot

lvars == <<moves, pending, pc, curr, visited, cycle, at, steps,
           edges, e, phase, scratch, store, temp, inFrame>>

\* A phi and its arguments have one type, hence one width.
EdgesInto(ds) ==
  {m \in [DOMAIN ds -> Move] :
     \A i \in DOMAIN ds :
       /\ m[i].dest = ds[i]
       /\ m[i].src \in Loc => Width[m[i].src] = Width[ds[i]]}

Initially == [l \in Loc |-> l]

LInit ==
  /\ edges \in UNION {EdgesInto(ds) \X EdgesInto(ds) : ds \in PhiLists}
  /\ e = 1 /\ phase = "scan" /\ scratch = 0
  /\ store = Initially /\ temp = Unset /\ inFrame = TRUE
  /\ moves = <<>> /\ pending = {} /\ pc = "idle"
  /\ curr = 0 /\ visited = <<>> /\ cycle = <<>> /\ at = 1 /\ steps = <<>>

\* SequentializeParallelCopies(m) begins.
Call(m) ==
  /\ moves' = m
  /\ pending' = {i \in DOMAIN m : m[i].dest # m[i].src}
  /\ pc' = "schedule" /\ curr' = 0
  /\ visited' = <<>> /\ cycle' = <<>> /\ at' = 1 /\ steps' = <<>>

\* The call is over and its locals are gone.
Idle ==
  /\ pc' = "idle" /\ moves' = <<>> /\ pending' = {} /\ curr' = 0
  /\ visited' = <<>> /\ cycle' = <<>> /\ at' = 1 /\ steps' = <<>>

UnchangedMachine == UNCHANGED <<store, temp, inFrame>>

-----------------------------------------------------------------------------
\* emitFunc: does some edge need a save?  Edges of fewer than three moves cannot.

ScanEdge ==
  /\ phase = "scan" /\ pc = "idle" /\ e <= Len(edges)
  /\ IF Len(edges[e]) >= 3
     THEN Call(edges[e]) /\ e' = e
     ELSE e' = e + 1
          /\ UNCHANGED <<moves, pending, pc, curr, visited, cycle, at, steps>>
  /\ UNCHANGED <<edges, phase, scratch>> /\ UnchangedMachine

HasSave == \E p \in DOMAIN steps : steps[p].kind = "save"

\* Mutant: the slot is given to any function whose edges need a swap.
HasSwapOrSave == \E p \in DOMAIN steps : steps[p].kind \in {"save", "swap"}

\* Mutant: only the first edge is looked at.
EdgeScannedFirstOnly ==
  /\ phase = "scan" /\ pc = "done"
  /\ scratch' = IF HasSave THEN ScratchSize ELSE 0
  /\ phase' = "emit" /\ e' = 1
  /\ Idle
  /\ UNCHANGED edges /\ UnchangedMachine

\* Mutant: a swap is taken to need the slot.
EdgeScannedForSwaps ==
  /\ phase = "scan" /\ pc = "done"
  /\ IF HasSwapOrSave
     THEN scratch' = ScratchSize /\ phase' = "emit" /\ e' = 1
     ELSE scratch' = 0 /\ phase' = phase /\ e' = e + 1
  /\ Idle
  /\ UNCHANGED edges /\ UnchangedMachine

EdgeScanned ==
  /\ phase = "scan" /\ pc = "done"
  /\ IF HasSave
     THEN scratch' = ScratchSize /\ phase' = "emit" /\ e' = 1
     ELSE scratch' = 0 /\ phase' = phase /\ e' = e + 1
  /\ Idle
  /\ UNCHANGED edges /\ UnchangedMachine

ScanOver ==
  /\ phase = "scan" /\ pc = "idle" /\ e > Len(edges)
  /\ phase' = "emit" /\ e' = 1
  /\ UNCHANGED <<moves, pending, pc, curr, visited, cycle, at, steps>>
  /\ UNCHANGED <<edges, scratch>> /\ UnchangedMachine

-----------------------------------------------------------------------------
\* emitPhiAssignments: the instructions of each step, for the width it moves.

Read(x) == IF x \in Loc THEN store[x] ELSE x

Fits(sz) == sz <= scratch

\* A value that does not fit spreads over whatever lies beyond the slot, which
\* may be a memory location at work here, and may be spoilt by a write to one.
Kept(v, sz) == IF Fits(sz) THEN {v} ELSE {v, Torn}

Spilled(st, sz) ==
  {st} \cup {[st EXCEPT ![l] = Torn] : l \in IF Fits(sz) THEN {} ELSE Loc \ Reg}

RunCopy(s) ==
  /\ s.kind = "copy"
  /\ store' = [store EXCEPT ![s.dest] = Read(s.src)]
  /\ UNCHANGED <<temp, inFrame>>

\* Mutant: a swap of a register with memory stores the register before it loads
\* the memory word.
RunSwapStoresFirst(s) ==
  /\ s.kind = "swap"
  /\ IF s.dest \in Reg
     THEN store' = [store EXCEPT ![s.src] = store[s.dest]] /\ UNCHANGED <<temp, inFrame>>
     ELSE store' = [store EXCEPT ![s.dest] = store[s.src], ![s.src] = store[s.dest]]
          /\ UNCHANGED <<temp, inFrame>>

\* EXG for registers, accumulators for up to two bytes, else three copies
\* through the scratch slot.
RunSwap(s) ==
  LET sz   == Width[s.dest]
      wide == s.dest \notin Reg /\ s.src \notin Reg /\ sz > 2
  IN  /\ s.kind = "swap"
      /\ \E v  \in IF wide THEN Kept(store[s.dest], sz) ELSE {store[s.dest]},
            st \in IF wide THEN Spilled(store, sz) ELSE {store} :
           /\ store' = [st EXCEPT ![s.dest] = st[s.src], ![s.src] = v]
           /\ temp' = IF wide THEN v ELSE temp
      /\ inFrame' = (inFrame /\ (wide => Fits(sz)))

RunSave(s) ==
  /\ s.kind = "save"
  /\ temp' \in Kept(Read(s.src), Width[s.dest])
  /\ store' \in Spilled(store, Width[s.dest])
  /\ inFrame' = (inFrame /\ Fits(Width[s.dest]))

RunRestore(s) ==
  /\ s.kind = "restore"
  /\ store' = [store EXCEPT ![s.dest] = temp]
  /\ inFrame' = (inFrame /\ Fits(Width[s.dest]))
  /\ UNCHANGED temp

Run(s) == RunCopy(s) \/ RunSwap(s) \/ RunSave(s) \/ RunRestore(s)

BeginEdge ==
  /\ phase = "emit" /\ pc = "idle" /\ e <= Len(edges)
  /\ Call(edges[e])
  /\ store' = Initially /\ temp' = Unset
  /\ UNCHANGED <<edges, e, phase, scratch, inFrame>>

\* Mutant: one edge too many.
EndEdgeLate ==
  /\ phase = "emit" /\ pc = "done"
  /\ e' = e + 1
  /\ phase' = IF e > Len(edges) THEN "done" ELSE phase
  /\ Idle
  /\ UNCHANGED <<edges, scratch>> /\ UnchangedMachine

EndEdge ==
  /\ phase = "emit" /\ pc = "done"
  /\ e' = e + 1
  /\ phase' = IF e = Len(edges) THEN "done" ELSE phase
  /\ Idle
  /\ UNCHANGED <<edges, scratch>> /\ UnchangedMachine

Sequence ==
  /\ phase \in {"scan", "emit"}
  /\ Next
  /\ IF phase = "emit" /\ Len(steps') > Len(steps)
     THEN Run(steps'[Len(steps')])
     ELSE UnchangedMachine
  /\ UNCHANGED <<edges, e, phase, scratch>>

Terminated == phase = "done" /\ UNCHANGED lvars

LNext ==
  \/ ScanEdge \/ EdgeScanned \/ ScanOver
  \/ BeginEdge \/ Sequence \/ EndEdge
  \/ Terminated

LSpec == LInit /\ [][LNext]_lvars

-----------------------------------------------------------------------------
PA == INSTANCE ParallelAssign WITH finished <- phase = "done"

\* Types; an edge is at work as long as there is code to emit.
LTypeOK ==
  /\ phase \in {"scan", "emit", "done"} /\ e \in 1 .. Len(edges) + 1
  /\ phase = "emit" => e \in DOMAIN edges
  /\ pc \in {"idle", "schedule", "trace", "copies", "done"}
  /\ pending \subseteq DOMAIN moves
  /\ scratch \in {0, ScratchSize}
  /\ store \in [Loc -> Loc \cup Const \cup {Torn, Unset}]
  /\ temp \in Loc \cup Const \cup {Torn, Unset} /\ inFrame \in BOOLEAN

\* The instructions emitted for an edge leave every phi with the value its
\* argument had when the edge was taken, and nothing else changed
\* (emitPhiAssignments; "without data loss", opt/parallel_copy.go).
EdgeIsParallel ==
  phase = "emit" /\ pc = "done" => store = PA!AllMoved(moves, Initially)

\* Every access to the scratch slot lies within the bytes the frame gave it, so
\* the scan over the edges foresaw every use that emission makes of the slot.
FrameIntact == inFrame

\* The destinations of an edge that lie on a cycle of at least three moves.
Sources(ms, ds) == {ms[i].src : i \in {i \in DOMAIN ms : ms[i].dest \in ds}}

OnLongCycle(ms) ==
  \E ds \in SUBSET {ms[i].dest : i \in DOMAIN ms} :
    /\ Cardinality(ds) >= 3 /\ Sources(ms, ds) = ds
    /\ \A sub \in (SUBSET ds) \ {{}, ds} : Sources(ms, sub) # sub

\* The frame has a scratch slot only if some edge really has a cycle of three
\* or more moves, so leaf functions keep empty frames.
ScratchOnlyForCycles ==
  scratch > 0 => \E i \in DOMAIN edges : OnLongCycle(edges[i])
=============================================================================
