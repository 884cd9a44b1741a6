# A TLA+ model of the minigolf compiler

minigolf compiles a small Go-like language to small machines, the Motorola 6809
first of all.  The compiler is a sequential Go program; what is hard about it is
not concurrency but *order*: the order in which simultaneous moves are made, in
which blocks are sealed, in which facts about a call graph are propagated, and in
which the code it generates runs on one register file shared by all functions.
The modules here model the parts where such an order decides whether the
generated program computes what the source says: the builder's SSA form and its
panic handlers, the inliner and the optimizer's rounds, register and slot
allocation, the moves on edges, the calling convention of Y, the code of blocks,
the peephole rounds and the assembler's relaxation.  TLC checks them on small
instances; for the parallel copies and the phis they lower, the calling convention,
the chain of panic handlers, deferred actions and the assembler's relaxation TLAPS
proves the main results for all instances.

## The system

    source -> lexer -> parser -> ast -> semantic -> ir.Builder -> opt passes -> backend -> assembler
                                 (templates, names)    (SSA)                     (m6809, par4, ...)

| component | state it keeps | operations | what makes it correct |
|---|---|---|---|
| `lexer`, `parser`, `ast` | token position, tree | read a token, parse a statement | the tree is the text (sequential, tested) |
| `semantic` (resolve, fold, semantic) | scopes, generic instances | rename, expand, fold | a name means its innermost declaration; folding equals run-time arithmetic |
| `ir.Builder`: global items | worklist, resolved items | `Build`, `tryResolve` | every resolvable item is resolved, a cycle is reported |
| `ir.Builder`: SSA | `currentDef`, `sealedBlocks`, `incompletePhis`, `labelBlocks`, the CFG | `readVariable`, `writeVariable`, `sealBlock`, one case of `buildStatement` per statement | a use names the value last assigned on every path; one phi operand per predecessor |
| `opt` passes (`opt.go` runs up to ten rounds) | the IR of a function | store-load forwarding, LICM, folding, DBE, DCE, copy propagation, CSE, strength reduction, phi simplification, stack slot sharing, branch folding | each pass preserves what every path computes |
| `opt` whole program | call graph | inlining, dead function elimination | bodies are substituted faithfully; what is reachable stays |
| `opt/parallel_copy.go` | pending moves, the schedule | `SequentializeParallelCopies` | the schedule equals the parallel assignment |
| `m6809` register allocation | live ranges, interference | `AllocateRegisters` | two live values never share a register |
| `m6809` clobber analysis | direct and total masks | `AnalyzeProgramClobbers` | masks cover what a call can run; Y survives where a caller relies on it |
| `m6809` lowering | slots, frame, emitted text, what D, B and X hold | `emitFunc`, `emitInstr`, `emitTerminator`, `emitPhiAssignments` | an edge gives each phi its operand; the frame is respected; the code means what the block says |
| `m6809/peephole.go` | the lines of the code | four passes, repeated until none changes a line | the lines still mean the same; the rounds end |
| panic, defer | chain of jump buffers | `SetJmp`, `LongJmp`, `_unlink_jmp_`, `_propagate_panic_` | a panic reaches the innermost live handler |
| `par4` | VM frames, operand stack, memory | one opcode each | the stack is balanced, slots stay in their frame |
| assemblers (`cmd/asm*`) | statements, symbols, sizes | relaxation rounds, encoding | rounds end; every short branch reaches |
| `golflib` | List, Buffer, hash maps | append, grow, lookup | containers keep what was put in |

How they interact: the builder hands the optimizer a list of functions whose
blocks hold explicit predecessor and successor lists; every pass edits those
lists and the phis together.  The backend asks `opt` for liveness and, for every
edge, for a schedule of parallel copies; its frame layout is fixed *before* the
edges are emitted, from a dry run of the same scheduler.  The clobber analysis
runs once over the whole program before any function is emitted; allocation of
one function and the prologue of another both rely on its masks, so it is a
contract between functions, and only running code shows whether it was kept.

Nothing here is concurrent, no message is lost and nothing is persisted.  The
hard behaviours are ordering (moves, sealing, propagation), stale state (a
decision made in one phase and used in another: the scratch slot, the masks, the
sealed label block), termination of worklists, fixed sizes, and long sequences
of legal steps: calls, recursion, nested loops with jumps out of them.  They are
listed line by line under "hazards" in `PROJECT.json`.

## Modules

| module | models | what it is |
|---|---|---|
| `SSABuilder` | `ir/builder.go`, SSA part | one action per statement, or part of an expression, of any source program |
| `SSAExecution` | the meaning of blocks, phis and jumps | runs what `SSABuilder` built along every path, with variables and with SSA values side by side |
| `SSABuilder_proofs`, `SSAExecution_proofs` | | theorems about what is built, and about running it |
| `PanicChain` | `buildFunc`, `buildDefer`, `buildPanicDestructBlock`, the run-time part of `backend.go` | deferred actions, panics, recover and the chain of jump buffers of a running program |
| `PanicChain_proofs` | | theorems about the chain, and about the actions that run |
| `IR` | `ir/ir.go`, what the backend makes of it | functions, and what they compute |
| `CFGPasses`, `ScalarPasses` | `opt/*.go` | each pass as an operator on functions |
| `Inliner` | `opt/inline.go` | which calls are inlined, and how |
| `Optimizer` | `OptimizeProgram` | one action per inlined call and per pass; composes the three above |
| `Liveness` | `liveness.go`, `interference.go` | the fixed point and the graph made from it |
| `Allocation` | `regalloc.go`, `stack_alloc.go` | composes `Optimizer` and `Liveness`: allocates what the optimizer left and runs it in its places |
| `ParallelAssign` | `type ParallelMove` | abstract: all moves of an edge at once |
| `ParallelCopy` | `opt/parallel_copy.go` | the sequentializer, one action per append to the schedule |
| `CopyMachine` | the same, with `StepKind`'s meaning | each step runs on storage as it is emitted; refines `ParallelAssign` |
| `CopyMachine_proofs` | | theorems about it, and about the schedule |
| `PhiLowering` | `emitFunc` 3896-3951, `emitPhiAssignments` | composes `ParallelCopy` with the frame's scratch slot and with widths in bytes |
| `PhiLowering_proofs` | | theorems about it; composes the proofs about `CopyMachine` |
| `ClobberConvention` | `clobber.go`, the Y rules of `regalloc.go` and `backend.go` | the analysis, then the program it compiled, as a stack of activations |
| `ClobberConvention_proofs` | | theorems about it |
| `AssemblyCode` | the 6809, as far as the backend uses it | lines of code and what they do |
| `BlockEmission` | `emitFunc`'s loop, `emitInstr`, `emitTerminator`, the cache of D and B | blocks to lines |
| `Peephole` | `peephole.go` | each pass as an operator on lines |
| `CodeEmission` | `peepholeOptimize`, `Assemble`, `Relax` | composes the three above: emission, the rounds of the peephole, the passes of relaxation |
| `CodeEmission_proofs` | | theorems about labels and relaxation |
| `NumberLemmas` | | least and last numbers of a set, which stand in for induction in the proofs |
| `MC...` | | constants for TLC; `MCFunctions` has the functions that `MCOptimizer` and `MCAllocation` compile |

### Parallel copies (`ParallelCopy`, `CopyMachine`)

`moves` is the argument; `pending`, `visited`, `cycleIndices` (`cycle`) and
`steps` are the code's locals.  `pending` is a slice that always keeps the
original order, so the model holds indices into `moves` and takes "the first" as
the least.  `EmitReady` is the body of the first loop, with its search order;
`StartTrace` and `TraceMove` walk the cycle, including the fallback that the code
marks "Should not happen"; `EmitSwap`, `EmitSave`, `EmitCycleCopy` and
`EmitRestore` are the two ways a cycle is broken.  `CopyMachine` runs each step
on a store in which a value is named by the location that held it at first, so
comparing with the parallel assignment means comparing names.  Destinations of
one edge differ, because each phi owns its own location; that is the only
precondition.

### Phi lowering (`PhiLowering`)

First `emitFunc` runs the sequentializer over each edge with three or more moves
and stops at the first save, which gives the frame a two-byte slot; then
`emitPhiAssignments` runs it again per edge and emits instructions.  Locations
have a width; registers are two bytes.  Swaps and saves follow the cases of the
code: EXG for registers, D and X for bytes and words, three block copies through
the slot for wider values.  An access that does not fit the slot has every
outcome that writing over, or reading, the neighbouring frame can have: the value
may come back torn, and a memory location at work may be spoilt.  Left out: the
naive lowering behind `NoCSSALowering`, a byte argument of a word phi, and the
cache of what D and X hold.

### Clobbers and register Y (`ClobberConvention`)

A program is a record of the facts the analysis looks at: callees, who calls
indirectly, whose address is taken, who has an external linkage, who copies
multi-byte values and who has values in Y.  `Propagate` is one assignment of the
fixed point, in any order (the code iterates over Go maps); `Start` needs a whole
round without change.  Then the program runs: activations push and pull Y as
their prologues do, copies and local work spoil it, and a call may leave a live
value in Y exactly where `computeRegisterInterferences` allows it.  `y` records
the depth of the activation whose value it holds.  The configuration is the
default one (no globals at Y, allocation on).

### SSA construction (`SSABuilder`, `SSAExecution`)

The function under construction is a record `fn` with the CFG and the builder's
maps; the helper operators carry the names of the builder's methods.  The source
program is not given: at each step any statement that may come next is lowered, so the
reachable states are all functions up to a size.  Statements that contain others, or
whose expressions branch, are lowered by several actions, and `open` is the recursion of
`buildStatement` and `buildExpr`: one record for each call under way, with the blocks
that it still has to fill (`next`, `header`, `end`).

Values are known by number; `home` gives the block of each and `phis` the variable and
the operands of those that are phis.  `readVariable`, `readVariableRecursive` and
`addPhiOperands` call each other, over a graph that they change.  Here they are a machine
whose stack is `calls` and whose every step is one call or one return (`Lookup`,
`NextOperand`, `Return`); `AfterReads` runs it for `MaxReads` steps.  A read that has not
ended by then sets `stuck`, and the builder does nothing more: `ReadsEnd` says that this
never happens.

After `Finish`, `SSAExecution` runs the function.  What an assignment stores is not
modelled, only which SSA values hold the same as each variable (`holds`): a new value
makes all others differ from the variable that gets it, `x = y` gives `x` the values of
`y`, and a phi holds the same as a variable if its operand for the edge just taken did.
A use agrees if the value it names is among those of its variable.

Programs left out, because the model would say nothing useful about them: statements
after a `return` in the same block (the builder appends them to a block that is already
terminated), and a label after a `return` that only a later goto reaches, on which
`readVariable` recurses without end.  Variables in memory are not modelled here.  Every
value of every case of a `switch` is tested in a block of its own; its hidden tag,
written once before, is left out, while the counter of a range loop is a variable like
the others (`Counters`, one for each depth).  The join of `&&` and `||` makes its phi
without `readVariable`; the variable `Result` stands for the value it should have.
Incomplete phis are filled in the order they were made; the code sorts them by name,
which matters only for numbering.

### Panics and deferred actions (`PanicChain`)

A program is a chain of functions, each a list of statements: calls, panics,
returns, variables with a destructor, deferred calls and deferred blocks.  The
model executes the code that the builder makes of them, not the source: `Enter`
links the function's buffer, `DeferBlock` one more, `LeaveBody` is the destruct
block that all exits share, `CatchInFunction` and `CatchInBlock` are the two kinds
of panic handlers, `Propagate` is `_propagate_panic_` and the block after it.
`chain` is the list that starts at `_jmp_chain_`, `stack` the activations; a jump
buffer is named after its activation, so a buffer of a function that has returned
can be told from one that is alive.  A jump or an unlink through a dead buffer
ends the run as `wild`.  An activation keeps what it found in the chain (`entry`)
and which actions it ran (`ran`), for the properties.  Destructors neither panic
nor recover, and the registers that a buffer saves are left out.

### Optimizer (`IR`, `CFGPasses`, `ScalarPasses`, `Inliner`, `Optimizer`)

A function is a set of numbered instruction objects, blocks that list them, and
explicit predecessor and successor lists, as in `ir.go`; the terminator is in the
list when the builder made the block.  Values are words, of which constants are
numbers of the host (`HostMod`) and everything else is computed modulo `WordMod`.
`Behaviour` runs a function: its calls to the outside with their arguments, and
what it returns.  A pass is an operator that follows the loops of its Go function,
with folds for loops that change what they go over; each is an action of
`Optimizer`, in `OptimizeProgram`'s order, and so is each inlined call.  `config`
says which passes are on.  Before any pass `want` remembers what the function did,
for each input.  The abstract specification is that behaviour: no pass may change
it, and since it is compared after every action, the one at fault is seen.

### Registers and slots (`Liveness`, `Allocation`)

`Allocation` takes a function that `Optimizer` leaves, computes liveness with the
code's shared key space of parameters and instructions, interference, the scores,
and assigns U and Y greedily; values of one block share slots.  Then it runs the
function one emitted instruction at a time, next to the IR's own execution: `reg`
and `slot` hold what the code has put there, and every read is compared with the
value it stands for.  What a call leaves in Y depends on what is called: a function of
the program may spoil it or not, one outside (`ir.Call` of a C function) keeps it, as
`HelperClobbers` has it and `ClobberConvention` assumes, and an indirect or built-in call
leaves junk.  U is kept by whoever is called.  Pools of no register, one
and both are allocated.

### Code (`AssemblyCode`, `BlockEmission`, `Peephole`, `CodeEmission`)

`BlockEmission` writes lines for a function given by blocks of operations on slots.
It keeps the backend's cache: what is in D and B, and when it is forgotten.  The
branches follow `emitBranchWithLayout` with all its cases, the moves of phis on
their own side of the branch.  `CodeEmission` then performs the peephole's rounds,
one pass per action (the sliding window, unused labels, threading, unreachable
code), until a round changes nothing, and relaxes branches pass by pass.  The
lines run on a 6809 with D, X, S, the flags Z and C, and slots as memory, and
`Meaning` runs the blocks themselves: that is the abstract specification, a
program's calls, result and balance of the stack.

## Runs

| run | what it shows | states | time |
|---|---|---|---|
| `copy_machine` | no copy lost, traces close, the schedule refines the parallel assignment, the algorithm terminates | 106,186 | 6 s |
| `phi_lowering` | phis get their values, the slot is never overrun, and exists only for real cycles | 519,436 | 12 s |
| `phi_lowering_wide` | with six-byte phis a value is lost (finding 1) | stops | 3 s |
| `clobber_convention` | summaries exact, no caller loses Y under `PointersKeepY` | 208,189 | 19 s |
| `clobber_indirect` | without `PointersKeepY` a value in Y is lost (finding 2) | stops | 1 s |
| `ssa_execution` | every read ends, one operand per edge, uses see the last assignment | 3,982,935 | 130 s |
| `ssa_goto` | a goto that follows its label breaks that (finding 3) | stops | 18 s |
| `panic_chain` | the chain leads to live frames, callers keep their handlers, deferred actions run once and backwards, everything stops | 444,617 | 26 s |
| `panic_return` | a return in a function with a deferred block takes its caller's handler away (finding 4) | stops | 4 s |
| `compile_function` | every pass keeps edges, definitions and behaviour, the rounds settle; allocated code reads and returns what the source says | 89,695 | 110 s |
| `optimizer_pointers` | store-load forwarding with two addresses of one variable (finding 5) | stops | 2 s |
| `machine_code` | code means its blocks through all peephole rounds, labels stay, branches reach, the rewriting ends | 90,734 | 56 s |

Bounds, and why they are enough:

- `MaxMoves = 4` over four locations and a constant is the least that holds two
  disjoint two-cycles, a four-cycle, a three-cycle with a reader outside, chains
  and shared sources.  The theorems remove the bound.
- `phi_lowering`: up to three phis and two edges; two edges are needed to see the
  scan stop early, three phis to see a cycle that needs the slot.  The theorems hold
  for lists of any length.
- `clobber_convention`: all call graphs over `main`, `p` and `q` (recursion and
  mutual recursion included) and a fourth function `c` for the pointer programs;
  stack depth 4 lets each function of the longest chain be active at once.
  `MaxDepth` is a bound of the model: the real stack ends elsewhere.  The theorem
  removes all of these.
- `ssa_execution`: `MaxStatements = 4`, `MaxNesting = 2`, `MaxClauses = 2`, two
  variables, one label, a counter for each depth.  A switch, a range loop and a condition
  with `&&` or `||` count as two statements, a read of a variable in a condition or an
  increment as one.  The ends of loops and of functions cost nothing, so a loop in a loop
  with a jump out of both and an assignment fits.  `MaxReads = 40` is more steps than any
  read of such a function takes, which `ReadsEnd` confirms.  The theorems remove all the
  bounds but need that no goto goes backward.
- `panic_chain`: all single functions of up to three statements, two functions with
  a call or deferred call between any two statements, three functions of which the
  last panics; that gives a panic under a deferred action of a function that another
  one's handler waits for.  `MaxCalls = 10` is more than any of them makes.  A
  program's conditions are choices, so a panic or return may or may not be reached.
  The theorems are about all programs; `Termination` needs the bounds.
- `compile_function`: straight lines, diamonds with constants on either side, counting
  loops with invariant and dividing bodies, loops by goto, pointers with up to three
  accesses and a guard between them, and calls of inner functions of one and several
  blocks and of loops, and values kept across two calls, each of an inner function, of one
  outside or through a pointer; `WordMod = 16` keeps the values few and overflow near.  Some of
  them are compiled with each pass switched off in turn, others go on to be allocated
  as the builder, the inliner and the optimizer leave them.  Six inputs, two for the
  step by step run.  `MaxBlocks` bounds the blocks that a run of a function enters.
- `machine_code`: all connections of three blocks by tests, compares and jumps with and
  without phis, every comparison, pointers into the frame, and bare jumps in every
  arrangement of four blocks.  `ShortReach = 10` bytes stands for 128, so that branches
  both reach and do not; relaxation then takes up to three passes, and its cap of 30 is
  not met.  `ByteMod = 4`, three memories; `MaxSteps` and `MaxBlocks` bound a run, and
  one that is cut off must only agree as far as it went.

The passing runs leave out the shapes that the findings are about, each by a
predicate that says so: in `MCFunctions` `Stale`, `StaleName` and `Twice` (two
addresses of one variable, findings 5 and 10); no function has an empty block with two
predecessors before a phi, a variable in memory whose first value is used elsewhere, or
a constant that overflows and is then divided or compared (findings 11 to 13); in
`MCCodeEmission` `Meets` and the longer cycles of bare jumps (findings 14 and 15).
In `PanicChain` the exceptions stand in the properties: `ReturnsPastBlocks`,
`Recovers` and `ActionsMayPanic`.

Deadlock is checked except where the function that is compiled or run is finished
and nothing is left to do: the two SSA runs, the two of the optimizer and
`machine_code`.  The other machines state their end as a
stuttering action, or run for ever.

Fairness: `Terminates`, `Termination` and `Finishes` need it.  It is weak fairness of
the whole next-state relation of a sequential program: one that can take a step does.
`CodeEmission` writes it as fairness of `Proceeds`, which every step satisfies, with
the subscript that every step changes; that is the same and cheaper to check.  No
choice is assumed to be fair: in `PanicChain` the conditions of panics and returns may
go either way every time.

## Proofs

Eight modules hold theorems.  The invariants they rest on were checked by TLC, on the
constants of the runs, before they were proved.

### Parallel copies

`CopyMachine_proofs` proves, for every finite `Loc`, every `Const` disjoint from
it and every `MaxMoves`:

- `TypeCorrect`, `NoCopyIsLost`, `TracesAreCycles`, and
- `Refinement`: `CopyMachine`'s specification implements `ParallelAssign!Spec`
  under the mapping that shows the storage only when the schedule is complete.

What concerns the schedule alone is the invariant `Shape`, defined in `ParallelCopy`:
while a cycle is traced or broken nothing is ready, and the trace is a chain of
distinct moves (`Tracing`, `Breaking`).  The one combinatorial fact is that when no
move is ready, "who reads my destination" is an injection of a finite set into itself
and hence onto it (`NoneReadyIsPermutation`), so every pending move's source is
written by a pending move: the trace can neither stop nor close anywhere but at its
start.  `NoLostCopy` is not inductive.  The proofs add to `Shape` what the
storage is at every moment: scheduled destinations hold what they asked for
(`Written`), all others what they held (`Untouched`), and what left `pending`
overwrites nothing that `pending` reads (`Retired`).

### Phi lowering

`PhiLowering_proofs` proves, for locations of any width and lists of phis of any length:
`LTypeCorrect`, and `SlotOnlyForCycles`.  For locations that fit the slot (`Narrow`),
it proves `FramesIntact` and `EdgesAreParallel`.  Without `Narrow` these two are false:
that is finding 1, and the hypothesis says exactly which phis the code handles.

Scan and emission call the sequentializer separately, so what one of them found must be
said of the moves, not of a run.  `NeedsSave` does so: there is a set of moves, each of
whose destinations another one reads, with no move onto itself and no pair that
exchanges two locations.  Such a set waits as a whole as long as nothing is saved
(`SavesNeeded`), and a schedule that ends has nothing waiting; conversely the first
cycle that is saved is such a set.  So the scan's schedule of an edge has a save if and
only if emission's has, and edges of fewer than three moves, which the scan skips, never
do.  That emission does what the schedule says is not proved again: over narrow
locations each instruction is a step of `CopyMachine` (`SequenceEmitted`), whose
invariant is taken over through an `INSTANCE` of its proofs.

### Calling convention

`ClobberConvention_proofs` proves, for every set of functions, programs and every
depth: `TypeCorrect`; `SummariesAreExact`, from the invariant that a mask is
always between the function's own clobbers and those of all it reaches, and that
a fixed point contains the closure; and `ConventionIsSound`.  The latter's
invariant says of each suspended activation either that what it called gives Y
back or that its own mask has Y, and that an activation whose mask lacks Y has
left Y as it found it: this is what carries the contract through functions that
neither copy nor keep anything.

### Panics and deferred actions

`PanicChain_proofs` proves, for every number of functions and all programs over them:
`TypeCorrect`, `NoJumpStrays`, `HandlersAreKept` and `ReturnsRestoreChain`.  The
invariant has three layers, because findings 4 and 6 break two of them:

- `Basic` holds of every program: the action that a frame is at belongs to its phase,
  and a buffer is of a statement its frame has passed.
- `Unrecovered`, as long as nobody recovers: every buffer is in a live frame, newer
  frames are nearer to the head and in a frame later statements, and a frame that
  unwinds has no buffer left but those of earlier blocks.  Without the order a jump
  could go to a caller while a callee's buffer remains, and dangle later.
- `Kept`, unless a function returns past a block: below what a frame and its callees
  linked lies what the frame found, and there is at least as much above it as the frame
  is yet to take off (`Owes`).  It is this count that makes a plain unlink of "the first
  buffer" safe: the code never says whose buffer it takes.

The second half of the module proves `ActionsRunOnLeaving` (the action property
`LeavingRunsActions`) and `RecoveryContinues` (`RecoverContinuesExit`).  `Ordered` says
that what a frame has run lies behind the action it is at, in blocks first and then in
destructors if it unwinds.  It holds of programs that recover, too, and needs that an
activation which runs an action calls none that panics (`Undisturbed`), the reason for
the condition `~ActionsMayPanic` in the properties; finding 9 is what happens without.
`Complete` says that nothing behind the frame was left out, and that the blocks which
wait have their buffers on the part of the chain that is theirs; this is where the
chain must be kept as `Kept` says.

### SSA construction

For every set of variables and labels, and for functions of any length and nesting in
which no goto goes backward: `SSATypes`, `PhisMatchEdges` (`OneOperandPerEdge`), and
`SSARight`, that on every path every use names a value that holds what the last
assignment stored (`UsesSeeLastAssignment`).  With backward gotos the last two are false;
that is finding 3, and `~BackwardGoto` says exactly which programs the code handles.

`SSABuilder_proofs` shows what each method of `Builder` does to a function under
construction, `SSAExecution_proofs` goes through the statements and runs what they make.
The invariant has three parts:

- `Sound`: the record is what the maps of `Builder` are meant to be.  Edges are listed at
  both of their ends; a phi of a sealed block has an operand for each predecessor, one
  that waits for its block to be sealed has none, and each operand is what its variable
  has where the edge begins; what `currentDef` has for a variable that a block neither
  assigns nor joins is what its only predecessor has.  This last clause alone would admit
  blocks that define each other's values in a circle.  `Ranked` excludes that: blocks that
  take over a variable do so along a finite descent.
- `Control`: which blocks each open statement still owes an edge, a seal or code.  A block
  is sealed when nobody can jump to it any more: not the enclosing loops' `break` and
  `continue`, not a label that is still to be placed, not the clauses that remain.  That
  is the assumption on which `sealBlock` rests and that no code checks.
- `Running`: a run leaves each block with the variables at the values that `currentDef`
  has there (`HoldsAtExit`).  Within the block the last write counts, and before it what
  was there on entering (`Tracks`): the phi, if there is one, or what the only
  predecessor leaves.

A read changes the record in the middle of its recursion, so `Sound` does not hold
between its steps.  The invariant of the machine (`RFull`) says in addition, of each call
on the stack, how far its phi has come and that it waits for the block above it.
`RecursionExists` shows that the functions `after` and `filled`, by which the model runs
the machine and fills the phis of a block, exist.

The theorems speak of functions whose construction ended (`~fn.stuck`).  That a read ends
is model-checked only, as said below.

### Labels and relaxation

`CodeEmission_proofs` proves, for every well-formed function, in either layout, with the
cache of D and B or without: `LabelsStandOnce`, that `LinesOK` always holds;
`ShortBranchesReach`, that `BranchesReach` holds of code with fewer branches than
relaxation has passes; and `NothingOutOfRange`, that the encoder's error for short
branches does not occur.

A branch whose label is gone is an undefined symbol, a label that stands twice a wrong
destination, and both are decided far from where they show: the backend writes labels of
blocks and of `nextLabel` in many places, and the four peephole passes move and remove
lines, labels included, by what stands next to them.  The invariant `LabelsInv` says that
the code is `Bound`: made of proper lines, no label stands twice, every target stands.

- *Emission* is put together from pieces that `Emits(s, t, L, T)`: from the lines of `s`
  to those of `t`, only labels of `L` are added, and every new branch goes to one of `T`
  or to a label that stands in `t`.  Pieces compose if their labels differ (`EmitsThen`),
  and those of different instructions and blocks do, for labels carry both (`MadeApart`).
  At the end `T` is a set of blocks of the function, all of which were written
  (`EmitFuncBound`).
- *Peephole passes* `Keeps(c, d)`: the same labels, and no targets but those there were.
  The sliding window does so line by line (`SlideKeeps`): no rule but those of `AtLabel`
  sees a label, and these put a branch to where the removed jump went.  Dropping labels
  that nothing goes to is the one pass that removes labels (`DropUnusedBound`).  A pass
  that panics (finding 14) has no result and is no exception.

The passes and the emission are folds over the lines, the instructions and the blocks,
which the prover cannot unfold by induction.  `FoldExists` in `NumberLemmas` proves, from
the least number of elements for which there would be none, that the function by which
the community modules define a fold exists; its values are then followed from one element
to the next (`SlideSteps`, `BlockSteps` and so on).

The lemma behind relaxation is `LinesDrawCloser`: if lines shrink,
no two of them move apart, and none overtakes another.  So a branch that was in reach
when it was made short is so ever after, although relaxation looks at the addresses
of the pass before.  Each pass but the last shortens a branch, which bounds the passes
by the branches.  `NothingOutOfRange` holds whatever the number of passes, and that is
no good news: when they run out (finding 16), the check in the encoder compares the same
stale addresses as the last pass did and stays silent.

`Layout` is a recursive function; its equation is proved from the least number of lines
for which there would be none (`TotalsExist`), since the induction theorems of the library
cannot be used here.  `NumberLemmas` has this and similar arguments.

### Assumptions

The named `ASSUME`s of the modules, which TLC evaluates in the runs: finiteness of `Loc`,
disjointness of constants and locations; two-byte registers, and phis of one block
that differ; that a function which copies has no values of its own in Y, which
`AllocateRegisters` ensures; that the last function of a chain calls nobody; that
reach, passes and `MaxReads` are natural numbers; and that the functions which are compiled are
`WellFormed`: a terminator has the targets of its kind, which are blocks of the function,
a comparison compares, and what is a slot is a number.

One thing to know when extending the proofs: the encoding that tlapm 1.4.5 gives the SMT
solver says that the length of anything is a natural number, hence that the domain of
every function is `1 .. n`.  An obligation that speaks of `Len` and of a function on
`0 .. n` can therefore be proved whatever it says.  The proofs keep the two apart (see
`LayoutFacts`), and all their obligations were solved again without that axiom.

### Only model-checked

- `Terminates`, `Termination` and `Finishes`: liveness is beyond the prover.
- `ReadsEnd`: that the calls of one read come to an end needs a measure over the graph,
  of the blocks that have no value for the variable yet and of the chains of single
  predecessors between them, and hence induction over it.
- The optimizer, allocation, and what code means: `BehaviourPreserved`, `ReadsRight`,
  `EdgesRight`, `ReturnsAsWritten` and `CodeMeansBlocks` compare executions, defined by
  folds over the steps of a run, of functions that folds over their blocks have changed.
  That needs induction over data for each pass.  `EdgesInStep` and `UsesComputed` are
  about what the passes leave, and the least of these: see the plan.

## Findings

1. Wide phis (`phi_lowering_wide`): the scratch slot is two bytes and provided
   only for saves, but swaps of wide values use it too (`m6809/backend.go:3948`,
   2836-2845, 2861-2864).
2. Indirect calls and Y (`clobber_indirect`): an indirect call is summarised
   without Y, although what it reaches may leave Y unsaved because "its callers
   avoid Y" (`m6809/clobber.go:229-232`, `m6809/backend.go:3958-3962`).
3. Backward goto (`ssa_goto`): a label's block is sealed at the label, so a later
   goto adds an edge that the block's phis have no operand for
   (`ir/builder.go:1751`); `doc/minigolf_lang.md:339-341` calls forward gotos
   "fully supported" and describes goto without restriction.

4. Return past a deferred block (`panic_return`): the return unlinks the block's buffer
   and the destruct block does so again (`ir/builder.go:1666-1671`, 612-613), which
   takes a buffer of the caller.
5. Two addresses of a variable (`optimizer_pointers`): what is known of a local is
   keyed by the instruction that takes its address, of which there is one per access
   (`opt/store_load.go:65`).

Met while modelling, with the shapes that lead to them left out of the passing runs
(`PROJECT.json` quotes what the code or a doc says of each):

6. A deferred block that recovers leaves the function's own buffer linked
   (`ir/builder.go:1797`).
7. A panic that unwinds a function skips its deferred calls (649-658).
8. A return before a `defer` statement still runs it, and unlinks a buffer for it (604).
9. The panic handler of a function destroys variables not yet declared, and may run
   destructors twice after a panic on the way out (653).
10. A load may be forwarded to one that the same pass removed (`opt/store_load.go:85`).
11. Folding an empty block with two predecessors leaves a phi without an operand
    (`opt/branch_fold.go:131`).
12. A variable whose address is taken shares storage with its first value
    (`ir/builder.go:742`).
13. Constants fold at 64 bits where words wrap (`opt/constfold.go:166`).
14. Two peephole rules remove one line twice, and the compiler panics
    (`m6809/peephole.go:430`).
15. Threading three bare jumps in a cycle does not end (`m6809/peephole.go:540`).
16. Relaxation stops silently after 30 passes (`cmd/asm6809/main.go:1213`), and the range
    check after it cannot notice.
17. With `-no-cssa-lowering6809` the cache of D survives from one edge to the other
    (`m6809/backend.go:2646`).
18. Statements after a `return` in the same list are emitted and executed
    (`ir/builder.go:1677`).
19. A range loop with a value evaluates its slice again in every iteration
    (`ir/builder.go:1567`).

## Not modelled

- *Values other than words* in the optimizer, the allocator and the code: bytes, casts,
  signed comparisons, aggregates and their copies through X and Y.  Widths appear in
  `PhiLowering`, where they decide something; elsewhere they would multiply the
  instructions without a new order of events.
- *Frames and argument passing* (`convention.go`), multiplication, division and shifts
  (calls of helpers), the lines on U, Y and A, auto-increment, and the comments that the
  peephole carries along.
- *Direct-page and PCR relaxation*, ORG, EQU and the encodings of `asm6809`; the other
  assemblers encode only.
- *What a jump buffer saves* (U and Y at `SetJmp`): `PanicChain` has no registers and
  `Allocation` no handlers.
- *Dead function elimination*, the resolver of global items, scopes, generics, the
  `par4` machine, the containers of `golflib` and the big-model compiler: planned or
  candidates, see below.
- *Text processing*: lexer, parser, printers; the syntax tree rewriting of `semantic`
  and of the C translator; the vendored C frontend (`cc_v5`), by far the largest part
  of the repository; the other backends, which select instructions for the same IR
  with no state between blocks; the older par3 tools and command line utilities.  These
  are sequential and functional, and their tests compare outputs; a model would repeat
  the program.

## Plan

Next, in this order:

1. Proofs about single edits of the CFG: `RemovePhiEdgesFrom` and preheader insertion
   keep successors, predecessors and operands in step.
2. *Dead function elimination*: the worklist equals reachability, provable with the
   closure lemmas of `ClobberConvention_proofs`.
3. SSA: variables in memory, code after a return.
4. *Global resolver*: progress and cycles; scopes of `semantic/resolve.go`.
5. Registers across panics: the buffers' U and Y with `Allocation`'s places.
6. The `par4` VM's frames and the containers of `golflib`.
