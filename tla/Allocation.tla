----------------------------- MODULE Allocation -----------------------------
(***************************************************************************)
(* Where the M6809 backend keeps the values of a function: in U or Y       *)
(* (m6809/regalloc.go, AllocateRegisters), or in a slot of the frame, which*)
(* values of one block may share (opt/stack_alloc.go).  It is given what    *)
(* the optimizer leaves.  The allocated function is run one emitted         *)
(* instruction at a time next to the function itself, to see whether what   *)
(* is read from a place is what was put there.                              *)
(***************************************************************************)
EXTENDS Optimizer, Liveness

CONSTANTS Pools,      \* the registers AllocatableRegisters leaves: sequences
          RunInputs,  \* the inputs that the allocated function is run with
          Junk        \* what a place holds that nothing was put in

ASSUME AllocationAssumption ==
  /\ Pools \subseteq {<<>>, <<"u">>, <<"y">>, <<"u", "y">>}
  /\ RunInputs \subseteq Inputs /\ Junk \notin Nat

-----------------------------------------------------------------------------
\* AllocateRegisters.

\* localAddressTaken: an AddressOfLocal of the value is in some block.
LocalAddressTaken(f) ==
  {f.ins[a].args[1] : a \in {v \in Placed(f) : f.ins[v].op = "aol"}}

LoopDepth(f, b) ==
  Len(SelectSeq(Headers(f), LAMBDA h : b \in Loop(f, h).blocks))

\* Everything the scoring loops look at in block b: its terminator twice if it
\* is in the code.
Scored(f, b) == f.code[b] \o <<f.term[b]>>

\* Two points for a use, five more for a use as a pointer.
Points(i, v) ==
  2 * Occurrences(i.args, v)
    + (IF i.op \in {"load", "store"} /\ i.args[1] = v THEN 5 ELSE 0)

Score(f, v) ==
  FoldLeft(LAMBDA n, b : n + 10 ^ LoopDepth(f, b)
             * FoldLeft(LAMBDA m, w : m + Points(f.ins[w], v), 0, Scored(f, b)),
           0, f.blocks)

IsPointer(f, v) ==
  \E w \in Placed(f) : f.ins[w].op \in {"load", "store"} /\ f.ins[w].args[1] = v

\* Mutant: a variable whose address is taken is kept in a register.
EligibleAddressed(f, v) ==
  /\ f.ins[v].op \in {"bin", "phi", "load", "call", "aol"}
  /\ f.ins[v].op = "aol" => v \in EscapingAOL(f)

\* Values that may live in a register, if they score: words that are computed
\* and whose address is not taken.
Eligible(f, v) ==
  /\ f.ins[v].op \in {"bin", "phi", "load", "call", "aol"}
  /\ f.ins[v].op = "aol" => v \in EscapingAOL(f)
  /\ v \notin LocalAddressTaken(f)

Candidates(f) ==
  LET all == FlattenSeq([i \in DOMAIN f.blocks |->
               SelectSeq(f.code[f.blocks[i]], LAMBDA v : Eligible(f, v))])
      scored == Evaluated([i \in DOMAIN all |->
                  [v |-> all[i], score |-> Score(f, all[i]), ptr |-> IsPointer(f, all[i])]])
      Before(c, d) ==
        \/ c.ptr /\ ~d.ptr
        \/ c.ptr = d.ptr /\ c.score > d.score
        \/ c.ptr = d.ptr /\ c.score = d.score /\ c.v < d.v
  IN SortSeq(SelectSeq(scored, LAMBDA c : c.score >= 4), Before)

\* Mutant: an indirect call counts for no more than the instructions it is lowered
\* to (InstructionDirectClobbers), which leave Y alone.
SpoilsYDirect(i, spoiled) == IsInside(i) /\ spoiled

\* A call that may overwrite Y, as the analysis has it: one of a function of which
\* FunctionTotalClobbers says so, which it does of none outside the program
\* (HelperClobbers), and any indirect or built-in one.
SpoilsY(i, spoiled) == (IsInside(i) /\ spoiled) \/ IsIndirect(i)

\* computeRegisterInterferences: the keys live across such a call.
AcrossSpoiler(f, live, spoiled) ==
  UNION {UNION {w[2] \ {Key(f, w[1])} :
                  w \in {x \in LiveAfter(f, b, live.out[b]) : SpoilsY(f.ins[x[1]], spoiled)}} :
           b \in BlockSet(f)}

\* The registers by preference: pointers take the first, other values the last.
Preferred(c, pool) == IF c.ptr THEN pool ELSE Reverse(pool)

Colour(f, candidates, edges, across, pool) ==
  FoldLeft(LAMBDA where, c :
    LET free == SelectSeq(Preferred(c, pool), LAMBDA r :
          /\ ~(r = "y" /\ Key(f, c.v) \in across)
          /\ \A w \in DOMAIN where :
               where[w] = r => ~Interferes(edges, Key(f, w), Key(f, c.v)))
    IN IF free = <<>> THEN where ELSE c.v :> free[1] @@ where,
    <<>>, candidates)

AllocateWith(f, live, pool, spoiled) ==
  Colour(f, Candidates(f), Interference(f, live), AcrossSpoiler(f, live, spoiled), pool)

\* The register of each value that has one.
AllocateRegisters(f, pool, spoiled) ==
  IF pool = <<>> THEN <<>> ELSE AllocateWith(f, Live(f), pool, spoiled)

-----------------------------------------------------------------------------
\* StackAllocPass.

DefinedIn(f, b) == ToSet(f.code[b])

\* Values that keep a slot of their own: those used outside their block or by a
\* phi, and variables.
CrossBlock(f) ==
  UNION {UNION {{x \in ToSet(f.ins[v].args) :
                   \/ f.ins[v].op \in {"phi", "aol"}
                   \/ \E c \in BlockSet(f) \ {b} : x \in DefinedIn(f, c)} :
                   v \in DefinedIn(f, b) \cup {f.term[b]}} : b \in BlockSet(f)}

\* The types whose values share slots among themselves.
TypeOf(i) == CASE i.op = "cmp" -> "byte" [] i.op = "aol" -> "pointer" [] OTHER -> "word"

\* Mutant: the first use frees the slot.
LastUseFirst(f, b, i, v) ==
  LET uses == {j \in DOMAIN f.code[b] : v \in ToSet(f.ins[f.code[b][j]].args)}
  IN IF uses = {} THEN i ELSE CHOOSE j \in uses : \A k \in uses : j <= k

\* The index of the last use of v in block b, where it stands at index i; the
\* terminator comes after the code.
LastUse(f, b, i, v) ==
  MaxOf({i} \cup {j \in DOMAIN f.code[b] : v \in ToSet(f.ins[f.code[b][j]].args)}
          \cup {j \in {Len(f.code[b]) + 1} : v \in ToSet(Term(f, b).args)})

\* The value at index i of block b takes the first slot of its type that is free
\* there, else one of its own.
Share(f, b, own, s, i) ==
  LET v == f.code[b][i]
      type == TypeOf(f.ins[v])
      fits == SelectInSeq(s.slots, LAMBDA c : c.type = type /\ i > c.freeAt)
  IN IF v \in own \/ ~(f.ins[v].op \in {"bin", "cmp", "phi", "load", "call", "aol"}) THEN s
     ELSE IF fits = 0
       THEN [s EXCEPT !.slots = Append(@, [id |-> v, type |-> type, freeAt |-> LastUse(f, b, i, v)])]
     ELSE [s EXCEPT !.alias = v :> s.slots[fits].id @@ @,
                    !.slots[fits].freeAt = LastUse(f, b, i, v)]

ShareBlock(f, own, s, b) ==
  FoldLeft(LAMBDA t, i : Share(f, b, own, t, i),
           [s EXCEPT !.slots = [n \in DOMAIN @ |-> [@[n] EXCEPT !.freeAt = 0]]],
           [i \in DOMAIN f.code[b] |-> i])

ShareWith(f, own) ==
  FoldLeft(LAMBDA s, b : ShareBlock(f, own, s, b), [slots |-> <<>>, alias |-> <<>>], f.blocks).alias

\* SlotAlias: the value whose slot a value uses, if not its own.
SlotAlias(f) == ShareWith(f, CrossBlock(f))

-----------------------------------------------------------------------------
\* Running the allocated function.

VARIABLES pool,     \* the registers at hand
          spoiled,  \* whether the functions it calls overwrite Y
          input,    \* the arguments of the run
          regs,     \* the register of each value that has one
          alias,    \* the slots shared
          run,      \* the run of the function itself, at block run.at
          pc,       \* the index of the next instruction emitted for that block
          reg,      \* what U and Y hold
          slot      \* what the slots of the frame hold

optimizing == vars
chosen == <<pool, spoiled, input, regs, alias>>
running == <<run, pc, reg, slot>>
avars == <<optimizing, chosen, running>>

\* The places where a value is used; a terminator in the code counts once.
CountUses(f, v) ==
  FoldLeft(LAMBDA n, b : FoldLeft(LAMBDA m, w : m + Occurrences(f.ins[w].args, v), n,
             IF f.term[b] \in DefinedIn(f, b) THEN f.code[b] ELSE Scored(f, b)), 0, f.blocks)

\* fusedCompares: a comparison at the end of a block, which only the branch of
\* the block uses, is left to the branch.
Fused(f, b) ==
  {v \in ToSet(f.code[b]) :
     /\ v = Last(f.code[b]) /\ f.ins[v].op = "cmp" /\ CountUses(f, v) = 1
     /\ Term(f, b).op = "branch" /\ Term(f, b).args[1] = v}

\* emitFunc passes over phis, terminators and fused comparisons.
Emitted(f, b) ==
  SelectSeq(f.code[b], LAMBDA v :
    f.ins[v].op # "phi" /\ f.ins[v].op \notin Terminators /\ v \notin Fused(f, b))

SlotOf(v) == IF v \in DOMAIN alias THEN alias[v] ELSE v

\* What the code reads for value v: constants and addresses of variables are
\* made on the spot.
Read(v) ==
  CASE fn.ins[v].op = "const" -> fn.ins[v].n % WordMod
    [] v \in DOMAIN regs -> reg[regs[v]]
    [] fn.ins[v].op = "aol" /\ v \notin DOMAIN regs /\ v \notin EscapingAOL(fn) ->
         AddressOf(fn.ins[v].args[1])
    [] OTHER -> slot[SlotOf(v)]

NotRunning ==
  [slot |-> <<>>, calls |-> <<>>, at |-> Entry(fn), done |-> FALSE, stuck |-> FALSE, result |-> 0]

AInit ==
  /\ Init
  /\ pool = <<>> /\ spoiled = FALSE /\ input = <<>> /\ regs = <<>> /\ alias = <<>>
  /\ run = NotRunning /\ pc = 1 /\ reg = [r \in {"u", "y"} |-> Junk] /\ slot = <<>>

\* A step of the optimizer.
Optimize == Next /\ UNCHANGED <<chosen, running>>

\* The optimizer is done with the function; the 6809 backend makes code for it,
\* and it is run.
Allocate ==
  /\ Finished /\ "M6809" \in config
  /\ stage' = "run"
  /\ \E p \in Pools, s \in BOOLEAN, arg \in RunInputs :
       /\ pool' = p /\ spoiled' = s /\ input' = arg
       /\ regs' = AllocateRegisters(fn, p, s)
       /\ run' = [run EXCEPT !.at = Entry(fn), !.slot =
                    [v \in DOMAIN fn.ins |-> IF v \in DOMAIN arg THEN arg[v] ELSE 0]]
       /\ slot' = [v \in DOMAIN fn.ins |-> IF v \in DOMAIN arg THEN arg[v] ELSE Junk]
  /\ alias' = SlotAlias(fn)
  /\ UNCHANGED <<fn, callee, want, config, pos, round, changed, pc, reg>>

ToRun == Emitted(fn, run.at)

Here == ToRun[pc]

AtEnd == pc > Len(ToRun)

\* storeResult: a constant is only stored if it is the first value of a variable,
\* an address only if it escapes.
Stored(v) ==
  CASE fn.ins[v].op = "const" -> v \in LocalAddressTaken(fn)
    [] fn.ins[v].op = "aol" -> v \in EscapingAOL(fn)
    [] fn.ins[v].op = "store" -> FALSE
    [] OTHER -> TRUE

\* The instruction's result goes to its place; r is the run after it.
StoreResult(v, r) ==
  IF ~Stored(v) THEN UNCHANGED <<reg, slot>>
  ELSE IF v \in DOMAIN regs THEN reg' = [reg EXCEPT ![regs[v]] = r.slot[v]] /\ UNCHANGED slot
  ELSE slot' = [slot EXCEPT ![SlotOf(v)] = r.slot[v]] /\ UNCHANGED reg

\* The machine computes from what it reads what the function computes from its
\* values: ReadsRight says that these are the same.
Compute ==
  /\ stage = "run" /\ ~AtEnd /\ fn.ins[Here].op \in {"const", "bin", "cmp", "aol", "load"}
  /\ run' = Execute(fn, run, Here) /\ ~run'.stuck
  /\ StoreResult(Here, run')
  /\ pc' = pc + 1
  /\ UNCHANGED <<optimizing, chosen>>

\* A store writes a variable, which is in memory.
StoreThrough ==
  /\ stage = "run" /\ ~AtEnd /\ fn.ins[Here].op = "store"
  /\ run' = Execute(fn, run, Here)
  /\ slot' = [slot EXCEPT ![SlotOf(run.slot[fn.ins[Here].args[1]] - 1000)] =
                Value(fn, run, fn.ins[Here].args[2])]
  /\ pc' = pc + 1
  /\ UNCHANGED <<optimizing, chosen, reg>>

\* What a call finds Y used for at run time: a function outside the program keeps it,
\* a pointer may be of any function, and print and its like call several.
OverwritesY(i) == CASE i.k = "inside" -> spoiled [] i.k = "outside" -> FALSE [] OTHER -> TRUE

\* A call writes the variables it gets the addresses of, and leaves junk in Y if
\* it may; U is saved by every function that uses it.
CallFunction ==
  /\ stage = "run" /\ ~AtEnd /\ fn.ins[Here].op = "call"
  /\ run' = CallWith(fn, run, Here)
  /\ LET memory == [v \in DOMAIN slot |->
           IF v # Here /\ run'.slot[v] # run.slot[v] THEN run'.slot[v] ELSE slot[v]]
         after == [reg EXCEPT !["y"] = IF OverwritesY(fn.ins[Here]) THEN Junk ELSE @]
     IN IF Here \in DOMAIN regs
          THEN slot' = memory /\ reg' = [after EXCEPT ![regs[Here]] = run'.slot[Here]]
          ELSE slot' = [memory EXCEPT ![SlotOf(Here)] = run'.slot[Here]] /\ reg' = after
  /\ pc' = pc + 1
  /\ UNCHANGED <<optimizing, chosen>>

\* A fused comparison is made here.
Decided == FoldLeft(LAMBDA r, v : Execute(fn, r, v), run, SetToSeq(Fused(fn, run.at)))

Destination(v) == IF v \in DOMAIN regs THEN <<regs[v], 0>> ELSE <<"slot", SlotOf(v)>>

\* The operand a phi takes on the edge from block b.
Operand(v, b) == fn.ins[v].args[CHOOSE j \in DOMAIN fn.ins[v].to : fn.ins[v].to[j] = b]

\* emitTerminator and emitPhiAssignments: the phis of the target get their places
\* filled all at once, with what is read for their operands.
TakeEdge ==
  /\ stage = "run" /\ AtEnd /\ Term(fn, run.at).op \in {"jump", "branch"}
  /\ run' = RunBlock(fn, LAMBDA r, v : r, Decided)
  /\ LET moved == Phis(fn, run'.at)
         MovedTo(place) == {v \in moved : Destination(v) = place}
         Put(place, old) == IF MovedTo(place) = {} THEN old
                            ELSE Read(Operand(CHOOSE v \in MovedTo(place) : TRUE, run.at))
     IN /\ reg' = [r \in {"u", "y"} |-> Put(<<r, 0>>, reg[r])]
        /\ slot' = [s \in DOMAIN slot |-> Put(<<"slot", s>>, slot[s])]
  /\ pc' = 1
  /\ UNCHANGED <<optimizing, chosen>>

ANext == Optimize \/ Allocate \/ Compute \/ StoreThrough \/ CallFunction \/ TakeEdge

ASpec == AInit /\ [][ANext]_avars

-----------------------------------------------------------------------------
\* Properties.

\* Registers are given to values of the function out of the pool, never to a
\* variable, which must stay in memory; the slot that stands for several values
\* is one of theirs.
ATypeOK ==
  /\ DOMAIN regs \subseteq DOMAIN fn.ins /\ \A v \in DOMAIN regs : regs[v] \in ToSet(pool)
  /\ DOMAIN regs \cap LocalAddressTaken(fn) = {}
  /\ \A v \in DOMAIN alias :
       /\ alias[v] \in DOMAIN fn.ins \ DOMAIN alias
       /\ TypeOf(fn.ins[alias[v]]) = TypeOf(fn.ins[v])
  /\ stage = "run" => run.at \in BlockSet(fn) /\ pc \in 1 .. Len(ToRun) + 1

Right(v) == Read(v) = Value(fn, run, v)

\* The operands the next code reads from their places.
Needed ==
  IF AtEnd
    THEN UNION {ToSet(fn.ins[v].args) : v \in Fused(fn, run.at)}
           \cup (ToSet(Term(fn, run.at).args) \ Fused(fn, run.at))
    ELSE IF fn.ins[Here].op = "aol" THEN {} ELSE ToSet(fn.ins[Here].args)

\* The variable behind the pointer of a load is in memory.
InMemory(v) ==
  LET l == run.slot[fn.ins[v].args[1]] - 1000 IN slot[SlotOf(l)] = run.slot[l]

\* Whatever shares a register or a slot: when an operand is read, its place still
\* holds it, and a variable read through a pointer is in memory.
ReadsRight ==
  stage = "run" =>
  /\ \A v \in Needed : Right(v)
  /\ stage = "run" /\ ~AtEnd /\ fn.ins[Here].op = "load" => InMemory(Here)

\* On the edge about to be taken each phi finds its operand, and no two phis of a
\* block have one place: the moves handed to SequentializeParallelCopies have
\* different destinations, which it relies on.
EdgesRight ==
  stage = "run" =>
    /\ \A b \in BlockSet(fn) : \A v, w \in Phis(fn, b) : Destination(v) = Destination(w) => v = w
    /\ AtEnd => \A s \in ToSet(fn.succs[run.at]) : \A v \in Phis(fn, s) : Right(Operand(v, run.at))

\* From the builder to the machine: what is read for the value that the code
\* returns, after all passes and with all sharing, is what the function returned
\* when it came from the builder.
ReturnsAsWritten ==
  stage = "run" /\ AtEnd /\ Term(fn, run.at).op = "return" /\ InsideCalls(fn) = {}
    /\ want[input].done => Read(Term(fn, run.at).args[1]) = want[input].result
=============================================================================
