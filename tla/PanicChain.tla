----------------------------- MODULE PanicChain -----------------------------
(***************************************************************************)
(* Deferred actions, destructors, panics and the chain of jump buffers     *)
(* that ties them together: what the builder emits for a function that has *)
(* any (ir/builder.go) executed with the runtime the 6809 backend emits    *)
(* (m6809/backend.go).  A program is a chain of functions 1 .. N, function *)
(* i calling only function i + 1, each a sequence of statements:           *)
(*   "call"           a call of the next function                          *)
(*   "panic"          if ... { panic(m) }                                  *)
(*   "return"         if ... { return }                                    *)
(*   "destructible"   var x T, T with a destructor                         *)
(*   "deferCall"      defer f(), f the next function                       *)
(*   "block"          defer func() { ... }(), a body with no effect here   *)
(*   "blockCalls"     the same, with a body that calls the next function   *)
(*   "blockPanics"    the same, whose body may panic                       *)
(*   "blockRecovers"  the same, whose body calls recover()                 *)
(*                                                                         *)
(* A jump buffer is named after the activation whose frame it is in and    *)
(* the statement it belongs to, 0 for the one of the function.  Its prev   *)
(* field is written once, when it is linked, so the list that starts at    *)
(* _jmp_chain_ is a sequence.  Reading a buffer in the frame of a function *)
(* that has returned is undefined, and ends the run as "wild".  Destructor *)
(* bodies neither panic nor recover, and a panic has a message ("must NOT  *)
(* be nil", doc/minigolf_lang.md).                                         *)
(***************************************************************************)
EXTENDS Naturals, Sequences, SequencesExt

CONSTANTS N,        \* the functions are 1 .. N
          Programs, \* the programs considered
          MaxCalls  \* a bound on calls; no program considered makes more

Blocks == {"block", "blockCalls", "blockPanics", "blockRecovers"}
Deferred == Blocks \cup {"destructible", "deferCall"}
Statements == Deferred \cup {"call", "panic", "return"}
Calling == {"call", "deferCall", "blockCalls"}

ASSUME NAssumption == N \in Nat \ {0} /\ MaxCalls \in Nat
ASSUME ProgramsAssumption ==
  Programs \subseteq [1 .. N -> Seq(Statements)]
\* The last function has nobody to call.
ASSUME CallAssumption ==
  \A p \in Programs : \A i \in 1 .. Len(p[N]) : p[N][i] \notin Calling

VARIABLES
  program,    \* the program run, never changed
  stack,      \* the activations, the running one last
  chain,      \* the buffers from _jmp_chain_ along prev, the newest first
  panicking,  \* _panic_ is not nil
  calls,      \* activations so far; the next one's name is calls + 1
  status      \* "running", or how the program ended

vars == <<program, stack, chain, panicking, calls, status>>

\* jumper_main, linked before main starts.
MainBuffer == [act |-> 0, of |-> 0]

Top == stack[Len(stack)]
Body == program[Top.fn]

\* hasDestructiblesOrDefers: a function with this body has a buffer of its own.
HasHandler(code) == \E i \in 1 .. Len(code) : code[i] \in Deferred

\* The last statement before the i-th that is of a kind in K, 0 if none.
LastBefore(code, i, K) ==
  LET S == {j \in 1 .. Len(code) : j < i /\ code[j] \in K}
  IN IF S = {} THEN 0 ELSE CHOOSE j \in S : \A k \in S : k <= j

\* An activation: pc, the statement its body is at; phase and at, what it does
\* and the action it does next; entry, the chain it found; ran, the actions done.
Activation(fn, c) ==
  [fn |-> fn, act |-> calls + 1, phase |-> "entry", pc |-> 1, at |-> 0,
   entry |-> c, ran |-> <<>>]

Init ==
  /\ program \in Programs
  /\ calls = 1
  /\ chain = <<MainBuffer>>
  /\ stack = <<[fn |-> 1, act |-> 1, phase |-> "entry", pc |-> 1, at |-> 0,
                entry |-> <<MainBuffer>>, ran |-> <<>>]>>
  /\ panicking = FALSE
  /\ status = "running"

-----------------------------------------------------------------------------
\* The runtime.

Live(b, s) == b = MainBuffer \/ \E k \in 1 .. Len(s) : s[k].act = b.act

\* n times _unlink_jmp_, which leaves an empty chain alone.
Unlinked(c, n) == IF n >= Len(c) THEN <<>> ELSE SubSeq(c, n + 1, Len(c))

UnlinkReadsLive(c, n) == \A i \in 1 .. Len(c) : i <= n => Live(c[i], stack)

Replaced(frame) == [stack EXCEPT ![Len(stack)] = frame]

\* The top activation goes on as frame, the chain being c.
Continue(frame, c) ==
  /\ stack' = Replaced(frame) /\ chain' = c
  /\ UNCHANGED <<program, panicking, calls, status>>

CallNext(frame, c) ==
  /\ calls < MaxCalls
  /\ stack' = Append(Replaced(frame), Activation(frame.fn + 1, c))
  /\ chain' = c /\ calls' = calls + 1
  /\ UNCHANGED <<program, panicking, status>>

Stop(how) ==
  /\ status' = how
  /\ UNCHANGED <<program, stack, chain, panicking, calls>>

\* longjmp from the activations s to the newest buffer of c, which stays on the
\* chain: every activation above its own is gone.
LongJmp(s, c) ==
  IF c = <<>> THEN Stop("abort")
  ELSE IF Head(c) = MainBuffer THEN Stop("uncaught")
  ELSE IF ~Live(Head(c), s) THEN Stop("wild")
  ELSE LET k == CHOOSE k \in 1 .. Len(s) : s[k].act = Head(c).act
       IN /\ stack' = [SubSeq(s, 1, k) EXCEPT
                         ![k].phase = "caught", ![k].at = Head(c).of]
          /\ chain' = c /\ panicking' = TRUE
          /\ UNCHANGED <<program, calls, status>>

\* recover(), after which frame goes on.
Recover(frame, c) ==
  /\ stack' = Replaced(frame) /\ chain' = c /\ panicking' = FALSE
  /\ UNCHANGED <<program, calls, status>>

\* n times _unlink_jmp_, then Rest(c) with the chain c that is left.
Unlink(n, Rest(_)) ==
  IF UnlinkReadsLive(chain, n) THEN Rest(Unlinked(chain, n)) ELSE Stop("wild")

-----------------------------------------------------------------------------
\* The body of a function.

Running(phase) == status = "running" /\ Top.phase = phase

Statement(kinds) ==
  Running("body") /\ Top.pc <= Len(Body) /\ Body[Top.pc] \in kinds

Past == [Top EXCEPT !.pc = @ + 1]

Buffer(i) == [act |-> Top.act, of |-> i]

\* The prologue links the buffer of the function.
Enter ==
  /\ Running("entry")
  /\ Continue([Top EXCEPT !.phase = "body"],
              (IF HasHandler(Body) THEN <<Buffer(0)>> ELSE <<>>) \o chain)

\* A destructor or a deferred call is only noted; no buffer of its own.
Register ==
  /\ Statement({"destructible", "deferCall"})
  /\ Continue(Past, chain)

\* A deferred block links a buffer of its own.
DeferBlock ==
  /\ Statement(Blocks)
  /\ Continue(Past, <<Buffer(Top.pc)>> \o chain)

CallStatement == Statement({"call"}) /\ CallNext(Past, chain)

PanicStatement == Statement({"panic"}) /\ LongJmp(stack, chain)

\* The condition of a panic or return statement is false.
SkipStatement == Statement({"panic", "return"}) /\ Continue(Past, chain)

\* Mutant: the destruct block unlinks whether or not a buffer was linked.
LeaveBodyUnlinking(n) ==
  Unlink(n + 1, LAMBDA c :
    Continue([Top EXCEPT !.phase = "exit",
                         !.at = LastBefore(Body, Len(Body) + 1, Deferred)], c))

\* Mutant: the destruct block never unlinks the buffer of the function.
LeaveBodyLinked(n) ==
  Unlink(n, LAMBDA c :
    Continue([Top EXCEPT !.phase = "exit",
                         !.at = LastBefore(Body, Len(Body) + 1, Deferred)], c))

\* To the destruct block, which all the exits of a function share: it unlinks
\* the buffer of the function and goes through all its actions, the last first.
LeaveBody(n) ==
  LET own == IF HasHandler(Body) THEN 1 ELSE 0
      leaving == [Top EXCEPT !.phase = "exit",
                             !.at = LastBefore(Body, Len(Body) + 1, Deferred)]
  IN Unlink(n + own, LAMBDA c : Continue(leaving, c))

\* return unlinks a buffer for each block deferred further up.
ReturnStatement ==
  /\ Statement({"return"})
  /\ LeaveBody(Cardinality({i \in 1 .. Top.pc - 1 : Body[i] \in Blocks}))

FallOff == Running("body") /\ Top.pc > Len(Body) /\ LeaveBody(0)

-----------------------------------------------------------------------------
\* The deferred actions.

\* No action runs more than twice in one activation: a bound on ran.
MaxRan == 2 * Len(Body)

Action(phase, kinds) ==
  Running(phase) /\ Top.at > 0 /\ Body[Top.at] \in kinds

WithThis == IF Len(Top.ran) < MaxRan THEN Append(Top.ran, Top.at) ELSE Top.ran

\* The activation when it has run action Top.at, the next of a kind in K after.
Ran(K) == [Top EXCEPT !.ran = WithThis,
                      !.at = LastBefore(Body, Top.at, K)]

\* The block deferred by statement i, frame going on when it ends.
RunBlock(i, frame, c) ==
  \/ Body[i] = "block" /\ Continue(frame, c)
  \/ Body[i] = "blockCalls" /\ CallNext(frame, c)
  \/ Body[i] = "blockPanics" /\ (LongJmp(Replaced(frame), c) \/ Continue(frame, c))
  \/ Body[i] = "blockRecovers" /\ Recover(frame, c)

\* The destruct block, and the end of a panic handler after recover.
ExitDestroy == Action("exit", {"destructible"}) /\ Continue(Ran(Deferred), chain)

ExitCall == Action("exit", {"deferCall"}) /\ CallNext(Ran(Deferred), chain)

\* Mutant: the buffer of a deferred block is left linked on the way out.
ExitBlockLinked ==
  Action("exit", Blocks) /\ RunBlock(Top.at, Ran(Deferred), chain)

ExitBlock ==
  /\ Action("exit", Blocks)
  /\ Unlink(1, LAMBDA c : RunBlock(Top.at, Ran(Deferred), c))

\* Mutant: main returns to nobody.
ReturnRunning ==
  /\ Running("exit") /\ Top.at = 0
  /\ stack' = SubSeq(stack, 1, Len(stack) - 1)
  /\ UNCHANGED <<program, chain, panicking, calls, status>>

Return ==
  /\ Running("exit") /\ Top.at = 0
  /\ stack' = SubSeq(stack, 1, Len(stack) - 1)
  /\ status' = IF Len(stack) = 1 THEN "returned" ELSE status
  /\ UNCHANGED <<program, chain, panicking, calls>>

\* Mutant: a panic handler runs its block before it takes its buffer off.
CatchInBlockLinked ==
  /\ Action("caught", Blocks)
  /\ RunBlock(Top.at, [Top EXCEPT !.phase = "propagate",
                                  !.ran = WithThis], chain)

\* The panic handler of a deferred block.
CatchInBlock ==
  /\ Action("caught", Blocks)
  /\ Unlink(1, LAMBDA c :
       RunBlock(Top.at, [Top EXCEPT !.phase = "propagate",
                                    !.ran = WithThis], c))

\* Mutant: the panic handler of the function goes straight on to the caller's.
CatchInFunctionPropagate ==
  /\ Running("caught") /\ Top.at = 0
  /\ Unlink(1, LAMBDA c : Continue([Top EXCEPT !.phase = "propagate"], c))

\* The panic handler of the function runs its destructors only.
CatchInFunction ==
  /\ Running("caught") /\ Top.at = 0
  /\ Unlink(1, LAMBDA c :
       Continue([Top EXCEPT !.phase = "unwind",
                   !.at = LastBefore(Body, Len(Body) + 1, {"destructible"})], c))

UnwindDestroy ==
  /\ Action("unwind", {"destructible"})
  /\ Continue(Ran({"destructible"}), chain)

\* Mutant: _propagate_panic_ does not look at _panic_.
PropagateAlways ==
  /\ Running("propagate") \/ (Running("unwind") /\ Top.at = 0)
  /\ LongJmp(stack, chain)

\* _propagate_panic_; past it, the actions deferred before this one and return.
Propagate ==
  /\ Running("propagate") \/ (Running("unwind") /\ Top.at = 0)
  /\ IF panicking
       THEN LongJmp(stack, chain)
       ELSE Continue([Top EXCEPT !.phase = "exit",
                        !.at = LastBefore(Body, Top.at, Deferred)], chain)

Stopped == status # "running" /\ UNCHANGED vars

Next ==
  \/ Enter \/ Register \/ DeferBlock \/ CallStatement \/ PanicStatement
  \/ SkipStatement \/ ReturnStatement \/ FallOff
  \/ ExitDestroy \/ ExitCall \/ ExitBlock \/ Return
  \/ CatchInBlock \/ CatchInFunction \/ UnwindDestroy \/ Propagate
  \/ Stopped

Spec == Init /\ [][Next]_vars /\ WF_vars(Next)

-----------------------------------------------------------------------------
\* Types.
TypeOK ==
  /\ program \in [1 .. N -> Seq(Statements)]
  /\ chain \in Seq([act : 0 .. calls, of : Nat])
  /\ stack \in Seq([fn : 1 .. N, act : 1 .. calls, pc : Nat \ {0}, at : Nat,
                    phase : {"entry", "body", "exit", "caught", "unwind", "propagate"},
                    entry : Seq([act : 0 .. calls, of : Nat]), ran : Seq(Nat)])
  /\ panicking \in BOOLEAN
  /\ calls \in Nat
  /\ status \in {"running", "returned", "uncaught", "abort", "wild"}
  /\ status # "returned" => stack # <<>>

Has(kinds, from) ==
  \E f \in 1 .. N : f >= from /\ \E i \in 1 .. Len(program[f]) : program[f][i] \in kinds

\* Some function has an explicit return as well as a deferred block.
ReturnsPastBlocks ==
  \E f \in 1 .. N : \E i, j \in 1 .. Len(program[f]) :
    program[f][i] \in Blocks /\ program[f][j] = "return"

Recovers == Has({"blockRecovers"}, 1)

\* Some deferred action may end in a panic.
ActionsMayPanic ==
  \/ Has({"blockPanics"}, 1)
  \/ \E f \in 1 .. N - 1 : /\ \E i \in 1 .. Len(program[f]) :
                               program[f][i] \in {"deferCall", "blockCalls"}
                          /\ Has({"panic"}, f + 1)

\* The activations that the step ends: by a return or a panic, or because the
\* program stops.
Leaves(k) == status' # status \/ \A m \in 1 .. Len(stack') : stack'[m].act # stack[k].act

Returns(k) == k = Len(stack) /\ Running("exit") /\ Top.at = 0

\* The actions of a kind that activation f has registered.
Registered(f, kinds) == {i \in 1 .. f.pc - 1 : program[f.fn][i] \in kinds}

\* It has run each of the actions in due once, the last first.
RanBackwards(f, due) ==
  /\ due \subseteq ToSet(f.ran)
  /\ \A p, q \in DOMAIN f.ran :
       p < q /\ f.ran[p] \in due /\ f.ran[q] \in due => f.ran[q] < f.ran[p]

\* A function that returns leaves the chain as it found it, so that the next
\* panic goes to the caller's handlers ("builder.go automatically injects a
\* _unlink_jmp_ cleanup step during normal execution returns to ensure
\* _jmp_chain_ is maintained safely", doc/walkthrough-PanicInfra.md).
ReturnRestoresChain ==
  [][\A k \in 1 .. Len(stack) :
       (Leaves(k) /\ Returns(k)) => chain' = stack[k].entry]_vars

\* It does so in the programs that keep explicit returns and deferred blocks
\* in separate functions and never recover.
CarefulReturnRestoresChain ==
  [][\A k \in 1 .. Len(stack) :
       (Leaves(k) /\ Returns(k) /\ ~ReturnsPastBlocks /\ ~Recovers)
         => chain' = stack[k].entry]_vars

\* In those programs the chain only leads to frames that still exist, and a
\* callee takes none of the handlers of its callers off it, not even while it
\* runs deferred actions.
CallersHandlersKept ==
  (~ReturnsPastBlocks /\ ~Recovers /\ status = "running") =>
    /\ \A i \in 1 .. Len(chain) : Live(chain[i], stack)
    /\ \A k \in 1 .. Len(stack) : IsSuffix(stack[k].entry, chain)

\* Nothing jumps into a frame that is gone unless the program recovers, and the
\* chain is never empty unless a return took somebody else's buffer.
NoStrayJump ==
  /\ status = "wild" => Recovers
  /\ status = "abort" => ReturnsPastBlocks

\* However an activation ends, it has run each block it deferred once, the last
\* first, and destroyed each variable it declared once, the last first; if it
\* returned, its blocks, calls and destructors in one order ("the defer
\* statements are executed in backwards order", doc/minigolf_lang.md).  This
\* needs programs whose deferred actions end without a panic.
LeavingRunsActions ==
  [][~ReturnsPastBlocks /\ ~Recovers /\ ~ActionsMayPanic =>
       \A k \in 1 .. Len(stack) : Leaves(k) =>
         \A kinds \in {Blocks, {"destructible"}}
                      \cup (IF Returns(k) THEN {Deferred} ELSE {}) :
           RanBackwards(stack[k], Registered(stack[k], kinds))]_vars

\* An activation whose block recovered returns to its caller, and all that it
\* deferred before that block runs first ("exiting function g() with ordinary
\* flow of control, after any more destructors or deferred actions are done").
RecoverContinuesExit ==
  [][~ActionsMayPanic =>
       \A k \in 1 .. Len(stack) : \A i \in ToSet(stack[k].ran) :
         (Leaves(k) /\ status' # "wild" /\ program[stack[k].fn][i] = "blockRecovers")
           => /\ Returns(k)
              /\ RanBackwards(stack[k], {j \in Registered(stack[k], Deferred) : j <= i})]_vars

\* Every program stops, whatever panics where: a handler is off the chain
\* before anything in it can jump to it again.
Termination == <>(status # "running")
=============================================================================
