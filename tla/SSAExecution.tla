---------------------------- MODULE SSAExecution ----------------------------
(***************************************************************************)
(* A function built by SSABuilder is run, along every path of its graph,   *)
(* twice at once: with the source variables, where an assignment stores    *)
(* and a use loads, and with the SSA form, where a use names a value and   *)
(* the phis of a block take the operand of the edge by which it was        *)
(* entered.  What the two store is not recorded, only which variables and  *)
(* which SSA values hold the same: an instruction that is run again gives  *)
(* its value anew, and a variable that holds the old one holds something   *)
(* else.                                                                   *)
(***************************************************************************)
EXTENDS SSABuilder

VARIABLES
  here,   \* the block being run, 0 before the function starts
  holds,  \* the SSA values that hold the same as each source variable
  agree   \* every use so far names a value that holds the same as the variable

evars == <<here, holds, agree>>
vars == <<fn, open, labelled, placed, count, built, here, holds, agree>>

Values == 1 .. Len(fn.home)

SInit ==
  /\ Init
  /\ here = 0 /\ agree = TRUE
  /\ holds = [x \in Names |-> {}]

Building == Build /\ UNCHANGED evars

PhisOf(blk) == {p \in DOMAIN fn.phis : fn.home[p] = blk}
OperandsFrom(p, pred) ==
  {e \in {fn.phis[p].edges[k] : k \in DOMAIN fn.phis[p].edges} : e.from = pred}

\* All phis of a block at once; one without an operand for the edge holds nothing known.
Entered(pred, blk) ==
  [x \in Names |->
     {v \in Values :
        IF v \in PhisOf(blk)
        THEN OperandsFrom(v, pred) # {} /\ \A e \in OperandsFrom(v, pred) : e.val \in holds[x]
        ELSE v \in holds[x]}]

\* What an instruction of a block does: it stores a new value, or the value read.
Performed(a, h) ==
  [x \in Names |->
     IF a.reads # {}
     THEN IF x \in a.writes THEN h[CHOOSE y \in a.reads : TRUE] ELSE h[x]
     ELSE IF x \in a.writes THEN {a.val} ELSE h[x] \ {a.val}]

\* The variables after each of the actions of block blk.
After(blk, h) ==
  LET after[n \in 0 .. Len(fn.code[blk])] ==
        IF n = 0 THEN h ELSE Performed(fn.code[blk][n], after[n - 1])
  IN  after

Agrees(blk, h) ==
  \A k \in DOMAIN fn.code[blk] :
    LET a == fn.code[blk][k] IN \A x \in a.reads : a.val \in After(blk, h)[k - 1][x]

RunBlock(blk, h) ==
  /\ here' = blk
  /\ holds' = After(blk, h)[Len(fn.code[blk])]
  /\ agree' = (agree /\ Agrees(blk, h))
  /\ UNCHANGED bvars

\* At first nothing is known, of variables and values alike.
Start ==
  /\ built /\ ~fn.stuck /\ here = 0
  /\ RunBlock(Entry, [x \in Names |-> Values])

Jump ==
  /\ here # 0
  /\ \E k \in DOMAIN fn.succs[here] :
       RunBlock(fn.succs[here][k], Entered(here, fn.succs[here][k]))

SNext == Building \/ Start \/ Jump

Spec == SInit /\ [][SNext]_vars

-----------------------------------------------------------------------------
\* Types: every value has a block of the function, an operand comes from a block
\* of it, and the current block is one of them.
TypeOK ==
  ~fn.stuck =>
    /\ fn.preds \in [Blocks(fn) -> Seq(Blocks(fn))] /\ fn.succs \in [Blocks(fn) -> Seq(Blocks(fn))]
    /\ fn.sealed \subseteq Blocks(fn) /\ fn.cur \in Blocks(fn)
    /\ fn.home \in Seq(Blocks(fn)) /\ DOMAIN fn.phis \subseteq Values
    /\ fn.def \in [Blocks(fn) -> [Names -> Values \cup {NoValue}]]
    /\ \A p \in DOMAIN fn.phis :
         /\ fn.phis[p].var \in Names
         /\ fn.phis[p].edges \in Seq([from : Blocks(fn), val : Values])
    /\ fn.incomplete \subseteq DOMAIN fn.phis
    /\ here \in 0 .. fn.blocks /\ agree \in BOOLEAN
    /\ holds \in [Names -> SUBSET Values]

\* A read of a variable ends: readVariable, readVariableRecursive and addPhiOperands
\* call each other back along the edges, round loops whose header may be sealed by
\* then, and no chain of blocks with one predecessor each closes on itself.
ReadsEnd == ~fn.stuck

\* A finished function has one operand in each phi for each predecessor of its
\* block, in the order of the predecessors, even where the phi was made before
\* the last of them was known (addPhiOperands, sealBlock).
OneOperandPerEdge ==
  built /\ ~fn.stuck =>
    \A p \in DOMAIN fn.phis :
      LET ps == fn.preds[fn.home[p]]
      IN  [k \in DOMAIN fn.phis[p].edges |-> fn.phis[p].edges[k].from] = ps

\* On every path, through every loop, break, continue and goto, a use of a
\* variable names a value that holds what the last assignment on that path stored.
UsesSeeLastAssignment == agree
=============================================================================
