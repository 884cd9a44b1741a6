---------------------------- MODULE MCAllocation ----------------------------
(***************************************************************************)
(* Functions of MCFunctions through the optimizer, and some of them on to  *)
(* the 6809.                                                               *)
(***************************************************************************)
EXTENDS Allocation, MCFunctions

All == ToSet(Order) \cup {"Inline"}

With(programs, configs) ==
  {[fn |-> p.fn, callee |-> p.callee, configs |-> configs] : p \in programs}

\* Programs with each pass switched off.
Some ==
  {Alone(Straight(k, 1, "div", 4)) : k \in {"add", "mul"}}
    \cup {Alone(Diamond(k, l, r, 4, v)) : k \in {"eq", "lt"}, l \in {1, 3}, r \in {2, 3}, v \in {2, 4}}
    \cup LoopPrograms \cup GotoPrograms \cup CallPrograms
    \cup {Alone(Pointer(<<"*p=b", x, y>>)) : x \in {"guard", "+*p"}, y \in {"+*p", "+x"}}

\* x := a + b; y := x * x; f; g; return g + y or, with r = 4, y, where f and g are
\* calls with y, and with x + y and x, that differ in what is called.
Busy(f, g, r) ==
  Alone(Function(<<Param, Param, Bin("add", 1, 2), Bin("mul", 3, 3), f,
                   Bin("add", 3, 4), g, Bin("add", 7, 4), Return(r)>>,
                 << <<3, 4, 5, 6, 7, 8, 9>> >>))

\* The variable x of Pointer starts out with a + b.
Sum(accesses) == Alone([Pointer(accesses) EXCEPT !.ins[3] = Bin("add", 1, 2)])

\* Programs to be run on the 6809: as the builder leaves them, as the inliner
\* does, and as all passes of the optimizer do.
ForM6809 ==
  Some
    \cup {Alone(Diamond(k, l, r, u, v)) : k \in {"eq", "lt"}, l \in {1, 3}, r \in {2, 3}, u \in {2, 4}, v \in {2, 4}}
    \cup {Alone(Pointer(<<"*p=b", x, y>>)) : x \in {"guard", "+*p", "f(p)"}, y \in {"+*p", "+x", "f(&x)"}}
    \cup {Busy(f, g, r) : f \in {Outside(<<4>>), Indirect(<<4>>)}, r \in {4, 8},
                          g \in {Inside(<<6, 3>>), Outside(<<6, 3>>), Indirect(<<6, 3>>)}}
    \cup {Sum(<<x, y>>) : x \in {"f(p)", "+x"}, y \in {"+*p", "+x"}}

MCPrograms ==
  With(StraightPrograms \cup DiamondPrograms \cup LoopPrograms \cup GotoPrograms
         \cup PointerPrograms \cup CallPrograms, {All})
    \cup With(Some, {All \ {p} : p \in All})
    \cup With(ForM6809, {S \cup {"M6809"} : S \in {{}, {"Inline"}, All}})

MCInputs == {<<x, y>> : x \in {0, 1, 3}, y \in {0, 2}}
MCRunInputs == {<<0, 2>>, <<3, 2>>}
MCPools == {<<>>, <<"u">>, <<"y">>, <<"u", "y">>}
=============================================================================
