---------------------------- MODULE MCFunctions ----------------------------
(***************************************************************************)
(* Functions as the builder leaves them, for TLC: each with its source.    *)
(* Objects 1 and 2 are the parameters a and b.                             *)
(***************************************************************************)
EXTENDS IR

\* A function from its instructions and the code of its blocks.
Function(ins, code) ==
  LET term == Evaluated([b \in DOMAIN code |-> code[b][Len(code[b])]])
      To(b) == ins[term[b]].to
  IN [blocks |-> Evaluated([b \in DOMAIN code |-> b]), code |-> code, term |-> term, ins |-> ins,
      succs |-> Evaluated([b \in DOMAIN code |-> To(b)]),
      preds |-> Evaluated([c \in DOMAIN code |->
                   FlattenSeq([b \in DOMAIN code |-> SelectSeq(
                     [i \in DOMAIN To(b) |-> IF To(b)[i] = c THEN b ELSE 0], LAMBDA x : x = b)])])]

Param == Ins("param", <<>>, <<>>, "", 0)
Const(n) == Ins("const", <<>>, <<>>, "", n)
Bin(k, x, y) == Ins("bin", <<x, y>>, <<>>, k, 0)
Cmp(k, x, y) == Ins("cmp", <<x, y>>, <<>>, k, 0)
Phi(args, to) == Ins("phi", args, to, "", 0)
Local(x) == Ins("aol", <<x>>, <<>>, "", 0)
Load(p) == Ins("load", <<p>>, <<>>, "", 0)
Store(p, x) == Ins("store", <<p, x>>, <<>>, "", 0)
Outside(args) == Ins("call", args, <<>>, "outside", 0)
Inside(args) == Ins("call", args, <<>>, "inside", 0)
Indirect(args) == Ins("call", args, <<>>, "indirect", 0)
Jump(b) == Ins("jump", <<>>, <<b>>, "", 0)
Branch(x, b, c) == Ins("branch", <<x>>, <<b, c>>, "", 0)
Return(x) == Ins("return", <<x>>, <<>>, "", 0)

Alone(f) == [fn |-> f, callee |-> Function(<<Param, Param, Return(1)>>, <<<<3>>>>)]

\* return (a k c) l (d k a)
Straight(k, c, l, d) ==
  Function(<<Param, Param, Const(c), Bin(k, 1, 3), Const(d), Bin(k, 5, 1), Bin(l, 4, 6), Return(7)>>,
           << <<3, 4, 5, 6, 7, 8>> >>)

StraightPrograms ==
  {Alone(Straight(k, c, l, d)) : k \in {"add", "sub", "mul", "div", "shl"},
     c \in 0 .. 2, l \in {"add", "sub", "mul", "div"}, d \in {0, 1, 4}}

\* x := a; if c { x = u; f(x) } else { x = v }; return x + b
Diamond(k, l, r, u, v) ==
  Function(<<Param, Param, Const(1), Const(2), Cmp(k, l, r), Branch(5, 2, 3),
             Outside(<<u>>), Jump(4), Jump(4), Phi(<<u, v>>, <<2, 3>>), Bin("add", 10, 2), Return(11)>>,
           << <<3, 4, 5, 6>>, <<7, 8>>, <<9>>, <<10, 11, 12>> >>)

DiamondPrograms ==
  {Alone(Diamond(k, l, r, u, v)) : k \in {"eq", "lt"}, l \in {1, 3}, r \in {1, 2, 3, 4},
     u \in {1, 2, 4}, v \in {1, 2, 4}}

\* s := 0; for i := 0; i < a; i = i + 1 { s = s + (b k c); if q { f(s) } }; return s
CountLoop(k, c, q) ==
  Function(<<Param, Param, Const(0), Const(0), Jump(2),
             Phi(<<4, 18>>, <<1, 6>>), Phi(<<3, 11>>, <<1, 6>>), Cmp("lt", 6, 1), Branch(8, 3, 7),
             Bin(k, 2, 20), Bin("add", 7, 10), Branch(21, 4, 5), Outside(<<11>>), Jump(5), Jump(6),
             Jump(6), Const(1), Bin("add", 6, 17), Jump(2), Const(c), q, Return(7)>>,
           << <<3, 4, 5>>, <<6, 7, 8, 9>>, <<20, 10, 11, 21, 12>>, <<13, 14>>, <<15>>,
              <<17, 18, 19>>, <<22>> >>)

LoopPrograms ==
  {Alone(CountLoop(k, c, q)) : k \in {"add", "mul", "div"}, c \in 0 .. 2,
     q \in {Cmp("lt", 20, 2), Cmp("eq", 20, 20), Cmp("lt", 6, 20)}}
  \cup {Alone([CountLoop("div", 1, Cmp("eq", 1, 2)) EXCEPT !.ins[10] = Bin("div", 1, 2)])}

\* x := a; if a < b { x = b; goto l }; x = x + 1;
\* l: x = x + (a k b); if x < 6 { goto l }; return x
Goto(k) ==
  Function(<<Param, Param, Cmp("lt", 1, 2), Branch(3, 2, 3), Jump(4), Const(1), Bin("add", 1, 6),
             Jump(4), Phi(<<2, 7, 11>>, <<2, 3, 5>>), Bin(k, 1, 2), Bin("add", 9, 10), Const(6),
             Cmp("lt", 11, 12), Branch(13, 5, 6), Jump(4), Return(11)>>,
           << <<3, 4>>, <<5>>, <<6, 7, 8>>, <<9, 10, 11, 12, 13, 14>>, <<15>>, <<16>> >>)

GotoPrograms == {Alone(Goto(k)) : k \in {"add", "mul", "div"}}
-----------------------------------------------------------------------------
\* var x word = 1; p := &x; then accesses to x and *p; return the sum of what
\* was read.  "guard" is if a < b { return 7 }.
Accesses == {"x=a", "*p=b", "+x", "+*p", "f(&x)", "f(p)", "guard"}

\* The function so far: instructions, code of the finished blocks, code of the
\* current one, the sum.
More(g, access) ==
  LET n == Len(g.ins)
      With(new, sum) == [g EXCEPT !.ins = @ \o new, !.sum = sum,
                                  !.now = @ \o [i \in DOMAIN new |-> n + i]]
  IN CASE access = "x=a" -> With(<<Local(3), Store(n + 1, 1)>>, g.sum)
       [] access = "*p=b" -> With(<<Store(6, 2)>>, g.sum)
       [] access = "+x" -> With(<<Local(3), Load(n + 1), Bin("add", g.sum, n + 2)>>, n + 3)
       [] access = "+*p" -> With(<<Load(6), Bin("add", g.sum, n + 1)>>, n + 2)
       [] access = "f(&x)" -> With(<<Local(3), Outside(<<n + 1>>)>>, g.sum)
       [] access = "f(p)" -> With(<<Outside(<<6>>)>>, g.sum)
       [] access = "guard" ->
            LET b == Len(g.code) + 1
            IN [ins |-> g.ins \o <<Cmp("lt", 1, 2), Branch(n + 1, b + 1, b + 2), Const(7), Return(n + 3)>>,
                code |-> g.code \o <<g.now \o <<n + 1, n + 2>>, <<n + 3, n + 4>> >>,
                now |-> <<>>, sum |-> g.sum]

Pointer(accesses) ==
  LET g == FoldLeft(More,
        [ins |-> <<Param, Param, Const(1), Local(3), Store(4, 3), Local(3), Const(0)>>,
         code |-> <<>>, now |-> <<3, 4, 5, 6, 7>>, sum |-> 7], accesses)
      n == Len(g.ins)
  IN Function(g.ins \o <<Return(g.sum)>>, g.code \o <<g.now \o <<n + 1>> >>)

UpTo(S, n) == UNION {[1 .. k -> S] : k \in 0 .. n}

AllPointers == UpTo(Accesses, 3)

OneBlock(s, i, k) == \A h \in i .. k : s[h] # "guard"

\* What the store-load pass gets wrong.  A value read or stored through p, then
\* x changed by its name, then a read through p:
Stale(s) ==
  /\ \A i \in DOMAIN s : s[i] # "f(p)"
  /\ \E i, j, k \in DOMAIN s :
       /\ i < j /\ j < k /\ OneBlock(s, i, k)
       /\ s[i] \in {"+*p", "*p=b"} /\ s[j] \in {"x=a", "f(&x)"} /\ s[k] = "+*p"

\* the same the other way round, in a block in which p is not set:
StaleName(s) ==
  \E i, j, k \in DOMAIN s :
    /\ i < j /\ j < k /\ OneBlock(s, i, k) /\ ~OneBlock(s, 1, i)
    /\ s[i] \in {"+x", "x=a"} /\ s[j] \in {"*p=b", "f(p)"} /\ s[k] = "+x"

\* two reads through p in a block whose only predecessor ends with one:
Twice(s) ==
  /\ \A i \in DOMAIN s : s[i] # "f(p)"
  /\ \E h, i, k \in DOMAIN s :
       /\ h < i /\ i < k /\ s[h] = "+*p" /\ s[i] = "+*p" /\ s[k] = "+*p"
       /\ ~OneBlock(s, h, i) /\ OneBlock(s, i, k)

PointerPrograms ==
  {Alone(Pointer(s)) : s \in {t \in AllPointers : ~Stale(t) /\ ~StaleName(t) /\ ~Twice(t)}}

StalePrograms == {Alone(Pointer(s)) : s \in {t \in AllPointers : Stale(t)}}
-----------------------------------------------------------------------------
\* Callees: a straight line, two returns, an if without else, a loop.
Callees ==
  {Function(<<Param, Param, Const(1), Bin("add", 1, 3), Return(4)>>, << <<3, 4, 5>> >>),
   Function(<<Param, Param, Cmp("lt", 1, 2), Branch(3, 2, 3), Return(1), Return(2)>>,
            << <<3, 4>>, <<5>>, <<6>> >>),
   Function(<<Param, Param, Const(2), Cmp("lt", 1, 3), Branch(4, 2, 3), Const(4), Outside(<<6>>),
              Jump(3), Phi(<<2, 1>>, <<2, 1>>), Return(9)>>,
            << <<3, 4, 5>>, <<6, 7, 8>>, <<9, 10>> >>)}

\* x := g(a, b); y := g(c, x); return x + y
Calling(c) ==
  Function(<<Param, Param, Inside(<<1, 2>>), Const(c), Inside(<<4, 3>>), Bin("add", 3, 5), Return(6)>>,
           << <<3, 4, 5, 6, 7>> >>)

\* s := b; for i := 0; i < a; i = i + 1 { s = g(s, 2) }; return s
CallingInLoop ==
  Function(<<Param, Param, Const(0), Jump(2), Phi(<<3, 12>>, <<1, 4>>), Phi(<<2, 10>>, <<1, 4>>),
             Cmp("lt", 5, 1), Branch(7, 3, 5), Const(2), Inside(<<6, 9>>), Jump(4),
             Bin("add", 5, 14), Jump(2), Const(1), Return(6)>>,
           << <<3, 4>>, <<5, 6, 7, 8>>, <<9, 10, 11>>, <<14, 12, 13>>, <<15>> >>)

CallPrograms ==
  {[fn |-> f, callee |-> g] : f \in {Calling(0), Calling(3), CallingInLoop}, g \in Callees}

=============================================================================
