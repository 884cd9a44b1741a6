--------------------------- MODULE MCCodeEmission ---------------------------
\* Functions of three and four blocks for TLC.  Slots 1 and 2 hold words, 3 a byte,
\* 4 a pointer to 2, and 5 is a global.
EXTENDS CodeEmission

Term(op, to, src, k, n) == [op |-> op, to |-> to, src |-> src, k |-> k, n |-> n]

Return == Term("return", <<>>, 1, "", 0)
ReturnVoid == Term("returnvoid", <<>>, 0, "", 0)
Jump(t) == Term("jump", <<t>>, 0, "", 0)
Test(t, e) == Term("test", <<t, e>>, 3, "", 0)
Branch(k, n, t, e) == Term("branch", <<t, e>>, 1, k, n)

NoMoves == [e \in {} |-> <<>>]
Move(dst, src) == [dst |-> dst, src |-> src]

Function(body, term, moves, taken) ==
  [frame |-> 3, body |-> body, term |-> term, moves |-> moves, bytes |-> {3}, taken |-> taken]

Compare(k, n) == Operation("compare", 3, 1, k, n)
Count == Operation("add", 1, 1, "", 1)
Next2 == Operation("add", 2, 1, "", 2)
Call == Operation("call", 2, 1, "", 0)
Report == Operation("callvoid", 0, 2, "", 0)

\* All ways to connect three blocks, the second of which may be empty.
Entries == {Test(2, 3), Test(3, 2), Branch("gt", 0, 3, 2), Branch("lt", 2, 2, 3), Jump(3)}
Exits == {Return, ReturnVoid, Jump(2), Branch("lte", 2, 3, 2), Branch("lt", 3, 2, 3), Branch("gte", 0, 3, 2)}
Moves == {NoMoves,
          (<<1, 3>> :> <<Move(2, 1)>>),
          (<<1, 2>> :> <<Move(2, 1)>>) @@ (<<1, 3>> :> <<Move(2, 1), Move(1, 5)>>) @@ (<<3, 2>> :> <<Move(1, 2)>>)}
Connections ==
  {Function(<<<<Compare("neq", 1)>>, second, <<Report, Count, Call>>>>, <<e, f, g>>, moves, {}) :
     second \in {<<>>, <<Count, Report>>}, e \in Entries, f \in Exits, g \in Exits, moves \in Moves}

\* Local 2 and its pointer.
Local == <<Operation("const", 2, 0, "", 5)>>
Peek(dst) == Operation("loadptr", dst, 4, "", 0)
Poke == Operation("storeptr", 4, 1, "", 0)
Get == Operation("load", 1, 2, "", 0)
Put == Operation("store", 2, 1, "", 0)
Aim == Operation("load", 4, 4, "", 0)
Pointers ==
  {Function(<<Local \o a, <<b, Operation("callvoid", 0, 1, "", 0)>>, c>>,
            <<Branch(k, n, 3, 2), Jump(3), ReturnVoid>>, NoMoves, {2}) :
     k \in {"eq", "lt", "gt"}, n \in {0, 2},
     a \in {<<Poke, Get>>, <<Put, Peek(1)>>, <<Aim, Peek(1), Put>>},
     b \in {Count, Poke, Peek(1)},
     c \in {<<Operation("callvoid", 0, 1, "", 0)>>, <<Poke, Get, Call>>}}

\* Bytes with every condition.
Conditions ==
  {Function(<<<<Compare(k, n)>> \o a, <<Next2, Count>>, <<Report>>>>,
            <<Test(t, 5 - t), Jump(3), Return>>, NoMoves, {}) :
     k \in {"eq", "neq", "lt", "lte", "gt", "gte"}, n \in {0, 2}, t \in {2, 3},
     a \in {<<>>, <<Count, Operation("add", 2, 1, "", 0)>>, <<Call, Next2, Report>>}}

\* Bare jumps that branches are threaded through.
Threads ==
  {Function(<<<<>>, a, b, <<Count, Call>>>>, <<Branch("neq", 1, t, 5 - t), f, g, h>>, NoMoves, {}) :
     a \in {<<>>, <<Report>>}, b \in {<<>>, <<Call>>}, t \in {2, 3},
     f \in {Jump(2), Jump(3), Jump(4)}, g \in {Jump(2), Jump(3), Jump(4), Return},
     h \in {Return, Branch("lt", 3, 2, 3), Jump(2)}}

\* The blocks that a branch to block b comes to over bare jumps.
Follow(f, b) ==
  LET Bare(c) == f.body[c] = <<>> /\ f.term[c].op = "jump" /\ f.moves = NoMoves
  IN FoldLeft(LAMBDA s, n : s \cup {f.term[c].to[1] : c \in {d \in s : Bare(d)}}, {b}, <<1, 2, 3>>)

\* Both ways of a branch come to one label: two peephole rules then remove the
\* same jump, which ends in a panic.
Meets(f) ==
  \E b \in Blocks(f) :
    Len(f.term[b].to) = 2 /\ Follow(f, f.term[b].to[1]) \cap Follow(f, f.term[b].to[2]) # {}

MCFunctions == Connections \cup Pointers \cup Conditions \cup {f \in Threads : ~Meets(f)}
MCMemories == {<<n, m, 0, 2, 3>> : n \in {0, 1, 2}, m \in {5}}
=============================================================================
