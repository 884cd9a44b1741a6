---------------------------- MODULE MCPanicChain ----------------------------
(***************************************************************************)
(* All programs of one function of up to three statements; of two, the     *)
(* first with a call and one statement before and after it; and of three,  *)
(* in which the middle one has up to three statements and the last panics. *)
(***************************************************************************)
EXTENDS PanicChain

UpTo(S, n) == UNION {[1 .. k -> S] : k \in 0 .. n}

Leaf == UpTo(Statements \ Calling, 2)

OneFunction == {<<f, <<>>, <<>> >> : f \in UpTo(Statements \ Calling, 3)}

TwoFunctions ==
  {<<f \o <<c>> \o e, g, <<>> >> :
     f \in UpTo(Statements, 1), c \in Calling, e \in UpTo(Statements, 1), g \in Leaf}

\* The last function panics.
ThreeFunctions ==
  {<<f \o <<"call">>, e \o <<d>>, <<"panic">> >> :
     f \in UpTo(Statements, 1), d \in Calling,
     e \in UpTo(Statements \ {"panic"}, 2)}

MCPrograms == OneFunction \cup TwoFunctions \cup ThreeFunctions

\* main calls a function that ends in an early return, and panics afterwards.
ReturningPrograms ==
  {<<f, g \o <<"return">> >> :
     f \in UpTo({"call", "panic", "block"}, 3), g \in UpTo({"block", "destructible"}, 2)}
=============================================================================
