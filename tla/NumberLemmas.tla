---------------------------- MODULE NumberLemmas ----------------------------
(***************************************************************************)
(* Facts about sets of natural numbers that stand in for induction where   *)
(* the proofs of this project walk along a list.                           *)
(***************************************************************************)
EXTENDS Naturals, WellFoundedInduction, TLAPS

\* A set of natural numbers has a least one ...
LEMMA LeastNumber ==
  ASSUME NEW T, T \subseteq Nat, T # {}
  PROVE  \E x \in T : \A y \in T : x <= y
<1> DEFINE R == {ss \in Nat \X Nat : ss[1] < ss[2]}
<1>1. IsWellFoundedOn(R, Nat)
  BY NatLessThanWellFounded DEF OpToRel
<1>2. \A x, y \in Nat : x < y => <<x, y>> \in R
  OBVIOUS
<1> HIDE DEF R
<1>3. PICK x \in T : \A y \in T : ~ (<<y, x>> \in R)
  BY <1>1, WFMin
<1>4. \A y \in T : x <= y
  <2> SUFFICES ASSUME NEW y \in T PROVE x <= y
    OBVIOUS
  <2>1. x \in Nat /\ y \in Nat /\ ~ (y < x)
    BY <1>2, <1>3
  <2> QED
    BY <2>1
<1> QED
  BY <1>4

\* ... and a set of positions a last one.
LEMMA LastNumber ==
  ASSUME NEW n \in Nat, NEW S, S \subseteq 1 .. n, S # {}
  PROVE  \E x \in S : \A y \in S : y <= x
<1> DEFINE T == {j \in Nat : n - j \in S}
<1>1. T \subseteq Nat
  OBVIOUS
<1>2. \A y \in S : y \in Nat /\ y <= n /\ n - y \in T
  <2> SUFFICES ASSUME NEW y \in S
               PROVE  y \in Nat /\ y <= n /\ n - y \in T
    OBVIOUS
  <2>1. y \in Nat /\ y <= n
    OBVIOUS
  <2>2. n - y \in Nat /\ n - (n - y) = y
    BY <2>1
  <2> QED
    BY <2>1, <2>2
<1>3. T # {}
  BY <1>2
<1>4. PICK x \in T : \A y \in T : x <= y
  BY <1>1, <1>3, LeastNumber
<1>5. x \in Nat /\ n - x \in S
  OBVIOUS
<1> HIDE DEF T
<1>6. \A y \in S : y <= n - x
  <2> SUFFICES ASSUME NEW y \in S PROVE y <= n - x
    OBVIOUS
  <2>1. x <= n - y /\ y \in Nat
    BY <1>2, <1>4
  <2> QED
    BY <2>1, <1>5
<1> QED
  BY <1>5, <1>6

\* Positions that go on to the next one, and from the last to the first, are all
\* of them or none: going round a cycle passes every place.
LEMMA AllTheWayRound ==
  ASSUME NEW n \in Nat, NEW S, S \subseteq 1 .. n, S # {},
         \A q \in S : q # n => q + 1 \in S,
         n \in S => 1 \in S
  PROVE  S = 1 .. n
<1>1. PICK x \in S : \A y \in S : y <= x
  BY LastNumber
<1>2. x \in Nat /\ x <= n /\ n # 0
  OBVIOUS
<1>3. x = n
  <2> SUFFICES ASSUME x # n PROVE FALSE
    OBVIOUS
  <2>1. x + 1 \in S
    OBVIOUS
  <2> QED
    BY <1>1, <1>2, <2>1
<1>4. 1 \in S
  BY <1>3
<1> DEFINE T == {q \in 1 .. n : q \notin S}
<1>5. T = {}
  <2> SUFFICES ASSUME T # {} PROVE FALSE
    OBVIOUS
  <2>1. T \subseteq Nat
    OBVIOUS
  <2>2. PICK q \in T : \A y \in T : q <= y
    <3> HIDE DEF T
    <3> QED
      BY <2>1, LeastNumber
  <2>3. q \in 1 .. n /\ q \notin S /\ q # 1
    BY <1>4
  <2>4. q - 1 \in 1 .. n /\ ~ (q <= q - 1) /\ q - 1 # n /\ (q - 1) + 1 = q
    BY <2>3
  <2>5. q - 1 \in S
    BY <2>2, <2>4
  <2> QED
    BY <2>3, <2>4, <2>5
<1> QED
  BY <1>5

\* What holds at first and goes on from each position to the next holds at all.
LEMMA Onwards ==
  ASSUME NEW n \in Nat, NEW S, 0 \in S, \A i \in 1 .. n : i - 1 \in S => i \in S
  PROVE  \A i \in 0 .. n : i \in S
<1> DEFINE T == {i \in 0 .. n : i \notin S}
<1>1. SUFFICES ASSUME T # {} PROVE FALSE
  OBVIOUS
<1>2. PICK m \in T : \A k \in T : m <= k
  <2>1. T \subseteq Nat
    OBVIOUS
  <2> HIDE DEF T
  <2> QED
    BY <1>1, <2>1, LeastNumber
<1>3. m \in 1 .. n /\ m - 1 \in 0 .. n /\ ~ (m <= m - 1) /\ m \notin S
  OBVIOUS
<1>4. m - 1 \in S
  BY <1>2, <1>3
<1> QED
  BY <1>3, <1>4

-----------------------------------------------------------------------------
(* Folds over lists.  FoldLeft is a function on sets of positions, which   *)
(* takes the last of them away.  The provers cannot instantiate operators, *)
(* so what follows is about a step that is a function.                     *)

LastOf(S) == CHOOSE x \in S : \A y \in S : x >= y

LEMMA LastOfFacts ==
  ASSUME NEW n \in Nat, NEW S \in SUBSET (1 .. n), S # {}
  PROVE  LastOf(S) \in S /\ \A y \in S : y <= LastOf(S)
<1>1. PICK x \in S : \A y \in S : y <= x
  BY LastNumber
<1>2. \A y \in S : x >= y
  <2> SUFFICES ASSUME NEW y \in S PROVE x >= y
    OBVIOUS
  <2>1. x \in Nat /\ y \in Nat /\ y <= x
    BY <1>1
  <2> QED
    BY <2>1
<1>3. LastOf(S) \in S /\ \A y \in S : LastOf(S) >= y
  BY <1>2 DEF LastOf
<1> QED
  BY <1>3

LEMMA LastOfPrefix ==
  ASSUME NEW n \in Nat, NEW i \in 1 .. n
  PROVE  /\ 1 .. i \in SUBSET (1 .. n) /\ 1 .. i # {}
         /\ LastOf(1 .. i) = i /\ (1 .. i) \ {i} = 1 .. i - 1
<1>1. 1 .. i \in SUBSET (1 .. n) /\ i \in 1 .. i /\ (1 .. i) \ {i} = 1 .. i - 1
  OBVIOUS
<1>2. LastOf(1 .. i) \in 1 .. i /\ i <= LastOf(1 .. i)
  BY <1>1, LastOfFacts
<1> QED
  BY <1>1, <1>2

IsFold(iter, n, base, step) ==
  \A S \in SUBSET (1 .. n) :
    iter[S] = IF S = {} THEN base ELSE step[LastOf(S)][iter[S \ {LastOf(S)}]]

\* For a step that stays within X the function that defines a fold exists.
LEMMA FoldExists ==
  ASSUME NEW n \in Nat, NEW X, NEW base \in X, NEW step \in [1 .. n -> [X -> X]]
  PROVE  \E iter \in [SUBSET (1 .. n) -> X] : IsFold(iter, n, base, step)
<1> USE DEF IsFold
<1> DEFINE Has(m) == \E iter \in [SUBSET (1 .. m) -> X] : \A S \in SUBSET (1 .. m) :
                       iter[S] = IF S = {} THEN base ELSE step[LastOf(S)][iter[S \ {LastOf(S)}]]
           T == {m \in Nat : m <= n => Has(m)}
<1>1. 0 \in T
  <2> DEFINE none == [S \in SUBSET (1 .. 0) |-> base]
  <2>1. none \in [SUBSET (1 .. 0) -> X]
    OBVIOUS
  <2>2. \A S \in SUBSET (1 .. 0) : S = {} /\ none[S] = base
    OBVIOUS
  <2> HIDE DEF none
  <2> QED
    BY <2>1, <2>2
<1>2. ASSUME NEW m \in 1 .. n, m - 1 \in T PROVE m \in T
  <2>1. m - 1 \in Nat /\ m - 1 <= n /\ m \in Nat
    OBVIOUS
  <2>2. PICK f \in [SUBSET (1 .. m - 1) -> X] : \A S \in SUBSET (1 .. m - 1) :
          f[S] = IF S = {} THEN base ELSE step[LastOf(S)][f[S \ {LastOf(S)}]]
    BY <1>2, <2>1
  <2> DEFINE g == [S \in SUBSET (1 .. m) |-> IF m \in S THEN step[m][f[S \ {m}]] ELSE f[S]]
  <2>3. ASSUME NEW S \in SUBSET (1 .. m), m \in S
        PROVE  /\ S \ {m} \in SUBSET (1 .. m - 1) /\ S \ {m} \in SUBSET (1 .. m)
               /\ LastOf(S) = m /\ S # {}
    <3>1. \A y \in S : y \in Nat /\ y <= m
      BY <2>1
    <3>2. LastOf(S) \in S /\ m <= LastOf(S)
      BY <2>1, <2>3, LastOfFacts
    <3>3. LastOf(S) \in Nat /\ LastOf(S) <= m
      BY <3>1, <3>2
    <3>4. LastOf(S) = m
      BY <2>1, <3>2, <3>3
    <3>5. S \ {m} \in SUBSET (1 .. m - 1)
      BY <2>1
    <3> QED
      BY <2>1, <2>3, <3>4, <3>5
  <2>4. ASSUME NEW S \in SUBSET (1 .. m), m \notin S
        PROVE  S \in SUBSET (1 .. m - 1)
    BY <2>1, <2>4
  <2>5. g \in [SUBSET (1 .. m) -> X]
    <3> SUFFICES ASSUME NEW S \in SUBSET (1 .. m)
                 PROVE  (IF m \in S THEN step[m][f[S \ {m}]] ELSE f[S]) \in X
      OBVIOUS
    <3>1. CASE m \in S
      <4>1. f[S \ {m}] \in X
        BY <2>3, <3>1
      <4> QED
        BY <3>1, <4>1
    <3>2. CASE m \notin S
      BY <2>4, <3>2
    <3> QED
      BY <3>1, <3>2
  <2>6. ASSUME NEW S \in SUBSET (1 .. m)
        PROVE  g[S] = IF S = {} THEN base ELSE step[LastOf(S)][g[S \ {LastOf(S)}]]
    <3>1. CASE m \in S
      <4>1. g[S] = step[m][f[S \ {m}]]
        BY <3>1
      <4>2. g[S \ {m}] = f[S \ {m}]
        BY <2>3, <3>1
      <4> HIDE DEF g
      <4> QED
        BY <2>3, <3>1, <4>1, <4>2
    <3>2. CASE m \notin S
      <4>1. S \in SUBSET (1 .. m - 1)
        BY <2>4, <3>2
      <4>2. g[S] = f[S] /\ g[S \ {LastOf(S)}] = f[S \ {LastOf(S)}]
        BY <3>2
      <4>3. f[S] = IF S = {} THEN base ELSE step[LastOf(S)][f[S \ {LastOf(S)}]]
        BY <2>2, <4>1
      <4> HIDE DEF g
      <4> QED
        BY <4>2, <4>3
    <3> QED
      BY <3>1, <3>2
  <2> HIDE DEF g
  <2>7. Has(m)
    BY <2>5, <2>6
  <2> QED
    BY <2>1, <2>7
<1> HIDE DEF T
<1>3. \A i \in 0 .. n : i \in T
  BY <1>1, <1>2, Onwards
<1>4. n \in T /\ n <= n
  BY <1>3
<1>5. T = {m \in Nat : m <= n => Has(m)}
  BY DEF T
<1> HIDE DEF Has
<1>6. Has(n)
  BY <1>4, <1>5
<1> QED
  BY <1>6 DEF Has
=============================================================================
