------------------------- MODULE PanicChain_proofs -------------------------
(***************************************************************************)
(* The chain of jump buffers in every program, whatever its functions and  *)
(* statements: it leads to frames that still exist unless the program      *)
(* recovers, and keeps what the callers linked unless a function returns   *)
(* past a block that it deferred.                                          *)
(*                                                                         *)
(* The invariant is stated of a program P, activations s, a chain c,       *)
(* whether there is a panic p and the number n of activations so far, so   *)
(* that it can be stated of the values in the middle of a step too: of the *)
(* stack and the chain with which a deferred action begins, say.  It has   *)
(* three layers, and only the first holds of every program.                *)
(***************************************************************************)
EXTENDS PanicChain, NumberLemmas, FiniteSetTheorems, SequenceTheorems, TLAPS

Code == Seq(Statements)

Buffers(n) == [act : 0 .. n, of : Nat]

Phases == {"entry", "body", "exit", "caught", "unwind", "propagate"}

Frame(n) ==
  [fn : 1 .. N, act : 1 .. n, pc : Nat \ {0}, at : Nat, phase : Phases,
   entry : Seq(Buffers(n)), ran : Seq(Nat)]

BlocksBefore(code, i) == {j \in 1 .. Len(code) : j < i /\ code[j] \in Blocks}

\* How many buffers the blocks before the i-th statement have.
Count(code, i) == Cardinality(BlocksBefore(code, i))

Own(code) == IF HasHandler(code) THEN 1 ELSE 0

-----------------------------------------------------------------------------
\* Every program.  The action a frame is at belongs to its phase ...
At(code, f, K) == f.at \in DOMAIN code /\ code[f.at] \in K

InPhase(code, f) ==
  /\ f.pc <= Len(code) + 1
  /\ f.phase = "entry" => f.pc = 1
  /\ f.phase = "exit" => f.at = 0 \/ At(code, f, Deferred)
  /\ f.phase = "caught" => f.at = 0 \/ At(code, f, Blocks)
  /\ f.phase = "propagate" => At(code, f, Blocks)
  /\ f.phase = "unwind" => f.at = 0 \/ At(code, f, {"destructible"})

\* ... a frame links the buffer of its function, and one for each block it
\* defers, and the activations are numbered as they start.
HasLinked(code, f, i) ==
  /\ HasHandler(code) /\ f.phase # "entry"
  /\ i = 0 \/ (i \in DOMAIN code /\ i < f.pc /\ code[i] \in Blocks)

Basic(P, s, c, n) ==
  /\ P \in [1 .. N -> Code]
  /\ s \in Seq(Frame(n)) /\ s # <<>> /\ c \in Seq(Buffers(n)) /\ n \in Nat
  /\ \A j, k \in DOMAIN s : j < k => s[j].act < s[k].act
  /\ \A k \in DOMAIN s :
       /\ InPhase(P[s[k].fn], s[k])
       /\ \A q \in DOMAIN c : c[q].act = s[k].act => HasLinked(P[s[k].fn], s[k], c[q].of)

-----------------------------------------------------------------------------
\* While nobody recovers: every buffer on the chain is in a frame that exists,
\* and what a frame has taken off is off.
MayHave(code, f, i) ==
  /\ f.phase \notin {"entry", "unwind"}
  /\ f.phase = "exit" => i < LastBefore(code, f.at + 1, Blocks)
  /\ f.phase = "caught" => i <= f.at
  /\ f.phase = "propagate" => i < f.at

Unwinds(f) == f.phase \in {"caught", "propagate", "unwind"}

\* Newer frames are nearer to the head, and in a frame later statements.
Sorted(c) ==
  \A q, r \in DOMAIN c : q < r =>
    /\ c[r].act <= c[q].act
    /\ c[q].act = c[r].act /\ c[q].act # 0 => c[r].of < c[q].of

Unrecovered(P, s, c, p) ==
  /\ \A q \in DOMAIN c : Live(c[q], s)
  /\ Sorted(c)
  /\ \A k \in DOMAIN s :
       /\ Unwinds(s[k]) => p
       /\ \A q \in DOMAIN c : c[q].act = s[k].act => MayHave(P[s[k].fn], s[k], c[q].of)

-----------------------------------------------------------------------------
\* While no function returns past a block: below what a frame and its callees
\* linked lies the chain the frame found, and there is enough above it for what
\* the frame is yet to take off.
Owes(code, f) ==
  IF f.phase = "body" THEN Own(code) + Count(code, f.pc)
  ELSE IF f.phase = "exit" THEN Count(code, f.at + 1)
  ELSE IF f.phase = "caught" THEN Count(code, f.at + 1) + 1
  ELSE IF f.phase = "propagate" THEN Count(code, f.at) + 1
  ELSE 0

\* A buffer lies on those that its frame linked before, and on what it found.
HighEnough(P, s, c) ==
  \A k \in DOMAIN s, q \in DOMAIN c :
    c[q].act = s[k].act =>
      Len(c) + 1 - q >= Len(s[k].entry) + Count(P[s[k].fn], c[q].of + 1) + 1

Keeps(f, c) ==
  /\ 0 < Len(f.entry) /\ Len(f.entry) <= Len(c)
  /\ \A i \in 1 .. Len(f.entry) : f.entry[i] = c[Len(c) - Len(f.entry) + i]
  /\ \A q \in 1 .. Len(c) - Len(f.entry) : c[q].act >= f.act

\* The chain that activation k left when it called, and has if it runs.
ChainOf(s, c, k) == IF k = Len(s) THEN c ELSE s[k + 1].entry

Kept(P, s, c) ==
  /\ HighEnough(P, s, c)
  /\ \A j, k \in DOMAIN s : j < k => Len(s[j].entry) <= Len(s[k].entry)
  /\ \A k \in DOMAIN s :
       /\ Keeps(s[k], c)
       /\ Len(ChainOf(s, c, k)) >= Len(s[k].entry) + Owes(P[s[k].fn], s[k])

-----------------------------------------------------------------------------
Good(s, c, p, n) ==
  /\ p \in BOOLEAN
  /\ Basic(program, s, c, n)
  /\ ~Recovers => Unrecovered(program, s, c, p)
  /\ ~ReturnsPastBlocks => Kept(program, s, c)

IInv ==
  /\ TypeOK
  /\ program \in Programs
  /\ status = "running" => Good(stack, chain, panicking, calls)
  /\ NoStrayJump

-----------------------------------------------------------------------------
\* LastBefore is 0 or a statement of the kind, and none of the kind is later.
LEMMA LastBeforeFacts ==
  ASSUME NEW code \in Code, NEW i \in Nat, NEW K
  PROVE  LET l == LastBefore(code, i, K) IN
           /\ l \in Nat
           /\ l = 0 \/ (l \in DOMAIN code /\ l < i /\ code[l] \in K)
           /\ \A j \in DOMAIN code : j < i /\ code[j] \in K => j <= l
<1> DEFINE S == {j \in 1 .. Len(code) : j < i /\ code[j] \in K}
           l == LastBefore(code, i, K)
<1>1. Len(code) \in Nat /\ DOMAIN code = 1 .. Len(code)
  BY DEF Code
<1>2. l = IF S = {} THEN 0 ELSE CHOOSE j \in S : \A k \in S : k <= j
  BY DEF LastBefore
<1>3. CASE S = {}
  BY <1>1, <1>2, <1>3
<1>4. CASE S # {}
  <2>1. \E j \in S : \A k \in S : k <= j
    BY <1>1, <1>4, LastNumber
  <2>2. l \in S /\ \A k \in S : k <= l
    BY <1>2, <1>4, <2>1
  <2> QED
    BY <1>1, <2>2
<1> QED
  BY <1>3, <1>4

\* No block lies between a statement and the action deferred last before it.
LEMMA LastBlockOfDeferred ==
  ASSUME NEW code \in Code, NEW i \in Nat
  PROVE  LET d == LastBefore(code, i, Deferred)
         IN  LastBefore(code, d + 1, Blocks) = LastBefore(code, i, Blocks)
<1> DEFINE d == LastBefore(code, i, Deferred)
           b == LastBefore(code, i, Blocks)
           e == LastBefore(code, d + 1, Blocks)
<1>1. /\ d \in Nat
      /\ d = 0 \/ (d \in DOMAIN code /\ d < i /\ code[d] \in Deferred)
      /\ \A j \in DOMAIN code : j < i /\ code[j] \in Deferred => j <= d
  BY LastBeforeFacts
<1>2. /\ b \in Nat
      /\ b = 0 \/ (b \in DOMAIN code /\ b < i /\ code[b] \in Blocks)
      /\ \A j \in DOMAIN code : j < i /\ code[j] \in Blocks => j <= b
  BY LastBeforeFacts
<1>3. /\ e \in Nat
      /\ e = 0 \/ (e \in DOMAIN code /\ e < d + 1 /\ code[e] \in Blocks)
      /\ \A j \in DOMAIN code : j < d + 1 /\ code[j] \in Blocks => j <= e
  BY <1>1, LastBeforeFacts
<1>4. DOMAIN code \subseteq Nat \ {0}
  BY DEF Code
<1> HIDE DEF d, b, e
<1>5. b <= e
  <2>1. CASE b = 0
    BY <1>3, <2>1
  <2>2. CASE b # 0
    <3>1. b \in DOMAIN code /\ b < i /\ code[b] \in Deferred
      BY <1>2, <2>2 DEF Deferred
    <3>2. b < d + 1
      BY <1>1, <1>2, <3>1
    <3> QED
      BY <1>2, <1>3, <2>2, <3>2
  <2> QED
    BY <2>1, <2>2
<1>6. e <= b
  BY <1>1, <1>2, <1>3, <1>4
<1> QED
  BY <1>2, <1>3, <1>5, <1>6 DEF b, e, d

\* The statement before i is the last of its kind if it is of the kind, and
\* does not matter otherwise.
LEMMA LastBeforeNext ==
  ASSUME NEW code \in Code, NEW i \in DOMAIN code
  PROVE  LastBefore(code, i + 1, Blocks)
           = IF code[i] \in Blocks THEN i ELSE LastBefore(code, i, Blocks)
<1>1. i \in Nat /\ i + 1 \in Nat /\ DOMAIN code \subseteq Nat
  BY DEF Code
<1> DEFINE b == LastBefore(code, i, Blocks)
           e == LastBefore(code, i + 1, Blocks)
<1>2. /\ b \in Nat
      /\ b = 0 \/ (b \in DOMAIN code /\ b < i /\ code[b] \in Blocks)
      /\ \A j \in DOMAIN code : j < i /\ code[j] \in Blocks => j <= b
  BY <1>1, LastBeforeFacts
<1>3. /\ e \in Nat
      /\ e = 0 \/ (e \in DOMAIN code /\ e < i + 1 /\ code[e] \in Blocks)
      /\ \A j \in DOMAIN code : j < i + 1 /\ code[j] \in Blocks => j <= e
  BY <1>1, LastBeforeFacts
<1> HIDE DEF b, e
<1>4. CASE code[i] \in Blocks
  <2>1. i <= e /\ e <= i
    BY <1>1, <1>3, <1>4
  <2> QED
    BY <1>1, <1>3, <1>4, <2>1 DEF e
<1>5. CASE code[i] \notin Blocks
  <2>1. e # i
    BY <1>1, <1>3, <1>5, 0 \notin DOMAIN code DEF Code
  <2>2. e <= b
    BY <1>1, <1>2, <1>3, <2>1
  <2>3. b <= e
    BY <1>1, <1>2, <1>3
  <2> QED
    BY <1>2, <1>3, <1>5, <2>2, <2>3 DEF b, e
<1> QED
  BY <1>4, <1>5

-----------------------------------------------------------------------------
\* Blocks can be counted.
LEMMA CountType ==
  ASSUME NEW code \in Code, NEW i
  PROVE  IsFiniteSet(BlocksBefore(code, i)) /\ Count(code, i) \in Nat
<1>1. BlocksBefore(code, i) \subseteq 1 .. Len(code) /\ Len(code) \in Nat
  BY DEF BlocksBefore, Code
<1>2. IsFiniteSet(1 .. Len(code))
  BY <1>1, FS_Interval
<1>3. IsFiniteSet(BlocksBefore(code, i))
  BY <1>1, <1>2, FS_Subset
<1> QED
  BY <1>3, FS_CardinalityType DEF Count

\* No block comes before the first statement, or before any of a code without.
LEMMA CountNone ==
  ASSUME NEW code \in Code, NEW i \in Nat,
         i \in {0, 1} \/ \A j \in DOMAIN code : code[j] \notin Blocks
  PROVE  Count(code, i) = 0
<1>1. BlocksBefore(code, i) = {}
  BY DEF BlocksBefore, Code
<1> QED
  BY <1>1, FS_EmptySet DEF Count

\* A block adds itself to those before the statement that follows it.
LEMMA CountNext ==
  ASSUME NEW code \in Code, NEW i \in DOMAIN code
  PROVE  Count(code, i + 1)
           = IF code[i] \in Blocks THEN Count(code, i) + 1 ELSE Count(code, i)
<1>1. DOMAIN code = 1 .. Len(code) /\ Len(code) \in Nat /\ i \in Nat
  BY DEF Code
<1>2. CASE code[i] \in Blocks
  <2>1. BlocksBefore(code, i + 1) = BlocksBefore(code, i) \cup {i}
    BY <1>1, <1>2 DEF BlocksBefore
  <2>2. i \notin BlocksBefore(code, i)
    BY <1>1 DEF BlocksBefore
  <2> QED
    BY <1>2, <2>1, <2>2, CountType, FS_AddElement DEF Count
<1>3. CASE code[i] \notin Blocks
  <2>1. BlocksBefore(code, i + 1) = BlocksBefore(code, i)
    BY <1>1, <1>3 DEF BlocksBefore
  <2> QED
    BY <1>3, <2>1 DEF Count
<1> QED
  BY <1>2, <1>3

\* As many blocks come before a statement as up to the action deferred last
\* before it.
LEMMA CountToDeferred ==
  ASSUME NEW code \in Code, NEW i \in Nat
  PROVE  Count(code, LastBefore(code, i, Deferred) + 1) = Count(code, i)
<1> DEFINE d == LastBefore(code, i, Deferred)
<1>1. /\ d \in Nat
      /\ d = 0 \/ (d \in DOMAIN code /\ d < i /\ code[d] \in Deferred)
      /\ \A j \in DOMAIN code : j < i /\ code[j] \in Deferred => j <= d
  BY LastBeforeFacts
<1>2. DOMAIN code = 1 .. Len(code) /\ Len(code) \in Nat
  BY DEF Code
<1> HIDE DEF d
<1>3. ASSUME NEW j \in 1 .. Len(code), code[j] \in Blocks
      PROVE  j < d + 1 <=> j < i
  BY <1>1, <1>2, <1>3 DEF Deferred
<1>4. BlocksBefore(code, d + 1) = BlocksBefore(code, i)
  BY <1>3 DEF BlocksBefore
<1> QED
  BY <1>4 DEF Count, d

-----------------------------------------------------------------------------
\* Unlinking m times leaves the rest of the chain, each buffer m places nearer.
LEMMA UnlinkedFacts ==
  ASSUME NEW T, NEW c \in Seq(T), NEW m \in Nat
  PROVE  /\ Unlinked(c, m) \in Seq(T)
         /\ m <= Len(c) => Len(Unlinked(c, m)) = Len(c) - m
         /\ m > Len(c) => Len(Unlinked(c, m)) = 0
         /\ \A q \in DOMAIN Unlinked(c, m) :
              q + m \in DOMAIN c /\ Unlinked(c, m)[q] = c[q + m]
<1>1. CASE m >= Len(c)
  BY <1>1 DEF Unlinked
<1>2. CASE ~ (m >= Len(c))
  <2>1. Unlinked(c, m) = SubSeq(c, m + 1, Len(c))
    BY <1>2 DEF Unlinked
  <2>2. m + 1 \in 1 .. Len(c) /\ Len(c) \in 1 .. Len(c)
    BY <1>2
  <2>3. SubSeq(c, m + 1, Len(c)) \in Seq(T)
    BY <2>2
  <2>4. Len(SubSeq(c, m + 1, Len(c))) = Len(c) - m
    BY <1>2, <2>2
  <2>5. \A q \in 1 .. Len(c) - m : SubSeq(c, m + 1, Len(c))[q] = c[q + m]
    BY <1>2, <2>2
  <2> QED
    BY <1>2, <2>1, <2>3, <2>4, <2>5
<1> QED
  BY <1>1, <1>2

\* Pushing a buffer moves the others one place away from the head.
LEMMA PushedFacts ==
  ASSUME NEW T, NEW c \in Seq(T), NEW b \in T
  PROVE  /\ <<b>> \o c \in Seq(T)
         /\ Len(<<b>> \o c) = Len(c) + 1
         /\ (<<b>> \o c)[1] = b
         /\ \A q \in DOMAIN c : (<<b>> \o c)[q + 1] = c[q]
         /\ \A q \in DOMAIN (<<b>> \o c) :
              q # 1 => q - 1 \in DOMAIN c /\ (<<b>> \o c)[q] = c[q - 1]
  OBVIOUS

-----------------------------------------------------------------------------
\* What the first layer says of the types of frames and buffers.
LEMMA BasicTypes ==
  ASSUME NEW P, NEW s, NEW c, NEW n, Basic(P, s, c, n)
  PROVE  /\ n \in Nat
         /\ Len(s) \in Nat \ {0} /\ DOMAIN s = 1 .. Len(s) /\ Len(s) \in DOMAIN s
         /\ Len(c) \in Nat /\ DOMAIN c = 1 .. Len(c)
         /\ \A k \in DOMAIN s :
              /\ s[k] \in Frame(n) /\ s[k].fn \in 1 .. N /\ P[s[k].fn] \in Code
              /\ s[k].act \in Nat \ {0} /\ s[k].act <= n
              /\ s[k].pc \in Nat \ {0} /\ s[k].at \in Nat
              /\ s[k].entry \in Seq(Buffers(n)) /\ Len(s[k].entry) \in Nat
         /\ \A q \in DOMAIN c :
              /\ c[q] \in Buffers(n)
              /\ c[q].act \in Nat /\ c[q].act <= n /\ c[q].of \in Nat
<1>1. n \in Nat /\ s \in Seq(Frame(n)) /\ s # <<>> /\ c \in Seq(Buffers(n))
  BY DEF Basic
<1>2. ASSUME NEW k \in DOMAIN s
      PROVE  /\ s[k] \in Frame(n) /\ s[k].fn \in 1 .. N /\ P[s[k].fn] \in Code
             /\ s[k].act \in Nat \ {0} /\ s[k].act <= n
             /\ s[k].pc \in Nat \ {0} /\ s[k].at \in Nat
             /\ s[k].entry \in Seq(Buffers(n)) /\ Len(s[k].entry) \in Nat
  <2>1. s[k] \in Frame(n)
    BY <1>1
  <2>2. /\ s[k].fn \in 1 .. N /\ s[k].act \in 1 .. n
        /\ s[k].pc \in Nat \ {0} /\ s[k].at \in Nat
        /\ s[k].entry \in Seq(Buffers(n))
    BY <2>1 DEF Frame
  <2>3. P[s[k].fn] \in Code
    BY <2>2 DEF Basic
  <2> QED
    BY <1>1, <2>1, <2>2, <2>3
<1>3. ASSUME NEW q \in DOMAIN c
      PROVE  /\ c[q] \in Buffers(n)
             /\ c[q].act \in Nat /\ c[q].act <= n /\ c[q].of \in Nat
  <2>1. c[q] \in Buffers(n)
    BY <1>1
  <2>2. c[q].act \in 0 .. n /\ c[q].of \in Nat
    BY <2>1 DEF Buffers
  <2> QED
    BY <1>1, <2>1, <2>2
<1> QED
  BY <1>1, <1>2, <1>3

-----------------------------------------------------------------------------
\* The top activation goes on as g: it has moved on, and is otherwise the same.
GoesOn(f, g) ==
  /\ g.fn = f.fn /\ g.act = f.act /\ g.entry = f.entry
  /\ g.pc >= f.pc /\ g.phase # "entry"

With(s, g) == [s EXCEPT ![Len(s)] = g]

\* Replacing the last element replaces nothing else.
LEMMA WithFacts ==
  ASSUME NEW T, NEW s \in Seq(T), s # <<>>, NEW g \in T
  PROVE  /\ With(s, g) \in Seq(T) /\ With(s, g) # <<>>
         /\ Len(With(s, g)) = Len(s) /\ DOMAIN With(s, g) = DOMAIN s
         /\ Len(s) \in DOMAIN s
         /\ With(s, g)[Len(s)] = g
         /\ \A k \in DOMAIN s : k # Len(s) => With(s, g)[k] = s[k]
  BY DEF With

\* Who goes on has linked what it had linked before.
LEMMA LinkedGoesOn ==
  ASSUME NEW n, NEW f \in Frame(n), NEW g \in Frame(n), GoesOn(f, g),
         NEW code \in Code, NEW i, HasLinked(code, f, i)
  PROVE  HasLinked(code, g, i)
<1>1. f.pc \in Nat /\ g.pc \in Nat /\ g.pc >= f.pc /\ g.phase # "entry"
  BY DEF GoesOn, Frame
<1>2. DOMAIN code \subseteq Nat
  BY DEF Code
<1> QED
  BY <1>1, <1>2 DEF HasLinked

\* The top activation goes on, some buffers off the chain: the first layer.
LEMMA PopBasic ==
  ASSUME NEW P, NEW s, NEW c, NEW n, Basic(P, s, c, n),
         NEW g \in Frame(n), GoesOn(s[Len(s)], g), InPhase(P[g.fn], g),
         NEW m \in Nat
  PROVE  Basic(P, With(s, g), Unlinked(c, m), n)
<1> DEFINE t == With(s, g)
           d == Unlinked(c, m)
           L == Len(s)
<1>1. /\ t \in Seq(Frame(n)) /\ t # <<>> /\ DOMAIN t = DOMAIN s
      /\ L \in DOMAIN s /\ t[L] = g /\ \A k \in DOMAIN s : k # L => t[k] = s[k]
  BY WithFacts DEF Basic
<1>2. d \in Seq(Buffers(n)) /\ \A q \in DOMAIN d : q + m \in DOMAIN c /\ d[q] = c[q + m]
  BY UnlinkedFacts DEF Basic
<1>3. \A k \in DOMAIN s : t[k].act = s[k].act /\ t[k].fn = s[k].fn
  BY <1>1 DEF GoesOn
<1>4. s[L] \in Frame(n) /\ P[g.fn] \in Code
  <2>1. s[L] \in Frame(n)
    BY <1>1 DEF Basic
  <2>2. g.fn \in 1 .. N
    BY DEF Frame
  <2> QED
    BY <2>1, <2>2 DEF Basic
<1> HIDE DEF t, d, L
<1>5. ASSUME NEW k \in DOMAIN t
      PROVE  /\ InPhase(P[t[k].fn], t[k])
             /\ \A q \in DOMAIN d : d[q].act = t[k].act => HasLinked(P[t[k].fn], t[k], d[q].of)
  <2>1. CASE k # L
    BY <1>1, <1>2, <2>1 DEF Basic
  <2>2. CASE k = L
    <3>1. InPhase(P[t[k].fn], t[k])
      BY <1>1, <2>2
    <3>2. ASSUME NEW q \in DOMAIN d, d[q].act = t[k].act
          PROVE  HasLinked(P[t[k].fn], t[k], d[q].of)
      <4>1. HasLinked(P[s[L].fn], s[L], d[q].of)
        BY <1>1, <1>2, <1>3, <2>2, <3>2 DEF Basic
      <4> QED
        BY <1>1, <1>3, <1>4, <2>2, <4>1, LinkedGoesOn DEF L
    <3> QED
      BY <3>1, <3>2
  <2> QED
    BY <2>1, <2>2
<1>6. \A j, k \in DOMAIN t : j < k => t[j].act < t[k].act
  BY <1>1, <1>3 DEF Basic
<1> QED
  BY <1>1, <1>2, <1>5, <1>6 DEF Basic, t, d

\* The second layer: p says whether there is a panic now, r whether before.
LEMMA PopUnrecovered ==
  ASSUME NEW P, NEW s, NEW c, NEW n, Basic(P, s, c, n),
         NEW r, Unrecovered(P, s, c, r),
         NEW g \in Frame(n), GoesOn(s[Len(s)], g),
         NEW m \in Nat,
         NEW p, r => p, Unwinds(g) => p,
         \A q \in DOMAIN c :
           q > m /\ c[q].act = g.act => MayHave(P[g.fn], g, c[q].of)
  PROVE  Unrecovered(P, With(s, g), Unlinked(c, m), p)
<1> DEFINE t == With(s, g)
           d == Unlinked(c, m)
           L == Len(s)
<1>1. /\ t \in Seq(Frame(n)) /\ DOMAIN t = DOMAIN s
      /\ L \in DOMAIN s /\ t[L] = g /\ \A k \in DOMAIN s : k # L => t[k] = s[k]
  BY WithFacts DEF Basic
<1>2. /\ d \in Seq(Buffers(n))
      /\ \A q \in DOMAIN d : /\ q \in Nat /\ q > 0
                             /\ q + m \in DOMAIN c /\ d[q] = c[q + m]
  <2>1. /\ d \in Seq(Buffers(n))
        /\ \A q \in DOMAIN d : q + m \in DOMAIN c /\ d[q] = c[q + m]
    BY UnlinkedFacts DEF Basic
  <2> QED
    BY <2>1
<1>3. \A k \in DOMAIN s : t[k].act = s[k].act /\ t[k].fn = s[k].fn
  BY <1>1 DEF GoesOn
<1>4. DOMAIN s = 1 .. Len(s) /\ DOMAIN t = 1 .. Len(t)
  BY <1>1 DEF Basic
<1> HIDE DEF t, d, L
<1>5. ASSUME NEW q \in DOMAIN d PROVE Live(d[q], t)
  <2>1. Live(d[q], s)
    BY <1>2 DEF Unrecovered
  <2>2. \A k \in 1 .. Len(s) : k \in 1 .. Len(t) /\ t[k].act = s[k].act
    BY <1>1, <1>3, <1>4
  <2> QED
    BY <2>1, <2>2 DEF Live
<1>6. Sorted(d)
  <2> SUFFICES ASSUME NEW q \in DOMAIN d, NEW o \in DOMAIN d, q < o
               PROVE  /\ d[o].act <= d[q].act
                      /\ d[q].act = d[o].act /\ d[q].act # 0 => d[o].of < d[q].of
    BY DEF Sorted
  <2>1. q + m < o + m
    BY <1>2
  <2> QED
    BY <1>2, <2>1 DEF Unrecovered, Sorted
<1>7. ASSUME NEW k \in DOMAIN t
      PROVE  /\ Unwinds(t[k]) => p
             /\ \A q \in DOMAIN d : d[q].act = t[k].act => MayHave(P[t[k].fn], t[k], d[q].of)
  <2>1. CASE k # L
    BY <1>1, <1>2, <2>1 DEF Unrecovered
  <2>2. CASE k = L
    <3>1. \A q \in DOMAIN d : q + m > m
      BY <1>2
    <3> QED
      BY <1>1, <1>2, <2>2, <3>1
  <2> QED
    BY <2>1, <2>2
<1> QED
  BY <1>5, <1>6, <1>7 DEF Unrecovered, t, d

\* What a frame found is still at the bottom when buffers above it go.
LEMMA PopKeeps ==
  ASSUME NEW T, NEW U, NEW c \in Seq(T), NEW m \in Nat, NEW f, Keeps(f, c),
         f.entry \in Seq(U), m + Len(f.entry) <= Len(c)
  PROVE  Keeps(f, Unlinked(c, m))
<1> DEFINE d == Unlinked(c, m)
           e == Len(f.entry)
<1>1. e \in Nat /\ Len(c) \in Nat /\ m <= Len(c)
  OBVIOUS
<1>2. /\ d \in Seq(T) /\ Len(d) = Len(c) - m
      /\ \A q \in DOMAIN d : d[q] = c[q + m]
  BY <1>1, UnlinkedFacts
<1> HIDE DEF d
<1>3. e <= Len(d) /\ DOMAIN d = 1 .. Len(d) /\ Len(d) \in Nat
  BY <1>1, <1>2
<1>4. ASSUME NEW i \in 1 .. e
      PROVE  f.entry[i] = d[Len(d) - e + i]
  <2>1. Len(d) - e + i \in DOMAIN d /\ Len(d) - e + i + m = Len(c) - e + i
    BY <1>1, <1>2, <1>3
  <2> QED
    BY <1>2, <2>1 DEF Keeps
<1>5. ASSUME NEW q \in 1 .. Len(d) - e
      PROVE  d[q].act >= f.act
  <2>1. q \in DOMAIN d /\ q + m \in 1 .. Len(c) - e
    BY <1>1, <1>2, <1>3
  <2> QED
    BY <1>2, <2>1 DEF Keeps
<1> QED
  BY <1>3, <1>4, <1>5 DEF Keeps, d

\* The third layer: what is taken off leaves enough for what g is yet to take.
LEMMA PopKept ==
  ASSUME NEW P, NEW s, NEW c, NEW n, Basic(P, s, c, n), Kept(P, s, c),
         NEW g \in Frame(n), GoesOn(s[Len(s)], g),
         NEW m \in Nat,
         Owes(P[g.fn], g) \in Nat,
         Len(c) >= m + Len(g.entry) + Owes(P[g.fn], g)
  PROVE  Kept(P, With(s, g), Unlinked(c, m))
<1> DEFINE t == With(s, g)
           d == Unlinked(c, m)
           L == Len(s)
<1>1. /\ t \in Seq(Frame(n)) /\ DOMAIN t = DOMAIN s /\ Len(t) = L
      /\ L \in DOMAIN s /\ t[L] = g /\ \A k \in DOMAIN s : k # L => t[k] = s[k]
  BY WithFacts DEF Basic
<1>2. /\ L \in Nat /\ DOMAIN s = 1 .. L /\ \A k \in DOMAIN s : s[k] \in Frame(n)
      /\ c \in Seq(Buffers(n)) /\ Len(c) \in Nat
  BY DEF Basic
<1>3. /\ Len(g.entry) \in Nat
      /\ \A k \in DOMAIN s : s[k].entry \in Seq(Buffers(n)) /\ Len(s[k].entry) \in Nat
  <2>1. g.entry \in Seq(Buffers(n)) /\ \A k \in DOMAIN s : s[k].entry \in Seq(Buffers(n))
    BY <1>2 DEF Frame
  <2> QED
    BY <2>1
<1>4. m <= Len(c) /\ m + Len(g.entry) <= Len(c)
  BY <1>2, <1>3
<1>5. /\ d \in Seq(Buffers(n)) /\ Len(d) = Len(c) - m
      /\ \A q \in DOMAIN d : q + m \in DOMAIN c /\ d[q] = c[q + m]
  BY <1>2, <1>4, UnlinkedFacts
<1>6. \A k \in DOMAIN s : /\ t[k].act = s[k].act /\ t[k].fn = s[k].fn
                          /\ t[k].entry = s[k].entry
  BY <1>1 DEF GoesOn
<1> HIDE DEF t, d, L
<1>7. HighEnough(P, t, d)
  <2> SUFFICES ASSUME NEW k \in DOMAIN s, NEW q \in DOMAIN d, d[q].act = t[k].act
               PROVE  Len(d) + 1 - q
                        >= Len(t[k].entry) + Count(P[t[k].fn], d[q].of + 1) + 1
    BY <1>1 DEF HighEnough
  <2>1. /\ q + m \in DOMAIN c /\ d[q] = c[q + m] /\ q \in Nat
    BY <1>5
  <2>2. Len(c) + 1 - (q + m) >= Len(s[k].entry) + Count(P[s[k].fn], c[q + m].of + 1) + 1
    BY <1>6, <2>1 DEF Kept, HighEnough
  <2>3. Len(d) + 1 - q = Len(c) + 1 - (q + m)
    BY <1>2, <1>5, <2>1
  <2> QED
    BY <1>6, <2>1, <2>2, <2>3
<1>8. \A j, k \in DOMAIN t : j < k => Len(t[j].entry) <= Len(t[k].entry)
  BY <1>1, <1>6 DEF Kept
<1>9. ASSUME NEW k \in DOMAIN t
      PROVE  Keeps(t[k], d)
  <2>1. Len(s[k].entry) <= Len(s[L].entry)
    <3>1. CASE k = L
      BY <1>1, <1>3, <3>1
    <3>2. CASE k < L
      BY <1>1, <3>2 DEF Kept
    <3> QED
      BY <1>1, <1>2, <3>1, <3>2
  <2>2. m + Len(s[k].entry) <= Len(c)
    BY <1>1, <1>2, <1>3, <1>4, <1>6, <2>1
  <2>3. Keeps(s[k], d)
    BY <1>1, <1>2, <1>3, <2>2, PopKeeps DEF Kept, d
  <2> QED
    BY <1>1, <1>6, <2>3 DEF Keeps
<1>10. ASSUME NEW k \in DOMAIN t
       PROVE  Len(ChainOf(t, d, k)) >= Len(t[k].entry) + Owes(P[t[k].fn], t[k])
  <2>1. CASE k = L
    BY <1>1, <1>2, <1>3, <1>5, <2>1 DEF ChainOf
  <2>2. CASE k # L
    <3>1. k + 1 \in DOMAIN s
      BY <1>1, <1>2, <2>2
    <3>2. ChainOf(t, d, k) = ChainOf(s, c, k)
      BY <1>1, <1>6, <2>2, <3>1 DEF ChainOf, L
    <3> QED
      BY <1>1, <2>2, <3>2 DEF Kept
  <2> QED
    BY <2>1, <2>2
<1> QED
  BY <1>7, <1>8, <1>9, <1>10 DEF Kept, t, d

-----------------------------------------------------------------------------
\* The top activation goes on as g, its buffer b linked: the first layer.
LEMMA PushBasic ==
  ASSUME NEW P, NEW s, NEW c, NEW n, Basic(P, s, c, n),
         NEW g \in Frame(n), GoesOn(s[Len(s)], g), InPhase(P[g.fn], g),
         NEW b \in Buffers(n), b.act = g.act, HasLinked(P[g.fn], g, b.of)
  PROVE  Basic(P, With(s, g), <<b>> \o c, n)
<1> DEFINE t == With(s, g)
           d == <<b>> \o c
           L == Len(s)
<1>1. Basic(P, t, Unlinked(c, 0), n)
  BY PopBasic
<1>2. Unlinked(c, 0) = c
  BY DEF Unlinked, Basic
<1>3. /\ d \in Seq(Buffers(n)) /\ d[1] = b
      /\ \A q \in DOMAIN d : q # 1 => q - 1 \in DOMAIN c /\ d[q] = c[q - 1]
  BY PushedFacts DEF Basic
<1>4. /\ DOMAIN t = DOMAIN s /\ L \in DOMAIN s /\ t[L] = g
      /\ \A k \in DOMAIN s : k # L => t[k] = s[k]
  BY WithFacts DEF Basic
<1>5. \A k \in DOMAIN t : t[k].act \in Nat
  <2>1. \A k \in DOMAIN t : t[k] \in Frame(n)
    BY <1>1 DEF Basic
  <2> QED
    BY <2>1 DEF Frame
<1> HIDE DEF t, d, L
<1>6. ASSUME NEW k \in DOMAIN t, NEW q \in DOMAIN d, d[q].act = t[k].act
      PROVE  HasLinked(P[t[k].fn], t[k], d[q].of)
  <2>1. CASE q # 1
    BY <1>1, <1>2, <1>3, <1>6, <2>1 DEF Basic
  <2>2. CASE q = 1
    <3>1. t[k].act = t[L].act
      BY <1>3, <1>4, <1>6, <2>2
    <3>2. k = L
      <4>1. \A j \in DOMAIN t : DOMAIN t \subseteq Nat
        BY <1>1 DEF Basic
      <4>2. ~ (k < L) /\ ~ (L < k)
        BY <1>1, <1>4, <1>5, <3>1 DEF Basic
      <4> QED
        BY <1>4, <4>1, <4>2
    <3> QED
      BY <1>3, <1>4, <2>2, <3>2
  <2> QED
    BY <2>1, <2>2
<1> QED
  BY <1>1, <1>2, <1>3, <1>6 DEF Basic, t, d

\* The second layer: b is of a later statement than the others of its frame.
LEMMA PushUnrecovered ==
  ASSUME NEW P, NEW s, NEW c, NEW n, Basic(P, s, c, n),
         NEW r, Unrecovered(P, s, c, r),
         NEW g \in Frame(n), GoesOn(s[Len(s)], g),
         g.phase = "body",
         NEW b \in Buffers(n), b.act = g.act,
         \A q \in DOMAIN c : c[q].act = g.act => c[q].of < b.of
  PROVE  Unrecovered(P, With(s, g), <<b>> \o c, r)
<1> DEFINE t == With(s, g)
           d == <<b>> \o c
           L == Len(s)
<1>1. \A i : MayHave(P[g.fn], g, i)
  BY DEF MayHave
<1>2. ~Unwinds(g)
  BY DEF Unwinds
<1>3. Unrecovered(P, t, Unlinked(c, 0), r)
  BY <1>1, <1>2, PopUnrecovered
<1>4. Unlinked(c, 0) = c
  BY DEF Unlinked, Basic
<1>5. /\ d \in Seq(Buffers(n)) /\ d[1] = b
      /\ \A q \in DOMAIN d : q # 1 => q - 1 \in DOMAIN c /\ d[q] = c[q - 1]
  BY PushedFacts DEF Basic
<1>6. /\ t \in Seq(Frame(n)) /\ DOMAIN t = DOMAIN s /\ L \in DOMAIN s /\ t[L] = g
      /\ L = Len(t) /\ \A k \in DOMAIN s : k # L => t[k] = s[k]
  BY WithFacts DEF Basic
<1>7. DOMAIN t = 1 .. Len(t) /\ Len(t) \in Nat /\ DOMAIN d = 1 .. Len(d)
  BY <1>5, <1>6
<1>8. \A k \in DOMAIN t : /\ t[k].act \in Nat \ {0}
                          /\ t[k].act <= g.act
                          /\ k # L => t[k].act < g.act
  <2>1. \A k \in DOMAIN t : t[k].act \in Nat \ {0}
    <3>1. n \in Nat /\ \A k \in DOMAIN t : t[k] \in Frame(n)
      BY <1>6 DEF Basic
    <3> QED
      BY <3>1 DEF Frame
  <2>2. \A k \in DOMAIN t : k # L => t[k].act < g.act
    BY <1>6, <1>7 DEF Basic, GoesOn
  <2> QED
    BY <1>6, <2>1, <2>2
<1> HIDE DEF t, d, L
<1>9. ASSUME NEW q \in DOMAIN c
      PROVE  c[q].act <= g.act
  <2>1. Live(c[q], t)
    BY <1>3, <1>4, <1>9 DEF Unrecovered
  <2> QED
    BY <1>6, <1>7, <1>8, <2>1 DEF Live, MainBuffer
<1>10. ASSUME NEW q \in DOMAIN d
       PROVE  Live(d[q], t)
  <2>1. CASE q # 1
    BY <1>3, <1>4, <1>5, <2>1 DEF Unrecovered
  <2>2. CASE q = 1
    BY <1>5, <1>6, <1>7, <2>2 DEF Live
  <2> QED
    BY <2>1, <2>2
<1>11. Sorted(d)
  <2> SUFFICES ASSUME NEW q \in DOMAIN d, NEW o \in DOMAIN d, q < o
               PROVE  /\ d[o].act <= d[q].act
                      /\ d[q].act = d[o].act /\ d[q].act # 0 => d[o].of < d[q].of
    BY DEF Sorted
  <2>1. q \in Nat \ {0} /\ o \in Nat /\ o # 1
    BY <1>7
  <2>2. o - 1 \in DOMAIN c /\ d[o] = c[o - 1]
    BY <1>5, <2>1
  <2>3. CASE q # 1
    BY <1>3, <1>4, <1>5, <2>1, <2>2, <2>3 DEF Unrecovered, Sorted
  <2>4. CASE q = 1
    BY <1>5, <1>9, <2>2, <2>4
  <2> QED
    BY <2>3, <2>4
<1>12. ASSUME NEW k \in DOMAIN t
       PROVE  /\ Unwinds(t[k]) => r
              /\ \A q \in DOMAIN d : d[q].act = t[k].act => MayHave(P[t[k].fn], t[k], d[q].of)
  <2>1. Unwinds(t[k]) => r
    BY <1>3 DEF Unrecovered
  <2>2. ASSUME NEW q \in DOMAIN d, d[q].act = t[k].act
        PROVE  MayHave(P[t[k].fn], t[k], d[q].of)
    <3>1. CASE q # 1
      BY <1>3, <1>4, <1>5, <2>2, <3>1 DEF Unrecovered
    <3>2. CASE q = 1 /\ k = L
      BY <1>1, <1>6, <3>2
    <3>3. CASE q = 1 /\ k # L
      <4>1. t[k].act < g.act
        BY <1>8, <3>3
      <4>2. g.act \in Nat /\ t[k].act \in Nat /\ t[k].act = g.act
        BY <1>5, <1>6, <1>8, <2>2, <3>3
      <4> QED
        BY <4>1, <4>2
    <3> QED
      BY <3>1, <3>2, <3>3
  <2> QED
    BY <2>1, <2>2
<1> QED
  BY <1>10, <1>11, <1>12 DEF Unrecovered, t, d

\* What a frame found is still at the bottom when a buffer is put on top.
LEMMA PushKeeps ==
  ASSUME NEW T, NEW U, NEW c \in Seq(T), NEW f, Keeps(f, c), f.entry \in Seq(U),
         NEW b \in T, b.act >= f.act
  PROVE  Keeps(f, <<b>> \o c)
<1> DEFINE d == <<b>> \o c
           e == Len(f.entry)
<1>1. /\ e \in Nat /\ Len(c) \in Nat /\ 0 < e /\ e <= Len(c)
      /\ DOMAIN c = 1 .. Len(c)
  BY DEF Keeps
<1>2. /\ Len(d) = Len(c) + 1 /\ d[1] = b
      /\ \A q \in DOMAIN c : d[q + 1] = c[q]
  BY PushedFacts
<1> HIDE DEF d, e
<1>3. ASSUME NEW i \in 1 .. e
      PROVE  f.entry[i] = d[Len(d) - e + i]
  <2>1. Len(c) - e + i \in DOMAIN c /\ Len(d) - e + i = Len(c) - e + i + 1
    BY <1>1, <1>2
  <2> QED
    BY <1>2, <2>1 DEF Keeps, e
<1>4. ASSUME NEW q \in 1 .. Len(d) - e
      PROVE  d[q].act >= f.act
  <2>1. CASE q = 1
    BY <1>2, <2>1
  <2>2. CASE q # 1
    <3>1. /\ q - 1 \in DOMAIN c /\ q - 1 \in 1 .. Len(c) - e
          /\ q - 1 + 1 = q
      BY <1>1, <1>2, <2>2
    <3> QED
      BY <1>2, <3>1 DEF Keeps, e
  <2> QED
    BY <2>1, <2>2
<1> QED
  <2>1. e <= Len(d)
    BY <1>1, <1>2
  <2> QED
    BY <1>1, <1>3, <1>4, <2>1 DEF Keeps, d, e

\* The third layer: b is where it has to be, and g has no more to take off than
\* is there.
LEMMA PushKept ==
  ASSUME NEW P, NEW s, NEW c, NEW n, Basic(P, s, c, n), Kept(P, s, c),
         NEW g \in Frame(n), GoesOn(s[Len(s)], g),
         NEW b \in Buffers(n), b.act = g.act,
         Len(c) >= Len(g.entry) + Count(P[g.fn], b.of + 1),
         Len(c) + 1 >= Len(g.entry) + Owes(P[g.fn], g)
  PROVE  Kept(P, With(s, g), <<b>> \o c)
<1> DEFINE t == With(s, g)
           d == <<b>> \o c
           L == Len(s)
<1>1. /\ t \in Seq(Frame(n)) /\ DOMAIN t = DOMAIN s /\ Len(t) = L
      /\ L \in DOMAIN s /\ t[L] = g /\ \A k \in DOMAIN s : k # L => t[k] = s[k]
  BY WithFacts DEF Basic
<1>2. /\ L \in Nat /\ DOMAIN s = 1 .. L /\ \A k \in DOMAIN s : s[k] \in Frame(n)
      /\ c \in Seq(Buffers(n)) /\ Len(c) \in Nat /\ n \in Nat
  BY DEF Basic
<1>3. \A k \in DOMAIN s : s[k].entry \in Seq(Buffers(n)) /\ s[k].act \in Nat
  BY <1>2 DEF Frame
<1>4. /\ d \in Seq(Buffers(n)) /\ Len(d) = Len(c) + 1 /\ d[1] = b
      /\ \A q \in DOMAIN d : q # 1 => q - 1 \in DOMAIN c /\ d[q] = c[q - 1]
  BY <1>2, PushedFacts
<1>5. \A k \in DOMAIN s : /\ t[k].act = s[k].act /\ t[k].fn = s[k].fn
                          /\ t[k].entry = s[k].entry
  BY <1>1 DEF GoesOn
<1>6. \A k \in DOMAIN s : k # L => s[k].act < g.act
  BY <1>1, <1>2 DEF Basic, GoesOn
<1> HIDE DEF t, d, L
<1>7. HighEnough(P, t, d)
  <2> SUFFICES ASSUME NEW k \in DOMAIN s, NEW q \in DOMAIN d, d[q].act = t[k].act
               PROVE  Len(d) + 1 - q
                        >= Len(t[k].entry) + Count(P[t[k].fn], d[q].of + 1) + 1
    BY <1>1 DEF HighEnough
  <2>1. CASE q # 1
    <3>1. q - 1 \in DOMAIN c /\ d[q] = c[q - 1] /\ q \in Nat
      BY <1>4, <2>1
    <3>2. Len(c) + 1 - (q - 1)
            >= Len(s[k].entry) + Count(P[s[k].fn], c[q - 1].of + 1) + 1
      BY <1>5, <3>1 DEF Kept, HighEnough
    <3>3. Len(d) + 1 - q = Len(c) + 1 - (q - 1)
      BY <1>2, <1>4, <3>1
    <3> QED
      BY <1>5, <3>1, <3>2, <3>3
  <2>2. CASE q = 1
    <3>1. k = L
      BY <1>1, <1>3, <1>4, <1>5, <1>6, <2>2
    <3>2. Len(d) + 1 - q = Len(c) + 1 /\ t[k] = g /\ d[q] = b
      BY <1>1, <1>2, <1>4, <2>2, <3>1
    <3>3. Len(g.entry) \in Nat /\ Count(P[g.fn], b.of + 1) \in Nat
      <4>1. g.fn \in 1 .. N /\ g.entry \in Seq(Buffers(n))
        BY DEF Frame
      <4>2. P[g.fn] \in Code
        BY <4>1 DEF Basic
      <4> QED
        BY <4>1, <4>2, CountType
    <3> QED
      BY <1>2, <3>2, <3>3
  <2> QED
    BY <2>1, <2>2
<1>8. \A j, k \in DOMAIN t : j < k => Len(t[j].entry) <= Len(t[k].entry)
  BY <1>1, <1>5 DEF Kept
<1>9. ASSUME NEW k \in DOMAIN t
      PROVE  Keeps(t[k], d)
  <2>1. b.act >= s[k].act
    <3>1. CASE k = L
      BY <1>1, <1>3, <1>5, <3>1
    <3>2. CASE k # L
      <4>1. s[k].act < g.act /\ g.act \in Nat
        BY <1>1, <1>3, <1>5, <1>6, <3>2
      <4> QED
        BY <1>1, <1>3, <4>1
    <3> QED
      BY <3>1, <3>2
  <2>2. Keeps(s[k], d)
    BY <1>1, <1>2, <1>3, <2>1, PushKeeps DEF Kept, d
  <2> QED
    BY <1>1, <1>5, <2>2 DEF Keeps
<1>10. ASSUME NEW k \in DOMAIN t
       PROVE  Len(ChainOf(t, d, k)) >= Len(t[k].entry) + Owes(P[t[k].fn], t[k])
  <2>1. CASE k = L
    BY <1>1, <1>4, <2>1 DEF ChainOf
  <2>2. CASE k # L
    <3>1. k + 1 \in DOMAIN s
      BY <1>1, <1>2, <2>2
    <3>2. ChainOf(t, d, k) = ChainOf(s, c, k)
      BY <1>1, <1>5, <2>2, <3>1 DEF ChainOf, L
    <3> QED
      BY <1>1, <2>2, <3>2 DEF Kept
  <2> QED
    BY <2>1, <2>2
<1> QED
  BY <1>7, <1>8, <1>9, <1>10 DEF Kept, t, d

-----------------------------------------------------------------------------
\* One more activation makes room for one more name.
LEMMA Widening ==
  ASSUME NEW n \in Nat
  PROVE  /\ Buffers(n) \subseteq Buffers(n + 1)
         /\ \A c \in Seq(Buffers(n)) : c \in Seq(Buffers(n + 1))
         /\ Frame(n) \subseteq Frame(n + 1)
         /\ \A s \in Seq(Frame(n)) : s \in Seq(Frame(n + 1))
<1>1. Buffers(n) \subseteq Buffers(n + 1)
  BY DEF Buffers
<1>2. \A c \in Seq(Buffers(n)) : c \in Seq(Buffers(n + 1))
  BY <1>1
<1>3. Frame(n) \subseteq Frame(n + 1)
  <2> SUFFICES ASSUME NEW f \in Frame(n) PROVE f \in Frame(n + 1)
    OBVIOUS
  <2>1. f.act \in 1 .. n + 1 /\ f.entry \in Seq(Buffers(n + 1))
    BY <1>2 DEF Frame
  <2> QED
    BY <2>1 DEF Frame
<1>4. \A s \in Seq(Frame(n)) : s \in Seq(Frame(n + 1))
  BY <1>3
<1> QED
  BY <1>1, <1>2, <1>3, <1>4

\* The activation that a call makes.
Called(h, c, n) ==
  [fn |-> h, act |-> n + 1, phase |-> "entry", pc |-> 1, at |-> 0,
   entry |-> c, ran |-> <<>>]

\* A call adds an activation that has linked nothing: the first layer.
LEMMA CallBasic ==
  ASSUME NEW P, NEW s, NEW c, NEW n, Basic(P, s, c, n), NEW h \in 1 .. N
  PROVE  Basic(P, Append(s, Called(h, c, n)), c, n + 1)
<1> DEFINE a == Called(h, c, n)
           t == Append(s, a)
<1>1. /\ n \in Nat /\ s \in Seq(Frame(n)) /\ s # <<>> /\ c \in Seq(Buffers(n))
      /\ P[h] \in Code
  BY DEF Basic
<1>2. s \in Seq(Frame(n + 1)) /\ c \in Seq(Buffers(n + 1))
  BY <1>1, Widening
<1>3. a \in Frame(n + 1) /\ a.fn = h /\ a.act = n + 1 /\ a.pc = 1 /\ a.phase = "entry"
  BY <1>1, <1>2 DEF Called, Frame, Phases
<1> HIDE DEF a
<1>4. /\ t \in Seq(Frame(n + 1)) /\ t # <<>>
      /\ Len(t) = Len(s) + 1 /\ t[Len(s) + 1] = a
      /\ \A k \in 1 .. Len(s) : t[k] = s[k]
  BY <1>2, <1>3
<1>5. /\ DOMAIN s = 1 .. Len(s) /\ DOMAIN t = 1 .. Len(s) + 1 /\ Len(s) \in Nat
  BY <1>1, <1>4
<1>6. /\ \A k \in DOMAIN s : s[k].act \in Nat /\ s[k].act < n + 1
      /\ \A q \in DOMAIN c : c[q].act \in Nat /\ c[q].act < n + 1
  BY BasicTypes
<1> HIDE DEF t
<1>7. \A j, k \in DOMAIN t : j < k => t[j].act < t[k].act
  <2> SUFFICES ASSUME NEW j \in DOMAIN t, NEW k \in DOMAIN t, j < k
               PROVE  t[j].act < t[k].act
    OBVIOUS
  <2>1. CASE k = Len(s) + 1
    BY <1>3, <1>4, <1>5, <1>6, <2>1
  <2>2. CASE k # Len(s) + 1
    BY <1>4, <1>5, <2>2 DEF Basic
  <2> QED
    BY <2>1, <2>2
<1>8. ASSUME NEW k \in DOMAIN t
      PROVE  /\ InPhase(P[t[k].fn], t[k])
             /\ \A q \in DOMAIN c : c[q].act = t[k].act => HasLinked(P[t[k].fn], t[k], c[q].of)
  <2>1. CASE k = Len(s) + 1
    <3>1. InPhase(P[a.fn], a)
      BY <1>1, <1>3 DEF InPhase, Code
    <3>2. \A q \in DOMAIN c : c[q].act # a.act
      BY <1>1, <1>3, <1>6
    <3> QED
      BY <1>4, <2>1, <3>1, <3>2
  <2>2. CASE k # Len(s) + 1
    BY <1>4, <1>5, <2>2 DEF Basic
  <2> QED
    BY <2>1, <2>2
<1> QED
  BY <1>1, <1>2, <1>4, <1>7, <1>8 DEF Basic, t, a

\* The second layer.
LEMMA CallUnrecovered ==
  ASSUME NEW P, NEW s, NEW c, NEW n, Basic(P, s, c, n), NEW h \in 1 .. N,
         NEW p, Unrecovered(P, s, c, p)
  PROVE  Unrecovered(P, Append(s, Called(h, c, n)), c, p)
<1> DEFINE a == Called(h, c, n)
           t == Append(s, a)
<1>1. n \in Nat /\ s \in Seq(Frame(n)) /\ c \in Seq(Buffers(n))
  BY DEF Basic
<1>2. a.act = n + 1 /\ a.phase = "entry"
  BY DEF Called
<1>3. /\ Len(t) = Len(s) + 1 /\ t[Len(s) + 1] = a /\ \A k \in 1 .. Len(s) : t[k] = s[k]
      /\ DOMAIN s = 1 .. Len(s) /\ DOMAIN t = 1 .. Len(s) + 1 /\ Len(s) \in Nat
  BY <1>1
<1>4. \A q \in DOMAIN c : c[q].act \in Nat /\ c[q].act < n + 1
  BY BasicTypes
<1> HIDE DEF a, t
<1>5. ASSUME NEW q \in DOMAIN c PROVE Live(c[q], t)
  <2>1. Live(c[q], s)
    BY DEF Unrecovered
  <2> QED
    BY <1>3, <2>1 DEF Live
<1>6. ASSUME NEW k \in DOMAIN t
      PROVE  /\ Unwinds(t[k]) => p
             /\ \A q \in DOMAIN c : c[q].act = t[k].act => MayHave(P[t[k].fn], t[k], c[q].of)
  <2>1. CASE k = Len(s) + 1
    BY <1>1, <1>2, <1>3, <1>4, <2>1 DEF Unwinds
  <2>2. CASE k # Len(s) + 1
    BY <1>3, <2>2 DEF Unrecovered
  <2> QED
    BY <2>1, <2>2
<1> QED
  BY <1>5, <1>6 DEF Unrecovered, t, a

\* The third layer: the callee finds the chain that the caller left.
LEMMA CallKept ==
  ASSUME NEW P, NEW s, NEW c, NEW n, Basic(P, s, c, n), NEW h \in 1 .. N,
         Kept(P, s, c)
  PROVE  Kept(P, Append(s, Called(h, c, n)), c)
<1> DEFINE a == Called(h, c, n)
           t == Append(s, a)
<1>1. n \in Nat /\ s \in Seq(Frame(n)) /\ s # <<>> /\ c \in Seq(Buffers(n))
  BY DEF Basic
<1>2. a.act = n + 1 /\ a.entry = c /\ Owes(P[a.fn], a) = 0
  BY DEF Called, Owes
<1>3. /\ Len(t) = Len(s) + 1 /\ t[Len(s) + 1] = a /\ \A k \in 1 .. Len(s) : t[k] = s[k]
      /\ DOMAIN s = 1 .. Len(s) /\ DOMAIN t = 1 .. Len(s) + 1 /\ Len(s) \in Nat
      /\ 1 \in DOMAIN s
  BY <1>1
<1>4. \A q \in DOMAIN c : c[q].act \in Nat /\ c[q].act < n + 1
  BY BasicTypes
<1>5. \A k \in DOMAIN s : Len(s[k].entry) \in Nat /\ Len(c) \in Nat
  BY BasicTypes
<1> HIDE DEF a, t
<1>6. HighEnough(P, t, c)
  <2> SUFFICES ASSUME NEW k \in DOMAIN t, NEW q \in DOMAIN c, c[q].act = t[k].act
               PROVE  Len(c) + 1 - q
                        >= Len(t[k].entry) + Count(P[t[k].fn], c[q].of + 1) + 1
    BY DEF HighEnough
  <2>1. k # Len(s) + 1
    BY <1>1, <1>2, <1>3, <1>4
  <2> QED
    BY <1>3, <2>1, SMTT(30) DEF Kept, HighEnough
<1>7. \A j, k \in DOMAIN t : j < k => Len(t[j].entry) <= Len(t[k].entry)
  <2> SUFFICES ASSUME NEW j \in DOMAIN t, NEW k \in DOMAIN t, j < k
               PROVE  Len(t[j].entry) <= Len(t[k].entry)
    OBVIOUS
  <2>1. j \in DOMAIN s /\ t[j] = s[j]
    BY <1>3
  <2>2. CASE k = Len(s) + 1
    BY <1>2, <1>3, <2>1, <2>2 DEF Kept, Keeps
  <2>3. CASE k # Len(s) + 1
    BY <1>3, <2>1, <2>3 DEF Kept
  <2> QED
    BY <2>2, <2>3
<1>8. ASSUME NEW k \in DOMAIN t
      PROVE  /\ Keeps(t[k], c)
             /\ Len(ChainOf(t, c, k)) >= Len(t[k].entry) + Owes(P[t[k].fn], t[k])
  <2>1. CASE k = Len(s) + 1
    <3>1. 0 < Len(c)
      <4>1. 0 < Len(s[1].entry) /\ Len(s[1].entry) <= Len(c)
        BY <1>3 DEF Kept, Keeps
      <4> QED
        BY <1>3, <1>5, <4>1
    <3>2. Keeps(a, c)
      BY <1>1, <1>2, <1>5, <3>1 DEF Keeps
    <3> QED
      BY <1>2, <1>3, <1>5, <2>1, <3>2 DEF ChainOf
  <2>2. CASE k # Len(s) + 1
    <3>1. k \in DOMAIN s /\ t[k] = s[k]
      BY <1>3, <2>2
    <3>2. ChainOf(t, c, k) = ChainOf(s, c, k)
      BY <1>2, <1>3, <3>1 DEF ChainOf
    <3> QED
      BY <3>1, <3>2 DEF Kept
  <2> QED
    BY <2>1, <2>2
<1> QED
  BY <1>6, <1>7, <1>8 DEF Kept, t, a

-----------------------------------------------------------------------------
\* The activations t that are left of s when the k-th catches a panic in the
\* buffer of its i-th statement.
CaughtAt(t, s, k, i, n) ==
  /\ t \in Seq(Frame(n)) /\ t # <<>>
  /\ Len(t) = k /\ DOMAIN t = 1 .. k /\ k \in Nat \ {0} /\ k <= Len(s)
  /\ \A j \in 1 .. k : /\ j \in DOMAIN s
                       /\ t[j].fn = s[j].fn /\ t[j].act = s[j].act
                       /\ t[j].pc = s[j].pc /\ t[j].entry = s[j].entry
                       /\ t[j].ran = s[j].ran /\ (j # k => t[j] = s[j])
  /\ t[k].phase = "caught" /\ t[k].at = i

\* longjmp changes no frame but the one that catches the panic.
LEMMA CaughtFacts ==
  ASSUME NEW n, NEW s \in Seq(Frame(n)), NEW k \in DOMAIN s, NEW i \in Nat
  PROVE  CaughtAt([SubSeq(s, 1, k) EXCEPT ![k].phase = "caught", ![k].at = i], s, k, i, n)
<1> DEFINE u == SubSeq(s, 1, k)
           g == [u[k] EXCEPT !.phase = "caught", !.at = i]
<1>1. k \in 1 .. Len(s) /\ Len(s) \in Nat /\ 1 \in 1 .. Len(s)
  OBVIOUS
<1>2. /\ u \in Seq(Frame(n)) /\ Len(u) = k
      /\ \A j \in 1 .. k : j \in DOMAIN s /\ u[j] = s[j]
  BY <1>1
<1>3. u[k] \in Frame(n)
  BY <1>1, <1>2
<1> HIDE DEF u
<1>4. /\ g \in Frame(n) /\ g.phase = "caught" /\ g.at = i
      /\ g.fn = u[k].fn /\ g.act = u[k].act /\ g.pc = u[k].pc /\ g.entry = u[k].entry
      /\ g.ran = u[k].ran
  BY <1>3 DEF Frame, Phases
<1>5. [SubSeq(s, 1, k) EXCEPT ![k].phase = "caught", ![k].at = i] = [u EXCEPT ![k] = g]
  BY <1>1, <1>2 DEF u
<1> HIDE DEF g
<1>6. CaughtAt([u EXCEPT ![k] = g], s, k, i, n)
  BY <1>1, <1>2, <1>4 DEF CaughtAt
<1> QED
  BY <1>5, <1>6

\* The panic is caught in the frame that linked the head: the first layer.
LEMMA CaughtBasic ==
  ASSUME NEW P, NEW s, NEW c, NEW n, Basic(P, s, c, n),
         c # <<>>, NEW k \in DOMAIN s, s[k].act = c[1].act,
         NEW t, CaughtAt(t, s, k, c[1].of, n)
  PROVE  Basic(P, t, c, n)
<1>1. 1 \in DOMAIN c /\ c[1].of \in Nat
  BY BasicTypes
<1>2. /\ t \in Seq(Frame(n)) /\ t # <<>>
      /\ DOMAIN t = 1 .. k /\ k \in Nat \ {0}
      /\ \A j \in 1 .. k : /\ j \in DOMAIN s
                           /\ t[j].fn = s[j].fn /\ t[j].act = s[j].act
                           /\ t[j].pc = s[j].pc /\ (j # k => t[j] = s[j])
      /\ t[k].phase = "caught" /\ t[k].at = c[1].of
  BY DEF CaughtAt
<1>3. HasLinked(P[s[k].fn], s[k], c[1].of)
  BY <1>1 DEF Basic
<1>4. InPhase(P[t[k].fn], t[k])
  <2>1. s[k].pc <= Len(P[s[k].fn]) + 1
    BY DEF Basic, InPhase
  <2> QED
    BY <1>2, <1>3, <2>1 DEF InPhase, At, HasLinked
<1>5. ASSUME NEW j \in DOMAIN t
      PROVE  /\ InPhase(P[t[j].fn], t[j])
             /\ \A q \in DOMAIN c : c[q].act = t[j].act => HasLinked(P[t[j].fn], t[j], c[q].of)
  <2>1. CASE j # k
    BY <1>2, <2>1 DEF Basic
  <2>2. CASE j = k
    <3>1. ASSUME NEW q \in DOMAIN c, c[q].act = t[j].act
          PROVE  HasLinked(P[t[j].fn], t[j], c[q].of)
      <4>1. HasLinked(P[s[k].fn], s[k], c[q].of)
        BY <1>2, <2>2, <3>1 DEF Basic
      <4> QED
        BY <1>2, <2>2, <4>1 DEF HasLinked
    <3> QED
      BY <1>4, <2>2, <3>1
  <2> QED
    BY <2>1, <2>2
<1>6. \A i, j \in DOMAIN t : i < j => t[i].act < t[j].act
  BY <1>2 DEF Basic
<1> QED
  BY <1>2, <1>5, <1>6 DEF Basic

\* The second layer: what the frames that are gone linked is gone already.
LEMMA CaughtUnrecovered ==
  ASSUME NEW P, NEW s, NEW c, NEW n, Basic(P, s, c, n), NEW p, Unrecovered(P, s, c, p),
         c # <<>>, NEW k \in DOMAIN s, s[k].act = c[1].act,
         NEW t, CaughtAt(t, s, k, c[1].of, n)
  PROVE  Unrecovered(P, t, c, TRUE)
<1>1. 1 \in DOMAIN c /\ c[1].of \in Nat
  BY BasicTypes
<1>2. /\ t \in Seq(Frame(n)) /\ Len(t) = k
      /\ DOMAIN t = 1 .. k /\ k \in Nat \ {0}
      /\ \A j \in 1 .. k : /\ j \in DOMAIN s
                           /\ t[j].fn = s[j].fn /\ t[j].act = s[j].act
                           /\ (j # k => t[j] = s[j])
      /\ t[k].phase = "caught" /\ t[k].at = c[1].of
  BY DEF CaughtAt
<1>3. ASSUME NEW q \in DOMAIN c
      PROVE  /\ c[q].act <= c[1].act
             /\ c[q].act = c[1].act => c[q].of <= c[1].of
  <2>1. c[q].act \in Nat /\ c[q].of \in Nat /\ c[1].act \in Nat \ {0} /\ q \in Nat \ {0}
    BY BasicTypes
  <2>2. CASE q = 1
    BY <1>1, <2>1, <2>2
  <2>3. CASE q # 1
    <3>1. 1 < q
      BY <2>1, <2>3
    <3> QED
      BY <1>1, <2>1, <3>1 DEF Unrecovered, Sorted
  <2> QED
    BY <2>2, <2>3
<1>4. ASSUME NEW q \in DOMAIN c
      PROVE  Live(c[q], t)
  <2>1. CASE c[q] = MainBuffer
    BY <2>1 DEF Live
  <2>2. CASE c[q] # MainBuffer
    <3>1. PICK j \in DOMAIN s : s[j].act = c[q].act
      BY <2>2, BasicTypes DEF Unrecovered, Live
    <3>2. ~ (k < j)
      <4>1. s[j].act <= s[k].act /\ s[j].act \in Nat /\ s[k].act \in Nat
        BY <1>3, <3>1, BasicTypes
      <4> QED
        BY <4>1 DEF Basic
    <3>3. j \in 1 .. k
      BY <1>2, <3>2, BasicTypes
    <3> QED
      BY <1>2, <3>1, <3>3 DEF Live
  <2> QED
    BY <2>1, <2>2
<1>5. ASSUME NEW j \in DOMAIN t, NEW q \in DOMAIN c, c[q].act = t[j].act
      PROVE  MayHave(P[t[j].fn], t[j], c[q].of)
  <2>1. CASE j # k
    BY <1>2, <1>5, <2>1 DEF Unrecovered
  <2>2. CASE j = k
    <3>1. c[q].of <= t[j].at /\ t[j].phase = "caught"
      BY <1>2, <1>3, <1>5, <2>2
    <3> QED
      BY <3>1 DEF MayHave
  <2> QED
    BY <2>1, <2>2
<1> QED
  BY <1>4, <1>5 DEF Unrecovered

\* The third layer: below the head is all that its frame is yet to take off.
LEMMA CaughtKept ==
  ASSUME NEW P, NEW s, NEW c, NEW n, Basic(P, s, c, n), Kept(P, s, c),
         c # <<>>, NEW k \in DOMAIN s, s[k].act = c[1].act,
         NEW t, CaughtAt(t, s, k, c[1].of, n)
  PROVE  Kept(P, t, c)
<1>1. 1 \in DOMAIN c /\ c[1].of \in Nat /\ Len(c) \in Nat
  BY BasicTypes
<1>2. /\ t \in Seq(Frame(n)) /\ Len(t) = k
      /\ DOMAIN t = 1 .. k /\ k \in Nat \ {0} /\ k <= Len(s)
      /\ \A j \in 1 .. k : /\ j \in DOMAIN s
                           /\ t[j].fn = s[j].fn /\ t[j].act = s[j].act
                           /\ t[j].entry = s[j].entry /\ (j # k => t[j] = s[j])
      /\ t[k].phase = "caught" /\ t[k].at = c[1].of
  BY DEF CaughtAt
<1>3. HighEnough(P, t, c)
  BY <1>2 DEF Kept, HighEnough
<1>4. \A i, j \in DOMAIN t : i < j => Len(t[i].entry) <= Len(t[j].entry)
  BY <1>2 DEF Kept
<1>5. ASSUME NEW j \in DOMAIN t
      PROVE  Keeps(t[j], c)
  <2>1. Keeps(s[j], c)
    BY <1>2 DEF Kept
  <2> QED
    BY <1>2, <2>1 DEF Keeps
<1>6. ASSUME NEW j \in DOMAIN t
      PROVE  Len(ChainOf(t, c, j)) >= Len(t[j].entry) + Owes(P[t[j].fn], t[j])
  <2>1. CASE j # k
    <3>1. j + 1 \in 1 .. k /\ j # Len(s)
      BY <1>2, <2>1
    <3>2. ChainOf(t, c, j) = ChainOf(s, c, j)
      BY <1>2, <2>1, <3>1 DEF ChainOf
    <3> QED
      BY <1>2, <2>1, <3>2 DEF Kept
  <2>2. CASE j = k
    <3>1. Owes(P[t[k].fn], t[k]) = Count(P[s[k].fn], c[1].of + 1) + 1
      BY <1>2 DEF Owes
    <3>2. Len(c) + 1 - 1 >= Len(s[k].entry) + Count(P[s[k].fn], c[1].of + 1) + 1
      BY <1>1 DEF Kept, HighEnough
    <3>3. /\ Len(s[k].entry) \in Nat
          /\ Count(P[s[k].fn], c[1].of + 1) \in Nat
      BY BasicTypes, CountType
    <3>4. Len(c) >= Len(s[k].entry) + (Count(P[s[k].fn], c[1].of + 1) + 1)
      BY <1>1, <3>2, <3>3
    <3> QED
      BY <1>2, <2>2, <3>1, <3>4 DEF ChainOf
  <2> QED
    BY <2>1, <2>2
<1> QED
  BY <1>3, <1>4, <1>5, <1>6 DEF Kept

-----------------------------------------------------------------------------
\* Returning takes the top activation and nothing else.
LEMMA DroppedFacts ==
  ASSUME NEW T, NEW s \in Seq(T), Len(s) > 1
  PROVE  LET t == SubSeq(s, 1, Len(s) - 1) IN
           /\ t \in Seq(T) /\ t # <<>> /\ Len(t) = Len(s) - 1
           /\ \A k \in DOMAIN t : k \in DOMAIN s /\ k # Len(s) /\ t[k] = s[k]
<1> DEFINE t == SubSeq(s, 1, Len(s) - 1)
<1>1. /\ Len(s) \in Nat /\ 1 \in 1 .. Len(s) /\ Len(s) - 1 \in 1 .. Len(s)
      /\ DOMAIN s = 1 .. Len(s)
  OBVIOUS
<1>2. /\ t \in Seq(T) /\ Len(t) = Len(s) - 1
      /\ \A k \in 1 .. Len(s) - 1 : t[k] = s[k]
  BY <1>1
<1> HIDE DEF t
<1>3. DOMAIN t = 1 .. Len(s) - 1 /\ t # <<>>
  BY <1>1, <1>2
<1>4. \A L \in Nat : \A k \in 1 .. L - 1 : k \in 1 .. L /\ k # L
  OBVIOUS
<1> QED
  BY <1>1, <1>2, <1>3, <1>4 DEF t

\* A return from an activation that has done all its actions: the three layers.
LEMMA ReturnLayers ==
  ASSUME NEW P, NEW s, NEW c, NEW n, Basic(P, s, c, n), Len(s) > 1,
         s[Len(s)].phase = "exit", s[Len(s)].at = 0, NEW p
  PROVE  LET t == SubSeq(s, 1, Len(s) - 1) IN
           /\ Basic(P, t, c, n)
           /\ Unrecovered(P, s, c, p) => Unrecovered(P, t, c, p)
           /\ Kept(P, s, c) => Kept(P, t, c)
<1> DEFINE t == SubSeq(s, 1, Len(s) - 1)
           L == Len(s)
<1>1. L \in Nat /\ L > 1 /\ DOMAIN s = 1 .. L /\ L \in DOMAIN s
  BY BasicTypes
<1>2. /\ t \in Seq(Frame(n)) /\ t # <<>> /\ Len(t) = L - 1
      /\ \A k \in DOMAIN t : k \in DOMAIN s /\ k # L /\ t[k] = s[k]
  <2>1. s \in Seq(Frame(n))
    BY DEF Basic
  <2> QED
    BY <2>1, DroppedFacts
<1>3. DOMAIN t = 1 .. L - 1
  BY <1>1, <1>2
<1>4. s[L].phase = "exit" /\ s[L].at = 0
  OBVIOUS
<1>5. Len(s) = L
  OBVIOUS
<1> HIDE DEF t, L
<1>6. Basic(P, t, c, n)
  BY <1>2 DEF Basic
<1>7. ASSUME Unrecovered(P, s, c, p)
      PROVE  Unrecovered(P, t, c, p)
  <2>1. ASSUME NEW q \in DOMAIN c
        PROVE  c[q].act # s[L].act
    <3>1. s[L].at + 1 = 1 /\ P[s[L].fn] \in Code /\ c[q].of \in Nat
      BY <1>1, <1>4, BasicTypes
    <3>2. LastBefore(P[s[L].fn], 1, Blocks) = 0
      <4> DEFINE code == P[s[L].fn]
                 l == LastBefore(code, 1, Blocks)
      <4>1. code \in Code /\ DOMAIN code \subseteq Nat \ {0}
        BY <3>1 DEF Code
      <4> HIDE DEF code
      <4>2. l \in Nat /\ (l = 0 \/ (l \in DOMAIN code /\ l < 1))
        BY <4>1, LastBeforeFacts
      <4> QED
        BY <4>1, <4>2 DEF code
    <3>3. ~ MayHave(P[s[L].fn], s[L], c[q].of)
      BY <1>4, <3>1, <3>2 DEF MayHave
    <3> QED
      BY <1>1, <1>7, <3>3 DEF Unrecovered
  <2>2. ASSUME NEW q \in DOMAIN c PROVE Live(c[q], t)
    <3>1. Live(c[q], s) /\ c[q].act # s[L].act
      BY <1>7, <2>1 DEF Unrecovered
    <3>2. \A k \in 1 .. Len(s) : k # L => k \in 1 .. Len(t) /\ t[k] = s[k]
      BY <1>1, <1>2, <1>3, <1>5
    <3> QED
      BY <3>1, <3>2 DEF Live
  <2> QED
    BY <1>2, <1>7, <2>2 DEF Unrecovered
<1>8. ASSUME Kept(P, s, c)
      PROVE  Kept(P, t, c)
  <2>1. HighEnough(P, t, c)
    BY <1>2, <1>8 DEF Kept, HighEnough
  <2>2. \A j, k \in DOMAIN t : j < k => Len(t[j].entry) <= Len(t[k].entry)
    BY <1>2, <1>8 DEF Kept
  <2>3. \A k \in DOMAIN t : Keeps(t[k], c)
    BY <1>2, <1>8 DEF Kept
  <2>4. ASSUME NEW k \in DOMAIN t
        PROVE  Len(ChainOf(t, c, k)) >= Len(t[k].entry) + Owes(P[t[k].fn], t[k])
    <3>1. Len(ChainOf(s, c, k)) >= Len(t[k].entry) + Owes(P[t[k].fn], t[k])
      BY <1>2, <1>8 DEF Kept
    <3>2. k \in Nat /\ k + 1 \in DOMAIN s
      BY <1>1, <1>3
    <3>3. CASE k = L - 1
      <4>1. ChainOf(t, c, k) = c /\ ChainOf(s, c, k) = s[L].entry
        BY <1>1, <1>2, <1>5, <3>3 DEF ChainOf
      <4>2. Len(s[L].entry) <= Len(c)
        BY <1>1, <1>8 DEF Kept, Keeps
      <4>3. /\ Len(s[L].entry) \in Nat /\ Len(c) \in Nat
            /\ Len(t[k].entry) \in Nat
        BY <1>1, <1>2, BasicTypes
      <4>4. Owes(P[t[k].fn], t[k]) \in Nat
        <5>1. P[t[k].fn] \in Code
          BY <1>2, BasicTypes
        <5> QED
          BY <5>1, CountType DEF Owes, Own
      <4> QED
        BY <3>1, <4>1, <4>2, <4>3, <4>4
    <3>4. CASE k # L - 1
      <4>1. k # L /\ k + 1 \in DOMAIN t
        BY <1>1, <1>2, <1>3, <3>2, <3>4
      <4>2. ChainOf(t, c, k) = ChainOf(s, c, k)
        BY <1>1, <1>2, <1>5, <3>4, <4>1 DEF ChainOf
      <4> QED
        BY <3>1, <4>2
    <3> QED
      BY <3>3, <3>4
  <2> QED
    BY <2>1, <2>2, <2>3, <2>4 DEF Kept
<1> QED
  BY <1>6, <1>7, <1>8 DEF t

-----------------------------------------------------------------------------
\* A step that leaves activations and a chain that are good keeps the invariant.
LEMMA StaysGood ==
  ASSUME IInv, status = "running", UNCHANGED <<program, status>>,
         Good(stack', chain', panicking', calls')
  PROVE  IInv'
<1>1. (Recovers' <=> Recovers) /\ (ReturnsPastBlocks' <=> ReturnsPastBlocks)
  BY DEF Recovers, Has, ReturnsPastBlocks
<1>2. Good(stack, chain, panicking, calls)'
  BY <1>1 DEF Good
<1>3. TypeOK'
  BY DEF IInv, TypeOK, Good, Basic, Frame, Buffers, Phases
<1>4. NoStrayJump'
  BY DEF NoStrayJump
<1> QED
  BY <1>2, <1>3, <1>4 DEF IInv

\* So does a stop, of which only two kinds say something of the program.
LEMMA StopsGood ==
  ASSUME IInv, status = "running", NEW how, Stop(how),
         how \in {"uncaught", "abort", "wild"},
         how = "wild" => Recovers, how = "abort" => ReturnsPastBlocks
  PROVE  IInv'
<1>1. (Recovers' <=> Recovers) /\ (ReturnsPastBlocks' <=> ReturnsPastBlocks)
  BY DEF Recovers, Has, ReturnsPastBlocks, Stop
<1>2. status' = how /\ UNCHANGED <<program, stack, chain, panicking, calls>>
  BY DEF Stop
<1>3. TypeOK' /\ program' \in Programs
  BY <1>2 DEF IInv, TypeOK
<1>4. NoStrayJump'
  BY <1>1, <1>2 DEF NoStrayJump
<1> QED
  BY <1>2, <1>3, <1>4 DEF IInv

\* The activation that runs.
LEMMA TopFacts ==
  ASSUME IInv, status = "running"
  PROVE  /\ calls \in Nat /\ panicking \in BOOLEAN
         /\ Len(stack) \in Nat \ {0} /\ Len(stack) \in DOMAIN stack
         /\ Top \in Frame(calls) /\ Top.fn \in 1 .. N /\ Body \in Code
         /\ Top.act \in Nat \ {0} /\ Top.pc \in Nat \ {0} /\ Top.at \in Nat
         /\ Top.entry \in Seq(Buffers(calls)) /\ Len(Top.entry) \in Nat
         /\ chain \in Seq(Buffers(calls))
         /\ Len(chain) \in Nat /\ DOMAIN chain = 1 .. Len(chain)
         /\ \A q \in DOMAIN chain : chain[q].act \in Nat /\ chain[q].of \in Nat
         /\ InPhase(Body, Top)
         /\ \A q \in DOMAIN chain :
              chain[q].act = Top.act => HasLinked(Body, Top, chain[q].of)
<1>1. Basic(program, stack, chain, calls) /\ panicking \in BOOLEAN
  BY DEF IInv, Good
<1>2. /\ calls \in Nat
      /\ Len(stack) \in Nat \ {0} /\ Len(stack) \in DOMAIN stack
      /\ Len(chain) \in Nat /\ DOMAIN chain = 1 .. Len(chain)
      /\ \A q \in DOMAIN chain : chain[q].act \in Nat /\ chain[q].of \in Nat
  BY <1>1, BasicTypes
<1>3. /\ Top \in Frame(calls) /\ Top.fn \in 1 .. N /\ Body \in Code
      /\ Top.act \in Nat \ {0} /\ Top.pc \in Nat \ {0} /\ Top.at \in Nat
      /\ Top.entry \in Seq(Buffers(calls)) /\ Len(Top.entry) \in Nat
  BY <1>1, <1>2, BasicTypes DEF Top, Body
<1>4. /\ chain \in Seq(Buffers(calls))
      /\ InPhase(Body, Top)
      /\ \A q \in DOMAIN chain :
           chain[q].act = Top.act => HasLinked(Body, Top, chain[q].of)
  BY <1>1, <1>2 DEF Basic, Top, Body
<1> QED
  BY <1>1, <1>2, <1>3, <1>4

\* ... while nobody recovers: what it has on the chain is at the head.
LEMMA TopUnrecovered ==
  ASSUME IInv, status = "running", ~Recovers
  PROVE  /\ Unwinds(Top) => panicking
         /\ \A q \in DOMAIN chain :
              /\ Live(chain[q], stack) /\ chain[q].act <= Top.act
              /\ chain[q].act = Top.act => MayHave(Body, Top, chain[q].of)
         /\ \A q, r \in DOMAIN chain : q < r /\ chain[r].act = Top.act =>
              chain[q].act = Top.act /\ chain[r].of < chain[q].of
<1>1. /\ Basic(program, stack, chain, calls)
      /\ Unrecovered(program, stack, chain, panicking)
  BY DEF IInv, Good
<1>2. /\ Len(stack) \in Nat \ {0} /\ Len(stack) \in DOMAIN stack
      /\ DOMAIN stack = 1 .. Len(stack)
      /\ \A k \in DOMAIN stack : stack[k].act \in Nat \ {0}
      /\ \A q \in DOMAIN chain : chain[q].act \in Nat
  BY <1>1, BasicTypes
<1>3. \A k \in DOMAIN stack : stack[k].act <= Top.act
  <2>1. \A k \in DOMAIN stack : k # Len(stack) => stack[k].act < Top.act
    BY <1>1, <1>2 DEF Basic, Top
  <2> QED
    BY <1>2, <2>1 DEF Top
<1>4. ASSUME NEW q \in DOMAIN chain
      PROVE  /\ Live(chain[q], stack) /\ chain[q].act <= Top.act
             /\ chain[q].act = Top.act => MayHave(Body, Top, chain[q].of)
  <2>1. Live(chain[q], stack)
    BY <1>1 DEF Unrecovered
  <2>2. chain[q].act <= Top.act
    BY <1>2, <1>3, <2>1 DEF Live, MainBuffer, Top
  <2> QED
    BY <1>1, <1>2, <2>1, <2>2 DEF Unrecovered, Top, Body
<1>5. ASSUME NEW q \in DOMAIN chain, NEW r \in DOMAIN chain, q < r,
             chain[r].act = Top.act
      PROVE  chain[q].act = Top.act /\ chain[r].of < chain[q].of
  <2>1. /\ chain[r].act <= chain[q].act
        /\ chain[q].act = chain[r].act /\ chain[q].act # 0 => chain[r].of < chain[q].of
    BY <1>1, <1>5 DEF Unrecovered, Sorted
  <2>2. chain[q].act = Top.act
    BY <1>2, <1>4, <1>5, <2>1
  <2>3. Top.act # 0
    BY <1>2 DEF Top
  <2> QED
    BY <1>5, <2>1, <2>2, <2>3
<1>6. Unwinds(Top) => panicking
  BY <1>1, <1>2 DEF Unrecovered, Top
<1> QED
  BY <1>4, <1>5, <1>6

\* ... and while no function returns past a block.
LEMMA TopKept ==
  ASSUME IInv, status = "running", ~ReturnsPastBlocks
  PROVE  /\ Len(chain) >= Len(Top.entry) + Owes(Body, Top)
         /\ Len(Top.entry) > 0
<1>1. /\ Basic(program, stack, chain, calls)
      /\ Kept(program, stack, chain)
  BY DEF IInv, Good
<1>2. Len(stack) \in DOMAIN stack
  BY <1>1, BasicTypes
<1>3. 0 < Len(Top.entry)
  BY <1>1, <1>2 DEF Kept, Keeps, Top
<1>4. Len(ChainOf(stack, chain, Len(stack))) >= Len(Top.entry) + Owes(Body, Top)
  BY <1>1, <1>2 DEF Kept, Top, Body
<1> QED
  BY <1>2, <1>3, <1>4, TopFacts DEF ChainOf

-----------------------------------------------------------------------------
\* What a frame is yet to take off can be counted.
LEMMA OwesType ==
  ASSUME NEW code \in Code, NEW f
  PROVE  Owes(code, f) \in Nat /\ Own(code) \in {0, 1}
  BY CountType DEF Owes, Own

\* The top activation goes on as g, with m buffers less on the chain.
LEMMA Pops ==
  ASSUME IInv, status = "running",
         NEW g \in Frame(calls), GoesOn(Top, g), InPhase(Body, g),
         NEW m \in Nat,
         ~Recovers =>
           /\ Unwinds(g) => panicking
           /\ \A q \in DOMAIN chain :
                q > m /\ chain[q].act = Top.act => MayHave(Body, g, chain[q].of),
         ~ReturnsPastBlocks => Len(chain) >= m + Len(Top.entry) + Owes(Body, g)
  PROVE  Good(Replaced(g), Unlinked(chain, m), panicking, calls)
<1>1. /\ GoesOn(stack[Len(stack)], g) /\ program[g.fn] = Body
      /\ g.act = Top.act /\ g.entry = Top.entry
  BY DEF GoesOn, Top, Body
<1>2. Replaced(g) = With(stack, g)
  BY DEF Replaced, With
<1>3. /\ Basic(program, stack, chain, calls) /\ panicking \in BOOLEAN
      /\ ~Recovers => Unrecovered(program, stack, chain, panicking)
      /\ ~ReturnsPastBlocks => Kept(program, stack, chain)
  BY DEF IInv, Good
<1>4. Basic(program, With(stack, g), Unlinked(chain, m), calls)
  BY <1>1, <1>3, PopBasic
<1>5. ASSUME ~Recovers
      PROVE  Unrecovered(program, With(stack, g), Unlinked(chain, m), panicking)
  BY <1>1, <1>3, <1>5, PopUnrecovered
<1>6. ASSUME ~ReturnsPastBlocks
      PROVE  Kept(program, With(stack, g), Unlinked(chain, m))
  <2>1. Owes(program[g.fn], g) \in Nat
    BY <1>1, TopFacts, OwesType
  <2> QED
    BY <1>1, <1>3, <1>6, <2>1, PopKept
<1> QED
  BY <1>2, <1>3, <1>4, <1>5, <1>6 DEF Good

\* The top activation goes on as g, the buffer of its statement i on the chain.
LEMMA Pushes ==
  ASSUME IInv, status = "running",
         NEW g \in Frame(calls), GoesOn(Top, g), InPhase(Body, g), g.phase = "body",
         NEW i \in Nat, HasLinked(Body, g, i),
         \A q \in DOMAIN chain : chain[q].act = Top.act => chain[q].of < i,
         ~ReturnsPastBlocks =>
           /\ Len(chain) >= Len(Top.entry) + Count(Body, i + 1)
           /\ Len(chain) + 1 >= Len(Top.entry) + Owes(Body, g)
  PROVE  Good(Replaced(g), <<Buffer(i)>> \o chain, panicking, calls)
<1>1. /\ GoesOn(stack[Len(stack)], g) /\ program[g.fn] = Body
      /\ g.act = Top.act /\ g.entry = Top.entry
  BY DEF GoesOn, Top, Body
<1>2. Replaced(g) = With(stack, g)
  BY DEF Replaced, With
<1>3. /\ Basic(program, stack, chain, calls) /\ panicking \in BOOLEAN
      /\ ~Recovers => Unrecovered(program, stack, chain, panicking)
      /\ ~ReturnsPastBlocks => Kept(program, stack, chain)
  BY DEF IInv, Good
<1>4. Buffer(i) \in Buffers(calls) /\ Buffer(i).act = g.act /\ Buffer(i).of = i
  <2>1. Top.act \in 0 .. calls
    BY TopFacts DEF Frame
  <2> QED
    BY <1>1, <2>1 DEF Buffer, Buffers
<1>5. Basic(program, With(stack, g), <<Buffer(i)>> \o chain, calls)
  BY <1>1, <1>3, <1>4, PushBasic
<1>6. ASSUME ~Recovers
      PROVE  Unrecovered(program, With(stack, g), <<Buffer(i)>> \o chain, panicking)
  BY <1>1, <1>3, <1>4, <1>6, PushUnrecovered
<1>7. ASSUME ~ReturnsPastBlocks
      PROVE  Kept(program, With(stack, g), <<Buffer(i)>> \o chain)
  BY <1>1, <1>3, <1>4, <1>7, PushKept
<1> QED
  BY <1>2, <1>3, <1>5, <1>6, <1>7 DEF Good

-----------------------------------------------------------------------------
\* The ways on from frame and c, good for the top activation and the chain.
LEMMA ContinueGood ==
  ASSUME IInv, status = "running", NEW frame, NEW c, Continue(frame, c),
         Good(Replaced(frame), c, panicking, calls)
  PROVE  IInv'
<1>1. /\ stack' = Replaced(frame) /\ chain' = c
      /\ UNCHANGED <<program, panicking, calls, status>>
  BY DEF Continue
<1>2. Good(stack', chain', panicking', calls')
  BY <1>1
<1> QED
  BY <1>1, <1>2, StaysGood

\* recover() is only called in programs that recover.
LEMMA RecoverGood ==
  ASSUME IInv, status = "running", NEW frame, NEW c, Recover(frame, c), Recovers,
         Good(Replaced(frame), c, panicking, calls)
  PROVE  IInv'
<1>1. /\ stack' = Replaced(frame) /\ chain' = c /\ panicking' = FALSE
      /\ UNCHANGED <<program, calls, status>>
  BY DEF Recover
<1>2. Good(stack', chain', panicking', calls')
  BY <1>1 DEF Good
<1> QED
  BY <1>1, <1>2, StaysGood

\* A function that calls another is not the last.
LEMMA CallerIsNotLast ==
  ASSUME IInv, status = "running", NEW i \in DOMAIN Body, Body[i] \in Calling
  PROVE  Top.fn + 1 \in 1 .. N
<1>1. program \in Programs /\ Top.fn \in 1 .. N /\ Body \in Code
  BY TopFacts DEF IInv
<1>2. Top.fn # N
  BY <1>1, CallAssumption DEF Body, Code
<1> QED
  BY <1>1, <1>2, NAssumption

\* A call.
LEMMA CallGood ==
  ASSUME IInv, status = "running", NEW frame, NEW c, CallNext(frame, c),
         frame.fn + 1 \in 1 .. N,
         Good(Replaced(frame), c, panicking, calls)
  PROVE  IInv'
<1> DEFINE s == Replaced(frame)
           t == Append(s, Called(frame.fn + 1, c, calls))
<1>1. /\ stack' = t /\ chain' = c /\ calls' = calls + 1
      /\ UNCHANGED <<program, panicking, status>>
  BY DEF CallNext, Activation, Called
<1>2. /\ Basic(program, s, c, calls) /\ panicking \in BOOLEAN
      /\ ~Recovers => Unrecovered(program, s, c, panicking)
      /\ ~ReturnsPastBlocks => Kept(program, s, c)
  BY DEF Good
<1> HIDE DEF s
<1>3. /\ Basic(program, t, c, calls + 1)
      /\ ~Recovers => Unrecovered(program, t, c, panicking)
      /\ ~ReturnsPastBlocks => Kept(program, t, c)
  BY <1>2, CallBasic, CallUnrecovered, CallKept
<1>4. Good(stack', chain', panicking', calls')
  BY <1>1, <1>2, <1>3 DEF Good
<1> QED
  BY <1>1, <1>4, StaysGood

\* Where a longjmp leads: out of the program, or to the frame that linked the
\* head of the chain.
LEMMA JumpOutcome ==
  ASSUME status = "running", NEW P, NEW s, NEW c, NEW n, Basic(P, s, c, n), LongJmp(s, c)
  PROVE  \/ c = <<>> /\ Stop("abort")
         \/ c # <<>> /\ c[1] = MainBuffer /\ Stop("uncaught")
         \/ c # <<>> /\ ~Live(c[1], s) /\ Stop("wild")
         \/ /\ c # <<>> /\ chain' = c /\ panicking' = TRUE
            /\ UNCHANGED <<program, calls, status>>
            /\ \E k \in DOMAIN s : /\ s[k].act = c[1].act
                                   /\ CaughtAt(stack', s, k, c[1].of, n)
<1>1. /\ DOMAIN s = 1 .. Len(s) /\ Len(c) \in Nat /\ DOMAIN c = 1 .. Len(c)
      /\ s \in Seq(Frame(n)) /\ c \in Seq(Buffers(n))
  BY BasicTypes DEF Basic
<1>2. CASE c = <<>>
  BY <1>2 DEF LongJmp
<1>3. c # <<>> => 1 \in DOMAIN c /\ Head(c) = c[1]
  BY <1>1
<1>4. CASE c # <<>> /\ Head(c) = MainBuffer
  BY <1>3, <1>4 DEF LongJmp
<1>5. CASE c # <<>> /\ Head(c) # MainBuffer /\ ~Live(Head(c), s)
  BY <1>3, <1>5 DEF LongJmp
<1>6. CASE c # <<>> /\ Head(c) # MainBuffer /\ Live(Head(c), s)
  <2> DEFINE k == CHOOSE k \in 1 .. Len(s) : s[k].act = Head(c).act
             t == [SubSeq(s, 1, k) EXCEPT ![k].phase = "caught", ![k].at = Head(c).of]
  <2>1. 1 \in DOMAIN c /\ Head(c) = c[1] /\ c[1].of \in Nat
    BY <1>1, <1>3, <1>6, BasicTypes
  <2>2. \E j \in 1 .. Len(s) : s[j].act = Head(c).act
    BY <1>6 DEF Live
  <2>3. k \in DOMAIN s /\ s[k].act = c[1].act
    BY <1>1, <2>1, <2>2
  <2>4. /\ stack' = t /\ chain' = c /\ panicking' = TRUE
        /\ UNCHANGED <<program, calls, status>>
    BY <1>6 DEF LongJmp
  <2> HIDE DEF k
  <2>5. CaughtAt(t, s, k, c[1].of, n)
    BY <1>1, <2>1, <2>3, CaughtFacts
  <2> HIDE DEF t
  <2> QED
    BY <1>6, <2>3, <2>4, <2>5
<1> QED
  BY <1>2, <1>4, <1>5, <1>6

\* longjmp, from activations s that are good with the chain c.
LEMMA JumpGood ==
  ASSUME IInv, status = "running", NEW s, NEW c, LongJmp(s, c),
         Good(s, c, panicking, calls)
  PROVE  IInv'
<1>1. /\ Basic(program, s, c, calls)
      /\ ~Recovers => Unrecovered(program, s, c, panicking)
      /\ ~ReturnsPastBlocks => Kept(program, s, c)
  BY DEF Good
<1>2. /\ 1 \in DOMAIN s /\ Len(c) \in Nat /\ DOMAIN c = 1 .. Len(c)
      /\ \A k \in DOMAIN s : Len(s[k].entry) \in Nat
  BY <1>1, BasicTypes
<1>3. CASE c = <<>> /\ Stop("abort")
  <2>1. ReturnsPastBlocks
    <3> SUFFICES ASSUME ~ReturnsPastBlocks PROVE FALSE
      OBVIOUS
    <3>1. 0 < Len(s[1].entry) /\ Len(s[1].entry) <= Len(c)
      BY <1>1, <1>2 DEF Kept, Keeps
    <3> QED
      BY <1>2, <1>3, <3>1
  <2> QED
    BY <1>3, <2>1, StopsGood
<1>4. CASE Stop("uncaught")
  BY <1>4, StopsGood
<1>5. CASE c # <<>> /\ ~Live(c[1], s) /\ Stop("wild")
  <2>1. 1 \in DOMAIN c
    BY <1>1, <1>5 DEF Basic
  <2>2. Recovers
    BY <1>1, <1>5, <2>1 DEF Unrecovered
  <2> QED
    BY <1>5, <2>2, StopsGood
<1>6. ASSUME c # <<>>, chain' = c, panicking' = TRUE, UNCHANGED <<program, calls, status>>,
             NEW k \in DOMAIN s, s[k].act = c[1].act, CaughtAt(stack', s, k, c[1].of, calls)
      PROVE  IInv'
  <2>1. /\ Basic(program, stack', c, calls)
        /\ ~Recovers => Unrecovered(program, stack', c, TRUE)
        /\ ~ReturnsPastBlocks => Kept(program, stack', c)
    BY <1>1, <1>6, CaughtBasic, CaughtUnrecovered, CaughtKept
  <2>2. Good(stack', chain', panicking', calls')
    BY <1>6, <2>1 DEF Good
  <2> QED
    BY <1>6, <2>2, StaysGood
<1> QED
  BY <1>1, <1>3, <1>4, <1>5, <1>6, JumpOutcome

\* The block of a deferred action, from a frame and a chain that are good.
LEMMA RunBlockGood ==
  ASSUME IInv, status = "running", NEW i \in DOMAIN Body, NEW frame, NEW c,
         RunBlock(i, frame, c), frame.fn = Top.fn,
         Good(Replaced(frame), c, panicking, calls)
  PROVE  IInv'
<1>1. CASE Continue(frame, c)
  BY <1>1, ContinueGood
<1>2. CASE Body[i] = "blockCalls" /\ CallNext(frame, c)
  <2>1. frame.fn + 1 \in 1 .. N
    BY <1>2, CallerIsNotLast DEF Calling
  <2> QED
    BY <1>2, <2>1, CallGood
<1>3. CASE LongJmp(Replaced(frame), c)
  BY <1>3, JumpGood
<1>4. CASE Body[i] = "blockRecovers" /\ Recover(frame, c)
  <2>1. Top.fn \in 1 .. N /\ DOMAIN Body = 1 .. Len(Body)
    BY TopFacts DEF Code
  <2>2. Recovers
    BY <1>4, <2>1 DEF Recovers, Has, Body
  <2> QED
    BY <1>4, <2>2, RecoverGood
<1> QED
  BY <1>1, <1>2, <1>3, <1>4 DEF RunBlock

\* Only a program that recovers reads a buffer of a frame that is gone.
LEMMA ReadsLive ==
  ASSUME IInv, status = "running", NEW m, ~UnlinkReadsLive(chain, m), Stop("wild")
  PROVE  IInv'
<1>1. Recovers
  BY TopFacts, TopUnrecovered DEF UnlinkReadsLive
<1> QED
  BY <1>1, StopsGood

-----------------------------------------------------------------------------
\* The body.  Entering a function, with a buffer of its own ...
LEMMA EnterGood == ASSUME IInv, Enter PROVE IInv'
<1> DEFINE g == [Top EXCEPT !.phase = "body"]
<1>1. status = "running" /\ Top.phase = "entry"
  BY DEF Enter, Running
<1>2. /\ g \in Frame(calls) /\ GoesOn(Top, g) /\ g.phase = "body" /\ g.pc = 1
      /\ InPhase(Body, g)
  <2>1. /\ Top \in Frame(calls) /\ Top.pc \in Nat /\ Top.pc = 1
        /\ Top.pc <= Len(Body) + 1
    BY <1>1, TopFacts DEF InPhase
  <2>2. /\ g \in Frame(calls) /\ g.phase = "body"
        /\ g.fn = Top.fn /\ g.act = Top.act /\ g.entry = Top.entry /\ g.pc = Top.pc
    BY <2>1 DEF Frame, Phases
  <2> HIDE DEF g
  <2> QED
    BY <2>1, <2>2 DEF GoesOn, InPhase
<1>3. \A q \in DOMAIN chain : chain[q].act # Top.act
  BY <1>1, TopFacts DEF HasLinked
<1>4. Body \in Code /\ Count(Body, 1) = 0 /\ chain \in Seq(Buffers(calls))
  BY <1>1, TopFacts, CountNone
<1>5. Owes(Body, Top) = 0 /\ Owes(Body, g) = Own(Body)
  BY <1>1, <1>2, <1>4 DEF Owes, Own
<1>6. Continue(g, (IF HasHandler(Body) THEN <<Buffer(0)>> ELSE <<>>) \o chain)
  BY DEF Enter
<1>7. ~ReturnsPastBlocks => Len(chain) >= Len(Top.entry)
  BY <1>1, <1>5, TopKept, TopFacts
<1> HIDE DEF g
<1>8. CASE HasHandler(Body)
  <2>1. HasLinked(Body, g, 0)
    BY <1>2, <1>8 DEF HasLinked
  <2>2. Own(Body) = 1 /\ Len(chain) \in Nat /\ Len(Top.entry) \in Nat
    BY <1>1, <1>8, TopFacts DEF Own
  <2>3. ~ReturnsPastBlocks =>
          /\ Len(chain) >= Len(Top.entry) + Count(Body, 0 + 1)
          /\ Len(chain) + 1 >= Len(Top.entry) + Owes(Body, g)
    BY <1>4, <1>5, <1>7, <2>2
  <2>4. Good(Replaced(g), <<Buffer(0)>> \o chain, panicking, calls)
    BY <1>1, <1>2, <1>3, <2>1, <2>3, Pushes
  <2> QED
    BY <1>1, <1>6, <1>8, <2>4, ContinueGood
\* ... and without.
<1>9. CASE ~HasHandler(Body)
  <2>1. <<>> \o chain = chain /\ Unlinked(chain, 0) = chain
    BY <1>4 DEF Unlinked
  <2>2. Own(Body) = 0 /\ Len(chain) \in Nat /\ Len(Top.entry) \in Nat
    BY <1>1, <1>9, TopFacts DEF Own
  <2>3. ~ReturnsPastBlocks => Len(chain) >= 0 + Len(Top.entry) + Owes(Body, g)
    BY <1>5, <1>7, <2>2
  <2>4. ~Unwinds(g)
    BY <1>2 DEF Unwinds
  <2>5. Good(Replaced(g), Unlinked(chain, 0), panicking, calls)
    BY <1>1, <1>2, <1>3, <2>3, <2>4, Pops
  <2> QED
    BY <1>1, <1>6, <1>9, <2>1, <2>5, ContinueGood
<1> QED
  BY <1>8, <1>9

\* A frame with its counter one further on, its other fields as they were.
LEMMA SteppedFrame ==
  ASSUME NEW n, NEW f \in Frame(n)
  PROVE  LET g == [f EXCEPT !.pc = f.pc + 1]
         IN  /\ g \in Frame(n) /\ g.pc = f.pc + 1 /\ g.phase = f.phase
             /\ g.fn = f.fn /\ g.act = f.act /\ g.entry = f.entry
             /\ g.ran = f.ran
<1> DEFINE g == [f EXCEPT !.pc = f.pc + 1]
<1>1. f.pc + 1 \in Nat \ {0}
  BY DEF Frame
<1>2. /\ g.pc = f.pc + 1 /\ g.phase = f.phase /\ g.fn = f.fn
      /\ g.act = f.act /\ g.entry = f.entry /\ g.ran = f.ran
  BY DEF Frame
<1>3. g \in Frame(n)
  BY <1>1 DEF Frame
<1> QED
  BY <1>2, <1>3

\* The statement a body is at, and the frame that has gone past it.
LEMMA PastFacts ==
  ASSUME IInv, NEW K, Statement(K)
  PROVE  /\ status = "running" /\ Top.phase = "body"
         /\ Top.pc \in DOMAIN Body /\ Body[Top.pc] \in K
         /\ Past \in Frame(calls) /\ GoesOn(Top, Past) /\ InPhase(Body, Past)
         /\ Past.fn = Top.fn /\ Past.phase = "body" /\ Past.pc = Top.pc + 1
         /\ Past.ran = Top.ran
         /\ Owes(Body, Top) = Own(Body) + Count(Body, Top.pc)
         /\ Owes(Body, Past) = Own(Body) + Count(Body, Top.pc + 1)
<1>1. /\ status = "running" /\ Top.phase = "body"
      /\ Top.pc <= Len(Body) /\ Body[Top.pc] \in K
  BY DEF Statement, Running
<1>2. Top \in Frame(calls) /\ Top.pc \in Nat \ {0} /\ Body \in Code
  BY <1>1, TopFacts
<1>3. Top.pc \in DOMAIN Body /\ Len(Body) \in Nat
  BY <1>1, <1>2 DEF Code
<1>4. /\ Past \in Frame(calls) /\ Past.phase = "body" /\ Past.pc = Top.pc + 1
      /\ Past.fn = Top.fn /\ Past.act = Top.act /\ Past.entry = Top.entry
      /\ Past.ran = Top.ran
  BY <1>1, <1>2, SteppedFrame DEF Past
<1>5. GoesOn(Top, Past) /\ InPhase(Body, Past)
  BY <1>1, <1>2, <1>3, <1>4 DEF GoesOn, InPhase
<1> QED
  BY <1>1, <1>3, <1>4, <1>5 DEF Owes

\* Past a statement that links nothing.
LEMMA PastGood ==
  ASSUME IInv, NEW K, Statement(K), K \cap Blocks = {}
  PROVE  Good(Replaced(Past), chain, panicking, calls)
<1>1. /\ status = "running"
      /\ Top.pc \in DOMAIN Body /\ Body[Top.pc] \in K
      /\ Past \in Frame(calls) /\ GoesOn(Top, Past) /\ InPhase(Body, Past)
      /\ Past.phase = "body"
      /\ Owes(Body, Top) = Own(Body) + Count(Body, Top.pc)
      /\ Owes(Body, Past) = Own(Body) + Count(Body, Top.pc + 1)
  BY PastFacts
<1>2. Owes(Body, Past) = Owes(Body, Top) /\ Owes(Body, Past) \in Nat
  BY <1>1, TopFacts, CountNext, OwesType
<1>3. ~Unwinds(Past) /\ \A i : MayHave(Body, Past, i)
  BY <1>1 DEF Unwinds, MayHave
<1>4. ~ReturnsPastBlocks => Len(chain) >= 0 + Len(Top.entry) + Owes(Body, Past)
  BY <1>1, <1>2, TopKept, TopFacts
<1>5. Good(Replaced(Past), Unlinked(chain, 0), panicking, calls)
  BY <1>1, <1>3, <1>4, Pops
<1>6. Unlinked(chain, 0) = chain
  BY <1>1, TopFacts DEF Unlinked
<1> QED
  BY <1>5, <1>6

\* A destructor or a deferred call is only noted.
LEMMA RegisterGood == ASSUME IInv, Register PROVE IInv'
<1>1. Statement({"destructible", "deferCall"}) /\ Continue(Past, chain)
  BY DEF Register
<1>2. {"destructible", "deferCall"} \cap Blocks = {}
  BY DEF Blocks
<1> QED
  BY <1>1, <1>2, PastFacts, PastGood, ContinueGood

\* A condition that is false moves the body past its statement.
LEMMA SkipStatementGood == ASSUME IInv, SkipStatement PROVE IInv'
<1>1. Statement({"panic", "return"}) /\ Continue(Past, chain)
  BY DEF SkipStatement
<1>2. {"panic", "return"} \cap Blocks = {}
  BY DEF Blocks
<1> QED
  BY <1>1, <1>2, PastFacts, PastGood, ContinueGood

\* A call leaves the caller past the statement.
LEMMA CallStatementGood == ASSUME IInv, CallStatement PROVE IInv'
<1>1. Statement({"call"}) /\ CallNext(Past, chain)
  BY DEF CallStatement
<1>2. {"call"} \cap Blocks = {}
  BY DEF Blocks
<1>3. Good(Replaced(Past), chain, panicking, calls)
  BY <1>1, <1>2, PastGood
<1>4. status = "running" /\ Past.fn = Top.fn /\ Top.pc \in DOMAIN Body /\ Body[Top.pc] = "call"
  BY <1>1, PastFacts
<1>5. Past.fn + 1 \in 1 .. N
  BY <1>4, CallerIsNotLast DEF Calling
<1> QED
  BY <1>1, <1>3, <1>4, <1>5, CallGood

\* A panic jumps from where the activations and the chain are.
LEMMA PanicStatementGood == ASSUME IInv, PanicStatement PROVE IInv'
<1>1. Statement({"panic"}) /\ LongJmp(stack, chain)
  BY DEF PanicStatement
<1>2. status = "running"
  BY <1>1, PastFacts
<1> QED
  BY <1>1, <1>2, JumpGood DEF IInv

\* A deferred block's buffer is of a later statement than those linked before.
LEMMA DeferBlockGood == ASSUME IInv, DeferBlock PROVE IInv'
<1>1. Statement(Blocks) /\ Continue(Past, <<Buffer(Top.pc)>> \o chain)
  BY DEF DeferBlock
<1>2. /\ status = "running" /\ Top.phase = "body"
      /\ Top.pc \in DOMAIN Body /\ Body[Top.pc] \in Blocks
      /\ Past \in Frame(calls) /\ GoesOn(Top, Past) /\ InPhase(Body, Past)
      /\ Past.phase = "body" /\ Past.pc = Top.pc + 1
      /\ Owes(Body, Top) = Own(Body) + Count(Body, Top.pc)
      /\ Owes(Body, Past) = Own(Body) + Count(Body, Top.pc + 1)
  BY <1>1, PastFacts
<1>3. Top.pc \in Nat \ {0} /\ Body \in Code /\ DOMAIN Body = 1 .. Len(Body)
  BY <1>2, TopFacts DEF Code
<1>4. HasHandler(Body)
  BY <1>2, <1>3 DEF HasHandler, Deferred
<1>5. HasLinked(Body, Past, Top.pc)
  BY <1>2, <1>3, <1>4 DEF HasLinked
<1>6. \A q \in DOMAIN chain : chain[q].act = Top.act => chain[q].of < Top.pc
  BY <1>2, <1>3, TopFacts DEF HasLinked
<1>7. /\ Own(Body) = 1 /\ Count(Body, Top.pc) \in Nat
      /\ Count(Body, Top.pc + 1) = Count(Body, Top.pc) + 1
  BY <1>2, <1>3, <1>4, CountType, CountNext DEF Own
<1>8. Len(chain) \in Nat /\ Len(Top.entry) \in Nat
  BY <1>2, TopFacts
<1>9. ~ReturnsPastBlocks =>
        /\ Len(chain) >= Len(Top.entry) + Count(Body, Top.pc + 1)
        /\ Len(chain) + 1 >= Len(Top.entry) + Owes(Body, Past)
  <2>1. ~ReturnsPastBlocks => Len(chain) >= Len(Top.entry) + (1 + Count(Body, Top.pc))
    BY <1>2, <1>7, TopKept
  <2> QED
    BY <1>2, <1>7, <1>8, <2>1
<1>10. Good(Replaced(Past), <<Buffer(Top.pc)>> \o chain, panicking, calls)
  BY <1>2, <1>3, <1>5, <1>6, <1>9, Pushes
<1> QED
  BY <1>1, <1>2, <1>10, ContinueGood

-----------------------------------------------------------------------------
\* A frame on its way out whose next action is the last before statement i.
LEMMA ExitFacts ==
  ASSUME NEW code \in Code, NEW i \in Nat,
         NEW f, f.phase = "exit", f.at = LastBefore(code, i, Deferred)
  PROVE  /\ Owes(code, f) = Count(code, i)
         /\ \A j : MayHave(code, f, j) <=> j < LastBefore(code, i, Blocks)
         /\ f.at = 0 \/ At(code, f, Deferred)
         /\ ~Unwinds(f)
<1>1. Owes(code, f) = Count(code, i)
  BY CountToDeferred DEF Owes
<1>2. \A j : MayHave(code, f, j) <=> j < LastBefore(code, i, Blocks)
  BY LastBlockOfDeferred DEF MayHave
<1>3. f.at = 0 \/ At(code, f, Deferred)
  BY LastBeforeFacts DEF At
<1> QED
  BY <1>1, <1>2, <1>3 DEF Unwinds

\* The frame that leaves its body for the destruct block.
Leaving ==
  [Top EXCEPT !.phase = "exit", !.at = LastBefore(Body, Len(Body) + 1, Deferred)]

LEMMA LeavingFacts ==
  ASSUME IInv, Running("body")
  PROVE  /\ Leaving \in Frame(calls) /\ GoesOn(Top, Leaving) /\ InPhase(Body, Leaving)
         /\ Leaving.fn = Top.fn /\ Leaving.act = Top.act
         /\ Leaving.phase = "exit" /\ Leaving.ran = Top.ran
         /\ Leaving.at = LastBefore(Body, Len(Body) + 1, Deferred)
         /\ Owes(Body, Leaving) = Count(Body, Len(Body) + 1)
         /\ \A j : MayHave(Body, Leaving, j) <=> j < LastBefore(Body, Len(Body) + 1, Blocks)
         /\ ~Unwinds(Leaving)
<1>1. status = "running" /\ Top.phase = "body"
  BY DEF Running
<1>2. Top \in Frame(calls) /\ Top.pc \in Nat /\ Body \in Code /\ Len(Body) + 1 \in Nat
      /\ Top.pc <= Len(Body) + 1
  BY <1>1, TopFacts DEF InPhase, Code
<1>3. LastBefore(Body, Len(Body) + 1, Deferred) \in Nat
  BY <1>2, LastBeforeFacts
<1>4. /\ Leaving \in Frame(calls) /\ Leaving.phase = "exit"
      /\ Leaving.at = LastBefore(Body, Len(Body) + 1, Deferred)
      /\ Leaving.pc = Top.pc
      /\ Leaving.fn = Top.fn /\ Leaving.act = Top.act /\ Leaving.entry = Top.entry
      /\ Leaving.ran = Top.ran
  BY <1>2, <1>3 DEF Leaving, Frame, Phases
<1>5. GoesOn(Top, Leaving)
  BY <1>2, <1>4 DEF GoesOn
<1>6. /\ Owes(Body, Leaving) = Count(Body, Len(Body) + 1)
      /\ \A j : MayHave(Body, Leaving, j) <=> j < LastBefore(Body, Len(Body) + 1, Blocks)
      /\ Leaving.at = 0 \/ At(Body, Leaving, Deferred)
      /\ ~Unwinds(Leaving)
  BY <1>2, <1>4, ExitFacts
<1>7. InPhase(Body, Leaving)
  BY <1>2, <1>4, <1>6 DEF InPhase
<1> QED
  BY <1>4, <1>5, <1>6, <1>7

\* Leaving is good if what stays on the chain is as the destruct block expects.
LEMMA LeaveBodyGood ==
  ASSUME IInv, Running("body"), NEW m \in Nat, LeaveBody(m),
         ~Recovers =>
           \A q \in DOMAIN chain :
             q > m + Own(Body) /\ chain[q].act = Top.act
               => chain[q].of < LastBefore(Body, Len(Body) + 1, Blocks),
         ~ReturnsPastBlocks =>
           Len(chain) >= m + Own(Body) + Len(Top.entry) + Count(Body, Len(Body) + 1)
  PROVE  IInv'
<1>1. status = "running"
  BY DEF Running
<1>2. Own(Body) \in Nat /\ Own(Body) = IF HasHandler(Body) THEN 1 ELSE 0
  BY DEF Own
<1>3. IF UnlinkReadsLive(chain, m + Own(Body))
        THEN Continue(Leaving, Unlinked(chain, m + Own(Body)))
        ELSE Stop("wild")
  BY DEF LeaveBody, Unlink, Leaving, Own
<1>4. Good(Replaced(Leaving), Unlinked(chain, m + Own(Body)), panicking, calls)
  <2>1. m + Own(Body) \in Nat
    BY <1>2
  <2>2. ~ReturnsPastBlocks =>
          Len(chain) >= (m + Own(Body)) + Len(Top.entry) + Owes(Body, Leaving)
    BY LeavingFacts
  <2> QED
    BY <1>1, <2>1, <2>2, LeavingFacts, Pops
<1> QED
  BY <1>1, <1>3, <1>4, ContinueGood, ReadsLive

\* Falling off the end unlinks one buffer: that of the last block, if any, and
\* what is left is of earlier ones.
LEMMA FallOffGood == ASSUME IInv, FallOff PROVE IInv'
<1>1. Running("body") /\ Top.pc > Len(Body) /\ LeaveBody(0)
  BY DEF FallOff
<1>2. status = "running" /\ Top.phase = "body"
  BY <1>1 DEF Running
<1>3. /\ Body \in Code /\ DOMAIN Body = 1 .. Len(Body) /\ Len(Body) \in Nat
      /\ Top.pc = Len(Body) + 1 /\ Len(chain) \in Nat /\ Len(Top.entry) \in Nat
  BY <1>1, <1>2, TopFacts DEF InPhase, Code
<1>4. ASSUME ~Recovers, NEW q \in DOMAIN chain,
             q > 0 + Own(Body), chain[q].act = Top.act
      PROVE  chain[q].of < LastBefore(Body, Len(Body) + 1, Blocks)
  <2>1. HasHandler(Body)
    BY <1>2, <1>4, TopFacts DEF HasLinked
  <2>2. 1 \in DOMAIN chain /\ 1 < q
    BY <1>2, <1>4, <2>1, TopFacts DEF Own
  <2>3. chain[1].act = Top.act /\ chain[q].of < chain[1].of
    BY <1>2, <1>4, <2>2, TopUnrecovered
  <2>4. chain[q].of \in Nat /\ chain[1].of \in Nat
    BY <1>2, <2>2, TopFacts
  <2>5. chain[1].of \in DOMAIN Body /\ Body[chain[1].of] \in Blocks
    BY <1>2, <2>2, <2>3, <2>4, TopFacts, SMTT(30) DEF HasLinked
  <2>6. chain[1].of <= LastBefore(Body, Len(Body) + 1, Blocks)
    BY <1>3, <2>5, LastBeforeFacts
  <2>7. LastBefore(Body, Len(Body) + 1, Blocks) \in Nat
    BY <1>3, LastBeforeFacts
  <2> QED
    BY <2>3, <2>4, <2>6, <2>7
<1>5. ASSUME ~ReturnsPastBlocks
      PROVE  Len(chain) >= 0 + Own(Body) + Len(Top.entry) + Count(Body, Len(Body) + 1)
  <2>1. Len(chain) >= Len(Top.entry) + (Own(Body) + Count(Body, Len(Body) + 1))
    BY <1>2, <1>3, <1>5, TopKept DEF Owes
  <2>2. Own(Body) \in Nat /\ Count(Body, Len(Body) + 1) \in Nat
    BY <1>3, CountType DEF Own
  <2> QED
    BY <1>3, <2>1, <2>2
<1> QED
  BY <1>1, <1>4, <1>5, LeaveBodyGood

\* While nobody recovers, a body has at most as many buffers on the chain as it
\* has linked: they are at the head, each of another statement.
LEMMA OwnAreFew ==
  ASSUME IInv, Running("body"), ~Recovers,
         NEW q \in DOMAIN chain, chain[q].act = Top.act
  PROVE  HasHandler(Body) /\ q <= Count(Body, Top.pc) + 1
<1> DEFINE B == BlocksBefore(Body, Top.pc)
           h == [i \in 1 .. q |-> chain[i].of]
<1>1. status = "running" /\ Top.phase = "body"
  BY DEF Running
<1>2. /\ Body \in Code /\ DOMAIN Body = 1 .. Len(Body)
      /\ q \in Nat \ {0} /\ DOMAIN chain = 1 .. Len(chain) /\ Len(chain) \in Nat
  BY <1>1, TopFacts DEF Code
<1>3. \A i \in 1 .. q : i \in DOMAIN chain /\ chain[i].of \in Nat
  BY <1>1, <1>2, TopFacts
<1>4. \A i \in 1 .. q : chain[i].act = Top.act
  <2> SUFFICES ASSUME NEW i \in 1 .. q, i # q PROVE chain[i].act = Top.act
    OBVIOUS
  <2>1. i \in DOMAIN chain /\ i < q
    BY <1>2, <1>3
  <2> QED
    BY <1>1, <2>1, TopUnrecovered
<1>5. ASSUME NEW i \in 1 .. q
      PROVE  HasHandler(Body) /\ h[i] \in B \cup {0}
  <2>1. HasLinked(Body, Top, chain[i].of)
    BY <1>1, <1>3, <1>4, TopFacts
  <2> QED
    BY <1>2, <2>1 DEF HasLinked, BlocksBefore
<1>6. ASSUME NEW i \in 1 .. q, NEW j \in 1 .. q, i < j
      PROVE  h[i] # h[j]
  <2>1. chain[j].of < chain[i].of
    BY <1>1, <1>3, <1>4, <1>6, TopUnrecovered
  <2> QED
    BY <1>3, <2>1
<1>7. /\ IsFiniteSet(B \cup {0}) /\ Cardinality(B \cup {0}) = Count(Body, Top.pc) + 1
      /\ Count(Body, Top.pc) \in Nat
  <2>1. 0 \notin B
    BY DEF BlocksBefore
  <2>2. IsFiniteSet(B) /\ Count(Body, Top.pc) \in Nat
    BY <1>2, CountType
  <2> QED
    BY <2>1, <2>2, FS_AddElement DEF Count
<1>8. IsFiniteSet(1 .. q) /\ Cardinality(1 .. q) = q
  BY <1>2, FS_Interval
<1>9. h \in [1 .. q -> B \cup {0}]
  BY <1>5
<1> HIDE DEF h, B
<1>10. \A i, j \in 1 .. q : i # j => h[i] # h[j]
  BY <1>2, <1>6
<1>11. ~ (Cardinality(B \cup {0}) < Cardinality(1 .. q))
  <2> SUFFICES ASSUME Cardinality(B \cup {0}) < Cardinality(1 .. q) PROVE FALSE
    OBVIOUS
  <2>1. \E i, j \in 1 .. q : i # j /\ h[i] = h[j]
    <3> DEFINE S == 1 .. q
               T == B \cup {0}
    <3>1. /\ IsFiniteSet(S) /\ IsFiniteSet(T) /\ Cardinality(T) < Cardinality(S)
          /\ h \in [S -> T]
      BY <1>7, <1>8, <1>9
    <3> HIDE DEF S, T
    <3>2. \E i, j \in S : i # j /\ h[i] = h[j]
      BY <3>1, FS_PigeonHole
    <3> QED
      BY <3>2 DEF S
  <2> QED
    BY <1>10, <2>1
<1>12. q \in 1 .. q
  BY <1>2
<1> QED
  BY <1>2, <1>5, <1>7, <1>8, <1>11, <1>12

\* return unlinks a buffer for each block further up and that of the function:
\* all that the body can have linked.
LEMMA ReturnStatementGood == ASSUME IInv, ReturnStatement PROVE IInv'
<1> DEFINE m == Cardinality({i \in 1 .. Top.pc - 1 : Body[i] \in Blocks})
<1>1. Statement({"return"}) /\ LeaveBody(m)
  BY DEF ReturnStatement
<1>2. /\ status = "running" /\ Top.phase = "body" /\ Running("body")
      /\ Top.pc \in DOMAIN Body /\ Body[Top.pc] = "return"
      /\ Owes(Body, Top) = Own(Body) + Count(Body, Top.pc)
  BY <1>1, PastFacts DEF Statement
<1>3. /\ Body \in Code /\ DOMAIN Body = 1 .. Len(Body) /\ Len(Body) \in Nat
      /\ Top.fn \in 1 .. N /\ Top.pc \in Nat \ {0}
      /\ Len(chain) \in Nat /\ Len(Top.entry) \in Nat
  BY <1>2, TopFacts DEF Code
<1>4. m = Count(Body, Top.pc) /\ m \in Nat
  <2>1. {i \in 1 .. Top.pc - 1 : Body[i] \in Blocks} = BlocksBefore(Body, Top.pc)
    BY <1>2, <1>3 DEF BlocksBefore
  <2> QED
    BY <1>3, <2>1, CountType DEF Count
<1> HIDE DEF m
<1>5. ASSUME ~Recovers, NEW q \in DOMAIN chain,
             q > m + Own(Body), chain[q].act = Top.act
      PROVE  FALSE
  <2>1. HasHandler(Body) /\ q <= m + 1 /\ q \in Nat
    BY <1>2, <1>3, <1>4, <1>5, OwnAreFew, TopFacts
  <2> QED
    BY <1>4, <1>5, <2>1 DEF Own
<1>6. ASSUME ~ReturnsPastBlocks
      PROVE  Len(chain) >= m + Own(Body) + Len(Top.entry) + Count(Body, Len(Body) + 1)
  <2>1. \A j \in DOMAIN Body : Body[j] \notin Blocks
    BY <1>2, <1>3, <1>6 DEF ReturnsPastBlocks, Body
  <2>2. Count(Body, Top.pc) = 0 /\ Count(Body, Len(Body) + 1) = 0
    BY <1>3, <2>1, CountNone
  <2>3. Len(chain) >= Len(Top.entry) + (Own(Body) + 0)
    BY <1>2, <1>6, <2>2, TopKept
  <2>4. Own(Body) \in Nat
    BY DEF Own
  <2> QED
    BY <1>3, <1>4, <2>2, <2>3, <2>4
<1> QED
  BY <1>1, <1>2, <1>4, <1>5, <1>6, LeaveBodyGood

-----------------------------------------------------------------------------
\* The frame that has run the action it is at, on its way out or unwinding.
LEMMA RanFacts ==
  ASSUME IInv, NEW phase, Running(phase), phase \in {"exit", "unwind"},
         NEW K, K = IF phase = "exit" THEN Deferred ELSE {"destructible"}
  PROVE  /\ Ran(K) \in Frame(calls) /\ GoesOn(Top, Ran(K)) /\ InPhase(Body, Ran(K))
         /\ Ran(K).fn = Top.fn /\ Ran(K).act = Top.act /\ Ran(K).phase = phase
         /\ Ran(K).at = LastBefore(Body, Top.at, K)
         /\ Ran(K).pc = Top.pc /\ Ran(K).ran = WithThis
<1>1. status = "running" /\ Top.phase = phase
  BY DEF Running
<1>2. /\ Top \in Frame(calls) /\ Top.pc \in Nat /\ Top.at \in Nat /\ Body \in Code
      /\ Top.pc <= Len(Body) + 1
  BY <1>1, TopFacts DEF InPhase
<1>3. /\ LastBefore(Body, Top.at, K) \in Nat
      /\ \/ LastBefore(Body, Top.at, K) = 0
         \/ /\ LastBefore(Body, Top.at, K) \in DOMAIN Body
            /\ Body[LastBefore(Body, Top.at, K)] \in K
  BY <1>2, LastBeforeFacts
<1>4. WithThis \in Seq(Nat)
  <2>1. Top.ran \in Seq(Nat)
    BY <1>2 DEF Frame
  <2> QED
    BY <1>2, <2>1 DEF WithThis
<1>5. /\ Ran(K) \in Frame(calls) /\ Ran(K).phase = phase
      /\ Ran(K).at = LastBefore(Body, Top.at, K) /\ Ran(K).pc = Top.pc
      /\ Ran(K).fn = Top.fn /\ Ran(K).act = Top.act /\ Ran(K).entry = Top.entry
      /\ Ran(K).ran = WithThis
  BY <1>1, <1>2, <1>3, <1>4 DEF Ran, Frame
<1>6. GoesOn(Top, Ran(K))
  BY <1>2, <1>5 DEF GoesOn
<1>7. InPhase(Body, Ran(K))
  BY <1>2, <1>3, <1>5 DEF InPhase, At
<1> QED
  BY <1>5, <1>6, <1>7

\* An action on the way out takes a buffer with it if it is a block, and leaves
\* the chain alone if it is not.
LEMMA ExitGood ==
  ASSUME IInv, NEW K, K \subseteq Deferred, Action("exit", K),
         NEW m, m = IF Body[Top.at] \in Blocks THEN 1 ELSE 0
  PROVE  Good(Replaced(Ran(Deferred)), Unlinked(chain, m), panicking, calls)
<1> DEFINE g == Ran(Deferred)
<1>1. /\ Running("exit") /\ status = "running" /\ Top.phase = "exit" /\ Top.at > 0
  BY DEF Action, Running
<1>2. /\ Body \in Code /\ Top.at \in Nat /\ Len(chain) \in Nat /\ Len(Top.entry) \in Nat
      /\ \A q \in DOMAIN chain : chain[q].of \in Nat /\ q \in Nat
      /\ Top.at \in DOMAIN Body /\ 0 \notin DOMAIN Body
  BY <1>1, TopFacts DEF InPhase, At, Code
<1>3. /\ g \in Frame(calls) /\ GoesOn(Top, g) /\ InPhase(Body, g)
      /\ g.phase = "exit" /\ g.at = LastBefore(Body, Top.at, Deferred)
  BY <1>1, RanFacts
<1> HIDE DEF g
<1>4. /\ Owes(Body, g) = Count(Body, Top.at)
      /\ \A j : MayHave(Body, g, j) <=> j < LastBefore(Body, Top.at, Blocks)
      /\ ~Unwinds(g)
  BY <1>2, <1>3, ExitFacts
<1>5. Owes(Body, Top) = m + Count(Body, Top.at) /\ Count(Body, Top.at) \in Nat
  BY <1>1, <1>2, CountNext, CountType DEF Owes
<1>6. /\ LastBefore(Body, Top.at, Blocks) \in Nat
      /\ \A j \in DOMAIN Body :
           j < Top.at /\ Body[j] \in Blocks => j <= LastBefore(Body, Top.at, Blocks)
      /\ LastBefore(Body, Top.at + 1, Blocks)
           = IF m = 1 THEN Top.at ELSE LastBefore(Body, Top.at, Blocks)
  BY <1>2, LastBeforeFacts, LastBeforeNext
<1>7. ASSUME ~Recovers, NEW q \in DOMAIN chain, q > m, chain[q].act = Top.act
      PROVE  MayHave(Body, g, chain[q].of)
  <2>1. ASSUME NEW r \in DOMAIN chain, chain[r].act = Top.act
        PROVE  chain[r].of < LastBefore(Body, Top.at + 1, Blocks)
    <3>1. MayHave(Body, Top, chain[r].of)
      BY <1>1, <1>7, <2>1, TopUnrecovered
    <3> QED
      BY <1>1, <3>1 DEF MayHave
  <2>2. CASE m = 0
    BY <1>4, <1>6, <1>7, <2>1, <2>2
  <2>3. CASE m = 1
    <3>1. 1 \in DOMAIN chain /\ 1 < q
      BY <1>1, <1>2, <1>7, <2>3, TopFacts
    <3>2. chain[1].act = Top.act /\ chain[q].of < chain[1].of
      BY <1>1, <1>7, <3>1, TopUnrecovered
    <3>3. chain[1].of < Top.at
      BY <1>6, <2>1, <2>3, <3>1, <3>2
    <3>4. chain[1].of \in DOMAIN Body /\ Body[chain[1].of] \in Blocks
      BY <1>1, <1>2, <3>1, <3>2, TopFacts DEF HasLinked
    <3>5. chain[q].of < LastBefore(Body, Top.at, Blocks)
      BY <1>2, <1>6, <3>1, <3>2, <3>3, <3>4
    <3> QED
      BY <1>4, <3>5
  <2> QED
    BY <2>2, <2>3
<1>8. ASSUME ~ReturnsPastBlocks
      PROVE  Len(chain) >= m + Len(Top.entry) + Owes(Body, g)
  <2>1. Len(chain) >= Len(Top.entry) + (m + Count(Body, Top.at))
    BY <1>1, <1>5, <1>8, TopKept
  <2>2. m \in Nat
    OBVIOUS
  <2>3. \A i, j, k, l \in Nat : i >= j + (k + l) => i >= k + j + l
    OBVIOUS
  <2> QED
    BY <1>2, <1>4, <1>5, <2>1, <2>2, <2>3
<1>9. m \in Nat
  OBVIOUS
<1> QED
  BY <1>1, <1>3, <1>4, <1>7, <1>8, <1>9, Pops DEF g

\* A destructor on the way out ...
LEMMA ExitDestroyGood == ASSUME IInv, ExitDestroy PROVE IInv'
<1>1. Action("exit", {"destructible"}) /\ Continue(Ran(Deferred), chain)
  BY DEF ExitDestroy
<1>2. status = "running" /\ {"destructible"} \subseteq Deferred /\ Body[Top.at] \notin Blocks
  BY <1>1 DEF Action, Running, Deferred, Blocks
<1>3. Good(Replaced(Ran(Deferred)), Unlinked(chain, 0), panicking, calls)
  BY <1>1, <1>2, ExitGood
<1>4. Unlinked(chain, 0) = chain
  BY <1>2, TopFacts DEF Unlinked
<1> QED
  BY <1>1, <1>2, <1>3, <1>4, ContinueGood

\* ... a deferred call ...
LEMMA ExitCallGood == ASSUME IInv, ExitCall PROVE IInv'
<1>1. Action("exit", {"deferCall"}) /\ CallNext(Ran(Deferred), chain)
  BY DEF ExitCall
<1>2. /\ status = "running" /\ Running("exit") /\ Top.phase = "exit" /\ Top.at > 0
      /\ {"deferCall"} \subseteq Deferred
      /\ Body[Top.at] = "deferCall" /\ Body[Top.at] \notin Blocks
  BY <1>1 DEF Action, Running, Deferred, Blocks
<1>3. Good(Replaced(Ran(Deferred)), Unlinked(chain, 0), panicking, calls)
  BY <1>1, <1>2, ExitGood
<1>4. Unlinked(chain, 0) = chain /\ Top.at \in DOMAIN Body
  BY <1>2, TopFacts DEF Unlinked, InPhase, At
<1>5. Ran(Deferred).fn + 1 \in 1 .. N
  BY <1>2, <1>4, RanFacts, CallerIsNotLast DEF Calling
<1> QED
  BY <1>1, <1>2, <1>3, <1>4, <1>5, CallGood

\* ... and a block, its buffer off the chain before it runs.
LEMMA ExitBlockGood == ASSUME IInv, ExitBlock PROVE IInv'
<1>1. /\ Action("exit", Blocks)
      /\ IF UnlinkReadsLive(chain, 1)
           THEN RunBlock(Top.at, Ran(Deferred), Unlinked(chain, 1))
           ELSE Stop("wild")
  BY DEF ExitBlock, Unlink
<1>2. /\ status = "running" /\ Running("exit") /\ Top.phase = "exit" /\ Top.at > 0
      /\ Blocks \subseteq Deferred /\ Body[Top.at] \in Blocks
  BY <1>1 DEF Action, Running, Deferred
<1>3. Good(Replaced(Ran(Deferred)), Unlinked(chain, 1), panicking, calls)
  BY <1>1, <1>2, ExitGood
<1>4. Top.at \in DOMAIN Body /\ Ran(Deferred).fn = Top.fn
  BY <1>2, TopFacts, RanFacts DEF InPhase, At
<1> QED
  BY <1>1, <1>2, <1>3, <1>4, RunBlockGood, ReadsLive

\* A function returns to its caller, or the program ends.
LEMMA ReturnGood == ASSUME IInv, Return PROVE IInv'
<1>1. /\ status = "running" /\ Top.phase = "exit" /\ Top.at = 0
      /\ stack' = SubSeq(stack, 1, Len(stack) - 1)
      /\ status' = IF Len(stack) = 1 THEN "returned" ELSE status
      /\ UNCHANGED <<program, chain, panicking, calls>>
  BY DEF Return, Running
<1>2. /\ Basic(program, stack, chain, calls) /\ panicking \in BOOLEAN
      /\ ~Recovers => Unrecovered(program, stack, chain, panicking)
      /\ ~ReturnsPastBlocks => Kept(program, stack, chain)
  BY <1>1 DEF IInv, Good
<1>3. Len(stack) \in Nat \ {0}
  BY <1>1, TopFacts
<1>4. CASE Len(stack) = 1
  <2>1. stack' = <<>> /\ status' = "returned"
    BY <1>1, <1>4
  <2>2. NoStrayJump'
    BY <2>1 DEF NoStrayJump
  <2>3. \A T : <<>> \in Seq(T)
    OBVIOUS
  <2>4. TypeOK'
    BY <1>1, <2>1, <2>3 DEF IInv, TypeOK
  <2> QED
    BY <1>1, <2>1, <2>2, <2>4 DEF IInv
<1>5. CASE Len(stack) # 1
  <2> DEFINE t == SubSeq(stack, 1, Len(stack) - 1)
  <2>1. Len(stack) > 1 /\ status' = status
    <3>1. status' = status
      BY <1>1, <1>5
    <3>2. \A l \in Nat \ {0} : l # 1 => l > 1
      OBVIOUS
    <3> QED
      BY <1>3, <1>5, <3>1, <3>2
  <2>2. /\ Basic(program, t, chain, calls)
        /\ ~Recovers => Unrecovered(program, t, chain, panicking)
        /\ ~ReturnsPastBlocks => Kept(program, t, chain)
    BY <1>1, <1>2, <2>1, ReturnLayers DEF Top
  <2> HIDE DEF t
  <2>3. stack' = t
    BY <1>1 DEF t
  <2>4. Good(stack', chain', panicking', calls')
    BY <1>1, <1>2, <2>2, <2>3 DEF Good
  <2> QED
    BY <1>1, <2>1, <2>4, StaysGood
<1> QED
  BY <1>4, <1>5

-----------------------------------------------------------------------------
\* The panic handler of a block takes the head of the chain off, which is the
\* block's own buffer while nobody recovers, and runs the block.
LEMMA CatchInBlockGood == ASSUME IInv, CatchInBlock PROVE IInv'
<1> DEFINE g == [Top EXCEPT !.phase = "propagate", !.ran = WithThis]
<1>1. /\ Top.phase = "caught" /\ status = "running" /\ Top.at > 0 /\ Body[Top.at] \in Blocks
      /\ IF UnlinkReadsLive(chain, 1)
           THEN RunBlock(Top.at, g, Unlinked(chain, 1))
           ELSE Stop("wild")
  BY DEF CatchInBlock, Unlink, Action, Running
<1>2. /\ Top \in Frame(calls) /\ Top.pc \in Nat /\ Top.at \in Nat /\ Body \in Code
      /\ Top.pc <= Len(Body) + 1 /\ Top.at \in DOMAIN Body
      /\ Len(chain) \in Nat /\ DOMAIN chain = 1 .. Len(chain) /\ Len(Top.entry) \in Nat
      /\ \A q \in DOMAIN chain : chain[q].of \in Nat
  BY <1>1, TopFacts DEF InPhase, At
<1>3. WithThis \in Seq(Nat)
  <2>1. Top.ran \in Seq(Nat)
    BY <1>2 DEF Frame
  <2> QED
    BY <1>2, <2>1 DEF WithThis
<1>4. /\ g \in Frame(calls) /\ g.phase = "propagate" /\ g.at = Top.at /\ g.pc = Top.pc
      /\ g.fn = Top.fn /\ g.act = Top.act /\ g.entry = Top.entry
  BY <1>2, <1>3 DEF Frame, Phases
<1> HIDE DEF g
<1>5. GoesOn(Top, g) /\ InPhase(Body, g)
  BY <1>1, <1>2, <1>4 DEF GoesOn, InPhase, At
<1>6. ASSUME ~Recovers
      PROVE  /\ Unwinds(g) => panicking
             /\ \A q \in DOMAIN chain :
                  q > 1 /\ chain[q].act = Top.act => MayHave(Body, g, chain[q].of)
  <2>1. panicking
    BY <1>1, <1>6, TopUnrecovered DEF Unwinds
  <2>2. ASSUME NEW q \in DOMAIN chain, q > 1, chain[q].act = Top.act
        PROVE  MayHave(Body, g, chain[q].of)
    <3>1. 1 \in DOMAIN chain
      BY <1>2, <2>2
    <3>2. chain[1].act = Top.act /\ chain[q].of < chain[1].of
      BY <1>1, <1>6, <2>2, <3>1, TopUnrecovered
    <3>3. chain[1].of <= Top.at
      BY <1>1, <1>6, <3>1, <3>2, TopUnrecovered DEF MayHave
    <3>4. chain[q].of < g.at
      BY <1>2, <1>4, <3>1, <3>2, <3>3
    <3> QED
      BY <1>4, <3>4 DEF MayHave
  <2> QED
    BY <2>1, <2>2
<1>7. ASSUME ~ReturnsPastBlocks
      PROVE  Len(chain) >= 1 + Len(Top.entry) + Owes(Body, g)
  <2>1. /\ Owes(Body, Top) = (Count(Body, Top.at) + 1) + 1
        /\ Owes(Body, g) = Count(Body, Top.at) + 1 /\ Count(Body, Top.at) \in Nat
    BY <1>1, <1>2, <1>4, CountNext, CountType DEF Owes
  <2>2. Len(chain) >= Len(Top.entry) + ((Count(Body, Top.at) + 1) + 1)
    BY <1>1, <1>7, <2>1, TopKept
  <2> QED
    BY <1>2, <2>1, <2>2
<1>8. Good(Replaced(g), Unlinked(chain, 1), panicking, calls)
  BY <1>1, <1>4, <1>5, <1>6, <1>7, Pops
<1> QED
  BY <1>1, <1>2, <1>4, <1>8, RunBlockGood, ReadsLive

\* After the panic handler of the function, none of its buffers is left.
LEMMA CatchInFunctionGood == ASSUME IInv, CatchInFunction PROVE IInv'
<1> DEFINE d == LastBefore(Body, Len(Body) + 1, {"destructible"})
           g == [Top EXCEPT !.phase = "unwind", !.at = d]
<1>1. /\ Top.phase = "caught" /\ status = "running" /\ Top.at = 0
      /\ IF UnlinkReadsLive(chain, 1)
           THEN Continue(g, Unlinked(chain, 1))
           ELSE Stop("wild")
  BY DEF CatchInFunction, Unlink, Running
<1>2. /\ Top \in Frame(calls) /\ Top.pc \in Nat /\ Body \in Code /\ Len(Body) + 1 \in Nat
      /\ Top.pc <= Len(Body) + 1
      /\ Len(chain) \in Nat /\ DOMAIN chain = 1 .. Len(chain) /\ Len(Top.entry) \in Nat
      /\ \A q \in DOMAIN chain : chain[q].of \in Nat
  BY <1>1, TopFacts DEF InPhase, Code
<1>3. d \in Nat /\ (d = 0 \/ (d \in DOMAIN Body /\ Body[d] \in {"destructible"}))
  BY <1>2, LastBeforeFacts
<1> HIDE DEF d
<1>4. /\ g \in Frame(calls) /\ g.phase = "unwind" /\ g.at = d /\ g.pc = Top.pc
      /\ g.fn = Top.fn /\ g.act = Top.act /\ g.entry = Top.entry
  BY <1>2, <1>3 DEF Frame, Phases
<1> HIDE DEF g
<1>5. GoesOn(Top, g) /\ InPhase(Body, g)
  BY <1>2, <1>3, <1>4 DEF GoesOn, InPhase, At
<1>6. ASSUME ~Recovers
      PROVE  /\ panicking
             /\ \A q \in DOMAIN chain : ~ (q > 1 /\ chain[q].act = Top.act)
  <2>1. panicking
    BY <1>1, <1>6, TopUnrecovered DEF Unwinds
  <2>2. ASSUME NEW q \in DOMAIN chain, q > 1, chain[q].act = Top.act
        PROVE  FALSE
    <3>1. 1 \in DOMAIN chain
      BY <1>2, <2>2
    <3>2. chain[1].act = Top.act /\ chain[q].of < chain[1].of
      BY <1>1, <1>6, <2>2, <3>1, TopUnrecovered
    <3>3. chain[1].of <= 0
      BY <1>1, <1>6, <3>1, <3>2, TopUnrecovered DEF MayHave
    <3> QED
      BY <1>2, <3>1, <3>2, <3>3
  <2> QED
    BY <2>1, <2>2
<1>7. ASSUME ~ReturnsPastBlocks
      PROVE  Len(chain) >= 1 + Len(Top.entry) + Owes(Body, g)
  <2>1. Owes(Body, Top) = 0 + 1 /\ Owes(Body, g) = 0
    BY <1>1, <1>2, <1>4, CountNone DEF Owes
  <2>2. Len(chain) >= Len(Top.entry) + (0 + 1)
    BY <1>1, <1>7, <2>1, TopKept
  <2> QED
    BY <1>2, <2>1, <2>2
<1>8. Good(Replaced(g), Unlinked(chain, 1), panicking, calls)
  BY <1>1, <1>4, <1>5, <1>6, <1>7, Pops
<1> QED
  BY <1>1, <1>8, ContinueGood, ReadsLive

\* The destructors of a function that a panic goes through have no buffers.
LEMMA UnwindDestroyGood == ASSUME IInv, UnwindDestroy PROVE IInv'
<1> DEFINE g == Ran({"destructible"})
<1>1. /\ Running("unwind") /\ status = "running" /\ Top.phase = "unwind"
      /\ Continue(g, chain)
  BY DEF UnwindDestroy, Action, Running
<1>2. /\ g \in Frame(calls) /\ GoesOn(Top, g) /\ InPhase(Body, g) /\ g.phase = "unwind"
  BY <1>1, RanFacts
<1> HIDE DEF g
<1>3. ~Recovers => /\ panicking
                   /\ \A q \in DOMAIN chain : chain[q].act # Top.act
  BY <1>1, TopUnrecovered DEF Unwinds, MayHave
<1>4. ~ReturnsPastBlocks => Len(chain) >= 0 + Len(Top.entry) + Owes(Body, g)
  <2>1. Owes(Body, Top) = 0 /\ Owes(Body, g) = 0
    BY <1>1, <1>2 DEF Owes
  <2>2. Len(Top.entry) \in Nat
    BY <1>1, TopFacts
  <2> QED
    BY <1>1, <2>1, <2>2, TopKept
<1>5. Good(Replaced(g), Unlinked(chain, 0), panicking, calls)
  BY <1>1, <1>2, <1>3, <1>4, Pops
<1>6. Unlinked(chain, 0) = chain
  BY <1>1, TopFacts DEF Unlinked
<1> QED
  BY <1>1, <1>5, <1>6, ContinueGood

\* The panic goes on, or, after a recover, the function goes to its exit.
LEMMA PropagateGood == ASSUME IInv, Propagate PROVE IInv'
<1> DEFINE d == LastBefore(Body, Top.at, Deferred)
           g == [Top EXCEPT !.phase = "exit", !.at = d]
<1>1. /\ status = "running"
      /\ Top.phase = "propagate" \/ (Top.phase = "unwind" /\ Top.at = 0)
      /\ IF panicking THEN LongJmp(stack, chain) ELSE Continue(g, chain)
  BY DEF Propagate, Running
<1>2. CASE panicking
  BY <1>1, <1>2, JumpGood DEF IInv
<1>3. CASE ~panicking
  <2>1. /\ Top \in Frame(calls) /\ Top.pc \in Nat /\ Top.at \in Nat /\ Body \in Code
        /\ Top.pc <= Len(Body) + 1
        /\ Len(chain) \in Nat /\ Len(Top.entry) \in Nat
    BY <1>1, TopFacts DEF InPhase
  <2>2. d \in Nat
    BY <2>1, LastBeforeFacts
  <2> HIDE DEF d
  <2>3. /\ g \in Frame(calls) /\ g.phase = "exit" /\ g.at = d /\ g.pc = Top.pc
        /\ g.fn = Top.fn /\ g.act = Top.act /\ g.entry = Top.entry
    BY <2>1, <2>2 DEF Frame, Phases
  <2> HIDE DEF g
  <2>4. /\ Owes(Body, g) = Count(Body, Top.at) /\ Count(Body, Top.at) \in Nat
        /\ g.at = 0 \/ At(Body, g, Deferred)
    BY <2>1, <2>3, ExitFacts, CountType DEF d
  <2>5. GoesOn(Top, g) /\ InPhase(Body, g)
    BY <2>1, <2>3, <2>4 DEF GoesOn, InPhase
  <2>6. Recovers
    BY <1>1, <1>3, TopUnrecovered DEF Unwinds
  <2>7. ASSUME ~ReturnsPastBlocks
        PROVE  Len(chain) >= 0 + Len(Top.entry) + Owes(Body, g)
    <3>1. CASE Top.phase = "propagate"
      <4>1. Len(chain) >= Len(Top.entry) + (Count(Body, Top.at) + 1)
        BY <1>1, <2>7, <3>1, TopKept DEF Owes
      <4> QED
        BY <2>1, <2>4, <4>1
    <3>2. CASE Top.phase = "unwind" /\ Top.at = 0
      <4>1. Count(Body, Top.at) = 0
        BY <2>1, <3>2, CountNone
      <4>2. Len(chain) >= Len(Top.entry) + 0
        BY <1>1, <2>7, <3>2, TopKept DEF Owes
      <4> QED
        BY <2>1, <2>4, <4>1, <4>2
    <3> QED
      BY <1>1, <3>1, <3>2
  <2>8. Good(Replaced(g), Unlinked(chain, 0), panicking, calls)
    BY <1>1, <2>3, <2>5, <2>6, <2>7, Pops
  <2>9. Unlinked(chain, 0) = chain
    BY <1>1, TopFacts DEF Unlinked
  <2> QED
    BY <1>1, <1>3, <2>8, <2>9, ContinueGood
<1> QED
  BY <1>2, <1>3

-----------------------------------------------------------------------------
\* The program starts with the buffer of its run time on the chain.
LEMMA InitEstablishes == ASSUME Init PROVE IInv
<1> DEFINE f == [fn |-> 1, act |-> 1, phase |-> "entry", pc |-> 1, at |-> 0,
                 entry |-> <<MainBuffer>>, ran |-> <<>>]
<1>1. /\ program \in [1 .. N -> Code] /\ 1 \in 1 .. N
  BY NAssumption, ProgramsAssumption DEF Init, Code
<1>2. MainBuffer \in Buffers(1) /\ MainBuffer.act = 0
  BY DEF MainBuffer, Buffers
<1>3. <<MainBuffer>> \in Seq(Buffers(1))
  BY <1>2
<1>4. /\ f \in Frame(1) /\ f.fn = 1 /\ f.act = 1 /\ f.phase = "entry" /\ f.pc = 1
      /\ f.entry = <<MainBuffer>>
  BY <1>1, <1>3 DEF Frame, Phases
<1> HIDE DEF f
<1>5. /\ <<f>> \in Seq(Frame(1)) /\ Len(<<f>>) = 1 /\ DOMAIN <<f>> = {1} /\ <<f>>[1] = f
      /\ <<f>> # <<>>
  BY <1>4
<1>6. /\ Len(<<MainBuffer>>) = 1 /\ DOMAIN <<MainBuffer>> = {1}
      /\ <<MainBuffer>>[1] = MainBuffer
  OBVIOUS
<1>7. Basic(program, <<f>>, <<MainBuffer>>, 1)
  <2>1. InPhase(program[1], f)
    <3>1. Len(program[1]) \in Nat
      BY <1>1 DEF Code
    <3> QED
      BY <1>4, <3>1 DEF InPhase
  <2> QED
    BY <1>1, <1>2, <1>3, <1>4, <1>5, <1>6, <2>1 DEF Basic
<1>8. Unrecovered(program, <<f>>, <<MainBuffer>>, FALSE)
  BY <1>2, <1>4, <1>5, <1>6 DEF Unrecovered, Live, Sorted, Unwinds
<1>9. Kept(program, <<f>>, <<MainBuffer>>)
  <2>1. HighEnough(program, <<f>>, <<MainBuffer>>)
    BY <1>2, <1>4, <1>5, <1>6 DEF HighEnough
  <2>2. Keeps(f, <<MainBuffer>>)
    BY <1>4, <1>6 DEF Keeps
  <2>3. ChainOf(<<f>>, <<MainBuffer>>, 1) = <<MainBuffer>> /\ Owes(program[f.fn], f) = 0
    BY <1>4, <1>5 DEF ChainOf, Owes
  <2> QED
    BY <1>4, <1>5, <1>6, <2>1, <2>2, <2>3 DEF Kept
<1>10. /\ stack = <<f>> /\ chain = <<MainBuffer>> /\ panicking = FALSE /\ calls = 1
       /\ status = "running" /\ program \in Programs
  BY DEF Init, f
<1>11. Good(stack, chain, panicking, calls)
  BY <1>7, <1>8, <1>9, <1>10 DEF Good
<1>12. TypeOK
  BY <1>1, <1>3, <1>5, <1>10 DEF TypeOK, Frame, Buffers, Phases, Code
<1>13. NoStrayJump
  BY <1>10 DEF NoStrayJump
<1> QED
  BY <1>10, <1>11, <1>12, <1>13 DEF IInv

\* Every step keeps the invariant: one case for each action.
LEMMA StepPreserves == ASSUME IInv, [Next]_vars PROVE IInv'
<1>1. CASE Enter
  BY <1>1, EnterGood
<1>2. CASE Register
  BY <1>2, RegisterGood
<1>3. CASE DeferBlock
  BY <1>3, DeferBlockGood
<1>4. CASE CallStatement
  BY <1>4, CallStatementGood
<1>5. CASE PanicStatement
  BY <1>5, PanicStatementGood
<1>6. CASE SkipStatement
  BY <1>6, SkipStatementGood
<1>7. CASE ReturnStatement
  BY <1>7, ReturnStatementGood
<1>8. CASE FallOff
  BY <1>8, FallOffGood
<1>9. CASE ExitDestroy
  BY <1>9, ExitDestroyGood
<1>10. CASE ExitCall
  BY <1>10, ExitCallGood
<1>11. CASE ExitBlock
  BY <1>11, ExitBlockGood
<1>12. CASE Return
  BY <1>12, ReturnGood
<1>13. CASE CatchInBlock
  BY <1>13, CatchInBlockGood
<1>14. CASE CatchInFunction
  BY <1>14, CatchInFunctionGood
<1>15. CASE UnwindDestroy
  BY <1>15, UnwindDestroyGood
<1>16. CASE Propagate
  BY <1>16, PropagateGood
<1>17. CASE UNCHANGED vars
  <2>1. UNCHANGED <<program, stack, chain, panicking, calls, status>>
    BY <1>17 DEF vars
  <2>2. status' = "running" => IInv'
    BY <2>1, StaysGood DEF IInv
  <2>3. (Recovers' <=> Recovers) /\ (ReturnsPastBlocks' <=> ReturnsPastBlocks)
    BY <2>1 DEF Recovers, Has, ReturnsPastBlocks
  <2>4. TypeOK' /\ NoStrayJump'
    BY <2>1, <2>3 DEF IInv, TypeOK, NoStrayJump
  <2> QED
    BY <2>1, <2>2, <2>4 DEF IInv
<1> QED
  BY <1>1, <1>2, <1>3, <1>4, <1>5, <1>6, <1>7, <1>8, <1>9, <1>10, <1>11, <1>12,
     <1>13, <1>14, <1>15, <1>16, <1>17 DEF Next, Stopped

-----------------------------------------------------------------------------
\* The invariant holds in every state of every program.
THEOREM Invariance == Spec => []IInv
<1>1. Init => IInv
  BY InitEstablishes
<1>2. IInv /\ [Next]_vars => IInv'
  BY StepPreserves
<1> QED
  BY <1>1, <1>2, PTL DEF Spec

\* Types.
THEOREM TypeCorrect == Spec => []TypeOK
<1>1. IInv => TypeOK
  BY DEF IInv
<1> QED
  BY <1>1, Invariance, PTL

\* Whatever the program, nothing jumps into a frame that is gone unless it
\* recovers, and the chain runs empty only after a return past a block.
THEOREM NoJumpStrays == Spec => []NoStrayJump
<1>1. IInv => NoStrayJump
  BY DEF IInv
<1> QED
  BY <1>1, Invariance, PTL

\* What an activation found is a suffix of the chain.
LEMMA KeptIsSuffix ==
  ASSUME NEW T, NEW e \in Seq(T), NEW c \in Seq(T), Len(e) <= Len(c),
         \A i \in 1 .. Len(e) : e[i] = c[Len(c) - Len(e) + i]
  PROVE  IsSuffix(e, c)
<1> DEFINE re == Reverse(e)
           rc == Reverse(c)
<1>1. Len(e) \in Nat /\ Len(c) \in Nat
  OBVIOUS
<1>2. /\ re \in Seq(T) /\ Len(re) = Len(e)
      /\ \A i \in 1 .. Len(e) : re[i] = e[(Len(e) - i) + 1]
  BY <1>1 DEF Reverse
<1>3. /\ rc \in Seq(T) /\ Len(rc) = Len(c)
      /\ \A i \in 1 .. Len(c) : rc[i] = c[(Len(c) - i) + 1]
  BY <1>1 DEF Reverse
<1> HIDE DEF re, rc
<1>4. ASSUME NEW i \in 1 .. Len(e)
      PROVE  re[i] = rc[i]
  <2>1. /\ (Len(e) - i) + 1 \in 1 .. Len(e) /\ i \in 1 .. Len(c)
        /\ Len(c) - Len(e) + ((Len(e) - i) + 1) = (Len(c) - i) + 1
    BY <1>1
  <2> QED
    BY <1>2, <1>3, <2>1
<1>5. SubSeq(re, 1, Len(re)) = SubSeq(rc, 1, Len(re))
  <2>1. /\ Len(SubSeq(re, 1, Len(re))) = Len(e)
        /\ Len(SubSeq(rc, 1, Len(re))) = Len(e)
        /\ \A i \in 1 .. Len(e) : /\ SubSeq(re, 1, Len(re))[i] = re[i]
                                  /\ SubSeq(rc, 1, Len(re))[i] = rc[i]
        /\ SubSeq(re, 1, Len(re)) \in Seq(T) /\ SubSeq(rc, 1, Len(re)) \in Seq(T)
    BY <1>1, <1>2, <1>3
  <2> QED
    BY <1>4, <2>1
<1>6. IsPrefix(re, rc)
  BY <1>1, <1>2, <1>3, <1>5 DEF IsPrefix
<1> QED
  BY <1>6 DEF IsSuffix, re, rc

\* In the programs that keep returns and blocks apart and never recover, every
\* handler on the chain exists, and a callee takes none of its callers' off.
THEOREM HandlersAreKept == Spec => []CallersHandlersKept
<1>1. ASSUME IInv PROVE CallersHandlersKept
  <2> SUFFICES ASSUME ~ReturnsPastBlocks, ~Recovers, status = "running"
               PROVE  /\ \A i \in 1 .. Len(chain) : Live(chain[i], stack)
                      /\ \A k \in 1 .. Len(stack) : IsSuffix(stack[k].entry, chain)
    BY DEF CallersHandlersKept
  <2>1. /\ Basic(program, stack, chain, calls)
        /\ Unrecovered(program, stack, chain, panicking)
        /\ Kept(program, stack, chain)
    BY <1>1 DEF IInv, Good
  <2>2. DOMAIN chain = 1 .. Len(chain) /\ DOMAIN stack = 1 .. Len(stack)
    BY <2>1, BasicTypes
  <2>3. \A i \in 1 .. Len(chain) : Live(chain[i], stack)
    BY <2>1, <2>2 DEF Unrecovered
  <2>4. ASSUME NEW k \in 1 .. Len(stack)
        PROVE  IsSuffix(stack[k].entry, chain)
    <3>1. stack[k].entry \in Seq(Buffers(calls)) /\ chain \in Seq(Buffers(calls))
      BY <2>1, <2>2, BasicTypes DEF Basic
    <3>2. Keeps(stack[k], chain)
      BY <2>1, <2>2 DEF Kept
    <3> QED
      BY <3>1, <3>2, KeptIsSuffix DEF Keeps
  <2> QED
    BY <2>3, <2>4
<1> QED
  BY <1>1, Invariance, PTL

\* The chain of a function about to return is the one it found.
LEMMA ReturningChain ==
  ASSUME IInv, Running("exit"), Top.at = 0, ~ReturnsPastBlocks, ~Recovers
  PROVE  chain = Top.entry
<1>1. status = "running" /\ Top.phase = "exit"
  BY DEF Running
<1>2. /\ Body \in Code /\ Top.act \in Nat /\ 0 \notin DOMAIN Body
      /\ Len(chain) \in Nat /\ DOMAIN chain = 1 .. Len(chain) /\ Len(Top.entry) \in Nat
      /\ chain \in Seq(Buffers(calls)) /\ Top.entry \in Seq(Buffers(calls))
      /\ \A q \in DOMAIN chain : chain[q].act \in Nat /\ chain[q].of \in Nat
      /\ Len(stack) \in DOMAIN stack
  BY <1>1, TopFacts DEF Code
<1>3. LastBefore(Body, 0 + 1, Blocks) = 0
  <2> DEFINE l == LastBefore(Body, 1, Blocks)
  <2>1. l \in Nat /\ (l = 0 \/ (l \in DOMAIN Body /\ l < 1))
    BY <1>2, LastBeforeFacts
  <2>2. l = 0
    BY <1>2, <2>1
  <2> QED
    BY <2>2
<1>4. ASSUME NEW q \in DOMAIN chain
      PROVE  chain[q].act < Top.act
  <2>1. chain[q].act <= Top.act
    BY <1>1, TopUnrecovered
  <2>2. chain[q].act = Top.act => chain[q].of < 0
    BY <1>1, <1>3, TopUnrecovered DEF MayHave
  <2> QED
    BY <1>2, <2>1, <2>2
<1>5. Keeps(Top, chain)
  BY <1>1, <1>2 DEF IInv, Good, Kept, Top
<1>6. Len(Top.entry) = Len(chain)
  <2> SUFFICES ASSUME Len(Top.entry) < Len(chain) PROVE FALSE
    BY <1>2, <1>5 DEF Keeps
  <2>1. 1 \in 1 .. Len(chain) - Len(Top.entry) /\ 1 \in DOMAIN chain
    BY <1>2
  <2>2. chain[1].act >= Top.act
    BY <1>5, <2>1 DEF Keeps
  <2> QED
    BY <1>2, <1>4, <2>1, <2>2
<1>7. \A i \in 1 .. Len(chain) : Top.entry[i] = chain[i]
  <2>1. \A i \in 1 .. Len(chain) : Len(chain) - Len(chain) + i = i
    BY <1>2
  <2> QED
    BY <1>5, <1>6, <2>1 DEF Keeps
<1> QED
  BY <1>2, <1>6, <1>7

\* In those programs a function that returns leaves the chain as it found it.
THEOREM ReturnsRestoreChain == Spec => CarefulReturnRestoresChain
<1> DEFINE Restores ==
             \A k \in 1 .. Len(stack) :
               (Leaves(k) /\ Returns(k) /\ ~ReturnsPastBlocks /\ ~Recovers)
                 => chain' = stack[k].entry
<1>1. ASSUME IInv, Next PROVE Restores
  <2> SUFFICES ASSUME NEW k \in 1 .. Len(stack), Returns(k),
                      ~ReturnsPastBlocks, ~Recovers
               PROVE  chain' = stack[k].entry
    OBVIOUS
  <2>1. k = Len(stack) /\ Running("exit") /\ Top.at = 0
    BY DEF Returns
  <2>2. chain = stack[k].entry
    BY <1>1, <2>1, ReturningChain DEF Top
  <2>3. status = "running" /\ Top.phase = "exit" /\ ~ (Top.at > 0)
    BY <2>1 DEF Running
  <2>4. Return
    BY <1>1, <2>3
       DEF Next, Enter, Register, DeferBlock, CallStatement, PanicStatement,
           SkipStatement, ReturnStatement, FallOff, ExitDestroy, ExitCall, ExitBlock,
           CatchInBlock, CatchInFunction, UnwindDestroy, Propagate, Stopped,
           Statement, Action, Running
  <2>5. chain' = chain
    BY <2>4 DEF Return
  <2> QED
    BY <2>2, <2>5
<1>2. IInv /\ [Next]_vars => [Restores]_vars
  BY <1>1
<1>3. CarefulReturnRestoresChain <=> [][Restores]_vars
  BY DEF CarefulReturnRestoresChain
<1> QED
  BY <1>2, <1>3, Invariance, PTL DEF Spec

-----------------------------------------------------------------------------
\* What runs when an activation ends, in every program whose deferred actions end
\* without a panic: each action once, the last first.  One layer of the invariant is
\* about the order, and holds of the programs that recover too; the other says that
\* nothing is left out, and needs the chain to be kept as shown above.

\* Function h, or one that it leads to, has a panic statement.
Panics(P, h) == \E f \in 1 .. N : f >= h /\ \E i \in DOMAIN P[f] : P[f][i] = "panic"

\* The actions that an activation has run.
Acts(u) == {u[q] : q \in DOMAIN u}
Done(f) == Acts(f.ran)

-----------------------------------------------------------------------------
\* The order.  Actions run from the last to the first; in a panic blocks do, and
\* after them destructors ...
Descends(code, f) ==
  \A q, r \in DOMAIN f.ran : q < r =>
    \/ f.ran[r] < f.ran[q]
    \/ f.phase = "unwind" /\ code[f.ran[q]] \in Blocks /\ code[f.ran[r]] \notin Blocks

\* ... so what has run lies behind the action that the frame is at ...
Behind(code, f, i) ==
  /\ i \in DOMAIN code /\ f.phase \notin {"entry", "body"}
  /\ f.phase = "exit" => code[i] \in Deferred /\ i > f.at
  /\ f.phase = "caught" => code[i] \in Blocks /\ i > f.at
  /\ f.phase = "propagate" => code[i] \in Blocks /\ i >= f.at
  /\ f.phase = "unwind" => code[i] \in Blocks \/ (code[i] = "destructible" /\ i > f.at)

\* ... and from a block that recovered on nothing is left out.
SinceRecover(code, f, i) ==
  \/ f.phase = "propagate" /\ i = f.at
  \/ /\ f.phase = "exit"
     /\ \A j \in DOMAIN code : f.at < j /\ j <= i /\ code[j] \in Deferred => j \in Done(f)

InOrder(code, f) ==
  /\ Descends(code, f)
  /\ \A i \in Done(f) : /\ Behind(code, f, i)
                        /\ code[i] = "blockRecovers" => SinceRecover(code, f, i)

\* An activation that runs an action calls none that panics.
Undisturbed(P, s) ==
  \A j, k \in DOMAIN s :
    j < k /\ s[j].phase # "body" => ~Panics(P, s[k].fn) /\ ~Unwinds(s[k])

\* The buffers of a frame on the chain, and who handles a panic p.
Handles(code, f, c, p, top) ==
  /\ f.phase \in {"caught", "unwind"} => top /\ p
  /\ f.phase = "propagate" /\ code[f.at] = "blockRecovers" => top /\ ~p
  /\ f.phase = "caught" => c # <<>> /\ c[1].act = f.act /\ c[1].of = f.at
  /\ \A q \in DOMAIN c : c[q].act = f.act =>
       f.phase # "unwind" /\ (f.phase = "propagate" => c[q].of < f.at)

\* The buffers of one frame are linked in the order of their statements.
OwnSorted(c) ==
  \A q, r \in DOMAIN c :
    q < r /\ c[q].act = c[r].act /\ c[q].act # 0 => c[r].of < c[q].of

Ordered(P, s, c, p) ==
  /\ OwnSorted(c)
  /\ Undisturbed(P, s)
  /\ \A k \in DOMAIN s : /\ InOrder(P[s[k].fn], s[k])
                         /\ Handles(P[s[k].fn], s[k], c, p, k = Len(s))

-----------------------------------------------------------------------------
\* Nothing is left out: of the actions behind the frame, and of the buffers that
\* would bring a panic to those that are to come.
Behindhand(code, f) ==
  IF f.phase = "exit" THEN {j \in DOMAIN code : j > f.at /\ code[j] \in Deferred}
  ELSE IF f.phase = "caught" THEN {j \in DOMAIN code : f.at < j /\ j < f.pc /\ code[j] \in Blocks}
  ELSE IF f.phase = "propagate" THEN {j \in DOMAIN code : f.at <= j /\ j < f.pc /\ code[j] \in Blocks}
  ELSE IF f.phase = "unwind"
    THEN {j \in DOMAIN code : (j < f.pc /\ code[j] \in Blocks)
                              \/ (f.at < j /\ code[j] = "destructible")}
  ELSE {}

Awaits(code, f) ==
  IF f.phase = "body" THEN BlocksBefore(code, f.pc) \cup (IF HasHandler(code) THEN {0} ELSE {})
  ELSE IF f.phase \in {"caught", "propagate"} THEN BlocksBefore(code, f.at) \cup {0}
  ELSE {}

Linked(f, c) == {c[q].of : q \in {r \in DOMAIN c : c[r].act = f.act}}

Complete(P, s, c) ==
  \A k \in DOMAIN s :
    /\ Behindhand(P[s[k].fn], s[k]) \subseteq Done(s[k])
    /\ Awaits(P[s[k].fn], s[k]) \subseteq Linked(s[k], ChainOf(s, c, k))

Careful == ~ReturnsPastBlocks /\ ~Recovers

DInv ==
  /\ IInv
  /\ status = "running" /\ ~ActionsMayPanic =>
       /\ Ordered(program, stack, chain, panicking)
       /\ Careful => Complete(program, stack, chain)

-----------------------------------------------------------------------------
\* Frames.  What has run once does not run again, so ran has room for more.
LEMMA RanFits ==
  ASSUME NEW code \in Code, NEW f, f.ran \in Seq(Nat), code # <<>>, InOrder(code, f)
  PROVE  Len(f.ran) < 2 * Len(code)
<1> DEFINE S == 1 .. Len(f.ran)
           T == 1 .. Len(code)
<1>1. /\ Len(code) \in Nat \ {0} /\ Len(f.ran) \in Nat /\ DOMAIN code = T
      /\ DOMAIN f.ran = S
  BY DEF Code
<1>2. \A q \in S : f.ran[q] \in T
  BY <1>1 DEF InOrder, Behind, Done, Acts
<1>3. f.ran \in [S -> T]
  BY <1>1, <1>2
<1>4. \A q, r \in S : q < r => f.ran[q] # f.ran[r]
  <2> SUFFICES ASSUME NEW q \in S, NEW r \in S, q < r
               PROVE  f.ran[q] # f.ran[r]
    OBVIOUS
  <2>1. f.ran[r] < f.ran[q] \/ (code[f.ran[q]] \in Blocks /\ code[f.ran[r]] \notin Blocks)
    BY <1>1 DEF InOrder, Descends
  <2>2. f.ran[r] \in Nat /\ f.ran[q] \in Nat
    BY <1>1
  <2> QED
    BY <2>1, <2>2
<1>5. \A q, r \in S : q # r => f.ran[q] # f.ran[r]
  BY <1>1, <1>4
<1>6. /\ IsFiniteSet(S) /\ Cardinality(S) = Len(f.ran)
      /\ IsFiniteSet(T) /\ Cardinality(T) = Len(code)
  <2>1. \A m \in Nat : IsFiniteSet(1 .. m) /\ Cardinality(1 .. m) = m
    BY FS_Interval
  <2> QED
    BY <1>1, <2>1
<1> HIDE DEF S, T
<1>7. ~ (Cardinality(T) < Cardinality(S))
  BY <1>3, <1>5, <1>6, FS_PigeonHole
<1> QED
  BY <1>1, <1>6, <1>7

\* An action is appended to what has run.
LEMMA DoneAppended ==
  ASSUME NEW u \in Seq(Nat), NEW a \in Nat
  PROVE  /\ DOMAIN Append(u, a) = 1 .. Len(u) + 1 /\ DOMAIN u = 1 .. Len(u)
         /\ Len(u) \in Nat
         /\ Append(u, a)[Len(u) + 1] = a
         /\ \A q \in DOMAIN u : Append(u, a)[q] = u[q] /\ u[q] \in Acts(u)
         /\ Acts(Append(u, a)) = Acts(u) \cup {a}
<1> DEFINE m == Len(u)
           v == Append(u, a)
<1>1. /\ m \in Nat /\ DOMAIN u = 1 .. m
      /\ DOMAIN v = 1 .. m + 1 /\ v[m + 1] = a
      /\ \A q \in 1 .. m : v[q] = u[q]
  OBVIOUS
<1>2. \A q \in 1 .. m + 1 : q # m + 1 => q \in 1 .. m
  BY <1>1
<1>3. \A q \in 1 .. m : q \in 1 .. m + 1
  BY <1>1
<1>4. m + 1 \in 1 .. m + 1
  BY <1>1
<1> HIDE DEF m, v
<1>5. Acts(v) = Acts(u) \cup {a}
  BY <1>1, <1>2, <1>3, <1>4 DEF Acts
<1> QED
  BY <1>1, <1>5 DEF Acts, m, v

\* The order goes on with an action that is before all those that have run, or
\* is not a block after blocks have run.
LEMMA DescendsOn ==
  ASSUME NEW code, NEW f, NEW g, f.ran \in Seq(Nat), NEW a \in Nat, g.ran = Append(f.ran, a),
         Descends(code, f), f.phase = "unwind" => g.phase = "unwind",
         \A i \in Done(f) : \/ a < i
                            \/ g.phase = "unwind" /\ code[i] \in Blocks /\ code[a] \notin Blocks
  PROVE  Descends(code, g)
<1> PICK m \in Nat : m = Len(f.ran)
  OBVIOUS
<1>1. /\ DOMAIN g.ran = 1 .. m + 1 /\ DOMAIN f.ran = 1 .. m
      /\ g.ran[m + 1] = a
      /\ \A q \in DOMAIN f.ran : g.ran[q] = f.ran[q] /\ f.ran[q] \in Done(f)
  BY DoneAppended DEF Done
<1> SUFFICES ASSUME NEW q \in 1 .. m + 1, NEW r \in 1 .. m + 1, q < r
             PROVE  \/ g.ran[r] < g.ran[q]
                    \/ /\ g.phase = "unwind"
                       /\ code[g.ran[q]] \in Blocks /\ code[g.ran[r]] \notin Blocks
  BY <1>1 DEF Descends
<1>2. q \in 1 .. m
  OBVIOUS
<1>3. CASE r = m + 1
  BY <1>1, <1>2, <1>3
<1>4. CASE r # m + 1
  <2>1. r \in 1 .. m
    BY <1>4
  <2> QED
    BY <1>1, <1>2, <2>1 DEF Descends
<1> QED
  BY <1>3, <1>4

\* On its way out a frame runs the action it is at and goes to the one before.
LEMMA ExitRuns ==
  ASSUME NEW code \in Code, NEW f, NEW g, f.ran \in Seq(Nat), f.at \in DOMAIN code,
         f.phase = "exit", InOrder(code, f), code[f.at] \in Deferred,
         g.phase = "exit", g.ran = Append(f.ran, f.at),
         g.at = LastBefore(code, f.at, Deferred)
  PROVE  /\ InOrder(code, g)
         /\ Behindhand(code, f) \subseteq Done(f) => Behindhand(code, g) \subseteq Done(g)
<1>1. DOMAIN code \subseteq Nat \ {0} /\ f.at \in Nat
  BY DEF Code
<1>2. /\ g.at \in Nat /\ (g.at = 0 \/ (g.at \in DOMAIN code /\ g.at < f.at))
      /\ \A j \in DOMAIN code : j < f.at /\ code[j] \in Deferred => j <= g.at
  BY <1>1, LastBeforeFacts
<1>3. g.at < f.at
  BY <1>1, <1>2
<1>4. Done(g) = Done(f) \cup {f.at}
  BY <1>1, DoneAppended DEF Done
<1>5. \A i \in Done(f) : i \in DOMAIN code /\ code[i] \in Deferred /\ i > f.at
  BY DEF InOrder, Behind
<1>6. Descends(code, g)
  BY <1>1, <1>5, DescendsOn DEF InOrder
<1>7. \A j \in DOMAIN code : g.at < j /\ code[j] \in Deferred => j = f.at \/ f.at < j
  BY <1>1, <1>2
<1>8. ASSUME NEW i \in Done(g)
      PROVE  Behind(code, g, i)
  <2>1. i \in DOMAIN code /\ code[i] \in Deferred /\ i \in Nat /\ (i = f.at \/ i > f.at)
    BY <1>1, <1>4, <1>5
  <2>2. i > g.at
    BY <1>1, <1>2, <1>3, <2>1
  <2> QED
    BY <2>1, <2>2 DEF Behind
<1>9. ASSUME NEW i \in Done(g), code[i] = "blockRecovers"
      PROVE  SinceRecover(code, g, i)
  <2> SUFFICES ASSUME NEW j \in DOMAIN code, g.at < j, j <= i, code[j] \in Deferred
               PROVE  j \in Done(g)
    BY DEF SinceRecover
  <2>1. j = f.at \/ f.at < j
    BY <1>7
  <2>2. CASE f.at < j
    <3>1. i # f.at
      BY <1>1, <2>2
    <3>2. SinceRecover(code, f, i)
      BY <1>4, <1>9, <3>1 DEF InOrder
    <3> QED
      BY <1>4, <2>2, <3>2 DEF SinceRecover
  <2> QED
    BY <1>4, <2>1, <2>2
<1>10. ASSUME Behindhand(code, f) \subseteq Done(f)
       PROVE  Behindhand(code, g) \subseteq Done(g)
  BY <1>1, <1>4, <1>7, <1>10 DEF Behindhand
<1> QED
  BY <1>6, <1>8, <1>9, <1>10 DEF InOrder

\* So does a frame that a panic unwinds, with destructors.
LEMMA UnwindRuns ==
  ASSUME NEW code \in Code, NEW f, NEW g, f.ran \in Seq(Nat), f.at \in DOMAIN code,
         f.phase = "unwind", InOrder(code, f), code[f.at] = "destructible",
         g.phase = "unwind", g.ran = Append(f.ran, f.at), g.pc = f.pc,
         g.at = LastBefore(code, f.at, {"destructible"})
  PROVE  /\ InOrder(code, g)
         /\ Behindhand(code, f) \subseteq Done(f) => Behindhand(code, g) \subseteq Done(g)
<1>1. DOMAIN code \subseteq Nat \ {0} /\ f.at \in Nat /\ "destructible" \notin Blocks
  BY DEF Code, Blocks
<1>2. /\ g.at \in Nat /\ (g.at = 0 \/ (g.at \in DOMAIN code /\ g.at < f.at))
      /\ \A j \in DOMAIN code : j < f.at /\ code[j] \in {"destructible"} => j <= g.at
  BY <1>1, LastBeforeFacts
<1>3. g.at < f.at
  BY <1>1, <1>2
<1>4. Done(g) = Done(f) \cup {f.at}
  BY <1>1, DoneAppended DEF Done
<1>5. \A i \in Done(f) : i \in DOMAIN code /\ (code[i] \in Blocks
                                             \/ (code[i] = "destructible" /\ i > f.at))
  BY DEF InOrder, Behind
<1>6. Descends(code, g)
  BY <1>1, <1>5, DescendsOn DEF InOrder
<1>7. ASSUME NEW i \in Done(g)
      PROVE  Behind(code, g, i)
  <2>1. /\ i \in DOMAIN code /\ i \in Nat
        /\ code[i] \in Blocks \/ (code[i] = "destructible" /\ (i = f.at \/ i > f.at))
    BY <1>1, <1>4, <1>5
  <2>2. code[i] \in Blocks \/ (code[i] = "destructible" /\ i > g.at)
    BY <1>1, <1>2, <1>3, <2>1
  <2> QED
    BY <2>1, <2>2 DEF Behind
<1>8. ASSUME NEW i \in Done(g)
      PROVE  code[i] # "blockRecovers"
  <2>1. i \in Done(f) => ~SinceRecover(code, f, i)
    BY DEF SinceRecover
  <2> QED
    BY <1>4, <2>1 DEF InOrder
<1>9. ASSUME Behindhand(code, f) \subseteq Done(f)
      PROVE  Behindhand(code, g) \subseteq Done(g)
  BY <1>1, <1>2, <1>4, <1>9 DEF Behindhand
<1> QED
  BY <1>6, <1>7, <1>8, <1>9 DEF InOrder

\* The panic handler of a block runs it and stays at it.
LEMMA CatchRuns ==
  ASSUME NEW code \in Code, NEW f, NEW g, f.ran \in Seq(Nat), f.at \in DOMAIN code,
         f.phase = "caught", InOrder(code, f), code[f.at] \in Blocks,
         g.phase = "propagate", g.ran = Append(f.ran, f.at), g.pc = f.pc, g.at = f.at
  PROVE  /\ InOrder(code, g)
         /\ Behindhand(code, f) \subseteq Done(f) => Behindhand(code, g) \subseteq Done(g)
<1>1. DOMAIN code \subseteq Nat \ {0} /\ f.at \in Nat
  BY DEF Code
<1>2. Done(g) = Done(f) \cup {f.at}
  BY <1>1, DoneAppended DEF Done
<1>3. \A i \in Done(f) : i \in DOMAIN code /\ code[i] \in Blocks /\ i > f.at
  BY DEF InOrder, Behind
<1>4. Descends(code, g)
  BY <1>1, <1>3, DescendsOn DEF InOrder
<1>5. ASSUME NEW i \in Done(g)
      PROVE  Behind(code, g, i)
  BY <1>1, <1>2, <1>3 DEF Behind
<1>6. ASSUME NEW i \in Done(g), code[i] = "blockRecovers"
      PROVE  SinceRecover(code, g, i)
  <2>1. i \in Done(f) => ~SinceRecover(code, f, i)
    BY DEF SinceRecover
  <2>2. i = f.at
    BY <1>2, <1>6, <2>1 DEF InOrder
  <2> QED
    BY <2>2 DEF SinceRecover
<1>7. ASSUME Behindhand(code, f) \subseteq Done(f)
      PROVE  Behindhand(code, g) \subseteq Done(g)
  BY <1>1, <1>2, <1>7 DEF Behindhand
<1> QED
  BY <1>4, <1>5, <1>6, <1>7 DEF InOrder

\* A frame in its body has run nothing.
LEMMA NothingRan ==
  ASSUME NEW code, NEW f, f.phase \in {"entry", "body"}, InOrder(code, f)
  PROVE  /\ DOMAIN f.ran = {} /\ Done(f) = {}
         /\ \A g : g.ran = f.ran => InOrder(code, g) /\ Done(g) = {}
<1>1. Done(f) = {}
  BY DEF InOrder, Behind
<1>2. DOMAIN f.ran = {}
  BY <1>1 DEF Done, Acts
<1>3. \A g : g.ran = f.ran => InOrder(code, g) /\ Done(g) = {}
  BY <1>1, <1>2 DEF InOrder, Descends, Done
<1> QED
  BY <1>1, <1>2, <1>3

-----------------------------------------------------------------------------
\* The buffers of the other frames are still those of the chain.
Others(f, c, d) == \A q \in DOMAIN d : d[q].act # f.act => \E r \in DOMAIN c : c[r] = d[q]

\* The top activation goes on as g, the chain being d: the order ...
LEMMA GoesOnOrdered ==
  ASSUME NEW P, NEW s, NEW c, NEW n, Basic(P, s, c, n), NEW r, Ordered(P, s, c, r),
         NEW g \in Frame(n), GoesOn(s[Len(s)], g), Unwinds(g) => Unwinds(s[Len(s)]),
         NEW d, OwnSorted(d), Others(g, c, d),
         NEW p, InOrder(P[g.fn], g), Handles(P[g.fn], g, d, p, TRUE)
  PROVE  Ordered(P, With(s, g), d, p)
<1> DEFINE t == With(s, g)
           L == Len(s)
<1>1. /\ DOMAIN t = DOMAIN s /\ Len(t) = L
      /\ L \in DOMAIN s /\ t[L] = g /\ \A k \in DOMAIN s : k # L => t[k] = s[k]
  BY WithFacts DEF Basic
<1>2. /\ L \in Nat /\ DOMAIN s = 1 .. L
      /\ \A k \in DOMAIN s : k # L => k < L /\ s[k].act # g.act
  <2>1. L \in Nat /\ DOMAIN s = 1 .. L /\ \A k \in DOMAIN s : s[k].act \in Nat
    BY BasicTypes
  <2>2. \A k \in DOMAIN s : k < L => s[k].act < s[L].act
    BY <1>1 DEF Basic
  <2>3. s[L].act = g.act
    BY DEF GoesOn
  <2> QED
    BY <1>1, <2>1, <2>2, <2>3
<1>3. t[L].fn = s[L].fn
  BY <1>1 DEF GoesOn
<1> HIDE DEF t, L
<1>4. ASSUME NEW j \in DOMAIN t, NEW k \in DOMAIN t, j < k, t[j].phase # "body"
      PROVE  ~Panics(P, t[k].fn) /\ ~Unwinds(t[k])
  <2>1. j # L /\ t[j] = s[j]
    BY <1>1, <1>2, <1>4
  <2>2. ~Panics(P, s[k].fn) /\ ~Unwinds(s[k])
    BY <1>1, <1>4, <2>1 DEF Ordered, Undisturbed
  <2>3. CASE k # L
    BY <1>1, <2>2, <2>3
  <2>4. CASE k = L
    BY <1>1, <1>3, <2>2, <2>4 DEF L
  <2> QED
    BY <2>3, <2>4
<1>5. ASSUME NEW k \in DOMAIN t
      PROVE  InOrder(P[t[k].fn], t[k]) /\ Handles(P[t[k].fn], t[k], d, p, k = Len(t))
  <2>1. CASE k = L
    <3>1. (k = Len(t)) = TRUE
      BY <1>1, <2>1
    <3> QED
      BY <1>1, <2>1, <3>1
  <2>2. CASE k # L
    <3>1. t[k] = s[k] /\ InOrder(P[s[k].fn], s[k]) /\ Handles(P[s[k].fn], s[k], c, r, k = L)
      BY <1>1, <2>2 DEF Ordered, L
    <3>2. s[k].phase \notin {"caught", "unwind"}
      BY <2>2, <3>1 DEF Handles
    <3>3. ~ (s[k].phase = "propagate" /\ P[s[k].fn][s[k].at] = "blockRecovers")
      BY <2>2, <3>1 DEF Handles
    <3>4. \A q \in DOMAIN d : d[q].act = s[k].act =>
            s[k].phase # "unwind" /\ (s[k].phase = "propagate" => d[q].of < s[k].at)
      BY <1>1, <1>2, <2>2, <3>1 DEF Handles, Others
    <3> QED
      BY <3>1, <3>2, <3>3, <3>4 DEF Handles
  <2> QED
    BY <2>1, <2>2
<1>6. Undisturbed(P, t)
  BY <1>4 DEF Undisturbed
<1> QED
  BY <1>5, <1>6 DEF Ordered, t

\* ... and nothing is left out.
LEMMA GoesOnComplete ==
  ASSUME NEW P, NEW s, NEW c, NEW n, Basic(P, s, c, n), Complete(P, s, c),
         NEW g \in Frame(n), GoesOn(s[Len(s)], g), NEW d,
         Behindhand(P[g.fn], g) \subseteq Done(g), Awaits(P[g.fn], g) \subseteq Linked(g, d)
  PROVE  Complete(P, With(s, g), d)
<1> DEFINE t == With(s, g)
           L == Len(s)
<1>1. /\ DOMAIN t = DOMAIN s /\ Len(t) = L
      /\ L \in DOMAIN s /\ t[L] = g /\ \A k \in DOMAIN s : k # L => t[k] = s[k]
  BY WithFacts DEF Basic
<1>2. L \in Nat /\ DOMAIN s = 1 .. L /\ g.entry = s[L].entry
  BY BasicTypes DEF GoesOn
<1> HIDE DEF t, L
<1>3. ASSUME NEW k \in DOMAIN t, k # L
      PROVE  ChainOf(t, d, k) = ChainOf(s, c, k)
  <2>1. k + 1 \in DOMAIN s /\ t[k + 1].entry = s[k + 1].entry
    BY <1>1, <1>2, <1>3
  <2> QED
    BY <1>1, <1>3, <2>1 DEF ChainOf, L
<1>4. ChainOf(t, d, L) = d
  BY <1>1 DEF ChainOf
<1> QED
  BY <1>1, <1>3, <1>4 DEF Complete, t

\* An activation that may call: one that runs an action calls none that panics.
MayCall(P, g) ==
  /\ g.phase \in {"body", "exit", "propagate"}
  /\ g.phase # "body" => ~Panics(P, g.fn + 1)
  /\ g.phase = "propagate" => P[g.fn][g.at] # "blockRecovers"

\* It calls: the order ...
LEMMA CallOrdered ==
  ASSUME NEW P, NEW s, NEW c, NEW n, Basic(P, s, c, n), NEW p, Ordered(P, s, c, p),
         MayCall(P, s[Len(s)])
  PROVE  Ordered(P, Append(s, Called(s[Len(s)].fn + 1, c, n)), c, p)
<1> DEFINE h == s[Len(s)].fn + 1
           e == Called(h, c, n)
           t == Append(s, e)
           L == Len(s)
<1>1. /\ L \in Nat \ {0} /\ DOMAIN s = 1 .. L
      /\ DOMAIN t = 1 .. L + 1 /\ Len(t) = L + 1 /\ t[L + 1] = e
      /\ \A k \in 1 .. L : t[k] = s[k]
  BY DEF Basic
<1>2. /\ \A k \in 1 .. L : s[k].fn \in Nat /\ s[k].act <= n /\ s[k].act \in Nat
      /\ n \in Nat
      /\ \A q \in DOMAIN c : c[q].act \in Nat /\ c[q].act <= n
  BY <1>1, BasicTypes, NAssumption
<1>3. e.fn = h /\ e.act = n + 1 /\ e.phase = "entry" /\ e.ran = <<>> /\ h = s[L].fn + 1
  BY DEF Called
<1>4. MayCall(P, s[L])
  OBVIOUS
<1> HIDE DEF t, L, e, h
<1>5. ASSUME NEW j \in DOMAIN t, NEW k \in DOMAIN t, j < k, t[j].phase # "body"
      PROVE  ~Panics(P, t[k].fn) /\ ~Unwinds(t[k])
  <2>1. j \in 1 .. L /\ t[j] = s[j]
    BY <1>1, <1>5
  <2>2. CASE k \in 1 .. L
    BY <1>1, <1>5, <2>1, <2>2 DEF Ordered, Undisturbed
  <2>3. CASE k = L + 1
    <3>1. ~Unwinds(t[k])
      BY <1>1, <1>3, <2>3 DEF Unwinds
    <3>2. CASE j = L
      BY <1>1, <1>3, <1>4, <1>5, <2>1, <2>3, <3>1, <3>2 DEF MayCall
    <3>3. CASE j # L
      <4>1. L \in DOMAIN s /\ j < L
        BY <1>1, <2>1, <3>3
      <4>2. ~Panics(P, s[L].fn)
        BY <1>1, <1>5, <2>1, <4>1 DEF Ordered, Undisturbed
      <4>3. \A f \in 1 .. N : f >= h => f >= s[L].fn
        BY <1>1, <1>2, <1>3, NAssumption
      <4>4. ~Panics(P, h)
        BY <4>2, <4>3 DEF Panics
      <4> QED
        BY <1>1, <1>3, <2>3, <3>1, <4>4
    <3> QED
      BY <3>2, <3>3
  <2> QED
    BY <1>1, <2>2, <2>3
<1>6. ASSUME NEW k \in DOMAIN t
      PROVE  InOrder(P[t[k].fn], t[k]) /\ Handles(P[t[k].fn], t[k], c, p, k = Len(t))
  <2>1. CASE k = L + 1
    <3>1. InOrder(P[e.fn], e)
      BY <1>3 DEF InOrder, Descends, Done, Acts
    <3>2. \A q \in DOMAIN c : c[q].act # e.act
      BY <1>2, <1>3
    <3>3. Handles(P[e.fn], e, c, p, k = Len(t))
      BY <1>3, <3>2 DEF Handles
    <3> QED
      BY <1>1, <2>1, <3>1, <3>3
  <2>2. CASE k \in 1 .. L
    <3>1. t[k] = s[k] /\ InOrder(P[s[k].fn], s[k]) /\ Handles(P[s[k].fn], s[k], c, p, k = L)
      BY <1>1, <2>2 DEF Ordered, L
    <3>2. /\ s[k].phase \notin {"caught", "unwind"}
          /\ ~ (s[k].phase = "propagate" /\ P[s[k].fn][s[k].at] = "blockRecovers")
      <4>1. CASE k = L
        BY <1>4, <4>1 DEF MayCall
      <4>2. CASE k # L
        BY <3>1, <4>2 DEF Handles
      <4> QED
        BY <4>1, <4>2
    <3> QED
      BY <3>1, <3>2 DEF Handles
  <2> QED
    BY <1>1, <2>1, <2>2
<1>7. Undisturbed(P, t)
  BY <1>5 DEF Undisturbed
<1> QED
  BY <1>6, <1>7 DEF Ordered, t, e, h

\* ... and nothing is left out.
LEMMA CallComplete ==
  ASSUME NEW P, NEW s, NEW c, NEW n, Basic(P, s, c, n), Complete(P, s, c), NEW h
  PROVE  Complete(P, Append(s, Called(h, c, n)), c)
<1> DEFINE e == Called(h, c, n)
           t == Append(s, e)
           L == Len(s)
<1>1. /\ L \in Nat \ {0} /\ DOMAIN s = 1 .. L
      /\ DOMAIN t = 1 .. L + 1 /\ Len(t) = L + 1 /\ t[L + 1] = e
      /\ \A k \in 1 .. L : t[k] = s[k]
  BY DEF Basic
<1>2. e.phase = "entry" /\ e.entry = c
  BY DEF Called
<1> HIDE DEF t, L, e
<1>3. ASSUME NEW k \in 1 .. L
      PROVE  ChainOf(t, c, k) = ChainOf(s, c, k)
  <2>1. k # Len(t) /\ (k # L => k + 1 \in 1 .. L)
    BY <1>1
  <2> QED
    BY <1>1, <1>2, <2>1 DEF ChainOf, L
<1>4. Behindhand(P[e.fn], e) = {} /\ Awaits(P[e.fn], e) = {}
  BY <1>2 DEF Behindhand, Awaits
<1> QED
  BY <1>1, <1>3, <1>4 DEF Complete, t, e

-----------------------------------------------------------------------------
\* A return leaves the order of the other frames as it is ...
LEMMA ReturnOrdered ==
  ASSUME NEW P, NEW s, NEW c, NEW n, Basic(P, s, c, n), Len(s) > 1,
         NEW p, Ordered(P, s, c, p)
  PROVE  Ordered(P, SubSeq(s, 1, Len(s) - 1), c, p)
<1> DEFINE t == SubSeq(s, 1, Len(s) - 1)
<1>1. /\ Len(t) = Len(s) - 1
      /\ \A k \in DOMAIN t : k \in DOMAIN s /\ k # Len(s) /\ t[k] = s[k]
  BY DroppedFacts DEF Basic
<1> HIDE DEF t
<1>2. Undisturbed(P, t)
  BY <1>1 DEF Ordered, Undisturbed
<1>3. ASSUME NEW k \in DOMAIN t
      PROVE  InOrder(P[t[k].fn], t[k]) /\ Handles(P[t[k].fn], t[k], c, p, k = Len(t))
  <2>1. k # Len(s) /\ t[k] = s[k] /\ InOrder(P[s[k].fn], s[k])
    BY <1>1 DEF Ordered
  <2>2. Handles(P[s[k].fn], s[k], c, p, k = Len(s))
    BY <1>1 DEF Ordered
  <2>3. /\ s[k].phase \notin {"caught", "unwind"}
        /\ ~ (s[k].phase = "propagate" /\ P[s[k].fn][s[k].at] = "blockRecovers")
    BY <2>1, <2>2 DEF Handles
  <2> QED
    BY <2>1, <2>2, <2>3 DEF Handles
<1> QED
  BY <1>2, <1>3 DEF Ordered, t

\* ... and leaves nothing out if the chain is the one that the function found.
LEMMA ReturnComplete ==
  ASSUME NEW P, NEW s, NEW c, NEW n, Basic(P, s, c, n), Len(s) > 1,
         Complete(P, s, c), c = s[Len(s)].entry
  PROVE  Complete(P, SubSeq(s, 1, Len(s) - 1), c)
<1> DEFINE t == SubSeq(s, 1, Len(s) - 1)
<1>1. /\ Len(t) = Len(s) - 1 /\ Len(s) \in Nat
      /\ \A k \in DOMAIN t : k \in DOMAIN s /\ k # Len(s) /\ t[k] = s[k]
      /\ DOMAIN t = 1 .. Len(s) - 1
  BY DroppedFacts DEF Basic
<1> HIDE DEF t
<1>2. ASSUME NEW k \in DOMAIN t
      PROVE  ChainOf(t, c, k) = ChainOf(s, c, k)
  <2>1. CASE k = Len(t)
    <3>1. k + 1 = Len(s) /\ k # Len(s)
      BY <1>1, <2>1
    <3> QED
      BY <2>1, <3>1 DEF ChainOf
  <2>2. CASE k # Len(t)
    <3>1. k + 1 \in DOMAIN t /\ k # Len(s)
      BY <1>1, <2>2
    <3> QED
      BY <1>1, <2>2, <3>1 DEF ChainOf
  <2> QED
    BY <2>1, <2>2
<1> QED
  BY <1>1, <1>2 DEF Complete, t

-----------------------------------------------------------------------------
\* A panic starts in a body, or goes on from an activation that it unwinds.
Jumps(P, s, p) ==
  \/ s[Len(s)].phase = "body" /\ Panics(P, s[Len(s)].fn)
  \/ /\ p
     /\ s[Len(s)].phase = "propagate" \/ (s[Len(s)].phase = "unwind" /\ s[Len(s)].at = 0)

\* All the other activations are in their bodies then.
LEMMA OthersInBody ==
  ASSUME NEW P, NEW s, NEW c, NEW n, Basic(P, s, c, n),
         NEW p, Ordered(P, s, c, p), Jumps(P, s, p), NEW k \in DOMAIN s
  PROVE  \/ s[k].phase = "body"
         \/ k = Len(s) /\ p /\ s[k].phase \in {"propagate", "unwind"}
<1>1. Len(s) \in DOMAIN s /\ (k = Len(s) \/ k < Len(s))
  BY BasicTypes
<1>2. CASE k = Len(s)
  BY <1>2 DEF Jumps
<1>3. CASE k < Len(s)
  BY <1>1, <1>3 DEF Ordered, Undisturbed, Jumps, Unwinds
<1> QED
  BY <1>1, <1>2, <1>3

\* A panic is caught: the order ...
LEMMA JumpOrdered ==
  ASSUME NEW P, NEW s, NEW c, NEW n, Basic(P, s, c, n),
         NEW p, Ordered(P, s, c, p), Jumps(P, s, p),
         c # <<>>, NEW k \in DOMAIN s, s[k].act = c[1].act,
         NEW t, CaughtAt(t, s, k, c[1].of, n)
  PROVE  Ordered(P, t, c, TRUE)
<1>1. /\ Len(t) = k /\ DOMAIN t = 1 .. k /\ k \in Nat \ {0}
      /\ \A j \in 1 .. k : /\ j \in DOMAIN s
                           /\ t[j].fn = s[j].fn /\ t[j].act = s[j].act
                           /\ t[j].ran = s[j].ran /\ (j # k => t[j] = s[j])
      /\ t[k].phase = "caught" /\ t[k].at = c[1].of /\ k \in 1 .. k
  BY DEF CaughtAt
<1>2. 1 \in DOMAIN c /\ c[1].of \in Nat /\ s[k].at \in Nat
  BY BasicTypes
<1>3. \A j \in 1 .. k : j # k => j < k /\ t[j].phase = "body"
  <2> SUFFICES ASSUME NEW j \in 1 .. k, j # k PROVE j < k /\ t[j].phase = "body"
    OBVIOUS
  <2>1. j < k /\ k <= Len(s) /\ Len(s) \in Nat
    BY <1>1, BasicTypes
  <2> QED
    BY <1>1, <2>1, OthersInBody
<1>4. InOrder(P[t[k].fn], t[k])
  <2> DEFINE code == P[s[k].fn]
             f == s[k]
             g == t[k]
  <2> SUFFICES InOrder(code, g)
    BY <1>1
  <2>1. InOrder(code, f) /\ Handles(code, f, c, p, k = Len(s)) /\ g.ran = f.ran
    BY <1>1 DEF Ordered
  <2>2. DOMAIN code \subseteq Nat
    BY BasicTypes DEF Code
  <2>3. f.at \in Nat /\ g.at \in Nat /\ g.phase = "caught" /\ g.at = c[1].of
    BY <1>1, <1>2
  <2> HIDE DEF code, f, g
  <2>4. CASE f.phase = "body"
    BY <2>1, <2>4, NothingRan
  <2>5. CASE f.phase = "propagate" /\ p
    <3>1. g.at < f.at
      BY <1>2, <2>1, <2>3, <2>5 DEF Handles, f
    <3>2. ASSUME NEW i \in Done(g)
          PROVE  Behind(code, g, i) /\ code[i] # "blockRecovers"
      <4>1. i \in Done(f) /\ i \in DOMAIN code /\ code[i] \in Blocks /\ i >= f.at
        BY <2>1, <2>5 DEF InOrder, Behind, Done
      <4>2. i > g.at
        BY <2>2, <2>3, <3>1, <4>1
      <4>3. code[i] # "blockRecovers"
        BY <2>1, <2>5, <4>1 DEF InOrder, SinceRecover, Handles
      <4> QED
        BY <2>3, <4>1, <4>2, <4>3 DEF Behind
    <3>3. Descends(code, g)
      BY <2>1, <2>5 DEF InOrder, Descends
    <3> QED
      BY <3>2, <3>3 DEF InOrder
  <2>6. CASE f.phase = "unwind"
    BY <1>2, <2>1, <2>6 DEF Handles, f
  <2>7. f.phase = "body" \/ (f.phase = "propagate" /\ p) \/ f.phase = "unwind"
    BY OthersInBody DEF f
  <2> QED
    BY <2>4, <2>5, <2>6, <2>7
<1>5. ASSUME NEW j \in DOMAIN t
      PROVE  InOrder(P[t[j].fn], t[j]) /\ Handles(P[t[j].fn], t[j], c, TRUE, j = Len(t))
  <2>1. CASE j = k
    <3>1. Handles(P[t[k].fn], t[k], c, TRUE, k = Len(t))
      BY <1>1 DEF Handles
    <3> QED
      BY <1>4, <2>1, <3>1
  <2>2. CASE j # k
    <3>1. t[j].phase = "body" /\ InOrder(P[t[j].fn], t[j])
      BY <1>1, <1>3, <2>2 DEF Ordered
    <3>2. Handles(P[t[j].fn], t[j], c, TRUE, j = Len(t))
      BY <3>1 DEF Handles
    <3> QED
      BY <3>1, <3>2
  <2> QED
    BY <2>1, <2>2
<1>6. Undisturbed(P, t)
  <2> SUFFICES ASSUME NEW i \in DOMAIN t, NEW j \in DOMAIN t, i < j, t[i].phase # "body"
               PROVE  FALSE
    BY DEF Undisturbed
  <2>1. i = k
    BY <1>1, <1>3
  <2> QED
    BY <1>1, <2>1
<1> QED
  BY <1>5, <1>6 DEF Ordered

\* What a frame had on the chain that its callee found it has on the chain now.
LEMMA LinkedStays ==
  ASSUME NEW P, NEW s, NEW c, NEW n, Basic(P, s, c, n), Kept(P, s, c), NEW k \in DOMAIN s
  PROVE  Linked(s[k], ChainOf(s, c, k)) \subseteq Linked(s[k], c)
<1>1. CASE k = Len(s)
  BY <1>1 DEF ChainOf
<1>2. CASE k # Len(s)
  <2> DEFINE e == s[k + 1].entry
  <2>1. k + 1 \in DOMAIN s /\ ChainOf(s, c, k) = e
    BY <1>2, BasicTypes DEF ChainOf
  <2>2. /\ Len(e) \in Nat /\ DOMAIN e = 1 .. Len(e)
        /\ Len(c) \in Nat /\ DOMAIN c = 1 .. Len(c)
    BY <2>1, BasicTypes
  <2>3. Len(e) <= Len(c) /\ \A i \in 1 .. Len(e) : e[i] = c[Len(c) - Len(e) + i]
    BY <2>1 DEF Kept, Keeps
  <2> HIDE DEF e
  <2>4. \A i \in DOMAIN e : \E q \in DOMAIN c : c[q] = e[i]
    <3> SUFFICES ASSUME NEW i \in DOMAIN e PROVE \E q \in DOMAIN c : c[q] = e[i]
      OBVIOUS
    <3>1. Len(c) - Len(e) + i \in DOMAIN c
      BY <2>2, <2>3
    <3> QED
      BY <2>2, <2>3, <3>1
  <2>5. Linked(s[k], e) \subseteq Linked(s[k], c)
    <3> SUFFICES ASSUME NEW q \in DOMAIN e, e[q].act = s[k].act
                 PROVE  e[q].of \in Linked(s[k], c)
      BY DEF Linked
    <3>1. PICK r \in DOMAIN c : c[r] = e[q]
      BY <2>4
    <3> QED
      BY <3>1 DEF Linked
  <2> QED
    BY <2>1, <2>5
<1> QED
  BY <1>1, <1>2

\* The head of the chain is the last buffer of its frame.
LEMMA HeadIsLast ==
  ASSUME NEW P, NEW s, NEW c, NEW n, Basic(P, s, c, n), OwnSorted(c),
         c # <<>>, NEW k \in DOMAIN s, s[k].act = c[1].act
  PROVE  \A x \in Linked(s[k], c) : x \in Nat /\ x <= c[1].of
<1>1. /\ 1 \in DOMAIN c /\ DOMAIN c = 1 .. Len(c) /\ Len(c) \in Nat
      /\ s[k].act # 0 /\ \A q \in DOMAIN c : c[q].of \in Nat
  BY BasicTypes
<1> SUFFICES ASSUME NEW q \in DOMAIN c, c[q].act = s[k].act
             PROVE  c[q].of \in Nat /\ c[q].of <= c[1].of
  BY DEF Linked
<1>2. CASE q = 1
  BY <1>1, <1>2
<1>3. CASE q # 1
  <2>1. 1 < q
    BY <1>1, <1>3
  <2>2. c[q].of < c[1].of
    BY <1>1, <2>1 DEF OwnSorted
  <2> QED
    BY <1>1, <2>2
<1> QED
  BY <1>2, <1>3

\* ... and nothing is left out: between the head and the last block run, or the
\* statement the body had come to, there is no block.
LEMMA JumpComplete ==
  ASSUME NEW P, NEW s, NEW c, NEW n, Basic(P, s, c, n), Kept(P, s, c),
         NEW p, Ordered(P, s, c, p), Jumps(P, s, p), Complete(P, s, c),
         c # <<>>, NEW k \in DOMAIN s, s[k].act = c[1].act,
         NEW t, CaughtAt(t, s, k, c[1].of, n)
  PROVE  Complete(P, t, c)
<1> DEFINE code == P[s[k].fn]
           f == s[k]
           g == t[k]
           o == c[1].of
<1>1. /\ Len(t) = k /\ DOMAIN t = 1 .. k /\ k \in Nat \ {0} /\ k <= Len(s)
      /\ \A j \in 1 .. k : /\ j \in DOMAIN s
                           /\ t[j].fn = s[j].fn /\ t[j].act = s[j].act
                           /\ t[j].pc = s[j].pc /\ t[j].entry = s[j].entry
                           /\ t[j].ran = s[j].ran /\ (j # k => t[j] = s[j])
      /\ g.phase = "caught" /\ g.at = o /\ k \in 1 .. k
  BY DEF CaughtAt
<1>2. /\ 1 \in DOMAIN c /\ o \in Nat /\ Len(s) \in Nat
      /\ f.at \in Nat /\ f.pc \in Nat /\ DOMAIN code = 1 .. Len(code) /\ Len(code) \in Nat
  BY BasicTypes DEF Code
<1>3. HasLinked(code, f, o)
  BY <1>2 DEF Basic
<1>4. Awaits(code, f) \subseteq Linked(f, c)
  BY LinkedStays DEF Complete
<1>5. Behindhand(code, f) \subseteq Done(f) /\ Done(g) = Done(f)
  BY <1>1 DEF Complete, Done
<1>6. \A x \in Linked(f, c) : x \in Nat /\ x <= o
  BY HeadIsLast DEF Ordered
<1>7. f.phase = "body" \/ f.phase = "propagate" \/ f.phase = "unwind"
  BY OthersInBody
<1>8. Handles(code, f, c, p, k = Len(s))
  BY DEF Ordered
<1>9. f.act = c[1].act
  OBVIOUS
<1> HIDE DEF code, f, g, o
<1>10. Behindhand(code, g) = {j \in DOMAIN code : o < j /\ j < f.pc /\ code[j] \in Blocks}
  BY <1>1 DEF Behindhand, f, g
<1>11. Awaits(code, g) = BlocksBefore(code, o) \cup {0}
  BY <1>1 DEF Awaits
<1>12. ASSUME f.phase = "body"
       PROVE  /\ Behindhand(code, g) \subseteq Done(g)
              /\ Awaits(code, g) \subseteq Linked(f, c)
  <2>1. Awaits(code, f) = BlocksBefore(code, f.pc) \cup {0}
    BY <1>3, <1>12 DEF Awaits, HasLinked
  <2>2. Behindhand(code, g) = {}
    <3> SUFFICES ASSUME NEW j \in DOMAIN code, o < j, j < f.pc, code[j] \in Blocks
                 PROVE  FALSE
      BY <1>10
    <3>1. j \in Linked(f, c)
      BY <1>2, <1>4, <2>1 DEF BlocksBefore
    <3> QED
      BY <1>2, <1>6, <3>1
  <2>3. BlocksBefore(code, o) \subseteq BlocksBefore(code, f.pc)
    BY <1>2, <1>3 DEF HasLinked, BlocksBefore
  <2> QED
    BY <1>4, <1>11, <2>1, <2>2, <2>3
<1>13. ASSUME f.phase = "propagate"
       PROVE  /\ Behindhand(code, g) \subseteq Done(g)
              /\ Awaits(code, g) \subseteq Linked(f, c)
  <2>1. Awaits(code, f) = BlocksBefore(code, f.at) \cup {0}
    BY <1>13 DEF Awaits
  <2>2. o < f.at
    BY <1>2, <1>8, <1>9, <1>13 DEF Handles, o
  <2>3. ASSUME NEW j \in DOMAIN code, o < j, j < f.pc, code[j] \in Blocks
        PROVE  j \in Done(g)
    <3>1. CASE f.at <= j
      <4>1. j \in Behindhand(code, f)
        BY <1>13, <2>3, <3>1 DEF Behindhand
      <4> QED
        BY <1>5, <4>1
    <3>2. CASE ~ (f.at <= j)
      <4>1. j \in Linked(f, c)
        BY <1>2, <1>4, <2>1, <2>3, <3>2 DEF BlocksBefore
      <4> QED
        BY <1>2, <1>6, <2>3, <4>1
    <3> QED
      BY <3>1, <3>2
  <2>4. BlocksBefore(code, o) \subseteq BlocksBefore(code, f.at)
    BY <1>2, <2>2 DEF BlocksBefore
  <2> QED
    BY <1>4, <1>10, <1>11, <2>1, <2>3, <2>4
<1>14. ASSUME f.phase = "unwind"
       PROVE  /\ Behindhand(code, g) \subseteq Done(g)
              /\ Awaits(code, g) \subseteq Linked(f, c)
  BY <1>2, <1>8, <1>9, <1>14 DEF Handles
<1>15. /\ Behindhand(code, g) \subseteq Done(g)
       /\ Awaits(code, g) \subseteq Linked(f, c)
  BY <1>7, <1>12, <1>13, <1>14
<1>16. ASSUME NEW j \in DOMAIN t
       PROVE  /\ Behindhand(P[t[j].fn], t[j]) \subseteq Done(t[j])
              /\ Awaits(P[t[j].fn], t[j]) \subseteq Linked(t[j], ChainOf(t, c, j))
  <2>1. CASE j = k
    <3>1. ChainOf(t, c, k) = c /\ Linked(t[k], c) = Linked(f, c) /\ P[t[k].fn] = code
      BY <1>1 DEF ChainOf, Linked, f, code
    <3> QED
      BY <1>15, <2>1, <3>1 DEF g
  <2>2. CASE j # k
    <3>1. j \in DOMAIN s /\ t[j] = s[j] /\ j + 1 \in 1 .. k /\ j # Len(s) /\ j # Len(t)
      BY <1>1, <1>2, <2>2
    <3>2. ChainOf(t, c, j) = ChainOf(s, c, j)
      BY <1>1, <3>1 DEF ChainOf
    <3> QED
      BY <3>1, <3>2 DEF Complete
  <2> QED
    BY <2>1, <2>2
<1> QED
  BY <1>16 DEF Complete

-----------------------------------------------------------------------------
\* The two layers of some activations and a chain.
Orderly(s, c, p) == Ordered(program, s, c, p) /\ (Careful => Complete(program, s, c))

\* A state that runs on, of a program whose deferred actions end well.
Quiet == DInv /\ status = "running" /\ ~ActionsMayPanic

\* What is known of the activation that runs.
LEMMA QuietFacts ==
  ASSUME Quiet
  PROVE  /\ IInv /\ status = "running" /\ ~ActionsMayPanic
         /\ Basic(program, stack, chain, calls) /\ Orderly(stack, chain, panicking)
         /\ InOrder(Body, Top) /\ Handles(Body, Top, chain, panicking, TRUE)
         /\ OwnSorted(chain)
         /\ Careful => /\ Kept(program, stack, chain)
                       /\ Behindhand(Body, Top) \subseteq Done(Top)
                       /\ Awaits(Body, Top) \subseteq Linked(Top, chain)
<1>1. /\ IInv /\ status = "running" /\ ~ActionsMayPanic
      /\ Ordered(program, stack, chain, panicking)
      /\ Careful => Complete(program, stack, chain)
  BY DEF Quiet, DInv
<1>2. /\ Basic(program, stack, chain, calls)
      /\ Careful => Kept(program, stack, chain)
  BY <1>1 DEF IInv, Good, Careful
<1>3. Len(stack) \in DOMAIN stack /\ (Len(stack) = Len(stack)) = TRUE
  BY <1>2, BasicTypes
<1>4. /\ InOrder(Body, Top) /\ Handles(Body, Top, chain, panicking, TRUE)
      /\ OwnSorted(chain)
  BY <1>1, <1>3 DEF Ordered, Top, Body
<1>5. ASSUME Careful
      PROVE  /\ Behindhand(Body, Top) \subseteq Done(Top)
             /\ Awaits(Body, Top) \subseteq Linked(Top, chain)
  <2>1. ChainOf(stack, chain, Len(stack)) = chain
    BY DEF ChainOf
  <2> QED
    BY <1>1, <1>3, <1>5, <2>1 DEF Complete, Top, Body
<1> QED
  BY <1>1, <1>2, <1>4, <1>5 DEF Orderly

\* The top activation goes on as g.
LEMMA GoesOnOrderly ==
  ASSUME Quiet, NEW g \in Frame(calls), GoesOn(Top, g), Unwinds(g) => Unwinds(Top),
         NEW d, OwnSorted(d), Others(g, chain, d),
         NEW p, InOrder(Body, g), Handles(Body, g, d, p, TRUE),
         Careful => /\ Behindhand(Body, g) \subseteq Done(g)
                    /\ Awaits(Body, g) \subseteq Linked(g, d)
  PROVE  Orderly(Replaced(g), d, p)
<1>1. /\ Basic(program, stack, chain, calls) /\ Orderly(stack, chain, panicking)
      /\ program[g.fn] = Body /\ stack[Len(stack)] = Top
  BY QuietFacts DEF GoesOn, Top, Body
<1>2. Ordered(program, With(stack, g), d, p)
  BY <1>1, GoesOnOrdered DEF Orderly
<1>3. Careful => Complete(program, With(stack, g), d)
  BY <1>1, GoesOnComplete DEF Orderly
<1> QED
  BY <1>2, <1>3 DEF Orderly, With, Replaced

\* It goes on as g and calls.
LEMMA CallOrderly ==
  ASSUME Quiet, NEW g \in Frame(calls), NEW c, CallNext(g, c), MayCall(program, g),
         Basic(program, Replaced(g), c, calls), Orderly(Replaced(g), c, panicking)
  PROVE  Orderly(stack', chain', panicking')
<1>1. /\ stack' = Append(Replaced(g), Called(g.fn + 1, c, calls))
      /\ chain' = c /\ panicking' = panicking
  BY DEF CallNext, Activation, Called
<1>2. Replaced(g)[Len(Replaced(g))] = g
  <2>1. stack \in Seq(Frame(calls)) /\ stack # <<>>
    BY QuietFacts DEF Basic
  <2> QED
    BY <2>1, WithFacts DEF With, Replaced
<1> DEFINE s == Replaced(g)
           t == Append(s, Called(g.fn + 1, c, calls))
<1> HIDE DEF s
<1>3. Ordered(program, t, c, panicking)
  BY <1>2, CallOrdered DEF Orderly, s
<1>4. Careful => Complete(program, t, c)
  BY CallComplete DEF Orderly, s
<1> QED
  BY <1>1, <1>3, <1>4 DEF Orderly, s

\* An activation with a call among its actions calls none that panics.
LEMMA QuietCalls ==
  ASSUME Quiet, NEW i \in DOMAIN Body, Body[i] \in {"deferCall", "blockCalls"}
  PROVE  ~Panics(program, Top.fn + 1)
<1>1. /\ IInv /\ status = "running" /\ ~ActionsMayPanic
      /\ Basic(program, stack, chain, calls)
  BY QuietFacts
<1>2. Top.fn + 1 \in 1 .. N /\ Top.fn \in 1 .. N /\ Body \in Code
  BY <1>1, CallerIsNotLast, TopFacts DEF Calling
<1>3. Top.fn \in 1 .. N - 1
  BY <1>2, NAssumption
<1>4. i \in 1 .. Len(program[Top.fn]) /\ program[Top.fn][i] \in {"deferCall", "blockCalls"}
  BY <1>2 DEF Code, Body
<1>5. ~Has({"panic"}, Top.fn + 1)
  BY <1>1, <1>3, <1>4 DEF ActionsMayPanic
<1>6. \A f \in 1 .. N : DOMAIN program[f] = 1 .. Len(program[f])
  BY <1>1 DEF Basic, Code
<1> QED
  BY <1>5, <1>6 DEF Panics, Has

\* Taking buffers off the chain keeps the order of the others.
LEMMA UnlinkedSorted ==
  ASSUME Quiet, NEW m \in Nat, NEW g
  PROVE  /\ OwnSorted(Unlinked(chain, m)) /\ Others(g, chain, Unlinked(chain, m))
         /\ OwnSorted(chain) /\ Others(g, chain, chain)
<1>1. chain \in Seq(Buffers(calls)) /\ OwnSorted(chain)
  BY QuietFacts DEF Basic
<1> DEFINE d == Unlinked(chain, m)
<1>2. \A q \in DOMAIN d : q \in Nat /\ q + m \in DOMAIN chain /\ d[q] = chain[q + m]
  <2>1. /\ d \in Seq(Buffers(calls))
        /\ \A q \in DOMAIN d : q + m \in DOMAIN chain /\ d[q] = chain[q + m]
    BY <1>1, UnlinkedFacts
  <2>2. \A q \in DOMAIN d : q \in Nat
    BY <2>1
  <2> QED
    BY <2>1, <2>2
<1> HIDE DEF d
<1>3. \A q, r \in DOMAIN d : q < r => q + m < r + m
  BY <1>2
<1>4. OwnSorted(d)
  BY <1>1, <1>2, <1>3 DEF OwnSorted
<1>5. Others(g, chain, d)
  BY <1>2 DEF Others
<1> QED
  BY <1>1, <1>4, <1>5 DEF d, Others

\* The block of a deferred action, from activations and a chain in order.
LEMMA RunBlockOrderly ==
  ASSUME Quiet, NEW i \in DOMAIN Body, NEW g \in Frame(calls), NEW c, RunBlock(i, g, c),
         Body[i] = "blockCalls" => MayCall(program, g),
         Basic(program, Replaced(g), c, calls),
         NEW p, p = IF Body[i] = "blockRecovers" THEN FALSE ELSE panicking,
         Orderly(Replaced(g), c, p)
  PROVE  Orderly(stack', chain', panicking')
<1>1. CASE Body[i] = "block" /\ Continue(g, c)
  BY <1>1 DEF Continue
<1>2. CASE Body[i] = "blockCalls" /\ CallNext(g, c)
  <2>1. p = panicking
    BY <1>2
  <2> QED
    BY <1>2, <2>1, CallOrderly
<1>3. CASE Body[i] = "blockPanics"
  <2>1. ~ActionsMayPanic /\ Top.fn \in 1 .. N /\ DOMAIN Body = 1 .. Len(Body)
    BY QuietFacts, TopFacts DEF Code
  <2> QED
    BY <1>3, <2>1 DEF ActionsMayPanic, Has, Body
<1>4. CASE Body[i] = "blockRecovers" /\ Recover(g, c)
  BY <1>4 DEF Recover
<1> QED
  BY <1>1, <1>2, <1>3, <1>4 DEF RunBlock

\* A panic from activations and a chain in order.
LEMMA JumpOrderly ==
  ASSUME Quiet, LongJmp(stack, chain), Jumps(program, stack, panicking),
         status' = "running"
  PROVE  Orderly(stack', chain', panicking')
<1>1. /\ status = "running" /\ Basic(program, stack, chain, calls)
      /\ Ordered(program, stack, chain, panicking)
      /\ Careful => /\ Kept(program, stack, chain)
                    /\ Complete(program, stack, chain)
  BY QuietFacts DEF Orderly
<1>2. /\ chain # <<>> /\ chain' = chain /\ panicking' = TRUE
      /\ \E k \in DOMAIN stack : /\ stack[k].act = chain[1].act
                                 /\ CaughtAt(stack', stack, k, chain[1].of, calls)
  <2>1. \A how : Stop(how) => status' = how
    BY DEF Stop
  <2>2. ~Stop("abort") /\ ~Stop("uncaught") /\ ~Stop("wild")
    BY <2>1
  <2>3. \/ chain = <<>> /\ Stop("abort")
        \/ chain # <<>> /\ chain[1] = MainBuffer /\ Stop("uncaught")
        \/ chain # <<>> /\ ~Live(chain[1], stack) /\ Stop("wild")
        \/ /\ chain # <<>> /\ chain' = chain /\ panicking' = TRUE
           /\ UNCHANGED <<program, calls, status>>
           /\ \E k \in DOMAIN stack : /\ stack[k].act = chain[1].act
                                      /\ CaughtAt(stack', stack, k, chain[1].of, calls)
    BY <1>1, JumpOutcome
  <2> QED
    BY <2>2, <2>3
<1>3. PICK k \in DOMAIN stack : /\ stack[k].act = chain[1].act
                                /\ CaughtAt(stack', stack, k, chain[1].of, calls)
  BY <1>2
<1>4. Ordered(program, stack', chain, TRUE)
  BY <1>1, <1>2, <1>3, JumpOrdered
<1>5. Careful => Complete(program, stack', chain)
  BY <1>1, <1>2, <1>3, JumpComplete
<1> QED
  BY <1>2, <1>4, <1>5 DEF Orderly

-----------------------------------------------------------------------------
\* The body.  Nothing has run, so the order is that of the buffers alone.
LEMMA BodyOrderly ==
  ASSUME Quiet, Top.phase \in {"entry", "body"},
         NEW g \in Frame(calls), GoesOn(Top, g), g.phase \in {"body", "exit"},
         g.ran = Top.ran, NEW d, OwnSorted(d), Others(g, chain, d),
         Careful => /\ Behindhand(Body, g) = {}
                    /\ Awaits(Body, g) \subseteq Linked(g, d)
  PROVE  Orderly(Replaced(g), d, panicking)
<1>1. InOrder(Body, g)
  BY QuietFacts, NothingRan
<1>2. Handles(Body, g, d, panicking, TRUE) /\ ~Unwinds(g)
  BY DEF Handles, Unwinds
<1> QED
  BY <1>1, <1>2, GoesOnOrderly

\* A buffer of a later statement than the others of the activation is put on top.
LEMMA PushedSorted ==
  ASSUME Quiet, NEW i \in Nat,
         \A q \in DOMAIN chain : chain[q].act = Top.act => chain[q].of < i,
         NEW g, g.act = Top.act, NEW d, d = <<Buffer(i)>> \o chain
  PROVE  /\ OwnSorted(d) /\ Others(g, chain, d)
         /\ Linked(Top, chain) \cup {i} \subseteq Linked(g, d)
<1>1. /\ IInv /\ status = "running" /\ OwnSorted(chain)
  BY QuietFacts
<1>2. /\ Len(chain) \in Nat /\ DOMAIN chain = 1 .. Len(chain)
      /\ chain \in Seq(Buffers(calls))
  BY <1>1, TopFacts
<1>3. Buffer(i) \in Buffers(calls) /\ Buffer(i).act = Top.act /\ Buffer(i).of = i
  <2>1. Top.act \in 0 .. calls
    BY <1>1, TopFacts DEF Frame
  <2> QED
    BY <2>1 DEF Buffer, Buffers
<1>4. /\ Len(d) = Len(chain) + 1 /\ d \in Seq(Buffers(calls)) /\ d[1] = Buffer(i)
      /\ \A q \in DOMAIN chain : d[q + 1] = chain[q]
      /\ \A q \in DOMAIN d : q # 1 => q - 1 \in DOMAIN chain /\ d[q] = chain[q - 1]
  BY <1>2, <1>3, PushedFacts
<1>5. DOMAIN d = 1 .. Len(chain) + 1 /\ d[1].act = Top.act /\ d[1].of = i
  BY <1>3, <1>4
<1>6. OwnSorted(d)
  <2>1. \A q, r \in DOMAIN d : q # 1 /\ r # 1 /\ q < r => q - 1 < r - 1
    BY <1>2, <1>5
  <2>2. \A q \in DOMAIN d : q # 1 /\ d[q].act = d[1].act => d[q].of < d[1].of
    BY <1>4, <1>5
  <2>3. \A q, r \in DOMAIN d : q < r => r # 1
    BY <1>2, <1>5
  <2> SUFFICES ASSUME NEW q \in DOMAIN d, NEW r \in DOMAIN d,
                      q < r, d[q].act = d[r].act, d[q].act # 0
               PROVE  d[r].of < d[q].of
    BY DEF OwnSorted
  <2>4. CASE q = 1
    BY <2>2, <2>3, <2>4
  <2>5. CASE q # 1
    <3>1. /\ q - 1 \in DOMAIN chain /\ r - 1 \in DOMAIN chain /\ q - 1 < r - 1
          /\ d[q] = chain[q - 1] /\ d[r] = chain[r - 1]
      BY <1>4, <2>1, <2>3, <2>5
    <3> QED
      BY <1>1, <3>1 DEF OwnSorted
  <2> QED
    BY <2>4, <2>5
<1>7. Others(g, chain, d)
  BY <1>4, <1>5 DEF Others
<1>8. Linked(Top, chain) \cup {i} \subseteq Linked(g, d)
  <2>1. 1 \in DOMAIN d /\ \A q \in DOMAIN chain : q + 1 \in DOMAIN d
    BY <1>2, <1>5
  <2>2. i \in Linked(g, d)
    BY <1>5, <2>1 DEF Linked
  <2>3. \A q \in DOMAIN chain : chain[q].act = Top.act => chain[q].of \in Linked(g, d)
    BY <1>4, <2>1 DEF Linked
  <2> QED
    BY <2>2, <2>3 DEF Linked
<1> QED
  BY <1>6, <1>7, <1>8

\* Entering a function.
LEMMA EnterOrderly == ASSUME Quiet, Enter PROVE Orderly(stack', chain', panicking')
<1> DEFINE g == [Top EXCEPT !.phase = "body"]
           d == (IF HasHandler(Body) THEN <<Buffer(0)>> ELSE <<>>) \o chain
<1>1. /\ IInv /\ status = "running" /\ Top.phase = "entry" /\ Continue(g, d)
      /\ OwnSorted(chain)
  BY QuietFacts DEF Enter, Running
<1>2. /\ Top \in Frame(calls) /\ Top.pc = 1 /\ Body \in Code
      /\ chain \in Seq(Buffers(calls))
      /\ \A q \in DOMAIN chain : chain[q].act # Top.act
  BY <1>1, TopFacts DEF InPhase, HasLinked
<1>3. /\ g \in Frame(calls) /\ g.phase = "body" /\ g.pc = Top.pc /\ g.ran = Top.ran
      /\ g.fn = Top.fn /\ g.act = Top.act /\ g.entry = Top.entry
  BY <1>2 DEF Frame, Phases
<1> HIDE DEF g
<1>4. GoesOn(Top, g)
  BY <1>2, <1>3 DEF GoesOn
<1>5. Behindhand(Body, g) = {} /\ BlocksBefore(Body, g.pc) = {}
  BY <1>2, <1>3 DEF Behindhand, BlocksBefore, Code
<1>6. /\ OwnSorted(d) /\ Others(g, chain, d) /\ Awaits(Body, g) \subseteq Linked(g, d)
  <2>1. CASE HasHandler(Body)
    <3>1. d = <<Buffer(0)>> \o chain /\ Awaits(Body, g) = {0}
      BY <1>3, <1>5, <2>1 DEF Awaits
    <3> HIDE DEF d
    <3> QED
      BY <1>2, <1>3, <3>1, PushedSorted
  <2>2. CASE ~HasHandler(Body)
    <3>1. d = chain /\ Awaits(Body, g) = {}
      BY <1>2, <1>3, <1>5, <2>2 DEF Awaits
    <3> QED
      BY <3>1, UnlinkedSorted
  <2> QED
    BY <2>1, <2>2
<1> HIDE DEF d
<1>7. Orderly(Replaced(g), d, panicking)
  BY <1>1, <1>3, <1>4, <1>5, <1>6, BodyOrderly
<1> QED
  BY <1>1, <1>7 DEF Continue

\* Past a statement that links nothing.
LEMMA PastOrderly ==
  ASSUME Quiet, NEW K, Statement(K), K \cap Blocks = {}
  PROVE  Orderly(Replaced(Past), chain, panicking)
<1>1. /\ IInv /\ OwnSorted(chain)
      /\ Careful => Awaits(Body, Top) \subseteq Linked(Top, chain)
  BY QuietFacts
<1>2. /\ status = "running" /\ Top.phase = "body"
      /\ Top.pc \in DOMAIN Body /\ Body[Top.pc] \notin Blocks
      /\ Past \in Frame(calls) /\ GoesOn(Top, Past)
      /\ Past.phase = "body" /\ Past.pc = Top.pc + 1 /\ Past.ran = Top.ran
  BY <1>1, PastFacts
<1>3. Top.pc \in Nat /\ DOMAIN Body = 1 .. Len(Body) /\ Len(Body) \in Nat
  BY <1>1, <1>2, TopFacts DEF Code
<1>4. BlocksBefore(Body, Past.pc) = BlocksBefore(Body, Top.pc)
  BY <1>2, <1>3 DEF BlocksBefore
<1>5. Awaits(Body, Past) = Awaits(Body, Top) /\ Linked(Past, chain) = Linked(Top, chain)
  BY <1>2, <1>4 DEF Awaits, Linked, GoesOn
<1>6. Behindhand(Body, Past) = {}
  BY <1>2 DEF Behindhand
<1>7. Others(Past, chain, chain)
  BY UnlinkedSorted
<1> QED
  BY <1>1, <1>2, <1>5, <1>6, <1>7, BodyOrderly

\* A destructor or a deferred call is noted, and a condition is false.
LEMMA RegisterOrderly ==
  ASSUME Quiet, Register \/ SkipStatement PROVE Orderly(stack', chain', panicking')
<1>1. "destructible" \notin Blocks /\ "deferCall" \notin Blocks
      /\ "panic" \notin Blocks /\ "return" \notin Blocks
  BY DEF Blocks
<1>2. Orderly(Replaced(Past), chain, panicking) /\ Continue(Past, chain)
  BY <1>1, PastOrderly DEF Register, SkipStatement
<1> QED
  BY <1>2 DEF Continue

\* A call leaves the caller past the statement, in its body.
LEMMA CallStatementOrderly ==
  ASSUME Quiet, CallStatement PROVE Orderly(stack', chain', panicking')
<1>1. /\ IInv /\ Statement({"call"}) /\ CallNext(Past, chain)
      /\ {"call"} \cap Blocks = {}
  BY QuietFacts DEF CallStatement, Blocks
<1>2. Orderly(Replaced(Past), chain, panicking)
  BY <1>1, PastOrderly
<1>3. Basic(program, Replaced(Past), chain, calls)
  BY <1>1, PastGood DEF Good
<1>4. MayCall(program, Past) /\ Past \in Frame(calls)
  BY <1>1, PastFacts DEF MayCall
<1> QED
  BY <1>1, <1>2, <1>3, <1>4, CallOrderly

\* A deferred block's buffer is of a later statement than those linked before.
LEMMA DeferBlockOrderly ==
  ASSUME Quiet, DeferBlock PROVE Orderly(stack', chain', panicking')
<1> DEFINE d == <<Buffer(Top.pc)>> \o chain
<1>1. /\ IInv /\ Statement(Blocks) /\ Continue(Past, d)
      /\ Careful => Awaits(Body, Top) \subseteq Linked(Top, chain)
  BY QuietFacts DEF DeferBlock
<1>2. /\ status = "running" /\ Top.phase = "body"
      /\ Top.pc \in DOMAIN Body /\ Body[Top.pc] \in Blocks
      /\ Past \in Frame(calls) /\ GoesOn(Top, Past)
      /\ Past.phase = "body" /\ Past.pc = Top.pc + 1 /\ Past.ran = Top.ran
  BY <1>1, PastFacts
<1>3. Top.pc \in Nat \ {0} /\ Body \in Code /\ DOMAIN Body = 1 .. Len(Body) /\ Len(Body) \in Nat
  BY <1>1, <1>2, TopFacts DEF Code
<1>4. \A q \in DOMAIN chain : chain[q].act = Top.act => chain[q].of < Top.pc
  BY <1>1, <1>2, <1>3, TopFacts DEF HasLinked
<1>5. /\ OwnSorted(d) /\ Others(Past, chain, d)
      /\ Linked(Top, chain) \cup {Top.pc} \subseteq Linked(Past, d)
  BY <1>2, <1>3, <1>4, PushedSorted DEF GoesOn
<1>6. Awaits(Body, Past) \subseteq Awaits(Body, Top) \cup {Top.pc}
  <2>1. BlocksBefore(Body, Past.pc) \subseteq BlocksBefore(Body, Top.pc) \cup {Top.pc}
    BY <1>2, <1>3 DEF BlocksBefore
  <2> QED
    BY <1>2, <2>1 DEF Awaits
<1>7. Behindhand(Body, Past) = {}
  BY <1>2 DEF Behindhand
<1> HIDE DEF d
<1>8. Orderly(Replaced(Past), d, panicking)
  BY <1>1, <1>2, <1>5, <1>6, <1>7, BodyOrderly
<1> QED
  BY <1>1, <1>8 DEF Continue

\* A panic statement.
LEMMA PanicStatementOrderly ==
  ASSUME Quiet, PanicStatement, status' = "running"
  PROVE  Orderly(stack', chain', panicking')
<1>1. /\ IInv /\ Statement({"panic"}) /\ LongJmp(stack, chain)
  BY QuietFacts DEF PanicStatement
<1>2. /\ status = "running" /\ Top.phase = "body"
      /\ Top.pc \in DOMAIN Body /\ Body[Top.pc] \in {"panic"}
  BY <1>1, PastFacts
<1>3. Top.fn \in 1 .. N /\ Top.fn >= Top.fn
  BY <1>1, <1>2, TopFacts, NAssumption
<1>4. Jumps(program, stack, panicking)
  BY <1>2, <1>3 DEF Jumps, Panics, Top, Body
<1> QED
  BY <1>1, <1>4, JumpOrderly

-----------------------------------------------------------------------------
\* Leaving a body for its exit, with or without the buffers it should take off.
LEMMA LeaveBodyOrderly ==
  ASSUME Quiet, Running("body"), NEW m \in Nat, LeaveBody(m), status' = "running"
  PROVE  Orderly(stack', chain', panicking')
<1> DEFINE d == Unlinked(chain, m + Own(Body))
<1>1. m + Own(Body) \in Nat /\ IInv /\ Top.phase = "body"
  BY QuietFacts DEF Own, Running
<1>2. IF UnlinkReadsLive(chain, m + Own(Body)) THEN Continue(Leaving, d) ELSE Stop("wild")
  BY DEF LeaveBody, Unlink, Leaving, Own
<1>3. Continue(Leaving, d)
  BY <1>2 DEF Stop
<1>4. /\ Leaving \in Frame(calls) /\ GoesOn(Top, Leaving)
      /\ Leaving.phase = "exit" /\ Leaving.ran = Top.ran
      /\ Leaving.at = LastBefore(Body, Len(Body) + 1, Deferred)
  BY <1>1, LeavingFacts
<1>5. OwnSorted(d) /\ Others(Leaving, chain, d)
  BY <1>1, UnlinkedSorted
<1>6. Behindhand(Body, Leaving) = {} /\ Awaits(Body, Leaving) = {}
  <2>1. /\ Body \in Code /\ Len(Body) + 1 \in Nat /\ DOMAIN Body = 1 .. Len(Body)
        /\ Len(Body) \in Nat
    BY <1>1, TopFacts DEF Code, Running
  <2>2. /\ Leaving.at \in Nat
        /\ \A j \in DOMAIN Body : j < Len(Body) + 1 /\ Body[j] \in Deferred => j <= Leaving.at
    BY <1>4, <2>1, LastBeforeFacts
  <2>3. \A j \in DOMAIN Body : ~ (j > Leaving.at /\ Body[j] \in Deferred)
    BY <2>1, <2>2
  <2> QED
    BY <1>4, <2>3 DEF Behindhand, Awaits
<1> HIDE DEF d
<1>7. Orderly(Replaced(Leaving), d, panicking)
  BY <1>1, <1>4, <1>5, <1>6, BodyOrderly
<1> QED
  BY <1>3, <1>7 DEF Continue

\* At a return or at the end.
LEMMA LeavesOrderly ==
  ASSUME Quiet, ReturnStatement \/ FallOff, status' = "running"
  PROVE  Orderly(stack', chain', panicking')
<1>1. CASE ReturnStatement
  <2> DEFINE n == Cardinality({i \in 1 .. Top.pc - 1 : Body[i] \in Blocks})
  <2>1. Running("body") /\ LeaveBody(n)
    BY <1>1 DEF ReturnStatement, Statement
  <2>2. n \in Nat
    <3>1. Top.pc - 1 \in Int
      BY QuietFacts, TopFacts
    <3>2. IsFiniteSet(1 .. Top.pc - 1)
      BY <3>1, FS_Interval
    <3>3. IsFiniteSet({i \in 1 .. Top.pc - 1 : Body[i] \in Blocks})
      BY <3>2, FS_Subset
    <3> QED
      BY <3>3, FS_CardinalityType
  <2> QED
    BY <2>1, <2>2, LeaveBodyOrderly
<1>2. CASE FallOff
  BY <1>2, LeaveBodyOrderly DEF FallOff
<1> QED
  BY <1>1, <1>2

-----------------------------------------------------------------------------
\* No action is left out of ran for want of room.
LEMMA ThisRuns ==
  ASSUME Quiet, Top.at \in DOMAIN Body
  PROVE  WithThis = Append(Top.ran, Top.at) /\ Top.ran \in Seq(Nat)
<1>1. Body \in Code /\ Top.ran \in Seq(Nat) /\ InOrder(Body, Top)
  BY QuietFacts, TopFacts DEF Frame
<1>2. Body # <<>>
  OBVIOUS
<1>3. Len(Top.ran) < MaxRan
  BY <1>1, <1>2, RanFits DEF MaxRan
<1> QED
  BY <1>1, <1>3 DEF WithThis

\* An action on the way out, the chain being d.
LEMMA ExitOrderly ==
  ASSUME Quiet, NEW K, K \subseteq Deferred, Action("exit", K),
         NEW d, OwnSorted(d), Others(Ran(Deferred), chain, d), NEW p
  PROVE  Orderly(Replaced(Ran(Deferred)), d, p)
<1> DEFINE g == Ran(Deferred)
<1>1. /\ IInv /\ status = "running" /\ Running("exit") /\ Top.phase = "exit" /\ Top.at > 0
      /\ Body[Top.at] \in Deferred /\ InOrder(Body, Top)
      /\ Careful => Behindhand(Body, Top) \subseteq Done(Top)
  BY QuietFacts DEF Action, Running
<1>2. Top.at \in DOMAIN Body /\ Body \in Code
  BY <1>1, TopFacts DEF InPhase, At
<1>3. /\ g \in Frame(calls) /\ GoesOn(Top, g) /\ g.phase = "exit"
      /\ g.at = LastBefore(Body, Top.at, Deferred)
      /\ g.ran = Append(Top.ran, Top.at) /\ Top.ran \in Seq(Nat)
  BY <1>1, <1>2, RanFacts, ThisRuns
<1> HIDE DEF g
<1>4. /\ InOrder(Body, g)
      /\ Behindhand(Body, Top) \subseteq Done(Top) => Behindhand(Body, g) \subseteq Done(g)
  BY <1>1, <1>2, <1>3, ExitRuns
<1>5. Handles(Body, g, d, p, TRUE) /\ ~Unwinds(g) /\ Awaits(Body, g) = {}
  BY <1>3 DEF Handles, Unwinds, Awaits
<1> QED
  BY <1>1, <1>3, <1>4, <1>5, GoesOnOrderly DEF g

\* A destructor on the way out ...
LEMMA ExitDestroyOrderly ==
  ASSUME Quiet, ExitDestroy PROVE Orderly(stack', chain', panicking')
<1>1. Action("exit", {"destructible"}) /\ Continue(Ran(Deferred), chain)
  BY DEF ExitDestroy
<1>2. {"destructible"} \subseteq Deferred
  BY DEF Deferred
<1>3. Orderly(Replaced(Ran(Deferred)), chain, panicking)
  BY <1>1, <1>2, UnlinkedSorted, ExitOrderly
<1> QED
  BY <1>1, <1>3 DEF Continue

\* ... a deferred call ...
LEMMA ExitCallOrderly ==
  ASSUME Quiet, ExitCall PROVE Orderly(stack', chain', panicking')
<1>1. Action("exit", {"deferCall"}) /\ CallNext(Ran(Deferred), chain)
  BY DEF ExitCall
<1>2. /\ {"deferCall"} \subseteq Deferred /\ Body[Top.at] = "deferCall"
      /\ Body[Top.at] \notin Blocks /\ IInv /\ status = "running"
      /\ Running("exit") /\ Top.phase = "exit" /\ Top.at > 0
  BY <1>1, QuietFacts DEF Deferred, Blocks, Action, Running
<1>3. Orderly(Replaced(Ran(Deferred)), chain, panicking)
  BY <1>1, <1>2, UnlinkedSorted, ExitOrderly
<1>4. Good(Replaced(Ran(Deferred)), Unlinked(chain, 0), panicking, calls)
  BY <1>1, <1>2, ExitGood
<1>5. /\ Unlinked(chain, 0) = chain /\ Top.at \in DOMAIN Body
      /\ Ran(Deferred) \in Frame(calls)
      /\ Ran(Deferred).fn = Top.fn /\ Ran(Deferred).phase = "exit"
  BY <1>2, TopFacts, RanFacts DEF Unlinked, InPhase, At
<1>6. MayCall(program, Ran(Deferred))
  BY <1>2, <1>5, QuietCalls DEF MayCall
<1>7. Basic(program, Replaced(Ran(Deferred)), chain, calls)
  BY <1>4, <1>5 DEF Good
<1> QED
  BY <1>1, <1>3, <1>5, <1>6, <1>7, CallOrderly

\* ... and a block, its buffer off the chain before it runs.
LEMMA ExitBlockOrderly ==
  ASSUME Quiet, ExitBlock, status' = "running" PROVE Orderly(stack', chain', panicking')
<1> DEFINE d == Unlinked(chain, 1)
           p == IF Body[Top.at] = "blockRecovers" THEN FALSE ELSE panicking
<1>1. /\ Action("exit", Blocks)
      /\ IF UnlinkReadsLive(chain, 1)
           THEN RunBlock(Top.at, Ran(Deferred), d)
           ELSE Stop("wild")
  BY DEF ExitBlock, Unlink
<1>2. RunBlock(Top.at, Ran(Deferred), d)
  BY <1>1 DEF Stop
<1>3. /\ Blocks \subseteq Deferred /\ Body[Top.at] \in Blocks /\ IInv /\ status = "running"
      /\ Running("exit") /\ Top.phase = "exit" /\ Top.at > 0
  BY <1>1, QuietFacts DEF Deferred, Action, Running
<1>4. OwnSorted(d) /\ Others(Ran(Deferred), chain, d)
  BY UnlinkedSorted
<1>5. Good(Replaced(Ran(Deferred)), d, panicking, calls)
  BY <1>1, <1>3, ExitGood
<1>6. /\ Top.at \in DOMAIN Body /\ Ran(Deferred) \in Frame(calls)
      /\ Ran(Deferred).fn = Top.fn /\ Ran(Deferred).phase = "exit"
  BY <1>3, TopFacts, RanFacts DEF InPhase, At
<1>7. Body[Top.at] = "blockCalls" => MayCall(program, Ran(Deferred))
  BY <1>6, QuietCalls DEF MayCall
<1>8. Basic(program, Replaced(Ran(Deferred)), d, calls)
  BY <1>5 DEF Good
<1> HIDE DEF d, p
<1>9. Orderly(Replaced(Ran(Deferred)), d, p)
  BY <1>1, <1>3, <1>4, ExitOrderly
<1> QED
  BY <1>2, <1>6, <1>7, <1>8, <1>9, RunBlockOrderly DEF p

\* A function returns to its caller.
LEMMA ReturnOrderly ==
  ASSUME Quiet, Return, status' = "running" PROVE Orderly(stack', chain', panicking')
<1>1. /\ Running("exit") /\ Top.phase = "exit" /\ Top.at = 0
      /\ stack' = SubSeq(stack, 1, Len(stack) - 1)
      /\ status' = IF Len(stack) = 1 THEN "returned" ELSE status
      /\ UNCHANGED <<program, chain, panicking, calls>>
  BY DEF Return, Running
<1>2. /\ IInv /\ status = "running" /\ Basic(program, stack, chain, calls)
      /\ Ordered(program, stack, chain, panicking)
      /\ Careful => Complete(program, stack, chain)
  BY QuietFacts DEF Orderly
<1>3. Len(stack) > 1
  <2>1. Len(stack) \in Nat \ {0} /\ Len(stack) # 1
    BY <1>1, <1>2, TopFacts
  <2>2. \A l \in Nat \ {0} : l # 1 => l > 1
    OBVIOUS
  <2> QED
    BY <2>1, <2>2
<1> DEFINE t == SubSeq(stack, 1, Len(stack) - 1)
<1>4. Ordered(program, t, chain, panicking)
  BY <1>2, <1>3, ReturnOrdered
<1>5. Careful => Complete(program, t, chain)
  <2>1. Careful => chain = stack[Len(stack)].entry
    BY <1>1, <1>2, ReturningChain DEF Careful, Top
  <2> QED
    BY <1>2, <1>3, <2>1, ReturnComplete
<1> HIDE DEF t
<1>6. stack' = t
  BY <1>1 DEF t
<1> QED
  BY <1>1, <1>4, <1>5, <1>6 DEF Orderly

-----------------------------------------------------------------------------
\* The head of the chain is the buffer that the frame in a handler jumped to;
\* the others of the frame are of earlier statements.
LEMMA CaughtHead ==
  ASSUME Quiet, Top.phase = "caught"
  PROVE  /\ Len(chain) \in Nat \ {0} /\ DOMAIN chain = 1 .. Len(chain)
         /\ chain \in Seq(Buffers(calls))
         /\ chain[1].act = Top.act /\ chain[1].of = Top.at
         /\ \A q \in DOMAIN chain : q # 1 /\ chain[q].act = Top.act =>
              chain[q].of \in Nat /\ chain[q].of < Top.at
         /\ \A q \in DOMAIN Unlinked(chain, 1) :
              q + 1 \in DOMAIN chain /\ q + 1 # 1 /\ Unlinked(chain, 1)[q] = chain[q + 1]
<1>1. /\ IInv /\ status = "running" /\ Handles(Body, Top, chain, panicking, TRUE)
      /\ OwnSorted(chain)
  BY QuietFacts
<1>2. /\ chain \in Seq(Buffers(calls)) /\ DOMAIN chain = 1 .. Len(chain) /\ Top.act # 0
      /\ \A q \in DOMAIN chain : chain[q].of \in Nat
  BY <1>1, TopFacts
<1>3. chain # <<>> /\ chain[1].act = Top.act /\ chain[1].of = Top.at
  BY <1>1 DEF Handles
<1>4. Len(chain) \in Nat \ {0}
  BY <1>2, <1>3
<1>5. ASSUME NEW q \in DOMAIN chain, q # 1, chain[q].act = Top.act
      PROVE  chain[q].of \in Nat /\ chain[q].of < Top.at
  <2>1. 1 \in DOMAIN chain /\ 1 < q
    BY <1>2, <1>4, <1>5
  <2> QED
    BY <1>1, <1>2, <1>3, <1>5, <2>1 DEF OwnSorted
<1> DEFINE d == Unlinked(chain, 1)
<1>6. d \in Seq(Buffers(calls)) /\ \A q \in DOMAIN d : q + 1 \in DOMAIN chain /\ d[q] = chain[q + 1]
  BY <1>2, UnlinkedFacts, ZenonT(30)
<1>7. \A q \in DOMAIN d : q + 1 # 1
  BY <1>6
<1> QED
  BY <1>2, <1>3, <1>4, <1>5, <1>6, <1>7

\* The panic handler of a block.
LEMMA CatchInBlockOrderly ==
  ASSUME Quiet, CatchInBlock, status' = "running"
  PROVE  Orderly(stack', chain', panicking')
<1> DEFINE g == [Top EXCEPT !.phase = "propagate", !.ran = WithThis]
           d == Unlinked(chain, 1)
           p == IF Body[Top.at] = "blockRecovers" THEN FALSE ELSE panicking
<1>1. /\ Top.phase = "caught" /\ status = "running" /\ Top.at > 0 /\ Body[Top.at] \in Blocks
      /\ IF UnlinkReadsLive(chain, 1)
           THEN RunBlock(Top.at, g, d)
           ELSE Stop("wild")
  BY DEF CatchInBlock, Unlink, Action, Running
<1>2. RunBlock(Top.at, g, d)
  BY <1>1 DEF Stop
<1>3. /\ IInv /\ Basic(program, stack, chain, calls)
      /\ InOrder(Body, Top) /\ Handles(Body, Top, chain, panicking, TRUE)
      /\ Careful => /\ Behindhand(Body, Top) \subseteq Done(Top)
                    /\ Awaits(Body, Top) \subseteq Linked(Top, chain)
  BY QuietFacts
<1>4. /\ Top \in Frame(calls) /\ Top.pc \in Nat /\ Top.at \in Nat \ {0} /\ Body \in Code
      /\ Top.pc <= Len(Body) + 1 /\ Top.at \in DOMAIN Body
  BY <1>1, <1>3, TopFacts DEF InPhase, At
<1>5. WithThis = Append(Top.ran, Top.at) /\ Top.ran \in Seq(Nat) /\ WithThis \in Seq(Nat)
  BY <1>4, ThisRuns, SMTT(30)
<1>6. /\ g \in Frame(calls) /\ g.phase = "propagate" /\ g.at = Top.at /\ g.pc = Top.pc
      /\ g.fn = Top.fn /\ g.act = Top.act /\ g.entry = Top.entry
      /\ g.ran = Append(Top.ran, Top.at)
  BY <1>4, <1>5 DEF Frame, Phases
<1> HIDE DEF g, p
<1>7. GoesOn(Top, g) /\ InPhase(Body, g) /\ (Unwinds(g) => Unwinds(Top))
  BY <1>1, <1>4, <1>6 DEF GoesOn, InPhase, At, Unwinds
<1>8. /\ InOrder(Body, g)
      /\ Behindhand(Body, Top) \subseteq Done(Top) => Behindhand(Body, g) \subseteq Done(g)
  BY <1>1, <1>3, <1>4, <1>5, <1>6, CatchRuns
<1>9. OwnSorted(d) /\ Others(g, chain, d)
  BY UnlinkedSorted
<1>10. /\ \A q \in DOMAIN d : q + 1 \in DOMAIN chain /\ q + 1 # 1 /\ d[q] = chain[q + 1]
       /\ \A q \in DOMAIN chain : q # 1 /\ chain[q].act = Top.act => chain[q].of < Top.at
  BY <1>1, CaughtHead
<1>11. Handles(Body, g, d, p, TRUE)
  <2>1. \A q \in DOMAIN d : d[q].act = g.act => d[q].of < g.at
    BY <1>6, <1>10
  <2>2. Body[g.at] = "blockRecovers" => ~p
    BY <1>6 DEF p
  <2> QED
    BY <1>6, <2>1, <2>2 DEF Handles
<1>12. ASSUME Careful
       PROVE  Awaits(Body, g) \subseteq Linked(g, d)
  <2>1. /\ Awaits(Body, Top) = BlocksBefore(Body, Top.at) \cup {0}
        /\ Awaits(Body, g) = BlocksBefore(Body, Top.at) \cup {0}
    BY <1>1, <1>6 DEF Awaits
  <2>2. Top.at \notin Awaits(Body, g)
    BY <1>4, <2>1 DEF BlocksBefore
  <2> SUFFICES ASSUME NEW q \in DOMAIN chain, chain[q].act = Top.act, chain[q].of # Top.at
               PROVE  chain[q].of \in Linked(g, d)
    BY <1>3, <1>12, <2>1, <2>2 DEF Linked
  <2>3. q # 1 /\ q \in 1 .. Len(chain) /\ Len(chain) \in Nat \ {0}
    BY <1>1, CaughtHead
  <2>4. q - 1 \in DOMAIN d /\ (q - 1) + 1 = q
    <3>1. Len(d) = Len(chain) - 1 /\ DOMAIN d = 1 .. Len(d)
      <4>1. chain \in Seq(Buffers(calls)) /\ 1 <= Len(chain)
        BY <1>1, <2>3, CaughtHead
      <4>2. d \in Seq(Buffers(calls)) /\ Len(d) = Len(chain) - 1
        BY <4>1, UnlinkedFacts
      <4> QED
        BY <4>2
    <3> QED
      BY <2>3, <3>1
  <2>5. d[q - 1] = chain[q]
    BY <1>10, <2>4
  <2> QED
    BY <1>6, <2>4, <2>5 DEF Linked
<1>13. Basic(program, Replaced(g), d, calls)
  <2>1. GoesOn(stack[Len(stack)], g) /\ InPhase(program[g.fn], g)
    BY <1>6, <1>7 DEF Top, Body
  <2>2. Basic(program, With(stack, g), d, calls)
    BY <1>3, <1>6, <2>1, PopBasic
  <2> QED
    BY <2>2 DEF With, Replaced
<1>14. Body[Top.at] = "blockCalls" => MayCall(program, g)
  BY <1>4, <1>6, QuietCalls DEF MayCall, Body
<1> HIDE DEF d
<1>15. Orderly(Replaced(g), d, p)
  BY <1>3, <1>6, <1>7, <1>8, <1>9, <1>11, <1>12, GoesOnOrderly
<1> QED
  BY <1>2, <1>4, <1>6, <1>13, <1>14, <1>15, RunBlockOrderly DEF p

\* The panic handler of the function.
LEMMA CatchInFunctionOrderly ==
  ASSUME Quiet, CatchInFunction, status' = "running"
  PROVE  Orderly(stack', chain', panicking')
<1> DEFINE a == LastBefore(Body, Len(Body) + 1, {"destructible"})
           g == [Top EXCEPT !.phase = "unwind", !.at = a]
           d == Unlinked(chain, 1)
<1>1. /\ Top.phase = "caught" /\ status = "running" /\ Top.at = 0
      /\ IF UnlinkReadsLive(chain, 1) THEN Continue(g, d) ELSE Stop("wild")
  BY DEF CatchInFunction, Unlink, Running
<1>2. Continue(g, d)
  BY <1>1 DEF Stop
<1>3. /\ IInv /\ InOrder(Body, Top) /\ Handles(Body, Top, chain, panicking, TRUE)
      /\ Careful => Behindhand(Body, Top) \subseteq Done(Top)
  BY QuietFacts
<1>4. /\ Top \in Frame(calls) /\ Top.pc \in Nat /\ Body \in Code /\ Len(Body) + 1 \in Nat
      /\ Top.pc <= Len(Body) + 1 /\ DOMAIN Body = 1 .. Len(Body) /\ Len(Body) \in Nat
  BY <1>1, <1>3, TopFacts DEF InPhase, Code
<1>5. /\ a \in Nat
      /\ \A j \in DOMAIN Body : j < Len(Body) + 1 /\ Body[j] \in {"destructible"} => j <= a
  BY <1>4, LastBeforeFacts
<1> HIDE DEF a
<1>6. /\ g \in Frame(calls) /\ g.phase = "unwind" /\ g.at = a /\ g.pc = Top.pc
      /\ g.fn = Top.fn /\ g.act = Top.act /\ g.entry = Top.entry /\ g.ran = Top.ran
  BY <1>4, <1>5 DEF Frame, Phases
<1> HIDE DEF g
<1>7. GoesOn(Top, g) /\ (Unwinds(g) => Unwinds(Top))
  BY <1>1, <1>4, <1>6 DEF GoesOn, Unwinds
<1>8. InOrder(Body, g)
  <2>1. Descends(Body, g)
    BY <1>1, <1>3, <1>6 DEF InOrder, Descends
  <2>2. ASSUME NEW i \in Done(g)
        PROVE  Behind(Body, g, i) /\ Body[i] # "blockRecovers"
    <3>1. i \in Done(Top) /\ ~SinceRecover(Body, Top, i)
      BY <1>1, <1>6, <2>2 DEF Done, SinceRecover
    <3>2. Behind(Body, Top, i) /\ Body[i] # "blockRecovers"
      BY <1>3, <3>1 DEF InOrder
    <3> QED
      BY <1>1, <1>6, <3>2 DEF Behind
  <2> QED
    BY <2>1, <2>2 DEF InOrder
<1>9. OwnSorted(d) /\ Others(g, chain, d)
  BY UnlinkedSorted
<1>10. \A q \in DOMAIN d : d[q].act # g.act
  <2> SUFFICES ASSUME NEW q \in DOMAIN d, d[q].act = Top.act PROVE FALSE
    BY <1>6
  <2>1. chain[q + 1].of \in Nat /\ chain[q + 1].of < 0
    BY <1>1, CaughtHead
  <2> QED
    BY <2>1
<1>11. Handles(Body, g, d, panicking, TRUE)
  BY <1>1, <1>3, <1>6, <1>10 DEF Handles
<1>12. ASSUME Careful
       PROVE  Behindhand(Body, g) \subseteq Done(g) /\ Awaits(Body, g) = {}
  <2>1. \A j \in DOMAIN Body : j \in Nat \ {0} /\ ~ (a < j /\ Body[j] = "destructible")
    BY <1>4, <1>5
  <2>2. Behindhand(Body, g) \subseteq Behindhand(Body, Top)
    BY <1>1, <1>6, <2>1 DEF Behindhand
  <2> QED
    BY <1>3, <1>6, <1>12, <2>2 DEF Done, Awaits
<1> HIDE DEF d
<1>13. Orderly(Replaced(g), d, panicking)
  BY <1>6, <1>7, <1>8, <1>9, <1>11, <1>12, GoesOnOrderly
<1> QED
  BY <1>2, <1>13 DEF Continue

\* The destructors of a function that a panic goes through.
LEMMA UnwindDestroyOrderly ==
  ASSUME Quiet, UnwindDestroy PROVE Orderly(stack', chain', panicking')
<1> DEFINE g == Ran({"destructible"})
<1>1. /\ Running("unwind") /\ Top.phase = "unwind" /\ Top.at > 0
      /\ Body[Top.at] = "destructible" /\ Continue(g, chain)
  BY DEF UnwindDestroy, Action, Running
<1>2. /\ IInv /\ status = "running" /\ InOrder(Body, Top)
      /\ Handles(Body, Top, chain, panicking, TRUE)
      /\ Careful => Behindhand(Body, Top) \subseteq Done(Top)
  BY QuietFacts
<1>3. Top.at \in DOMAIN Body /\ Body \in Code
  BY <1>1, <1>2, TopFacts DEF InPhase, At
<1>4. /\ g \in Frame(calls) /\ GoesOn(Top, g) /\ g.phase = "unwind"
      /\ g.act = Top.act /\ g.pc = Top.pc
      /\ g.at = LastBefore(Body, Top.at, {"destructible"})
      /\ g.ran = Append(Top.ran, Top.at) /\ Top.ran \in Seq(Nat)
  BY <1>1, <1>2, <1>3, RanFacts, ThisRuns
<1> HIDE DEF g
<1>5. /\ InOrder(Body, g)
      /\ Behindhand(Body, Top) \subseteq Done(Top) => Behindhand(Body, g) \subseteq Done(g)
  BY <1>1, <1>2, <1>3, <1>4, UnwindRuns
<1>6. Handles(Body, g, chain, panicking, TRUE) /\ (Unwinds(g) => Unwinds(Top))
  BY <1>1, <1>2, <1>4 DEF Handles, Unwinds
<1>7. Awaits(Body, g) = {}
  BY <1>4 DEF Awaits
<1>8. Orderly(Replaced(g), chain, panicking)
  BY <1>2, <1>4, <1>5, <1>6, <1>7, UnlinkedSorted, GoesOnOrderly
<1> QED
  BY <1>1, <1>8 DEF Continue

\* The panic goes on, or, after a recover, the function goes to its exit.
LEMMA PropagateOrderly ==
  ASSUME Quiet, Propagate, status' = "running" PROVE Orderly(stack', chain', panicking')
<1> DEFINE a == LastBefore(Body, Top.at, Deferred)
           g == [Top EXCEPT !.phase = "exit", !.at = a]
<1>1. /\ Top.phase = "propagate" \/ (Top.phase = "unwind" /\ Top.at = 0)
      /\ IF panicking THEN LongJmp(stack, chain) ELSE Continue(g, chain)
  BY DEF Propagate, Running
<1>2. /\ IInv /\ status = "running" /\ InOrder(Body, Top)
      /\ Handles(Body, Top, chain, panicking, TRUE)
  BY QuietFacts
<1>3. CASE panicking
  <2>1. Jumps(program, stack, panicking)
    BY <1>1, <1>3 DEF Jumps, Top
  <2> QED
    BY <1>1, <1>3, <2>1, JumpOrderly
<1>4. CASE ~panicking
  <2>1. Top.phase = "propagate" /\ Continue(g, chain)
    BY <1>1, <1>2, <1>4 DEF Handles
  <2>2. /\ Top \in Frame(calls) /\ Top.pc \in Nat /\ Top.at \in DOMAIN Body /\ Top.at \in Nat
        /\ Body \in Code /\ Body[Top.at] \in Blocks /\ DOMAIN Body \subseteq Nat
    BY <1>2, <2>1, TopFacts DEF InPhase, At, Code
  <2>3. /\ a \in Nat /\ (a = 0 \/ a < Top.at)
        /\ \A j \in DOMAIN Body : j < Top.at /\ Body[j] \in Deferred => j <= a
    BY <2>2, LastBeforeFacts
  <2>4. a < Top.at /\ \A j \in DOMAIN Body : a < j /\ Body[j] \in Deferred => Top.at <= j
    <3>1. Top.at # 0
      BY <2>2 DEF Code
    <3> QED
      BY <2>2, <2>3, <3>1
  <2> HIDE DEF a
  <2>5. /\ g \in Frame(calls) /\ g.phase = "exit" /\ g.at = a /\ g.pc = Top.pc
        /\ g.fn = Top.fn /\ g.act = Top.act /\ g.entry = Top.entry /\ g.ran = Top.ran
    BY <2>2, <2>3 DEF Frame, Phases
  <2> HIDE DEF g
  <2>6. GoesOn(Top, g) /\ ~Unwinds(g)
    BY <2>2, <2>5 DEF GoesOn, Unwinds
  <2>7. Done(g) = Done(Top)
    BY <2>5 DEF Done
  <2>8. InOrder(Body, g)
    <3>1. Descends(Body, g)
      BY <1>2, <2>1, <2>5 DEF InOrder, Descends
    <3>2. ASSUME NEW i \in Done(g)
          PROVE  Behind(Body, g, i)
      <4>1. i \in DOMAIN Body /\ Body[i] \in Blocks /\ i >= Top.at
        BY <1>2, <2>1, <2>7, <3>2 DEF InOrder, Behind
      <4>2. i > a /\ Body[i] \in Deferred
        BY <2>2, <2>3, <2>4, <4>1 DEF Deferred
      <4> QED
        BY <2>5, <4>1, <4>2 DEF Behind
    <3>3. ASSUME NEW i \in Done(g), Body[i] = "blockRecovers"
          PROVE  SinceRecover(Body, g, i)
      <4>1. i = Top.at
        BY <1>2, <2>1, <2>7, <3>3 DEF InOrder, SinceRecover
      <4>2. \A j \in DOMAIN Body : a < j /\ j <= i /\ Body[j] \in Deferred => j = i
        BY <2>2, <2>4, <4>1
      <4> QED
        BY <2>5, <3>3, <4>2 DEF SinceRecover
    <3> QED
      BY <3>1, <3>2, <3>3 DEF InOrder
  <2>9. Handles(Body, g, chain, panicking, TRUE)
    BY <2>5 DEF Handles
  <2>10. ~Careful
    BY <1>2, <1>4, <2>1, TopUnrecovered DEF Careful, Unwinds
  <2>11. Orderly(Replaced(g), chain, panicking)
    BY <1>2, <2>5, <2>6, <2>8, <2>9, <2>10, UnlinkedSorted, GoesOnOrderly
  <2> QED
    BY <2>1, <2>11 DEF Continue
<1> QED
  BY <1>3, <1>4

-----------------------------------------------------------------------------
\* A program starts with nothing run and nothing linked.
LEMMA InitOrderly == ASSUME Init PROVE DInv
<1> DEFINE f == [fn |-> 1, act |-> 1, phase |-> "entry", pc |-> 1, at |-> 0,
                 entry |-> <<MainBuffer>>, ran |-> <<>>]
<1>1. f.phase = "entry" /\ f.ran = <<>> /\ f.act = 1
  OBVIOUS
<1> HIDE DEF f
<1>2. /\ stack = <<f>> /\ chain = <<MainBuffer>> /\ MainBuffer.act = 0
      /\ Len(<<f>>) = 1 /\ DOMAIN <<f>> = {1} /\ <<f>>[1] = f
      /\ DOMAIN <<MainBuffer>> = {1} /\ <<MainBuffer>>[1] = MainBuffer
  BY DEF Init, f, MainBuffer
<1>3. OwnSorted(chain)
  BY <1>2 DEF OwnSorted
<1>4. Undisturbed(program, stack)
  BY <1>2 DEF Undisturbed
<1>5. InOrder(program[f.fn], f)
  BY <1>1 DEF InOrder, Descends, Done, Acts
<1>6. Handles(program[f.fn], f, chain, panicking, TRUE)
  BY <1>1, <1>2 DEF Handles
<1>7. Behindhand(program[f.fn], f) = {} /\ Awaits(program[f.fn], f) = {}
  BY <1>1 DEF Behindhand, Awaits
<1>8. Ordered(program, stack, chain, panicking)
  <2>1. (1 = Len(stack)) = TRUE
    BY <1>2
  <2> QED
    BY <1>2, <1>3, <1>4, <1>5, <1>6, <2>1 DEF Ordered
<1>9. Complete(program, stack, chain)
  BY <1>2, <1>7 DEF Complete
<1> QED
  BY <1>8, <1>9, InitEstablishes DEF DInv

\* No step changes the program or what is said of it.
LEMMA ProgramStays ==
  ASSUME IInv, [Next]_vars
  PROVE  /\ program' = program
         /\ ActionsMayPanic' <=> ActionsMayPanic
         /\ Careful' <=> Careful
<1>1. program' = program
  BY DEF Next, Enter, Register, DeferBlock, CallStatement, PanicStatement, SkipStatement,
         ReturnStatement, FallOff, ExitDestroy, ExitCall, ExitBlock, Return,
         CatchInBlock, CatchInFunction, UnwindDestroy, Propagate, Stopped, LeaveBody,
         RunBlock, LongJmp, Continue, CallNext, Recover, Stop, Unlink, vars
<1> QED
  BY <1>1 DEF ActionsMayPanic, Careful, Recovers, ReturnsPastBlocks, Has

\* Every step keeps the order: one case for each action.
LEMMA StepOrderly == ASSUME DInv, [Next]_vars PROVE DInv'
<1>1. IInv'
  BY StepPreserves DEF DInv
<1>2. /\ program' = program
      /\ ActionsMayPanic' <=> ActionsMayPanic
      /\ Careful' <=> Careful
  BY ProgramStays DEF DInv
<1>3. CASE ActionsMayPanic \/ status' # "running"
  BY <1>1, <1>2, <1>3 DEF DInv
<1>4. CASE ~ActionsMayPanic /\ status' = "running"
  <2>1. Orderly(stack', chain', panicking') => DInv'
    BY <1>1, <1>2 DEF DInv, Orderly
  <2>2. CASE UNCHANGED vars
    <3>1. UNCHANGED <<stack, chain, panicking, status>>
      BY <2>2 DEF vars
    <3>2. Orderly(stack, chain, panicking)
      BY <1>4, <3>1 DEF DInv, Orderly
    <3> QED
      BY <2>1, <3>1, <3>2
  <2>3. CASE Next /\ status # "running"
    <3>1. UNCHANGED status
      BY <1>4, <2>3 DEF Next, Enter, Register, DeferBlock, CallStatement, PanicStatement,
         SkipStatement, ReturnStatement, FallOff, ExitDestroy, ExitCall, ExitBlock, Return,
         CatchInBlock, CatchInFunction, UnwindDestroy, Propagate, Stopped,
         Statement, Action, Running, vars
    <3> QED
      BY <1>4, <2>3, <3>1
  <2>4. CASE Next /\ status = "running"
    <3>1. Quiet
      BY <1>4, <2>4 DEF Quiet
    <3>2. Orderly(stack', chain', panicking')
      BY <1>4, <2>4, <3>1, EnterOrderly, RegisterOrderly, DeferBlockOrderly,
         CallStatementOrderly, PanicStatementOrderly, LeavesOrderly, ExitDestroyOrderly,
         ExitCallOrderly, ExitBlockOrderly, ReturnOrderly, CatchInBlockOrderly,
         CatchInFunctionOrderly, UnwindDestroyOrderly, PropagateOrderly
         DEF Next, Stopped
    <3> QED
      BY <2>1, <3>2
  <2> QED
    BY <2>2, <2>3, <2>4
<1> QED
  BY <1>3, <1>4

\* The order holds in every state of every program whose actions end well, and
\* nothing is left out in those that are careful besides.
THEOREM OrderInvariance == Spec => []DInv
<1>1. Init => DInv
  BY InitOrderly
<1>2. DInv /\ [Next]_vars => DInv'
  BY StepOrderly
<1> QED
  BY <1>1, <1>2, PTL DEF Spec

-----------------------------------------------------------------------------
\* The activations that a step ends.  None, if it only moves the top one on ...
Stays ==
  /\ status' = status
  /\ \A k \in DOMAIN stack : \E m \in 1 .. Len(stack') : stack'[m].act = stack[k].act

LEMMA GoesOnStays ==
  ASSUME Quiet, NEW g \in Frame(calls), g.act = Top.act, NEW c,
         Continue(g, c) \/ CallNext(g, c) \/ Recover(g, c)
  PROVE  Stays
<1>1. Basic(program, stack, chain, calls)
  BY QuietFacts
<1> DEFINE s == Replaced(g)
<1>2. /\ stack \in Seq(Frame(calls)) /\ stack # <<>>
      /\ s \in Seq(Frame(calls)) /\ Len(s) = Len(stack)
      /\ DOMAIN stack = 1 .. Len(stack) /\ Len(stack) \in Nat
      /\ \A k \in 1 .. Len(stack) : s[k].act = stack[k].act
  <2>1. stack \in Seq(Frame(calls)) /\ stack # <<>>
    BY <1>1 DEF Basic
  <2>2. /\ s \in Seq(Frame(calls)) /\ Len(s) = Len(stack) /\ s[Len(stack)] = g
        /\ \A k \in DOMAIN stack : k # Len(stack) => s[k] = stack[k]
    BY <2>1, WithFacts DEF With, Replaced
  <2> HIDE DEF s
  <2> QED
    BY <2>1, <2>2 DEF Top
<1> HIDE DEF s
<1>3. CASE stack' = s /\ status' = status
  BY <1>2, <1>3 DEF Stays
<1>4. ASSUME NEW e, stack' = Append(s, e), status' = status
      PROVE  Stays
  <2>1. /\ Len(stack') = Len(stack) + 1
        /\ \A k \in 1 .. Len(stack) : stack'[k] = s[k]
    BY <1>2, <1>4
  <2>2. \A k \in 1 .. Len(stack) : k \in 1 .. Len(stack')
    BY <1>2, <2>1
  <2> QED
    BY <1>2, <1>4, <2>1, <2>2 DEF Stays
<1> QED
  BY <1>3, <1>4 DEF Continue, CallNext, Recover, s

\* ... nor if it runs a block, which ends well.
LEMMA RunBlockStays ==
  ASSUME Quiet, NEW i \in DOMAIN Body, NEW g \in Frame(calls), g.act = Top.act,
         NEW c, RunBlock(i, g, c)
  PROVE  Stays
<1>1. Body[i] # "blockPanics"
  <2>1. ~ActionsMayPanic /\ Top.fn \in 1 .. N /\ DOMAIN Body = 1 .. Len(Body)
    BY QuietFacts, TopFacts DEF Code
  <2> QED
    BY <2>1 DEF ActionsMayPanic, Has, Body
<1> QED
  BY <1>1, GoesOnStays DEF RunBlock

\* So activations end by a return or a panic, or when the program goes wild.
LEMMA StepEnds ==
  ASSUME Quiet, Next
  PROVE  \/ Stays
         \/ status' = "wild"
         \/ Return
         \/ LongJmp(stack, chain) /\ Jumps(program, stack, panicking)
<1>1. IInv /\ status = "running"
  BY QuietFacts
<1>2. Top \in Frame(calls) /\ Top.at \in Nat /\ Top.pc \in Nat /\ Body \in Code
  BY <1>1, TopFacts
<1>3. \A h : Stop(h) => status' = h
  BY DEF Stop
<1>4. CASE Enter
  <2> DEFINE g == [Top EXCEPT !.phase = "body"]
  <2>1. g \in Frame(calls) /\ g.act = Top.act
    BY <1>2 DEF Frame, Phases
  <2> QED
    BY <1>4, <2>1, GoesOnStays DEF Enter
<1>5. CASE Register \/ DeferBlock \/ CallStatement \/ SkipStatement
  <2>1. Past \in Frame(calls) /\ Past.act = Top.act
    BY <1>1, <1>5, PastFacts
       DEF Register, DeferBlock, CallStatement, SkipStatement, GoesOn
  <2> QED
    BY <1>5, <2>1, GoesOnStays DEF Register, DeferBlock, CallStatement, SkipStatement
<1>6. CASE PanicStatement
  <2>1. /\ Statement({"panic"}) /\ LongJmp(stack, chain)
    BY <1>6 DEF PanicStatement
  <2>2. Top.phase = "body" /\ Top.pc \in DOMAIN Body /\ Body[Top.pc] \in {"panic"}
    BY <1>1, <2>1, PastFacts
  <2>3. Top.fn \in 1 .. N /\ Top.fn >= Top.fn
    BY <1>1, TopFacts, NAssumption
  <2> QED
    BY <2>1, <2>2, <2>3 DEF Jumps, Panics, Top, Body
<1>7. CASE ReturnStatement \/ FallOff
  <2>1. PICK m : LeaveBody(m) /\ Running("body")
    BY <1>7 DEF ReturnStatement, FallOff, Statement
  <2>2. Continue(Leaving, Unlinked(chain, m + Own(Body))) \/ Stop("wild")
    BY <2>1 DEF LeaveBody, Unlink, Leaving, Own
  <2>3. Leaving \in Frame(calls) /\ Leaving.act = Top.act
    BY <1>1, <2>1, LeavingFacts
  <2> QED
    BY <1>3, <2>2, <2>3, GoesOnStays
<1>8. CASE ExitDestroy \/ ExitCall \/ ExitBlock
  <2>1. Running("exit") /\ Top.at \in DOMAIN Body
    BY <1>1, <1>8, TopFacts
       DEF ExitDestroy, ExitCall, ExitBlock, Action, Running, InPhase, At
  <2>2. Ran(Deferred) \in Frame(calls) /\ Ran(Deferred).act = Top.act
    BY <1>1, <2>1, RanFacts
  <2>3. \/ Continue(Ran(Deferred), chain) \/ CallNext(Ran(Deferred), chain)
        \/ RunBlock(Top.at, Ran(Deferred), Unlinked(chain, 1))
        \/ Stop("wild")
    BY <1>8 DEF ExitDestroy, ExitCall, ExitBlock, Unlink
  <2> QED
    BY <1>3, <2>1, <2>2, <2>3, GoesOnStays, RunBlockStays
<1>9. CASE CatchInBlock
  <2> DEFINE g == [Top EXCEPT !.phase = "propagate", !.ran = WithThis]
  <2>1. Top.at \in DOMAIN Body
    BY <1>1, <1>9, TopFacts DEF CatchInBlock, Action, Running, InPhase, At
  <2>2. WithThis \in Seq(Nat)
    <3>1. WithThis = Append(Top.ran, Top.at) /\ Top.ran \in Seq(Nat)
      BY <2>1, ThisRuns
    <3> QED
      BY <1>2, <3>1
  <2>3. g \in Frame(calls) /\ g.act = Top.act
    BY <1>2, <2>2 DEF Frame, Phases
  <2>4. RunBlock(Top.at, g, Unlinked(chain, 1)) \/ Stop("wild")
    BY <1>9 DEF CatchInBlock, Unlink
  <2> HIDE DEF g
  <2> QED
    BY <1>3, <2>1, <2>3, <2>4, RunBlockStays
<1>10. CASE CatchInFunction
  <2> DEFINE a == LastBefore(Body, Len(Body) + 1, {"destructible"})
             g == [Top EXCEPT !.phase = "unwind", !.at = a]
  <2>1. Continue(g, Unlinked(chain, 1)) \/ Stop("wild")
    BY <1>10 DEF CatchInFunction, Unlink
  <2>2. a \in Nat
    <3>1. Len(Body) + 1 \in Nat
      BY <1>2 DEF Code
    <3> QED
      BY <1>2, <3>1, LastBeforeFacts
  <2> HIDE DEF a
  <2>3. g \in Frame(calls) /\ g.act = Top.act
    BY <1>2, <2>2 DEF Frame, Phases
  <2> HIDE DEF g
  <2> QED
    BY <1>3, <2>1, <2>3, GoesOnStays
<1>11. CASE UnwindDestroy
  <2>1. Running("unwind") /\ Continue(Ran({"destructible"}), chain)
    BY <1>11 DEF UnwindDestroy, Action
  <2>2. Ran({"destructible"}) \in Frame(calls) /\ Ran({"destructible"}).act = Top.act
    BY <1>1, <2>1, RanFacts
  <2> QED
    BY <2>1, <2>2, GoesOnStays
<1>12. CASE Propagate
  <2> DEFINE a == LastBefore(Body, Top.at, Deferred)
             g == [Top EXCEPT !.phase = "exit", !.at = a]
  <2>1. /\ Top.phase = "propagate" \/ (Top.phase = "unwind" /\ Top.at = 0)
        /\ IF panicking THEN LongJmp(stack, chain) ELSE Continue(g, chain)
    BY <1>12 DEF Propagate, Running
  <2>2. a \in Nat
    BY <1>2, LastBeforeFacts
  <2> HIDE DEF a
  <2>3. g \in Frame(calls) /\ g.act = Top.act
    BY <1>2, <2>2 DEF Frame, Phases
  <2> HIDE DEF g
  <2>4. panicking => Jumps(program, stack, panicking)
    BY <2>1 DEF Jumps, Top
  <2> QED
    BY <2>1, <2>3, <2>4, GoesOnStays
<1> QED
  BY <1>1, <1>4, <1>5, <1>6, <1>7, <1>8, <1>9, <1>10, <1>11, <1>12 DEF Next, Stopped

-----------------------------------------------------------------------------
\* The order in which an activation has run what was due.
LEMMA RanInOrder ==
  ASSUME NEW f, NEW due, NEW code, code = program[f.fn],
         Descends(code, f), due \subseteq Done(f),
         \/ f.phase # "unwind"
         \/ \A i, j \in due : code[i] \in Blocks => code[j] \in Blocks
  PROVE  RanBackwards(f, due)
<1>1. due \subseteq ToSet(f.ran)
  BY DEF ToSet, Done, Acts
<1>2. \A p, q \in DOMAIN f.ran :
        p < q /\ f.ran[p] \in due /\ f.ran[q] \in due => f.ran[q] < f.ran[p]
  BY DEF Descends
<1> QED
  BY <1>1, <1>2 DEF RanBackwards

\* A return ends the activation that returns.
LEMMA ReturnEnds ==
  ASSUME Quiet, Return, NEW k \in 1 .. Len(stack), Leaves(k)
  PROVE  k = Len(stack) /\ Returns(k) /\ stack[k] = Top
<1>1. /\ Running("exit") /\ Top.at = 0
      /\ stack' = SubSeq(stack, 1, Len(stack) - 1)
      /\ status' = IF Len(stack) = 1 THEN "returned" ELSE status
  BY DEF Return
<1>2. Basic(program, stack, chain, calls) /\ Len(stack) \in Nat \ {0}
  BY QuietFacts, BasicTypes
<1>3. k = Len(stack)
  <2> SUFFICES ASSUME k # Len(stack) PROVE FALSE
    OBVIOUS
  <2>1. k \in 1 .. Len(stack) - 1 /\ Len(stack) > 1
    BY <1>2
  <2>2. Len(stack') = Len(stack) - 1 /\ stack'[k] = stack[k]
    <3>1. stack \in Seq(Frame(calls))
      BY <1>2 DEF Basic
    <3> QED
      BY <1>1, <2>1, <3>1
  <2>3. status' = status
    BY <1>1, <2>1
  <2> QED
    BY <2>1, <2>2, <2>3 DEF Leaves
<1> QED
  BY <1>1, <1>3 DEF Returns, Top

\* On return, all that is deferred has run.
LEMMA ReturnedRan ==
  ASSUME Quiet, Return, Careful, NEW kinds, kinds \subseteq Deferred
  PROVE  RanBackwards(Top, Registered(Top, kinds))
<1>1. /\ IInv /\ status = "running" /\ InOrder(Body, Top)
      /\ Behindhand(Body, Top) \subseteq Done(Top)
      /\ Top.phase = "exit" /\ Top.at = 0
  BY QuietFacts DEF Return, Running
<1>2. Body \in Code /\ Top.pc \in Nat /\ Top.pc <= Len(Body) + 1
  BY <1>1, TopFacts DEF InPhase
<1>3. Registered(Top, kinds) \subseteq Behindhand(Body, Top)
  <2> SUFFICES ASSUME NEW i \in 1 .. Top.pc - 1, Body[i] \in kinds
               PROVE  i \in Behindhand(Body, Top)
    BY DEF Registered, Body
  <2>1. i \in DOMAIN Body /\ i > 0
    BY <1>2 DEF Code
  <2> QED
    BY <1>1, <2>1 DEF Behindhand
<1> QED
  BY <1>1, <1>3, RanInOrder DEF InOrder, Body

\* An activation that a panic ends has no buffer left on the chain.
LEMMA NothingLinked ==
  ASSUME Quiet, Careful, LongJmp(stack, chain), NEW k \in 1 .. Len(stack), Leaves(k)
  PROVE  Linked(stack[k], chain) = {}
<1>1. /\ Basic(program, stack, chain, calls) /\ status = "running"
      /\ Unrecovered(program, stack, chain, panicking)
  BY QuietFacts DEF IInv, Good, Careful
<1>2. /\ DOMAIN stack = 1 .. Len(stack) /\ DOMAIN chain = 1 .. Len(chain)
      /\ Len(chain) \in Nat /\ Len(stack) \in Nat
      /\ \A q \in DOMAIN chain : chain[q].act \in Nat
      /\ \A j \in DOMAIN stack : stack[j].act \in Nat \ {0}
  BY <1>1, BasicTypes
<1>3. \A q \in DOMAIN chain : 1 \in DOMAIN chain /\ chain[q].act <= chain[1].act
  <2> SUFFICES ASSUME NEW q \in DOMAIN chain
               PROVE  1 \in DOMAIN chain /\ chain[q].act <= chain[1].act
    OBVIOUS
  <2>1. 1 \in DOMAIN chain /\ (q = 1 \/ 1 < q)
    BY <1>2
  <2> QED
    BY <1>1, <1>2, <2>1 DEF Unrecovered, Sorted
<1>4. \/ chain = <<>> /\ Stop("abort")
      \/ chain # <<>> /\ chain[1] = MainBuffer /\ Stop("uncaught")
      \/ chain # <<>> /\ ~Live(chain[1], stack) /\ Stop("wild")
      \/ /\ chain # <<>> /\ chain' = chain /\ panicking' = TRUE
         /\ UNCHANGED <<program, calls, status>>
         /\ \E j \in DOMAIN stack : /\ stack[j].act = chain[1].act
                                    /\ CaughtAt(stack', stack, j, chain[1].of, calls)
  BY <1>1, JumpOutcome
<1>5. CASE chain = <<>>
  BY <1>5 DEF Linked
<1>6. CASE chain # <<>> /\ chain[1] = MainBuffer
  <2>1. \A q \in DOMAIN chain : chain[q].act = 0
    BY <1>2, <1>3, <1>6 DEF MainBuffer
  <2> QED
    BY <1>2, <2>1 DEF Linked
<1>7. CASE chain # <<>> /\ ~Live(chain[1], stack)
  <2>1. 1 \in DOMAIN chain
    BY <1>1, <1>7 DEF Basic
  <2> QED
    BY <1>1, <1>7, <2>1 DEF Unrecovered
<1>8. ASSUME status' = status,
             NEW j \in DOMAIN stack, stack[j].act = chain[1].act,
             CaughtAt(stack', stack, j, chain[1].of, calls)
      PROVE  Linked(stack[k], chain) = {}
  <2>1. /\ Len(stack') = j /\ \A m \in 1 .. j : stack'[m].act = stack[m].act
    BY <1>8 DEF CaughtAt
  <2>2. \A m \in 1 .. j : stack[m].act # stack[k].act
    BY <1>8, <2>1 DEF Leaves
  <2>3. j < k
    BY <1>2, <2>2
  <2>4. chain[1].act < stack[k].act
    BY <1>1, <1>2, <1>8, <2>3 DEF Basic
  <2>5. \A q \in DOMAIN chain : chain[q].act # stack[k].act
    BY <1>2, <1>3, <2>4
  <2> QED
    BY <2>5 DEF Linked
<1> QED
  BY <1>4, <1>5, <1>6, <1>7, <1>8

\* Then it has run its blocks, and its destructors.
LEMMA UnwoundRan ==
  ASSUME Quiet, Careful, Jumps(program, stack, panicking), NEW k \in 1 .. Len(stack),
         Linked(stack[k], chain) = {}, NEW kinds, kinds \in {Blocks, {"destructible"}}
  PROVE  RanBackwards(stack[k], Registered(stack[k], kinds))
<1> DEFINE f == stack[k]
           code == program[stack[k].fn]
           due == Registered(stack[k], kinds)
<1>1. /\ Basic(program, stack, chain, calls) /\ Kept(program, stack, chain)
      /\ Ordered(program, stack, chain, panicking) /\ Complete(program, stack, chain)
  BY QuietFacts DEF Orderly
<1>2. k \in DOMAIN stack
  BY <1>1, BasicTypes
<1>3. /\ code \in Code /\ f.pc \in Nat /\ f.pc <= Len(code) + 1
      /\ InOrder(code, f) /\ Behindhand(code, f) \subseteq Done(f)
  BY <1>1, <1>2, BasicTypes DEF Basic, InPhase, Ordered, Complete
<1>4. Awaits(code, f) = {}
  BY <1>1, <1>2, LinkedStays DEF Complete
<1>5. \/ f.phase = "body"
      \/ k = Len(stack) /\ panicking /\ f.phase \in {"propagate", "unwind"}
  BY <1>1, <1>2, OthersInBody
<1>6. f.phase = "unwind" => f.at = 0
  BY <1>5 DEF Jumps
<1>7. due \subseteq {i \in DOMAIN code : i > 0 /\ i < f.pc /\ code[i] \in kinds}
  BY <1>3 DEF Registered, Code
<1> HIDE DEF f, code, due
<1>8. CASE f.phase = "body"
  <2>1. ~HasHandler(code)
    BY <1>4, <1>8 DEF Awaits
  <2>2. \A i \in DOMAIN code : code[i] \notin Deferred
    BY <1>3, <2>1 DEF HasHandler, Code
  <2>3. due = {}
    BY <1>7, <2>2 DEF Deferred
  <2> QED
    BY <1>3, <1>8, <2>3, RanInOrder DEF InOrder, f, code, due
<1>9. CASE f.phase = "propagate"
  BY <1>4, <1>9 DEF Awaits
<1>10. CASE f.phase = "unwind"
  <2>1. due \subseteq Behindhand(code, f)
    BY <1>6, <1>7, <1>10 DEF Behindhand
  <2>2. \A i, j \in due : code[i] \in Blocks => code[j] \in Blocks
    BY <1>7 DEF Blocks
  <2> QED
    BY <1>3, <2>1, <2>2, RanInOrder DEF InOrder, f, code, due
<1> QED
  BY <1>5, <1>8, <1>9, <1>10

\* A step that ends an activation is one of a program that runs.
LEMMA EndsRunning ==
  ASSUME DInv, Next, ~ActionsMayPanic, NEW k \in 1 .. Len(stack), Leaves(k)
  PROVE  Quiet
<1> SUFFICES ASSUME status # "running" PROVE FALSE
  BY DEF Quiet
<1>1. UNCHANGED <<stack, status>>
  BY DEF Next, Enter, Register, DeferBlock, CallStatement, PanicStatement,
         SkipStatement, ReturnStatement, FallOff, ExitDestroy, ExitCall, ExitBlock, Return,
         CatchInBlock, CatchInFunction, UnwindDestroy, Propagate, Stopped,
         Statement, Action, Running, vars
<1> QED
  BY <1>1 DEF Leaves

-----------------------------------------------------------------------------
\* In the careful programs whose actions end well, an activation that ends has
\* run its blocks, and its destructors, each once and the last first; one that
\* returns, all its actions in one order.
THEOREM ActionsRunOnLeaving == Spec => LeavingRunsActions
<1> DEFINE Runs ==
             ~ReturnsPastBlocks /\ ~Recovers /\ ~ActionsMayPanic =>
               \A k \in 1 .. Len(stack) : Leaves(k) =>
                 \A kinds \in {Blocks, {"destructible"}}
                              \cup (IF Returns(k) THEN {Deferred} ELSE {}) :
                   RanBackwards(stack[k], Registered(stack[k], kinds))
<1>1. ASSUME DInv, Next PROVE Runs
  <2> SUFFICES ASSUME ~ReturnsPastBlocks, ~Recovers, ~ActionsMayPanic,
                      NEW k \in 1 .. Len(stack), Leaves(k),
                      NEW kinds \in {Blocks, {"destructible"}}
                                    \cup (IF Returns(k) THEN {Deferred} ELSE {})
               PROVE  RanBackwards(stack[k], Registered(stack[k], kinds))
    OBVIOUS
  <2>1. Quiet /\ Careful
    BY <1>1, EndsRunning DEF Careful
  <2>2. CASE Stays
    <3>1. k \in DOMAIN stack
      BY <2>1, QuietFacts, BasicTypes
    <3> QED
      BY <2>2, <3>1 DEF Stays, Leaves
  <2>3. CASE status' = "wild"
    <3>1. NoStrayJump' /\ (Careful' <=> Careful)
      BY <1>1, StepPreserves, ProgramStays DEF DInv, IInv
    <3> QED
      BY <2>1, <2>3, <3>1 DEF NoStrayJump, Careful
  <2>4. CASE Return
    <3>1. kinds \subseteq Deferred
      BY DEF Deferred
    <3> QED
      BY <2>1, <2>4, <3>1, ReturnEnds, ReturnedRan
  <2>5. CASE LongJmp(stack, chain) /\ Jumps(program, stack, panicking)
    <3>1. ~Returns(k)
      BY <2>5 DEF Returns, Running, Jumps, Top
    <3>2. Linked(stack[k], chain) = {}
      BY <2>1, <2>5, NothingLinked
    <3> QED
      BY <2>1, <2>5, <3>1, <3>2, UnwoundRan
  <2> QED
    BY <1>1, <2>1, <2>2, <2>3, <2>4, <2>5, StepEnds
<1>2. DInv /\ [Next]_vars => [Runs]_vars
  BY <1>1
<1>3. LeavingRunsActions <=> [][Runs]_vars
  BY DEF LeavingRunsActions
<1> QED
  BY <1>2, <1>3, OrderInvariance, PTL DEF Spec

\* No panic goes through an activation that has recovered, and when it returns
\* what it deferred before the block has run.
LEMMA RecoveredRan ==
  ASSUME Quiet, NEW k \in 1 .. Len(stack), NEW i \in ToSet(stack[k].ran),
         program[stack[k].fn][i] = "blockRecovers",
         (Return /\ k = Len(stack)) \/ Jumps(program, stack, panicking)
  PROVE  /\ k = Len(stack) /\ Return
         /\ RanBackwards(stack[k], {j \in Registered(stack[k], Deferred) : j <= i})
<1> DEFINE f == stack[k]
           code == program[stack[k].fn]
           due == {j \in Registered(stack[k], Deferred) : j <= i}
<1>1. /\ Basic(program, stack, chain, calls)
      /\ Ordered(program, stack, chain, panicking)
  BY QuietFacts DEF Orderly
<1>2. k \in DOMAIN stack
  BY <1>1, BasicTypes
<1>3. /\ code \in Code /\ f.pc \in Nat /\ f.pc <= Len(code) + 1
      /\ InOrder(code, f) /\ Handles(code, f, chain, panicking, k = Len(stack))
  BY <1>1, <1>2, BasicTypes DEF Basic, InPhase, Ordered
<1>4. i \in Done(f) /\ code[i] = "blockRecovers"
  BY DEF ToSet, Done, Acts
<1>5. Behind(code, f, i) /\ SinceRecover(code, f, i)
  BY <1>3, <1>4 DEF InOrder
<1>6. ~Jumps(program, stack, panicking)
  <2> SUFFICES ASSUME Jumps(program, stack, panicking) PROVE FALSE
    OBVIOUS
  <2>1. f.phase = "body" \/ (panicking /\ f.phase \in {"propagate", "unwind"})
    BY <1>1, <1>2, OthersInBody
  <2>2. panicking /\ f.phase = "propagate" /\ i = f.at
    BY <1>5, <2>1 DEF Behind, SinceRecover
  <2> QED
    BY <1>3, <1>4, <2>2 DEF Handles
<1>7. Return /\ k = Len(stack) /\ f.phase = "exit" /\ f.at = 0
  BY <1>6 DEF Return, Running, Top
<1>8. due \subseteq {j \in DOMAIN code : j > 0 /\ code[j] \in Deferred /\ j <= i}
  BY <1>3 DEF Registered, Code
<1> HIDE DEF f, code, due
<1>9. due \subseteq Done(f)
  BY <1>5, <1>7, <1>8 DEF SinceRecover
<1> QED
  BY <1>3, <1>7, <1>9, RanInOrder DEF InOrder, f, code, due

\* An activation whose block recovered returns, and runs first what it deferred
\* before that block, in every program whose actions end without a panic.
THEOREM RecoveryContinues == Spec => RecoverContinuesExit
<1> DEFINE Continues ==
             ~ActionsMayPanic =>
               \A k \in 1 .. Len(stack) : \A i \in ToSet(stack[k].ran) :
                 (Leaves(k) /\ status' # "wild" /\ program[stack[k].fn][i] = "blockRecovers")
                   => /\ Returns(k)
                      /\ RanBackwards(stack[k],
                                      {j \in Registered(stack[k], Deferred) : j <= i})
<1>1. ASSUME DInv, Next PROVE Continues
  <2> SUFFICES ASSUME ~ActionsMayPanic, NEW k \in 1 .. Len(stack),
                      NEW i \in ToSet(stack[k].ran), Leaves(k), status' # "wild",
                      program[stack[k].fn][i] = "blockRecovers"
               PROVE  /\ Returns(k)
                      /\ RanBackwards(stack[k],
                                      {j \in Registered(stack[k], Deferred) : j <= i})
    OBVIOUS
  <2>1. Quiet
    BY <1>1, EndsRunning
  <2>2. ~Stays
    <3>1. k \in DOMAIN stack
      BY <2>1, QuietFacts, BasicTypes
    <3> QED
      BY <3>1 DEF Stays, Leaves
  <2>3. Return => k = Len(stack) /\ Returns(k)
    BY <2>1, ReturnEnds
  <2>4. Return \/ Jumps(program, stack, panicking)
    BY <1>1, <2>1, <2>2, StepEnds
  <2> QED
    BY <2>1, <2>3, <2>4, RecoveredRan
<1>2. DInv /\ [Next]_vars => [Continues]_vars
  BY <1>1
<1>3. RecoverContinuesExit <=> [][Continues]_vars
  BY DEF RecoverContinuesExit
<1> QED
  BY <1>2, <1>3, OrderInvariance, PTL DEF Spec
=============================================================================
