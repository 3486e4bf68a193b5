------------------------------- MODULE PlayProofs ------------------------------
(***************************************************************************)
(* What holds of the board for every size of it, every generator and every *)
(* configuration: chains drawn with the finger are legal, hasAnyMove sees  *)
(* a move exactly when the rules allow one and so do the bots, the record  *)
(* replays to the heist, the modals keep their offers, and gravity loses   *)
(* no tile.                                                                *)
(***************************************************************************)
EXTENDS PlayPromises, FiniteSetTheorems, SequenceTheorems, WellFoundedInduction, TLAPS

(* A chain as the board builds it: a legal path of any length. *)
Chain(grid, p) ==
  \A n \in DOMAIN p :
    /\ p[n] \in Cell
    /\ \A m \in 1..(n - 1) : p[m] # p[n]
    /\ Chainable(grid[p[n]])
    /\ n > 1 => grid[p[n]] = grid[p[1]] /\ Touching(p[n - 1], p[n])

TouchInv ==
  /\ path \in Seq(Cell)
  /\ Chain(sim.grid, path)
  /\ pointer = NoFinger => path = <<>>
  /\ bot # NoBot => path = <<>>

(* Nothing is under a finger but a chain that has just been begun. *)
LEMMA EmptyChain == ASSUME NEW grid PROVE Chain(grid, <<>>)
  BY DEF Chain

LEMMA BegunChain ==
  ASSUME NEW grid, NEW i \in Cell, CanExtend(grid, <<>>, i)
  PROVE  Chain(grid, <<i>>)
  BY DEF Chain, CanExtend

(* canExtend keeps a chain a chain. *)
LEMMA ExtendedChain ==
  ASSUME NEW grid, NEW p \in Seq(Cell), NEW i \in Cell, Chain(grid, p), CanExtend(grid, p, i)
  PROVE  Chain(grid, Append(p, i))
<1> DEFINE q == Append(p, i)
<1>1. /\ DOMAIN q = 1..(Len(p) + 1) /\ DOMAIN p = 1..Len(p) /\ Len(p) \in Nat
      /\ q[Len(p) + 1] = i
      /\ \A n \in DOMAIN p : q[n] = p[n]
  OBVIOUS
<1> SUFFICES ASSUME NEW n \in DOMAIN q
             PROVE  /\ q[n] \in Cell
                    /\ \A m \in 1..(n - 1) : q[m] # q[n]
                    /\ Chainable(grid[q[n]])
                    /\ n > 1 => grid[q[n]] = grid[q[1]] /\ Touching(q[n - 1], q[n])
  BY DEF Chain
<1> HIDE DEF q
<1>2. CASE n \in DOMAIN p
  <2>1. q[n] = p[n] /\ \A m \in 1..(n - 1) : m \in DOMAIN p /\ q[m] = p[m]
    BY <1>1, <1>2
  <2>2. n > 1 => q[1] = p[1] /\ q[n - 1] = p[n - 1]
    BY <1>1, <1>2
  <2> QED
    BY <1>2, <2>1, <2>2 DEF Chain
<1>3. CASE n = Len(p) + 1
  <2>1. q[n] = i /\ Chainable(grid[i]) /\ \A m \in 1..(n - 1) : q[m] # q[n]
    BY <1>1, <1>3 DEF CanExtend
  <2>2. n > 1 => q[1] = p[1] /\ q[n - 1] = p[Len(p)] /\ p # <<>>
    BY <1>1, <1>3
  <2> QED
    BY <1>3, <2>1, <2>2 DEF CanExtend
<1> QED
  BY <1>1, <1>2, <1>3

(* So does taking its last cell off. *)
LEMMA ShortenedChain ==
  ASSUME NEW grid, NEW p \in Seq(Cell), Len(p) >= 2, Chain(grid, p)
  PROVE  /\ SubSeq(p, 1, Len(p) - 1) \in Seq(Cell)
         /\ Chain(grid, SubSeq(p, 1, Len(p) - 1))
<1> DEFINE q == SubSeq(p, 1, Len(p) - 1)
<1>1. /\ q \in Seq(Cell) /\ Len(p) \in Nat
      /\ DOMAIN q = 1..(Len(p) - 1) /\ DOMAIN p = 1..Len(p)
      /\ \A n \in DOMAIN q : q[n] = p[n]
  OBVIOUS
<1> HIDE DEF q
<1> SUFFICES ASSUME NEW n \in DOMAIN q
             PROVE  /\ q[n] \in Cell
                    /\ \A m \in 1..(n - 1) : q[m] # q[n]
                    /\ Chainable(grid[q[n]])
                    /\ n > 1 => grid[q[n]] = grid[q[1]] /\ Touching(q[n - 1], q[n])
  BY <1>1 DEF Chain, q
<1>2. n \in DOMAIN p /\ q[n] = p[n] /\ \A m \in 1..(n - 1) : m \in DOMAIN p /\ q[m] = p[m]
  BY <1>1
<1>3. n > 1 => q[1] = p[1] /\ q[n - 1] = p[n - 1]
  BY <1>1
<1> QED
  BY <1>2, <1>3 DEF Chain

LEMMA TouchInit == BotInit => TouchInv
  BY DEF BotInit, PlayInit, TouchInv, Chain

(* The finger changes the chain, or its release ends it. *)
LEMMA TouchKeepsChain == TouchInv /\ bot = NoBot /\ UNCHANGED bot /\ Touch => TouchInv'
<1> SUFFICES ASSUME TouchInv, bot = NoBot, UNCHANGED bot, NEW f \in Finger,
                    (\E i \in Cell : OnDown(f, i) \/ OnMove(f, i)) \/ OnUp(f)
             PROVE  TouchInv'
  BY DEF Touch
<1>1. ASSUME NEW i \in Cell, OnDown(f, i) PROVE TouchInv'
  <2>1. path' = <<i>> /\ sim' = sim /\ pointer' = f /\ CanExtend(sim.grid, <<>>, i)
    BY <1>1 DEF OnDown
  <2>2. pointer' # NoFinger
    BY <1>1, FingerAssumption DEF OnDown
  <2> QED
    BY <2>1, <2>2, BegunChain DEF TouchInv
<1>2. ASSUME NEW i \in Cell, OnMove(f, i) PROVE TouchInv'
  <2>1. sim' = sim /\ pointer' = pointer /\ pointer # NoFinger
    BY <1>2, FingerAssumption DEF OnMove
  <2>2. CASE Backtracks(i) /\ path' = SubSeq(path, 1, Len(path) - 1)
    BY <2>1, <2>2, ShortenedChain DEF TouchInv, Backtracks
  <2>3. CASE CanExtend(sim.grid, path, i) /\ path' = Append(path, i)
    <3>1. path' \in Seq(Cell)
      BY <2>3 DEF TouchInv
    <3> QED
      BY <2>1, <2>3, <3>1, ExtendedChain DEF TouchInv
  <2> QED
    BY <1>2, <2>2, <2>3 DEF OnMove
<1>3. CASE OnUp(f)
  <2>1. path' = <<>>
    BY <1>3 DEF OnUp
  <2> QED
    BY <2>1, EmptyChain DEF TouchInv
<1> QED
  BY <1>1, <1>2, <1>3

(* The other steps leave chain and board alone, or take the chain away. *)
LEMMA OthersKeepChain ==
  TouchInv /\ [Animate \/ Conclude]_playVars /\ UNCHANGED bot => TouchInv'
<1> SUFFICES ASSUME TouchInv, [Animate \/ Conclude]_playVars, UNCHANGED bot PROVE TouchInv'
  OBVIOUS
<1>1. CASE UNCHANGED <<sim, touchVars>>
  BY <1>1 DEF TouchInv, touchVars
<1>2. CASE OnDeeper
  <2>1. path' = <<>> /\ pointer' = pointer
    BY <1>2 DEF OnDeeper, SetSim
  <2> QED
    BY <2>1, EmptyChain DEF TouchInv
<1>3. Animate \/ Decision \/ OnEscape \/ CleanSweep \/ Busted \/ UNCHANGED playVars
      => UNCHANGED <<sim, touchVars>>
  BY DEF Animate, EntryDone, Fall, ShowsShuffle, Settle, Decision, OnEscape, CleanSweep, Busted,
         FinishRun, playVars, touchVars
<1> QED
  BY <1>1, <1>2, <1>3 DEF Conclude

LEMMA TouchStep == TouchInv /\ [BotNext]_botVars => TouchInv'
<1> SUFFICES ASSUME TouchInv, [BotNext]_botVars PROVE TouchInv'
  OBVIOUS
<1>1. CASE ByHand
  BY <1>1, TouchKeepsChain, OthersKeepChain DEF ByHand, PlayNext, botOnly
<1>2. CASE BotMove \/ BotVault \/ BotFinish
  <2>1. bot # NoBot /\ bot' = bot /\ path' = path /\ pointer' = pointer
    BY <1>2 DEF BotMove, BotVault, BotFinish, VaultOver, Playing, touchVars, botOnly
  <2> QED
    BY <2>1, EmptyChain DEF TouchInv
<1>3. CASE UNCHANGED botVars
  BY <1>3, OthersKeepChain DEF botVars, botOnly
<1> QED
  BY <1>1, <1>2, <1>3 DEF BotNext

(* Whatever the finger does, a chain of three or more that is released is a  *)
(* legal move (board.ts onDown, onMove, onUp; engine.ts canExtend and        *)
(* validatePath): the check in onUp never drops one.                        *)
THEOREM DrawnChainsAreLegal == BotSpec => []TouchIsLegal
<1>1. TouchInv => TouchIsLegal
  BY DEF TouchInv, TouchIsLegal, Chain, ValidatePath
<1> QED
  BY <1>1, TouchInit, TouchStep, PTL DEF BotSpec

-----------------------------------------------------------------------------
LEMMA TouchingIsSymmetric ==
  ASSUME NEW i \in Cell, NEW j \in Cell PROVE Touching(i, j) = Touching(j, i)
<1>1. Row(i) \in Int /\ Row(j) \in Int /\ Col(i) \in Int /\ Col(j) \in Int
  BY EngineAssumption DEF Row, Col, Cell
<1> QED
  BY <1>1 DEF Touching, Near

LEMMA AlikeIsFinite == ASSUME NEW grid, NEW i PROVE IsFiniteSet(Alike(grid, i))
<1>1. IsFiniteSet(Cell)
  BY EngineAssumption, FS_Interval DEF Cell
<1> QED
  BY <1>1, FS_Subset DEF Alike

(* Two of them, and only then, is two different ones. *)
LEMMA AtLeastTwo ==
  ASSUME NEW S, IsFiniteSet(S)
  PROVE  Cardinality(S) >= 2 <=> \E a, b \in S : a # b
<1>1. ASSUME NEW a \in S, NEW b \in S, a # b PROVE Cardinality(S) >= 2
  <2>1. Cardinality({a, b}) = 2 /\ IsFiniteSet({a, b})
    <3>1. IsFiniteSet({a}) /\ Cardinality({a}) = 1
      BY FS_Singleton
    <3>2. IsFiniteSet({a} \cup {b}) /\ Cardinality({a} \cup {b}) = 2
      <4>1. b \notin {a}
        BY <1>1
      <4> HIDE <1>1
      <4> QED
        BY <4>1, <3>1, FS_AddElement
    <3>3. {a} \cup {b} = {a, b}
      OBVIOUS
    <3> QED
      BY <3>2, <3>3
  <2>2. Cardinality({a, b}) <= Cardinality(S)
    <3>1. {a, b} \in SUBSET S
      BY <1>1
    <3> QED
      BY <3>1, FS_Subset
  <2>3. Cardinality(S) \in Nat
    BY FS_CardinalityType
  <2> QED
    BY <2>1, <2>2, <2>3
<1>2. ASSUME Cardinality(S) >= 2 PROVE \E a, b \in S : a # b
  <2>1. PICK a : a \in S
    BY <1>2, FS_EmptySet
  <2>2. Cardinality(S \ {a}) = Cardinality(S) - 1 /\ IsFiniteSet(S \ {a}) /\ Cardinality(S) \in Nat
    BY <2>1, FS_RemoveElement, FS_CardinalityType
  <2>3. PICK b : b \in S \ {a}
    BY <1>2, <2>2, FS_EmptySet
  <2> QED
    BY <2>1, <2>3
<1> QED
  BY <1>1, <1>2

(* hasAnyMove (engine.ts), which only counts neighbours, says that there is a*)
(* move exactly when validatePath would accept one: the game never reshuffles*)
(* a board that could be played, nor leaves one that cannot.                *)
THEOREM MovesAreSeen == ASSUME NEW grid PROVE HasAnyMove(grid) <=> LegalMove(grid)
<1>1. ASSUME HasAnyMove(grid) PROVE LegalMove(grid)
  <2>1. PICK i \in Cell : Chainable(grid[i]) /\ Cardinality(Alike(grid, i)) >= 2
    BY <1>1 DEF HasAnyMove
  <2>2. PICK a \in Alike(grid, i), b \in Alike(grid, i) : a # b
    BY <2>1, AlikeIsFinite, AtLeastTwo
  <2>3. /\ a \in Cell /\ b \in Cell /\ Touching(a, i) /\ Touching(i, b)
        /\ grid[a] = grid[i] /\ grid[b] = grid[i] /\ a # i /\ b # i
    BY <2>2, TouchingIsSymmetric DEF Alike, Touching
  <2>4. ValidatePath(grid, <<a, i, b>>)
    BY <2>1, <2>2, <2>3 DEF ValidatePath
  <2> QED
    BY <2>3, <2>4 DEF LegalMove
<1>2. ASSUME LegalMove(grid) PROVE HasAnyMove(grid)
  <2>1. PICK a \in Cell, b \in Cell, c \in Cell : ValidatePath(grid, <<a, b, c>>)
    BY <1>2 DEF LegalMove
  <2> DEFINE p == <<a, b, c>>
  <2>2. 1 \in DOMAIN p /\ 2 \in DOMAIN p /\ 3 \in DOMAIN p
    OBVIOUS
  <2>3. Chainable(grid[b]) /\ grid[b] = grid[a] /\ Touching(a, b)
    BY <2>1, <2>2 DEF ValidatePath
  <2>4. grid[c] = grid[a] /\ Touching(b, c) /\ a # c
    BY <2>1, <2>2 DEF ValidatePath
  <2>5. a \in Alike(grid, b) /\ c \in Alike(grid, b)
    BY <2>3, <2>4, TouchingIsSymmetric DEF Alike
  <2> QED
    BY <2>3, <2>4, <2>5, AlikeIsFinite, AtLeastTwo DEF HasAnyMove
<1> QED
  BY <1>1, <1>2

-----------------------------------------------------------------------------
(* Counting: what holds of 0 and passes on to the next holds of all, and a    *)
(* set of numbers that is not empty has a least one.                        *)
LEMMA NatInd ==
  ASSUME NEW P, 0 \in P, \A n \in Nat : n \in P => n + 1 \in P
  PROVE  Nat \subseteq P
<1> DEFINE R == OpToRel(<, Nat)
           T == Nat \ P
<1> SUFFICES ASSUME T # {} PROVE FALSE
  OBVIOUS
<1>1. IsWellFoundedOn(R, Nat)
  BY NatLessThanWellFounded
<1>2. PICK x \in T : \A y \in T : ~(<<y, x>> \in R)
  <2>1. T \subseteq Nat
    OBVIOUS
  <2> HIDE DEF R, T
  <2> QED BY <1>1, <2>1, WFMin
<1>a. x \in Nat /\ x \notin P
  OBVIOUS
<1>3. x # 0 /\ x - 1 \in Nat /\ x - 1 < x
  <2> HIDE DEF R, T
  <2> QED BY <1>a
<1>4. <<x - 1, x>> \in R
  BY <1>2, <1>3 DEF OpToRel
<1>5. x - 1 \in P
  BY <1>2, <1>3, <1>4
<1>6. (x - 1) + 1 = x
  <2> HIDE DEF R, T
  <2> QED BY <1>a
<1> QED BY <1>2, <1>3, <1>5, <1>6

LEMMA Least ==
  ASSUME NEW S, S \subseteq Nat, S # {}
  PROVE  Min(S) \in S /\ \A x \in S : Min(S) <= x
<1> DEFINE R == OpToRel(<, Nat)
<1>1. IsWellFoundedOn(R, Nat)
  BY NatLessThanWellFounded
<1>2. PICK x \in S : \A y \in S : ~(<<y, x>> \in R)
  <2> HIDE DEF R
  <2> QED BY <1>1, WFMin
<1>3. \A y \in S : x <= y
  <2> SUFFICES ASSUME NEW y \in S PROVE x <= y
    OBVIOUS
  <2>1. x \in Nat /\ y \in Nat
    OBVIOUS
  <2>2. ~(y < x)
    BY <1>2, <2>1 DEF OpToRel
  <2> QED BY <2>1, <2>2
<1> QED BY <1>3 DEF Min

-----------------------------------------------------------------------------
(* Reshuffles, locks, moves and vaults are counted; each is what the count    *)
(* before it makes of the one before.                                       *)
Attempts(f, s, N) == f = [n \in 0..N |-> IF n = 0 THEN s ELSE Attempt(f[n - 1], n)]
LEMMA AttemptsExist ==
  ASSUME NEW s, NEW N \in Nat
  PROVE  \E f : Attempts(f, s, N)
<1> DEFINE P == {n \in Nat : \E f : Attempts(f, s, n)}
<1>1. 0 \in P
  <2> DEFINE f == [n \in 0..0 |-> s]
  <2>1. Attempts(f, s, 0)
    BY DEF Attempts
  <2> HIDE DEF f
  <2> QED BY <2>1
<1>2. ASSUME NEW n \in Nat, n \in P PROVE n + 1 \in P
  <2>1. PICK f : Attempts(f, s, n)
    BY <1>2
  <2> DEFINE g == [k \in 0..(n + 1) |-> IF k = n + 1 THEN Attempt(f[n], n + 1) ELSE f[k]]
  <2>2. ASSUME NEW k \in 0..(n + 1)
        PROVE  g[k] = IF k = 0 THEN s ELSE Attempt(g[k - 1], k)
    <3>1. CASE k = n + 1
      <4>1. g[k - 1] = f[n] /\ g[k] = Attempt(f[n], n + 1)
        BY <3>1
      <4> QED BY <3>1, <4>1
    <3>2. CASE k # n + 1
      <4>1. k \in 0..n /\ g[k] = f[k] /\ (k # 0 => g[k - 1] = f[k - 1])
        BY <3>2
      <4>2. f[k] = IF k = 0 THEN s ELSE Attempt(f[k - 1], k)
        BY <2>1, <4>1 DEF Attempts
      <4> QED BY <4>1, <4>2
    <3> QED BY <3>1, <3>2
  <2>3. Attempts(g, s, n + 1)
    <3>1. g = [k \in 0..(n + 1) |-> g[k]]
      OBVIOUS
    <3> HIDE DEF g
    <3> QED BY <2>2, <3>1 DEF Attempts
  <2> HIDE DEF g
  <2> QED BY <2>3
<1> HIDE DEF P
<1>3. N \in P
  BY <1>1, <1>2, NatInd
<1> QED BY <1>3 DEF P

LEMMA ReshuffleUnrolled ==
  ASSUME NEW s
  PROVE  \E f : Attempts(f, s, MaxShuffles) /\ Reshuffle(s) = f[MaxShuffles]
<1>1. \E f : Attempts(f, s, MaxShuffles)
  BY AttemptsExist, EngineAssumption
<1> DEFINE f == CHOOSE f : Attempts(f, s, MaxShuffles)
<1>2. Attempts(f, s, MaxShuffles)
  BY <1>1
<1>3. Reshuffle(s) = f[MaxShuffles]
  BY DEF Reshuffle, Attempts
<1> HIDE DEF f
<1> QED BY <1>2, <1>3

Placings(f, s, N) == f = [n \in 0..N |-> IF n = 0 THEN s ELSE PlaceLock(f[n - 1])]
LEMMA PlacingsExist ==
  ASSUME NEW s, NEW N \in Nat
  PROVE  \E f : Placings(f, s, N)
<1> DEFINE P == {n \in Nat : \E f : Placings(f, s, n)}
<1>1. 0 \in P
  <2> DEFINE f == [n \in 0..0 |-> s]
  <2>1. Placings(f, s, 0)
    BY DEF Placings
  <2> HIDE DEF f
  <2> QED BY <2>1
<1>2. ASSUME NEW n \in Nat, n \in P PROVE n + 1 \in P
  <2>1. PICK f : Placings(f, s, n)
    BY <1>2
  <2> DEFINE g == [k \in 0..(n + 1) |-> IF k = n + 1 THEN PlaceLock(f[n]) ELSE f[k]]
  <2>2. ASSUME NEW k \in 0..(n + 1)
        PROVE  g[k] = IF k = 0 THEN s ELSE PlaceLock(g[k - 1])
    <3>1. CASE k = n + 1
      <4>1. g[k - 1] = f[n] /\ g[k] = PlaceLock(f[n])
        BY <3>1
      <4> QED BY <3>1, <4>1
    <3>2. CASE k # n + 1
      <4>1. k \in 0..n /\ g[k] = f[k] /\ (k # 0 => g[k - 1] = f[k - 1])
        BY <3>2
      <4>2. f[k] = IF k = 0 THEN s ELSE PlaceLock(f[k - 1])
        BY <2>1, <4>1 DEF Placings
      <4> QED BY <4>1, <4>2
    <3> QED BY <3>1, <3>2
  <2>3. Placings(g, s, n + 1)
    <3>1. g = [k \in 0..(n + 1) |-> g[k]]
      OBVIOUS
    <3> HIDE DEF g
    <3> QED BY <2>2, <3>1 DEF Placings
  <2> HIDE DEF g
  <2> QED BY <2>3
<1> HIDE DEF P
<1>3. N \in P
  BY <1>1, <1>2, NatInd
<1> QED BY <1>3 DEF P

LEMMA PlaceLocksUnrolled ==
  ASSUME NEW s, NEW locks \in Nat
  PROVE  \E f : Placings(f, s, locks) /\ PlaceLocks(s, locks) = f[locks]
<1>1. \E f : Placings(f, s, locks)
  BY PlacingsExist
<1> DEFINE f == CHOOSE f : Placings(f, s, locks)
<1>2. Placings(f, s, locks)
  BY <1>1
<1>3. PlaceLocks(s, locks) = f[locks]
  BY DEF PlaceLocks, Placings
<1> HIDE DEF f
<1> QED BY <1>2, <1>3

Afters(f, s, ms, N) == f = [n \in 0..N |-> IF n = 0 THEN s ELSE PlayOn(f[n - 1], ms[n])]
LEMMA AftersExist ==
  ASSUME NEW s, NEW ms, NEW N \in Nat
  PROVE  \E f : Afters(f, s, ms, N)
<1> DEFINE P == {n \in Nat : \E f : Afters(f, s, ms, n)}
<1>1. 0 \in P
  <2> DEFINE f == [n \in 0..0 |-> s]
  <2>1. Afters(f, s, ms, 0)
    BY DEF Afters
  <2> HIDE DEF f
  <2> QED BY <2>1
<1>2. ASSUME NEW n \in Nat, n \in P PROVE n + 1 \in P
  <2>1. PICK f : Afters(f, s, ms, n)
    BY <1>2
  <2> DEFINE g == [k \in 0..(n + 1) |-> IF k = n + 1 THEN PlayOn(f[n], ms[n + 1]) ELSE f[k]]
  <2>2. ASSUME NEW k \in 0..(n + 1)
        PROVE  g[k] = IF k = 0 THEN s ELSE PlayOn(g[k - 1], ms[k])
    <3>1. CASE k = n + 1
      <4>1. g[k - 1] = f[n] /\ g[k] = PlayOn(f[n], ms[n + 1])
        BY <3>1
      <4> QED BY <3>1, <4>1
    <3>2. CASE k # n + 1
      <4>1. k \in 0..n /\ g[k] = f[k] /\ (k # 0 => g[k - 1] = f[k - 1])
        BY <3>2
      <4>2. f[k] = IF k = 0 THEN s ELSE PlayOn(f[k - 1], ms[k])
        BY <2>1, <4>1 DEF Afters
      <4> QED BY <4>1, <4>2
    <3> QED BY <3>1, <3>2
  <2>3. Afters(g, s, ms, n + 1)
    <3>1. g = [k \in 0..(n + 1) |-> g[k]]
      OBVIOUS
    <3> HIDE DEF g
    <3> QED BY <2>2, <3>1 DEF Afters
  <2> HIDE DEF g
  <2> QED BY <2>3
<1> HIDE DEF P
<1>3. N \in P
  BY <1>1, <1>2, NatInd
<1> QED BY <1>3 DEF P

LEMMA PlayedUnrolled ==
  ASSUME NEW s, NEW ms, Len(ms) \in Nat
  PROVE  \E f : Afters(f, s, ms, Len(ms)) /\ Played(s, ms) = f[Len(ms)]
<1>1. \E f : Afters(f, s, ms, Len(ms))
  BY AftersExist
<1> DEFINE f == CHOOSE f : Afters(f, s, ms, Len(ms))
<1>2. Afters(f, s, ms, Len(ms))
  BY <1>1
<1>3. Played(s, ms) = f[Len(ms)]
  BY DEF Played, Afters
<1> HIDE DEF f
<1> QED BY <1>2, <1>3

Heists(f, first, b, vs, N) == f = [n \in 0..N |-> IF n = 0 THEN Begun(first) ELSE NextVault(f[n - 1], n, b, vs[n])]
LEMMA HeistsExist ==
  ASSUME NEW first, NEW b, NEW vs, NEW N \in Nat
  PROVE  \E f : Heists(f, first, b, vs, N)
<1> DEFINE P == {n \in Nat : \E f : Heists(f, first, b, vs, n)}
<1>1. 0 \in P
  <2> DEFINE f == [n \in 0..0 |-> Begun(first)]
  <2>1. Heists(f, first, b, vs, 0)
    BY DEF Heists
  <2> HIDE DEF f
  <2> QED BY <2>1
<1>2. ASSUME NEW n \in Nat, n \in P PROVE n + 1 \in P
  <2>1. PICK f : Heists(f, first, b, vs, n)
    BY <1>2
  <2> DEFINE g == [k \in 0..(n + 1) |-> IF k = n + 1 THEN NextVault(f[n], n + 1, b, vs[n + 1]) ELSE f[k]]
  <2>2. ASSUME NEW k \in 0..(n + 1)
        PROVE  g[k] = IF k = 0 THEN Begun(first) ELSE NextVault(g[k - 1], k, b, vs[k])
    <3>1. CASE k = n + 1
      <4>1. g[k - 1] = f[n] /\ g[k] = NextVault(f[n], n + 1, b, vs[n + 1])
        BY <3>1
      <4> QED BY <3>1, <4>1
    <3>2. CASE k # n + 1
      <4>1. k \in 0..n /\ g[k] = f[k] /\ (k # 0 => g[k - 1] = f[k - 1])
        BY <3>2
      <4>2. f[k] = IF k = 0 THEN Begun(first) ELSE NextVault(f[k - 1], k, b, vs[k])
        BY <2>1, <4>1 DEF Heists
      <4> QED BY <4>1, <4>2
    <3> QED BY <3>1, <3>2
  <2>3. Heists(g, first, b, vs, n + 1)
    <3>1. g = [k \in 0..(n + 1) |-> g[k]]
      OBVIOUS
    <3> HIDE DEF g
    <3> QED BY <2>2, <3>1 DEF Heists
  <2> HIDE DEF g
  <2> QED BY <2>3
<1> HIDE DEF P
<1>3. N \in P
  BY <1>1, <1>2, NatInd
<1> QED BY <1>3 DEF P

LEMMA ReplayedUnrolled ==
  ASSUME NEW first, NEW b, NEW vs, Len(vs) \in Nat
  PROVE  \E f : Heists(f, first, b, vs, Len(vs)) /\ Replayed(first, b, vs) = f[Len(vs)]
<1>1. \E f : Heists(f, first, b, vs, Len(vs))
  BY HeistsExist
<1> DEFINE f == CHOOSE f : Heists(f, first, b, vs, Len(vs))
<1>2. Heists(f, first, b, vs, Len(vs))
  BY <1>1
<1>3. Replayed(first, b, vs) = f[Len(vs)]
  BY DEF Replayed, Heists
<1> HIDE DEF f
<1> QED BY <1>2, <1>3

(* A record is replayed move by move, vault by vault. *)
LEMMA PlayedAppend ==
  ASSUME NEW s, NEW T, NEW ms \in Seq(T), NEW m \in T
  PROVE  /\ Played(s, <<>>) = s
         /\ Played(s, Append(ms, m)) = PlayOn(Played(s, ms), m)
<1>1. Played(s, <<>>) = s
  <2>1. Len(<<>>) = 0 /\ 0 \in 0..0
    OBVIOUS
  <2>2. PICK f : Afters(f, s, <<>>, 0) /\ Played(s, <<>>) = f[0]
    BY <2>1, PlayedUnrolled
  <2> QED BY <2>1, <2>2 DEF Afters
<1>2. Played(s, Append(ms, m)) = PlayOn(Played(s, ms), m)
  <2> DEFINE longer == Append(ms, m)
             N == Len(ms)
  <2>1. /\ N \in Nat /\ Len(longer) = N + 1 /\ longer[N + 1] = m
        /\ \A n \in 1..N : longer[n] = ms[n]
    OBVIOUS
  <2> HIDE DEF longer, N
  <2>2. PICK f : Afters(f, s, longer, N + 1) /\ Played(s, longer) = f[N + 1]
    <3>1. Len(longer) \in Nat /\ N + 1 = Len(longer)
      BY <2>1
    <3> QED BY <3>1, PlayedUnrolled
  <2>3. PICK g : Afters(g, s, ms, N) /\ Played(s, ms) = g[N]
    BY <2>1, PlayedUnrolled DEF N
  <2> DEFINE P == {n \in Nat : n <= N => f[n] = g[n]}
  <2>4. 0 \in P
    <3>1. f[0] = s /\ g[0] = s
      BY <2>1, <2>2, <2>3 DEF Afters
    <3> QED BY <3>1
  <2>5. ASSUME NEW n \in Nat, n \in P PROVE n + 1 \in P
    <3> SUFFICES ASSUME n + 1 <= N PROVE f[n + 1] = g[n + 1]
      OBVIOUS
    <3>1. f[n] = g[n] /\ n + 1 \in 0..(N + 1) /\ n + 1 \in 0..N /\ n + 1 \in 1..N /\ (n + 1) - 1 = n /\ n + 1 # 0
      BY <2>1, <2>5
    <3> HIDE DEF P
    <3>2. f[n + 1] = PlayOn(f[n], longer[n + 1])
      BY <2>2, <3>1 DEF Afters
    <3>3. g[n + 1] = PlayOn(g[n], ms[n + 1])
      BY <2>3, <3>1 DEF Afters
    <3> QED BY <2>1, <3>1, <3>2, <3>3
  <2> HIDE DEF P
  <2>6. f[N] = g[N]
    <3>1. N \in P
      BY <2>1, <2>4, <2>5, NatInd
    <3> QED BY <2>1, <3>1 DEF P
  <2>7. f[N + 1] = PlayOn(f[N], longer[N + 1])
    <3>1. N + 1 \in 0..(N + 1) /\ (N + 1) - 1 = N /\ N + 1 # 0
      BY <2>1
    <3> QED BY <2>2, <3>1 DEF Afters
  <2> QED BY <2>1, <2>2, <2>3, <2>6, <2>7 DEF longer, N
<1> QED BY <1>1, <1>2

LEMMA ReplayedAppend ==
  ASSUME NEW first, NEW b, NEW T, NEW vs \in Seq(T), NEW m \in T
  PROVE  /\ Replayed(first, b, <<>>) = Begun(first)
         /\ Replayed(first, b, Append(vs, m)) = NextVault(Replayed(first, b, vs), Len(vs) + 1, b, m)
<1>1. Replayed(first, b, <<>>) = Begun(first)
  <2>1. Len(<<>>) = 0 /\ 0 \in 0..0
    OBVIOUS
  <2>2. PICK f : Heists(f, first, b, <<>>, 0) /\ Replayed(first, b, <<>>) = f[0]
    BY <2>1, ReplayedUnrolled
  <2> QED BY <2>1, <2>2 DEF Heists
<1>2. Replayed(first, b, Append(vs, m)) = NextVault(Replayed(first, b, vs), Len(vs) + 1, b, m)
  <2> DEFINE longer == Append(vs, m)
             N == Len(vs)
  <2>1. /\ N \in Nat /\ Len(longer) = N + 1 /\ longer[N + 1] = m
        /\ \A n \in 1..N : longer[n] = vs[n]
    OBVIOUS
  <2> HIDE DEF longer, N
  <2>2. PICK f : Heists(f, first, b, longer, N + 1) /\ Replayed(first, b, longer) = f[N + 1]
    <3>1. Len(longer) \in Nat /\ N + 1 = Len(longer)
      BY <2>1
    <3> QED BY <3>1, ReplayedUnrolled
  <2>3. PICK g : Heists(g, first, b, vs, N) /\ Replayed(first, b, vs) = g[N]
    BY <2>1, ReplayedUnrolled DEF N
  <2> DEFINE P == {n \in Nat : n <= N => f[n] = g[n]}
  <2>4. 0 \in P
    <3>1. f[0] = Begun(first) /\ g[0] = Begun(first)
      BY <2>1, <2>2, <2>3 DEF Heists
    <3> QED BY <3>1
  <2>5. ASSUME NEW n \in Nat, n \in P PROVE n + 1 \in P
    <3> SUFFICES ASSUME n + 1 <= N PROVE f[n + 1] = g[n + 1]
      OBVIOUS
    <3>1. f[n] = g[n] /\ n + 1 \in 0..(N + 1) /\ n + 1 \in 0..N /\ n + 1 \in 1..N /\ (n + 1) - 1 = n /\ n + 1 # 0
      BY <2>1, <2>5
    <3> HIDE DEF P
    <3>2. f[n + 1] = NextVault(f[n], n + 1, b, longer[n + 1])
      BY <2>2, <3>1 DEF Heists
    <3>3. g[n + 1] = NextVault(g[n], n + 1, b, vs[n + 1])
      BY <2>3, <3>1 DEF Heists
    <3> QED BY <2>1, <3>1, <3>2, <3>3
  <2> HIDE DEF P
  <2>6. f[N] = g[N]
    <3>1. N \in P
      BY <2>1, <2>4, <2>5, NatInd
    <3> QED BY <2>1, <3>1 DEF P
  <2>7. f[N + 1] = NextVault(f[N], N + 1, b, longer[N + 1])
    <3>1. N + 1 \in 0..(N + 1) /\ (N + 1) - 1 = N /\ N + 1 # 0
      BY <2>1
    <3> QED BY <2>2, <3>1 DEF Heists
  <2> QED BY <2>1, <2>2, <2>3, <2>6, <2>7 DEF longer, N
<1> QED BY <1>1, <1>2

-----------------------------------------------------------------------------
(* Vaults. *)

Board == [Cell -> Tile \cup {Empty}]
IsSim(s) ==
  /\ DOMAIN s = {"grid", "objectives", "movesLeft", "loot", "state", "reshuffles", "rng", "weights"}
  /\ s.grid \in Board
  /\ s.state \in {"PLAYING", "CRACKED", "BUSTED"}
  /\ s.loot \in Nat /\ s.reshuffles \in Nat

(* What a step of the engine on the tiles leaves alone. *)
SameGame(s, t) == IsSim(t) /\ t.state = s.state /\ t.loot = s.loot

(* A vault in play can be played, unless reshuffle has used its attempts. *)
CanPlay(s) == s.state = "PLAYING" => HasAnyMove(s.grid) \/ s.reshuffles >= MaxShuffles

LEMMA RandomTileIsKind ==
  ASSUME NEW weights, NEW k
  PROVE  RandomTile(weights, k) \in Kind
<1> DEFINE r == NextInt(k, UpTo(weights)[Guard])
           exceeds == {t \in Kind : r < UpTo(weights)[t]}
<1>1. RandomTile(weights, k) = IF exceeds = {} THEN Money ELSE Min(exceeds)
  BY DEF RandomTile
<1>2. exceeds \subseteq Kind
  OBVIOUS
<1> HIDE DEF exceeds
<1>3. exceeds # {} => Min(exceeds) \in exceeds
  <2>1. exceeds \subseteq Nat
    BY <1>2 DEF Kind
  <2> QED BY <2>1, Least
<1>4. Money \in Kind
  BY DEF Money, Kind
<1> QED BY <1>1, <1>2, <1>3, <1>4

LEMMA DrawnKeeps ==
  ASSUME NEW s, IsSim(s), NEW turn
  PROVE  SameGame(s, Drawn(s, turn)) /\ Drawn(s, turn).reshuffles = s.reshuffles
<1> DEFINE tiles == [i \in Cell |-> IF i \in DOMAIN turn THEN RandomTile(s.weights, s.rng + turn[i])
                                                         ELSE s.grid[i]]
           drawn == s.rng + Cardinality(DOMAIN turn)
<1>1. tiles \in Board
  <2>1. \A i \in Cell : RandomTile(s.weights, s.rng + turn[i]) \in Tile
    BY RandomTileIsKind DEF Tile
  <2> QED BY <2>1 DEF Board, IsSim
<1>2. Drawn(s, turn) = [s EXCEPT !.grid = tiles, !.rng = drawn]
  BY DEF Drawn
<1> HIDE DEF tiles, drawn
<1> QED BY <1>1, <1>2 DEF IsSim, SameGame

LEMMA AttemptKeeps ==
  ASSUME NEW s, IsSim(s), NEW n \in Nat \ {0}
  PROVE  /\ SameGame(s, Attempt(s, n))
         /\ IF n > 1 /\ HasAnyMove(s.grid) THEN Attempt(s, n) = s
            ELSE Attempt(s, n).reshuffles = s.reshuffles + 1
<1> DEFINE t == Drawn(s, ByRow({i \in Cell : s.grid[i] # Lock}))
<1>1. CASE n > 1 /\ HasAnyMove(s.grid)
  BY <1>1 DEF Attempt, SameGame
<1>2. CASE ~(n > 1 /\ HasAnyMove(s.grid))
  <2>1. SameGame(s, t) /\ t.reshuffles = s.reshuffles
    BY DrawnKeeps
  <2>2. Attempt(s, n) = [t EXCEPT !.reshuffles = t.reshuffles + 1]
    BY <1>2 DEF Attempt
  <2> HIDE DEF t
  <2> QED BY <1>2, <2>1, <2>2 DEF SameGame, IsSim
<1> QED BY <1>1, <1>2

(* reshuffle leaves a move, or has made all its attempts. *)
LEMMA ReshuffleKeeps ==
  ASSUME NEW s, IsSim(s)
  PROVE  SameGame(s, Reshuffle(s)) /\ (HasAnyMove(Reshuffle(s).grid) \/ Reshuffle(s).reshuffles >= MaxShuffles)
<1>1. PICK f : Attempts(f, s, MaxShuffles) /\ Reshuffle(s) = f[MaxShuffles]
  BY ReshuffleUnrolled
<1> DEFINE Tried(n) == /\ SameGame(s, f[n])
                       /\ n > 0 => HasAnyMove(f[n].grid) \/ f[n].reshuffles >= n
           P == {n \in Nat : n <= MaxShuffles => Tried(n)}
<1>2. MaxShuffles \in Nat \ {0}
  BY EngineAssumption
<1>3. 0 \in P
  <2>1. f[0] = s
    BY <1>1, <1>2 DEF Attempts
  <2> QED BY <2>1 DEF SameGame
<1>4. ASSUME NEW n \in Nat, n \in P PROVE n + 1 \in P
  <2> SUFFICES ASSUME n + 1 <= MaxShuffles PROVE Tried(n + 1)
    OBVIOUS
  <2>1. Tried(n) /\ n + 1 \in 0..MaxShuffles /\ n + 1 # 0 /\ (n + 1) - 1 = n /\ n + 1 \in Nat \ {0}
    BY <1>2, <1>4
  <2>2. f[n + 1] = Attempt(f[n], n + 1)
    BY <1>1, <2>1 DEF Attempts
  <2> DEFINE a == f[n]
             b == f[n + 1]
  <2>3. /\ IsSim(a) /\ a.state = s.state /\ a.loot = s.loot /\ a.reshuffles \in Nat
        /\ n > 0 => HasAnyMove(a.grid) \/ a.reshuffles >= n
    BY <2>1 DEF SameGame, IsSim
  <2>4. SameGame(a, b) /\ IF n + 1 > 1 /\ HasAnyMove(a.grid) THEN b = a ELSE b.reshuffles = a.reshuffles + 1
    BY <2>1, <2>2, <2>3, AttemptKeeps
  <2> HIDE DEF a, b, P
  <2>5. SameGame(s, b)
    BY <2>3, <2>4 DEF SameGame
  <2>6. HasAnyMove(b.grid) \/ b.reshuffles >= n + 1
    <3>1. CASE n + 1 > 1 /\ HasAnyMove(a.grid)
      BY <2>4, <3>1
    <3>2. CASE ~(n + 1 > 1 /\ HasAnyMove(a.grid))
      <4>1. b.reshuffles = a.reshuffles + 1
        BY <2>4, <3>2
      <4>2. a.reshuffles >= n
        BY <2>3, <3>2
      <4> QED BY <2>3, <4>1, <4>2
    <3> QED BY <3>1, <3>2
  <2> QED BY <2>5, <2>6 DEF b
<1> HIDE DEF P
<1>5. MaxShuffles \in P
  BY <1>2, <1>3, <1>4, NatInd
<1>6. Tried(MaxShuffles)
  BY <1>2, <1>5 DEF P
<1> QED BY <1>1, <1>2, <1>6

LEMMA PlayableKeeps ==
  ASSUME NEW s, IsSim(s)
  PROVE  SameGame(s, Playable(s)) /\ CanPlay(Playable(s))
BY ReshuffleKeeps DEF Playable, SameGame, CanPlay

LEMMA PlaceLockKeeps ==
  ASSUME NEW s, IsSim(s)
  PROVE  SameGame(s, PlaceLock(s))
<1> DEFINE Spot(k) == NextInt(s.rng + k, W * H)
           draws == CHOOSE k \in 1..Period : /\ s.grid[Spot(k)] # Lock
                                             /\ \A j \in 1..(k - 1) : s.grid[Spot(j)] = Lock
           spot == Spot(draws)
           tiles == [s.grid EXCEPT ![spot] = Lock]
           rest == s.rng + draws
<1>1. PlaceLock(s) = [s EXCEPT !.grid = tiles, !.rng = rest]
  BY DEF PlaceLock
<1>2. Lock \in Tile
  BY DEF Tile
<1> HIDE DEF spot, rest
<1>3. tiles \in Board
  BY <1>2 DEF IsSim, Board
<1> HIDE DEF tiles
<1> QED BY <1>1, <1>3 DEF IsSim, SameGame

LEMMA PlaceLocksKeeps ==
  ASSUME NEW s, IsSim(s), NEW locks \in Nat
  PROVE  SameGame(s, PlaceLocks(s, locks))
<1>1. PICK f : Placings(f, s, locks) /\ PlaceLocks(s, locks) = f[locks]
  BY PlaceLocksUnrolled
<1> DEFINE P == {n \in Nat : n <= locks => SameGame(s, f[n])}
<1>2. 0 \in P
  <2>1. f[0] = s
    BY <1>1 DEF Placings
  <2> QED BY <2>1 DEF SameGame
<1>3. ASSUME NEW n \in Nat, n \in P PROVE n + 1 \in P
  <2> SUFFICES ASSUME n + 1 <= locks PROVE SameGame(s, f[n + 1])
    OBVIOUS
  <2>1. SameGame(s, f[n]) /\ n + 1 \in 0..locks /\ n + 1 # 0 /\ (n + 1) - 1 = n
    BY <1>3
  <2>2. f[n + 1] = PlaceLock(f[n])
    BY <1>1, <2>1 DEF Placings
  <2>3. SameGame(f[n], PlaceLock(f[n]))
    BY <2>1, PlaceLockKeeps DEF SameGame
  <2> QED BY <2>1, <2>2, <2>3 DEF SameGame
<1> HIDE DEF P
<1>4. locks \in P
  BY <1>2, <1>3, NatInd
<1> QED BY <1>1, <1>4 DEF P

(* Every vault starts as one in play. *)
LEMMA NewSimIsSim ==
  ASSUME NEW first, NEW v \in DOMAIN Vaults, NEW b
  PROVE  /\ IsSim(NewSim(first, v, b)) /\ CanPlay(NewSim(first, v, b))
         /\ NewSim(first, v, b).state = "PLAYING" /\ NewSim(first, v, b).loot = 0
<1> DEFINE empty == [grid |-> [i \in Cell |-> Empty],
                     objectives |-> ScaledObjectives(Vaults[v].objectives),
                     movesLeft |-> Vaults[v].moves + (IF "extra_moves" \in b THEN 3 ELSE 0),
                     loot |-> 0, state |-> "PLAYING", reshuffles |-> 0,
                     rng |-> first, weights |-> Vaults[v].weights]
           drawn == Drawn(empty, ByRow(Cell))
           locked == PlaceLocks(drawn, Vaults[v].locks)
<1>1. NewSim(first, v, b) = Playable(locked)
  BY DEF NewSim
<1>2. IsSim(empty) /\ empty.state = "PLAYING" /\ empty.loot = 0
  BY DEF IsSim, Board
<1> HIDE DEF empty
<1>3. SameGame(empty, drawn)
  BY <1>2, DrawnKeeps
<1> HIDE DEF drawn
<1>4. Vaults[v].locks \in Nat
  <2> DEFINE V == [moves : Nat, objectives : [Objective -> Nat], locks : Nat, weights : [Kind -> Nat]]
  <2>1. Vaults \in Seq(V)
    BY EngineAssumption
  <2>2. \A r \in V : r.locks \in Nat
    OBVIOUS
  <2> HIDE DEF V
  <2>3. Vaults[v] \in V
    BY <2>1
  <2> QED BY <2>2, <2>3
<1>5. SameGame(drawn, locked)
  BY <1>3, <1>4, PlaceLocksKeeps DEF SameGame
<1> HIDE DEF locked
<1>6. SameGame(locked, Playable(locked)) /\ CanPlay(Playable(locked))
  BY <1>5, PlayableKeeps DEF SameGame
<1> QED BY <1>1, <1>2, <1>3, <1>5, <1>6 DEF SameGame

-----------------------------------------------------------------------------
(* Moves. *)

LEMMA BaseLootIsNat == ASSUME NEW t \in Tile PROVE BaseLoot[t] \in Nat
<1> DEFINE loots == <<40, 40, 40, 100, 250, 30, 0>>
<1>1. \A n \in 1..7 : loots[n] \in Nat
  OBVIOUS
<1> HIDE DEF loots
<1>2. t + 1 \in 1..7
  BY DEF Tile, Kind, Lock
<1>3. BaseLoot[t] = loots[t + 1]
  BY DEF BaseLoot, loots
<1> QED BY <1>1, <1>2, <1>3

LEMMA PreviewIsNat ==
  ASSUME NEW s, IsSim(s), NEW p \in Seq(Cell), ValidatePath(s.grid, p)
  PROVE  PreviewLoot(s.grid, p) \in Nat
<1>1. Len(p) \in Nat /\ Len(p) >= 3 /\ 1 \in DOMAIN p /\ p[1] \in Cell /\ Chainable(s.grid[p[1]])
  BY DEF ValidatePath
<1>2. s.grid[p[1]] \in Tile
  BY <1>1 DEF IsSim, Board, Chainable
<1>3. BaseLoot[s.grid[p[1]]] \in Nat
  BY <1>2, BaseLootIsNat
<1>4. ChainPct(Len(p)) \in Nat
  BY <1>1 DEF ChainPct
<1> DEFINE n == Len(p)
           base == BaseLoot[s.grid[p[1]]]
           pct == ChainPct(Len(p))
<1>5. PreviewLoot(s.grid, p) = (n * base * pct) \div 100
  BY <1>1 DEF PreviewLoot
<1>6. n \in Nat /\ base \in Nat /\ pct \in Nat
  BY <1>1, <1>3, <1>4
<1> HIDE DEF n, base, pct
<1>7. n * base * pct \in Nat
  BY <1>6
<1>8. \A m \in Nat : m \div 100 \in Nat
  OBVIOUS
<1> QED BY <1>5, <1>7, <1>8

(* A move adds its loot, and leaves a vault that is over or can be played.    *)
LEMMA ApplyKeeps ==
  ASSUME NEW s, IsSim(s), s.state = "PLAYING", NEW p \in Seq(Cell), ValidatePath(s.grid, p)
  PROVE  /\ IsSim(Apply(s, p)) /\ CanPlay(Apply(s, p))
         /\ Apply(s, p).loot = s.loot + PreviewLoot(s.grid, p)
<1> DEFINE loot == s.loot + PreviewLoot(s.grid, p)
           c == Counted(s, s.grid[p[1]], Len(p))
           counted == [c EXCEPT !.loot = @ + PreviewLoot(s.grid, p)]
           opened == Drawn(counted, ByRow(Unlocked(s.grid, p)))
           cleared == Cleared(opened, p)
           fallen == [cleared EXCEPT !.grid = Collapsed(@)]
           full == Refill(fallen)
<1>1. Apply(s, p) = Judged(full)
  BY DEF Apply, CollapseAndRefill
<1>2. loot \in Nat
  BY PreviewIsNat DEF IsSim
<1>3. IsSim(counted) /\ counted.state = "PLAYING" /\ counted.loot = loot
  <2>1. DOMAIN c = DOMAIN s /\ c.grid = s.grid /\ c.state = s.state /\ c.loot = s.loot /\ c.reshuffles = s.reshuffles
    BY DEF Counted, IsSim
  <2> HIDE DEF c
  <2>2. counted = [c EXCEPT !.loot = loot]
    BY <2>1
  <2> HIDE DEF counted, loot
  <2> QED BY <1>2, <2>1, <2>2 DEF IsSim
<1> HIDE DEF counted
<1>4. SameGame(counted, opened)
  BY <1>3, DrawnKeeps
<1> HIDE DEF opened
<1>5. SameGame(counted, cleared)
  <2> DEFINE tiles == [i \in Cell |-> IF i \in Cells(p) THEN Empty ELSE opened.grid[i]]
  <2>1. cleared = [opened EXCEPT !.grid = tiles]
    BY DEF Cleared
  <2>2. tiles \in Board
    BY <1>4 DEF SameGame, IsSim, Board
  <2> HIDE DEF tiles, cleared
  <2> QED BY <1>4, <2>1, <2>2 DEF SameGame, IsSim
<1> HIDE DEF cleared
<1>6. SameGame(counted, fallen)
  <2> DEFINE tiles == Collapsed(cleared.grid)
  <2>1. fallen = [cleared EXCEPT !.grid = tiles]
    OBVIOUS
  <2>2. tiles \in Board
    <3>1. cleared.grid \in Board
      BY <1>5 DEF SameGame, IsSim
    <3>2. ASSUME NEW i \in Cell
          PROVE  LET from == {j \in Cell : cleared.grid[j] # Empty /\ LandsAt(cleared.grid, j) = i}
                 IN  (IF from = {} THEN Empty ELSE cleared.grid[CHOOSE j \in from : TRUE]) \in Tile \cup {Empty}
      BY <3>1 DEF Board
    <3> QED BY <3>2 DEF Collapsed, Board
  <2> HIDE DEF tiles, fallen
  <2> QED BY <1>5, <2>1, <2>2 DEF SameGame, IsSim
<1> HIDE DEF fallen
<1>7. SameGame(counted, full)
  BY <1>6, DrawnKeeps DEF Refill, SameGame
<1> HIDE DEF full
<1>8. full.loot = loot /\ full.state = "PLAYING" /\ IsSim(full)
  BY <1>3, <1>7 DEF SameGame
<1> HIDE DEF loot
<1>9. IsSim(Judged(full)) /\ CanPlay(Judged(full)) /\ Judged(full).loot = loot
  <2>1. CASE \A o \in Objective : full.objectives[o] = 0
    <3>1. Judged(full) = [full EXCEPT !.state = "CRACKED"]
      BY <2>1 DEF Judged
    <3> QED BY <1>8, <3>1 DEF IsSim, CanPlay
  <2>2. CASE ~(\A o \in Objective : full.objectives[o] = 0) /\ full.movesLeft <= 0
    <3>1. Judged(full) = [full EXCEPT !.state = "BUSTED"]
      BY <2>2 DEF Judged
    <3> QED BY <1>8, <3>1 DEF IsSim, CanPlay
  <2>3. CASE ~(\A o \in Objective : full.objectives[o] = 0) /\ ~(full.movesLeft <= 0)
    <3>1. Judged(full) = Playable(full)
      BY <2>3 DEF Judged
    <3> QED BY <1>8, <3>1, PlayableKeeps DEF SameGame
  <2> QED BY <2>1, <2>2, <2>3
<1> QED BY <1>1, <1>9 DEF loot

-----------------------------------------------------------------------------
(* The bot. *)

Lengths(f, grid, kinds, N) == f = [n \in 1..N |-> IF n = 1 THEN Single(grid, kinds) ELSE Longer(grid, f[n - 1])]
LEMMA LengthsExist ==
  ASSUME NEW grid, NEW kinds, NEW N \in Nat
  PROVE  \E f : Lengths(f, grid, kinds, N)
<1> DEFINE P == {n \in Nat : \E f : Lengths(f, grid, kinds, n)}
<1>1. 0 \in P
  <2> DEFINE f == [n \in 1..0 |-> {}]
  <2>1. Lengths(f, grid, kinds, 0)
    BY DEF Lengths
  <2> HIDE DEF f
  <2> QED BY <2>1
<1>2. ASSUME NEW n \in Nat, n \in P PROVE n + 1 \in P
  <2>1. PICK f : Lengths(f, grid, kinds, n)
    BY <1>2
  <2> DEFINE last == IF n = 0 THEN Single(grid, kinds) ELSE Longer(grid, f[n])
             g == [k \in 1..(n + 1) |-> IF k = n + 1 THEN last ELSE f[k]]
  <2>2. ASSUME NEW k \in 1..(n + 1)
        PROVE  g[k] = IF k = 1 THEN Single(grid, kinds) ELSE Longer(grid, g[k - 1])
    <3>1. CASE k = n + 1
      <4>1. g[k] = last /\ (k # 1 => n # 0 /\ g[k - 1] = f[n]) /\ (k = 1 => n = 0)
        BY <3>1
      <4> HIDE DEF g
      <4> QED BY <4>1
    <3>2. CASE k # n + 1
      <4>1. k \in 1..n /\ g[k] = f[k] /\ (k # 1 => g[k - 1] = f[k - 1])
        BY <3>2
      <4>2. f[k] = IF k = 1 THEN Single(grid, kinds) ELSE Longer(grid, f[k - 1])
        BY <2>1, <4>1 DEF Lengths
      <4> QED BY <4>1, <4>2
    <3> QED BY <3>1, <3>2
  <2>3. Lengths(g, grid, kinds, n + 1)
    <3>1. g = [k \in 1..(n + 1) |-> g[k]]
      OBVIOUS
    <3> HIDE DEF g
    <3> QED BY <2>2, <3>1 DEF Lengths
  <2> HIDE DEF g
  <2> QED BY <2>3
<1> HIDE DEF P
<1>3. N \in P
  BY <1>1, <1>2, NatInd
<1> QED BY <1>3 DEF P

LEMMA ChainsUnrolled ==
  ASSUME NEW grid, NEW kinds, NEW maxLen \in Nat
  PROVE  \E f : /\ Lengths(f, grid, kinds, maxLen)
                /\ Chains(grid, kinds, maxLen) = UNION {f[n] : n \in 3..maxLen}
<1>1. \E f : Lengths(f, grid, kinds, maxLen)
  BY LengthsExist
<1> DEFINE f == CHOOSE f : Lengths(f, grid, kinds, maxLen)
<1>2. Lengths(f, grid, kinds, maxLen)
  BY <1>1
<1>3. Chains(grid, kinds, maxLen) = UNION {f[n] : n \in 3..maxLen}
  BY DEF Chains, Lengths
<1> HIDE DEF f
<1> QED BY <1>2, <1>3

(* What the bot's search visits is legal. *)
LEMMA ChainsAreLegal ==
  ASSUME NEW grid, NEW kinds, kinds \subseteq Kind, NEW maxLen \in Nat
  PROVE  \A p \in Chains(grid, kinds, maxLen) :
           p \in Seq(Cell) /\ Len(p) <= maxLen /\ ValidatePath(grid, p)
<1>1. PICK f : /\ Lengths(f, grid, kinds, maxLen)
               /\ Chains(grid, kinds, maxLen) = UNION {f[n] : n \in 3..maxLen}
  BY ChainsUnrolled
<1> DEFINE P == {n \in Nat : n \in 1..maxLen =>
                   \A p \in f[n] : p \in Seq(Cell) /\ Len(p) = n /\ Chain(grid, p)}
<1>2. 0 \in P
  OBVIOUS
<1>3. ASSUME NEW n \in Nat, n \in P PROVE n + 1 \in P
  <2> SUFFICES ASSUME n + 1 \in 1..maxLen, NEW p \in f[n + 1]
               PROVE  p \in Seq(Cell) /\ Len(p) = n + 1 /\ Chain(grid, p)
    OBVIOUS
  <2>1. f[n + 1] = IF n + 1 = 1 THEN Single(grid, kinds) ELSE Longer(grid, f[(n + 1) - 1])
    BY <1>1 DEF Lengths
  <2>2. CASE n = 0
    <3>1. PICK i \in Cell : grid[i] \in kinds /\ p = <<i>>
      BY <2>1, <2>2 DEF Single
    <3>2. Chainable(grid[i])
      BY <3>1 DEF Chainable, Kind, Lock, Empty
    <3>3. CanExtend(grid, <<>>, i)
      BY <3>2 DEF CanExtend
    <3> QED BY <2>2, <3>1, <3>3, BegunChain
  <2>3. CASE n # 0
    <3>1. f[n + 1] = Longer(grid, f[n])
      BY <2>1, <2>3
    <3>2. PICK q \in f[n], i \in Cell : CanExtend(grid, q, i) /\ p = Append(q, i)
      BY <3>1 DEF Longer
    <3>3. q \in Seq(Cell) /\ Len(q) = n /\ Chain(grid, q)
      BY <1>3, <2>3, <3>2
    <3>4. Chain(grid, p)
      BY <3>2, <3>3, ExtendedChain
    <3> HIDE DEF P
    <3> QED BY <3>2, <3>3, <3>4
  <2> QED BY <2>2, <2>3
<1> HIDE DEF P
<1>4. \A n \in 1..maxLen : n \in P
  BY <1>2, <1>3, NatInd
<1> SUFFICES ASSUME NEW n \in 3..maxLen, NEW p \in f[n]
             PROVE  p \in Seq(Cell) /\ Len(p) <= maxLen /\ ValidatePath(grid, p)
  BY <1>1
<1>5. p \in Seq(Cell) /\ Len(p) = n /\ Chain(grid, p)
  BY <1>4 DEF P
<1> QED BY <1>5 DEF Chain, ValidatePath

LEMMA AppendPair ==
  ASSUME NEW a \in Cell, NEW b \in Cell, NEW c \in Cell
  PROVE  Append(<<a>>, b) = <<a, b>> /\ Append(<<a, b>>, c) = <<a, b, c>>
<1>1. <<a>> \in Seq(Cell) /\ <<a, b>> \in Seq(Cell) /\ <<a, b, c>> \in Seq(Cell)
  OBVIOUS
<1>2. Append(<<a>>, b) = <<a, b>>
  <2> DEFINE u == Append(<<a>>, b)
             v == <<a, b>>
  <2>1. u \in Seq(Cell) /\ v \in Seq(Cell) /\ Len(u) = 2 /\ Len(v) = 2
        /\ u[1] = v[1] /\ u[2] = v[2]
    BY <1>1
  <2> HIDE DEF u, v
  <2>2. \A n \in 1..Len(u) : u[n] = v[n]
    BY <2>1
  <2>3. u = v
    BY <2>1, <2>2, SeqEqual
  <2> QED BY <2>3 DEF u, v
<1>3. Append(<<a, b>>, c) = <<a, b, c>>
  <2> DEFINE u == Append(<<a, b>>, c)
             v == <<a, b, c>>
  <2>1. u \in Seq(Cell) /\ v \in Seq(Cell) /\ Len(u) = 3 /\ Len(v) = 3
        /\ u[1] = v[1] /\ u[2] = v[2] /\ u[3] = v[3]
    BY <1>1
  <2> HIDE DEF u, v
  <2>2. \A n \in 1..Len(u) : u[n] = v[n]
    BY <2>1
  <2>3. u = v
    BY <2>1, <2>2, SeqEqual
  <2> QED BY <2>3 DEF u, v
<1> QED BY <1>2, <1>3

LEMMA LongerHas ==
  ASSUME NEW grid, NEW S, NEW p \in S, NEW i \in Cell, CanExtend(grid, p, i)
  PROVE  Append(p, i) \in Longer(grid, S)
<1> DEFINE T == {Append(p, j) : j \in {c \in Cell : CanExtend(grid, p, c)}}
<1>1. T \in {{Append(q, j) : j \in {c \in Cell : CanExtend(grid, q, c)}} : q \in S}
  OBVIOUS
<1>2. Append(p, i) \in T
  OBVIOUS
<1> QED BY <1>1, <1>2 DEF Longer

(* It visits every legal chain of three. *)
LEMMA ChainsOfThree ==
  ASSUME NEW grid, NEW kinds, NEW maxLen \in Nat, maxLen >= 3,
         NEW a \in Cell, NEW b \in Cell, NEW c \in Cell, ValidatePath(grid, <<a, b, c>>), grid[a] \in kinds
  PROVE  <<a, b, c>> \in Chains(grid, kinds, maxLen)
<1>1. PICK f : /\ Lengths(f, grid, kinds, maxLen)
               /\ Chains(grid, kinds, maxLen) = UNION {f[n] : n \in 3..maxLen}
  BY ChainsUnrolled
<1>2. f[1] = Single(grid, kinds) /\ f[2] = Longer(grid, f[1]) /\ f[3] = Longer(grid, f[2])
  BY <1>1 DEF Lengths
<1> DEFINE p == <<a, b, c>>
<1>3. /\ 1 \in DOMAIN p /\ 2 \in DOMAIN p /\ 3 \in DOMAIN p
      /\ p[1] = a /\ p[2] = b /\ p[3] = c
  OBVIOUS
<1>4. a # b /\ a # c /\ b # c
  BY <1>3 DEF ValidatePath
<1>5. /\ Chainable(grid[b]) /\ Chainable(grid[c]) /\ grid[b] = grid[a] /\ grid[c] = grid[a]
      /\ Touching(a, b) /\ Touching(b, c)
  BY <1>3 DEF ValidatePath
<1>6. <<a>> \in f[1]
  BY <1>2 DEF Single
<1>7. CanExtend(grid, <<a>>, b)
  BY <1>4, <1>5 DEF CanExtend
<1>8. <<a, b>> \in f[2]
  <2>1. Append(<<a>>, b) \in f[2]
    BY <1>2, <1>6, <1>7, LongerHas
  <2>2. Append(<<a>>, b) = <<a, b>>
    BY AppendPair
  <2> QED BY <2>1, <2>2, Zenon
<1>9. CanExtend(grid, <<a, b>>, c)
  BY <1>4, <1>5 DEF CanExtend
<1>10. <<a, b, c>> \in f[3]
  <2>1. Append(<<a, b>>, c) \in f[3]
    BY <1>2, <1>8, <1>9, LongerHas
  <2>2. Append(<<a, b>>, c) = <<a, b, c>>
    BY AppendPair
  <2> QED BY <2>1, <2>2, Zenon
<1> QED BY <1>1, <1>10

(* The first of some sequences of one length, entry by entry. *)
Ahead1(p, q, k) == \E n \in 1..k : p[n] < q[n] /\ \A m \in 1..(n - 1) : p[m] = q[m]
Agree(p, q, k) == \A m \in 1..k : p[m] = q[m]
LEMMA FirstExists ==
  ASSUME NEW S, NEW L \in Nat, S # {}, \A p \in S : p \in Seq(Nat) /\ Len(p) = L
  PROVE  FirstOf(S) \in S
<1> DEFINE Leads(p, k) == p \in S /\ \A q \in S : Agree(p, q, k) \/ Ahead1(p, q, k)
           P == {k \in Nat : k <= L => \E p : Leads(p, k)}
<1>1. 0 \in P
  BY DEF Agree
<1>2. ASSUME NEW k \in Nat, k \in P PROVE k + 1 \in P
  <2> SUFFICES ASSUME k + 1 <= L PROVE \E p : Leads(p, k + 1)
    OBVIOUS
  <2>1. PICK p : Leads(p, k)
    BY <1>2
  <2> DEFINE T == {q \in S : Agree(p, q, k)}
             V == {q[k + 1] : q \in T}
  <2>2. \A q \in S : \A m \in 1..(k + 1) : q[m] \in Nat
    <3>1. \A q \in S : q \in Seq(Nat) /\ Len(q) = L
      OBVIOUS
    <3> HIDE DEF P
    <3> QED BY <3>1
  <2>3. V \subseteq Nat /\ V # {}
    BY <2>1, <2>2 DEF Agree
  <2> HIDE DEF V
  <2>4. Min(V) \in V /\ \A x \in V : Min(V) <= x
    BY <2>3, Least
  <2>5. PICK best \in T : \A q \in T : best[k + 1] <= q[k + 1]
    BY <2>4 DEF V
  <2>6. ASSUME NEW q \in S PROVE Agree(best, q, k + 1) \/ Ahead1(best, q, k + 1)
    <3>1. best \in S /\ Agree(p, best, k)
      BY <2>5
    <3>2. CASE Agree(p, q, k)
      <4>1. best[k + 1] <= q[k + 1] /\ best[k + 1] \in Nat /\ q[k + 1] \in Nat
        BY <2>2, <2>5, <3>1, <3>2
      <4>2. \A m \in 1..k : best[m] = q[m]
        BY <3>1, <3>2 DEF Agree
      <4>3. CASE best[k + 1] = q[k + 1]
        BY <4>2, <4>3 DEF Agree
      <4>4. CASE best[k + 1] < q[k + 1]
        <5>1. k + 1 \in 1..(k + 1) /\ (k + 1) - 1 = k
          OBVIOUS
        <5> QED BY <4>2, <4>4, <5>1 DEF Ahead1
      <4> QED BY <4>1, <4>3, <4>4
    <3>3. CASE ~Agree(p, q, k)
      <4>1. Ahead1(p, q, k)
        BY <2>1, <3>3
      <4>2. PICK n \in 1..k : p[n] < q[n] /\ \A m \in 1..(n - 1) : p[m] = q[m]
        BY <4>1 DEF Ahead1
      <4>3. best[n] < q[n] /\ \A m \in 1..(n - 1) : best[m] = q[m]
        BY <3>1, <4>2 DEF Agree
      <4>4. n \in 1..(k + 1)
        OBVIOUS
      <4> QED BY <4>3, <4>4 DEF Ahead1
    <3> QED BY <3>2, <3>3
  <2> QED BY <2>5, <2>6
<1> HIDE DEF P
<1>3. L \in P
  BY <1>1, <1>2, NatInd
<1>4. PICK p : Leads(p, L)
  BY <1>3 DEF P
<1>5. ASSUME NEW q \in S PROVE p = q \/ Before(p, q)
  <2>1. /\ p \in Seq(Nat) /\ q \in Seq(Nat) /\ Len(p) = L /\ Len(q) = L /\ DOMAIN p = 1..L
        /\ Agree(p, q, L) \/ Ahead1(p, q, L)
    BY <1>4
  <2>2. CASE Agree(p, q, L)
    BY <2>1, <2>2 DEF Agree
  <2>3. CASE Ahead1(p, q, L)
    BY <2>1, <2>3 DEF Ahead1, Before
  <2> QED BY <2>1, <2>2, <2>3
<1>6. \E x \in S : \A q \in S : x = q \/ Before(x, q)
  BY <1>4, <1>5
<1> QED BY <1>6 DEF FirstOf

(* Three distinct chainable cells of a kind that touch one after another. *)
LEMMA ThreeAreLegal ==
  ASSUME NEW grid, NEW a \in Cell, NEW b \in Cell, NEW c \in Cell, a # b, a # c, b # c,
         Chainable(grid[a]), grid[b] = grid[a], grid[c] = grid[a], Touching(a, b), Touching(b, c)
  PROVE  ValidatePath(grid, <<a, b, c>>)
<1> DEFINE p == <<a, b, c>>
<1>1. DOMAIN p = 1..3 /\ Len(p) = 3 /\ p[1] = a /\ p[2] = b /\ p[3] = c
  OBVIOUS
<1> HIDE DEF p
<1> SUFFICES ValidatePath(grid, p)
  BY DEF p
<1>2. \A n \in 1..3 : n = 1 \/ n = 2 \/ n = 3
  OBVIOUS
<1>3. 1..(1 - 1) = {} /\ 1..(2 - 1) = {1} /\ \A m \in 1..(3 - 1) : m = 1 \/ m = 2
  OBVIOUS
<1>4. 2 - 1 = 1 /\ 3 - 1 = 2
  OBVIOUS
<1> HIDE DEF Touching
<1>5. ASSUME NEW n \in 1..3
      PROVE  /\ p[n] \in Cell
             /\ \A m \in 1..(n - 1) : p[m] # p[n]
             /\ Chainable(grid[p[n]])
             /\ n > 1 => grid[p[n]] = grid[p[1]] /\ Touching(p[n - 1], p[n])
  <2>1. CASE n = 1
    BY <1>1, <1>3, <2>1
  <2>2. CASE n = 2
    BY <1>1, <1>3, <1>4, <2>2
  <2>3. CASE n = 3
    BY <1>1, <1>3, <1>4, <2>3
  <2> QED BY <1>2, <2>1, <2>2, <2>3
<1> QED BY <1>1, <1>5 DEF ValidatePath

LEMMA CellsAreNat ==
  ASSUME NEW p \in Seq(Cell) PROVE p \in Seq(Nat)
<1>1. \A c \in Cell : c \in Nat
  BY DEF Cell
<1> HIDE DEF Cell
<1> QED BY <1>1

LEMMA LongestChainIs ==
  ASSUME NEW grid, NEW kinds, kinds \subseteq Kind, NEW maxLen \in Nat
  PROVE  IF Chains(grid, kinds, maxLen) = {} THEN LongestChain(grid, kinds, maxLen) = <<>>
         ELSE LongestChain(grid, kinds, maxLen) \in Chains(grid, kinds, maxLen)
<1> DEFINE all == Chains(grid, kinds, maxLen)
           longest == Longest(all)
<1>1. LongestChain(grid, kinds, maxLen) = FirstOf(longest) /\ longest \subseteq all
  BY DEF LongestChain, Longest
<1>2. CASE all = {}
  <2>1. longest = {}
    BY <1>1, <1>2
  <2> HIDE DEF longest
  <2> QED BY <1>1, <1>2, <2>1 DEF FirstOf
<1>3. CASE all # {}
  <2>1. \A p \in all : p \in Seq(Cell) /\ Len(p) <= maxLen /\ Len(p) \in Nat
    <3>1. \A p \in all : p \in Seq(Cell) /\ Len(p) <= maxLen
      BY ChainsAreLegal
    <3> HIDE DEF all
    <3> QED BY <3>1
  <2> HIDE DEF all
  <2> DEFINE Short == {maxLen - Len(p) : p \in all}
  <2>2. Short \subseteq Nat /\ Short # {}
    BY <1>3, <2>1
  <2> HIDE DEF Short
  <2>3. Min(Short) \in Short /\ \A x \in Short : Min(Short) <= x
    BY <2>2, Least
  <2>4. PICK p \in all : \A q \in all : maxLen - Len(p) <= maxLen - Len(q)
    BY <2>3 DEF Short
  <2>5. ASSUME NEW q \in all PROVE Len(q) <= Len(p)
    <3>1. Len(p) \in Nat /\ Len(q) \in Nat /\ maxLen - Len(p) <= maxLen - Len(q)
      BY <2>1, <2>4
    <3> QED BY <3>1
  <2>6. p \in longest
    BY <2>4, <2>5 DEF Longest
  <2>7. \A q \in longest : q \in Seq(Nat) /\ Len(q) = Len(p)
    <3> SUFFICES ASSUME NEW q \in longest PROVE q \in Seq(Nat) /\ Len(q) = Len(p)
      OBVIOUS
    <3>1. q \in all /\ Len(p) <= Len(q)
      BY <2>4 DEF Longest
    <3>2. Len(q) <= Len(p) /\ Len(p) \in Nat /\ Len(q) \in Nat /\ q \in Seq(Cell)
      BY <2>1, <2>4, <2>5, <3>1
    <3>3. q \in Seq(Nat)
      BY <3>2, CellsAreNat
    <3>4. Len(q) = Len(p)
      <4>1. Len(p) \in Nat
        BY <2>1, <2>4
      <4> HIDE DEF longest
      <4> QED BY <3>1, <3>2, <4>1
    <3> QED BY <3>3, <3>4
  <2>8. Len(p) \in Nat
    BY <2>1, <2>4
  <2> HIDE DEF longest
  <2>9. FirstOf(longest) \in longest
    BY <2>6, <2>7, <2>8, FirstExists
  <2> QED BY <1>1, <1>3, <2>9 DEF all
<1> QED BY <1>2, <1>3

(* Every list of wishes ends with all kinds. *)
LEMMA WishesTyped ==
  ASSUME NEW s, NEW a
  PROVE  /\ Wishes(s, a) \in Seq(SUBSET Kind) /\ Wishes(s, a) # <<>>
         /\ Wishes(s, a)[Len(Wishes(s, a))] = Kind
<1> DEFINE first == IF a.greedy /\ s.movesLeft > 6 THEN <<{Diamond, Money}>> ELSE <<>>
           guards == IF s.movesLeft <= 3 THEN <<{Guard}>> ELSE <<>>
           T == SUBSET Kind
           front == first \o <<Needed(s)>> \o guards
<1>1. {Diamond, Money} \in T /\ {Guard} \in T /\ Needed(s) \in T /\ Kind \in T
  BY DEF Diamond, Money, Guard, Kind, Needed, Objective, Key, Laser, Camera
<1>2. Wishes(s, a) = front \o <<Kind>>
  BY DEF Wishes
<1> HIDE DEF T
<1>3. first \in Seq(T) /\ guards \in Seq(T) /\ <<Needed(s)>> \in Seq(T)
  BY <1>1
<1> HIDE DEF first, guards
<1>4. front \in Seq(T)
  BY <1>3, ConcatProperties
<1> HIDE DEF front
<1>5. front \o <<Kind>> = Append(front, Kind)
  BY <1>1, <1>4, AppendIsConcat
<1>6. /\ Append(front, Kind) \in Seq(T) /\ Append(front, Kind) # <<>>
      /\ Len(Append(front, Kind)) = Len(front) + 1 /\ Append(front, Kind)[Len(front) + 1] = Kind
  BY <1>1, <1>4, AppendProperties
<1> QED BY <1>2, <1>5, <1>6 DEF T

(* The bot's move is legal, and it has one when there is one. *)
LEMMA ChosenMove ==
  ASSUME NEW s, IsSim(s), NEW a \in Archetype
  PROVE  /\ ChooseMove(s, a) # <<>> =>
              ChooseMove(s, a) \in Seq(Cell) /\ ValidatePath(s.grid, ChooseMove(s, a))
         /\ LegalMove(s.grid) => ChooseMove(s, a) # <<>>
<1> DEFINE w == Wishes(s, a)
           found == [n \in DOMAIN w |-> LongestChain(s.grid, w[n], a.maxChain)]
           N == Len(w)
<1>1. ChooseMove(s, a) = FirstGranted(found)
  BY DEF ChooseMove
<1>2. w \in Seq(SUBSET Kind) /\ w # <<>> /\ w[N] = Kind
  BY WishesTyped
<1> HIDE DEF w
<1>3. N \in Nat /\ N >= 1 /\ DOMAIN w = 1..N /\ \A n \in 1..N : w[n] \subseteq Kind
  BY <1>2
<1>4. a.maxChain \in Nat /\ a.maxChain >= 3
  BY BotAssumption
<1>5. ASSUME NEW n \in 1..N
      PROVE  /\ found[n] # <<>> => found[n] \in Seq(Cell) /\ ValidatePath(s.grid, found[n])
             /\ Chains(s.grid, w[n], a.maxChain) # {} => found[n] # <<>>
  <2>1. found[n] = LongestChain(s.grid, w[n], a.maxChain)
    BY <1>3
  <2>2. w[n] \subseteq Kind
    BY <1>3
  <2>3. \A p \in Chains(s.grid, w[n], a.maxChain) : p \in Seq(Cell) /\ ValidatePath(s.grid, p)
    BY <1>4, <2>2, ChainsAreLegal
  <2>4. IF Chains(s.grid, w[n], a.maxChain) = {} THEN found[n] = <<>>
        ELSE found[n] \in Chains(s.grid, w[n], a.maxChain)
    BY <1>4, <2>1, <2>2, LongestChainIs
  <2>5. \A p : ValidatePath(s.grid, p) => p # <<>>
    BY DEF ValidatePath
  <2> HIDE DEF found
  <2> QED BY <2>3, <2>4, <2>5
<1>6. DOMAIN found = 1..N
  BY <1>3
<1> HIDE DEF found
<1>7. Granted(found) \subseteq 1..N /\ \A n \in Granted(found) : found[n] # <<>>
  BY <1>6 DEF Granted
<1>8. Granted(found) # {} => Min(Granted(found)) \in Granted(found)
  <2>1. Granted(found) \subseteq Nat
    BY <1>7
  <2> QED BY <2>1, Least
<1>9. /\ Granted(found) = {} => ChooseMove(s, a) = <<>>
      /\ Granted(found) # {} => \E n \in 1..N : found[n] # <<>> /\ ChooseMove(s, a) = found[n]
  BY <1>1, <1>7, <1>8 DEF FirstGranted
<1>10. ASSUME LegalMove(s.grid) PROVE Granted(found) # {}
  <2>1. PICK x \in Cell, y \in Cell, z \in Cell : ValidatePath(s.grid, <<x, y, z>>)
    BY <1>10 DEF LegalMove
  <2> DEFINE p == <<x, y, z>>
  <2>2. 1 \in DOMAIN p /\ p[1] = x
    OBVIOUS
  <2>3. Chainable(s.grid[x])
    BY <2>1, <2>2 DEF ValidatePath
  <2>4. s.grid[x] \in Kind
    BY <2>3 DEF IsSim, Board, Chainable, Tile
  <2>5. p \in Chains(s.grid, Kind, a.maxChain)
    BY <1>4, <2>1, <2>4, ChainsOfThree
  <2>6. N \in 1..N /\ found[N] # <<>>
    BY <1>2, <1>3, <1>5, <2>5
  <2> QED BY <1>6, <2>6 DEF Granted
<1> QED BY <1>5, <1>9, <1>10

(* So does the hint. *)
LEMMA HintIsFound ==
  ASSUME NEW grid
  PROVE  /\ HasAnyMove(grid) <=> FindHintChain(grid) # <<>>
         /\ HasAnyMove(grid) => ValidatePath(grid, FindHintChain(grid))
<1>0. Cell \subseteq Nat
  BY EngineAssumption DEF Cell
<1>1. HasAnyMove(grid) <=> HintCells(grid) # {}
  BY DEF HasAnyMove, HintCells
<1>2. CASE HintCells(grid) = {}
  BY <1>1, <1>2 DEF FindHintChain
<1>3. CASE HintCells(grid) # {}
  <2> DEFINE i == Min(HintCells(grid))
             first == Min(Alike(grid, i))
             second == Min(Alike(grid, i) \ {first})
  <2>1. FindHintChain(grid) = <<first, i, second>>
    BY <1>3 DEF FindHintChain
  <2>2. i \in HintCells(grid)
    <3>1. HintCells(grid) \subseteq Nat
      BY <1>0 DEF HintCells
    <3> QED BY <1>3, <3>1, Least
  <2> HIDE DEF i
  <2>3. i \in Cell /\ Chainable(grid[i]) /\ \E x, y \in Alike(grid, i) : x # y
    BY <2>2, AlikeIsFinite, AtLeastTwo DEF HintCells
  <2>4. first \in Alike(grid, i)
    <3>1. Alike(grid, i) \subseteq Nat /\ Alike(grid, i) # {}
      BY <1>0, <2>3 DEF Alike
    <3> QED BY <3>1, Least
  <2> HIDE DEF first
  <2>5. second \in Alike(grid, i) \ {first}
    <3> DEFINE others == Alike(grid, i) \ {first}
    <3>1. others \subseteq Nat
      BY <1>0 DEF Alike
    <3>2. others # {}
      BY <2>3
    <3> HIDE DEF others
    <3>3. Min(others) \in others
      BY <3>1, <3>2, Least
    <3> QED BY <3>3 DEF others
  <2> HIDE DEF second
  <2>6. /\ first \in Cell /\ second \in Cell /\ Touching(first, i) /\ Touching(i, second)
        /\ grid[first] = grid[i] /\ grid[second] = grid[i] /\ first # i /\ second # i /\ first # second
    BY <2>3, <2>4, <2>5, TouchingIsSymmetric DEF Alike, Touching
  <2>7. ValidatePath(grid, <<first, i, second>>)
    <3>1. Chainable(grid[first]) /\ grid[i] = grid[first] /\ grid[second] = grid[first]
      BY <2>3, <2>6
    <3> QED BY <2>3, <2>6, <3>1, ThreeAreLegal
  <2> QED BY <1>1, <1>3, <2>1, <2>7
<1> QED BY <1>2, <1>3

(* A legal path begins with a legal path of three. *)
LEMMA FirstThree ==
  ASSUME NEW grid, NEW p \in Seq(Cell), ValidatePath(grid, p)
  PROVE  LegalMove(grid)
<1>1. /\ Len(p) \in Nat /\ Len(p) >= 3 /\ DOMAIN p = 1..Len(p)
      /\ 1 \in DOMAIN p /\ 2 \in DOMAIN p /\ 3 \in DOMAIN p
  BY DEF ValidatePath
<1>2. /\ p[1] \in Cell /\ p[2] \in Cell /\ p[3] \in Cell
      /\ p[1] # p[2] /\ p[1] # p[3] /\ p[2] # p[3]
      /\ Chainable(grid[p[1]]) /\ Chainable(grid[p[2]]) /\ Chainable(grid[p[3]])
      /\ grid[p[2]] = grid[p[1]] /\ grid[p[3]] = grid[p[1]]
      /\ Touching(p[1], p[2]) /\ Touching(p[2], p[3])
  BY <1>1 DEF ValidatePath
<1>3. ValidatePath(grid, <<p[1], p[2], p[3]>>)
  BY <1>2, ThreeAreLegal
<1> QED BY <1>2, <1>3 DEF LegalMove

LEMMA CanPlayIsFound ==
  ASSUME IsSim(sim), CanPlay(sim)
  PROVE  MovesCanBeFound
<1> SUFFICES ASSUME sim.state = "PLAYING" PROVE MovesCanBeFound
  BY DEF MovesCanBeFound
<1>1. HasAnyMove(sim.grid) <=> LegalMove(sim.grid)
  BY MovesAreSeen
<1>2. ASSUME NEW a \in Archetype PROVE LegalMove(sim.grid) <=> ChooseMove(sim, a) # <<>>
  BY ChosenMove, FirstThree
<1>3. LegalMove(sim.grid) \/ sim.reshuffles >= MaxShuffles
  BY <1>1 DEF CanPlay
<1>4. /\ LegalMove(sim.grid) <=> FindHintChain(sim.grid) # <<>>
      /\ LegalMove(sim.grid) => ValidatePath(sim.grid, FindHintChain(sim.grid))
  BY <1>1, HintIsFound
<1> DEFINE hint == FindHintChain(sim.grid)
           some == LegalMove(sim.grid)
<1>5. some = (hint # <<>>)
  <2>1. some \in BOOLEAN
    BY DEF LegalMove
  <2> QED BY <1>4, <2>1, Zenon
<1>6. \A a \in Archetype : some = (ChooseMove(sim, a) # <<>>)
  <2> SUFFICES ASSUME NEW a \in Archetype PROVE some = (ChooseMove(sim, a) # <<>>)
    OBVIOUS
  <2>1. some \in BOOLEAN
    BY DEF LegalMove
  <2>2. some <=> ChooseMove(sim, a) # <<>>
    BY <1>2
  <2> QED BY <2>1, <2>2, Zenon
<1>7. some \/ sim.reshuffles >= MaxShuffles
  BY <1>3
<1>8. some => ValidatePath(sim.grid, hint)
  BY <1>4
<1> QED BY <1>5, <1>6, <1>7, <1>8, Zenon DEF MovesCanBeFound
-----------------------------------------------------------------------------
(* A heist on its way.  The vault with number `index` is in play, or it has   *)
(* joined the record: then it is over, and only the end of the heist or the *)
(* next vault can follow.                                                   *)

Settled == Len(vaults) = index

PlayTyped ==
  /\ IsSim(sim) /\ CanPlay(sim)
  /\ index \in DOMAIN Vaults
  /\ vaults \in Seq(Seq(Seq(Cell))) /\ moves \in Seq(Seq(Cell))
  /\ total \in Nat
  /\ bot \in Archetype \cup {NoBot}

RecordGrows ==
  /\ Len(vaults) = index \/ Len(vaults) = index - 1
  /\ Settled => moves = <<>>

(* By hand: a finger finds the board at rest and in play, an animation runs   *)
(* only in an unsettled vault, and the modals follow a settled one.          *)
HandsTakeTurns ==
  bot = NoBot =>
    /\ inputEnabled => phase = "idle" /\ sim.state = "PLAYING" /\ ~Settled
    /\ pointer # NoFinger => inputEnabled
    /\ phase # "idle" => ~Settled
    /\ overlay # "none" => Settled
    /\ Settled => sim.state # "PLAYING"
    /\ overlay = "decision" => sim.state = "CRACKED" /\ index < Len(Vaults)
    /\ result # NoResult => Settled /\ overlay = "none"
    /\ ~gaveUp

BotTakesTurns ==
  bot # NoBot =>
    /\ index <= bot.maxVault
    /\ result = NoResult => ~Settled
    /\ result # NoResult => Settled

(* The record leads to the vault in play, or has reached its end. *)
Done == Replayed(seed, boosters, vaults)
RecordLeads ==
  ~gaveUp =>
    /\ ~Settled => /\ Done.state = "CRACKED"
                   /\ sim = Played(NewSim(Done.rng, index, boosters), moves)
                   /\ bot = NoBot => total = Done.total
    /\ Settled => sim.state # "PLAYING" /\ EndsAs(Done)
    /\ result # Invalid

(* The last decision modal spoke of the loot so far; more can only follow. *)
Promised(loot, v) ==
  [escape |-> EscapeScore(loot, v),
   deeper |-> EscapeScore(loot, v + 1),
   bust |-> BustScore(loot, v + 1, boosters)]
OffersStand ==
  /\ bot # NoBot => offer = NoOffer
  /\ offer # NoOffer /\ result = NoResult =>
       /\ overlay = "decision" => offer = Promised(total, index)
       /\ overlay # "decision" => index >= 2 /\ \E t \in 0..total : offer = Promised(t, index - 1)

GameInv == PlayTyped /\ RecordGrows /\ HandsTakeTurns /\ BotTakesTurns /\ RecordLeads /\ OffersStand
PlayInv == TouchInv /\ GameInv

LEMMA Vault ==
  /\ Len(Vaults) \in Nat /\ DOMAIN Vaults = 1..Len(Vaults) /\ 1 \in DOMAIN Vaults
  BY EngineAssumption

(* The verdict on a heist that came to its end. *)
LEMMA InRange ==
  ASSUME NEW reached \in 1..Len(Vaults), NEW state, state \in {"CRACKED", "BUSTED"}
  PROVE  ~(reached = 0 \/ reached > Len(Vaults) \/ state = "REFUSED")
  BY Vault

LEMMA VerdictOnCracked ==
  ASSUME NEW end, NEW reached \in 1..Len(Vaults), NEW escaped \in BOOLEAN, NEW b,
         end.state = "CRACKED", escaped \/ reached = Len(Vaults)
  PROVE  /\ Verdict(end, reached, escaped, b).outcome = "ESCAPED"
         /\ Verdict(end, reached, escaped, b).score = EscapeScore(end.total, reached)
<1>1. ~(reached = 0 \/ reached > Len(Vaults) \/ end.state = "REFUSED")
  BY InRange, Zenon
<1>2. end.state = "CRACKED" /\ (escaped \/ reached = Len(Vaults))
  OBVIOUS
<1> DEFINE Scored(outcome, score) == [outcome |-> outcome, loot |-> end.total, reached |-> reached, score |-> score]
<1>3. Verdict(end, reached, escaped, b) = Scored("ESCAPED", EscapeScore(end.total, reached))
  BY <1>1, <1>2, Zenon DEF Verdict
<1> QED BY <1>3

LEMMA VerdictOnBusted ==
  ASSUME NEW end, NEW reached \in 1..Len(Vaults), NEW b, end.state = "BUSTED"
  PROVE  /\ Verdict(end, reached, FALSE, b).outcome = "BUSTED"
         /\ Verdict(end, reached, FALSE, b).score = BustScore(end.total, reached, b)
<1>1. ~(reached = 0 \/ reached > Len(Vaults) \/ end.state = "REFUSED")
  BY InRange, Zenon
<1>2. end.state # "CRACKED"
  OBVIOUS
<1> QED BY <1>1, <1>2, Zenon DEF Verdict

LEMMA VerdictOnEscape ==
  ASSUME NEW end, NEW reached \in 1..Len(Vaults), NEW b, end.state = "CRACKED"
  PROVE  Verdict(end, reached, TRUE, b).outcome = "ESCAPED"
<1>1. TRUE \in BOOLEAN /\ (TRUE \/ reached = Len(Vaults))
  OBVIOUS
<1> QED BY <1>1, VerdictOnCracked

LEMMA VerdictStands ==
  ASSUME NEW r, r.outcome \in {"ESCAPED", "BUSTED"}
  PROVE  r # Invalid /\ r # NoResult
  BY DEF Invalid, NoResult

-----------------------------------------------------------------------------
(* The record. *)

(* A vault on the board joins the record as the end it has. *)
LEMMA VaultJoins ==
  ASSUME PlayInv, ~gaveUp, ~Settled, sim.state # "PLAYING"
  PROVE  Replayed(seed, boosters, Append(vaults, moves))
           = [state |-> sim.state, rng |-> sim.rng, total |-> Done.total + sim.loot]
<1>1. /\ Len(vaults) + 1 = index /\ Done.state = "CRACKED"
      /\ sim = Played(NewSim(Done.rng, index, boosters), moves)
  <2>1. index \in Int /\ Len(vaults) \in Int
    BY Vault DEF PlayInv, GameInv, PlayTyped
  <2> QED BY <2>1 DEF PlayInv, GameInv, RecordLeads, RecordGrows, Settled
<1>2. Replayed(seed, boosters, Append(vaults, moves)) = NextVault(Done, index, boosters, moves)
  BY <1>1, ReplayedAppend DEF PlayInv, GameInv, PlayTyped, Done
<1>3. sim.state \in {"CRACKED", "BUSTED"}
  BY DEF PlayInv, GameInv, PlayTyped, IsSim
<1>4. NextVault(Done, index, boosters, moves) = Ended(sim, Done.total)
  BY <1>1 DEF NextVault
<1> QED BY <1>2, <1>3, <1>4 DEF Ended

(* Steps that leave vault and record alone. *)
(* An empty record leaves a vault, or a heist, where it is. *)
LEMMA NothingPlayed == ASSUME NEW s PROVE Played(s, <<>>) = s
<1>1. <<>> \in Seq(Nat) /\ 0 \in Nat
  OBVIOUS
<1> QED BY <1>1, PlayedAppend

LEMMA NothingReplayed == ASSUME NEW first, NEW b PROVE Replayed(first, b, <<>>) = Begun(first)
<1>1. <<>> \in Seq(Nat) /\ 0 \in Nat
  OBVIOUS
<1> QED BY <1>1, ReplayedAppend

LEMMA RecordStays ==
  ASSUME PlayInv, UNCHANGED <<heistVars, sim, recordVars, botOnly>>
  PROVE  /\ PlayTyped' /\ RecordGrows' /\ Settled' = Settled /\ Done' = Done
         /\ result' # Invalid => RecordLeads'
BY DEF PlayInv, GameInv, PlayTyped, RecordGrows, RecordLeads, Settled, Done, EndsAs, heistVars, recordVars, botOnly

LEMMA InvInit == BotInit => PlayInv
<1> SUFFICES ASSUME BotInit PROVE PlayInv
  OBVIOUS
<1> USE DEF BotInit, PlayInit
<1>1. TouchInv
  BY TouchInit
<1>2. Len(vaults) = 0 /\ ~Settled /\ index = 1 /\ 1 \in DOMAIN Vaults
  BY Vault DEF Settled
<1>3. IsSim(sim) /\ CanPlay(sim) /\ sim.state = "PLAYING"
  BY <1>2, NewSimIsSim
<1>4. PlayTyped
  BY <1>2, <1>3 DEF PlayTyped
<1>5. RecordGrows
  BY <1>2 DEF RecordGrows
<1>6. HandsTakeTurns
  BY <1>2 DEF HandsTakeTurns
<1>7. BotTakesTurns
  BY <1>2, BotAssumption, Vault DEF BotTakesTurns
<1>8. RecordLeads
  <2>1. Done = Begun(seed)
    BY NothingReplayed DEF Done
  <2>2. Played(NewSim(Done.rng, index, boosters), moves) = NewSim(Done.rng, index, boosters)
    BY NothingPlayed
  <2> QED BY <1>2, <2>1, <2>2 DEF RecordLeads, Begun, NoResult, Invalid
<1>9. OffersStand
  BY DEF OffersStand
<1> QED BY <1>1, <1>4, <1>5, <1>6, <1>7, <1>8, <1>9 DEF PlayInv, GameInv

-----------------------------------------------------------------------------
(* Steps of a hand that leave vault, record and modals alone. *)
LEMMA GameRests ==
  ASSUME PlayInv, UNCHANGED <<heistVars, sim, recordVars, endVars, botOnly>>
  PROVE  /\ PlayTyped' /\ RecordGrows' /\ BotTakesTurns' /\ RecordLeads' /\ OffersStand'
         /\ Settled' = Settled
<1>1. result' = result /\ overlay' = overlay /\ offer' = offer
  BY DEF endVars
<1>2. boosters' = boosters /\ total' = total /\ index' = index /\ bot' = bot /\ gaveUp' = gaveUp
  BY DEF heistVars, recordVars, botOnly
<1>3. PlayTyped' /\ RecordGrows' /\ Settled' = Settled /\ (result' # Invalid => RecordLeads')
  BY RecordStays
<1>4. RecordLeads'
  <2>1. CASE gaveUp
    BY <1>2, <2>1 DEF RecordLeads
  <2>2. CASE ~gaveUp
    BY <1>1, <1>3, <2>2 DEF PlayInv, GameInv, RecordLeads
  <2> QED BY <2>1, <2>2
<1>5. BotTakesTurns'
  BY <1>1, <1>2, <1>3 DEF PlayInv, GameInv, BotTakesTurns
<1>6. OffersStand'
  BY <1>1, <1>2 DEF PlayInv, GameInv, OffersStand, Promised
<1> QED BY <1>3, <1>4, <1>5, <1>6

LEMMA EntryDoneStep == ASSUME PlayInv, bot = NoBot, UNCHANGED botOnly, EntryDone PROVE GameInv'
<1>1. UNCHANGED <<heistVars, sim, recordVars, endVars, botOnly>>
  BY DEF EntryDone
<1>2. ~Settled /\ ~Settled' /\ overlay = "none" /\ result = NoResult /\ ~gaveUp /\ (pointer # NoFinger => inputEnabled)
  <2>1. phase # "idle"
    BY DEF EntryDone
  <2> QED BY <1>1, <2>1, GameRests DEF PlayInv, GameInv, HandsTakeTurns
<1>3. pointer = NoFinger
  BY <1>2 DEF EntryDone, PlayInv, GameInv, HandsTakeTurns
<1>4. phase' = "idle" /\ inputEnabled' = (sim'.state = "PLAYING")
  BY DEF EntryDone
<1>5. overlay' = "none" /\ result' = NoResult /\ ~gaveUp' /\ pointer' = NoFinger
  BY <1>1, <1>2, <1>3 DEF EntryDone, endVars, botOnly, touchVars
<1>6. HandsTakeTurns'
  BY <1>2, <1>4, <1>5 DEF HandsTakeTurns
<1> QED BY <1>1, <1>6, GameRests DEF GameInv

LEMMA FallStep == ASSUME PlayInv, bot = NoBot, UNCHANGED botOnly, Fall \/ ShowsShuffle PROVE GameInv'
<1>1. UNCHANGED <<heistVars, sim, recordVars, endVars, botOnly>>
  BY DEF Fall, ShowsShuffle
<1>2. HandsTakeTurns'
  BY <1>1, GameRests DEF PlayInv, GameInv, HandsTakeTurns, Fall, ShowsShuffle, endVars, recordVars, botOnly, touchVars
<1> QED BY <1>1, <1>2, GameRests DEF GameInv

LEMMA FingerStep ==
  ASSUME PlayInv, bot = NoBot, UNCHANGED botOnly, NEW f \in Finger, NEW i \in Cell, OnDown(f, i) \/ OnMove(f, i)
  PROVE  GameInv'
<1>1. UNCHANGED <<heistVars, sim, recordVars, inputVars, endVars, botOnly>> /\ inputEnabled
  <2>1. CASE OnDown(f, i)
    BY <2>1 DEF OnDown
  <2>2. CASE OnMove(f, i)
    <3>1. pointer # NoFinger
      BY <2>2, FingerAssumption DEF OnMove
    <3> QED BY <2>2, <3>1 DEF OnMove, PlayInv, GameInv, HandsTakeTurns
  <2> QED BY <2>1, <2>2
<1>2. HandsTakeTurns'
  BY <1>1, GameRests DEF PlayInv, GameInv, HandsTakeTurns, endVars, inputVars, recordVars, botOnly
<1> QED BY <1>1, <1>2, GameRests DEF GameInv

(* A legal move, drawn or chosen, goes into the record as it goes into the    *)
(* vault.                                                                   *)
LEMMA MoveIsRecorded ==
  ASSUME PlayInv, UNCHANGED <<heistVars, index, vaults, total, endVars, botOnly>>,
         ~Settled, sim.state = "PLAYING",
         NEW p \in Seq(Cell), ValidatePath(sim.grid, p), sim' = Apply(sim, p), moves' = Append(moves, p)
  PROVE  PlayTyped' /\ RecordGrows' /\ RecordLeads' /\ OffersStand' /\ BotTakesTurns' /\ ~Settled' /\ Settled' = Settled
<1>1. /\ index' = index /\ vaults' = vaults /\ total' = total /\ seed' = seed /\ boosters' = boosters
      /\ overlay' = overlay /\ offer' = offer /\ result' = result /\ bot' = bot /\ gaveUp' = gaveUp
  BY DEF heistVars, endVars, botOnly
<1>2. PlayTyped'
  BY <1>1, ApplyKeeps DEF PlayInv, GameInv, PlayTyped
<1>3. RecordGrows' /\ ~Settled' /\ Settled' = Settled
  BY <1>1 DEF PlayInv, GameInv, RecordGrows, Settled
<1>4. Done' = Done
  BY <1>1 DEF Done
<1>5. ASSUME ~gaveUp
      PROVE  sim' = Played(NewSim(Done.rng, index, boosters), moves')
  <2>1. sim = Played(NewSim(Done.rng, index, boosters), moves)
    BY <1>5 DEF PlayInv, GameInv, RecordLeads
  <2>2. Played(NewSim(Done.rng, index, boosters), Append(moves, p)) = PlayOn(sim, p)
    BY <2>1, PlayedAppend DEF PlayInv, GameInv, PlayTyped
  <2>3. PlayOn(sim, p) = Apply(sim, p)
    BY DEF PlayOn
  <2> QED BY <2>2, <2>3
<1>6. RecordLeads'
  BY <1>1, <1>3, <1>4, <1>5 DEF PlayInv, GameInv, RecordLeads
<1>7. OffersStand'
  BY <1>1 DEF PlayInv, GameInv, OffersStand, Promised
<1>8. BotTakesTurns'
  BY <1>1, <1>3 DEF PlayInv, GameInv, BotTakesTurns
<1> QED BY <1>2, <1>3, <1>6, <1>7, <1>8

LEMMA OnUpStep ==
  ASSUME PlayInv, bot = NoBot, UNCHANGED botOnly, NEW f \in Finger, OnUp(f)
  PROVE  GameInv'
<1>0. pointer # NoFinger
  BY FingerAssumption DEF OnUp
<1>1. inputEnabled /\ phase = "idle" /\ sim.state = "PLAYING" /\ ~Settled
  BY <1>0 DEF PlayInv, GameInv, HandsTakeTurns
<1>2. CASE Commits
  <2>1. /\ UNCHANGED <<heistVars, index, vaults, total, endVars, botOnly>>
        /\ ValidatePath(sim.grid, path) /\ sim' = Apply(sim, path) /\ moves' = Append(moves, path)
        /\ inputEnabled' = FALSE /\ pointer' = NoFinger
    BY <1>2 DEF OnUp, Commits
  <2>2. path \in Seq(Cell)
    BY DEF PlayInv, TouchInv
  <2>3. PlayTyped' /\ RecordGrows' /\ RecordLeads' /\ OffersStand' /\ BotTakesTurns' /\ ~Settled' /\ Settled' = Settled
    BY <1>1, <2>1, <2>2, MoveIsRecorded
  <2>4. HandsTakeTurns'
    <3>1. bot' = bot /\ overlay' = overlay /\ result' = result /\ gaveUp' = gaveUp
      BY <2>1 DEF endVars, botOnly
    <3>2. overlay = "none" /\ result = NoResult /\ ~gaveUp
      BY <1>1 DEF PlayInv, GameInv, HandsTakeTurns
    <3> QED BY <2>1, <2>3, <3>1, <3>2 DEF HandsTakeTurns
  <2> QED BY <2>3, <2>4 DEF GameInv
<1>3. CASE ~Commits
  <2>1. UNCHANGED <<heistVars, sim, recordVars, endVars, inputVars, botOnly>> /\ pointer' = NoFinger
    BY <1>3 DEF OnUp, recordVars
  <2>2. HandsTakeTurns'
    BY <2>1, GameRests DEF PlayInv, GameInv, HandsTakeTurns, endVars, inputVars, recordVars, botOnly
  <2> QED BY <2>1, <2>2, GameRests DEF GameInv
<1> QED BY <1>2, <1>3

(* The vault that is over joins the record, and its loot the total. *)
LEMMA SettleStep == ASSUME PlayInv, bot = NoBot, UNCHANGED botOnly, Settle PROVE GameInv'
<1>0. bot' = bot /\ gaveUp' = gaveUp
  BY DEF botOnly
<1>1. /\ phase # "idle" /\ phase' = "idle" /\ inputEnabled' = (sim.state = "PLAYING")
      /\ UNCHANGED <<heistVars, sim, touchVars, offer, result>>
  BY DEF Settle
<1>2. ~Settled /\ overlay = "none" /\ result = NoResult /\ ~gaveUp /\ pointer = NoFinger
  BY <1>1 DEF PlayInv, GameInv, HandsTakeTurns
<1>3. pointer' = NoFinger /\ result' = NoResult /\ ~gaveUp' /\ offer' = offer /\ sim' = sim
  BY <1>0, <1>1, <1>2 DEF touchVars
<1>4. CASE sim.state = "PLAYING"
  <2>1. UNCHANGED <<heistVars, sim, recordVars, endVars, botOnly>>
    BY <1>1, <1>4 DEF Settle, OnSettled, endVars
  <2>2. overlay' = "none" /\ ~Settled'
    BY <1>2, <2>1, GameRests DEF endVars
  <2>3. HandsTakeTurns'
    BY <1>1, <1>3, <1>4, <2>2 DEF HandsTakeTurns
  <2> QED BY <2>1, <2>3, GameRests DEF GameInv
<1>5. CASE sim.state # "PLAYING"
  <2>1. /\ vaults' = Append(vaults, moves) /\ moves' = <<>> /\ total' = total + sim.loot
        /\ overlay' = "banner" /\ index' = index /\ seed' = seed /\ boosters' = boosters
    BY <1>1, <1>5 DEF Settle, OnSettled, heistVars
  <2>2. /\ vaults \in Seq(Seq(Seq(Cell))) /\ moves \in Seq(Seq(Cell)) /\ index \in DOMAIN Vaults
        /\ total \in Nat /\ sim.loot \in Nat /\ IsSim(sim)
    BY DEF PlayInv, GameInv, PlayTyped, IsSim
  <2>3. PlayTyped'
    BY <1>0, <1>3, <2>1, <2>2 DEF PlayInv, GameInv, PlayTyped
  <2>4. Len(vaults) + 1 = index /\ Len(vaults') = Len(vaults) + 1
    <3>1. index \in Int /\ Len(vaults) \in Int
      BY <2>2, Vault
    <3>2. Len(vaults) = index - 1
      BY <1>2 DEF PlayInv, GameInv, RecordGrows, Settled
    <3>3. Len(vaults') = Len(vaults) + 1
      BY <2>1, <2>2
    <3> QED BY <3>1, <3>2, <3>3
  <2>5. Settled'
    BY <2>1, <2>4 DEF Settled
  <2>6. RecordGrows'
    BY <2>1, <2>5 DEF RecordGrows, Settled
  <2>7. HandsTakeTurns'
    BY <1>1, <1>3, <1>5, <2>1, <2>5 DEF HandsTakeTurns
  <2>8. BotTakesTurns'
    BY <1>0 DEF BotTakesTurns
  <2>9. Done' = [state |-> sim.state, rng |-> sim.rng, total |-> Done.total + sim.loot]
    BY <1>2, <1>5, <2>1, VaultJoins DEF Done
  <2>10. total = Done.total
    BY <1>2 DEF PlayInv, GameInv, RecordLeads
  <2>11. RecordLeads'
    <3>1. Done'.state = sim'.state /\ Done'.rng = sim'.rng /\ Done'.total = total'
      BY <1>3, <2>1, <2>9, <2>10
    <3>2. result' # Invalid
      BY <1>3 DEF NoResult, Invalid
    <3> QED BY <1>3, <1>5, <2>5, <3>1, <3>2 DEF RecordLeads, EndsAs
  <2>12. OffersStand'
    <3>1. ASSUME offer # NoOffer
          PROVE  index >= 2 /\ \E t \in 0..(total + sim.loot) : offer = Promised(t, index - 1)
      <4>1. index >= 2 /\ \E t \in 0..total : offer = Promised(t, index - 1)
        BY <1>2, <3>1 DEF PlayInv, GameInv, OffersStand
      <4>2. \A t \in 0..total : t \in 0..(total + sim.loot)
        BY <2>2
      <4> QED BY <4>1, <4>2
    <3>2. \A t, v : Promised(t, v)' = Promised(t, v)
      BY <2>1 DEF Promised
    <3> HIDE DEF Promised
    <3> QED BY <1>0, <1>3, <2>1, <3>1, <3>2 DEF OffersStand
  <2> QED BY <2>3, <2>6, <2>7, <2>8, <2>11, <2>12 DEF GameInv
<1> QED BY <1>4, <1>5

LEMMA FinishKeeps ==
  ASSUME PlayInv, bot = NoBot, UNCHANGED botOnly, overlay # "none",
         UNCHANGED <<heistVars, sim, recordVars, touchVars, inputVars, offer>>, overlay' = "none",
         result'.outcome \in {"ESCAPED", "BUSTED"}
  PROVE  GameInv'
<1>0. bot' = bot /\ gaveUp' = gaveUp
  BY DEF botOnly
<1>1. Settled /\ ~gaveUp /\ sim.state # "PLAYING" /\ pointer = NoFinger /\ ~inputEnabled /\ phase = "idle"
  BY DEF PlayInv, GameInv, HandsTakeTurns
<1>2. result' # Invalid /\ result' # NoResult
  BY VerdictStands
<1>3. PlayTyped' /\ RecordGrows' /\ Settled' /\ RecordLeads'
  BY <1>1, <1>2, RecordStays
<1>4. sim' = sim /\ pointer' = pointer /\ inputEnabled' = inputEnabled /\ phase' = phase
  BY DEF touchVars, inputVars
<1>5. HandsTakeTurns'
  BY <1>0, <1>1, <1>3, <1>4 DEF HandsTakeTurns
<1>6. BotTakesTurns'
  BY <1>0 DEF BotTakesTurns
<1>7. OffersStand'
  BY <1>0, <1>2 DEF OffersStand
<1> QED BY <1>3, <1>5, <1>6, <1>7 DEF GameInv

(* The heist ends with the score of its record. *)
LEMMA FinishStep ==
  ASSUME PlayInv, bot = NoBot, UNCHANGED botOnly, overlay # "none",
         NEW escaped \in BOOLEAN, FinishRun(escaped),
         \/ sim.state = "CRACKED" /\ (escaped \/ index = Len(Vaults))
         \/ sim.state = "BUSTED" /\ ~escaped
  PROVE  /\ GameInv'
         /\ sim.state = "CRACKED" => result'.outcome = "ESCAPED" /\ result'.score = EscapeScore(total, index)
         /\ sim.state = "BUSTED" => result'.outcome = "BUSTED" /\ result'.score = BustScore(total, index, boosters)
<1>0. bot' = bot /\ gaveUp' = gaveUp
  BY DEF botOnly
<1>1. Settled /\ ~gaveUp /\ sim.state # "PLAYING" /\ pointer = NoFinger /\ ~inputEnabled
  BY DEF PlayInv, GameInv, HandsTakeTurns
<1>2. Done.state = sim.state /\ Done.total = total
  BY <1>1 DEF PlayInv, GameInv, RecordLeads, EndsAs
<1>3. index \in 1..Len(Vaults) /\ Len(vaults) = index
  BY <1>1, Vault DEF PlayInv, GameInv, PlayTyped, Settled
<1>4. result' = Verdict(Done, index, escaped, boosters)
  BY <1>3 DEF FinishRun, RunReplay, Done
<1>5. /\ UNCHANGED <<heistVars, sim, recordVars, touchVars, inputVars, offer>>
      /\ overlay' = "none"
  BY DEF FinishRun
<1>6. result'.outcome \in {"ESCAPED", "BUSTED"} => GameInv'
  BY <1>5, FinishKeeps
<1>7. CASE sim.state = "CRACKED"
  <2>1. escaped \/ index = Len(Vaults)
    BY <1>7
  <2>2. result'.outcome = "ESCAPED" /\ result'.score = EscapeScore(Done.total, index)
    BY <1>2, <1>3, <1>4, <1>7, <2>1, VerdictOnCracked
  <2> QED BY <1>2, <1>6, <1>7, <2>2
<1>8. CASE sim.state = "BUSTED"
  <2>1. escaped = FALSE
    BY <1>8
  <2>2. result'.outcome = "BUSTED" /\ result'.score = BustScore(Done.total, index, boosters)
    BY <1>2, <1>3, <1>4, <1>8, <2>1, VerdictOnBusted
  <2> QED BY <1>2, <1>6, <1>8, <2>2
<1> QED BY <1>7, <1>8

LEMMA DecisionStep == ASSUME PlayInv, bot = NoBot, UNCHANGED botOnly, Decision PROVE GameInv'
<1>0. bot' = bot /\ gaveUp' = gaveUp
  BY DEF botOnly
<1>1. /\ UNCHANGED <<heistVars, sim, recordVars, touchVars, inputVars, result>>
      /\ overlay' = "decision" /\ overlay = "banner" /\ sim.state = "CRACKED" /\ index # Len(Vaults)
  BY DEF Decision, LastVault
<1>2. /\ Settled /\ ~gaveUp /\ pointer = NoFinger /\ ~inputEnabled /\ phase = "idle"
      /\ result = NoResult /\ result # Invalid
  BY <1>1 DEF PlayInv, GameInv, HandsTakeTurns, RecordLeads
<1>3. result' = NoResult /\ result' # Invalid
  BY <1>1, <1>2
<1>4. PlayTyped' /\ RecordGrows' /\ Settled' /\ RecordLeads'
  BY <1>1, <1>2, <1>3, RecordStays
<1>5. /\ sim' = sim /\ pointer' = pointer /\ inputEnabled' = inputEnabled /\ phase' = phase
      /\ index' = index /\ total' = total /\ boosters' = boosters
  BY <1>1 DEF touchVars, inputVars, recordVars, heistVars
<1>6. index < Len(Vaults)
  BY <1>1, Vault DEF PlayInv, GameInv, PlayTyped
<1>7. HandsTakeTurns'
  BY <1>0, <1>1, <1>2, <1>3, <1>4, <1>5, <1>6 DEF HandsTakeTurns
<1>8. BotTakesTurns'
  BY <1>0 DEF BotTakesTurns
<1>9. OffersStand'
  <2>1. Len(vaults) = index
    BY <1>2 DEF Settled
  <2>2. offer' = Promised(total, index)
    BY <2>1 DEF Decision, Promised
  <2>3. Promised(total, index)' = Promised(total, index)
    BY <1>5 DEF Promised
  <2> QED BY <1>0, <1>1, <2>2, <2>3 DEF OffersStand
<1> QED BY <1>4, <1>7, <1>8, <1>9 DEF GameInv

(* The next vault, on the generator the record has come to. *)
LEMMA NextVaultOpens ==
  ASSUME PlayInv, NEW done, done.state = "CRACKED", done.rng = sim.rng, index + 1 \in DOMAIN Vaults
  PROVE  /\ IsSim(NewSim(sim.rng, index + 1, boosters)) /\ CanPlay(NewSim(sim.rng, index + 1, boosters))
         /\ NewSim(sim.rng, index + 1, boosters).state = "PLAYING"
         /\ NewSim(sim.rng, index + 1, boosters) = Played(NewSim(done.rng, index + 1, boosters), <<>>)
  BY NewSimIsSim, NothingPlayed

LEMMA OnDeeperStep == ASSUME PlayInv, bot = NoBot, UNCHANGED botOnly, OnDeeper PROVE GameInv'
<1>0. bot' = bot /\ gaveUp' = gaveUp
  BY DEF botOnly
<1>1. /\ overlay = "decision" /\ overlay' = "none" /\ index' = index + 1
      /\ sim' = NewSim(sim.rng, index + 1, boosters) /\ inputEnabled' = FALSE /\ phase' = "entry"
      /\ UNCHANGED <<heistVars, vaults, moves, total, pointer, offer, result>>
  BY DEF OnDeeper, SetSim
<1>2. /\ seed' = seed /\ boosters' = boosters /\ vaults' = vaults /\ moves' = moves /\ total' = total
      /\ pointer' = pointer /\ offer' = offer /\ result' = result
  BY <1>1 DEF heistVars
<1>3. /\ Settled /\ ~gaveUp /\ pointer = NoFinger /\ result = NoResult /\ sim.state = "CRACKED"
      /\ index < Len(Vaults)
  BY <1>1 DEF PlayInv, GameInv, HandsTakeTurns
<1>4. index \in Nat /\ index >= 1 /\ index + 1 \in DOMAIN Vaults /\ (index + 1) - 1 = index /\ index + 1 >= 2
      /\ index # index + 1
  BY <1>3, Vault DEF PlayInv, GameInv, PlayTyped
<1>5. Done.state = "CRACKED" /\ Done.rng = sim.rng /\ Done.total = total
  BY <1>3 DEF PlayInv, GameInv, RecordLeads, EndsAs
<1>6. /\ IsSim(sim') /\ CanPlay(sim') /\ sim'.state = "PLAYING"
      /\ sim' = Played(NewSim(Done.rng, index', boosters), <<>>)
  BY <1>1, <1>4, <1>5, NextVaultOpens
<1>7. PlayTyped'
  BY <1>0, <1>1, <1>2, <1>4, <1>6 DEF PlayInv, GameInv, PlayTyped
<1>8. Len(vaults') = index' - 1 /\ ~Settled' /\ moves = <<>>
  BY <1>1, <1>2, <1>3, <1>4 DEF Settled, PlayInv, GameInv, RecordGrows
<1>9. RecordGrows'
  BY <1>8 DEF RecordGrows
<1>10. HandsTakeTurns'
  BY <1>0, <1>1, <1>2, <1>3, <1>8 DEF HandsTakeTurns
<1>11. BotTakesTurns'
  BY <1>0 DEF BotTakesTurns
<1>12. RecordLeads'
  <2>1. Done' = Done
    BY <1>2 DEF Done
  <2>2. result' # Invalid
    BY <1>2, <1>3 DEF NoResult, Invalid
  <2> QED BY <1>2, <1>5, <1>6, <1>8, <2>1, <2>2 DEF RecordLeads
<1>13. OffersStand'
  <2>1. ASSUME offer # NoOffer PROVE offer = Promised(total, index) /\ total \in 0..total
    BY <1>1, <1>3, <2>1 DEF PlayInv, GameInv, OffersStand, PlayTyped
  <2>2. \A t, v : Promised(t, v)' = Promised(t, v)
    BY <1>2 DEF Promised
  <2>3. ASSUME offer # NoOffer PROVE \E t \in 0..total : offer = Promised(t, (index + 1) - 1)
    BY <1>4, <2>1, <2>3
  <2>4. index + 1 >= 2
    BY <1>4
  <2> HIDE DEF Promised
  <2> QED BY <1>0, <1>1, <1>2, <2>2, <2>3, <2>4 DEF OffersStand
<1> QED BY <1>7, <1>9, <1>10, <1>11, <1>12, <1>13 DEF GameInv

LEMMA ConcludeStep == ASSUME PlayInv, bot = NoBot, UNCHANGED botOnly, Conclude PROVE GameInv'
<1>1. CASE OnEscape
  <2>1. overlay = "decision" /\ FinishRun(TRUE)
    BY <1>1 DEF OnEscape
  <2>2. overlay # "none" /\ sim.state = "CRACKED"
    BY <2>1 DEF PlayInv, GameInv, HandsTakeTurns
  <2> QED BY <2>1, <2>2, FinishStep
<1>2. CASE CleanSweep
  <2>1. overlay # "none" /\ FinishRun(TRUE) /\ sim.state = "CRACKED"
    BY <1>2 DEF CleanSweep
  <2> QED BY <2>1, FinishStep
<1>3. CASE Busted
  <2>1. overlay # "none" /\ FinishRun(FALSE) /\ sim.state = "BUSTED"
    BY <1>3 DEF Busted
  <2> QED BY <2>1, FinishStep
<1> QED BY <1>1, <1>2, <1>3, DecisionStep, OnDeeperStep DEF Conclude

-----------------------------------------------------------------------------
(* Steps of the bot. *)

LEMMA BotMoveStep == ASSUME PlayInv, BotMove PROVE GameInv'
<1>1. /\ UNCHANGED <<heistVars, index, vaults, total, endVars, botOnly>>
      /\ bot # NoBot /\ result = NoResult /\ sim.state = "PLAYING" /\ ChooseMove(sim, bot) # <<>>
      /\ sim' = Apply(sim, ChooseMove(sim, bot)) /\ moves' = Append(moves, ChooseMove(sim, bot))
  BY DEF BotMove, Playing, Stuck
<1>2. ~Settled
  BY <1>1 DEF PlayInv, GameInv, BotTakesTurns
<1>3. bot \in Archetype /\ IsSim(sim)
  BY <1>1 DEF PlayInv, GameInv, PlayTyped
<1>4. ChooseMove(sim, bot) \in Seq(Cell) /\ ValidatePath(sim.grid, ChooseMove(sim, bot))
  BY <1>1, <1>3, ChosenMove
<1>5. PlayTyped' /\ RecordGrows' /\ RecordLeads' /\ OffersStand' /\ BotTakesTurns'
  BY <1>1, <1>2, <1>4, MoveIsRecorded
<1>6. HandsTakeTurns'
  BY <1>1 DEF HandsTakeTurns, botOnly
<1> QED BY <1>5, <1>6 DEF GameInv

(* The vault that the bot leaves joins the record as it is. *)
LEMMA BotLeaves ==
  ASSUME PlayInv, VaultOver, vaults' = Append(vaults, moves)
  PROVE  /\ ~Settled /\ result = NoResult /\ bot # NoBot /\ bot \in Archetype
         /\ index \in Nat /\ index \in 1..Len(Vaults) /\ Len(vaults') = index
         /\ vaults' \in Seq(Seq(Seq(Cell)))
         /\ bot.maxVault \in 1..Len(Vaults) /\ index <= bot.maxVault
<1>1. bot # NoBot /\ result = NoResult
  BY DEF VaultOver, Playing
<1>2. ~Settled /\ bot \in Archetype /\ index <= bot.maxVault
  BY <1>1 DEF PlayInv, GameInv, BotTakesTurns, PlayTyped
<1>3. index \in 1..Len(Vaults) /\ index \in Nat /\ bot.maxVault \in 1..Len(Vaults)
  BY <1>2, Vault, BotAssumption DEF PlayInv, GameInv, PlayTyped
<1>4. vaults' \in Seq(Seq(Seq(Cell))) /\ Len(vaults') = Len(vaults) + 1 /\ Len(vaults) \in Nat
  BY DEF PlayInv, GameInv, PlayTyped
<1>5. Len(vaults) = index - 1
  BY <1>2 DEF PlayInv, GameInv, RecordGrows, Settled
<1> QED BY <1>1, <1>2, <1>3, <1>4, <1>5

LEMMA BotVaultStep == ASSUME PlayInv, BotVault PROVE GameInv'
<1>1. /\ VaultOver /\ sim.state # "BUSTED" /\ index # bot.maxVault
      /\ vaults' = Append(vaults, moves) /\ moves' = <<>> /\ index' = index + 1
      /\ sim' = NewSim(sim.rng, index + 1, boosters)
      /\ gaveUp' = (gaveUp \/ sim.state = "PLAYING")
      /\ total' = total /\ bot' = bot /\ seed' = seed /\ boosters' = boosters
      /\ overlay' = overlay /\ offer' = offer /\ result' = result
  BY DEF BotVault, LastOne, heistVars, endVars
<1>2. /\ ~Settled /\ result = NoResult /\ bot # NoBot /\ bot \in Archetype
      /\ index \in Nat /\ index \in 1..Len(Vaults) /\ Len(vaults') = index
      /\ vaults' \in Seq(Seq(Seq(Cell)))
      /\ bot.maxVault \in 1..Len(Vaults) /\ index <= bot.maxVault
  BY <1>1, BotLeaves
<1>3. index + 1 \in DOMAIN Vaults /\ index + 1 <= bot.maxVault /\ (index + 1) - 1 = index /\ index # index + 1
  BY <1>1, <1>2, Vault
<1>4. IsSim(sim') /\ CanPlay(sim') /\ sim'.state = "PLAYING"
  BY <1>1, <1>3, NewSimIsSim
<1>5. PlayTyped'
  BY <1>1, <1>2, <1>3, <1>4 DEF PlayInv, GameInv, PlayTyped
<1>6. RecordGrows' /\ ~Settled'
  BY <1>1, <1>2, <1>3 DEF RecordGrows, Settled
<1>7. HandsTakeTurns'
  BY <1>1, <1>2 DEF HandsTakeTurns
<1>8. BotTakesTurns'
  BY <1>1, <1>2, <1>3, <1>6 DEF BotTakesTurns
<1>9. RecordLeads'
  <2> SUFFICES ASSUME ~gaveUp' PROVE RecordLeads'
    BY DEF RecordLeads
  <2>1. ~gaveUp /\ sim.state # "PLAYING"
    BY <1>1
  <2>2. sim.state = "CRACKED"
    BY <1>1, <2>1 DEF PlayInv, GameInv, PlayTyped, IsSim
  <2>3. Done' = [state |-> sim.state, rng |-> sim.rng, total |-> Done.total + sim.loot]
    BY <1>1, <1>2, <2>1, VaultJoins DEF Done
  <2>4. Done'.state = "CRACKED" /\ Done'.rng = sim.rng
    BY <2>2, <2>3
  <2>5. sim' = Played(NewSim(Done'.rng, index', boosters'), moves')
    BY <1>1, <2>4, NothingPlayed
  <2>6. result' # Invalid
    BY <1>1, <1>2 DEF NoResult, Invalid
  <2> QED BY <1>1, <1>2, <1>6, <2>4, <2>5, <2>6 DEF RecordLeads
<1>10. OffersStand'
  BY <1>1, <1>2 DEF PlayInv, GameInv, OffersStand
<1> QED BY <1>5, <1>6, <1>7, <1>8, <1>9, <1>10 DEF GameInv

(* A replay has an outcome, of one kind or another. *)
LEMMA RunReplayEnds ==
  ASSUME NEW first, NEW b, NEW vs, NEW escaped PROVE RunReplay(first, b, vs, escaped) # NoResult
<1> QED BY Zenon DEF RunReplay, Verdict, Invalid, NoResult

LEMMA BotFinishStep == ASSUME PlayInv, BotFinish PROVE GameInv'
<1>1. /\ VaultOver /\ vaults' = Append(vaults, moves) /\ moves' = <<>> /\ index' = index
      /\ result' = RunReplay(seed, boosters, vaults', sim.state = "CRACKED")
      /\ sim' = sim /\ gaveUp' = (gaveUp \/ sim.state = "PLAYING")
      /\ total' = total /\ bot' = bot /\ seed' = seed /\ boosters' = boosters
      /\ overlay' = overlay /\ offer' = offer
  BY DEF BotFinish, heistVars
<1>2. /\ ~Settled /\ result = NoResult /\ bot # NoBot /\ bot \in Archetype
      /\ index \in Nat /\ index \in 1..Len(Vaults) /\ Len(vaults') = index
      /\ vaults' \in Seq(Seq(Seq(Cell)))
      /\ bot.maxVault \in 1..Len(Vaults) /\ index <= bot.maxVault
  BY <1>1, BotLeaves
<1>3. PlayTyped'
  BY <1>1, <1>2 DEF PlayInv, GameInv, PlayTyped
<1>4. RecordGrows' /\ Settled'
  BY <1>1, <1>2 DEF RecordGrows, Settled
<1>5. HandsTakeTurns'
  BY <1>1, <1>2 DEF HandsTakeTurns
<1>6. BotTakesTurns'
  <2>1. result' # NoResult
    BY <1>1, RunReplayEnds
  <2> QED BY <1>1, <1>2, <1>4, <2>1 DEF BotTakesTurns
<1>7. RecordLeads'
  <2> SUFFICES ASSUME ~gaveUp' PROVE RecordLeads'
    BY DEF RecordLeads
  <2>1. ~gaveUp /\ sim.state # "PLAYING"
    BY <1>1
  <2>2. Done' = [state |-> sim.state, rng |-> sim.rng, total |-> Done.total + sim.loot]
    BY <1>1, <1>2, <2>1, VaultJoins DEF Done
  <2>3. Done'.state = sim.state /\ Done'.rng = sim.rng
    BY <2>2
  <2>4. result' = Verdict(Done', index, sim.state = "CRACKED", boosters)
    BY <1>1, <1>2 DEF RunReplay, Done
  <2>5. result'.outcome \in {"ESCAPED", "BUSTED"}
    <3>1. CASE sim.state = "CRACKED"
      <4>1. (sim.state = "CRACKED") = TRUE
        BY <3>1, Zenon
      <4>2. result' = Verdict(Done', index, TRUE, boosters)
        BY <2>4, <4>1, Zenon
      <4> QED BY <1>2, <2>3, <3>1, <4>2, VerdictOnEscape
    <3>2. CASE sim.state = "BUSTED"
      <4>1. (sim.state = "CRACKED") = FALSE
        <5>1. sim.state # "CRACKED"
          BY <3>2
        <5> QED BY <5>1, Zenon
      <4>2. result' = Verdict(Done', index, FALSE, boosters)
        BY <2>4, <4>1, Zenon
      <4> QED BY <1>2, <2>3, <3>2, <4>2, VerdictOnBusted
    <3> QED BY <2>1, <3>1, <3>2 DEF PlayInv, GameInv, PlayTyped, IsSim
  <2>6. result' # Invalid
    BY <2>5, VerdictStands
  <2> QED BY <1>1, <1>2, <1>4, <2>1, <2>3, <2>6 DEF RecordLeads, EndsAs
<1>8. OffersStand'
  BY <1>1, <1>2 DEF PlayInv, GameInv, OffersStand
<1> QED BY <1>3, <1>4, <1>5, <1>6, <1>7, <1>8 DEF GameInv

LEMMA PlayStep == PlayInv /\ [BotNext]_botVars => PlayInv'
<1> SUFFICES ASSUME PlayInv, [BotNext]_botVars PROVE PlayInv'
  OBVIOUS
<1>1. TouchInv'
  BY TouchStep DEF PlayInv
<1>2. GameInv'
  <2>1. CASE ByHand
    <3>1. bot = NoBot /\ UNCHANGED botOnly /\ PlayNext
      BY <2>1 DEF ByHand
    <3>2. CASE Touch
      <4>1. PICK f \in Finger : (\E i \in Cell : OnDown(f, i) \/ OnMove(f, i)) \/ OnUp(f)
        BY <3>2 DEF Touch
      <4>2. ASSUME NEW i \in Cell, OnDown(f, i) \/ OnMove(f, i) PROVE GameInv'
        BY <3>1, <4>2, FingerStep
      <4>3. CASE OnUp(f)
        BY <3>1, <4>3, OnUpStep
      <4> QED BY <4>1, <4>2, <4>3
    <3>3. CASE Animate
      BY <3>1, <3>3, EntryDoneStep, FallStep, SettleStep DEF Animate
    <3>4. CASE Conclude
      BY <3>1, <3>4, ConcludeStep
    <3> QED BY <3>1, <3>2, <3>3, <3>4 DEF PlayNext
  <2>2. CASE BotMove
    BY <2>2, BotMoveStep
  <2>3. CASE BotVault
    BY <2>3, BotVaultStep
  <2>4. CASE BotFinish
    BY <2>4, BotFinishStep
  <2>5. CASE UNCHANGED botVars
    <3>1. UNCHANGED <<heistVars, sim, recordVars, endVars, botOnly>> /\ UNCHANGED <<touchVars, inputVars>>
      BY <2>5 DEF botVars, playVars
    <3>2. HandsTakeTurns'
      BY <3>1, GameRests DEF PlayInv, GameInv, HandsTakeTurns, endVars, inputVars, touchVars, recordVars, botOnly
    <3> QED BY <3>1, <3>2, GameRests DEF GameInv
  <2> QED BY <2>1, <2>2, <2>3, <2>4, <2>5 DEF BotNext
<1> QED BY <1>1, <1>2 DEF PlayInv

(* While a vault is being played there is a move, unless reshuffle has used   *)
(* up its attempts; the hint and the bot see one exactly when there is one.  *)
THEOREM AMoveIsFound == BotSpec => []MovesCanBeFound
<1>1. PlayInv => MovesCanBeFound
  BY CanPlayIsFound DEF PlayInv, GameInv, PlayTyped
<1> QED BY <1>1, InvInit, PlayStep, PTL DEF BotSpec

(* The record replays to the vault on the board, tile for tile and draw for   *)
(* draw, and to its outcome and loot when it is over.                       *)
THEOREM RecordIsTheHeist == BotSpec => []ReplayReproduces
<1>1. PlayInv => ReplayReproduces
  <2> SUFFICES ASSUME PlayInv, ~gaveUp
               PROVE  /\ ~Settled /\ sim.state = "PLAYING" => RebuildRun = sim
                      /\ Settled => EndsAs(Done)
                      /\ result # Invalid
    BY DEF ReplayReproduces, Settled, Done
  <2>1. ASSUME ~Settled, sim.state = "PLAYING" PROVE RebuildRun = sim
    <3>1. /\ Done.state = "CRACKED" /\ sim = Played(NewSim(Done.rng, index, boosters), moves)
          /\ Len(vaults) = index - 1 /\ index \in 1..Len(Vaults) /\ Len(vaults) \in Nat
      BY <2>1, Vault DEF PlayInv, GameInv, PlayTyped, RecordGrows, RecordLeads, Settled
    <3>2. Len(vaults) + 1 = index /\ ~(Len(vaults) >= Len(Vaults))
      BY <3>1, Vault
    <3> QED BY <2>1, <3>1, <3>2 DEF RebuildRun, Reopened, InPlay, Done
  <2> QED BY <2>1 DEF PlayInv, GameInv, RecordLeads
<1> QED BY <1>1, InvInit, PlayStep, PTL DEF BotSpec

-----------------------------------------------------------------------------
(* More loot never scores less. *)

LEMMA TimesKeeps ==
  ASSUME NEW a \in Nat, NEW b \in Nat, NEW c \in Nat, a <= b
  PROVE  a * c <= b * c /\ a * c \in Nat /\ b * c \in Nat
<1>1. (b - a) * c >= 0 /\ (b - a) * c = b * c - a * c
  OBVIOUS
<1>2. a * c \in Nat /\ b * c \in Nat
  OBVIOUS
<1> QED BY <1>1, <1>2

LEMMA RoundingKeeps ==
  ASSUME NEW a \in Nat, NEW b \in Nat, a <= b
  PROVE  RoundHalfUp(a, 100) <= RoundHalfUp(b, 100) /\ RoundHalfUp(a, 2000) <= RoundHalfUp(b, 2000)
  BY DEF RoundHalfUp

LEMMA EscapeScoreKeeps ==
  ASSUME NEW t \in Nat, NEW more \in Nat, t <= more, NEW v \in 1..Len(Vaults)
  PROVE  EscapeScore(t, v) <= EscapeScore(more, v)
<1> DEFINE m == Multipliers[v]
<1>1. m \in Nat /\ LootMultiplier \in Nat
  BY EngineAssumption
<1> HIDE DEF m
<1>2. t * m <= more * m /\ t * m \in Nat /\ more * m \in Nat
  BY <1>1, TimesKeeps
<1>3. /\ (t * m) * LootMultiplier <= (more * m) * LootMultiplier
      /\ (t * m) * LootMultiplier \in Nat /\ (more * m) * LootMultiplier \in Nat
  BY <1>1, <1>2, TimesKeeps
<1>4. RoundHalfUp((t * m) * LootMultiplier, 100) <= RoundHalfUp((more * m) * LootMultiplier, 100)
  BY <1>3, RoundingKeeps
<1> QED BY <1>4 DEF EscapeScore, m

LEMMA BustScoreKeeps ==
  ASSUME NEW t \in Nat, NEW more \in Nat, t <= more, NEW v \in 1..Len(Vaults), NEW b
  PROVE  BustScore(t, v, b) <= BustScore(more, v, b)
<1> DEFINE m == IF v >= 2 THEN Multipliers[v - 1] ELSE 10
           kept == 20 - BustPenalty * (IF "shield" \in b THEN 1 ELSE 2)
<1>1. m \in Nat /\ LootMultiplier \in Nat
  <2>1. CASE v >= 2
    <3>1. Len(Multipliers) = Len(Vaults) /\ Multipliers \in Seq(Nat) /\ DOMAIN Multipliers = 1..Len(Multipliers)
      BY EngineAssumption
    <3>2. v - 1 \in 1..Len(Vaults)
      BY <2>1, Vault
    <3>3. Multipliers[v - 1] \in Nat
      BY <3>1, <3>2
    <3> QED BY <2>1, <3>3, EngineAssumption
  <2>2. CASE ~(v >= 2)
    BY <2>2, EngineAssumption
  <2> QED BY <2>1, <2>2
<1>2. kept \in Nat
  BY EngineAssumption
<1> HIDE DEF m, kept
<1>3. t * m <= more * m /\ t * m \in Nat /\ more * m \in Nat
  BY <1>1, TimesKeeps
<1>4. (t * m) * kept <= (more * m) * kept /\ (t * m) * kept \in Nat /\ (more * m) * kept \in Nat
  BY <1>2, <1>3, TimesKeeps
<1>5. /\ ((t * m) * kept) * LootMultiplier <= ((more * m) * kept) * LootMultiplier
      /\ ((t * m) * kept) * LootMultiplier \in Nat /\ ((more * m) * kept) * LootMultiplier \in Nat
  BY <1>1, <1>4, TimesKeeps
<1>6. RoundHalfUp(((t * m) * kept) * LootMultiplier, 2000) <= RoundHalfUp(((more * m) * kept) * LootMultiplier, 2000)
  BY <1>5, RoundingKeeps
<1> QED BY <1>6 DEF BustScore, m, kept

(* What the board showed of a chain is what its move adds. *)
LEMMA LootIsShown ==
  ASSUME PlayInv, [BotNext]_botVars, bot = NoBot, sim'.loot > sim.loot
  PROVE  sim'.loot = sim.loot + PreviewLoot(sim.grid, path)
<1>0. sim.loot \in Nat /\ ~(sim.loot > sim.loot)
  BY DEF PlayInv, GameInv, PlayTyped, IsSim
<1>1. sim' # sim
  BY <1>0
<1>2. PlayNext
  <2>1. ~(BotMove \/ BotVault \/ BotFinish)
    BY DEF BotMove, BotVault, BotFinish, VaultOver, Playing
  <2>2. ~UNCHANGED botVars
    BY <1>1 DEF botVars, playVars
  <2> QED BY <2>1, <2>2 DEF BotNext, ByHand
<1>3. (\E f \in Finger : OnUp(f)) \/ OnDeeper
  BY <1>1, <1>2 DEF PlayNext, Touch, OnDown, OnMove, Animate, EntryDone, Fall, ShowsShuffle, Settle,
                    Conclude, Decision, OnEscape, CleanSweep, Busted, FinishRun
<1>4. CASE OnDeeper
  <2>1. overlay = "decision" /\ sim' = NewSim(sim.rng, index + 1, boosters)
    BY <1>4 DEF OnDeeper, SetSim
  <2>2. index + 1 \in DOMAIN Vaults
    BY <2>1, Vault DEF PlayInv, GameInv, HandsTakeTurns, PlayTyped
  <2>3. sim'.loot = 0
    BY <2>1, <2>2, NewSimIsSim
  <2> QED BY <1>0, <2>3
<1>5. ASSUME NEW f \in Finger, OnUp(f) PROVE sim'.loot = sim.loot + PreviewLoot(sim.grid, path)
  <2>1. ValidatePath(sim.grid, path) /\ sim' = Apply(sim, path)
    BY <1>1, <1>5 DEF OnUp, Commits
  <2>2. pointer # NoFinger
    BY <1>5, FingerAssumption DEF OnUp
  <2>3. sim.state = "PLAYING" /\ IsSim(sim) /\ path \in Seq(Cell)
    BY <2>2 DEF PlayInv, GameInv, HandsTakeTurns, PlayTyped, TouchInv
  <2> QED BY <2>1, <2>3, ApplyKeeps
<1> QED BY <1>3, <1>4, <1>5

(* The score is no less than what the modal showed. *)
LEMMA ScoreIsPromised ==
  ASSUME PlayInv, [BotNext]_botVars, result' # result, offer # NoOffer
  PROVE  IF overlay = "decision" THEN result'.score = offer.escape
         ELSE result'.score >= IF result'.outcome = "BUSTED" THEN offer.bust ELSE offer.deeper
<1>1. bot = NoBot
  BY DEF PlayInv, GameInv, OffersStand
<1>2. PlayNext /\ UNCHANGED botOnly
  <2>1. ~(BotMove \/ BotVault \/ BotFinish)
    BY <1>1 DEF BotMove, BotVault, BotFinish, VaultOver, Playing
  <2>2. ~UNCHANGED botVars
    BY DEF botVars, playVars, endVars
  <2> QED BY <2>1, <2>2 DEF BotNext, ByHand
<1>3. OnEscape \/ CleanSweep \/ Busted
  BY <1>2 DEF PlayNext, Touch, OnDown, OnMove, OnUp, Animate, EntryDone, Fall, ShowsShuffle, Settle,
              Conclude, Decision, OnDeeper, endVars
<1>4. overlay # "none"
  BY <1>3 DEF OnEscape, CleanSweep, Busted
<1>5. result = NoResult /\ total \in Nat /\ index \in 1..Len(Vaults)
  BY <1>1, <1>4, Vault DEF PlayInv, GameInv, HandsTakeTurns, PlayTyped
<1>6. CASE OnEscape
  <2>1. overlay = "decision" /\ FinishRun(TRUE)
    BY <1>6 DEF OnEscape
  <2>2. sim.state = "CRACKED"
    BY <1>1, <2>1 DEF PlayInv, GameInv, HandsTakeTurns
  <2>3. result'.score = EscapeScore(total, index)
    BY <1>1, <1>2, <1>4, <2>1, <2>2, FinishStep
  <2>4. offer = Promised(total, index)
    BY <1>5, <2>1 DEF PlayInv, GameInv, OffersStand
  <2> QED BY <2>1, <2>3, <2>4 DEF Promised
<1>7. ASSUME overlay = "banner"
      PROVE  \E t \in 0..total : /\ offer.deeper = EscapeScore(t, index)
                                 /\ offer.bust = BustScore(t, index, boosters)
  <2>1. PICK t \in 0..total : offer = Promised(t, index - 1)
    BY <1>5, <1>7 DEF PlayInv, GameInv, OffersStand
  <2>2. (index - 1) + 1 = index
    BY <1>5, Vault
  <2>3. offer.deeper = EscapeScore(t, (index - 1) + 1) /\ offer.bust = BustScore(t, (index - 1) + 1, boosters)
    BY <2>1 DEF Promised
  <2> QED BY <2>2, <2>3
<1>8. CASE CleanSweep
  <2>1. overlay = "banner" /\ FinishRun(TRUE) /\ sim.state = "CRACKED"
    BY <1>8 DEF CleanSweep
  <2>2. result'.score = EscapeScore(total, index) /\ result'.outcome = "ESCAPED"
    BY <1>1, <1>2, <1>4, <2>1, FinishStep
  <2>3. PICK t \in 0..total : offer.deeper = EscapeScore(t, index)
    BY <1>7, <2>1
  <2>4. EscapeScore(t, index) <= EscapeScore(total, index)
    BY <1>5, EscapeScoreKeeps
  <2> QED BY <2>1, <2>2, <2>3, <2>4
<1>9. CASE Busted
  <2>1. overlay = "banner" /\ FinishRun(FALSE) /\ sim.state = "BUSTED"
    BY <1>9 DEF Busted
  <2>2. result'.score = BustScore(total, index, boosters) /\ result'.outcome = "BUSTED"
    BY <1>1, <1>2, <1>4, <2>1, FinishStep
  <2>3. PICK t \in 0..total : offer.bust = BustScore(t, index, boosters)
    BY <1>7, <2>1
  <2>4. BustScore(t, index, boosters) <= BustScore(total, index, boosters)
    BY <1>5, BustScoreKeeps
  <2> QED BY <2>1, <2>2, <2>3, <2>4
<1> QED BY <1>3, <1>6, <1>8, <1>9

(* The decision modal keeps its word, and a move adds the loot that the board *)
(* showed while the chain was drawn.                                        *)
THEOREM TheModalKeepsItsWord == BotSpec => OffersAreKept
<1>1. PlayInv /\ [BotNext]_botVars =>
        [ /\ sim'.loot > sim.loot /\ bot = NoBot => sim'.loot = sim.loot + PreviewLoot(sim.grid, path)
          /\ result' # result /\ offer # NoOffer =>
               IF overlay = "decision" THEN result'.score = offer.escape
               ELSE result'.score >= IF result'.outcome = "BUSTED" THEN offer.bust ELSE offer.deeper ]_botVars
  BY LootIsShown, ScoreIsPromised
<1> QED BY <1>1, InvInit, PlayStep, PTL DEF BotSpec, OffersAreKept

-----------------------------------------------------------------------------
(* Gravity.  A cell is a row and a column. *)

LEMMA SplitUp ==
  ASSUME NEW w \in Nat \ {0}, NEW i \in Nat
  PROVE  /\ i = w * (i \div w) + (i % w)
         /\ i \div w \in Nat /\ i % w \in 0..(w - 1)
  OBVIOUS

LEMMA PutTogether ==
  ASSUME NEW w \in Nat \ {0}, NEW q \in Nat, NEW r \in 0..(w - 1)
  PROVE  (w * q + r) \div w = q /\ (w * q + r) % w = r
  OBVIOUS

(* Rows above one another. *)
LEMMA RowsApart ==
  ASSUME NEW w \in Nat \ {0}, NEW q \in Nat, NEW p \in Nat, NEW r \in 0..(w - 1), NEW t \in 0..(w - 1), q < p
  PROVE  w * q + r < w * p + t
<1>1. (p - q - 1) * w >= 0 /\ (p - q - 1) * w = w * p - w * q - w
  OBVIOUS
<1> QED BY <1>1

LEMMA RowOf ==
  ASSUME NEW i \in Cell
  PROVE  /\ i \in Nat /\ i = W * Row(i) + Col(i)
         /\ Row(i) \in 0..(H - 1) /\ Col(i) \in 0..(W - 1)
<1>1. W \in Nat \ {0} /\ H \in Nat \ {0}
  BY EngineAssumption
<1>2. i \in Nat /\ i < W * H
  BY <1>1 DEF Cell
<1>3. i = W * Row(i) + Col(i) /\ Row(i) \in Nat /\ Col(i) \in 0..(W - 1)
  BY <1>1, <1>2, SplitUp DEF Row, Col
<1>4. Row(i) < H
  <2> SUFFICES ASSUME H <= Row(i) PROVE FALSE
    BY <1>1, <1>3
  <2>1. H * W <= Row(i) * W
    BY <1>1, <1>3, TimesKeeps
  <2> QED BY <1>1, <1>2, <1>3, <2>1
<1> QED BY <1>1, <1>2, <1>3, <1>4

LEMMA CellAt ==
  ASSUME NEW q \in 0..(H - 1), NEW r \in 0..(W - 1)
  PROVE  W * q + r \in Cell /\ Row(W * q + r) = q /\ Col(W * q + r) = r
<1>1. W \in Nat \ {0} /\ H \in Nat \ {0} /\ q \in Nat /\ q < H
  BY EngineAssumption
<1>2. Row(W * q + r) = q /\ Col(W * q + r) = r
  BY <1>1, PutTogether DEF Row, Col
<1>3. W * q + r < W * H + 0 /\ W * q + r \in Nat /\ W * H \in Nat
  <2>1. 0 \in 0..(W - 1)
    BY <1>1
  <2>2. W * q + r < W * H + 0
    BY <1>1, <2>1, RowsApart
  <2> QED BY <1>1, <2>2
<1> QED BY <1>2, <1>3 DEF Cell

LEMMA OneColumn ==
  ASSUME NEW i \in Cell, NEW k \in Cell, Col(i) = Col(k)
  PROVE  /\ i < k <=> Row(i) < Row(k)
         /\ i = k <=> Row(i) = Row(k)
<1>1. /\ W \in Nat \ {0}
      /\ i \in Nat /\ i = W * Row(i) + Col(i) /\ Row(i) \in Nat /\ Col(i) \in 0..(W - 1)
      /\ k \in Nat /\ k = W * Row(k) + Col(k) /\ Row(k) \in Nat /\ Col(k) \in 0..(W - 1)
  BY RowOf, EngineAssumption
<1>2. Row(i) < Row(k) => i < k
  BY <1>1, RowsApart
<1>3. Row(k) < Row(i) => k < i
  BY <1>1, RowsApart
<1>4. Row(i) = Row(k) => i = k
  BY <1>1
<1> QED BY <1>1, <1>2, <1>3, <1>4

(* The cells of a column in the rows after `above`, down to `last`. *)
Segment(c, above, last) == {k \in Cell : Col(k) = c /\ Row(k) \in (above + 1)..last}

LEMMA SegmentCount ==
  ASSUME NEW c \in 0..(W - 1), NEW above \in Nat, NEW last \in above..(H - 1)
  PROVE  IsFiniteSet(Segment(c, above, last)) /\ Cardinality(Segment(c, above, last)) = last - above
<1> DEFINE R == (above + 1)..last
           S == Segment(c, above, last)
           f == [q \in R |-> W * q + c]
<1>0. H \in Nat \ {0} /\ last \in Nat /\ above <= last
  BY EngineAssumption
<1>1. \A q \in R : q \in 0..(H - 1)
  BY <1>0
<1>2. \A q \in R : f[q] \in Cell /\ Row(f[q]) = q /\ Col(f[q]) = c
  BY <1>1, CellAt
<1>3. f \in [R -> S] /\ \A p, q \in R : f[p] = f[q] => p = q
  BY <1>2 DEF Segment
<1>4. \A k \in S : Row(k) \in R /\ f[Row(k)] = k
  <2> SUFFICES ASSUME NEW k \in S PROVE Row(k) \in R /\ f[Row(k)] = k
    OBVIOUS
  <2>1. k \in Cell /\ Col(k) = c /\ Row(k) \in R
    BY DEF Segment
  <2>2. k = W * Row(k) + c
    BY <2>1, RowOf
  <2> QED BY <2>1, <2>2
<1>5. f \in Bijection(R, S)
  BY <1>3, <1>4 DEF Bijection, Injection, Surjection, IsInjective
<1>6. IsFiniteSet(R) /\ Cardinality(R) = last - above
  <2>1. above + 1 \in Int /\ last \in Int
    BY <1>0
  <2>2. IsFiniteSet(R) /\ Cardinality(R) = IF above + 1 > last THEN 0 ELSE last - (above + 1) + 1
    BY <2>1, FS_Interval
  <2> HIDE DEF R
  <2> QED BY <1>0, <2>2
<1> HIDE DEF R, S, f
<1>7. IsFiniteSet(S) /\ Cardinality(S) = Cardinality(R)
  <2>1. ExistsBijection(R, S)
    BY <1>5 DEF ExistsBijection
  <2> QED BY <1>6, <2>1, FS_Bijection
<1> QED BY <1>6, <1>7 DEF S

(* The cells under j in its column: those a clear emptied, and the others. *)
Gaps(grid, j) == {k \in Cell : Col(k) = Col(j) /\ k > j /\ grid[k] = Empty}
Fulls(grid, j) == {k \in Cell : Col(k) = Col(j) /\ k > j /\ grid[k] # Empty}

LEMMA GapsAndFulls ==
  ASSUME NEW grid, NEW j \in Cell
  PROVE  /\ IsFiniteSet(Gaps(grid, j)) /\ IsFiniteSet(Fulls(grid, j))
         /\ Cardinality(Gaps(grid, j)) \in Nat /\ Cardinality(Fulls(grid, j)) \in Nat
         /\ Cardinality(Gaps(grid, j)) + Cardinality(Fulls(grid, j)) = (H - 1) - Row(j)
<1> DEFINE S == Segment(Col(j), Row(j), H - 1)
<1>1. H \in Nat \ {0} /\ Row(j) \in 0..(H - 1) /\ Col(j) \in 0..(W - 1)
  BY RowOf, EngineAssumption
<1>2. IsFiniteSet(S) /\ Cardinality(S) = (H - 1) - Row(j)
  <2>1. Row(j) \in Nat /\ H - 1 \in Row(j)..(H - 1)
    BY <1>1
  <2> QED BY <1>1, <2>1, SegmentCount
<1>3. S = Gaps(grid, j) \cup Fulls(grid, j)
  <2>1. \A k \in Cell : Col(k) = Col(j) => (k > j <=> Row(k) \in (Row(j) + 1)..(H - 1))
    <3> SUFFICES ASSUME NEW k \in Cell, Col(k) = Col(j)
                 PROVE  k > j <=> Row(k) \in (Row(j) + 1)..(H - 1)
      OBVIOUS
    <3>1. j < k <=> Row(j) < Row(k)
      BY OneColumn
    <3>2. Row(k) \in 0..(H - 1) /\ k \in Nat /\ j \in Nat
      BY RowOf
    <3> QED BY <1>1, <3>1, <3>2
  <2> QED BY <2>1 DEF Segment, Gaps, Fulls
<1>4. Gaps(grid, j) \cap Fulls(grid, j) = {}
  BY DEF Gaps, Fulls
<1> HIDE DEF S
<1>5. IsFiniteSet(Gaps(grid, j)) /\ IsFiniteSet(Fulls(grid, j))
  BY <1>2, <1>3, FS_Subset
<1>6. Cardinality(Gaps(grid, j)) \in Nat /\ Cardinality(Fulls(grid, j)) \in Nat
  BY <1>5, FS_CardinalityType
<1>7. Cardinality(S) = Cardinality(Gaps(grid, j)) + Cardinality(Fulls(grid, j))
  <2>1. Cardinality(Gaps(grid, j) \cap Fulls(grid, j)) = 0
    BY <1>4, FS_EmptySet
  <2>2. Cardinality(Gaps(grid, j) \cup Fulls(grid, j))
          = Cardinality(Gaps(grid, j)) + Cardinality(Fulls(grid, j))
              - Cardinality(Gaps(grid, j) \cap Fulls(grid, j))
    BY <1>5, FS_Union
  <2> QED BY <1>3, <1>6, <2>1, <2>2
<1> QED BY <1>2, <1>5, <1>6, <1>7

(* Where a tile lands, counted from the top and from the bottom. *)
LEMMA Lands ==
  ASSUME NEW grid, NEW j \in Cell
  PROVE  /\ LandsAt(grid, j) \in Cell /\ Col(LandsAt(grid, j)) = Col(j)
         /\ Row(LandsAt(grid, j)) = Row(j) + Cardinality(Gaps(grid, j))
         /\ Row(LandsAt(grid, j)) = (H - 1) - Cardinality(Fulls(grid, j))
<1> DEFINE n == Cardinality(Gaps(grid, j))
           m == Cardinality(Fulls(grid, j))
<1>1. /\ H \in Nat \ {0} /\ W \in Nat \ {0} /\ j \in Nat /\ j = W * Row(j) + Col(j)
      /\ Row(j) \in 0..(H - 1) /\ Col(j) \in 0..(W - 1)
  BY RowOf, EngineAssumption
<1>2. n \in Nat /\ m \in Nat /\ n + m = (H - 1) - Row(j)
  BY GapsAndFulls
<1>3. LandsAt(grid, j) = j + W * n
  BY DEF LandsAt, Gaps
<1> HIDE DEF n, m
<1>4. W * (Row(j) + n) = W * Row(j) + W * n
  BY <1>1, <1>2
<1>5. LandsAt(grid, j) = W * (Row(j) + n) + Col(j)
  <2>1. W * Row(j) \in Nat /\ W * n \in Nat
    BY <1>1, <1>2
  <2> QED BY <1>1, <1>3, <1>4, <2>1
<1>6. Row(j) + n \in 0..(H - 1) /\ Row(j) + n = (H - 1) - m
  BY <1>1, <1>2
<1>7. /\ LandsAt(grid, j) \in Cell /\ Row(LandsAt(grid, j)) = Row(j) + n
      /\ Col(LandsAt(grid, j)) = Col(j)
  BY <1>1, <1>5, <1>6, CellAt
<1> QED BY <1>6, <1>7 DEF n, m

LEMMA LandsInOrder ==
  ASSUME NEW grid, NEW j \in Cell, NEW k \in Cell, Col(k) = Col(j), j < k, grid[k] # Empty
  PROVE  LandsAt(grid, j) < LandsAt(grid, k)
<1>1. \A c \in Cell : c \in Nat
  BY RowOf
<1>2. Fulls(grid, k) \cup {k} \subseteq Fulls(grid, j) /\ k \notin Fulls(grid, k)
  BY <1>1 DEF Fulls
<1>3. /\ IsFiniteSet(Fulls(grid, k)) /\ Cardinality(Fulls(grid, k)) \in Nat
      /\ IsFiniteSet(Fulls(grid, j)) /\ Cardinality(Fulls(grid, j)) \in Nat
  BY GapsAndFulls
<1>4. Cardinality(Fulls(grid, k) \cup {k}) = Cardinality(Fulls(grid, k)) + 1
  BY <1>2, <1>3, FS_AddElement
<1>5. Cardinality(Fulls(grid, k) \cup {k}) <= Cardinality(Fulls(grid, j))
  BY <1>2, <1>3, FS_Subset
<1>6. H \in Nat
  BY EngineAssumption
<1>7. /\ Row(LandsAt(grid, j)) = (H - 1) - Cardinality(Fulls(grid, j))
      /\ Row(LandsAt(grid, k)) = (H - 1) - Cardinality(Fulls(grid, k))
  BY Lands
<1>8. Row(LandsAt(grid, j)) < Row(LandsAt(grid, k))
  BY <1>3, <1>4, <1>5, <1>6, <1>7
<1>9. /\ LandsAt(grid, j) \in Cell /\ Col(LandsAt(grid, j)) = Col(j)
      /\ LandsAt(grid, k) \in Cell /\ Col(LandsAt(grid, k)) = Col(j)
  BY Lands
<1> QED BY <1>8, <1>9, OneColumn

(* Two tiles never land in one cell. *)
LEMMA LandsApart ==
  ASSUME NEW grid, NEW j \in Cell, NEW k \in Cell, grid[j] # Empty, grid[k] # Empty,
         LandsAt(grid, j) = LandsAt(grid, k)
  PROVE  j = k
<1>1. Col(j) = Col(k)
  BY Lands
<1>2. j \in Nat /\ k \in Nat /\ LandsAt(grid, j) \in Nat
  BY RowOf, Lands
<1>3. ~ (j < k) /\ ~ (k < j)
  BY <1>1, <1>2, LandsInOrder
<1> QED BY <1>2, <1>3

(* What gravity leaves in a cell is the tile that lands there. *)
LEMMA CollapsedAt ==
  ASSUME NEW grid
  PROVE  /\ \A j \in Cell : grid[j] # Empty => Collapsed(grid)[LandsAt(grid, j)] = grid[j]
         /\ \A i \in Cell : Collapsed(grid)[i] # Empty =>
              \E j \in Cell : grid[j] # Empty /\ LandsAt(grid, j) = i
<1> DEFINE From(i) == {j \in Cell : grid[j] # Empty /\ LandsAt(grid, j) = i}
<1>1. \A i \in Cell : Collapsed(grid)[i] = IF From(i) = {} THEN Empty ELSE grid[CHOOSE j \in From(i) : TRUE]
  BY DEF Collapsed
<1>2. ASSUME NEW j \in Cell, grid[j] # Empty
      PROVE  Collapsed(grid)[LandsAt(grid, j)] = grid[j]
  <2>1. From(LandsAt(grid, j)) = {j}
    BY <1>2, LandsApart
  <2>2. LandsAt(grid, j) \in Cell
    BY Lands
  <2>3. (CHOOSE k \in {j} : TRUE) = j
    OBVIOUS
  <2> HIDE DEF From
  <2> QED BY <1>1, <2>1, <2>2, <2>3
<1>3. ASSUME NEW i \in Cell, Collapsed(grid)[i] # Empty
      PROVE  \E j \in Cell : grid[j] # Empty /\ LandsAt(grid, j) = i
  <2>1. From(i) # {}
    <3> HIDE DEF From
    <3> QED BY <1>1, <1>3
  <2> QED BY <2>1
<1> QED BY <1>2, <1>3

(* Under a cell that holds a tile every cell of its column holds one: the     *)
(* tiles under j fill the cells under its landing, as many as there are.      *)
LEMMA NothingFloats ==
  ASSUME NEW grid, NEW j \in Cell, NEW k \in Cell, grid[j] # Empty,
         Col(k) = Col(j), LandsAt(grid, j) < k
  PROVE  Collapsed(grid)[k] # Empty
<1> DEFINE L == LandsAt(grid, j)
           F == Fulls(grid, j)
           S == Segment(Col(j), Row(L), H - 1)
           f == [m \in F |-> LandsAt(grid, m)]
<1>1. L \in Cell /\ Col(L) = Col(j) /\ Row(L) = (H - 1) - Cardinality(F)
  BY Lands
<1>2. IsFiniteSet(F) /\ Cardinality(F) \in Nat
  BY GapsAndFulls
<1>3. H \in Nat \ {0} /\ Row(L) \in 0..(H - 1) /\ Col(j) \in 0..(W - 1)
  BY <1>1, RowOf, EngineAssumption
<1>4. IsFiniteSet(S) /\ Cardinality(S) = Cardinality(F)
  <2>1. Row(L) \in Nat /\ H - 1 \in Row(L)..(H - 1)
    BY <1>3
  <2> QED BY <1>1, <1>2, <1>3, <2>1, SegmentCount
<1>5. \A m \in F : LandsAt(grid, m) \in S
  <2> SUFFICES ASSUME NEW m \in F PROVE LandsAt(grid, m) \in S
    OBVIOUS
  <2>1. m \in Cell /\ Col(m) = Col(j) /\ j < m /\ grid[m] # Empty
    <3>1. m \in Cell /\ Col(m) = Col(j) /\ m > j /\ grid[m] # Empty
      BY DEF Fulls
    <3> QED BY <3>1, RowOf
  <2>2. L < LandsAt(grid, m) /\ LandsAt(grid, m) \in Cell /\ Col(LandsAt(grid, m)) = Col(j)
    BY <2>1, LandsInOrder, Lands
  <2>3. Row(L) < Row(LandsAt(grid, m)) /\ Row(LandsAt(grid, m)) \in 0..(H - 1)
    BY <1>1, <2>2, OneColumn, RowOf
  <2> QED BY <1>3, <2>2, <2>3 DEF Segment
<1>6. \A m, p \in F : LandsAt(grid, m) = LandsAt(grid, p) => m = p
  BY LandsApart DEF Fulls
<1>7. f \in Injection(F, S)
  BY <1>5, <1>6 DEF Injection, IsInjective
<1>8. k \in S
  <2>1. Row(L) < Row(k) /\ Row(k) \in 0..(H - 1)
    BY <1>1, OneColumn, RowOf
  <2> QED BY <1>3, <2>1 DEF Segment
<1> HIDE DEF S, F
<1>9. f \in Surjection(F, S)
  <2> HIDE DEF f
  <2> QED BY <1>4, <1>7, FS_Injection
<1>10. PICK m \in F : f[m] = k
  BY <1>8, <1>9 DEF Surjection
<1>11. m \in Cell /\ grid[m] # Empty /\ LandsAt(grid, m) = k
  BY <1>10 DEF F, Fulls
<1> QED BY <1>11, CollapsedAt

(* The fall of the tiles (collapseAndRefill, before the refill), of a vault   *)
(* of any size: a tile that was not cleared stays in its column, keeps its    *)
(* order there, never rises and is still on the board; no cell holds a tile   *)
(* that did not fall there; no gap stays under a tile.                        *)
THEOREM GravityLosesNothing ==
  ASSUME NEW grid
  PROVE  /\ \A j \in Cell : grid[j] # Empty =>
              /\ LandsAt(grid, j) \in Cell /\ Col(LandsAt(grid, j)) = Col(j)
              /\ LandsAt(grid, j) >= j
              /\ Collapsed(grid)[LandsAt(grid, j)] = grid[j]
         /\ \A j, k \in Cell : grid[j] # Empty /\ grid[k] # Empty /\ Col(j) = Col(k) /\ j < k =>
              LandsAt(grid, j) < LandsAt(grid, k)
         /\ \A i \in Cell : Collapsed(grid)[i] # Empty =>
              \E j \in Cell : grid[j] # Empty /\ LandsAt(grid, j) = i
         /\ \A i, k \in Cell : Collapsed(grid)[i] # Empty /\ Col(k) = Col(i) /\ i < k =>
              Collapsed(grid)[k] # Empty
<1>1. ASSUME NEW j \in Cell, grid[j] # Empty
      PROVE  /\ LandsAt(grid, j) \in Cell /\ Col(LandsAt(grid, j)) = Col(j)
             /\ LandsAt(grid, j) >= j
             /\ Collapsed(grid)[LandsAt(grid, j)] = grid[j]
  <2>1. LandsAt(grid, j) \in Cell /\ Col(LandsAt(grid, j)) = Col(j)
    BY Lands
  <2>2. Row(LandsAt(grid, j)) = Row(j) + Cardinality(Gaps(grid, j)) /\ Cardinality(Gaps(grid, j)) \in Nat
    BY Lands, GapsAndFulls
  <2>3. Row(j) \in Nat /\ j \in Nat /\ LandsAt(grid, j) \in Nat
    BY <2>1, RowOf
  <2>4. ~ (LandsAt(grid, j) < j)
    <3>1. LandsAt(grid, j) < j <=> Row(LandsAt(grid, j)) < Row(j)
      BY <2>1, OneColumn
    <3> QED BY <2>2, <2>3, <3>1
  <2> QED BY <1>1, <2>1, <2>3, <2>4, CollapsedAt
<1>2. \A j, k \in Cell : grid[j] # Empty /\ grid[k] # Empty /\ Col(j) = Col(k) /\ j < k =>
        LandsAt(grid, j) < LandsAt(grid, k)
  BY LandsInOrder
<1>3. \A i \in Cell : Collapsed(grid)[i] # Empty =>
        \E j \in Cell : grid[j] # Empty /\ LandsAt(grid, j) = i
  BY CollapsedAt
<1>4. ASSUME NEW i \in Cell, NEW k \in Cell, Collapsed(grid)[i] # Empty, Col(k) = Col(i), i < k
      PROVE  Collapsed(grid)[k] # Empty
  <2>1. PICK j \in Cell : grid[j] # Empty /\ LandsAt(grid, j) = i
    BY <1>3, <1>4
  <2>2. Col(i) = Col(j)
    BY <2>1, Lands
  <2> QED BY <1>4, <2>1, <2>2, NothingFloats
<1> QED BY <1>1, <1>2, <1>3, <1>4
=============================================================================
