----------------------------- MODULE ProfileProofs -----------------------------
(***************************************************************************)
(* Proofs about Profile, for any number of requests, any workload and any  *)
(* number of retries: no interleaving overdraws the profile, every request *)
(* takes effect at most once, the retry loop implements Ledger, the books  *)
(* balance, and regeneration gives what the clock allows.                  *)
(***************************************************************************)
EXTENDS ProfileBooks, FiniteSetTheorems, NaturalsInduction, WellFoundedInduction, TLAPS

-----------------------------------------------------------------------------
(* Sums over finite sets: what is added to the set is added to the sum.      *)

(* Induction, for a set of numbers: the least number outside it has no        *)
(* predecessor.                                                             *)
LEMMA NatInd ==
  ASSUME NEW P, 0 \in P, \A n \in Nat : n \in P => n + 1 \in P
  PROVE  Nat \subseteq P
<1> DEFINE R == OpToRel(<, Nat)
           T == Nat \ P
<1> SUFFICES ASSUME T # {} PROVE FALSE
  OBVIOUS
<1>1. IsWellFoundedOn(R, Nat)
  BY NatLessThanWellFounded
<1>2. PICK x \in T : \A y \in T : ~(<<y, x>> \in R)
  <2>1. T \subseteq Nat
    OBVIOUS
  <2> HIDE DEF R, T
  <2> QED BY <1>1, <2>1, WFMin
<1>a. x \in Nat /\ x \notin P
  OBVIOUS
<1>3. x # 0 /\ x - 1 \in Nat /\ x - 1 < x
  <2> HIDE DEF R, T
  <2> QED BY <1>a
<1>4. <<x - 1, x>> \in R
  BY <1>2, <1>3 DEF OpToRel
<1>5. x - 1 \in P
  BY <1>2, <1>3, <1>4
<1>6. (x - 1) + 1 = x
  <2> HIDE DEF R, T
  <2> QED BY <1>a
<1> QED BY <1>2, <1>3, <1>5, <1>6

(* SumFunctionOnSet takes the elements of the set away one by one.           *)
Pick(s) == CHOOSE x \in s : TRUE
Step(f, it, s) == IF s = {} THEN 0 ELSE f[Pick(s)] + it[s \ {Pick(s)}]
Iter(f, S) == CHOOSE it : it = [s \in SUBSET S |-> Step(f, it, s)]

LEMMA SumIs ==
  ASSUME NEW f, NEW S
  PROVE  SumFunctionOnSet(f, S) = Iter(f, S)[S]
BY DEF SumFunctionOnSet, FoldFunctionOnSet, MapThenFoldSet, Iter, Step, Pick

(* Induction over the subsets of a finite set, for a set of subsets. *)
LEMMA SmallerFirst ==
  ASSUME NEW S, IsFiniteSet(S), NEW P,
         \A T \in SUBSET S : (\A U \in SUBSET T : U # T => U \in P) => T \in P
  PROVE  S \in P
<1> DEFINE R == StrictSubsetOrdering(S)
           F == FiniteSubsetsOf(S)
           T == (SUBSET S) \ P
<1> SUFFICES ASSUME S \notin P PROVE FALSE
  OBVIOUS
<1>1. IsWellFoundedOn(R, F)
  BY FS_StrictSubsetOrderingWellFounded
<1>2. T \subseteq F /\ T # {}
  BY FS_Subset DEF FiniteSubsetsOf
<1>3. PICK m \in T : \A y \in T : ~(<<y, m>> \in R)
  <2> HIDE DEF R, F, T
  <2> QED BY <1>1, <1>2, WFMin
<1>4. ASSUME NEW U \in SUBSET m, U # m PROVE U \in P
  BY <1>3, <1>4 DEF StrictSubsetOrdering
<1> QED BY <1>3, <1>4

(* The function by which SumFunctionOnSet recurses exists. *)
Unfolds(f, S, it) == it = [s \in SUBSET S |-> Step(f, it, s)]
LEMMA IterExists ==
  ASSUME NEW f, NEW S, IsFiniteSet(S)
  PROVE  Unfolds(f, S, Iter(f, S))
<1> DEFINE D(n) == {u \in SUBSET S : Cardinality(u) <= n}
           Q == {n \in Nat : \E g : g = [s \in D(n) |-> Step(f, g, s)]}
<1>0. \A u \in SUBSET S : IsFiniteSet(u) /\ Cardinality(u) \in Nat /\ Cardinality(u) <= Cardinality(S) /\ (Cardinality(u) = 0 <=> u = {})
  BY FS_Subset, FS_CardinalityType, FS_EmptySet
<1>1. 0 \in Q
  <2> DEFINE g == [s \in D(0) |-> 0]
  <2>1. \A s \in D(0) : s = {}
    BY <1>0
  <2>2. \A s \in D(0) : Step(f, g, s) = 0
    BY <2>1 DEF Step
  <2>3. g = [s \in D(0) |-> Step(f, g, s)]
    BY <2>2
  <2> HIDE DEF g, D
  <2> QED BY <2>3
<1>2. ASSUME NEW n \in Nat, n \in Q PROVE n + 1 \in Q
  <2>1. PICK g : g = [s \in D(n) |-> Step(f, g, s)]
    BY <1>2
  <2> DEFINE h == [s \in D(n + 1) |-> IF s \in D(n) THEN g[s] ELSE Step(f, g, s)]
  <2>2. ASSUME NEW s \in D(n + 1), s # {} PROVE s \ {Pick(s)} \in D(n) /\ s \ {Pick(s)} \in D(n + 1)
    <3>1. Pick(s) \in s
      BY <2>2 DEF Pick
    <3>2. Cardinality(s \ {Pick(s)}) = Cardinality(s) - 1
      BY <1>0, <3>1, FS_RemoveElement
    <3>3. s \ {Pick(s)} \in SUBSET S /\ Cardinality(s) <= n + 1 /\ Cardinality(s) \in Nat
      BY <1>0
    <3>4. Cardinality(s) - 1 <= n /\ Cardinality(s) - 1 <= n + 1
      BY <3>3
    <3> QED BY <3>2, <3>3, <3>4
  <2>3. ASSUME NEW s \in D(n + 1) PROVE h[s] = Step(f, h, s)
    <3>1. s # {} => h[s \ {Pick(s)}] = g[s \ {Pick(s)}]
      BY <2>2
    <3>2. Step(f, h, s) = Step(f, g, s)
      BY <3>1 DEF Step
    <3>3. s \in D(n) => g[s] = Step(f, g, s)
      BY <2>1
    <3> QED BY <3>2, <3>3
  <2>4. h = [s \in D(n + 1) |-> Step(f, h, s)]
    BY <2>3
  <2> HIDE DEF h, D
  <2> QED BY <2>4
<1>3. Cardinality(S) \in Q
  <2>1. Cardinality(S) \in Nat
    BY FS_CardinalityType
  <2> HIDE DEF Q
  <2> QED BY <2>1, <1>1, <1>2, NatInd
<1>4. PICK g : g = [s \in D(Cardinality(S)) |-> Step(f, g, s)]
  BY <1>3
<1>5. D(Cardinality(S)) = SUBSET S
  BY <1>0
<1>6. g = [s \in SUBSET S |-> Step(f, g, s)]
  BY <1>4, <1>5
<1>7. \E it : Unfolds(f, S, it)
  BY <1>6 DEF Unfolds
<1> QED BY <1>7 DEF Iter, Unfolds

LEMMA IterStep ==
  ASSUME NEW f, NEW S, IsFiniteSet(S), NEW T \in SUBSET S
  PROVE  Iter(f, S)[T] = Step(f, Iter(f, S), T)
<1> DEFINE it == Iter(f, S)
<1>1. it = [s \in SUBSET S |-> Step(f, it, s)]
  <2>1. Unfolds(f, S, it)
    BY IterExists
  <2> HIDE DEF it
  <2> QED BY <2>1 DEF Unfolds
<1> HIDE DEF it
<1>2. it[T] = Step(f, it, T)
  BY <1>1
<1> QED BY <1>2 DEF it

(* What it says of a set does not depend on the set around it. *)
LEMMA IterLocal ==
  ASSUME NEW f, NEW S, IsFiniteSet(S), NEW T \in SUBSET S
  PROVE  Iter(f, S)[T] = Iter(f, T)[T]
<1> DEFINE P == {V \in SUBSET S : \A X \in SUBSET S : V \subseteq X => Iter(f, X)[V] = Iter(f, S)[V]}
<1>1. ASSUME NEW V \in SUBSET T, \A U \in SUBSET V : U # V => U \in P PROVE V \in P
  <2> SUFFICES ASSUME NEW X \in SUBSET S, V \subseteq X PROVE Iter(f, X)[V] = Iter(f, S)[V]
    OBVIOUS
  <2>1. IsFiniteSet(X)
    BY FS_Subset
  <2>2. Iter(f, X)[V] = Step(f, Iter(f, X), V) /\ Iter(f, S)[V] = Step(f, Iter(f, S), V)
    <3> QED BY <2>1, IterStep
  <2>3. V # {} => Iter(f, X)[V \ {Pick(V)}] = Iter(f, S)[V \ {Pick(V)}]
    <3> HAVE V # {}
    <3>1. Pick(V) \in V
      BY DEF Pick
    <3>2. V \ {Pick(V)} \in P
      BY <1>1, <3>1
    <3> QED BY <3>2
  <2> QED BY <2>2, <2>3 DEF Step
<1>2. IsFiniteSet(T)
  BY FS_Subset
<1>3. T \in P
  <2> HIDE DEF P
  <2> QED BY <1>1, <1>2, SmallerFirst
<1> QED BY <1>3

(* The recursion of the sum, without the function. *)
LEMMA SumUnfold ==
  ASSUME NEW f, NEW S, IsFiniteSet(S)
  PROVE  SumFunctionOnSet(f, S) = IF S = {} THEN 0 ELSE f[Pick(S)] + SumFunctionOnSet(f, S \ {Pick(S)})
<1>1. Iter(f, S)[S] = Step(f, Iter(f, S), S)
  BY IterStep
<1>2. Iter(f, S)[S \ {Pick(S)}] = Iter(f, S \ {Pick(S)})[S \ {Pick(S)}]
  BY IterLocal
<1> QED BY <1>1, <1>2, SumIs DEF Step

LEMMA SumIsInt ==
  ASSUME NEW S, IsFiniteSet(S), NEW f, \A x \in S : f[x] \in Int
  PROVE  SumFunctionOnSet(f, S) \in Int
<1> DEFINE P == {T \in SUBSET S : SumFunctionOnSet(f, T) \in Int}
<1>1. ASSUME NEW T \in SUBSET S, \A U \in SUBSET T : U # T => U \in P PROVE T \in P
  <2>1. IsFiniteSet(T)
    BY FS_Subset
  <2>2. CASE T = {}
    <3>1. SumFunctionOnSet(f, T) = 0
      BY <2>1, <2>2, SumUnfold
    <3> QED BY <3>1, <2>2
  <2>3. CASE T # {}
    <3>1. Pick(T) \in T
      BY <2>3 DEF Pick
    <3>2. SumFunctionOnSet(f, T \ {Pick(T)}) \in Int
      BY <1>1, <3>1
    <3>3. SumFunctionOnSet(f, T) = f[Pick(T)] + SumFunctionOnSet(f, T \ {Pick(T)})
      BY <2>1, <2>3, SumUnfold
    <3>4. f[Pick(T)] \in Int
      BY <3>1
    <3> QED BY <3>2, <3>3, <3>4
  <2> QED BY <2>2, <2>3
<1>2. S \in P
  <2> HIDE DEF P
  <2> QED BY <1>1, SmallerFirst
<1> QED BY <1>2

(* The order in which elements are taken does not matter. *)
LEMMA SumWithout ==
  ASSUME NEW S, IsFiniteSet(S), NEW f, \A y \in S : f[y] \in Int, NEW x \in S
  PROVE  SumFunctionOnSet(f, S) = f[x] + SumFunctionOnSet(f, S \ {x})
<1> DEFINE P == {T \in SUBSET S : \A v \in T : SumFunctionOnSet(f, T) = f[v] + SumFunctionOnSet(f, T \ {v})}
<1>1. ASSUME NEW T \in SUBSET S, \A U \in SUBSET T : U # T => U \in P PROVE T \in P
  <2> SUFFICES ASSUME NEW v \in T PROVE SumFunctionOnSet(f, T) = f[v] + SumFunctionOnSet(f, T \ {v})
    OBVIOUS
  <2> DEFINE u == Pick(T)
  <2>1. /\ IsFiniteSet(T) /\ IsFiniteSet(T \ {u}) /\ IsFiniteSet(T \ {v}) /\ IsFiniteSet((T \ {u}) \ {v})
    BY FS_Subset
  <2>2. u \in T
    BY DEF Pick
  <2> HIDE DEF u
  <2>3. SumFunctionOnSet(f, T) = f[u] + SumFunctionOnSet(f, T \ {u})
    BY <2>1, SumUnfold DEF u
  <2>4. CASE u = v
    BY <2>3, <2>4
  <2>5. CASE u # v
    <3>1. T \ {u} \in P /\ T \ {v} \in P
      BY <1>1, <2>2
    <3>2. SumFunctionOnSet(f, T \ {u}) = f[v] + SumFunctionOnSet(f, (T \ {u}) \ {v})
      BY <2>5, <3>1
    <3>3. SumFunctionOnSet(f, T \ {v}) = f[u] + SumFunctionOnSet(f, (T \ {v}) \ {u})
      BY <2>2, <2>5, <3>1
    <3>4. (T \ {u}) \ {v} = (T \ {v}) \ {u}
      OBVIOUS
    <3>6. SumFunctionOnSet(f, (T \ {u}) \ {v}) = SumFunctionOnSet(f, (T \ {v}) \ {u})
      BY <3>4, Zenon
    <3>5. f[u] \in Int /\ f[v] \in Int /\ SumFunctionOnSet(f, (T \ {u}) \ {v}) \in Int
      BY <2>1, <2>2, SumIsInt
    <3> QED BY <2>3, <3>2, <3>3, <3>5, <3>6
  <2> QED BY <2>4, <2>5
<1>2. S \in P
  <2> HIDE DEF P
  <2> QED BY <1>1, SmallerFirst
<1> QED BY <1>2

LEMMA SumSame ==
  ASSUME NEW S, IsFiniteSet(S), NEW f, NEW g, \A x \in S : f[x] = g[x]
  PROVE  SumFunctionOnSet(f, S) = SumFunctionOnSet(g, S)
<1> DEFINE P == {T \in SUBSET S : SumFunctionOnSet(f, T) = SumFunctionOnSet(g, T)}
<1>1. ASSUME NEW T \in SUBSET S, \A U \in SUBSET T : U # T => U \in P PROVE T \in P
  <2>1. IsFiniteSet(T)
    BY FS_Subset
  <2>2. T # {} => Pick(T) \in T
    BY DEF Pick
  <2>3. T # {} => SumFunctionOnSet(f, T \ {Pick(T)}) = SumFunctionOnSet(g, T \ {Pick(T)})
    BY <1>1, <2>2
  <2> QED BY <2>1, <2>2, <2>3, SumUnfold
<1>2. S \in P
  <2> HIDE DEF P
  <2> QED BY <1>1, SmallerFirst
<1> QED BY <1>2

(* A sum grows by what is added. *)
LEMMA SumGrows ==
  ASSUME NEW S, IsFiniteSet(S), NEW f, NEW g, NEW x, x \notin S,
         \A y \in S : f[y] \in Int /\ g[y] = f[y], g[x] \in Int
  PROVE  /\ SumFunctionOnSet(g, S \cup {x}) = SumFunctionOnSet(f, S) + g[x]
         /\ SumFunctionOnSet(f, S) \in Int
<1>1. IsFiniteSet(S \cup {x})
  BY FS_AddElement
<1>2. SumFunctionOnSet(g, S \cup {x}) = g[x] + SumFunctionOnSet(g, (S \cup {x}) \ {x})
  BY <1>1, SumWithout
<1>3. (S \cup {x}) \ {x} = S
  OBVIOUS
<1>5. SumFunctionOnSet(g, (S \cup {x}) \ {x}) = SumFunctionOnSet(g, S)
  BY <1>3, Zenon
<1>4. SumFunctionOnSet(g, S) = SumFunctionOnSet(f, S) /\ SumFunctionOnSet(f, S) \in Int
  BY SumSame, SumIsInt
<1> QED BY <1>2, <1>4, <1>5

-----------------------------------------------------------------------------

(* What a Mutate call knows.  The heart of the argument is the second       *)
(* conjunct: the version a call read never runs ahead of the stored one,    *)
(* and as long as the two are equal nobody has changed what it read.        *)
Coherent(h) ==
  /\ mut[h].pc = "idle" => mut[h].op = NoOp
  /\ mut[h].pc # "idle" => mut[h].op \in Workload
  /\ mut[h].pc \in {"idle", "get", "update"} => h \notin applied
  /\ mut[h].pc = "update" =>
       /\ mut[h].readVersion <= version
       /\ mut[h].readVersion = version => mut[h].read = profile
       /\ mut[h].at \in 1..now
       /\ Allowed(mut[h].op, mut[h].read, mut[h].at)

SnapshotCoherent == \A h \in Request : Coherent(h)

PInv == ProfileTypeOK /\ SnapshotCoherent

USE RulesAssumption, ProfileAssumption

-----------------------------------------------------------------------------
(* What the decision functions return. *)

(* Regeneration keeps a profile a profile: lives never exceed MaxLives and   *)
(* the stamp stays a time (player.ApplyRegen).                              *)
LEMMA RegenKeepsPlayer ==
  ASSUME NEW p \in Player, NEW t \in Nat
  PROVE  ApplyRegen(p, t) \in Player
<1> DEFINE gained == (t - p.livesUpdatedAt) \div LifeRegen
<1>1. CASE LifeRegen = 0
  BY <1>1 DEF ApplyRegen
<1>2. CASE LifeRegen # 0 /\ (p.lives >= MaxLives \/ p.livesUpdatedAt = ZeroTime)
  BY <1>2 DEF ApplyRegen, Player
<1>3. CASE LifeRegen # 0 /\ ~(p.lives >= MaxLives \/ p.livesUpdatedAt = ZeroTime)
  <2>1. gained \in Int
    BY <1>3 DEF Player
  <2>2. ApplyRegen(p, t) =
          IF gained <= 0 THEN p
          ELSE IF p.lives + gained >= MaxLives
            THEN [p EXCEPT !.lives = MaxLives, !.livesUpdatedAt = t]
          ELSE [p EXCEPT !.lives = @ + gained, !.livesUpdatedAt = @ + gained * LifeRegen]
    BY <1>3, Zenon DEF ApplyRegen
  <2> HIDE DEF gained
  <2>3. CASE gained <= 0
    BY <2>2, <2>3
  <2>4. CASE gained > 0 /\ p.lives + gained >= MaxLives
    <3>1. ApplyRegen(p, t) = [p EXCEPT !.lives = MaxLives, !.livesUpdatedAt = t]
      BY <2>1, <2>2, <2>4
    <3>2. MaxLives \in 0..MaxLives
      OBVIOUS
    <3> QED BY <3>1, <3>2 DEF Player
  <2>5. CASE gained > 0 /\ p.lives + gained < MaxLives
    <3>1. p.lives + gained \in 0..MaxLives
      BY <2>1, <2>5 DEF Player
    <3>2. gained \in Nat /\ gained * LifeRegen \in Nat
      BY <2>1, <2>5
    <3>3. p.livesUpdatedAt + gained * LifeRegen \in Nat
      BY <3>2 DEF Player
    <3>4. ApplyRegen(p, t) =
            [p EXCEPT !.lives = @ + gained, !.livesUpdatedAt = @ + gained * LifeRegen]
      BY <2>1, <2>2, <2>5 DEF Player
    <3> QED BY <3>1, <3>3, <3>4 DEF Player
  <2> QED BY <2>1, <2>3, <2>4, <2>5 DEF Player
<1> QED BY <1>1, <1>2, <1>3

LEMMA OneMoreBooster ==
  ASSUME NEW p \in Player, NEW b \in Booster
  PROVE  [p EXCEPT !.boosters[b] = @ + 1] \in Player
<1>1. [p.boosters EXCEPT ![b] = @ + 1] \in [Booster -> Nat]
  BY DEF Player
<1> QED BY <1>1 DEF Player

(* A purchase that is permitted leaves no negative balance (shop.Purchase). *)
LEMMA PurchaseKeepsPlayer ==
  ASSUME NEW p \in Player, NEW op \in Purchase, Permits(op, p)
  PROVE  PurchaseEffect(op, p) \in Player
<1>1. Price(op.item) \in Nat /\ p.coins - Price(op.item) \in Nat
  BY DEF Permits, Price, Purchase, Item, Booster, Player
<1>2. CASE op.item = "life"
  <2>1. p.lives + 1 \in 0..MaxLives
    BY <1>2 DEF Permits, Purchase, Player
  <2> QED BY <1>1, <1>2, <2>1 DEF PurchaseEffect, Player
<1>3. CASE op.item # "life"
  <2>1. op.item \in Booster
    BY <1>3 DEF Purchase, Item
  <2> DEFINE paid == [p EXCEPT !.coins = @ - Price(op.item)]
  <2>2. paid \in Player
    BY <1>1 DEF Player
  <2>3. PurchaseEffect(op, p) = [paid EXCEPT !.boosters[op.item] = @ + 1]
    BY <1>3 DEF PurchaseEffect
  <2> HIDE DEF paid
  <2> QED BY <2>1, <2>2, <2>3, OneMoreBooster
<1> QED BY <1>2, <1>3

(* A start that is permitted takes no life and no booster that is not there. *)
LEMMA StartKeepsPlayer ==
  ASSUME NEW p \in Player, NEW op \in Start, NEW t \in Nat, Permits(op, p)
  PROVE  StartEffect(op, t, p) \in Player
<1>1. p.lives - op.livesCost \in 0..MaxLives
  BY DEF Permits, Start, Player
<1>2. [b \in Booster |-> IF b \in op.uses THEN p.boosters[b] - 1 ELSE p.boosters[b]]
        \in [Booster -> Nat]
  BY DEF Permits, Start, Player
<1> QED BY <1>1, <1>2 DEF StartEffect, Player

LEMMA SettleKeepsPlayer ==
  ASSUME NEW p \in Player, NEW op \in Settle
  PROVE  SettleEffect(op, p) \in Player
<1>1. /\ p.runs + 1 \in Nat /\ p.totalLoot + op.loot \in Nat
      /\ Larger(p.bestScore, op.score) \in Nat
  BY DEF Settle, Player, Larger
<1> QED BY <1>1 DEF SettleEffect, Player

LEMMA CreditKeepsPlayer ==
  ASSUME NEW p \in Player, NEW op \in Credit
  PROVE  CreditEffect(op, p) \in Player
<1>1. p.coins + op.coins \in Nat
  BY DEF Credit, Player
<1>2. [b \in Booster |-> p.boosters[b] + op.boosters[b]] \in [Booster -> Nat]
  BY DEF Credit, Player
<1> QED BY <1>1, <1>2 DEF CreditEffect, Player

(* An operator's grant is clamped at both ends. *)
LEMMA GrantKeepsPlayer ==
  ASSUME NEW p \in Player, NEW op \in Grant
  PROVE  GrantEffect(op, p) \in Player
<1>1. Larger(0, p.coins + op.coins) \in Nat
  BY DEF Larger, Grant, Player
<1>2. Larger(0, Smaller(MaxLives, p.lives + op.lives)) \in 0..MaxLives
  BY DEF Larger, Smaller, Grant, Player
<1>3. [b \in Booster |-> Larger(0, p.boosters[b] + op.boosters[b])] \in [Booster -> Nat]
  BY DEF Larger, Grant, Player
<1> QED BY <1>1, <1>2, <1>3 DEF GrantEffect, Player

(* What an operation makes of a regenerated profile is a profile, if it was   *)
(* allowed, and so is what Mutate writes.                                   *)
LEMMA EffectIsPlayer ==
  ASSUME NEW p \in Player, NEW op \in Operation, NEW t \in Nat, Allowed(op, p, t)
  PROVE  Effect(op, t, ApplyRegen(p, t)) \in Player
<1> DEFINE q == ApplyRegen(p, t)
<1>1. q \in Player /\ Permits(op, q)
  BY RegenKeepsPlayer DEF Allowed
<1> HIDE DEF q
<1>2. Effect(op, t, q) \in Player
  <2>1. CASE op \in Purchase
    BY <1>1, <2>1, PurchaseKeepsPlayer DEF Effect, Purchase
  <2>2. CASE op \in Start
    BY <1>1, <2>2, StartKeepsPlayer DEF Effect, Start
  <2>3. CASE op \in Settle
    BY <1>1, <2>3, SettleKeepsPlayer DEF Effect, Settle
  <2>4. CASE op \in Credit
    BY <1>1, <2>4, CreditKeepsPlayer DEF Effect, Credit
  <2>5. CASE op \in Grant
    BY <1>1, <2>5, GrantKeepsPlayer DEF Effect, Grant
  <2> QED BY <2>1, <2>2, <2>3, <2>4, <2>5 DEF Operation
<1> QED BY <1>2 DEF q

LEMMA StoredIsPlayer == \A r \in Player : Stored(r) \in Player
BY DEF Stored, Player, ZeroTime

LEMMA WrittenIsPlayer ==
  ASSUME NEW p \in Player, NEW op \in Operation, NEW t \in Nat, NEW u \in Nat,
         Allowed(op, p, t)
  PROVE  Written(op, p, t, u) \in Player
<1> DEFINE r == Effect(op, t, ApplyRegen(p, t))
<1>1. r \in Player
  BY EffectIsPlayer
<1> HIDE DEF r
<1>2. [r EXCEPT !.updatedAt = u] \in Player
  BY <1>1 DEF Player
<1> QED BY <1>2, StoredIsPlayer DEF Written, r

LEMMA NewPlayerIsPlayer == Stored(NewPlayer(1)) \in Player
BY DEF Stored, NewPlayer, Player, ZeroTime, StartingCoins

-----------------------------------------------------------------------------
(* The invariant. *)

LEMMA LeaveTyped ==
  ASSUME NEW m \in MutateCall, NEW pc \in MutPc, NEW attempt \in 0..MaxRetries
  PROVE  /\ Leave(m, pc, attempt) \in MutateCall
         /\ Return(m, pc) \in MutateCall
<1>1. 0 \in 0..MaxRetries /\ 0 \in Nat /\ 0 \in 0..MaxNow
  OBVIOUS
<1> QED BY <1>1 DEF Leave, Return, Idle, MutateCall

LEMMA InitPInv == ProfileInit => PInv
BY NewPlayerIsPlayer DEF ProfileInit, PInv, ProfileTypeOK, SnapshotCoherent, Coherent, Idle, MutPc, MutateCall

(* The balances: only Update writes them, and it writes what a permitted     *)
(* decision on the current profile made of it.                              *)
LEMMA UpdateFacts ==
  ASSUME PInv, NEW h \in Request, NEW answered \in BOOLEAN, Update(h, answered)
  PROVE  /\ h \notin applied
         /\ mut[h].op \in Workload
         /\ mut[h].at \in 1..now
         /\ Allowed(mut[h].op, profile, mut[h].at)
         /\ profile' = Written(mut[h].op, profile, mut[h].at, now)
         /\ profile' \in Player
<1>1. /\ mut[h].pc = "update" /\ version = mut[h].readVersion
      /\ profile' = Written(mut[h].op, mut[h].read, mut[h].at, now)
  BY DEF Update
<1>2. /\ h \notin applied /\ mut[h].op \in Workload /\ mut[h].at \in 1..now
      /\ mut[h].read = profile /\ Allowed(mut[h].op, mut[h].read, mut[h].at)
  BY <1>1 DEF PInv, SnapshotCoherent, Coherent
<1>3. profile \in Player /\ now \in Nat /\ mut[h].at \in Nat
  BY <1>2 DEF PInv, ProfileTypeOK
<1> QED BY <1>1, <1>2, <1>3, WrittenIsPlayer

LEMMA StepPInv == PInv /\ [ProfileNext]_profileVars => PInv'
<1> SUFFICES ASSUME PInv, [ProfileNext]_profileVars PROVE PInv'
  OBVIOUS
<1> USE DEF PInv, MutPc, Returned
<1>1. ASSUME NEW h \in Request, NEW op \in Workload, Call(h, op) PROVE PInv'
  <2>1. ProfileTypeOK'
    <3>1. 0 \in 0..MaxRetries /\ 0 \in Nat /\ 0 \in 0..MaxNow
      OBVIOUS
    <3>2. [Idle EXCEPT !.pc = "get", !.op = op] \in MutateCall
      BY <3>1 DEF Idle, MutateCall
    <3> QED BY <1>1, <3>2 DEF Call, ProfileTypeOK
  <2>2. ASSUME NEW g \in Request PROVE Coherent(g)'
    <3>1. CASE g = h
      BY <1>1, <3>1 DEF Call, ProfileTypeOK, SnapshotCoherent, Coherent, Idle, Return, Leave
    <3>2. CASE g # h
      BY <1>1, <3>2 DEF Call, ProfileTypeOK, SnapshotCoherent, Coherent
    <3> QED BY <3>1, <3>2
  <2> QED BY <2>1, <2>2 DEF SnapshotCoherent
<1>2. ASSUME NEW h \in Request, Get(h) PROVE PInv'
  <2>1. ProfileTypeOK'
    <3> DEFINE m == mut[h]
    <3>1. m \in MutateCall /\ profile \in Player /\ version \in Nat /\ now \in 0..MaxNow
      BY DEF ProfileTypeOK
    <3>2. Return(m, "refused") \in MutateCall
      BY <3>1, LeaveTyped
    <3>3. [m EXCEPT !.pc = "update", !.read = profile, !.readVersion = version, !.at = now]
            \in MutateCall
      <4> HIDE DEF m
      <4> QED BY <3>1 DEF MutateCall
    <3> QED BY <1>2, <3>2, <3>3 DEF Get, ProfileTypeOK
  <2>2. ASSUME NEW g \in Request PROVE Coherent(g)'
    <3>1. CASE g = h
      BY <1>2, <3>1 DEF Get, ProfileTypeOK, SnapshotCoherent, Coherent, Idle, Return, Leave
    <3>2. CASE g # h
      BY <1>2, <3>2 DEF Get, ProfileTypeOK, SnapshotCoherent, Coherent
    <3> QED BY <3>1, <3>2
  <2> QED BY <2>1, <2>2 DEF SnapshotCoherent
<1>3. ASSUME NEW h \in Request, NEW answered \in BOOLEAN, Update(h, answered) PROVE PInv'
  <2>1. ProfileTypeOK'
    <3>1. Return(mut[h], IF answered THEN "done" ELSE "failed") \in MutateCall
      BY LeaveTyped DEF ProfileTypeOK
    <3>2. profile' \in Player
      BY <1>3, UpdateFacts
    <3> QED BY <1>3, <3>1, <3>2 DEF Update, ProfileTypeOK
  <2>2. ASSUME NEW g \in Request PROVE Coherent(g)'
    <3>1. CASE g = h
      BY <1>3, <3>1 DEF Update, ProfileTypeOK, SnapshotCoherent, Coherent, Idle, Return, Leave
    <3>2. CASE g # h
      BY <1>3, <3>2 DEF Update, ProfileTypeOK, MutateCall, SnapshotCoherent, Coherent
    <3> QED BY <3>1, <3>2
  <2> QED BY <2>1, <2>2 DEF SnapshotCoherent
<1>4. ASSUME NEW h \in Request, UpdateConflict(h) PROVE PInv'
  <2>1. ProfileTypeOK'
    <3>1. mut[h] \in MutateCall /\ mut[h].attempt \in 0..MaxRetries
      BY DEF ProfileTypeOK, MutateCall
    <3>2. Return(mut[h], "conflict") \in MutateCall
      BY <3>1, LeaveTyped
    <3>3. CASE mut[h].attempt + 1 < MaxRetries
      <4>1. mut[h].attempt + 1 \in 0..MaxRetries
        BY <3>1, <3>3
      <4>2. Leave(mut[h], "get", mut[h].attempt + 1) \in MutateCall
        BY <3>1, <4>1, LeaveTyped
      <4>3. mut' = [mut EXCEPT ![h] = Leave(mut[h], "get", mut[h].attempt + 1)]
        BY <1>4, <3>3 DEF UpdateConflict
      <4> QED BY <1>4, <4>2, <4>3 DEF UpdateConflict, ProfileTypeOK
    <3>4. CASE ~(mut[h].attempt + 1 < MaxRetries)
      <4>1. mut' = [mut EXCEPT ![h] = Return(mut[h], "conflict")]
        BY <1>4, <3>4 DEF UpdateConflict
      <4> QED BY <1>4, <3>2, <4>1 DEF UpdateConflict, ProfileTypeOK
    <3> QED BY <3>3, <3>4
  <2>2. ASSUME NEW g \in Request PROVE Coherent(g)'
    <3>1. CASE g = h
      BY <1>4, <3>1 DEF UpdateConflict, ProfileTypeOK, SnapshotCoherent, Coherent, Idle, Return, Leave
    <3>2. CASE g # h
      BY <1>4, <3>2 DEF UpdateConflict, ProfileTypeOK, SnapshotCoherent, Coherent
    <3> QED BY <3>1, <3>2
  <2> QED BY <2>1, <2>2 DEF SnapshotCoherent
<1>5. ASSUME NEW h \in Request, CallFails(h) PROVE PInv'
  <2>1. ProfileTypeOK'
    <3>1. Return(mut[h], "failed") \in MutateCall
      BY LeaveTyped DEF ProfileTypeOK
    <3> QED BY <1>5, <3>1 DEF CallFails, ProfileTypeOK
  <2>2. ASSUME NEW g \in Request PROVE Coherent(g)'
    <3>1. CASE g = h
      BY <1>5, <3>1 DEF CallFails, ProfileTypeOK, SnapshotCoherent, Coherent, Idle, Return, Leave
    <3>2. CASE g # h
      BY <1>5, <3>2 DEF CallFails, ProfileTypeOK, SnapshotCoherent, Coherent
    <3> QED BY <3>1, <3>2
  <2> QED BY <2>1, <2>2 DEF SnapshotCoherent
<1>6. CASE Tick
  BY <1>6 DEF Tick, ProfileTypeOK, SnapshotCoherent, Coherent
<1>7. CASE UNCHANGED profileVars
  BY <1>7 DEF profileVars, ProfileTypeOK, SnapshotCoherent, Coherent
<1> QED BY <1>1, <1>2, <1>3, <1>4, <1>5, <1>6, <1>7 DEF ProfileNext, MutateStep

THEOREM ProfileInvariant == ProfileSpec => []PInv
BY InitPInv, StepPInv, PTL DEF ProfileSpec

(* No interleaving of purchases, charges, settlements, credits and grants    *)
(* overdraws a balance or pushes lives out of 0..MaxLives: ProfileTypeOK for *)
(* every set of requests, workload, number of retries and fault.            *)
THEOREM NoOverdraft == ProfileSpec => []ProfileTypeOK
BY ProfileInvariant, PTL DEF PInv

-----------------------------------------------------------------------------
(* Mutate implements Ledger: a successful Update is the atomic commit, the   *)
(* call itself the submission, every other step is invisible.               *)

LEMMA InitRefines == ProfileInit => L!LedgerInit
BY DEF ProfileInit, L!LedgerInit, Idle

(* The steps of a call that leave the store alone. *)
LEMMA QuietSteps ==
  ASSUME mut \in [Request -> MutateCall], NEW h \in Request,
         Get(h) \/ UpdateConflict(h) \/ CallFails(h)
  PROVE  /\ UNCHANGED <<profile, version, applied, now>>
         /\ \A g \in Request : /\ mut'[g].op = mut[g].op
                               /\ mut'[g].pc = "done" => mut[g].pc = "done"
<1>1. CASE Get(h)
  BY <1>1 DEF Get, Return, Leave, Idle, MutateCall
<1>2. CASE UpdateConflict(h)
  <2>1. \/ mut' = [mut EXCEPT ![h] = Leave(mut[h], "get", mut[h].attempt + 1)]
        \/ mut' = [mut EXCEPT ![h] = Return(mut[h], "conflict")]
    BY <1>2 DEF UpdateConflict
  <2> QED BY <1>2, <2>1 DEF UpdateConflict, Return, Leave, Idle
<1>3. CASE CallFails(h)
  BY <1>3 DEF CallFails, Return, Leave, Idle
<1> QED BY <1>1, <1>2, <1>3

LEMMA CallSubmits ==
  ASSUME PInv, NEW h \in Request, NEW op \in Workload, Call(h, op)
  PROVE  L!Submit(h, op)
<1>1. mut \in [Request -> MutateCall] /\ mut[h].op = NoOp
  BY DEF PInv, ProfileTypeOK, SnapshotCoherent, Coherent, Call
<1> QED BY <1>1 DEF L!Submit, Call, Idle

LEMMA UpdateCommits ==
  ASSUME PInv, NEW h \in Request, NEW answered \in BOOLEAN, Update(h, answered)
  PROVE  L!Commit(h)
<1>1. mut \in [Request -> MutateCall] /\ now \in Nat
  BY DEF PInv, ProfileTypeOK
<1>2. mut[h].op # NoOp
  BY UpdateFacts
<1>3. [g \in Request |-> mut[g].op]' = [g \in Request |-> mut[g].op]
  BY <1>1 DEF Update, Return, Leave, Idle
<1>4. \E at \in 1..now : /\ Allowed(mut[h].op, profile, at)
                          /\ profile' = Written(mut[h].op, profile, at, now)
  BY UpdateFacts
<1> QED BY <1>1, <1>2, <1>3, <1>4, UpdateFacts DEF L!Commit, Update

LEMMA StepRefines ==
  PInv /\ [ProfileNext]_profileVars => [L!LedgerNext]_L!ledgerVars
<1> SUFFICES ASSUME PInv, [ProfileNext]_profileVars
             PROVE  [L!LedgerNext]_L!ledgerVars
  OBVIOUS
<1>0. mut \in [Request -> MutateCall]
  BY DEF PInv, ProfileTypeOK
<1>1. ASSUME NEW h \in Request, NEW op \in Workload, Call(h, op)
      PROVE  L!LedgerNext
  BY <1>1, CallSubmits DEF L!LedgerNext
<1>2. ASSUME NEW h \in Request, NEW answered \in BOOLEAN, Update(h, answered)
      PROVE  L!LedgerNext
  BY <1>2, UpdateCommits DEF L!LedgerNext
<1>3. ASSUME NEW h \in Request, Get(h) \/ UpdateConflict(h) \/ CallFails(h)
      PROVE  UNCHANGED L!ledgerVars
  BY <1>0, <1>3, QuietSteps DEF L!ledgerVars
<1>4. CASE Tick
  BY <1>4 DEF Tick, L!LedgerNext, L!Advance
<1>5. CASE UNCHANGED profileVars
  BY <1>5 DEF profileVars, L!ledgerVars
<1> QED BY <1>1, <1>2, <1>3, <1>4, <1>5 DEF ProfileNext, MutateStep

(* The profile is linearizable per player: every request takes effect at     *)
(* most once, in one step, on the profile its decision was taken on, for     *)
(* every number of requests, retries and faults (player.Service.Mutate).    *)
THEOREM MutateLinearizable == ProfileSpec => Linearizable
<1>1. ProfileInit => L!LedgerInit
  BY InitRefines
<1>2. PInv /\ [ProfileNext]_profileVars => [L!LedgerNext]_L!ledgerVars
  BY StepRefines
<1> QED BY <1>1, <1>2, ProfileInvariant, PTL DEF ProfileSpec, Linearizable, L!LedgerSpec

-----------------------------------------------------------------------------
(* The version is a count of the requests that took effect. *)
WInv == VersionCountsWrites /\ IsFiniteSet(applied)

LEMMA UpdateCounts ==
  ASSUME PInv, WInv, NEW h \in Request, NEW answered \in BOOLEAN, Update(h, answered)
  PROVE  WInv'
<1>1. h \notin applied /\ applied' = applied \cup {h} /\ version' = version + 1
  BY UpdateFacts DEF Update
<1>2. IsFiniteSet(applied') /\ Cardinality(applied') = Cardinality(applied) + 1
  BY <1>1, FS_AddElement DEF WInv
<1>3. Cardinality(applied) \in Nat /\ version = 1 + Cardinality(applied)
  BY FS_CardinalityType DEF WInv, VersionCountsWrites
<1>4. \A g \in Request : mut'[g].pc = "done" => g \in applied'
  BY <1>1 DEF WInv, VersionCountsWrites, Update, PInv, ProfileTypeOK
<1> QED BY <1>1, <1>2, <1>3, <1>4 DEF WInv, VersionCountsWrites

LEMMA StepCounts == PInv /\ WInv /\ [ProfileNext]_profileVars => WInv'
<1> SUFFICES ASSUME PInv, WInv, [ProfileNext]_profileVars PROVE WInv'
  OBVIOUS
<1>0. mut \in [Request -> MutateCall]
  BY DEF PInv, ProfileTypeOK
<1>1. ASSUME NEW h \in Request, NEW op \in Workload, Call(h, op) PROVE WInv'
  BY <1>0, <1>1 DEF Call, WInv, VersionCountsWrites, Idle
<1>2. ASSUME NEW h \in Request, NEW answered \in BOOLEAN, Update(h, answered) PROVE WInv'
  BY <1>2, UpdateCounts
<1>3. ASSUME NEW h \in Request, Get(h) \/ UpdateConflict(h) \/ CallFails(h) PROVE WInv'
  BY <1>0, <1>3, QuietSteps DEF WInv, VersionCountsWrites
<1>4. CASE Tick
  BY <1>4 DEF Tick, WInv, VersionCountsWrites
<1>5. CASE UNCHANGED profileVars
  BY <1>5 DEF profileVars, WInv, VersionCountsWrites
<1> QED BY <1>1, <1>2, <1>3, <1>4, <1>5 DEF ProfileNext, MutateStep

(* No write is counted twice or lost, and a caller told of success is among  *)
(* those counted: VersionCountsWrites, for any number of requests.          *)
THEOREM WritesCountOnce == ProfileSpec => []VersionCountsWrites
<1>1. ProfileInit => WInv
  BY FS_EmptySet DEF ProfileInit, WInv, VersionCountsWrites, Idle
<1>2. PInv /\ WInv /\ [ProfileNext]_profileVars => WInv'
  BY StepCounts
<1>3. WInv => VersionCountsWrites
  BY DEF WInv
<1> QED BY <1>1, <1>2, <1>3, ProfileInvariant, PTL DEF ProfileSpec

-----------------------------------------------------------------------------
(* Whole periods of regeneration. *)

LEMMA Multiples ==
  ASSUME NEW k \in Int, NEW m \in Int, NEW d \in Nat \ {0}, k < m
  PROVE  k * d + d <= m * d
<1>1. m - k - 1 \in Nat /\ (m - k - 1) * d \in Nat
  OBVIOUS
<1>2. (m - k - 1) * d = m * d - k * d - d
  OBVIOUS
<1>3. m * d \in Int /\ k * d \in Int
  OBVIOUS
<1> QED
  BY <1>1, <1>2, <1>3

LEMMA Periods ==
  ASSUME NEW a \in Int, NEW d \in Nat \ {0}
  PROVE  /\ a \div d \in Int
         /\ (a \div d) * d <= a
         /\ a < (a \div d) * d + d
OBVIOUS

LEMMA PeriodsAre ==
  ASSUME NEW a \in Int, NEW d \in Nat \ {0}, NEW k \in Int, k * d <= a, a < k * d + d
  PROVE  a \div d = k
<1> DEFINE g == a \div d
<1>1. g \in Int /\ g * d <= a /\ a < g * d + d
  BY Periods
<1> HIDE DEF g
<1>2. g * d \in Int /\ k * d \in Int
  BY <1>1
<1>3. ~(g < k)
  <2> SUFFICES ASSUME g < k PROVE FALSE
    OBVIOUS
  <2>1. g * d + d <= k * d
    BY <1>1, Multiples
  <2> QED
    BY <1>1, <1>2, <2>1
<1>4. ~(k < g)
  <2> SUFFICES ASSUME k < g PROVE FALSE
    OBVIOUS
  <2>1. k * d + d <= g * d
    BY <1>1, Multiples
  <2> QED
    BY <1>1, <1>2, <2>1
<1> QED
  BY <1>1, <1>3, <1>4 DEF g

Gained(p, t) == (t - p.livesUpdatedAt) \div LifeRegen
Running(p) == LifeRegen # 0 /\ p.lives < MaxLives /\ p.livesUpdatedAt # ZeroTime

(* ApplyRegen by cases: the clock is not running, no period has passed, the   *)
(* profile is full now, or it waits for the next life.                      *)
LEMMA RegenCases ==
  ASSUME NEW p \in Player, NEW t \in Nat
  PROVE  /\ LifeRegen = 0 => ApplyRegen(p, t) = p
         /\ LifeRegen # 0 /\ ~Running(p) => ApplyRegen(p, t) = [p EXCEPT !.livesUpdatedAt = t]
         /\ Running(p) =>
              /\ Gained(p, t) \in Int
              /\ Gained(p, t) <= 0 => ApplyRegen(p, t) = p
              /\ Gained(p, t) > 0 /\ p.lives + Gained(p, t) >= MaxLives =>
                   ApplyRegen(p, t) = [p EXCEPT !.lives = MaxLives, !.livesUpdatedAt = t]
              /\ Gained(p, t) > 0 /\ p.lives + Gained(p, t) < MaxLives =>
                   ApplyRegen(p, t) = [p EXCEPT !.lives = p.lives + Gained(p, t),
                                                !.livesUpdatedAt = p.livesUpdatedAt + Gained(p, t) * LifeRegen]
<1>0. p.lives \in 0..MaxLives /\ p.livesUpdatedAt \in Nat
  BY DEF Player
<1>1. CASE LifeRegen = 0
  BY <1>1 DEF ApplyRegen, Running
<1>2. CASE LifeRegen # 0 /\ ~Running(p)
  <2>1. p.lives >= MaxLives \/ p.livesUpdatedAt = ZeroTime
    BY <1>0, <1>2 DEF Running
  <2> QED
    BY <1>2, <2>1 DEF ApplyRegen
<1>3. CASE Running(p)
  <2> DEFINE gained == (t - p.livesUpdatedAt) \div LifeRegen
  <2>1. gained \in Int
    BY <1>0, <1>3 DEF Running
  <2>2. ApplyRegen(p, t) =
          IF gained <= 0 THEN p
          ELSE IF p.lives + gained >= MaxLives
            THEN [p EXCEPT !.lives = MaxLives, !.livesUpdatedAt = t]
          ELSE [p EXCEPT !.lives = @ + gained, !.livesUpdatedAt = @ + gained * LifeRegen]
    <3>1. ~(p.lives >= MaxLives \/ p.livesUpdatedAt = ZeroTime) /\ LifeRegen # 0
      BY <1>0, <1>3 DEF Running
    <3> QED
      BY <3>1, Zenon DEF ApplyRegen
  <2>3. Gained(p, t) = gained
    BY DEF Gained
  <2> HIDE DEF gained
  <2>4. gained <= 0 => ApplyRegen(p, t) = p
    BY <2>2
  <2>5. gained > 0 /\ p.lives + gained >= MaxLives =>
          ApplyRegen(p, t) = [p EXCEPT !.lives = MaxLives, !.livesUpdatedAt = t]
    BY <2>1, <2>2
  <2>6. gained > 0 /\ p.lives + gained < MaxLives =>
          ApplyRegen(p, t) = [p EXCEPT !.lives = p.lives + gained,
                                       !.livesUpdatedAt = p.livesUpdatedAt + gained * LifeRegen]
    BY <1>0, <2>1, <2>2
  <2> QED
    BY <1>3, <2>1, <2>3, <2>4, <2>5, <2>6 DEF Running
<1> QED
  BY <1>1, <1>2, <1>3 DEF Running

(* What a reader is shown, by the same cases. *)
LEMMA LivesShown ==
  ASSUME NEW p \in Player, NEW t \in Nat
  PROVE  /\ ~Running(p) => View(p, t).lives = p.lives
         /\ Running(p) =>
              /\ Gained(p, t) \in Int
              /\ Gained(p, t) <= 0 => View(p, t).lives = p.lives
              /\ Gained(p, t) > 0 /\ p.lives + Gained(p, t) >= MaxLives => View(p, t).lives = MaxLives
              /\ Gained(p, t) > 0 /\ p.lives + Gained(p, t) < MaxLives => View(p, t).lives = p.lives + Gained(p, t)
<1>1. CASE ~Running(p)
  <2>1. ApplyRegen(p, t) = p \/ ApplyRegen(p, t) = [p EXCEPT !.livesUpdatedAt = t]
    BY <1>1, RegenCases
  <2> QED
    BY <1>1, <2>1 DEF View, Player
<1>2. CASE Running(p)
  <2> DEFINE g == Gained(p, t)
  <2>1. /\ g \in Int
        /\ g <= 0 => ApplyRegen(p, t) = p
        /\ g > 0 /\ p.lives + g >= MaxLives =>
             ApplyRegen(p, t) = [p EXCEPT !.lives = MaxLives, !.livesUpdatedAt = t]
        /\ g > 0 /\ p.lives + g < MaxLives =>
             ApplyRegen(p, t) = [p EXCEPT !.lives = p.lives + g, !.livesUpdatedAt = p.livesUpdatedAt + g * LifeRegen]
    BY <1>2, RegenCases
  <2> HIDE DEF g
  <2> QED
    BY <1>2, <2>1 DEF View, Player, g
<1> QED
  BY <1>1, <1>2

(* A profile that was regenerated at t shows at u what it would have shown     *)
(* without: the stamp keeps the part of a life that was waited for.         *)
LEMMA RegenTwice ==
  ASSUME NEW p \in Player, NEW t \in Nat, NEW u \in Nat, t <= u, p.livesUpdatedAt # ZeroTime
  PROVE  View(ApplyRegen(p, t), u).lives = View(p, u).lives
<1>0. p.lives \in 0..MaxLives /\ p.livesUpdatedAt \in Nat
  BY DEF Player
<1>1. CASE LifeRegen = 0
  <2>1. ApplyRegen(p, t) = p
    BY <1>1, RegenCases
  <2> QED
    BY <2>1
<1>2. CASE LifeRegen # 0 /\ ~Running(p)
  <2> DEFINE q == [p EXCEPT !.livesUpdatedAt = t]
  <2>1. ApplyRegen(p, t) = q
    BY <1>2, RegenCases
  <2>2. q \in Player /\ q.lives = p.lives
    BY DEF Player
  <2>3. p.lives >= MaxLives
    BY <1>0, <1>2 DEF Running
  <2> HIDE DEF q
  <2>4. ~Running(q)
    BY <1>0, <2>2, <2>3 DEF Running
  <2> QED
    BY <1>2, <2>1, <2>2, <2>4, LivesShown
<1>3. CASE Running(p)
  <2> DEFINE g == Gained(p, t)
             f == Gained(p, u)
  <2>1. LifeRegen \in Nat \ {0}
    BY <1>3 DEF Running
  <2>2. /\ g \in Int /\ g * LifeRegen <= t - p.livesUpdatedAt /\ t - p.livesUpdatedAt < g * LifeRegen + LifeRegen
        /\ f \in Int /\ f * LifeRegen <= u - p.livesUpdatedAt /\ u - p.livesUpdatedAt < f * LifeRegen + LifeRegen
    <3>1. t - p.livesUpdatedAt \in Int /\ u - p.livesUpdatedAt \in Int
      BY <1>0
    <3>2. /\ g \in Int /\ g * LifeRegen <= t - p.livesUpdatedAt
          /\ t - p.livesUpdatedAt < g * LifeRegen + LifeRegen
      BY <2>1, <3>1, Periods DEF Gained
    <3>3. /\ f \in Int /\ f * LifeRegen <= u - p.livesUpdatedAt
          /\ u - p.livesUpdatedAt < f * LifeRegen + LifeRegen
      BY <2>1, <3>1, Periods DEF Gained
    <3> HIDE DEF g, f
    <3> QED
      BY <3>2, <3>3
  <2>3. /\ g <= 0 => ApplyRegen(p, t) = p
        /\ g > 0 /\ p.lives + g >= MaxLives =>
             ApplyRegen(p, t) = [p EXCEPT !.lives = MaxLives, !.livesUpdatedAt = t]
        /\ g > 0 /\ p.lives + g < MaxLives =>
             ApplyRegen(p, t) = [p EXCEPT !.lives = p.lives + g, !.livesUpdatedAt = p.livesUpdatedAt + g * LifeRegen]
    BY <1>3, RegenCases
  <2>4. /\ f <= 0 => View(p, u).lives = p.lives
        /\ f > 0 /\ p.lives + f >= MaxLives => View(p, u).lives = MaxLives
        /\ f > 0 /\ p.lives + f < MaxLives => View(p, u).lives = p.lives + f
    BY <1>3, LivesShown
  <2> HIDE DEF g, f
  <2>5. g <= f
    <3> SUFFICES ASSUME f < g PROVE FALSE
      BY <2>2
    <3>1. f * LifeRegen + LifeRegen <= g * LifeRegen
      BY <2>1, <2>2, Multiples
    <3>2. f * LifeRegen \in Int /\ g * LifeRegen \in Int
      BY <2>1, <2>2
    <3> QED
      BY <1>0, <2>1, <2>2, <3>1, <3>2
  <2>6. CASE g <= 0
    BY <2>3, <2>6
  <2>7. CASE g > 0 /\ p.lives + g >= MaxLives
    <3> DEFINE q == [p EXCEPT !.lives = MaxLives, !.livesUpdatedAt = t]
    <3>1. ApplyRegen(p, t) = q
      BY <2>3, <2>7
    <3>2. q \in Player /\ q.lives = MaxLives
      <4>1. MaxLives \in 0..MaxLives
        OBVIOUS
      <4> QED
        BY <4>1 DEF Player
    <3> HIDE DEF q
    <3>3. View(q, u).lives = MaxLives
      BY <3>2, LivesShown DEF Running
    <3>4. View(p, u).lives = MaxLives
      BY <1>0, <2>2, <2>4, <2>5, <2>7
    <3> QED
      BY <3>1, <3>3, <3>4
  <2>8. CASE g > 0 /\ p.lives + g < MaxLives
    <3> DEFINE s == p.livesUpdatedAt + g * LifeRegen
               q == [p EXCEPT !.lives = p.lives + g, !.livesUpdatedAt = s]
    <3>1. ApplyRegen(p, t) = q
      BY <2>3, <2>8
    <3>2. g * LifeRegen \in Nat /\ s \in Nat /\ s # ZeroTime /\ p.lives + g \in 0..MaxLives
      BY <1>0, <2>1, <2>2, <2>8 DEF ZeroTime
    <3> HIDE DEF s
    <3>3. q \in Player /\ q.lives = p.lives + g /\ q.livesUpdatedAt = s
      BY <3>2 DEF Player
    <3> HIDE DEF q
    <3>4. Running(q)
      BY <1>3, <2>8, <3>2, <3>3 DEF Running
    <3>5. Gained(q, u) = f - g
      <4>1. (f - g) * LifeRegen = f * LifeRegen - g * LifeRegen
        BY <2>1, <2>2
      <4>2. f * LifeRegen \in Int /\ g * LifeRegen \in Int /\ u - s \in Int /\ f - g \in Int
        BY <2>1, <2>2, <3>2
      <4>3. u - s = u - p.livesUpdatedAt - g * LifeRegen
        BY <1>0, <3>2 DEF s
      <4>4. (f - g) * LifeRegen <= u - s /\ u - s < (f - g) * LifeRegen + LifeRegen
        BY <1>0, <2>1, <2>2, <4>1, <4>2, <4>3
      <4> QED
        BY <2>1, <3>3, <4>2, <4>4, PeriodsAre DEF Gained
    <3>6. /\ f - g <= 0 => View(q, u).lives = p.lives + g
          /\ f - g > 0 /\ p.lives + g + (f - g) >= MaxLives => View(q, u).lives = MaxLives
          /\ f - g > 0 /\ p.lives + g + (f - g) < MaxLives => View(q, u).lives = p.lives + g + (f - g)
      BY <3>3, <3>4, <3>5, LivesShown
    <3>7. View(q, u).lives = View(p, u).lives
      BY <1>0, <2>2, <2>4, <2>5, <2>8, <3>6
    <3> QED
      BY <3>1, <3>7
  <2> QED
    BY <2>2, <2>6, <2>7, <2>8, <1>0
<1> QED
  BY <1>1, <1>2, <1>3

-----------------------------------------------------------------------------
(* The stamp.  A profile that a resting player's lives are computed from was  *)
(* stamped when it was last written, or before, but it was stamped.         *)

ClockInv ==
  /\ profile.updatedAt \in 1..now
  /\ Backend = "memory" => profile.livesUpdatedAt \in 1..profile.updatedAt
  /\ Backend = "dynamodb" => profile.livesUpdatedAt = ZeroTime
  /\ \A h \in Request : mut[h].pc = "update" => mut[h].read.updatedAt <= mut[h].at

LEMMA RegenStamps ==
  ASSUME NEW p \in Player, NEW t \in Nat, p.livesUpdatedAt \in 1..t
  PROVE  ApplyRegen(p, t).livesUpdatedAt \in 1..t
<1>0. p.lives \in 0..MaxLives /\ p.livesUpdatedAt \in Nat
  BY DEF Player
<1>1. CASE ~Running(p)
  <2>1. ApplyRegen(p, t) = p \/ ApplyRegen(p, t) = [p EXCEPT !.livesUpdatedAt = t]
    BY <1>1, RegenCases
  <2> QED
    BY <2>1 DEF Player
<1>2. CASE Running(p)
  <2> DEFINE g == Gained(p, t)
  <2>1. /\ g \in Int
        /\ g <= 0 => ApplyRegen(p, t) = p
        /\ g > 0 /\ p.lives + g >= MaxLives =>
             ApplyRegen(p, t) = [p EXCEPT !.lives = MaxLives, !.livesUpdatedAt = t]
        /\ g > 0 /\ p.lives + g < MaxLives =>
             ApplyRegen(p, t) = [p EXCEPT !.lives = p.lives + g, !.livesUpdatedAt = p.livesUpdatedAt + g * LifeRegen]
    BY <1>2, RegenCases
  <2>2. g * LifeRegen <= t - p.livesUpdatedAt
    <3>1. LifeRegen \in Nat \ {0} /\ t - p.livesUpdatedAt \in Int
      BY <1>0, <1>2 DEF Running
    <3> QED
      BY <3>1, Periods DEF Gained
  <2> HIDE DEF g
  <2>3. g > 0 => g * LifeRegen \in Nat
    BY <2>1
  <2>4. g > 0 => p.livesUpdatedAt + g * LifeRegen \in 1..t
    BY <1>0, <2>1, <2>2, <2>3
  <2>5. CASE g <= 0
    BY <2>1, <2>5
  <2>6. CASE g > 0 /\ p.lives + g >= MaxLives
    <3>1. ApplyRegen(p, t) = [p EXCEPT !.lives = MaxLives, !.livesUpdatedAt = t]
      BY <2>1, <2>6
    <3>2. ApplyRegen(p, t).livesUpdatedAt = t
      BY <3>1 DEF Player
    <3>3. t \in 1..t
      BY <1>0
    <3> QED
      BY <3>2, <3>3
  <2>7. CASE g > 0 /\ p.lives + g < MaxLives
    BY <2>1, <2>4, <2>7 DEF Player
  <2> QED
    BY <1>0, <2>1, <2>5, <2>6, <2>7
<1> QED
  BY <1>1, <1>2

LEMMA EffectStamps ==
  ASSUME NEW p \in Player, NEW op \in Operation, NEW t
  PROVE  Effect(op, t, p).livesUpdatedAt \in {p.livesUpdatedAt, t}
<1>1. CASE op \in Purchase
  BY <1>1 DEF Effect, Purchase, PurchaseEffect, Player
<1>2. CASE op \in Start
  BY <1>2 DEF Effect, Start, StartEffect, Player
<1>3. CASE op \in Settle
  BY <1>3 DEF Effect, Settle, SettleEffect, Player
<1>4. CASE op \in Credit
  BY <1>4 DEF Effect, Credit, CreditEffect, Player
<1>5. CASE op \in Grant
  BY <1>5 DEF Effect, Grant, GrantEffect, Player
<1> QED
  BY <1>1, <1>2, <1>3, <1>4, <1>5 DEF Operation

LEMMA WrittenStamps ==
  ASSUME NEW p \in Player, NEW op \in Operation, NEW t \in Nat, NEW u \in Nat,
         Allowed(op, p, t), t <= u
  PROVE  /\ Written(op, p, t, u).updatedAt = u
         /\ Backend = "memory" /\ p.livesUpdatedAt \in 1..t => Written(op, p, t, u).livesUpdatedAt \in 1..u
         /\ Backend = "dynamodb" => Written(op, p, t, u).livesUpdatedAt = ZeroTime
<1> DEFINE q == ApplyRegen(p, t)
           r == Effect(op, t, q)
           s == [r EXCEPT !.updatedAt = u]
<1>1. r \in Player /\ q \in Player
  BY EffectIsPlayer, RegenKeepsPlayer
<1>2. r.livesUpdatedAt \in {q.livesUpdatedAt, t}
  BY <1>1, EffectStamps
<1>3. p.livesUpdatedAt \in 1..t => q.livesUpdatedAt \in 1..t
  BY RegenStamps
<1>4. Written(op, p, t, u) = Stored(s)
  BY DEF Written
<1> HIDE DEF q, r
<1>5. s.updatedAt = u /\ s.livesUpdatedAt = r.livesUpdatedAt /\ s \in Player
  BY <1>1 DEF Player
<1> HIDE DEF s
<1>6. CASE Backend = "memory"
  <2>1. Written(op, p, t, u) = s
    BY <1>4, <1>6 DEF Stored
  <2>2. p.livesUpdatedAt \in 1..t => r.livesUpdatedAt \in 1..u
    BY <1>2, <1>3
  <2> QED
    BY <1>5, <1>6, <2>1, <2>2
<1>7. CASE Backend = "dynamodb"
  <2>1. Written(op, p, t, u) = [s EXCEPT !.livesUpdatedAt = ZeroTime]
    BY <1>4, <1>7 DEF Stored
  <2> QED
    BY <1>5, <1>7, <2>1 DEF Player
<1> QED
  BY <1>6, <1>7

LEMMA InitClockInv == ProfileInit => ClockInv
<1> SUFFICES ASSUME ProfileInit PROVE ClockInv
  OBVIOUS
<1>1. profile = Stored(NewPlayer(1)) /\ now = 1 /\ \A h \in Request : mut[h].pc # "update"
  BY DEF ProfileInit, Idle
<1> QED
  BY <1>1 DEF ClockInv, Stored, NewPlayer, ZeroTime

(* A profile that is read was written by now; a write keeps the stamp between *)
(* one and the time of the write.                                           *)
LEMMA StepClockInv == PInv /\ ClockInv /\ [ProfileNext]_profileVars => ClockInv'
<1> SUFFICES ASSUME PInv, ClockInv, [ProfileNext]_profileVars PROVE ClockInv'
  OBVIOUS
<1>0. /\ profile \in Player /\ now \in Nat /\ mut \in [Request -> MutateCall]
      /\ profile.updatedAt \in Nat /\ profile.livesUpdatedAt \in Nat
  BY DEF PInv, ProfileTypeOK, Player
<1>1. ASSUME NEW h \in Request, NEW op \in Workload, Call(h, op) PROVE ClockInv'
  BY <1>0, <1>1 DEF Call, Idle, ClockInv
<1>2. ASSUME NEW h \in Request, Get(h) PROVE ClockInv'
  <2>1. UNCHANGED <<profile, now>> /\ \A g \in Request : g # h => mut'[g] = mut[g]
    BY <1>0, <1>2 DEF Get
  <2>2. mut'[h].pc = "update" => mut'[h].read = profile /\ mut'[h].at = now
    BY <1>0, <1>2 DEF Get, Return, Leave, MutateCall, Idle
  <2> QED
    BY <1>0, <2>1, <2>2 DEF ClockInv
<1>3. ASSUME NEW h \in Request, NEW answered \in BOOLEAN, Update(h, answered) PROVE ClockInv'
  <2> DEFINE op == mut[h].op
             at == mut[h].at
  <2>1. op \in Operation /\ at \in 1..now /\ Allowed(op, profile, at) /\ profile' = Written(op, profile, at, now)
    BY <1>3, UpdateFacts
  <2>2. profile.updatedAt <= at
    BY <1>3 DEF Update, ClockInv, PInv, SnapshotCoherent, Coherent
  <2>3. now' = now /\ \A g \in Request : mut'[g].pc = "update" => mut'[g] = mut[g]
    BY <1>0, <1>3 DEF Update, Return, Leave, Idle
  <2> HIDE DEF op, at
  <2>4. /\ profile'.updatedAt = now
        /\ Backend = "memory" /\ profile.livesUpdatedAt \in 1..at => profile'.livesUpdatedAt \in 1..now
        /\ Backend = "dynamodb" => profile'.livesUpdatedAt = ZeroTime
    <3>1. at \in Nat /\ at <= now
      BY <1>0, <2>1
    <3> QED
      BY <1>0, <2>1, <3>1, WrittenStamps
  <2>5. Backend = "memory" => profile.livesUpdatedAt \in 1..at
    BY <1>0, <2>1, <2>2 DEF ClockInv
  <2>6. now \in 1..now
    BY <1>0, <2>1
  <2> QED
    BY <1>0, <2>3, <2>4, <2>5, <2>6 DEF ClockInv
<1>4. ASSUME NEW h \in Request, UpdateConflict(h) \/ CallFails(h) PROVE ClockInv'
  <2>1. UNCHANGED <<profile, now>> /\ \A g \in Request : mut'[g].pc = "update" => mut'[g] = mut[g]
    BY <1>0, <1>4 DEF UpdateConflict, CallFails, Return, Leave, Idle
  <2> QED
    BY <2>1 DEF ClockInv
<1>5. CASE Tick
  BY <1>0, <1>5 DEF Tick, ClockInv
<1>6. CASE UNCHANGED profileVars
  BY <1>6 DEF profileVars, ClockInv
<1> QED
  BY <1>1, <1>2, <1>3, <1>4, <1>5, <1>6 DEF ProfileNext, MutateStep

LEMMA ClockInvariant == ProfileSpec => [](PInv /\ ClockInv)
BY InitPInv, StepPInv, InitClockInv, StepClockInv, PTL DEF ProfileSpec

(* "Replaying it on read and on write agrees" (player.ApplyRegen): at any time *)
(* since the last write, with either adapter, for any period and any lives.  *)
THEOREM RegenAgrees == ProfileSpec => []ReplayAgrees
<1>1. PInv /\ ClockInv => ReplayAgrees
  <2> SUFFICES ASSUME PInv, ClockInv, NEW t \in profile.updatedAt..now
               PROVE  View(Stored(ApplyRegen(profile, t)), now).lives = View(profile, now).lives
    BY DEF ReplayAgrees
  <2>1. profile \in Player /\ now \in Nat /\ t \in Nat /\ t <= now
    BY DEF PInv, ProfileTypeOK, Player
  <2>2. CASE Backend = "memory"
    <3>1. profile.livesUpdatedAt # ZeroTime
      BY <2>2 DEF ClockInv, ZeroTime
    <3>2. Stored(ApplyRegen(profile, t)) = ApplyRegen(profile, t)
      BY <2>2 DEF Stored
    <3> QED
      BY <2>1, <3>1, <3>2, RegenTwice
  <2>3. CASE Backend = "dynamodb"
    <3> DEFINE q == ApplyRegen(profile, t)
    <3>1. ~Running(profile)
      BY <2>3 DEF ClockInv, Running
    <3>2. q \in Player /\ q.lives = profile.lives
      BY <2>1, <3>1, RegenKeepsPlayer, LivesShown DEF View
    <3> HIDE DEF q
    <3>3. Stored(q) = [q EXCEPT !.livesUpdatedAt = ZeroTime]
      BY <2>3 DEF Stored
    <3>4. Stored(q) \in Player /\ Stored(q).lives = q.lives /\ ~Running(Stored(q))
      BY <3>2, <3>3 DEF Player, Running, ZeroTime
    <3>5. View(Stored(q), now).lives = Stored(q).lives /\ View(profile, now).lives = profile.lives
      BY <2>1, <3>1, <3>4, LivesShown
    <3> QED
      BY <3>2, <3>4, <3>5 DEF q
  <2> QED
    BY <2>2, <2>3
<1> QED
  BY <1>1, ClockInvariant, PTL

(* With the in-memory adapter a player who rests for LifeRegen per missing     *)
(* life shows full lives.  With the other the stamp is lost: module MCProfile *)
(* has a run that ends in a counterexample.                                 *)
THEOREM RestFillsUp == ASSUME Backend = "memory" PROVE ProfileSpec => []FullAfterRest
<1>1. PInv /\ ClockInv => FullAfterRest
  <2> SUFFICES ASSUME PInv, ClockInv, LifeRegen > 0,
                      now - profile.updatedAt >= LifeRegen * (MaxLives - profile.lives)
               PROVE  View(profile, now).lives = MaxLives
    BY DEF FullAfterRest
  <2> DEFINE s == profile.livesUpdatedAt
             m == MaxLives - profile.lives
             g == Gained(profile, now)
  <2>1. /\ profile \in Player /\ now \in Nat /\ profile.lives \in 0..MaxLives /\ m \in Nat
        /\ s \in Nat /\ s # ZeroTime /\ now - s >= m * LifeRegen /\ LifeRegen \in Nat \ {0}
    <3>1. /\ profile \in Player /\ now \in Nat /\ profile.lives \in 0..MaxLives
          /\ s \in 1..profile.updatedAt /\ profile.updatedAt \in 1..now
      BY DEF PInv, ProfileTypeOK, Player, ClockInv
    <3>2. m \in Nat /\ m * LifeRegen = LifeRegen * (MaxLives - profile.lives) /\ m * LifeRegen \in Nat
      BY <3>1
    <3> HIDE DEF s, m
    <3> QED
      BY <3>1, <3>2 DEF ZeroTime
  <2>2. CASE ~Running(profile)
    BY <2>1, <2>2, LivesShown DEF Running
  <2>3. CASE Running(profile)
    <3>1. /\ g \in Int
          /\ g <= 0 => View(profile, now).lives = profile.lives
          /\ g > 0 /\ profile.lives + g >= MaxLives => View(profile, now).lives = MaxLives
      BY <2>1, <2>3, LivesShown
    <3>2. now - s < g * LifeRegen + LifeRegen
      <4>1. now - s \in Int /\ g = (now - s) \div LifeRegen
        BY <2>1 DEF Gained
      <4> HIDE DEF s, g
      <4> QED
        BY <2>1, <4>1, Periods
    <3> HIDE DEF g, m, s
    <3>3. ~(g < m)
      <4> SUFFICES ASSUME g < m PROVE FALSE
        OBVIOUS
      <4>1. g * LifeRegen + LifeRegen <= m * LifeRegen
        BY <2>1, <3>1, Multiples
      <4>2. g * LifeRegen \in Int /\ m * LifeRegen \in Int
        BY <2>1, <3>1
      <4> QED
        BY <2>1, <3>2, <4>1, <4>2
    <3>4. m > 0
      BY <2>1, <2>3 DEF Running, m
    <3> QED
      BY <2>1, <3>1, <3>3, <3>4 DEF m
  <2> QED
    BY <2>2, <2>3
<1> QED
  BY <1>1, ClockInvariant, PTL

-----------------------------------------------------------------------------
(* The books.  What the requests that took effect moved, as functions.       *)
CoinsOf == [h \in applied |-> CoinsMoved(mut[h].op)]
BoostersOf(b) == [h \in applied |-> BoosterMoved(mut[h].op, b)]
LivesOf == [h \in applied |-> LivesMoved(mut[h].op)]
Settled == {h \in applied : mut[h].op.type = "settle"}

(* Regeneration touches nothing but lives and their stamp. *)
LEMMA RegenKeepsRest ==
  ASSUME NEW p \in Player, NEW t \in Nat
  PROVE  LET q == ApplyRegen(p, t)
         IN  q.coins = p.coins /\ q.boosters = p.boosters /\ q.runs = p.runs
<1> DEFINE q == ApplyRegen(p, t)
           g == Gained(p, t)
<1>1. CASE ~Running(p)
  <2>1. q = p \/ q = [p EXCEPT !.livesUpdatedAt = t]
    BY <1>1, RegenCases
  <2> QED BY <2>1 DEF Player
<1>2. CASE Running(p)
  <2>1. /\ g \in Int
        /\ g <= 0 => q = p
        /\ g > 0 /\ p.lives + g >= MaxLives => q = [p EXCEPT !.lives = MaxLives, !.livesUpdatedAt = t]
        /\ g > 0 /\ p.lives + g < MaxLives =>
             q = [p EXCEPT !.lives = p.lives + g, !.livesUpdatedAt = p.livesUpdatedAt + g * LifeRegen]
    BY <1>2, RegenCases
  <2>2. p.lives \in Int
    BY DEF Player
  <2>3. \/ q = p \/ q = [p EXCEPT !.lives = MaxLives, !.livesUpdatedAt = t]
        \/ q = [p EXCEPT !.lives = p.lives + g, !.livesUpdatedAt = p.livesUpdatedAt + g * LifeRegen]
    <3> HIDE DEF q, g
    <3> QED BY <2>1, <2>2
  <2>4. q.coins = p.coins /\ q.boosters = p.boosters /\ q.runs = p.runs
    <3> HIDE DEF q, g
    <3> QED BY <2>3 DEF Player
  <2> QED BY <2>4
<1> QED BY <1>1, <1>2

(* What an operation moves, unless it is an operator's clamped grant. *)
LEMMA EffectMoves ==
  ASSUME NEW p \in Player, NEW op \in Operation, NEW t \in Nat, Permits(op, p), ~Clamped(op)
  PROVE  LET r == Effect(op, t, p)
         IN  /\ CoinsMoved(op) \in Int /\ LivesMoved(op) \in Int
             /\ \A b \in Booster : BoosterMoved(op, b) \in Int
             /\ r.coins = p.coins + CoinsMoved(op)
             /\ r.lives = p.lives + LivesMoved(op)
             /\ \A b \in Booster : r.boosters[b] = p.boosters[b] + BoosterMoved(op, b)
             /\ r.runs = p.runs + IF op.type = "settle" THEN 1 ELSE 0
<1>0. /\ p.coins \in Nat /\ p.lives \in Nat /\ p.lives <= MaxLives /\ p.runs \in Nat
      /\ p.boosters \in [Booster -> Nat] /\ \A b \in Booster : p.boosters[b] \in Nat
  BY DEF Player
<1> USE DEF CoinsMoved, LivesMoved, BoosterMoved
<1>1. CASE op \in Purchase
  <2>1. op.type = "purchase" /\ op.item \in Item /\ Price(op.item) \in Nat
    BY <1>1 DEF Purchase, Price, Item, Booster
  <2>2. Effect(op, t, p) = PurchaseEffect(op, p)
    BY <2>1 DEF Effect
  <2>3. CASE op.item = "life"
    <3>1. PurchaseEffect(op, p) = [[p EXCEPT !.coins = @ - Price(op.item)] EXCEPT !.lives = @ + 1]
      BY <2>3 DEF PurchaseEffect
    <3>2. \A b \in Booster : op.item # b
      BY <2>3 DEF Booster
    <3> QED BY <1>0, <2>1, <2>2, <2>3, <3>1, <3>2 DEF Player
  <2>4. CASE op.item # "life"
    <3>1. PurchaseEffect(op, p) = [[p EXCEPT !.coins = @ - Price(op.item)] EXCEPT !.boosters[op.item] = @ + 1]
      BY <2>4 DEF PurchaseEffect
    <3>2. op.item \in Booster
      BY <2>1, <2>4 DEF Item
    <3> QED BY <1>0, <2>1, <2>2, <2>4, <3>1, <3>2 DEF Player
  <2> QED BY <2>3, <2>4
<1>2. CASE op \in Start
  <2>1. op.type = "start" /\ op.livesCost \in Nat /\ op.uses \subseteq Booster
    BY <1>2 DEF Start
  <2>2. Effect(op, t, p) = StartEffect(op, t, p)
    BY <2>1 DEF Effect
  <2> QED BY <1>0, <2>1, <2>2 DEF StartEffect, Player
<1>3. CASE op \in Settle
  <2>1. op.type = "settle"
    BY <1>3 DEF Settle
  <2>2. Effect(op, t, p) = SettleEffect(op, p)
    BY <2>1 DEF Effect
  <2> QED BY <1>0, <2>1, <2>2 DEF SettleEffect, Player
<1>4. CASE op \in Credit
  <2>1. op.type = "credit" /\ op.coins \in Nat /\ \A b \in Booster : op.boosters[b] \in Nat
    BY <1>4 DEF Credit
  <2>2. Effect(op, t, p) = CreditEffect(op, p)
    BY <2>1 DEF Effect
  <2> QED BY <1>0, <2>1, <2>2 DEF CreditEffect, Player
<1>5. CASE op \in Grant
  <2>1. /\ op.type = "grant" /\ op.coins \in Nat /\ op.lives = 0
        /\ \A b \in Booster : op.boosters[b] \in Nat
    BY <1>5 DEF Grant, Clamped
  <2>2. Effect(op, t, p) = GrantEffect(op, p)
    BY <2>1 DEF Effect
  <2>3. /\ Larger(0, p.coins + op.coins) = p.coins + op.coins
        /\ Larger(0, Smaller(MaxLives, p.lives + op.lives)) = p.lives
        /\ \A b \in Booster : Larger(0, p.boosters[b] + op.boosters[b]) = p.boosters[b] + op.boosters[b]
    BY <1>0, <2>1 DEF Larger, Smaller
  <2> QED BY <1>0, <2>1, <2>2, <2>3 DEF GrantEffect, Player
<1> QED BY <1>1, <1>2, <1>3, <1>4, <1>5 DEF Operation

LEMMA WrittenMoves ==
  ASSUME NEW p \in Player, NEW op \in Operation, NEW t \in Nat, NEW u \in Nat,
         Allowed(op, p, t), ~Clamped(op)
  PROVE  LET w == Written(op, p, t, u)
         IN  /\ CoinsMoved(op) \in Int /\ LivesMoved(op) \in Int
             /\ \A b \in Booster : BoosterMoved(op, b) \in Int
             /\ w.coins = p.coins + CoinsMoved(op)
             /\ w.lives = ApplyRegen(p, t).lives + LivesMoved(op)
             /\ \A b \in Booster : w.boosters[b] = p.boosters[b] + BoosterMoved(op, b)
             /\ w.runs = p.runs + IF op.type = "settle" THEN 1 ELSE 0
<1> DEFINE q == ApplyRegen(p, t)
           r == Effect(op, t, q)
           s == [r EXCEPT !.updatedAt = u]
<1>1. q \in Player /\ r \in Player /\ Permits(op, q)
  BY RegenKeepsPlayer, EffectIsPlayer DEF Allowed
<1>2. q.coins = p.coins /\ q.boosters = p.boosters /\ q.runs = p.runs
  BY RegenKeepsRest
<1>3. Written(op, p, t, u) = Stored(s)
  BY DEF Written
<1> HIDE DEF q
<1>4. /\ CoinsMoved(op) \in Int /\ LivesMoved(op) \in Int
      /\ \A b \in Booster : BoosterMoved(op, b) \in Int
      /\ r.coins = q.coins + CoinsMoved(op)
      /\ r.lives = q.lives + LivesMoved(op)
      /\ \A b \in Booster : r.boosters[b] = q.boosters[b] + BoosterMoved(op, b)
      /\ r.runs = q.runs + IF op.type = "settle" THEN 1 ELSE 0
  BY <1>1, EffectMoves
<1> HIDE DEF r
<1>5. /\ Stored(s).coins = r.coins /\ Stored(s).lives = r.lives
      /\ Stored(s).boosters = r.boosters /\ Stored(s).runs = r.runs
  BY <1>1 DEF Stored, Player
<1> HIDE DEF s
<1> QED BY <1>2, <1>3, <1>4, <1>5 DEF q

(* Lives that came from nowhere but the clock, as they are stored. *)
Gift == profile.lives - MaxLives - SumFunction(LivesOf)
(* They never outrun the stamp, where there is one. *)
GiftInv ==
  Linear =>
    /\ Gift >= 0
    /\ Backend = "memory" /\ LifeRegen > 0 => Gift * LifeRegen <= profile.livesUpdatedAt - 1
    /\ Backend = "dynamodb" \/ LifeRegen = 0 => Gift = 0

BInv == IsFiniteSet(applied) /\ BooksBalance /\ GiftInv

(* No step changes what an applied request carried. *)
LEMMA OpsStay ==
  ASSUME PInv, [ProfileNext]_profileVars
  PROVE  \A g \in applied : mut'[g].op = mut[g].op
<1>0. mut \in [Request -> MutateCall] /\ applied \subseteq Request
  BY DEF PInv, ProfileTypeOK
<1>1. ASSUME NEW h \in Request, NEW op \in Workload, Call(h, op)
      PROVE  \A g \in applied : mut'[g].op = mut[g].op
  <2>1. h \notin applied
    BY <1>1 DEF Call, PInv, SnapshotCoherent, Coherent
  <2> QED BY <1>0, <1>1, <2>1 DEF Call
<1>2. ASSUME NEW h \in Request, NEW answered \in BOOLEAN, Update(h, answered)
      PROVE  \A g \in applied : mut'[g].op = mut[g].op
  BY <1>0, <1>2 DEF Update, Return, Leave, Idle
<1>3. ASSUME NEW h \in Request, Get(h) \/ UpdateConflict(h) \/ CallFails(h)
      PROVE  \A g \in applied : mut'[g].op = mut[g].op
  BY <1>0, <1>3, QuietSteps
<1>4. CASE Tick \/ UNCHANGED profileVars
  BY <1>4 DEF Tick, profileVars
<1> QED BY <1>1, <1>2, <1>3, <1>4 DEF ProfileNext, MutateStep

(* A step that applies nothing leaves the books alone. *)
LEMMA BooksRest ==
  ASSUME PInv, BInv, [ProfileNext]_profileVars, UNCHANGED <<profile, applied>>
  PROVE  BInv'
<1>1. \A g \in applied : mut'[g].op = mut[g].op
  BY OpsStay
<1>2. /\ CoinsOf' = CoinsOf /\ LivesOf' = LivesOf
      /\ \A b \in Booster : BoostersOf(b)' = BoostersOf(b)
      /\ Settled' = Settled /\ Linear' = Linear
  BY <1>1 DEF CoinsOf, LivesOf, BoostersOf, Settled, Linear
<1>3. (BooksBalance <=> (Linear =>
        /\ profile.coins = StartingCoins + SumFunction(CoinsOf)
        /\ \A b \in Booster : profile.boosters[b] = 1 + SumFunction(BoostersOf(b))
        /\ profile.runs = Cardinality(Settled)))
  BY DEF BooksBalance, CoinsOf, BoostersOf, Settled
<1>4. (BooksBalance' <=> (Linear' =>
        /\ profile'.coins = StartingCoins + SumFunction(CoinsOf')
        /\ \A b \in Booster : profile'.boosters[b] = 1 + SumFunction(BoostersOf(b)')
        /\ profile'.runs = Cardinality(Settled')))
  BY DEF BooksBalance, CoinsOf, BoostersOf, Settled
<1>5. BooksBalance'
  <2>1. /\ SumFunction(CoinsOf') = SumFunction(CoinsOf) /\ Cardinality(Settled') = Cardinality(Settled)
        /\ \A b \in Booster : SumFunction(BoostersOf(b)') = SumFunction(BoostersOf(b))
    BY <1>2, Zenon
  <2> QED BY <1>2, <1>3, <1>4, <2>1 DEF BInv
<1>6. GiftInv'
  <2>1. Gift' = Gift
    BY <1>2, Zenon DEF Gift
  <2> QED BY <1>2, <2>1 DEF BInv, GiftInv
<1> QED BY <1>5, <1>6 DEF BInv

LEMMA MovedIsInt ==
  ASSUME NEW op \in Operation
  PROVE  /\ CoinsMoved(op) \in Int /\ LivesMoved(op) \in Int
         /\ \A b \in Booster : BoosterMoved(op, b) \in Int
<1> USE DEF CoinsMoved, LivesMoved, BoosterMoved
<1>1. CASE op \in Purchase
  <2>1. op.type = "purchase" /\ Price(op.item) \in Nat
    BY <1>1 DEF Purchase, Price, Item, Booster
  <2> QED BY <2>1
<1>2. CASE op \in Start
  BY <1>2 DEF Start
<1>3. CASE op \in Settle
  BY <1>3 DEF Settle
<1>4. CASE op \in Credit
  BY <1>4 DEF Credit
<1>5. CASE op \in Grant
  BY <1>5 DEF Grant
<1> QED BY <1>1, <1>2, <1>3, <1>4, <1>5 DEF Operation

(* A sum over one request more. *)
LEMMA OneMore ==
  ASSUME NEW S, IsFiniteSet(S), NEW h, h \notin S, NEW f, NEW g,
         DOMAIN f = S, DOMAIN g = S \cup {h},
         \A x \in S : f[x] \in Int /\ g[x] = f[x], g[h] \in Int
  PROVE  SumFunction(g) = SumFunction(f) + g[h] /\ SumFunction(f) \in Int
<1>1. /\ SumFunctionOnSet(g, S \cup {h}) = SumFunctionOnSet(f, S) + g[h]
      /\ SumFunctionOnSet(f, S) \in Int
  BY SumGrows
<1>2. SumFunction(g) = SumFunctionOnSet(g, S \cup {h}) /\ SumFunction(f) = SumFunctionOnSet(f, S)
  BY Zenon DEF SumFunction
<1> QED BY <1>1, <1>2

(* Regeneration only adds, one life per period the stamp moved on. *)
LEMMA RegenAdds ==
  ASSUME NEW p \in Player, NEW t \in Nat
  PROVE  LET q == ApplyRegen(p, t)
         IN  /\ q.lives >= p.lives
             /\ ~Running(p) => q.lives = p.lives
             /\ Running(p) => (q.lives - p.lives) * LifeRegen <= q.livesUpdatedAt - p.livesUpdatedAt
<1> DEFINE q == ApplyRegen(p, t)
           g == Gained(p, t)
<1>0. p.lives \in 0..MaxLives /\ p.livesUpdatedAt \in Nat
  BY DEF Player
<1>1. CASE ~Running(p)
  <2>1. q = p \/ q = [p EXCEPT !.livesUpdatedAt = t]
    BY <1>1, RegenCases
  <2>2. q.lives = p.lives
    BY <2>1 DEF Player
  <2> QED BY <1>0, <1>1, <2>2
<1>2. CASE Running(p)
  <2>0. LifeRegen \in Nat \ {0} /\ t - p.livesUpdatedAt \in Int
    BY <1>0, <1>2 DEF Running
  <2>1. /\ g \in Int
        /\ g <= 0 => q = p
        /\ g > 0 /\ p.lives + g >= MaxLives => q = [p EXCEPT !.lives = MaxLives, !.livesUpdatedAt = t]
        /\ g > 0 /\ p.lives + g < MaxLives =>
             q = [p EXCEPT !.lives = p.lives + g, !.livesUpdatedAt = p.livesUpdatedAt + g * LifeRegen]
    BY <1>2, RegenCases
  <2>2. g * LifeRegen <= t - p.livesUpdatedAt
    BY <2>0, Periods DEF Gained
  <2> HIDE DEF g
  <2>3. CASE g <= 0
    BY <1>0, <2>0, <2>1, <2>3
  <2>4. CASE g > 0 /\ p.lives + g >= MaxLives
    <3>1. q = [p EXCEPT !.lives = MaxLives, !.livesUpdatedAt = t]
      BY <2>1, <2>4
    <3>2. q.lives = MaxLives /\ q.livesUpdatedAt = t
      <4> HIDE DEF q
      <4> QED BY <3>1 DEF Player
    <3> DEFINE k == MaxLives - p.lives
    <3>3. k \in Nat /\ k <= g
      BY <1>0, <2>1, <2>4
    <3> HIDE DEF k
    <3>4. k * LifeRegen <= g * LifeRegen
      <4>1. g - k \in Nat /\ (g - k) * LifeRegen \in Nat
        BY <2>0, <2>1, <3>3
      <4>2. (g - k) * LifeRegen = g * LifeRegen - k * LifeRegen
        BY <2>0, <2>1, <3>3
      <4>3. g * LifeRegen \in Int /\ k * LifeRegen \in Int
        BY <2>0, <2>1, <3>3
      <4> QED BY <4>1, <4>2, <4>3
    <3>5. g * LifeRegen \in Int /\ k * LifeRegen \in Int
      BY <2>0, <2>1, <3>3
    <3>6. (q.lives - p.lives) * LifeRegen <= q.livesUpdatedAt - p.livesUpdatedAt
      BY <1>0, <2>0, <2>2, <3>2, <3>4, <3>5 DEF k
    <3> QED BY <1>0, <1>2, <3>2, <3>6
  <2>5. CASE g > 0 /\ p.lives + g < MaxLives
    <3>1. q = [p EXCEPT !.lives = p.lives + g, !.livesUpdatedAt = p.livesUpdatedAt + g * LifeRegen]
      BY <2>1, <2>5
    <3>2. q.lives = p.lives + g /\ q.livesUpdatedAt = p.livesUpdatedAt + g * LifeRegen
      <4> HIDE DEF q
      <4> QED BY <3>1 DEF Player
    <3>3. q.lives - p.lives = g /\ g * LifeRegen \in Int
      BY <1>0, <2>0, <2>1, <3>2
    <3>4. (q.lives - p.lives) * LifeRegen <= q.livesUpdatedAt - p.livesUpdatedAt
      <4>1. q.livesUpdatedAt - p.livesUpdatedAt = g * LifeRegen
        BY <1>0, <3>2, <3>3
      <4> QED BY <3>3, <4>1
    <3> QED BY <1>0, <1>2, <2>1, <2>5, <3>2, <3>4
  <2> QED BY <1>0, <2>1, <2>3, <2>4, <2>5
<1> QED BY <1>1, <1>2

(* The stamp never goes back. *)
LEMMA StampAdvances ==
  ASSUME NEW p \in Player, NEW t \in Nat, p.livesUpdatedAt \in 1..t
  PROVE  ApplyRegen(p, t).livesUpdatedAt \in p.livesUpdatedAt..t
<1> DEFINE q == ApplyRegen(p, t)
<1>0. /\ p.lives \in Int /\ p.livesUpdatedAt \in Nat /\ q.livesUpdatedAt \in 1..t
      /\ q \in Player /\ q.lives \in Int /\ q.livesUpdatedAt \in Nat
  <2>1. q \in Player /\ q.livesUpdatedAt \in 1..t
    BY RegenKeepsPlayer, RegenStamps
  <2> HIDE DEF q
  <2> QED BY <2>1 DEF Player
<1>1. CASE ~Running(p)
  <2>1. q = p \/ q = [p EXCEPT !.livesUpdatedAt = t]
    BY <1>1, RegenCases
  <2>2. q.livesUpdatedAt \in {p.livesUpdatedAt, t}
    <3> HIDE DEF q
    <3> QED BY <2>1 DEF Player
  <2> QED BY <1>0, <2>2
<1>2. CASE Running(p)
  <2>1. /\ q.lives >= p.lives /\ LifeRegen \in Nat
        /\ (q.lives - p.lives) * LifeRegen <= q.livesUpdatedAt - p.livesUpdatedAt
    BY <1>2, RegenAdds
  <2> DEFINE k == q.lives - p.lives
  <2>2. k \in Nat /\ k * LifeRegen <= q.livesUpdatedAt - p.livesUpdatedAt
    BY <1>0, <2>1
  <2> HIDE DEF k
  <2>3. k * LifeRegen \in Nat
    BY <2>1, <2>2
  <2>4. q.livesUpdatedAt >= p.livesUpdatedAt
    <3> HIDE DEF q
    <3> QED BY <1>0, <2>2, <2>3
  <2> QED BY <1>0, <2>4
<1> QED BY <1>1, <1>2

LEMMA WrittenStampIs ==
  ASSUME NEW p \in Player, NEW op \in Operation, NEW t \in Nat, NEW u \in Nat,
         Allowed(op, p, t), Backend = "memory"
  PROVE  Written(op, p, t, u).livesUpdatedAt \in {ApplyRegen(p, t).livesUpdatedAt, t}
<1> DEFINE q == ApplyRegen(p, t)
           r == Effect(op, t, q)
<1>1. r \in Player /\ q \in Player
  BY EffectIsPlayer, RegenKeepsPlayer
<1>2. r.livesUpdatedAt \in {q.livesUpdatedAt, t}
  BY <1>1, EffectStamps
<1>3. Written(op, p, t, u) = [r EXCEPT !.updatedAt = u]
  BY DEF Written, Stored
<1> HIDE DEF q, r
<1>4. Written(op, p, t, u).livesUpdatedAt = r.livesUpdatedAt
  BY <1>1, <1>3 DEF Player
<1> QED BY <1>2, <1>4 DEF q

(* The request that takes effect: everything moves by what it carried. *)
LEMMA UpdateBooks ==
  ASSUME PInv, ClockInv, BInv, NEW h \in Request, NEW answered \in BOOLEAN, Update(h, answered)
  PROVE  BInv'
<1> DEFINE op == mut[h].op
           at == mut[h].at
           q == ApplyRegen(profile, at)
<1>1. /\ h \notin applied /\ op \in Operation /\ at \in 1..now /\ now \in Nat /\ at \in Nat
      /\ Allowed(op, profile, at) /\ profile' = Written(op, profile, at, now)
      /\ profile \in Player /\ profile' \in Player /\ applied' = applied \cup {h}
      /\ now' = now
  <2>1. /\ h \notin applied /\ op \in Workload /\ at \in 1..now
        /\ Allowed(op, profile, at) /\ profile' = Written(op, profile, at, now) /\ profile' \in Player
    BY UpdateFacts
  <2>2. now \in Nat /\ profile \in Player /\ applied' = applied \cup {h} /\ now' = now
    BY DEF PInv, ProfileTypeOK, Update
  <2> HIDE DEF op, at
  <2> QED BY <2>1, <2>2
<1>2. IsFiniteSet(applied) /\ IsFiniteSet(applied')
  BY <1>1, FS_AddElement DEF BInv
<1>3. \A g \in applied' : mut'[g].op = mut[g].op
  BY DEF Update, Return, Leave, Idle, PInv, ProfileTypeOK
<1>4. \A g \in applied : mut[g].op \in Operation
  <2> SUFFICES ASSUME NEW g \in applied PROVE mut[g].op \in Operation
    OBVIOUS
  <2>1. g \in Request /\ mut[g].pc # "idle"
    BY DEF PInv, ProfileTypeOK, SnapshotCoherent, Coherent
  <2> QED BY <2>1 DEF PInv, SnapshotCoherent, Coherent
<1>5. SUFFICES ASSUME Linear' PROVE BooksBalance' /\ GiftInv'
  BY <1>2 DEF BInv, BooksBalance, GiftInv
<1>6. Linear /\ ~Clamped(op)
  BY <1>1, <1>3, <1>5 DEF Linear
<1>7. /\ profile'.coins = profile.coins + CoinsMoved(op)
      /\ profile'.lives = q.lives + LivesMoved(op)
      /\ \A b \in Booster : profile'.boosters[b] = profile.boosters[b] + BoosterMoved(op, b)
      /\ profile'.runs = profile.runs + IF op.type = "settle" THEN 1 ELSE 0
  BY <1>1, <1>6, WrittenMoves
<1>8. /\ CoinsOf'[h] = CoinsMoved(op) /\ LivesOf'[h] = LivesMoved(op)
      /\ \A b \in Booster : BoostersOf(b)'[h] = BoosterMoved(op, b)
  BY <1>1, <1>3 DEF CoinsOf, LivesOf, BoostersOf
<1>9. \A g \in applied : /\ CoinsOf'[g] = CoinsOf[g] /\ LivesOf'[g] = LivesOf[g]
                          /\ \A b \in Booster : BoostersOf(b)'[g] = BoostersOf(b)[g]
  BY <1>1, <1>3 DEF CoinsOf, LivesOf, BoostersOf
<1>10. \A g \in applied : /\ CoinsOf[g] \in Int /\ LivesOf[g] \in Int
                           /\ \A b \in Booster : BoostersOf(b)[g] \in Int
  BY <1>4, MovedIsInt DEF CoinsOf, LivesOf, BoostersOf
<1>11. /\ DOMAIN CoinsOf = applied /\ DOMAIN CoinsOf' = applied'
       /\ DOMAIN LivesOf = applied /\ DOMAIN LivesOf' = applied'
       /\ \A b \in Booster : DOMAIN BoostersOf(b) = applied /\ DOMAIN BoostersOf(b)' = applied'
  BY DEF CoinsOf, LivesOf, BoostersOf
<1>12. CoinsMoved(op) \in Int /\ LivesMoved(op) \in Int /\ \A b \in Booster : BoosterMoved(op, b) \in Int
  BY <1>1, MovedIsInt
<1> HIDE DEF op, at, q
<1>13. SumFunction(CoinsOf') = SumFunction(CoinsOf) + CoinsMoved(op) /\ SumFunction(CoinsOf) \in Int
  <2> DEFINE f == CoinsOf
             g == CoinsOf'
  <2>1. /\ DOMAIN f = applied /\ DOMAIN g = applied \cup {h} /\ g[h] = CoinsMoved(op)
        /\ \A x \in applied : f[x] \in Int /\ g[x] = f[x]
    BY <1>1, <1>8, <1>9, <1>10, <1>11
  <2> HIDE DEF f, g
  <2>2. SumFunction(g) = SumFunction(f) + g[h] /\ SumFunction(f) \in Int
    BY <1>1, <1>2, <1>12, <2>1, OneMore
  <2> QED BY <2>1, <2>2 DEF f, g
<1>14. SumFunction(LivesOf') = SumFunction(LivesOf) + LivesMoved(op) /\ SumFunction(LivesOf) \in Int
  <2> DEFINE f == LivesOf
             g == LivesOf'
  <2>1. /\ DOMAIN f = applied /\ DOMAIN g = applied \cup {h} /\ g[h] = LivesMoved(op)
        /\ \A x \in applied : f[x] \in Int /\ g[x] = f[x]
    BY <1>1, <1>8, <1>9, <1>10, <1>11
  <2> HIDE DEF f, g
  <2>2. SumFunction(g) = SumFunction(f) + g[h] /\ SumFunction(f) \in Int
    BY <1>1, <1>2, <1>12, <2>1, OneMore
  <2> QED BY <2>1, <2>2 DEF f, g
<1>15. ASSUME NEW b \in Booster
       PROVE  /\ SumFunction(BoostersOf(b)') = SumFunction(BoostersOf(b)) + BoosterMoved(op, b)
              /\ SumFunction(BoostersOf(b)) \in Int
  <2> DEFINE f == BoostersOf(b)
             g == BoostersOf(b)'
  <2>1. /\ DOMAIN f = applied /\ DOMAIN g = applied \cup {h} /\ g[h] = BoosterMoved(op, b)
        /\ \A x \in applied : f[x] \in Int /\ g[x] = f[x]
    BY <1>1, <1>8, <1>9, <1>10, <1>11
  <2> HIDE DEF f, g
  <2>2. SumFunction(g) = SumFunction(f) + g[h] /\ SumFunction(f) \in Int
    <3>1. g[h] \in Int
      BY <1>12, <2>1
    <3> QED BY <1>1, <1>2, <2>1, <3>1, OneMore
  <2>3. SumFunction(g) = SumFunction(f) + BoosterMoved(op, b) /\ SumFunction(f) \in Int
    BY <2>1, <2>2
  <2> QED BY <2>3, Zenon DEF f, g
<1>16. Cardinality(Settled') = Cardinality(Settled) + IF op.type = "settle" THEN 1 ELSE 0
  <2>1. IsFiniteSet(Settled) /\ h \notin Settled
    BY <1>1, <1>2, FS_Subset DEF Settled
  <2>2. Settled' = IF op.type = "settle" THEN Settled \cup {h} ELSE Settled
    BY <1>1, <1>3 DEF Settled, op
  <2>3. Cardinality(Settled) \in Nat
    BY <2>1, FS_CardinalityType
  <2>4. CASE op.type = "settle"
    <3>1. Settled' = Settled \cup {h}
      BY <2>2, <2>4
    <3>2. Cardinality(Settled \cup {h}) = Cardinality(Settled) + 1
      BY <2>1, FS_AddElement
    <3>3. Cardinality(Settled') = Cardinality(Settled \cup {h})
      BY <3>1, Zenon
    <3> QED BY <2>4, <3>2, <3>3
  <2>5. CASE op.type # "settle"
    <3>1. Settled' = Settled
      BY <2>2, <2>5
    <3>2. Cardinality(Settled') = Cardinality(Settled)
      BY <3>1, Zenon
    <3> QED BY <2>3, <2>5, <3>2
  <2> QED BY <2>4, <2>5
<1>17. /\ profile.coins = StartingCoins + SumFunction(CoinsOf)
       /\ \A b \in Booster : profile.boosters[b] = 1 + SumFunction(BoostersOf(b))
       /\ profile.runs = Cardinality(Settled)
  BY <1>6, Zenon DEF BInv, BooksBalance, CoinsOf, BoostersOf, Settled
<1>18. BooksBalance'
  <2>1. profile'.coins = StartingCoins + SumFunction(CoinsOf')
    BY <1>7, <1>12, <1>13, <1>17 DEF StartingCoins
  <2>2. \A b \in Booster : profile'.boosters[b] = 1 + SumFunction(BoostersOf(b)')
    BY <1>7, <1>12, <1>15, <1>17
  <2>3. profile'.runs = Cardinality(Settled')
    BY <1>7, <1>16, <1>17
  <2> QED BY <2>1, <2>2, <2>3, Zenon DEF BooksBalance, CoinsOf, BoostersOf, Settled
<1>19. /\ q \in Player /\ q.lives \in Int /\ profile.lives \in Int /\ Gift \in Int
       /\ q.livesUpdatedAt \in Nat /\ profile.livesUpdatedAt \in Nat /\ profile'.livesUpdatedAt \in Nat
  <2>1. q \in Player
    BY <1>1, RegenKeepsPlayer DEF q
  <2> QED BY <1>1, <1>14, <2>1 DEF Player, Gift
<1>20. Gift' = Gift + (q.lives - profile.lives)
  BY <1>7, <1>12, <1>14, <1>19 DEF Gift
<1>21. /\ q.lives >= profile.lives
       /\ ~Running(profile) => q.lives = profile.lives
       /\ Running(profile) =>
            (q.lives - profile.lives) * LifeRegen <= q.livesUpdatedAt - profile.livesUpdatedAt
  BY <1>1, RegenAdds DEF q
<1>22. Backend = "memory" => /\ q.livesUpdatedAt <= profile'.livesUpdatedAt
                             /\ profile.livesUpdatedAt <= q.livesUpdatedAt
                             /\ profile.livesUpdatedAt >= 1
  <2> SUFFICES ASSUME Backend = "memory"
               PROVE  /\ q.livesUpdatedAt <= profile'.livesUpdatedAt
                      /\ profile.livesUpdatedAt <= q.livesUpdatedAt
                      /\ profile.livesUpdatedAt >= 1
    OBVIOUS
  <2>1. profile.updatedAt <= at /\ profile.updatedAt \in Nat
    <3>1. mut[h].pc = "update" /\ mut[h].read = profile
      BY DEF Update, PInv, SnapshotCoherent, Coherent
    <3> QED BY <1>1, <3>1 DEF ClockInv, at, Player
  <2>2. profile.livesUpdatedAt \in 1..at
    BY <1>1, <1>19, <2>1 DEF ClockInv
  <2>3. q.livesUpdatedAt \in profile.livesUpdatedAt..at
    BY <1>1, <2>2, StampAdvances DEF q
  <2>4. profile'.livesUpdatedAt \in {q.livesUpdatedAt, at}
    BY <1>1, WrittenStampIs DEF q
  <2> QED BY <1>1, <1>19, <2>2, <2>3, <2>4
<1>23. GiftInv'
  <2> DEFINE k == q.lives - profile.lives
  <2>1. k \in Nat /\ Gift' = Gift + k
    BY <1>19, <1>20, <1>21
  <2>2. /\ Gift >= 0
        /\ Backend = "memory" /\ LifeRegen > 0 => Gift * LifeRegen <= profile.livesUpdatedAt - 1
        /\ Backend = "dynamodb" \/ LifeRegen = 0 => Gift = 0
    BY <1>6 DEF BInv, GiftInv
  <2>3. ~Running(profile) => k = 0
    BY <1>19, <1>21
  <2>4. Running(profile) => k * LifeRegen <= q.livesUpdatedAt - profile.livesUpdatedAt
    BY <1>21
  <2>5. Backend = "dynamodb" \/ LifeRegen = 0 => ~Running(profile)
    BY DEF Running, ClockInv
  <2> HIDE DEF k
  <2>6. Backend = "memory" /\ LifeRegen > 0 => Gift' * LifeRegen <= profile'.livesUpdatedAt - 1
    <3> SUFFICES ASSUME Backend = "memory", LifeRegen > 0
                 PROVE  Gift' * LifeRegen <= profile'.livesUpdatedAt - 1
      OBVIOUS
    <3>1. Gift * LifeRegen \in Int /\ k * LifeRegen \in Int /\ LifeRegen \in Nat
      BY <1>19, <2>1
    <3>2. Gift' * LifeRegen = Gift * LifeRegen + k * LifeRegen
      BY <1>19, <2>1, <3>1
    <3>3. k * LifeRegen <= q.livesUpdatedAt - profile.livesUpdatedAt
      <4>1. CASE ~Running(profile)
        <5>1. k * LifeRegen = 0
          BY <2>3, <3>1, <4>1
        <5> QED BY <1>19, <1>22, <5>1
      <4> QED BY <2>4, <4>1
    <3> QED BY <1>19, <1>22, <2>2, <3>1, <3>2, <3>3
  <2>7. Gift' >= 0 /\ (Backend = "dynamodb" \/ LifeRegen = 0 => Gift' = 0)
    BY <1>19, <2>1, <2>2, <2>3, <2>5
  <2> QED BY <2>6, <2>7 DEF GiftInv
<1> QED BY <1>18, <1>23

LEMMA InitBooks == ProfileInit => BInv
<1> SUFFICES ASSUME ProfileInit PROVE BInv
  OBVIOUS
<1>1. applied = {} /\ profile = Stored(NewPlayer(1))
  BY DEF ProfileInit
<1>2. IsFiniteSet(applied)
  BY <1>1, FS_EmptySet
<1>3. ASSUME NEW f, DOMAIN f = {} PROVE SumFunction(f) = 0
  <2>1. SumFunctionOnSet(f, {}) = 0
    BY FS_EmptySet, SumUnfold
  <2>2. SumFunction(f) = SumFunctionOnSet(f, {})
    BY <1>3, Zenon DEF SumFunction
  <2> QED BY <2>1, <2>2
<1>4. DOMAIN CoinsOf = {} /\ DOMAIN LivesOf = {} /\ \A b \in Booster : DOMAIN BoostersOf(b) = {}
  BY <1>1 DEF CoinsOf, LivesOf, BoostersOf
<1>5. /\ SumFunction(CoinsOf) = 0 /\ SumFunction(LivesOf) = 0
      /\ \A b \in Booster : SumFunction(BoostersOf(b)) = 0
  BY <1>3, <1>4
<1>6. Cardinality(Settled) = 0
  <2>1. Settled = {}
    BY <1>1 DEF Settled
  <2>2. Cardinality(Settled) = Cardinality({})
    BY <2>1, Zenon
  <2> QED BY <2>2, FS_EmptySet
<1>7. /\ profile.coins = StartingCoins /\ profile.lives = MaxLives /\ profile.runs = 0
      /\ \A b \in Booster : profile.boosters[b] = 1
      /\ Backend = "memory" => profile.livesUpdatedAt = 1
  BY <1>1 DEF Stored, NewPlayer, ZeroTime
<1>8. BooksBalance
  <2>1. /\ profile.coins = StartingCoins + SumFunction(CoinsOf)
        /\ \A b \in Booster : profile.boosters[b] = 1 + SumFunction(BoostersOf(b))
        /\ profile.runs = Cardinality(Settled)
    BY <1>5, <1>6, <1>7 DEF StartingCoins
  <2> QED BY <2>1, Zenon DEF BooksBalance, CoinsOf, BoostersOf, Settled
<1>9. GiftInv
  BY <1>5, <1>7 DEF GiftInv, Gift
<1> QED BY <1>2, <1>8, <1>9 DEF BInv

LEMMA StepBooks == PInv /\ ClockInv /\ BInv /\ [ProfileNext]_profileVars => BInv'
<1> SUFFICES ASSUME PInv, ClockInv, BInv, [ProfileNext]_profileVars PROVE BInv'
  OBVIOUS
<1>1. ASSUME NEW h \in Request, NEW answered \in BOOLEAN, Update(h, answered) PROVE BInv'
  BY <1>1, UpdateBooks
<1>2. ASSUME NEW h \in Request, Get(h) \/ UpdateConflict(h) \/ CallFails(h)
      PROVE  UNCHANGED <<profile, applied>>
  BY <1>2 DEF Get, UpdateConflict, CallFails
<1>3. ASSUME NEW h \in Request, NEW op \in Workload, Call(h, op)
      PROVE  UNCHANGED <<profile, applied>>
  BY <1>3 DEF Call
<1>4. CASE Tick \/ UNCHANGED profileVars
  BY <1>4, BooksRest DEF Tick, profileVars
<1> QED BY <1>1, <1>2, <1>3, <1>4, BooksRest DEF ProfileNext, MutateStep

LEMMA BooksInvariant == ProfileSpec => [](PInv /\ ClockInv /\ BInv)
BY InitPInv, StepPInv, InitClockInv, StepClockInv, InitBooks, StepBooks, PTL DEF ProfileSpec

(* Coins, boosters and statistics are what the requests that took effect      *)
(* moved, for any number of requests and retries: no update is lost and none *)
(* applied twice (player.Service.Mutate, Players.Update).                   *)
THEOREM BooksAlwaysBalance == ProfileSpec => []BooksBalance
BY BooksInvariant, PTL DEF BInv

(* With either adapter and any period, regeneration has given at most one life *)
(* per period since the account was created, and has taken none back         *)
(* (player.ApplyRegen, run by every Mutate).                                *)
THEOREM RegenWithinClock == ProfileSpec => []RegenNeverOutrunsClock
<1>1. PInv /\ ClockInv /\ BInv => RegenNeverOutrunsClock
  <2> SUFFICES ASSUME PInv, ClockInv, BInv, Linear
               PROVE  /\ Regenerated >= 0
                      /\ LifeRegen > 0 => Regenerated * LifeRegen <= now - 1
                      /\ LifeRegen = 0 => Regenerated = 0
    BY DEF RegenNeverOutrunsClock
  <2> DEFINE q == ApplyRegen(profile, now)
             k == q.lives - profile.lives
  <2>1. /\ profile \in Player /\ now \in Nat /\ now >= 1 /\ q \in Player
        /\ q.lives >= profile.lives
        /\ ~Running(profile) => q.lives = profile.lives
        /\ Running(profile) => k * LifeRegen <= q.livesUpdatedAt - profile.livesUpdatedAt
    <3>1. profile \in Player /\ now \in Nat /\ now >= 1
      BY DEF PInv, ProfileTypeOK
    <3> QED BY <3>1, RegenKeepsPlayer, RegenAdds
  <2>2. /\ profile.lives \in Int /\ q.lives \in Int /\ profile.livesUpdatedAt \in Nat
        /\ q.livesUpdatedAt \in Nat /\ k \in Nat
    <3>1. profile.lives \in Int /\ q.lives \in Int /\ profile.livesUpdatedAt \in Nat /\ q.livesUpdatedAt \in Nat
      <4> HIDE DEF q
      <4> QED BY <2>1 DEF Player
    <3> QED BY <2>1, <3>1
  <2>3. /\ Gift >= 0
        /\ Backend = "memory" /\ LifeRegen > 0 => Gift * LifeRegen <= profile.livesUpdatedAt - 1
        /\ Backend = "dynamodb" \/ LifeRegen = 0 => Gift = 0
    BY DEF BInv, GiftInv
  <2>4. SumFunction(LivesOf) \in Int /\ Gift \in Int
    <3>1. \A g \in applied : mut[g].op \in Operation
      BY DEF PInv, ProfileTypeOK, SnapshotCoherent, Coherent
    <3>2. \A g \in applied : LivesOf[g] \in Int
      BY <3>1, MovedIsInt DEF LivesOf
    <3>3. SumFunctionOnSet(LivesOf, applied) \in Int
      BY <3>2, SumIsInt DEF BInv
    <3>4. SumFunction(LivesOf) = SumFunctionOnSet(LivesOf, applied)
      <4>1. DOMAIN LivesOf = applied
        BY DEF LivesOf
      <4> QED BY <4>1, Zenon DEF SumFunction
    <3> QED BY <2>2, <3>3, <3>4 DEF Gift
  <2>5. Regenerated = Gift + k
    <3>1. Regenerated = q.lives - MaxLives - SumFunction(LivesOf)
      BY Zenon DEF Regenerated, View, LivesOf
    <3> QED BY <2>2, <2>4, <3>1 DEF Gift
  <2>6. Backend = "memory" => /\ profile.livesUpdatedAt >= 1
                             /\ profile.livesUpdatedAt <= now /\ q.livesUpdatedAt <= now
    <3> SUFFICES ASSUME Backend = "memory"
                 PROVE  /\ profile.livesUpdatedAt >= 1
                        /\ profile.livesUpdatedAt <= now /\ q.livesUpdatedAt <= now
      OBVIOUS
    <3>1. profile.livesUpdatedAt \in 1..now
      <4>1. profile.updatedAt \in Nat
        BY <2>1 DEF Player
      <4> QED BY <2>1, <2>2, <4>1 DEF ClockInv
    <3>2. q.livesUpdatedAt \in 1..now
      BY <2>1, <3>1, RegenStamps
    <3> QED BY <2>1, <2>2, <3>1, <3>2
  <2>7. Backend = "dynamodb" \/ LifeRegen = 0 => k = 0
    <3>1. Backend = "dynamodb" \/ LifeRegen = 0 => ~Running(profile)
      BY DEF Running, ClockInv
    <3> QED BY <2>1, <2>2, <3>1
  <2> HIDE DEF k, q
  <2>8. LifeRegen > 0 => Regenerated * LifeRegen <= now - 1
    <3> SUFFICES ASSUME LifeRegen > 0 PROVE Regenerated * LifeRegen <= now - 1
      OBVIOUS
    <3>1. Gift * LifeRegen \in Int /\ k * LifeRegen \in Int
      BY <2>2, <2>4
    <3>2. Regenerated * LifeRegen = Gift * LifeRegen + k * LifeRegen
      BY <2>2, <2>4, <2>5
    <3>3. CASE Backend = "memory"
      <4>1. k * LifeRegen <= now - profile.livesUpdatedAt
        <5>1. CASE ~Running(profile)
          <6>1. k = 0
            BY <2>1, <2>2, <5>1 DEF k
          <6> QED BY <2>1, <2>2, <2>6, <3>1, <3>3, <6>1
        <5>2. CASE Running(profile)
          BY <2>1, <2>2, <2>6, <3>1, <3>3, <5>2
        <5> QED BY <5>1, <5>2
      <4> QED BY <2>1, <2>2, <2>3, <3>1, <3>2, <3>3, <4>1
    <3>4. CASE Backend = "dynamodb"
      BY <2>1, <2>3, <2>7, <3>1, <3>2, <3>4
    <3> QED BY <3>3, <3>4
  <2> QED BY <2>2, <2>3, <2>4, <2>5, <2>7, <2>8
<1> QED BY <1>1, BooksInvariant, PTL
=============================================================================
