------------------------------ MODULE PlayerRules ------------------------------
(***************************************************************************)
(* What a request does to one player's profile, as pure functions of the   *)
(* profile that was read: life regeneration and the decision functions     *)
(* every service hands to player.Service.Mutate.  No state lives here; the *)
(* optimistic-concurrency protocol that applies these functions is in      *)
(* Profile, and the promise it makes in Ledger.                            *)
(*                                                                         *)
(* Time is a count of ticks; tick 0 is Go's zero time.Time.                *)
(***************************************************************************)
EXTENDS Integers

CONSTANTS
  MaxLives,     \* experiment.MaxLives of the player's group: 5 or 7
  LifeRegen,    \* LIFE_REGEN in ticks; 0 switches regeneration off
  Backend       \* STORAGE: which adapter keeps the profile

ASSUME RulesAssumption ==
  /\ MaxLives \in Nat \ {0}
  /\ LifeRegen \in Nat
  /\ Backend \in {"memory", "dynamodb"}

Booster == {"extra_moves", "shield"}
Item == Booster \cup {"life"}
ZeroTime == 0
StartingCoins == 500

Larger(a, b) == IF a > b THEN a ELSE b
Smaller(a, b) == IF a < b THEN a ELSE b

(* domain.Player, without identity and display fields. *)
Player ==
  [coins : Nat, lives : 0..MaxLives, livesUpdatedAt : Nat, boosters : [Booster -> Nat],
   runs : Nat, totalLoot : Nat, bestScore : Nat, updatedAt : Nat]

NewPlayer(now) ==
  [coins |-> StartingCoins, lives |-> MaxLives, livesUpdatedAt |-> now,
   boosters |-> [b \in Booster |-> 1],
   runs |-> 0, totalLoot |-> 0, bestScore |-> 0, updatedAt |-> now]

-----------------------------------------------------------------------------
(* The profile as the adapter gives it back.  The in-memory store clones the *)
(* struct.  The DynamoDB store writes json.Marshal(player), and              *)
(* LivesUpdatedAt is tagged json:"-", so it always reads back as zero.       *)
Stored_Truncated(p) == [p EXCEPT !.livesUpdatedAt = ZeroTime]
Stored(p) ==
  IF Backend = "dynamodb" THEN [p EXCEPT !.livesUpdatedAt = ZeroTime] ELSE p

(* player.ApplyRegen: whole periods since the stamp become lives, the stamp  *)
(* keeps the remainder, and a full profile has no clock running.             *)
ApplyRegen_DropsRemainder(p, now) ==
  LET gained == (now - p.livesUpdatedAt) \div LifeRegen
  IN  IF LifeRegen = 0 THEN p
      ELSE IF p.lives >= MaxLives \/ p.livesUpdatedAt = ZeroTime
        THEN [p EXCEPT !.livesUpdatedAt = now]
      ELSE [p EXCEPT !.lives = Smaller(MaxLives, @ + gained), !.livesUpdatedAt = now]
ApplyRegen_KeepsStamp(p, now) ==
  IF LifeRegen = 0 THEN p
  ELSE IF p.lives >= MaxLives \/ p.livesUpdatedAt = ZeroTime
    THEN [p EXCEPT !.livesUpdatedAt = now]
  ELSE [p EXCEPT !.lives =
          Smaller(MaxLives, @ + ((now - p.livesUpdatedAt) \div LifeRegen))]
ApplyRegen(p, now) ==
  LET gained == (now - p.livesUpdatedAt) \div LifeRegen
  IN  IF LifeRegen = 0 THEN p
      ELSE IF p.lives >= MaxLives \/ p.livesUpdatedAt = ZeroTime
        THEN [p EXCEPT !.livesUpdatedAt = now]
      ELSE IF gained <= 0 THEN p
      ELSE IF p.lives + gained >= MaxLives
        THEN [p EXCEPT !.lives = MaxLives, !.livesUpdatedAt = now]
      ELSE [p EXCEPT !.lives = @ + gained, !.livesUpdatedAt = @ + gained * LifeRegen]

(* player.Service.View: the profile a reader is shown at time now. *)
View(p, now) == ApplyRegen(p, now)

-----------------------------------------------------------------------------
(* The operations that reach Mutate. *)
Purchase == [type : {"purchase"}, item : Item]
Start    == [type : {"start"}, uses : SUBSET Booster, livesCost : 0..5]
Settle   == [type : {"settle"}, score : Nat, loot : Nat]
Credit   == [type : {"credit"}, coins : Nat, boosters : [Booster -> Nat]]
Grant    == [type : {"grant"}, coins : Int, lives : Int, boosters : [Booster -> Int]]
Operation == Purchase \cup Start \cup Settle \cup Credit \cup Grant

Price(item) ==
  CASE item = "extra_moves" -> 300
    [] item = "shield"      -> 450
    [] item = "life"        -> 200

(* The early returns of the decision functions: all of them answer 4xx. *)
Permits_NoPrice(op, p) ==
  /\ op.type = "purchase" => (op.item = "life" => p.lives < MaxLives)
  /\ op.type = "start" => /\ p.lives >= op.livesCost
                          /\ \A b \in op.uses : p.boosters[b] > 0
Permits(op, p) ==
  /\ op.type = "purchase" => /\ p.coins >= Price(op.item)
                             /\ op.item = "life" => p.lives < MaxLives
  /\ op.type = "start" => /\ p.lives >= op.livesCost
                          /\ \A b \in op.uses : p.boosters[b] > 0

PurchaseEffect(op, p) ==
  LET paid == [p EXCEPT !.coins = @ - Price(op.item)]
  IN  IF op.item = "life" THEN [paid EXCEPT !.lives = @ + 1]
      ELSE [paid EXCEPT !.boosters[op.item] = @ + 1]

(* Leaving full lives restarts the regeneration clock. *)
StartEffect(op, now, p) ==
  [p EXCEPT !.livesUpdatedAt = IF p.lives = MaxLives /\ op.livesCost > 0 THEN now ELSE @,
            !.lives = @ - op.livesCost,
            !.boosters = [b \in Booster |-> IF b \in op.uses THEN @[b] - 1 ELSE @[b]]]

SettleEffect(op, p) ==
  [p EXCEPT !.runs = @ + 1, !.totalLoot = @ + op.loot, !.bestScore = Larger(@, op.score)]

CreditEffect(op, p) ==
  [p EXCEPT !.coins = @ + op.coins, !.boosters = [b \in Booster |-> @[b] + op.boosters[b]]]

(* An operator's grant may be negative; every balance is clamped. *)
GrantEffect(op, p) ==
  [p EXCEPT !.coins = Larger(0, @ + op.coins),
            !.lives = Larger(0, Smaller(MaxLives, @ + op.lives)),
            !.boosters = [b \in Booster |-> Larger(0, @[b] + op.boosters[b])]]

Effect(op, now, p) ==
  CASE op.type = "purchase" -> PurchaseEffect(op, p)
    [] op.type = "start"    -> StartEffect(op, now, p)
    [] op.type = "settle"   -> SettleEffect(op, p)
    [] op.type = "credit"   -> CreditEffect(op, p)
    [] op.type = "grant"    -> GrantEffect(op, p)

(* What Mutate writes when it read p at time at and the write lands at now. *)
Allowed(op, p, at) == Permits(op, ApplyRegen(p, at))
Written(op, p, at, now) ==
  Stored([Effect(op, at, ApplyRegen(p, at)) EXCEPT !.updatedAt = now])
=============================================================================
