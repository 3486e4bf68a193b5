------------------------------ MODULE ProfileBooks ------------------------------
(***************************************************************************)
(* Accounting over Profile: the stored balances are what the requests that *)
(* took effect say they are, and life regeneration neither runs ahead of   *)
(* the clock nor falls behind it.                                          *)
(***************************************************************************)
EXTENDS Profile, Functions

CoinsMoved(op) ==
  CASE op.type = "purchase" -> 0 - Price(op.item)
    [] op.type \in {"credit", "grant"} -> op.coins
    [] OTHER -> 0

BoosterMoved(op, b) ==
  CASE op.type = "purchase" -> IF op.item = b THEN 1 ELSE 0
    [] op.type = "start" -> IF b \in op.uses THEN -1 ELSE 0
    [] op.type \in {"credit", "grant"} -> op.boosters[b]
    [] OTHER -> 0

LivesMoved(op) ==
  CASE op.type = "purchase" -> IF op.item = "life" THEN 1 ELSE 0
    [] op.type = "start" -> 0 - op.livesCost
    [] OTHER -> 0

(* A grant that takes away is clamped at zero, and one of lives at MaxLives, *)
(* so it has no fixed effect on the books.                                   *)
Clamped(op) ==
  /\ op.type = "grant"
  /\ op.coins < 0 \/ op.lives # 0 \/ \E b \in Booster : op.boosters[b] < 0

Linear == \A h \in applied : ~Clamped(mut[h].op)

(* Coins, boosters and run statistics are exactly what the requests that     *)
(* took effect moved: Mutate loses no update and applies none twice, whatever *)
(* conflicts and retries there were (player.Service.Mutate, Players.Update).  *)
BooksBalance ==
  Linear =>
    /\ profile.coins = StartingCoins + SumFunction([h \in applied |-> CoinsMoved(mut[h].op)])
    /\ \A b \in Booster :
         profile.boosters[b] = 1 + SumFunction([h \in applied |-> BoosterMoved(mut[h].op, b)])
    /\ profile.runs = Cardinality({h \in applied : mut[h].op.type = "settle"})

(* Lives a reader is shown that came from nowhere but the clock. *)
Regenerated ==
  View(profile, now).lives - MaxLives - SumFunction([h \in applied |-> LivesMoved(mut[h].op)])

(* Regeneration gives at most one life per LifeRegen since the account was  *)
(* created and takes none back, however many mutations recompute it         *)
(* (ApplyRegen run on every Mutate).                                        *)
RegenNeverOutrunsClock ==
  Linear => /\ Regenerated >= 0
            /\ LifeRegen > 0 => Regenerated * LifeRegen <= now - 1
            /\ LifeRegen = 0 => Regenerated = 0

(* A profile nobody has written for LifeRegen per missing life shows full   *)
(* lives: the stored stamp never lets the clock of a resting player start   *)
(* over (ApplyRegen, Start's "regeneration clock starts when leaving full"). *)
FullAfterRest ==
  (LifeRegen > 0 /\ now - profile.updatedAt >= LifeRegen * (MaxLives - profile.lives))
    => View(profile, now).lives = MaxLives

(* "Replaying it on read and on write agrees" (ApplyRegen): persisting the  *)
(* regenerated profile at any earlier moment since the last write would     *)
(* show the same lives now, so a write never costs a player the part of a   *)
(* life already waited for.                                                 *)
ReplayAgrees ==
  \A t \in profile.updatedAt..now :
    View(Stored(ApplyRegen(profile, t)), now).lives = View(profile, now).lives
=============================================================================
