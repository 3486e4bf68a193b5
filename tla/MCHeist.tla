-------------------------------- MODULE MCHeist --------------------------------
(* One player's heist.  FinishPlan: the finish is sent twice under the key    *)
(* the client keeps for it, with different replays, while a purchase without  *)
(* a key competes for the version.  ClaimPlan: the same for two claims, which *)
(* race the settlement they are paid from.  StartPlan: a start and its retry. *)
EXTENDS HeistPromises

CONSTANTS s1, s2, f1, f2, c1, c2, p1

FewCoins == [score |-> 400, loot |-> 1]
ManyCoins == [score |-> 2500, loot |-> 3]

StartWith(boosters) ==
  [kind |-> "start", key |-> "start-key",
   op |-> [type |-> "start", uses |-> boosters, livesCost |-> 1]]
StartHeist == StartWith({"shield"})
Finish(result) == [kind |-> "finish", key |-> "run-key", run |-> s1, result |-> result]
Claim == [kind |-> "claim", key |-> "claim-key", run |-> s1]
Unprotected(request) == [request EXCEPT !.key = NoKey]
Buy == [kind |-> "purchase", key |-> NoKey, op |-> [type |-> "purchase", item |-> "shield"]]

FinishPlan ==
  [h \in {s1, f1, f2, p1} |->
     CASE h = s1 -> StartHeist
       [] h = f1 -> Finish(FewCoins)
       [] h = f2 -> Finish(ManyCoins)
       [] h = p1 -> Buy]
FinishRequest == DOMAIN FinishPlan

ClaimPlan ==
  [h \in {s1, f1, c1, c2} |->
     CASE h = s1 -> Unprotected(StartHeist)
       [] h = f1 -> Unprotected(Finish(ManyCoins))
       [] h \in {c1, c2} -> Claim]
ClaimRequest == DOMAIN ClaimPlan

StartPlan == [h \in {s1, s2} |-> StartWith({})]
StartRequest == DOMAIN StartPlan

MCWorkload ==
  {StartHeist.op, StartWith({}).op, Buy.op} \cup
  {SettleOp(r) : r \in {FewCoins, ManyCoins}} \cup
  {CreditOp(RunLootCoins(r.score)) : r \in {FewCoins, ManyCoins}}
=============================================================================
