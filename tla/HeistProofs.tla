------------------------------ MODULE HeistProofs ------------------------------
(***************************************************************************)
(* Proofs about Heist, for any plan of requests and any faults: the        *)
(* handlers use the profile only through Mutate, so that what ProfileProofs *)
(* says of Profile holds of the whole API; then the safety promises of     *)
(* module HeistPromises.                                                   *)
(***************************************************************************)
EXTENDS HeistPromises, ProfileProofs

LEMMA DeadlinesAreTimes == EndsAt \in Nat /\ RunTTL \in Nat /\ Grace \in Nat
BY HeistAssumption, Zenon

USE RulesAssumption, ProfileAssumption, HeistAssumption

(* Where a request can stand: only a finish that got past the validation     *)
(* chain settles, only a request with a key meets the idempotency store, and *)
(* nobody has a role before it was served.                                  *)
InPlace(h, c) ==
  /\ c.pc \in {"settle", "grant"} => Plan[h].kind = "finish" /\ Plan[h].result # Invalid
  /\ c.pc \in {"begin", "lookup"} \/ c.role = "owner" => Plan[h].key # NoKey
  /\ c.pc \in {"new", "begin", "lookup"} => c.role = "none"
CallsInPlace == \A h \in Request : InPlace(h, call[h])

(* A reward has the amount of some accepted finish of its run. *)
Worth(r, coins) ==
  \E f \in Request : /\ Plan[f].kind = "finish" /\ Plan[f].result # Invalid /\ Plan[f].run = r
                     /\ coins = RunLootCoins(Plan[f].result.score)
RewardsAreWorth == \A r \in Request : rewards[r].status # "none" => Worth(r, rewards[r].coins)

HInv == HeistTypeOK /\ CallsInPlace /\ RewardsAreWorth

-----------------------------------------------------------------------------
(* What the constants are. *)

LEMMA PlanTyped ==
  ASSUME NEW h \in Request
  PROVE  /\ Plan[h].kind \in {"start", "finish", "claim", "purchase"}
         /\ Plan[h].key \in STRING
         /\ Plan[h].key # NoKey => Plan[h].key \in Key
         /\ Plan[h].kind \in {"start", "purchase"} => Plan[h].op \in Workload
         /\ Plan[h].kind = "finish" => /\ Plan[h].run \in Request
                                       /\ Plan[h].result \in Result \cup {Invalid}
         /\ Plan[h].kind = "claim" => Plan[h].run \in Request
<1>1. Plan[h] \in HttpRequest
  OBVIOUS
<1>2. Plan[h].kind \in {"start", "purchase"} => Plan[h].op \in Workload
  OBVIOUS
<1>3. Plan[h].key # NoKey => Plan[h].key \in Key
  BY DEF Key
<1> QED BY <1>1, <1>2, <1>3 DEF HttpRequest

LEMMA FinishOps ==
  ASSUME NEW f \in Request, Plan[f].kind = "finish", Plan[f].result # Invalid
  PROVE  /\ SettleOp(Plan[f].result) \in Workload
         /\ CreditOp(RunLootCoins(Plan[f].result.score)) \in Workload
         /\ Plan[f].result \in Result
         /\ RunLootCoins(Plan[f].result.score) \in Nat
<1>1. Plan[f].result \in Result
  BY PlanTyped
<1>2. \A n \in Nat : RunLootCoins(n) \in Nat
  BY DEF RunLootCoins, Larger
<1>3. Plan[f].result.score \in Nat
  BY <1>1 DEF Result
<1> QED BY <1>1, <1>2, <1>3

-----------------------------------------------------------------------------
(* Which action writes which variable. *)

LEMMA RunsFrame ==
  ASSUME [HeistNext]_heistVars
  PROVE  \/ runs' = runs
         \/ \E h \in Request, answered \in BOOLEAN : StartPut(h, answered) \/ FinishSettle(h, answered)
BY DEF HeistNext, heistVars, heistOnly, Send, Serve, Middleware, Handler, BeginAcquired, BeginTaken,
       Lookup, LookupGone, BeginFails, Complete, Abort, ReplyOnly, PurchaseServe, StartRefused,
       StartCharge, FinishRefused, FinishLoad, FinishLost, FinishGrant, FinishGrantUnanswered,
       ClaimFlip, ClaimFlipUnanswered, ClaimRefused, StoreFails, HandlerMutates, Passes

LEMMA RewardsFrame ==
  ASSUME [HeistNext]_heistVars
  PROVE  \/ rewards' = rewards
         \/ \E h \in Request : \/ FinishGrant(h) \/ FinishGrantUnanswered(h)
                               \/ ClaimFlip(h) \/ ClaimFlipUnanswered(h)
BY DEF HeistNext, heistVars, heistOnly, Send, Serve, Middleware, Handler, BeginAcquired, BeginTaken,
       Lookup, LookupGone, BeginFails, Complete, Abort, ReplyOnly, PurchaseServe, StartRefused,
       StartCharge, StartPut, FinishSettle, FinishRefused, FinishLoad, FinishLost,
       ClaimRefused, StoreFails, HandlerMutates, Passes

LEMMA IdemFrame ==
  ASSUME [HeistNext]_heistVars
  PROVE  \/ idem' = idem
         \/ \E h \in Request : \/ BeginAcquired(h) \/ Complete(h) \/ Abort(h)
                               \/ \E reserved \in BOOLEAN : BeginFails(h, reserved)
BY DEF HeistNext, heistVars, heistOnly, Send, Serve, Middleware, Handler, BeginTaken,
       Lookup, LookupGone, ReplyOnly, PurchaseServe, StartRefused,
       StartCharge, StartPut, FinishSettle, FinishRefused, FinishLoad, FinishLost,
       FinishGrant, FinishGrantUnanswered, ClaimFlip, ClaimFlipUnanswered,
       ClaimRefused, StoreFails, HandlerMutates, Passes

-----------------------------------------------------------------------------
(* Heist drives Profile: every step is a step of Profile or leaves it alone. *)

LEMMA ProfileFrame ==
  ASSUME HInv, [HeistNext]_heistVars
  PROVE  [ProfileNext]_profileVars
<1>1. ASSUME NEW h \in Request, PurchaseServe(h) \/ StartCharge(h)
      PROVE  ProfileNext
  <2>1. Plan[h].op \in Workload
    BY <1>1, PlanTyped DEF PurchaseServe, StartCharge, At
  <2> QED BY <1>1, <2>1 DEF PurchaseServe, StartCharge, ProfileNext
<1>2. ASSUME NEW h \in Request, FinishGrant(h)
      PROVE  ProfileNext
  <2>1. Plan[h].kind = "finish" /\ Plan[h].result # Invalid
    BY <1>2 DEF FinishGrant, HInv, CallsInPlace, InPlace
  <2> QED BY <1>2, <2>1, FinishOps DEF FinishGrant, ProfileNext
<1>3. ASSUME NEW h \in Request, ClaimFlip(h)
      PROVE  ProfileNext
  <2>1. Plan[h].run \in Request /\ rewards[Plan[h].run].status # "none"
    BY <1>3, PlanTyped DEF ClaimFlip, At
  <2>2. Worth(Plan[h].run, rewards[Plan[h].run].coins)
    BY <2>1 DEF HInv, RewardsAreWorth
  <2>3. CreditOp(rewards[Plan[h].run].coins) \in Workload
    BY <2>2, FinishOps DEF Worth
  <2> QED BY <1>3, <2>3 DEF ClaimFlip, ProfileNext
<1>4. ASSUME NEW h \in Request, HandlerMutates(h)
      PROVE  ProfileNext
  BY <1>4 DEF HandlerMutates, ProfileNext
<1>5. CASE Passes
  BY <1>5 DEF Passes, ProfileNext
<1>6. CASE UNCHANGED heistVars
  BY <1>6 DEF heistVars
<1>7. ASSUME NEW h \in Request, Send(h) \/ Middleware(h)
      PROVE  UNCHANGED profileVars
  BY <1>7 DEF Send, Middleware, BeginAcquired, BeginTaken, Lookup, LookupGone, BeginFails,
              Complete, Abort, ReplyOnly
<1>8. ASSUME NEW h \in Request, Handler(h),
             ~(PurchaseServe(h) \/ StartCharge(h) \/ FinishGrant(h) \/ ClaimFlip(h)
               \/ HandlerMutates(h))
      PROVE  UNCHANGED profileVars
  BY <1>8 DEF Handler, StartRefused, StartPut, FinishSettle, FinishRefused, FinishLoad,
              FinishLost, FinishGrantUnanswered, ClaimFlipUnanswered, ClaimRefused, StoreFails
<1> QED BY <1>1, <1>2, <1>3, <1>4, <1>5, <1>6, <1>7, <1>8 DEF HeistNext, Serve

-----------------------------------------------------------------------------
(* Types and the two facts about handlers, variable by variable. *)

LEMMA RunsTyped ==
  ASSUME PInv, HInv, [HeistNext]_heistVars
  PROVE  runs' \in [Request -> RunState]
<1>1. runs \in [Request -> RunState] /\ call \in [Request -> CallState]
  BY DEF HInv, HeistTypeOK
<1>2. ASSUME NEW h \in Request, NEW answered \in BOOLEAN, StartPut(h, answered)
      PROVE  runs' \in [Request -> RunState]
  <2>1. call[h].at \in Nat
    BY <1>1 DEF CallState
  <2>2. NewRun(call[h].at) \in RunState
    BY <2>1 DEF NewRun, RunState, Smaller
  <2> QED BY <1>1, <1>2, <2>2 DEF StartPut
<1>3. ASSUME NEW h \in Request, NEW answered \in BOOLEAN, FinishSettle(h, answered)
      PROVE  runs' \in [Request -> RunState]
  <2>1. Plan[h].run \in Request /\ Plan[h].result \in Result
    BY <1>3, PlanTyped, FinishOps DEF FinishSettle, HInv, CallsInPlace, InPlace
  <2> QED BY <1>1, <1>3, <2>1 DEF FinishSettle, RunState
<1> QED BY <1>1, <1>2, <1>3, RunsFrame

LEMMA RewardsTyped ==
  ASSUME HInv, [HeistNext]_heistVars
  PROVE  rewards' \in [Request -> RewardState] /\ RewardsAreWorth'
<1>1. rewards \in [Request -> RewardState] /\ RewardsAreWorth
  BY DEF HInv, HeistTypeOK
<1>2. ASSUME NEW h \in Request, FinishGrant(h) \/ FinishGrantUnanswered(h)
      PROVE  rewards' \in [Request -> RewardState] /\ RewardsAreWorth'
  <2> DEFINE r == Plan[h].run
             coins == RunLootCoins(Plan[h].result.score)
  <2>1. /\ Plan[h].kind = "finish" /\ Plan[h].result # Invalid
        /\ r \in Request /\ coins \in Nat
    BY <1>2, PlanTyped, FinishOps DEF FinishGrant, FinishGrantUnanswered, HInv, CallsInPlace, InPlace
  <2>2. Worth(r, coins)
    BY <2>1 DEF Worth
  <2>3. /\ Granted(h) \in RewardState
        /\ Worth(r, Granted(h).coins)
    <3>1. CASE rewards[r].status = "none"
      BY <2>1, <2>2, <3>1 DEF Granted, RewardState
    <3>2. CASE rewards[r].status # "none"
      BY <1>1, <2>1, <3>2 DEF Granted, RewardsAreWorth
    <3> QED BY <3>1, <3>2
  <2>4. rewards' = [rewards EXCEPT ![r] = Granted(h)]
    BY <1>2 DEF FinishGrant, FinishGrantUnanswered
  <2> HIDE DEF r, coins
  <2>5. rewards' \in [Request -> RewardState]
    BY <1>1, <2>3, <2>4
  <2>6. ASSUME NEW q \in Request, rewards'[q].status # "none" PROVE Worth(q, rewards'[q].coins)
    BY <1>1, <2>1, <2>3, <2>4, <2>6 DEF RewardsAreWorth
  <2> QED BY <2>5, <2>6 DEF RewardsAreWorth, Worth
<1>3. ASSUME NEW h \in Request, ClaimFlip(h) \/ ClaimFlipUnanswered(h)
      PROVE  rewards' \in [Request -> RewardState] /\ RewardsAreWorth'
  <2>1. /\ Plan[h].run \in Request /\ rewards[Plan[h].run].status = "PENDING"
        /\ rewards' = [rewards EXCEPT ![Plan[h].run].status = "CLAIMED"]
    BY <1>3, PlanTyped DEF ClaimFlip, ClaimFlipUnanswered, At
  <2>2. rewards' \in [Request -> RewardState]
    BY <1>1, <2>1 DEF RewardState
  <2>3. \A q \in Request : /\ rewards'[q].coins = rewards[q].coins
                           /\ rewards'[q].status # "none" => rewards[q].status # "none"
    BY <1>1, <2>1 DEF RewardState
  <2> QED BY <1>1, <2>2, <2>3 DEF RewardsAreWorth, Worth
<1>4. CASE rewards' = rewards
  BY <1>1, <1>4 DEF RewardsAreWorth, Worth
<1> QED BY <1>2, <1>3, <1>4, RewardsFrame

LEMMA OutcomeTyped ==
  ASSUME HInv, NEW h \in Request
  PROVE  Outcome(h) \in Answer \cup {"none"}
<1>1. call[h].status \in Answer \cup {"none"}
  BY DEF HInv, HeistTypeOK, CallState
<1> QED BY <1>1 DEF Outcome, Answer

LEMMA IdemTyped ==
  ASSUME HInv, [HeistNext]_heistVars
  PROVE  idem' \in [Key -> {"free", "in_progress", "ok", "refused"}]
<1>1. idem \in [Key -> {"free", "in_progress", "ok", "refused"}]
  BY DEF HInv, HeistTypeOK
<1>2. ASSUME NEW h \in Request, BeginAcquired(h) \/ Complete(h) \/ Abort(h)
      PROVE  idem' \in [Key -> {"free", "in_progress", "ok", "refused"}]
  BY <1>1, <1>2 DEF BeginAcquired, Complete, Abort
<1>3. ASSUME NEW h \in Request, NEW reserved \in BOOLEAN, BeginFails(h, reserved)
      PROVE  idem' \in [Key -> {"free", "in_progress", "ok", "refused"}]
  BY <1>1, <1>3 DEF BeginFails
<1> QED BY <1>1, <1>2, <1>3, IdemFrame

(* A request that moves on keeps both facts about calls. *)
CallsFine == call \in [Request -> CallState] /\ CallsInPlace

LEMMA MoveOn ==
  ASSUME CallsFine, NEW h \in Request, NEW c \in CallState, InPlace(h, c),
         call' = [call EXCEPT ![h] = c]
  PROVE  CallsFine'
<1>1. call' \in [Request -> CallState]
  BY DEF CallsFine
<1>2. \A g \in Request : call'[g] = call[g] \/ (g = h /\ call'[g] = c)
  BY DEF CallsFine
<1>3. \A g \in Request : InPlace(g, call'[g])
  BY <1>2 DEF CallsFine, CallsInPlace
<1> QED BY <1>1, <1>3 DEF CallsFine, CallsInPlace, InPlace

LEMMA DecideFine ==
  ASSUME CallsFine, NEW h \in Request, NEW answer \in Answer, Decide(h, answer) \/ End(h, answer)
  PROVE  CallsFine'
<1> DEFINE c(pc) == [call[h] EXCEPT !.pc = pc, !.status = answer, !.at = 0]
<1>1. call[h] \in CallState /\ 0 \in 0..MaxNow /\ InPlace(h, call[h])
  BY DEF CallsFine, CallsInPlace
<1>2. c("answer") \in CallState /\ c("done") \in CallState
  BY <1>1 DEF CallState, CallPc
<1>3. InPlace(h, c("answer")) /\ InPlace(h, c("done"))
  BY <1>1 DEF CallState, InPlace
<1>4. call' = [call EXCEPT ![h] = c("answer")] \/ call' = [call EXCEPT ![h] = c("done")]
  BY <1>1 DEF Decide, End, CallsFine
<1> HIDE DEF c
<1> QED BY <1>2, <1>3, <1>4, MoveOn

LEMMA GoFine ==
  ASSUME CallsFine, NEW h \in Request, NEW pc \in CallPc, Go(h, pc),
         InPlace(h, [call[h] EXCEPT !.pc = pc])
  PROVE  CallsFine'
<1> DEFINE c == [call[h] EXCEPT !.pc = pc]
<1>1. c \in CallState
  BY DEF CallsFine, CallState
<1>2. call' = [call EXCEPT ![h] = c]
  BY DEF Go, CallsFine
<1> HIDE DEF c
<1>3. InPlace(h, c)
  BY DEF c
<1> QED BY <1>1, <1>2, <1>3, MoveOn

LEMMA TakeRoleFine ==
  ASSUME CallsFine, NEW h \in Request, NEW role \in {"owner", "bare"}, Plan[h].key # NoKey,
         call' = [call EXCEPT ![h].pc = "serve", ![h].role = role]
  PROVE  CallsFine'
<1> DEFINE c == [call[h] EXCEPT !.pc = "serve", !.role = role]
<1>1. c \in CallState /\ InPlace(h, c)
  BY DEF CallsFine, CallState, CallPc, InPlace
<1>2. call' = [call EXCEPT ![h] = c]
  BY DEF CallsFine
<1> HIDE DEF c
<1> QED BY <1>1, <1>2, MoveOn

LEMMA SendFine ==
  ASSUME CallsFine, NEW h \in Request, Send(h)
  PROVE  CallsFine'
<1> DEFINE c == IF Plan[h].key = NoKey THEN [call[h] EXCEPT !.pc = "serve", !.role = "bare"]
                ELSE [call[h] EXCEPT !.pc = "begin"]
<1>1. call[h] \in CallState /\ InPlace(h, call[h]) /\ call[h].pc = "new"
  BY DEF CallsFine, CallsInPlace, Send
<1>2. c \in CallState /\ InPlace(h, c)
  BY <1>1 DEF CallState, CallPc, InPlace
<1>3. call' = [call EXCEPT ![h] = c]
  BY DEF CallsFine, Send
<1> HIDE DEF c
<1> QED BY <1>2, <1>3, MoveOn

LEMMA ChargeFine ==
  ASSUME CallsFine, ProfileTypeOK, NEW h \in Request, StartCharge(h)
  PROVE  CallsFine'
<1> DEFINE c == [call[h] EXCEPT !.pc = "mutate", !.at = now]
<1>1. call[h] \in CallState /\ InPlace(h, call[h]) /\ now \in 0..MaxNow
  BY DEF CallsFine, CallsInPlace, ProfileTypeOK
<1>2. c \in CallState /\ InPlace(h, c)
  BY <1>1 DEF CallState, CallPc, InPlace
<1>3. call' = [call EXCEPT ![h] = c]
  BY DEF CallsFine, StartCharge
<1> HIDE DEF c
<1> QED BY <1>2, <1>3, MoveOn

LEMMA MiddlewareFine ==
  ASSUME CallsFine, HInv, NEW h \in Request, Middleware(h)
  PROVE  CallsFine'
<1>0. call[h] \in CallState /\ InPlace(h, call[h])
  BY DEF CallsFine, CallsInPlace
<1>1. CASE BeginAcquired(h) \/ LookupGone(h) \/ \E reserved \in BOOLEAN : BeginFails(h, reserved)
  <2>1. Plan[h].key # NoKey
    BY <1>0, <1>1 DEF InPlace, BeginAcquired, LookupGone, BeginFails
  <2> QED BY <1>1, <2>1, TakeRoleFine DEF BeginAcquired, LookupGone, BeginFails
<1>2. CASE Complete(h) \/ Abort(h) \/ ReplyOnly(h)
  <2>1. \E answer \in Answer : End(h, answer)
    BY <1>2, OutcomeTyped DEF Complete, Abort, ReplyOnly, Answer
  <2> QED BY <2>1, DecideFine
<1>3. CASE BeginTaken(h) \/ Lookup(h)
  <2>1. call[h].pc \in {"begin", "lookup"} /\ Plan[h].key # NoKey /\ call[h].role = "none"
    BY <1>0, <1>3 DEF InPlace, BeginTaken, Lookup
  <2>2. idem[Plan[h].key] \in {"free", "in_progress", "ok", "refused"}
    BY <2>1, PlanTyped DEF HInv, HeistTypeOK
  <2>3. CASE FromRecord(h)
    <3>1. \E answer \in Answer : End(h, answer)
      BY <1>3, <2>2, <2>3 DEF BeginTaken, Lookup, FromRecord, Answer
    <3> QED BY <3>1, DecideFine
  <2>4. CASE Go(h, "lookup")
    <3>1. InPlace(h, [call[h] EXCEPT !.pc = "lookup"])
      BY <1>0, <2>1 DEF CallState, InPlace
    <3> QED BY <2>4, <3>1, GoFine DEF CallPc
  <2> QED BY <1>3, <2>3, <2>4 DEF BeginTaken, Lookup
<1> QED BY <1>1, <1>2, <1>3 DEF Middleware

LEMMA HandlerFine ==
  ASSUME CallsFine, ProfileTypeOK, NEW h \in Request, Handler(h)
  PROVE  CallsFine'
<1>0. call[h] \in CallState /\ InPlace(h, call[h])
  BY DEF CallsFine, CallsInPlace
<1>1. ASSUME NEW answer \in Answer, Decide(h, answer) PROVE CallsFine'
  BY <1>1, DecideFine
<1>2. CASE Go(h, "mutate")
  <2>1. InPlace(h, [call[h] EXCEPT !.pc = "mutate"])
    BY <1>0 DEF CallState, InPlace
  <2> QED BY <1>2, <2>1, GoFine DEF CallPc
<1>3. CASE FinishLoad(h)
  <2>1. InPlace(h, [call[h] EXCEPT !.pc = "settle"])
    BY <1>0, <1>3 DEF CallState, InPlace, FinishLoad, Finishable, At
  <2> QED BY <1>3, <2>1, GoFine DEF CallPc, FinishLoad
<1>4. ASSUME NEW answered \in BOOLEAN, FinishSettle(h, answered) PROVE CallsFine'
  <2>1. InPlace(h, [call[h] EXCEPT !.pc = "grant"])
    BY <1>0, <1>4 DEF CallState, InPlace, FinishSettle
  <2>2. Go(h, "grant") \/ Decide(h, "failed")
    BY <1>4 DEF FinishSettle, Proceed
  <2> QED BY <1>1, <2>1, <2>2, GoFine DEF CallPc, Answer
<1>5. CASE StartCharge(h)
  BY <1>5, ChargeFine
<1>6. CASE HandlerMutates(h)
  BY <1>6 DEF HandlerMutates, heistOnly, CallsFine, CallsInPlace, InPlace
<1>7. CASE PurchaseServe(h) \/ FinishGrant(h) \/ ClaimFlip(h)
  BY <1>2, <1>7 DEF PurchaseServe, FinishGrant, ClaimFlip
<1>8. ASSUME NEW answered \in BOOLEAN, StartPut(h, answered) PROVE CallsFine'
  BY <1>1, <1>8 DEF StartPut, Answer
<1>9. CASE \/ StartRefused(h) \/ FinishRefused(h) \/ FinishLost(h) \/ FinishGrantUnanswered(h)
           \/ ClaimFlipUnanswered(h) \/ ClaimRefused(h) \/ StoreFails(h)
  BY <1>1, <1>9 DEF StartRefused, FinishRefused, FinishLost, FinishGrantUnanswered,
                    ClaimFlipUnanswered, ClaimRefused, StoreFails, Answer
<1> QED BY <1>3, <1>4, <1>5, <1>6, <1>7, <1>8, <1>9 DEF Handler

LEMMA CallsTyped ==
  ASSUME PInv, HInv, [HeistNext]_heistVars
  PROVE  CallsFine'
<1>1. CallsFine /\ ProfileTypeOK
  BY DEF PInv, HInv, HeistTypeOK, CallsFine
<1>2. CASE call' = call
  BY <1>1, <1>2 DEF CallsFine, CallsInPlace, InPlace
<1>3. call' = call \/ \E h \in Request : Send(h) \/ Middleware(h) \/ Handler(h)
  BY DEF HeistNext, heistVars, heistOnly, Serve, Passes
<1> QED BY <1>1, <1>2, <1>3, SendFine, MiddlewareFine, HandlerFine

-----------------------------------------------------------------------------
(* The composed system. *)

LEMMA InitHInv == HeistInit => PInv /\ HInv
<1> SUFFICES ASSUME HeistInit PROVE PInv /\ HInv
  OBVIOUS
<1>1. PInv
  BY InitPInv DEF HeistInit
<1>2. NoRun \in RunState /\ NoReward \in RewardState /\ Waiting \in CallState
  BY DEF NoRun, NoReward, Waiting, RunState, RewardState, CallState, CallPc, Answer
<1>3. HeistTypeOK
  BY <1>2 DEF HeistInit, HeistTypeOK
<1>4. CallsInPlace /\ RewardsAreWorth
  BY DEF HeistInit, CallsInPlace, InPlace, RewardsAreWorth, Waiting, NoReward
<1> QED BY <1>1, <1>3, <1>4 DEF HInv

LEMMA StepHInv == PInv /\ HInv /\ [HeistNext]_heistVars => PInv' /\ HInv'
<1> SUFFICES ASSUME PInv, HInv, [HeistNext]_heistVars PROVE PInv' /\ HInv'
  OBVIOUS
<1>1. PInv'
  BY ProfileFrame, StepPInv
<1>2. HeistTypeOK'
  BY RunsTyped, RewardsTyped, IdemTyped, CallsTyped DEF HeistTypeOK, CallsFine
<1>3. CallsInPlace' /\ RewardsAreWorth'
  BY CallsTyped, RewardsTyped DEF CallsFine
<1> QED BY <1>1, <1>2, <1>3 DEF HInv

(* The state of runs, rewards, idempotency records and calls keeps its types *)
(* for any plan of requests (gameplay, reward, httpapi.idempotent).          *)
THEOREM HeistInvariant == HeistSpec => [](HeistTypeOK /\ PInv /\ HInv)
<1>1. HInv => HeistTypeOK
  BY DEF HInv
<1> QED BY <1>1, InitHInv, StepHInv, PTL DEF HeistSpec

(* Services touch the profile only through player.Service.Mutate: the whole  *)
(* API, projected on the profile, is a behaviour of Profile.                 *)
THEOREM HeistRunsProfile == HeistSpec => ProfileSpec
<1>1. HeistInit => ProfileInit
  BY DEF HeistInit
<1>2. PInv /\ HInv /\ [HeistNext]_heistVars => [ProfileNext]_profileVars
  BY ProfileFrame
<1> QED BY <1>1, <1>2, InitHInv, StepHInv, PTL DEF HeistSpec, ProfileSpec

(* Hence, with heists, claims and purchases interleaved at will, every       *)
(* request changes the profile at most once and atomically.                 *)
THEOREM HeistLinearizable == HeistSpec => Linearizable
BY HeistRunsProfile, MutateLinearizable, PTL

-----------------------------------------------------------------------------
(* The safety promises of the API (module HeistPromises).                   *)
HIDE HeistAssumption


(* A finish that won the settlement of its run, and a claim that flipped its *)
(* reward.                                                                 *)
Settler(h) == Plan[h].kind = "finish" /\ (call[h].pc = "grant" \/ mut[h].pc # "idle")
Claimer(h) == Plan[h].kind = "claim" /\ mut[h].pc # "idle"

RunOK(r) ==
  runs[r].status # "none" =>
    /\ Plan[r].kind = "start" /\ r \in applied
    /\ call[r].pc \in {"answer", "done"}
    /\ runs[r].expiresAt <= EndsAt + Grace

RewardOK(r) ==
  rewards[r].status # "none" =>
    /\ runs[r].status = "FINISHED"
    /\ rewards[r].coins = RunLootCoins(runs[r].result.score)

SettlerOK(h) ==
  Settler(h) =>
    /\ runs[Plan[h].run].status = "FINISHED"
    /\ runs[Plan[h].run].result = Plan[h].result
    /\ mut[h].pc # "idle" => rewards[Plan[h].run].status # "none"
    /\ \A g \in Request : Settler(g) /\ Plan[g].run = Plan[h].run => g = h

ClaimerOK(h) ==
  Claimer(h) =>
    /\ rewards[Plan[h].run].status = "CLAIMED"
    /\ mut[h].op = CreditOp(rewards[Plan[h].run].coins)
    /\ \A g \in Request : Claimer(g) /\ Plan[g].run = Plan[h].run => g = h

RecInv == \A h \in Request : RunOK(h) /\ RewardOK(h) /\ SettlerOK(h) /\ ClaimerOK(h)

OwnerOK(h) ==
  /\ Executing(h) => /\ idem[Plan[h].key] = "in_progress"
                     /\ \A g \in Request : Executing(g) /\ Plan[g].key = Plan[h].key => g = h
  /\ Succeeded(h) /\ call[h].pc = "done" =>
       /\ idem[Plan[h].key] # "free"
       /\ \A g \in Request : Executing(g) => Plan[g].key # Plan[h].key

Answered(c, k, status) ==
  \E g \in Request : /\ Plan[g].key = k /\ c[g].role = "owner" /\ c[g].pc = "done"
                     /\ c[g].status = status
KeyInv ==
  /\ \A h \in Request : OwnerOK(h)
  /\ \A h \in Request : call[h].role = "none" => call[h].pc \in {"new", "begin", "lookup", "done"}
  /\ \A k \in Key : idem[k] \in {"ok", "refused"} => Answered(call, k, idem[k])
  /\ \A h \in Request :
       call[h].pc = "done" /\ call[h].role = "none" /\ call[h].status # "busy"
         => Answered(call, Plan[h].key, call[h].status)

HonestOK(h) ==
  /\ call[h].pc \in {"new", "begin", "lookup", "serve"} => mut[h].pc = "idle"
  /\ mut[h].pc \in {"refused", "conflict"} => h \notin applied
  /\ mut[h].pc = "done" => h \in applied
  /\ call[h].pc \in {"answer", "done"} /\ call[h].role # "none" =>
       /\ call[h].status = "ok" =>
            h \in applied /\ (Plan[h].kind = "start" => runs[h].status # "none")
       /\ call[h].status = "refused" /\ Plan[h].kind \in {"start", "purchase"}
            => h \notin applied
HonestInv == \A h \in Request : HonestOK(h)

SInv == PInv /\ HInv /\ RecInv /\ KeyInv /\ HonestInv

-----------------------------------------------------------------------------
(* How the request that moves changes its own call, and no other. *)

LEMMA OthersStay ==
  ASSUME PInv, HInv, NEW h \in Request, Send(h) \/ Middleware(h) \/ Handler(h)
  PROVE  \A g \in Request \ {h} : call'[g] = call[g] /\ mut'[g] = mut[g] /\ (g \in applied' <=> g \in applied)
<1>1. call \in [Request -> CallState] /\ mut \in [Request -> MutateCall]
  BY DEF HInv, HeistTypeOK, PInv, ProfileTypeOK
<1>2. CASE Send(h)
  BY <1>1, <1>2 DEF Send, profileVars
<1>3. CASE Middleware(h)
  BY <1>1, <1>3 DEF Middleware, BeginAcquired, BeginTaken, Lookup, LookupGone, BeginFails, Complete, Abort,
     ReplyOnly, FromRecord, Go, End, profileVars
<1>4. CASE Handler(h)
  <2>1. ASSUME NEW op, Call(h, op) PROVE \A g \in Request \ {h} : mut'[g] = mut[g] /\ (g \in applied' <=> g \in applied)
    BY <1>1, <2>1 DEF Call
  <2>2. ASSUME MutateStep(h)
        PROVE  \A g \in Request \ {h} : mut'[g] = mut[g] /\ (g \in applied' <=> g \in applied)
    <3>1. Get(h) => \A g \in Request \ {h} : mut'[g] = mut[g] /\ applied' = applied
      BY <1>1 DEF Get
    <3>2. ASSUME NEW answered \in BOOLEAN, Update(h, answered)
          PROVE  \A g \in Request \ {h} : mut'[g] = mut[g] /\ (g \in applied' <=> g \in applied)
      BY <1>1, <3>2 DEF Update
    <3>3. UpdateConflict(h) => \A g \in Request \ {h} : mut'[g] = mut[g] /\ applied' = applied
      BY <1>1 DEF UpdateConflict
    <3>4. CallFails(h) => \A g \in Request \ {h} : mut'[g] = mut[g] /\ applied' = applied
      BY <1>1 DEF CallFails
    <3> QED
      BY <2>2, <3>1, <3>2, <3>3, <3>4 DEF MutateStep
  <2>3. ASSUME NEW answer, Decide(h, answer) \/ Go(h, answer)
        PROVE  \A g \in Request \ {h} : call'[g] = call[g]
    BY <1>1, <2>3 DEF Decide, Go
  <2>4. CASE PurchaseServe(h) \/ FinishGrant(h) \/ ClaimFlip(h)
    BY <2>1, <2>3, <2>4 DEF PurchaseServe, FinishGrant, ClaimFlip
  <2>5. CASE StartCharge(h)
    BY <1>1, <2>1, <2>5 DEF StartCharge
  <2>6. CASE HandlerMutates(h)
    BY <2>2, <2>6 DEF HandlerMutates, heistOnly
  <2>7. CASE \E answered \in BOOLEAN : StartPut(h, answered) \/ FinishSettle(h, answered)
    BY <2>3, <2>7 DEF StartPut, FinishSettle, Proceed, profileVars
  <2>8. CASE \/ StartRefused(h) \/ FinishRefused(h) \/ FinishLoad(h) \/ FinishLost(h)
             \/ FinishGrantUnanswered(h) \/ ClaimFlipUnanswered(h) \/ ClaimRefused(h) \/ StoreFails(h)
    BY <2>3, <2>8 DEF StartRefused, FinishRefused, FinishLoad, FinishLost, FinishGrantUnanswered,
       ClaimFlipUnanswered, ClaimRefused, StoreFails, profileVars
  <2> QED
    BY <1>4, <2>4, <2>5, <2>6, <2>7, <2>8 DEF Handler
<1> QED
  BY <1>2, <1>3, <1>4

(* Where the moving request goes. *)
LEMMA HereGoes ==
  ASSUME HInv, NEW h \in Request, NEW x
  PROVE  /\ Go(h, x) => call'[h] = [call[h] EXCEPT !.pc = x]
         /\ Decide(h, x) => call'[h] = [call[h] EXCEPT !.pc = "answer", !.status = x, !.at = 0]
         /\ End(h, x) => call'[h] = [call[h] EXCEPT !.pc = "done", !.status = x, !.at = 0]
<1>1. call \in [Request -> CallState]
  BY DEF HInv, HeistTypeOK
<1> QED
  BY <1>1 DEF Go, Decide, End

LEMMA CallHere ==
  ASSUME PInv, NEW h \in Request, NEW op, Call(h, op)
  PROVE  /\ mut[h].pc = "idle" /\ mut'[h].pc = "get" /\ mut'[h].op = op
         /\ applied' = applied
<1>1. mut \in [Request -> MutateCall]
  BY DEF PInv, ProfileTypeOK
<1>2. mut'[h] = [Idle EXCEPT !.pc = "get", !.op = op]
  BY <1>1 DEF Call
<1> QED
  BY <1>2 DEF Call, Idle

(* Mutate keeps its operation, and what it returns is what it did. *)
LEMMA MutateHere ==
  ASSUME PInv, NEW h \in Request, MutateStep(h)
  PROVE  /\ mut[h].pc # "idle" /\ mut'[h].pc # "idle" /\ mut'[h].op = mut[h].op
         /\ applied \subseteq applied'
         /\ h \notin applied
         /\ mut'[h].pc \in {"refused", "conflict"} => h \notin applied'
         /\ mut'[h].pc = "done" => h \in applied'
<1>1. /\ mut \in [Request -> MutateCall] /\ mut[h] \in MutateCall
      /\ mut[h].pc \in {"get", "update"} => h \notin applied
  BY DEF PInv, ProfileTypeOK, SnapshotCoherent, Coherent
<1>2. \A m, pc, attempt : /\ Leave(m, pc, attempt).pc = pc /\ Leave(m, pc, attempt).op = m.op
                          /\ Return(m, pc).pc = pc /\ Return(m, pc).op = m.op
  BY DEF Leave, Return, Idle
<1>3. CASE Get(h)
  <2>1. CASE Allowed(mut[h].op, profile, now)
    <3>1. mut'[h] = [mut[h] EXCEPT !.pc = "update", !.read = profile, !.readVersion = version, !.at = now]
      BY <1>1, <1>3, <2>1 DEF Get
    <3> QED
      BY <1>1, <1>3, <3>1 DEF Get, MutateCall
  <2>2. CASE ~Allowed(mut[h].op, profile, now)
    <3>1. mut'[h] = Return(mut[h], "refused")
      BY <1>1, <1>3, <2>2 DEF Get
    <3> QED
      BY <1>1, <1>2, <1>3, <3>1 DEF Get
  <2> QED
    BY <2>1, <2>2
<1>4. ASSUME NEW answered \in BOOLEAN, Update(h, answered)
      PROVE  /\ mut[h].pc = "update" /\ mut'[h].pc \in {"done", "failed"} /\ mut'[h].op = mut[h].op
             /\ applied' = applied \cup {h}
  <2>1. mut'[h] = Return(mut[h], IF answered THEN "done" ELSE "failed")
    BY <1>1, <1>4 DEF Update
  <2> QED
    BY <1>2, <1>4, <2>1 DEF Update
<1>5. CASE UpdateConflict(h)
  <2>1. \/ mut'[h] = Leave(mut[h], "get", mut[h].attempt + 1)
        \/ mut'[h] = Return(mut[h], "conflict")
    BY <1>1, <1>5 DEF UpdateConflict
  <2> QED
    BY <1>1, <1>2, <1>5, <2>1 DEF UpdateConflict
<1>6. CASE CallFails(h)
  <2>1. mut'[h] = Return(mut[h], "failed")
    BY <1>1, <1>6 DEF CallFails
  <2> QED
    BY <1>1, <1>2, <1>6, <2>1 DEF CallFails
<1> QED
  BY <1>1, <1>3, <1>4, <1>5, <1>6 DEF MutateStep

-----------------------------------------------------------------------------
(* Runs and rewards. *)

Ended == {"answer", "done"}

(* A step that writes neither runs nor rewards and lets nobody past a        *)
(* settlement.                                                             *)
StaysPut(g) ==
  /\ call'[g].pc = "grant" => call[g].pc = "grant"
  /\ call[g].pc \in Ended => call'[g].pc \in Ended
  /\ Plan[g].kind \in {"finish", "claim"} /\ mut'[g].pc # "idle"
       => mut[g].pc # "idle" /\ mut'[g].op = mut[g].op

LEMMA Unsettled ==
  ASSUME NEW g \in Request, StaysPut(g)
  PROVE  /\ Settler(g)' => Settler(g)
         /\ Claimer(g)' => Claimer(g) /\ mut'[g].op = mut[g].op
  BY DEF StaysPut, Settler, Claimer

LEMMA RecordsQuiet ==
  ASSUME RecInv, runs' = runs, rewards' = rewards, applied \subseteq applied',
         \A g \in Request : StaysPut(g)
  PROVE  RecInv'
<1> SUFFICES ASSUME NEW h \in Request PROVE (RunOK(h) /\ RewardOK(h) /\ SettlerOK(h) /\ ClaimerOK(h))'
  BY DEF RecInv
<1>0. RunOK(h) /\ RewardOK(h) /\ SettlerOK(h) /\ ClaimerOK(h) /\ StaysPut(h)
  BY DEF RecInv
<1>1. RunOK(h)'
  BY <1>0 DEF RunOK, StaysPut, Ended
<1>2. RewardOK(h)'
  BY <1>0 DEF RewardOK
<1>3. SettlerOK(h)'
  <2> SUFFICES ASSUME Settler(h)'
               PROVE  /\ runs[Plan[h].run].status = "FINISHED"
                      /\ runs[Plan[h].run].result = Plan[h].result
                      /\ mut'[h].pc # "idle" => rewards[Plan[h].run].status # "none"
                      /\ \A g \in Request : Settler(g)' /\ Plan[g].run = Plan[h].run => g = h
    BY DEF SettlerOK
  <2>1. Settler(h) /\ SettlerOK(h)
    BY <1>0, Unsettled
  <2>2. mut'[h].pc # "idle" => mut[h].pc # "idle"
    BY <1>0, <2>1 DEF StaysPut, Settler
  <2>3. \A g \in Request : Settler(g)' => Settler(g)
    BY Unsettled
  <2> QED
    BY <2>1, <2>2, <2>3 DEF SettlerOK
<1>4. ClaimerOK(h)'
  <2>1. \A g \in Request : Claimer(g)' => Claimer(g) /\ mut'[g].op = mut[g].op
    BY Unsettled
  <2> QED
    BY <1>0, <2>1 DEF ClaimerOK
<1> QED
  BY <1>1, <1>2, <1>3, <1>4

LEMMA OthersPut ==
  ASSUME PInv, HInv, NEW h \in Request, Send(h) \/ Middleware(h) \/ Handler(h)
  PROVE  \A g \in Request \ {h} : StaysPut(g)
  BY OthersStay DEF StaysPut

(* The six steps that write runs or rewards. *)
Writes(h) ==
  \/ \E answered \in BOOLEAN : StartPut(h, answered) \/ FinishSettle(h, answered)
  \/ FinishGrant(h) \/ FinishGrantUnanswered(h)
  \/ ClaimFlip(h) \/ ClaimFlipUnanswered(h)

LEMMA QuietHere ==
  ASSUME PInv, HInv, NEW h \in Request, Send(h) \/ Middleware(h) \/ Handler(h), ~Writes(h)
  PROVE  runs' = runs /\ rewards' = rewards /\ applied \subseteq applied' /\ StaysPut(h)
<1>0. call \in [Request -> CallState] /\ call[h] \in CallState
  BY DEF HInv, HeistTypeOK
<1>1. CASE Send(h)
  <2>1. call[h].pc = "new" /\ call'[h].pc \in {"serve", "begin"}
    BY <1>0, <1>1 DEF Send, CallState
  <2> QED
    BY <1>1, <2>1 DEF Send, profileVars, StaysPut, Ended
<1>2. CASE Middleware(h)
  <2>1. CASE BeginAcquired(h) \/ LookupGone(h) \/ \E reserved \in BOOLEAN : BeginFails(h, reserved)
    <3>1. call[h].pc \in {"begin", "lookup"} /\ call'[h].pc = "serve"
      BY <1>0, <2>1 DEF BeginAcquired, LookupGone, BeginFails, CallState
    <3> QED
      BY <2>1, <3>1 DEF BeginAcquired, LookupGone, BeginFails, profileVars, StaysPut, Ended
  <2>2. CASE BeginTaken(h) \/ Lookup(h)
    <3>1. FromRecord(h) => call'[h].pc = "done"
      BY <1>0 DEF FromRecord, End, CallState
    <3>2. Go(h, "lookup") => call'[h].pc = "lookup"
      BY <1>0 DEF Go, CallState
    <3>3. call[h].pc \in {"begin", "lookup"} /\ call'[h].pc \in {"done", "lookup"}
      BY <2>2, <3>1, <3>2 DEF BeginTaken, Lookup
    <3> QED
      BY <2>2, <3>3 DEF BeginTaken, Lookup, profileVars, StaysPut, Ended
  <2>3. CASE Complete(h) \/ Abort(h) \/ ReplyOnly(h)
    <3>1. ASSUME NEW answer, End(h, answer) PROVE call'[h].pc = "done"
      BY <1>0, <3>1 DEF End, CallState
    <3>2. call'[h].pc = "done"
      BY <2>3, <3>1 DEF Complete, Abort, ReplyOnly
    <3> QED
      BY <2>3, <3>2 DEF Complete, Abort, ReplyOnly, profileVars, StaysPut, Ended
  <2> QED
    BY <1>2, <2>1, <2>2, <2>3 DEF Middleware
<1>3. CASE Handler(h)
  <2>1. CASE PurchaseServe(h) \/ StartCharge(h)
    <3>1. Plan[h].kind \in {"purchase", "start"} /\ call[h].pc = "serve" /\ call'[h].pc = "mutate"
      BY <1>0, <2>1 DEF PurchaseServe, StartCharge, At, Go, CallState
    <3>2. Call(h, Plan[h].op) /\ runs' = runs /\ rewards' = rewards
      BY <2>1 DEF PurchaseServe, StartCharge
    <3> QED
      BY <3>1, <3>2 DEF Call, StaysPut, Ended
  <2>2. CASE HandlerMutates(h)
    BY <2>2, MutateHere DEF HandlerMutates, heistOnly, StaysPut, Ended
  <2>3. CASE \/ StartRefused(h) \/ FinishRefused(h) \/ FinishLoad(h) \/ FinishLost(h)
             \/ ClaimRefused(h) \/ StoreFails(h)
    <3>1. ASSUME NEW answer, Decide(h, answer) PROVE call'[h].pc = "answer"
      BY <1>0, <3>1 DEF Decide, CallState
    <3>2. Go(h, "settle") => call'[h].pc = "settle"
      BY <1>0 DEF Go, CallState
    <3>3. call[h].pc \notin Ended /\ call'[h].pc \in {"answer", "settle"}
      BY <2>3, <3>1, <3>2 DEF StartRefused, FinishRefused, FinishLoad, FinishLost, ClaimRefused, StoreFails,
         At, CallsStore, Mutated, Ended
    <3> QED
      BY <2>3, <3>3 DEF StartRefused, FinishRefused, FinishLoad, FinishLost, ClaimRefused, StoreFails,
         profileVars, StaysPut, Ended
  <2> QED
    BY <1>3, <2>1, <2>2, <2>3 DEF Handler, Writes
<1> QED
  BY <1>1, <1>2, <1>3

-----------------------------------------------------------------------------
(* A charge that went through stores its run; nobody has heard of it yet. *)

LEMMA StartPutRecords ==
  ASSUME SInv, NEW h \in Request, NEW answered \in BOOLEAN, StartPut(h, answered)
  PROVE  RecInv'
<1>0. /\ call \in [Request -> CallState] /\ call[h] \in CallState
      /\ runs \in [Request -> RunState]
      /\ \A g \in Request : RunOK(g) /\ RewardOK(g) /\ SettlerOK(g) /\ ClaimerOK(g) /\ HonestOK(g)
  BY DEF SInv, HInv, HeistTypeOK, RecInv, HonestInv
<1>1. /\ Plan[h].kind = "start" /\ call[h].pc = "mutate" /\ h \in applied
      /\ rewards' = rewards /\ mut' = mut /\ applied' = applied
  BY <1>0 DEF StartPut, At, HonestOK, profileVars
<1>2. runs[h].status = "none" /\ rewards[h].status = "none"
  BY <1>0, <1>1 DEF RunOK, RewardOK
<1>3. /\ \A g \in Request \ {h} : call'[g] = call[g] /\ runs'[g] = runs[g]
      /\ call'[h].pc = "answer"
      /\ runs'[h] = NewRun(call[h].at)
  BY <1>0 DEF StartPut, Decide, CallState
<1>4. NewRun(call[h].at).expiresAt <= EndsAt + Grace
  <2>1. call[h].at \in Nat
    <3>1. call[h].at \in 0..MaxNow
      BY <1>0 DEF CallState
    <3> QED
      BY <3>1
  <2>2. \A a, b \in Int : Smaller(a, b) <= b
    BY DEF Smaller
  <2>3. NewRun(call[h].at).expiresAt = Smaller(call[h].at + RunTTL, EndsAt + Grace)
    BY DEF NewRun
  <2> QED
    BY <2>1, <2>2, <2>3, DeadlinesAreTimes
<1> SUFFICES ASSUME NEW g \in Request PROVE (RunOK(g) /\ RewardOK(g) /\ SettlerOK(g) /\ ClaimerOK(g))'
  BY DEF RecInv
<1>5. RunOK(g)'
  BY <1>0, <1>1, <1>3, <1>4 DEF RunOK
<1>6. RewardOK(g)'
  BY <1>0, <1>1, <1>2, <1>3 DEF RewardOK
<1>7. \A f \in Request : (Settler(f)' <=> Settler(f)) /\ (Claimer(f)' <=> Claimer(f))
  BY <1>1, <1>3 DEF Settler, Claimer
<1>8. SettlerOK(g)'
  <2>1. Settler(g) => Plan[g].run \in Request /\ Plan[g].run # h
    BY <1>0, <1>2, PlanTyped DEF SettlerOK, Settler
  <2> QED
    BY <1>0, <1>1, <1>3, <1>7, <2>1 DEF SettlerOK
<1>9. ClaimerOK(g)'
  BY <1>0, <1>1, <1>7 DEF ClaimerOK
<1> QED
  BY <1>5, <1>6, <1>8, <1>9

(* The conditional settlement: the run has one settler, or none will ever be. *)
LEMMA FinishSettleRecords ==
  ASSUME SInv, NEW h \in Request, NEW answered \in BOOLEAN, FinishSettle(h, answered)
  PROVE  RecInv'
<1> DEFINE r == Plan[h].run
<1>0. /\ call \in [Request -> CallState] /\ call[h] \in CallState
      /\ runs \in [Request -> RunState]
      /\ \A g \in Request : RunOK(g) /\ RewardOK(g) /\ SettlerOK(g) /\ ClaimerOK(g) /\ HonestOK(g)
  BY DEF SInv, HInv, HeistTypeOK, RecInv, HonestInv
<1>1. /\ Plan[h].kind = "finish" /\ call[h].pc = "settle" /\ r \in Request
      /\ runs[r].status = "ACTIVE"
      /\ rewards' = rewards /\ mut' = mut /\ applied' = applied
  BY PlanTyped DEF FinishSettle, profileVars, SInv, HInv, CallsInPlace, InPlace
<1>2. /\ rewards[r].status = "none"
      /\ \A g \in Request : Settler(g) => Plan[g].run # r
  BY <1>0, <1>1 DEF RewardOK, SettlerOK
<1>3. mut[h].pc = "idle"
  BY <1>1, <1>2 DEF Settler
<1>4. /\ \A g \in Request \ {h} : call'[g] = call[g]
      /\ call'[h].pc \in {"grant", "answer"}
      /\ \A q \in Request \ {r} : runs'[q] = runs[q]
      /\ runs'[r] = [runs[r] EXCEPT !.status = "FINISHED", !.result = Plan[h].result]
  <2>1. /\ \A g \in Request \ {h} : call'[g] = call[g]
        /\ call'[h].pc \in {"grant", "answer"}
    BY <1>0 DEF FinishSettle, Proceed, Go, Decide, CallState
  <2> QED
    BY <1>0, <1>1, <2>1 DEF FinishSettle
<1>5. /\ runs'[r].status = "FINISHED" /\ runs'[r].result = Plan[h].result
      /\ runs'[r].expiresAt = runs[r].expiresAt
  BY <1>0, <1>1, <1>4 DEF RunState
<1> HIDE DEF r
<1>6. /\ \A g \in Request \ {h} : (Settler(g)' <=> Settler(g))
      /\ \A g \in Request : (Claimer(g)' <=> Claimer(g))
  BY <1>1, <1>4 DEF Settler, Claimer
<1> SUFFICES ASSUME NEW g \in Request PROVE (RunOK(g) /\ RewardOK(g) /\ SettlerOK(g) /\ ClaimerOK(g))'
  BY DEF RecInv
<1>7. RunOK(g)'
  BY <1>0, <1>1, <1>4, <1>5 DEF RunOK
<1>8. RewardOK(g)'
  BY <1>0, <1>1, <1>2, <1>4 DEF RewardOK
<1>9. SettlerOK(g)'
  <2>1. CASE g = h
    BY <1>1, <1>2, <1>3, <1>5, <1>6, <2>1 DEF SettlerOK, r
  <2>2. CASE g # h
    <3>1. Settler(g)' => /\ Settler(g) /\ Plan[g].run \in Request /\ Plan[g].run # r
                         /\ runs'[Plan[g].run] = runs[Plan[g].run]
      BY <1>2, <1>4, <1>6, <2>2, PlanTyped DEF Settler
    <3> QED
      BY <1>0, <1>1, <1>6, <3>1 DEF SettlerOK, r
  <2> QED
    BY <2>1, <2>2
<1>10. ClaimerOK(g)'
  BY <1>0, <1>1, <1>6 DEF ClaimerOK
<1> QED
  BY <1>7, <1>8, <1>9, <1>10

(* The settler of a run grants its reward, unless it is there. *)
LEMMA FinishGrantRecords ==
  ASSUME SInv, NEW h \in Request, FinishGrant(h) \/ FinishGrantUnanswered(h)
  PROVE  RecInv'
<1> DEFINE r == Plan[h].run
<1>0. /\ call \in [Request -> CallState] /\ call[h] \in CallState
      /\ rewards \in [Request -> RewardState]
      /\ \A g \in Request : RunOK(g) /\ RewardOK(g) /\ SettlerOK(g) /\ ClaimerOK(g) /\ HonestOK(g)
  BY DEF SInv, HInv, HeistTypeOK, RecInv, HonestInv
<1>1. /\ Plan[h].kind = "finish" /\ call[h].pc = "grant" /\ r \in Request /\ Settler(h)
      /\ runs' = runs /\ applied' = applied
      /\ rewards' = [rewards EXCEPT ![r] = Granted(h)]
  BY PlanTyped DEF FinishGrant, FinishGrantUnanswered, Call, profileVars, SInv, HInv, CallsInPlace, InPlace, Settler
<1>2. runs[r].status = "FINISHED" /\ runs[r].result = Plan[h].result
  BY <1>0, <1>1 DEF SettlerOK
<1>3. /\ rewards'[r].status # "none"
      /\ rewards'[r].coins = RunLootCoins(runs[r].result.score)
      /\ rewards[r].status # "none" => rewards'[r] = rewards[r]
      /\ \A q \in Request \ {r} : rewards'[q] = rewards[q]
  BY <1>0, <1>1, <1>2 DEF Granted, RewardOK
<1> HIDE DEF r
<1>4. \A g \in Request \ {h} : call'[g] = call[g] /\ mut'[g] = mut[g]
  BY OthersStay DEF SInv, Handler
<1>5. call'[h].pc \in {"mutate", "answer"}
  BY <1>0 DEF FinishGrant, FinishGrantUnanswered, Go, Decide, CallState
<1>6. /\ \A g \in Request : Settler(g)' => Settler(g)
      /\ \A g \in Request : (Claimer(g)' <=> Claimer(g)) /\ (Claimer(g) => mut'[g].op = mut[g].op)
  BY <1>1, <1>4 DEF Settler, Claimer
<1> SUFFICES ASSUME NEW g \in Request PROVE (RunOK(g) /\ RewardOK(g) /\ SettlerOK(g) /\ ClaimerOK(g))'
  BY DEF RecInv
<1>7. RunOK(g)'
  BY <1>0, <1>1, <1>4, <1>5 DEF RunOK
<1>8. RewardOK(g)'
  BY <1>0, <1>1, <1>2, <1>3 DEF RewardOK
<1>9. SettlerOK(g)'
  <2>1. CASE g = h
    BY <1>0, <1>1, <1>2, <1>3, <1>6, <2>1 DEF SettlerOK, r
  <2>2. CASE g # h
    <3>1. Settler(g)' => Settler(g) /\ Plan[g].run \in Request /\ Plan[g].run # r /\ mut'[g] = mut[g]
      BY <1>0, <1>1, <1>4, <1>6, <2>2, PlanTyped DEF Settler, SettlerOK, r
    <3> QED
      BY <1>0, <1>1, <1>3, <1>6, <3>1 DEF SettlerOK
  <2> QED
    BY <2>1, <2>2
<1>10. ClaimerOK(g)'
  <2>1. Claimer(g) => Plan[g].run \in Request /\ rewards'[Plan[g].run] = rewards[Plan[g].run]
    BY <1>0, <1>3, PlanTyped DEF Claimer, ClaimerOK
  <2> QED
    BY <1>0, <1>1, <1>6, <2>1 DEF ClaimerOK
<1> QED
  BY <1>7, <1>8, <1>9, <1>10

(* The claim that flips a reward is the only one to be credited. *)
LEMMA ClaimFlipRecords ==
  ASSUME SInv, NEW h \in Request, ClaimFlip(h) \/ ClaimFlipUnanswered(h)
  PROVE  RecInv'
<1> DEFINE r == Plan[h].run
<1>0. /\ call \in [Request -> CallState] /\ call[h] \in CallState
      /\ rewards \in [Request -> RewardState]
      /\ \A g \in Request : RunOK(g) /\ RewardOK(g) /\ SettlerOK(g) /\ ClaimerOK(g) /\ HonestOK(g)
  BY DEF SInv, HInv, HeistTypeOK, RecInv, HonestInv
<1>1. /\ Plan[h].kind = "claim" /\ call[h].pc = "serve" /\ r \in Request
      /\ runs' = runs /\ applied' = applied
      /\ rewards[r].status = "PENDING"
      /\ rewards' = [rewards EXCEPT ![r].status = "CLAIMED"]
  BY PlanTyped DEF ClaimFlip, ClaimFlipUnanswered, At, Call, profileVars
<1>2. /\ rewards'[r].status = "CLAIMED" /\ rewards'[r].coins = rewards[r].coins
      /\ \A q \in Request \ {r} : rewards'[q] = rewards[q]
  BY <1>0, <1>1 DEF RewardState
<1> HIDE DEF r
<1>3. /\ \A g \in Request : Claimer(g) => Plan[g].run # r
      /\ mut[h].pc = "idle"
  BY <1>0, <1>1 DEF ClaimerOK, HonestOK
<1>4. \A g \in Request \ {h} : call'[g] = call[g] /\ mut'[g] = mut[g]
  BY OthersStay DEF SInv, Handler
<1>5. /\ call'[h].pc \in {"mutate", "answer"}
      /\ mut'[h].pc = "idle" \/ mut'[h].op = CreditOp(rewards[r].coins)
  <2>1. CASE ClaimFlip(h)
    <3>1. mut'[h].op = CreditOp(rewards[r].coins)
      BY <2>1, CallHere DEF ClaimFlip, SInv, r
    <3> QED
      BY <1>0, <2>1, <3>1 DEF ClaimFlip, Go, CallState
  <2>2. CASE ClaimFlipUnanswered(h)
    BY <1>0, <1>3, <2>2 DEF ClaimFlipUnanswered, Decide, CallState, profileVars
  <2> QED
    BY <2>1, <2>2
<1>6. /\ \A g \in Request : Settler(g)' => Settler(g) /\ mut'[g] = mut[g]
      /\ \A g \in Request \ {h} : (Claimer(g)' <=> Claimer(g)) /\ mut'[g] = mut[g]
  BY <1>1, <1>4 DEF Settler, Claimer
<1> SUFFICES ASSUME NEW g \in Request PROVE (RunOK(g) /\ RewardOK(g) /\ SettlerOK(g) /\ ClaimerOK(g))'
  BY DEF RecInv
<1>7. RunOK(g)'
  BY <1>0, <1>1, <1>4, <1>5 DEF RunOK
<1>8. RewardOK(g)'
  BY <1>0, <1>1, <1>2 DEF RewardOK
<1>9. SettlerOK(g)'
  <2>1. Settler(g)' => /\ Settler(g) /\ mut'[g] = mut[g] /\ Plan[g].run \in Request
                       /\ rewards[Plan[g].run].status # "none" => rewards'[Plan[g].run].status # "none"
    BY <1>1, <1>2, <1>6, PlanTyped DEF Settler
  <2> QED
    BY <1>0, <1>1, <1>6, <2>1 DEF SettlerOK
<1>10. ClaimerOK(g)'
  <2>1. CASE g = h
    BY <1>1, <1>2, <1>3, <1>5, <1>6, <2>1 DEF ClaimerOK, Claimer, r
  <2>2. CASE g # h
    <3>1. Claimer(g)' => /\ Claimer(g) /\ mut'[g] = mut[g] /\ Plan[g].run \in Request /\ Plan[g].run # r
                         /\ rewards'[Plan[g].run] = rewards[Plan[g].run]
      BY <1>2, <1>3, <1>6, <2>2, PlanTyped DEF Claimer
    <3> QED
      BY <1>0, <1>6, <3>1 DEF ClaimerOK, r
  <2> QED
    BY <2>1, <2>2
<1> QED
  BY <1>7, <1>8, <1>9, <1>10

LEMMA StepRecords == SInv /\ [HeistNext]_heistVars => RecInv'
<1> SUFFICES ASSUME SInv, [HeistNext]_heistVars PROVE RecInv'
  OBVIOUS
<1>1. ASSUME NEW h \in Request, Send(h) \/ Middleware(h) \/ Handler(h) PROVE RecInv'
  <2>1. CASE Writes(h)
    BY <2>1, StartPutRecords, FinishSettleRecords, FinishGrantRecords, ClaimFlipRecords DEF Writes
  <2>2. CASE ~Writes(h)
    BY <1>1, <2>2, QuietHere, OthersPut, RecordsQuiet DEF SInv
  <2> QED
    BY <2>1, <2>2
<1>2. CASE Passes \/ UNCHANGED heistVars
  <2>1. UNCHANGED <<runs, rewards, call, mut, applied>>
    BY <1>2 DEF Passes, Tick, heistVars, profileVars, heistOnly
  <2> QED
    BY <2>1, RecordsQuiet DEF StaysPut, SInv
<1> QED
  BY <1>1, <1>2 DEF HeistNext, Serve

-----------------------------------------------------------------------------
(* Keys and their owners. *)

KeyStays(g) ==
  /\ call'[g].role = "owner" <=> call[g].role = "owner"
  /\ call'[g].role = "none" <=> call[g].role = "none" /\ call'[g].pc \in {"new", "begin", "lookup", "done"}
  /\ call'[g].pc = "done" <=> call[g].pc = "done"
  /\ call[g].pc = "done" => call'[g] = call[g]

LEMMA OwnersHaveKeys ==
  ASSUME HInv, NEW h \in Request, call[h].role = "owner"
  PROVE  Plan[h].key \in Key
  BY PlanTyped DEF HInv, CallsInPlace, InPlace

LEMMA KeysQuiet ==
  ASSUME HInv, KeyInv, \A g \in Request : KeyStays(g),
         \A k \in Key : idem'[k] = idem[k] \/ (idem[k] = "free" /\ idem'[k] = "in_progress")
  PROVE  KeyInv'
<1>1. \A g \in Request : /\ Executing(g)' <=> Executing(g)
                         /\ (Succeeded(g) /\ call[g].pc = "done")' <=> Succeeded(g) /\ call[g].pc = "done"
  BY DEF KeyStays, Executing, Succeeded
<1>2. \A k, status : Answered(call, k, status) => Answered(call', k, status)
  BY DEF KeyStays, Answered
<1>3. ASSUME NEW h \in Request PROVE OwnerOK(h)'
  <2>1. OwnerOK(h)
    BY DEF KeyInv
  <2>2. Executing(h) \/ Succeeded(h) => Plan[h].key \in Key
    BY OwnersHaveKeys DEF Executing, Succeeded
  <2> QED
    BY <1>1, <2>1, <2>2 DEF OwnerOK
<1>4. ASSUME NEW h \in Request, call'[h].role = "none"
      PROVE  /\ call'[h].pc \in {"new", "begin", "lookup", "done"}
             /\ call'[h].pc = "done" => call'[h] = call[h]
  BY <1>4 DEF KeyStays
<1>5. \A k \in Key : idem'[k] \in {"ok", "refused"} => Answered(call', k, idem'[k])
  BY <1>2 DEF KeyInv
<1>6. ASSUME NEW h \in Request, call'[h].pc = "done", call'[h].role = "none", call'[h].status # "busy"
      PROVE  Answered(call', Plan[h].key, call'[h].status)
  BY <1>2, <1>4, <1>6 DEF KeyInv
<1> QED
  BY <1>3, <1>4, <1>5, <1>6 DEF KeyInv, Answered

(* A key that is acquired was free: it has no other owner. *)
LEMMA AcquiredKeys ==
  ASSUME HInv, KeyInv, NEW h \in Request, BeginAcquired(h)
  PROVE  KeyInv'
<1> DEFINE k == Plan[h].key
<1>0. /\ call \in [Request -> CallState] /\ call[h] \in CallState
      /\ idem \in [Key -> {"free", "in_progress", "ok", "refused"}]
  BY DEF HInv, HeistTypeOK
<1>1. /\ call[h].pc = "begin" /\ k \in Key /\ call[h].role = "none"
      /\ idem[k] = "free" /\ idem'[k] = "in_progress"
      /\ \A q \in Key \ {k} : idem'[q] = idem[q]
  BY <1>0, PlanTyped DEF BeginAcquired, HInv, CallsInPlace, InPlace
<1>2. /\ \A g \in Request \ {h} : call'[g] = call[g]
      /\ call'[h].pc = "serve" /\ call'[h].role = "owner"
  BY <1>0 DEF BeginAcquired, CallState
<1> HIDE DEF k
<1>3. \A g \in Request : (Executing(g) \/ (Succeeded(g) /\ call[g].pc = "done")) => Plan[g].key # k /\ g # h
  BY <1>1 DEF KeyInv, OwnerOK, Executing, Succeeded
<1>4. \A q, status : Answered(call, q, status) => Answered(call', q, status)
  BY <1>1, <1>2 DEF Answered
<1>5. ASSUME NEW g \in Request PROVE OwnerOK(g)'
  <2>1. CASE g = h
    BY <1>1, <1>2, <1>3, <2>1 DEF OwnerOK, Executing, Succeeded, k
  <2>2. CASE g # h
    <3>1. /\ Executing(g)' <=> Executing(g)
          /\ (Succeeded(g) /\ call[g].pc = "done")' <=> Succeeded(g) /\ call[g].pc = "done"
      BY <1>2, <2>2 DEF Executing, Succeeded
    <3>2. Executing(g) \/ Succeeded(g) => Plan[g].key \in Key
      BY OwnersHaveKeys DEF Executing, Succeeded
    <3>3. \A f \in Request \ {h} : Executing(f)' <=> Executing(f)
      BY <1>2 DEF Executing
    <3> QED
      BY <1>1, <1>3, <2>2, <3>1, <3>2, <3>3 DEF KeyInv, OwnerOK, k
  <2> QED
    BY <2>1, <2>2
<1>6. \A g \in Request : call'[g].role = "none" => call[g].role = "none" /\ call'[g] = call[g]
  BY <1>2
<1>7. \A q \in Key : idem'[q] \in {"ok", "refused"} => Answered(call', q, idem'[q])
  BY <1>1, <1>4 DEF KeyInv
<1>8. ASSUME NEW g \in Request, call'[g].pc = "done", call'[g].role = "none", call'[g].status # "busy"
      PROVE  Answered(call', Plan[g].key, call'[g].status)
  BY <1>4, <1>6, <1>8 DEF KeyInv
<1> QED
  BY <1>5, <1>6, <1>7, <1>8 DEF KeyInv, Answered

(* A request that is answered settles the record of its own key, at most. *)
LEMMA EndedKeys ==
  ASSUME HInv, KeyInv, NEW h \in Request, call[h].pc # "done",
         \A g \in Request \ {h} : call'[g] = call[g],
         call'[h].pc = "done", call'[h].role = call[h].role,
         \A k \in Key : idem'[k] = idem[k] \/ (call[h].role = "owner" /\ k = Plan[h].key),
         call[h].role = "owner" =>
           /\ idem'[Plan[h].key] \in {"ok", "refused"} => idem'[Plan[h].key] = call'[h].status
           /\ call'[h].status = "ok" => idem'[Plan[h].key] # "free",
         call[h].role = "none" => call'[h].status = "busy" \/ Answered(call, Plan[h].key, call'[h].status)
  PROVE  KeyInv'
<1>1. \A q, status : Answered(call, q, status) => Answered(call', q, status)
  BY DEF Answered
<1>2. /\ \A g \in Request : Executing(g)' => Executing(g) /\ g # h
      /\ \A g \in Request \ {h} : /\ Executing(g)' <=> Executing(g)
                                /\ (Succeeded(g) /\ call[g].pc = "done")' <=> Succeeded(g) /\ call[g].pc = "done"
      /\ call[h].role = "owner" => Executing(h)
  BY DEF Executing, Succeeded
<1>3. \A g \in Request : Executing(g) \/ Succeeded(g) => Plan[g].key \in Key
  BY OwnersHaveKeys DEF Executing, Succeeded
<1>4. ASSUME NEW g \in Request PROVE OwnerOK(g)'
  <2>0. OwnerOK(g) /\ OwnerOK(h)
    BY DEF KeyInv
  <2>1. CASE g = h
    <3>1. ~Executing(h)'
      BY DEF Executing
    <3>2. Succeeded(h)' => /\ idem'[Plan[h].key] # "free"
                           /\ \A f \in Request : Executing(f)' => Plan[f].key # Plan[h].key
      BY <1>2, <2>0 DEF Succeeded, OwnerOK
    <3> QED
      BY <2>1, <3>1, <3>2 DEF OwnerOK
  <2>2. CASE g # h
    <3>1. Executing(g) \/ (Succeeded(g) /\ call[g].pc = "done") => idem'[Plan[g].key] = idem[Plan[g].key]
      BY <1>2, <1>3, <2>0, <2>2 DEF OwnerOK
    <3> QED
      BY <1>2, <2>0, <2>2, <3>1 DEF OwnerOK
  <2> QED
    BY <2>1, <2>2
<1>5. ASSUME NEW k \in Key, idem'[k] \in {"ok", "refused"} PROVE Answered(call', k, idem'[k])
  <2>1. CASE idem'[k] = idem[k]
    BY <1>1, <1>5, <2>1 DEF KeyInv
  <2>2. CASE call[h].role = "owner" /\ k = Plan[h].key
    BY <1>5, <2>2 DEF Answered
  <2> QED
    BY <2>1, <2>2
<1>6. \A g \in Request : call'[g].role = "none" => call'[g].pc \in {"new", "begin", "lookup", "done"}
  BY DEF KeyInv
<1>7. ASSUME NEW g \in Request, call'[g].pc = "done", call'[g].role = "none", call'[g].status # "busy"
      PROVE  Answered(call', Plan[g].key, call'[g].status)
  BY <1>1, <1>7 DEF KeyInv
<1> QED
  BY <1>4, <1>5, <1>6, <1>7 DEF KeyInv, Answered

LEMMA OutcomeMeans ==
  ASSUME NEW h \in Request, Outcome(h) # "none"
  PROVE  /\ call[h].pc \in {"answer", "mutate"}
         /\ call[h].pc = "answer" => Outcome(h) = call[h].status
         /\ call[h].pc = "mutate" /\ Outcome(h) = "ok" => mut[h].pc = "done" /\ Plan[h].kind # "start"
         /\ call[h].pc = "mutate" /\ Outcome(h) = "refused" => mut[h].pc \in {"refused", "conflict"}
  BY DEF Outcome

(* A finished request was answered from a record, or as its owner, or bare.   *)
LEMMA EndKeys ==
  ASSUME SInv, NEW h \in Request, Complete(h) \/ Abort(h) \/ ReplyOnly(h)
  PROVE  KeyInv'
<1>0. /\ call \in [Request -> CallState] /\ call[h] \in CallState
      /\ idem \in [Key -> {"free", "in_progress", "ok", "refused"}]
      /\ OwnerOK(h) /\ (call[h].role = "none" => call[h].pc \in {"new", "begin", "lookup", "done"})
  BY DEF SInv, HInv, HeistTypeOK, KeyInv
<1>1. Outcome(h) # "none" /\ End(h, Outcome(h))
  BY DEF Complete, Abort, ReplyOnly
<1>2. call[h].pc \in {"answer", "mutate"} /\ call[h].role # "none"
  BY <1>0, <1>1, OutcomeMeans
<1>3. call'[h] = [call[h] EXCEPT !.pc = "done", !.status = Outcome(h), !.at = 0]
  BY <1>1, HereGoes DEF SInv
<1>4. call'[h].pc = "done" /\ call'[h].role = call[h].role /\ call'[h].status = Outcome(h)
  BY <1>0, <1>3 DEF CallState
<1>5. \A g \in Request \ {h} : call'[g] = call[g]
  BY OthersStay DEF SInv, Middleware
<1>6. call[h].role = "owner" => Plan[h].key \in Key /\ idem[Plan[h].key] = "in_progress"
  BY <1>0, <1>2, OwnersHaveKeys DEF SInv, OwnerOK, Executing
<1>7. \A k \in Key : idem'[k] = idem[k] \/ (call[h].role = "owner" /\ k = Plan[h].key)
  BY <1>0 DEF Complete, Abort, ReplyOnly
<1>8. call[h].role = "owner" =>
        /\ idem'[Plan[h].key] \in {"ok", "refused"} => idem'[Plan[h].key] = Outcome(h)
        /\ Outcome(h) = "ok" => idem'[Plan[h].key] # "free"
  BY <1>0, <1>6 DEF Complete, Abort, ReplyOnly
<1> HIDE DEF SInv
<1> QED
  BY <1>2, <1>4, <1>5, <1>7, <1>8, EndedKeys DEF SInv

LEMMA ReplayKeys ==
  ASSUME SInv, NEW h \in Request, BeginTaken(h) \/ Lookup(h), FromRecord(h)
  PROVE  KeyInv'
<1> DEFINE answer == IF idem[Plan[h].key] = "in_progress" THEN "busy" ELSE idem[Plan[h].key]
<1>0. /\ call \in [Request -> CallState] /\ call[h] \in CallState
      /\ call[h].pc \in {"begin", "lookup"} /\ call[h].role = "none" /\ Plan[h].key \in Key
      /\ idem' = idem /\ idem[Plan[h].key] \in {"in_progress", "ok", "refused"}
  BY PlanTyped DEF SInv, HInv, HeistTypeOK, CallsInPlace, InPlace, BeginTaken, Lookup
<1>1. End(h, answer)
  BY DEF FromRecord
<1> HIDE DEF answer
<1>2. call'[h] = [call[h] EXCEPT !.pc = "done", !.status = answer, !.at = 0]
  BY <1>1, HereGoes DEF SInv
<1>3. call'[h].pc = "done" /\ call'[h].role = call[h].role /\ call'[h].status = answer
  BY <1>0, <1>2 DEF CallState
<1>4. \A g \in Request \ {h} : call'[g] = call[g]
  BY OthersStay DEF SInv, Middleware
<1>5. answer = "busy" \/ Answered(call, Plan[h].key, answer)
  BY <1>0 DEF SInv, KeyInv, answer
<1> QED
  BY <1>0, <1>3, <1>4, <1>5, EndedKeys DEF SInv

LEMMA StepKeys == SInv /\ [HeistNext]_heistVars => KeyInv'
<1> SUFFICES ASSUME SInv, [HeistNext]_heistVars PROVE KeyInv'
  OBVIOUS
<1>0. /\ call \in [Request -> CallState]
      /\ idem \in [Key -> {"free", "in_progress", "ok", "refused"}]
  BY DEF SInv, HInv, HeistTypeOK
<1>1. ASSUME NEW h \in Request, Send(h) \/ Middleware(h) \/ Handler(h), KeyStays(h),
             \A k \in Key : idem'[k] = idem[k] \/ (idem[k] = "free" /\ idem'[k] = "in_progress")
      PROVE  KeyInv'
  <2>1. \A g \in Request \ {h} : call'[g] = call[g]
    BY <1>1, OthersStay DEF SInv
  <2>2. \A g \in Request : KeyStays(g)
    BY <1>1, <2>1 DEF KeyStays, SInv, KeyInv
  <2> QED
    BY <1>1, <2>2, KeysQuiet DEF SInv
<1>2. ASSUME NEW h \in Request, Send(h) PROVE KeyInv'
  <2>1. call[h] \in CallState /\ call[h].pc = "new" /\ call[h].role = "none" /\ idem' = idem
    BY <1>0, <1>2 DEF Send, SInv, HInv, CallsInPlace, InPlace
  <2>2. KeyStays(h)
    BY <1>0, <1>2, <2>1 DEF Send, KeyStays, CallState
  <2> QED
    BY <1>1, <1>2, <2>1, <2>2
<1>3. ASSUME NEW h \in Request, Middleware(h) PROVE KeyInv'
  <2>0. call[h] \in CallState /\ (call[h].pc \in {"begin", "lookup"} => call[h].role = "none" /\ Plan[h].key \in Key)
    BY <1>0, PlanTyped DEF SInv, HInv, CallsInPlace, InPlace
  <2>1. CASE BeginAcquired(h)
    BY <2>1, AcquiredKeys DEF SInv
  <2>2. CASE (BeginTaken(h) \/ Lookup(h)) /\ ~FromRecord(h)
    <3>1. call[h].pc = "begin" /\ Go(h, "lookup") /\ idem' = idem
      BY <2>2 DEF BeginTaken, Lookup
    <3>2. KeyStays(h)
      BY <1>0, <2>0, <3>1 DEF Go, KeyStays, CallState
    <3> QED
      BY <1>1, <1>3, <3>1, <3>2
  <2>3. CASE (BeginTaken(h) \/ Lookup(h)) /\ FromRecord(h)
    BY <2>3, ReplayKeys
  <2>4. CASE LookupGone(h) \/ \E reserved \in BOOLEAN : BeginFails(h, reserved)
    <3>1. /\ call[h].pc \in {"begin", "lookup"}
          /\ call' = [call EXCEPT ![h].pc = "serve", ![h].role = "bare"]
      BY <2>4 DEF LookupGone, BeginFails
    <3>2. KeyStays(h)
      BY <1>0, <2>0, <3>1 DEF KeyStays, CallState
    <3>3. \A k \in Key : idem'[k] = idem[k] \/ (idem[k] = "free" /\ idem'[k] = "in_progress")
      BY <1>0, <2>0, <2>4 DEF LookupGone, BeginFails
    <3> QED
      BY <1>1, <1>3, <3>2, <3>3
  <2>5. CASE Complete(h) \/ Abort(h) \/ ReplyOnly(h)
    BY <2>5, EndKeys
  <2> QED
    BY <1>3, <2>1, <2>2, <2>3, <2>4, <2>5 DEF Middleware
<1>4. ASSUME NEW h \in Request, Handler(h) PROVE KeyInv'
  <2>0. call[h] \in CallState /\ (call[h].role = "none" => call[h].pc \in {"new", "begin", "lookup", "done"})
    BY <1>0 DEF SInv, KeyInv
  <2>1. ASSUME NEW x, Decide(h, x) PROVE call'[h].pc = "answer" /\ call'[h].role = call[h].role
    BY <1>0, <2>0, <2>1 DEF Decide, CallState
  <2>2. ASSUME NEW pc \in {"mutate", "settle", "grant"}, Go(h, pc)
        PROVE  call'[h].pc = pc /\ call'[h].role = call[h].role
    BY <1>0, <2>0, <2>2 DEF Go, CallState
  <2>3. CASE HandlerMutates(h)
    BY <1>1, <1>4, <2>0, <2>3 DEF HandlerMutates, heistOnly, KeyStays
  <2>4. CASE StartCharge(h)
    <3>1. call'[h].pc = "mutate" /\ call'[h].role = call[h].role /\ idem' = idem /\ call[h].pc = "serve"
      BY <1>0, <2>0, <2>4 DEF StartCharge, At, CallState
    <3> QED
      BY <1>1, <1>4, <2>0, <3>1 DEF KeyStays
  <2>5. CASE ~HandlerMutates(h) /\ ~StartCharge(h)
    <3>1. /\ call[h].pc \in {"serve", "mutate", "settle", "grant"} /\ idem' = idem
          /\ (\E x : Decide(h, x)) \/ \E pc \in {"mutate", "settle", "grant"} : Go(h, pc)
      BY <1>4, <2>5 DEF Handler, PurchaseServe, StartRefused, StartPut, FinishSettle, FinishRefused, FinishLoad,
         FinishLost, FinishGrant, FinishGrantUnanswered, ClaimFlip, ClaimFlipUnanswered, ClaimRefused, StoreFails,
         Proceed, At, CallsStore, Mutated
    <3>2. call'[h].pc \in {"answer", "mutate", "settle", "grant"} /\ call'[h].role = call[h].role
      BY <2>1, <2>2, <3>1
    <3> QED
      BY <1>1, <1>4, <2>0, <3>1, <3>2 DEF KeyStays
  <2> QED
    BY <2>3, <2>4, <2>5
<1>5. CASE Passes \/ UNCHANGED heistVars
  <2>1. idem' = idem /\ call' = call
    BY <1>5 DEF Passes, heistVars, heistOnly
  <2> QED
    BY <2>1, KeysQuiet DEF KeyStays, SInv, KeyInv
<1> QED
  BY <1>2, <1>3, <1>4, <1>5 DEF HeistNext, Serve

-----------------------------------------------------------------------------
(* What an answer says. *)

LEMMA RunsStay ==
  ASSUME SInv, [HeistNext]_heistVars, NEW g \in Request, runs[g].status # "none"
  PROVE  runs'[g].status # "none"
<1>0. runs \in [Request -> RunState]
  BY DEF SInv, HInv, HeistTypeOK
<1>1. ASSUME NEW h \in Request, NEW answered \in BOOLEAN, StartPut(h, answered)
      PROVE  runs'[g].status # "none"
  BY <1>0, <1>1 DEF StartPut, NewRun
<1>2. ASSUME NEW h \in Request, NEW answered \in BOOLEAN, FinishSettle(h, answered)
      PROVE  runs'[g].status # "none"
  <2>1. Plan[h].run \in Request
    BY <1>2, PlanTyped DEF FinishSettle, SInv, HInv, CallsInPlace, InPlace
  <2> QED
    BY <1>0, <1>2, <2>1 DEF FinishSettle, RunState
<1> QED
  BY <1>1, <1>2, RunsFrame

(* A request of which the handling stands still keeps what it was told. *)
LEMMA HonestStays ==
  ASSUME SInv, [HeistNext]_heistVars, NEW g \in Request,
         call'[g] = call[g], mut'[g] = mut[g], g \in applied' <=> g \in applied
  PROVE  HonestOK(g)'
  BY RunsStay DEF SInv, HonestInv, HonestOK

LEMMA HonestEnds ==
  ASSUME SInv, NEW h \in Request, Complete(h) \/ Abort(h) \/ ReplyOnly(h)
  PROVE  HonestOK(h)'
<1>0. call[h] \in CallState /\ HonestOK(h) /\ (call[h].role = "none" => call[h].pc \in {"new", "begin", "lookup", "done"})
  BY DEF SInv, HInv, HeistTypeOK, KeyInv, HonestInv
<1>1. /\ Outcome(h) # "none" /\ End(h, Outcome(h))
      /\ mut' = mut /\ applied' = applied /\ runs' = runs
  BY DEF Complete, Abort, ReplyOnly, profileVars
<1>2. call'[h] = [call[h] EXCEPT !.pc = "done", !.status = Outcome(h), !.at = 0]
  BY <1>1, HereGoes DEF SInv
<1>3. call'[h].pc = "done" /\ call'[h].role = call[h].role /\ call'[h].status = Outcome(h)
  BY <1>0, <1>2 DEF CallState
<1> QED
  BY <1>0, <1>1, <1>3, OutcomeMeans DEF HonestOK

(* A handler decides: what was not charged for is refused, what was is done. *)
LEMMA HonestDecides ==
  ASSUME SInv, NEW h \in Request, NEW x, Decide(h, x), mut' = mut, applied' = applied,
         call[h].pc # "done",
         x = "ok" => Plan[h].kind = "start" /\ mut[h].pc = "done" /\ runs'[h].status # "none",
         x = "refused" /\ Plan[h].kind \in {"start", "purchase"} => mut[h].pc = "idle"
  PROVE  HonestOK(h)'
<1>0. call[h] \in CallState /\ HonestOK(h) /\ (mut[h].pc = "idle" => h \notin applied)
  BY DEF SInv, HInv, HeistTypeOK, HonestInv, PInv, SnapshotCoherent, Coherent
<1>1. call'[h] = [call[h] EXCEPT !.pc = "answer", !.status = x, !.at = 0]
  BY HereGoes DEF SInv
<1>2. call'[h].pc = "answer" /\ call'[h].role = call[h].role /\ call'[h].status = x
  BY <1>0, <1>1 DEF CallState
<1> QED
  BY <1>0, <1>2 DEF HonestOK

LEMMA HonestHandles ==
  ASSUME SInv, NEW h \in Request, Handler(h)
  PROVE  HonestOK(h)'
<1>0. /\ call \in [Request -> CallState] /\ call[h] \in CallState /\ HonestOK(h)
      /\ runs \in [Request -> RunState]
  BY DEF SInv, HInv, HeistTypeOK, HonestInv
<1>1. CASE PurchaseServe(h) \/ StartCharge(h) \/ FinishGrant(h) \/ ClaimFlip(h)
  <2>1. call'[h].pc = "mutate"
    BY <1>0, <1>1 DEF PurchaseServe, StartCharge, FinishGrant, ClaimFlip, Go, CallState
  <2>2. mut'[h].pc = "get"
    BY <1>1, CallHere DEF PurchaseServe, StartCharge, FinishGrant, ClaimFlip, SInv
  <2> QED
    BY <2>1, <2>2 DEF HonestOK
<1>2. CASE HandlerMutates(h)
  <2>1. call' = call /\ call[h].pc = "mutate"
    BY <1>2 DEF HandlerMutates, heistOnly
  <2> QED
    BY <1>2, <2>1, MutateHere DEF HandlerMutates, HonestOK, SInv
<1>3. ASSUME NEW answered \in BOOLEAN, StartPut(h, answered) PROVE HonestOK(h)'
  <2>1. /\ mut' = mut /\ applied' = applied /\ call[h].pc # "done" /\ Plan[h].kind = "start"
        /\ mut[h].pc = "done" /\ runs'[h].status # "none"
    BY <1>0, <1>3 DEF StartPut, At, NewRun, profileVars
  <2>2. Decide(h, "ok") \/ Decide(h, "failed")
    BY <1>3 DEF StartPut
  <2> QED
    BY <2>1, <2>2, HonestDecides
<1>4. ASSUME NEW answered \in BOOLEAN, FinishSettle(h, answered) PROVE HonestOK(h)'
  <2>1. mut' = mut /\ applied' = applied /\ call[h].pc = "settle"
    BY <1>4 DEF FinishSettle, profileVars
  <2>2. CASE Decide(h, "failed")
    BY <2>1, <2>2, HonestDecides
  <2>3. CASE Go(h, "grant")
    <3>1. call'[h].pc = "grant"
      BY <1>0, <2>3 DEF Go, CallState
    <3> QED
      BY <1>0, <2>1, <3>1 DEF HonestOK
  <2> QED
    BY <1>4, <2>2, <2>3 DEF FinishSettle, Proceed
<1>5. CASE FinishLoad(h)
  <2>1. call'[h].pc = "settle" /\ mut' = mut /\ applied' = applied
    BY <1>0, <1>5 DEF FinishLoad, Go, CallState, profileVars
  <2> QED
    BY <1>0, <2>1 DEF HonestOK
<1>6. CASE StartRefused(h)
  <2>1. /\ Decide(h, "refused") /\ mut' = mut /\ applied' = applied /\ call[h].pc = "serve"
    BY <1>6 DEF StartRefused, At, profileVars
  <2>2. mut[h].pc = "idle"
    BY <1>0, <2>1 DEF HonestOK
  <2> QED
    BY <2>1, <2>2, HonestDecides
<1>7. CASE FinishRefused(h) \/ FinishLost(h) \/ ClaimRefused(h)
  <2>1. /\ Decide(h, "refused") /\ mut' = mut /\ applied' = applied /\ call[h].pc # "done"
        /\ Plan[h].kind \in {"finish", "claim"}
    BY <1>7 DEF FinishRefused, FinishLost, ClaimRefused, At, profileVars, SInv, HInv, CallsInPlace, InPlace
  <2> QED
    BY <2>1, HonestDecides
<1>8. CASE FinishGrantUnanswered(h) \/ ClaimFlipUnanswered(h) \/ StoreFails(h)
  <2>1. Decide(h, "failed") /\ mut' = mut /\ applied' = applied /\ call[h].pc # "done"
    BY <1>8 DEF FinishGrantUnanswered, ClaimFlipUnanswered, StoreFails, At, profileVars, CallsStore, Mutated
  <2> QED
    BY <2>1, HonestDecides
<1> QED
  BY <1>1, <1>2, <1>3, <1>4, <1>5, <1>6, <1>7, <1>8 DEF Handler

LEMMA StepHonest == SInv /\ [HeistNext]_heistVars => HonestInv'
<1> SUFFICES ASSUME SInv, [HeistNext]_heistVars PROVE HonestInv'
  OBVIOUS
<1>0. call \in [Request -> CallState]
  BY DEF SInv, HInv, HeistTypeOK
<1>1. ASSUME NEW h \in Request, Send(h) PROVE HonestOK(h)'
  <2>1. /\ call[h].pc = "new" /\ call[h] \in CallState /\ mut' = mut /\ applied' = applied
    BY <1>0, <1>1 DEF Send, profileVars
  <2>2. call'[h].pc \in {"serve", "begin"}
    BY <1>0, <1>1, <2>1 DEF Send, CallState
  <2> QED
    BY <2>1, <2>2 DEF HonestOK, HonestInv, SInv
<1>2. ASSUME NEW h \in Request, Middleware(h) PROVE HonestOK(h)'
  <2>0. /\ call[h] \in CallState /\ HonestOK(h)
        /\ call[h].pc \in {"begin", "lookup"} => call[h].role = "none" /\ mut[h].pc = "idle"
    BY <1>0 DEF SInv, HInv, CallsInPlace, InPlace, HonestInv, HonestOK
  <2>1. CASE BeginAcquired(h) \/ LookupGone(h) \/ \E reserved \in BOOLEAN : BeginFails(h, reserved)
    <3>1. /\ call[h].pc \in {"begin", "lookup"} /\ call'[h].pc = "serve" /\ mut' = mut /\ applied' = applied
      BY <1>0, <2>0, <2>1 DEF BeginAcquired, LookupGone, BeginFails, CallState, profileVars
    <3> QED
      BY <2>0, <3>1 DEF HonestOK
  <2>2. CASE BeginTaken(h) \/ Lookup(h)
    <3>1. /\ call[h].pc \in {"begin", "lookup"} /\ mut' = mut /\ applied' = applied
          /\ call'[h].pc \in {"lookup", "done"} /\ call'[h].role = call[h].role
      BY <1>0, <2>0, <2>2 DEF BeginTaken, Lookup, FromRecord, Go, End, CallState, profileVars
    <3> QED
      BY <2>0, <3>1 DEF HonestOK
  <2>3. CASE Complete(h) \/ Abort(h) \/ ReplyOnly(h)
    BY <2>3, HonestEnds
  <2> QED
    BY <1>2, <2>1, <2>2, <2>3 DEF Middleware
<1>3. ASSUME NEW h \in Request, Send(h) \/ Middleware(h) \/ Handler(h) PROVE HonestInv'
  <2>1. HonestOK(h)'
    BY <1>1, <1>2, <1>3, HonestHandles
  <2>2. ASSUME NEW g \in Request \ {h} PROVE HonestOK(g)'
    BY <1>3, OthersStay, HonestStays DEF SInv
  <2> QED
    BY <2>1, <2>2 DEF HonestInv
<1>4. CASE Passes \/ UNCHANGED heistVars
  <2>1. call' = call /\ mut' = mut /\ applied' = applied
    BY <1>4 DEF Passes, Tick, heistVars, heistOnly, profileVars
  <2> QED
    BY <2>1, HonestStays DEF HonestInv
<1> QED
  BY <1>3, <1>4 DEF HeistNext, Serve

-----------------------------------------------------------------------------
LEMMA InitSInv == HeistInit => SInv
<1> SUFFICES ASSUME HeistInit PROVE SInv
  OBVIOUS
<1>1. /\ \A h \in Request : /\ call[h] = Waiting /\ runs[h] = NoRun /\ rewards[h] = NoReward
                            /\ mut[h] = Idle
      /\ \A k \in Key : idem[k] = "free"
      /\ applied = {}
  BY DEF HeistInit, ProfileInit
<1>2. RecInv
  BY <1>1 DEF RecInv, RunOK, RewardOK, SettlerOK, ClaimerOK, Settler, Claimer, Waiting, NoRun, NoReward, Idle
<1>3. KeyInv
  BY <1>1 DEF KeyInv, OwnerOK, Executing, Succeeded, Waiting
<1>4. HonestInv
  BY <1>1 DEF HonestInv, HonestOK, Waiting, Idle
<1> QED
  BY <1>2, <1>3, <1>4, InitHInv DEF SInv

LEMMA StepSInv == SInv /\ [HeistNext]_heistVars => SInv'
BY StepHInv, StepRecords, StepKeys, StepHonest DEF SInv

LEMMA HeistSafety == HeistSpec => []SInv
BY InitSInv, StepSInv, PTL DEF HeistSpec

(* A run is scored at most once, by the finish whose settlement it keeps,    *)
(* after its reward was granted (gameplay.Service.Finish, Runs.Finish).      *)
THEOREM RunsScoreOnce == HeistSpec => []ScoredOnce
<1>1. SInv => ScoredOnce
  <2> SUFFICES ASSUME SInv, NEW h \in Applied("finish")
               PROVE  /\ runs[Plan[h].run].status = "FINISHED"
                      /\ runs[Plan[h].run].result = Plan[h].result
                      /\ rewards[Plan[h].run].status # "none"
                      /\ \A g \in Applied("finish") : Plan[g].run = Plan[h].run => g = h
    BY DEF ScoredOnce
  <2>1. \A g \in Applied("finish") : g \in Request /\ Settler(g) /\ mut[g].pc # "idle"
    BY DEF Applied, SInv, PInv, ProfileTypeOK, SnapshotCoherent, Coherent, Settler
  <2> QED
    BY <2>1 DEF SInv, RecInv, SettlerOK
<1> QED
  BY <1>1, HeistSafety, PTL

(* A reward is credited at most once, with what the settled score is worth    *)
(* (reward.Service.Claim, GrantRunLoot).                                    *)
THEOREM RewardsPayOnce == HeistSpec => []PaidOnce
<1>1. SInv => PaidOnce
  <2> SUFFICES ASSUME SInv, NEW h \in Applied("claim")
               PROVE  /\ rewards[Plan[h].run].status = "CLAIMED"
                      /\ mut[h].op.coins = RunLootCoins(runs[Plan[h].run].result.score)
                      /\ \A g \in Applied("claim") : Plan[g].run = Plan[h].run => g = h
    BY DEF PaidOnce
  <2>1. \A g \in Applied("claim") : g \in Request /\ Claimer(g) /\ Plan[g].run \in Request
    BY PlanTyped DEF Applied, SInv, PInv, ProfileTypeOK, SnapshotCoherent, Coherent, Claimer
  <2>2. /\ rewards[Plan[h].run].status = "CLAIMED"
        /\ mut[h].op.coins = rewards[Plan[h].run].coins
        /\ \A g \in Applied("claim") : Plan[g].run = Plan[h].run => g = h
    <3>1. ClaimerOK(h)
      BY <2>1 DEF SInv, RecInv
    <3>2. \A coins : CreditOp(coins).coins = coins
      BY DEF CreditOp
    <3> QED
      BY <2>1, <3>1, <3>2 DEF ClaimerOK
  <2> QED
    BY <2>1, <2>2 DEF SInv, RecInv, RewardOK
<1> QED
  BY <1>1, HeistSafety, PTL

(* No run without its charge, and none outlives the event by more than the    *)
(* grace period (gameplay.Service.Start).                                   *)
THEOREM ChargesComeFirst == HeistSpec => []RunsArePaidFor
<1>1. SInv => RunsArePaidFor
  BY DEF SInv, RecInv, RunOK, RunsArePaidFor
<1> QED
  BY <1>1, HeistSafety, PTL

(* One protected execution per key at a time, none after a success            *)
(* (httpapi.idempotent).                                                     *)
THEOREM KeysHaveOneOwner == HeistSpec => []OneOwnerPerKey
<1>1. SInv => OneOwnerPerKey
  BY DEF SInv, KeyInv, OwnerOK, OneOwnerPerKey, Executing, Succeeded
<1> QED
  BY <1>1, HeistSafety, PTL

(* Nobody is replayed an answer that no owner of the key was given            *)
(* (httpapi.idempotent, Idempotency.Complete).                               *)
THEOREM ReplaysRepeat == HeistSpec => []ReplaysAreTrue
<1>1. SInv => ReplaysAreTrue
  BY DEF SInv, KeyInv, Answered, ReplaysAreTrue
<1> QED
  BY <1>1, HeistSafety, PTL

(* 2xx means done, and a refused start or purchase was not charged for.       *)
THEOREM AnswersAreTrue == HeistSpec => []AnswersAreHonest
<1>1. SInv => AnswersAreHonest
  BY DEF SInv, HonestInv, HonestOK, AnswersAreHonest
<1> QED
  BY <1>1, HeistSafety, PTL

(* Settled runs, amounts, claims and stored answers are final (Runs.Finish,   *)
(* Rewards.Claim, the conditional puts of rewards and idempotency records).  *)
THEOREM RecordsAdvance == HeistSpec => RecordsOnlyAdvance
<1>1. ASSUME SInv, [HeistNext]_heistVars, NEW r \in Request, runs[r].status = "FINISHED"
      PROVE  runs'[r] = runs[r]
  <2>0. runs \in [Request -> RunState] /\ RunOK(r)
    BY <1>1 DEF SInv, HInv, HeistTypeOK, RecInv
  <2>1. ASSUME NEW h \in Request, NEW answered \in BOOLEAN, StartPut(h, answered) PROVE runs'[r] = runs[r]
    BY <1>1, <2>0, <2>1 DEF StartPut, At, RunOK
  <2>2. ASSUME NEW h \in Request, NEW answered \in BOOLEAN, FinishSettle(h, answered) PROVE runs'[r] = runs[r]
    BY <1>1, <2>0, <2>2 DEF FinishSettle
  <2> QED
    BY <1>1, <2>1, <2>2, RunsFrame
<1>2. ASSUME SInv, [HeistNext]_heistVars, NEW r \in Request, rewards[r].status # "none"
      PROVE  /\ rewards'[r].coins = rewards[r].coins
             /\ rewards[r].status = "CLAIMED" => rewards'[r].status = "CLAIMED"
  <2>0. rewards \in [Request -> RewardState]
    BY <1>2 DEF SInv, HInv, HeistTypeOK
  <2>1. ASSUME NEW h \in Request, FinishGrant(h) \/ FinishGrantUnanswered(h) PROVE rewards'[r] = rewards[r]
    BY <1>2, <2>0, <2>1 DEF FinishGrant, FinishGrantUnanswered, Granted
  <2>2. ASSUME NEW h \in Request, ClaimFlip(h) \/ ClaimFlipUnanswered(h)
        PROVE  /\ rewards'[r].coins = rewards[r].coins
               /\ rewards[r].status = "CLAIMED" => rewards'[r].status = "CLAIMED"
    BY <1>2, <2>0, <2>2 DEF ClaimFlip, ClaimFlipUnanswered, RewardState
  <2> QED
    BY <1>2, <2>1, <2>2, RewardsFrame
<1>3. ASSUME SInv, [HeistNext]_heistVars, NEW k \in Key, idem[k] \in {"ok", "refused"}
      PROVE  idem'[k] = idem[k]
  <2>0. /\ idem \in [Key -> {"free", "in_progress", "ok", "refused"}]
        /\ \A h \in Request : Executing(h) => Plan[h].key # k
    BY <1>3 DEF SInv, HInv, HeistTypeOK, KeyInv, OwnerOK
  <2>1. ASSUME NEW h \in Request, BeginAcquired(h) \/ \E reserved \in BOOLEAN : BeginFails(h, reserved)
        PROVE  idem'[k] = idem[k]
    BY <1>3, <2>0, <2>1 DEF BeginAcquired, BeginFails
  <2>2. ASSUME NEW h \in Request, Complete(h) \/ Abort(h) PROVE idem'[k] = idem[k]
    <3>1. Executing(h)
      BY <2>2, OutcomeMeans DEF Complete, Abort, Executing
    <3> QED
      BY <2>0, <2>2, <3>1 DEF Complete, Abort
  <2> QED
    BY <1>3, <2>1, <2>2, IdemFrame
<1>4. SInv /\ [HeistNext]_heistVars =>
        [/\ \A r \in Request :
              /\ runs[r].status = "FINISHED" => runs'[r] = runs[r]
              /\ rewards[r].status # "none" => rewards'[r].coins = rewards[r].coins
              /\ rewards[r].status = "CLAIMED" => rewards'[r].status = "CLAIMED"
         /\ \A k \in Key : idem[k] \in {"ok", "refused"} => idem'[k] = idem[k]]_heistVars
  BY <1>1, <1>2, <1>3
<1> QED
  BY <1>4, HeistSafety, PTL DEF HeistSpec, RecordsOnlyAdvance
=============================================================================
