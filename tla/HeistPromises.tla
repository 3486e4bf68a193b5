------------------------------ MODULE HeistPromises ------------------------------
(***************************************************************************)
(* What the API promises about heists, rewards and retries: the properties *)
(* of Heist, those the code keeps and, at the end, those the documentation *)
(* states and the code does not keep.                                      *)
(***************************************************************************)
EXTENDS Heist

RunState == [status : {"none", "ACTIVE", "FINISHED"}, expiresAt : Nat,
             result : Result \cup {Invalid}]
RewardState == [status : {"none", "PENDING", "CLAIMED"}, coins : Nat]
CallState == [pc : CallPc, role : {"none", "owner", "bare"},
              status : Answer \cup {"none"}, at : 0..MaxNow]

(* Types of the middleware's and the handlers' state. *)
HeistTypeOK ==
  /\ runs \in [Request -> RunState]
  /\ rewards \in [Request -> RewardState]
  /\ idem \in [Key -> {"free", "in_progress", "ok", "refused"}]
  /\ call \in [Request -> CallState]

Applied(kind) == {h \in applied : Plan[h].kind = kind}

(* A run is scored at most once, by the finish whose settlement it keeps,   *)
(* and never before that finish granted its reward (store.Runs.Finish: "so  *)
(* a run can never be scored twice"), whoever retries or races.             *)
ScoredOnce ==
  \A h \in Applied("finish") :
    /\ runs[Plan[h].run].status = "FINISHED"
    /\ runs[Plan[h].run].result = Plan[h].result
    /\ rewards[Plan[h].run].status # "none"
    /\ \A g \in Applied("finish") : Plan[g].run = Plan[h].run => g = h

(* A reward is credited at most once, after it was claimed, and with what   *)
(* the settled score of its run is worth (reward.Service.Claim,             *)
(* GrantRunLoot).                                                           *)
PaidOnce ==
  \A h \in Applied("claim") :
    /\ rewards[Plan[h].run].status = "CLAIMED"
    /\ mut[h].op.coins = RunLootCoins(runs[Plan[h].run].result.score)
    /\ \A g \in Applied("claim") : Plan[g].run = Plan[h].run => g = h

(* No run without its charge, and none that outlives its event by more than *)
(* the grace period (gameplay.Service.Start).                               *)
RunsArePaidFor ==
  \A r \in Request : runs[r].status # "none" =>
    /\ Plan[r].kind = "start" /\ r \in applied
    /\ runs[r].expiresAt <= EndsAt + Grace

(* At most one protected execution per key at a time, and none after one    *)
(* has succeeded (httpapi.idempotent).                                      *)
Executing(h) == call[h].role = "owner" /\ call[h].pc # "done"
Succeeded(h) == call[h].role = "owner" /\ call[h].status = "ok"
OneOwnerPerKey ==
  \A g, h \in Request :
    (g # h /\ Plan[g].key = Plan[h].key /\ Executing(g))
      => ~Executing(h) /\ ~Succeeded(h)

(* A replayed answer is the answer of an owner of the key: nobody is told   *)
(* of a success or a refusal that did not happen.                           *)
ReplaysAreTrue ==
  \A h \in Request :
    (call[h].pc = "done" /\ call[h].role = "none" /\ call[h].status # "busy") =>
      \E g \in Request : /\ Plan[g].key = Plan[h].key
                         /\ call[g].role = "owner" /\ call[g].pc = "done"
                         /\ call[g].status = call[h].status

(* 2xx means the whole request took effect; a 4xx of start and purchase that *)
(* the request earned itself means nothing was charged for it.              *)
AnswersAreHonest ==
  \A h \in Request : (call[h].pc = "done" /\ call[h].role # "none") =>
    /\ call[h].status = "ok" =>
         /\ h \in applied
         /\ Plan[h].kind = "start" => runs[h].status # "none"
    /\ (call[h].status = "refused" /\ Plan[h].kind \in {"start", "purchase"})
         => h \notin applied

(* Records only move forward: a settled run and the amount of a reward are   *)
(* never rewritten, a claim is never taken back, a stored answer is final.  *)
RecordsOnlyAdvance ==
  [][/\ \A r \in Request :
          /\ runs[r].status = "FINISHED" => runs'[r] = runs[r]
          /\ rewards[r].status # "none" => rewards'[r].coins = rewards[r].coins
          /\ rewards[r].status = "CLAIMED" => rewards'[r].status = "CLAIMED"
     /\ \A k \in Key : idem[k] \in {"ok", "refused"} => idem'[k] = idem[k]]_heistVars

(* Every request that was sent is answered: no handler waits for another     *)
(* one, and Mutate gives up after MaxRetries attempts.                      *)
EveryRequestAnswered ==
  \A h \in Request : call[h].pc # "new" ~> call[h].pc = "done"

-----------------------------------------------------------------------------
(* Promises of the documentation that fail when a store call fails.         *)

Over(h) == call[h].pc = "done"

(* docs/architecture.md, Fault tolerance: "a client retry with the same      *)
(* Idempotency-Key completes whatever remained".  When every finish of a     *)
(* settled run is over and one of them has a final answer, the reward was    *)
(* granted and the statistics were updated (gameplay.Service.Finish).       *)
FinishRetryCompletes ==
  \A r \in Request :
    LET finishes == {h \in Request : Plan[h].kind = "finish" /\ Plan[h].run = r}
    IN  (/\ runs[r].status = "FINISHED"
         /\ \A h \in finishes : Over(h)
         /\ \E h \in finishes : call[h].status \in {"ok", "refused"})
          => rewards[r].status # "none" /\ finishes \cap applied # {}

(* docs/architecture.md, Consistency model: reward claim, "exactly once".    *)
(* When every claim of a CLAIMED reward is over and one of them has a final  *)
(* answer, one of them was credited (reward.Service.Claim).                 *)
ClaimPaysOut ==
  \A r \in Request :
    LET claims == {h \in Request : Plan[h].kind = "claim" /\ Plan[h].run = r}
    IN  (/\ rewards[r].status = "CLAIMED"
         /\ \A h \in claims : Over(h)
         /\ \E h \in claims : call[h].status \in {"ok", "refused"})
          => claims \cap applied # {}

(* httpapi.idempotent "makes a mutating handler safe to retry": of the       *)
(* requests that held a key's record, at most one changed the profile.       *)
EffectOncePerKey ==
  \A g, h \in applied :
    (Plan[g].key = Plan[h].key /\ call[g].role = "owner" /\ call[h].role = "owner") => g = h
=============================================================================
