--------------------------------- MODULE Heist ---------------------------------
(***************************************************************************)
(* One player's requests through the API: the idempotency middleware, and  *)
(* behind it the handlers of heists (start, finish), rewards (claim) and   *)
(* the shop (purchase).  Each of them is a sequence of store calls with    *)
(* player.Service.Mutate (module Profile) among them; requests interleave  *)
(* between any two calls, and any call may fail, or take effect and lose   *)
(* its answer.                                                             *)
(***************************************************************************)
EXTENDS Profile

CONSTANTS
  Plan,         \* Plan[h]: what request h asks for
  EndsAt,       \* EventMeta.EndsAt
  RunTTL,       \* RUN_TTL
  Grace,        \* the 15 minutes a run may outlive its event
  Invalid       \* a replay the engine rejects, and the result of an unfinished run

Result == [score : Nat, loot : Nat]
NoKey == ""

(* A run is named by the start request that mints its id; a reward by the run *)
(* it pays for ("rwd_" + run id).  A retry is a request with the same plan.   *)
HttpRequest ==
  [kind : {"start"}, key : STRING, op : Start] \cup
  [kind : {"finish"}, key : STRING, run : Request, result : Result \cup {Invalid}] \cup
  [kind : {"claim"}, key : STRING, run : Request] \cup
  [kind : {"purchase"}, key : STRING, op : Purchase]

Key == {Plan[h].key : h \in Request} \ {NoKey}

(* reward.RunLootCoins *)
RunLootCoins(score) == Larger(10, score \div 100)

SettleOp(result) == [type |-> "settle", score |-> result.score, loot |-> result.loot]
CreditOp(coins) == [type |-> "credit", coins |-> coins, boosters |-> [b \in Booster |-> 0]]

ASSUME HeistAssumption ==
  /\ Plan \in [Request -> HttpRequest]
  /\ Invalid \notin Result
  /\ EndsAt \in Nat /\ RunTTL \in Nat /\ Grace \in Nat
  /\ \A h \in Request :
       CASE Plan[h].kind \in {"start", "purchase"} -> Plan[h].op \in Workload
         [] Plan[h].kind = "finish" /\ Plan[h].result # Invalid ->
              /\ SettleOp(Plan[h].result) \in Workload
              /\ CreditOp(RunLootCoins(Plan[h].result.score)) \in Workload
         [] OTHER -> TRUE

VARIABLES
  runs,         \* runs[r]: the run minted by start request r
  rewards,      \* rewards[r]: the loot reward of run r
  idem,         \* idem[k]: the idempotency record of key k
  call          \* call[h]: where the handling of request h stands

heistOnly == <<runs, rewards, idem, call>>
heistVars == <<profileVars, heistOnly>>

NoRun == [status |-> "none", expiresAt |-> 0, result |-> Invalid]
NoReward == [status |-> "none", coins |-> 0]

(* Answers, by what the middleware makes of them: 2xx, 4xx (both stored under *)
(* the key), 5xx (the key is released), and its own 409 for a key in use.     *)
Answer == {"ok", "refused", "failed", "busy"}
CallPc == {"new", "begin", "lookup", "serve", "settle", "grant", "mutate", "put", "answer", "done"}

(* role: "owner" holds the key's record, "bare" runs without one. *)
Waiting == [pc |-> "new", role |-> "none", status |-> "none", at |-> 0]

HeistInit ==
  /\ ProfileInit
  /\ runs = [r \in Request |-> NoRun]
  /\ rewards = [r \in Request |-> NoReward]
  /\ idem = [k \in Key |-> "free"]
  /\ call = [h \in Request |-> Waiting]

At(h, kind, pc) == Plan[h].kind = kind /\ call[h].pc = pc
Go(h, pc) == call' = [call EXCEPT ![h].pc = pc]
Decide(h, answer) == call' = [call EXCEPT ![h].pc = "answer", ![h].status = answer, ![h].at = 0]
End(h, answer) == call' = [call EXCEPT ![h].pc = "done", ![h].status = answer, ![h].at = 0]
(* A write that took effect; the caller may be told it failed. *)
Told(answered) == answered \/ "acklost" \in Faults
Proceed(h, pc, answered) == IF answered THEN Go(h, pc) ELSE Decide(h, "failed")

-----------------------------------------------------------------------------
(* The middleware (httpapi.idempotent). *)

(* A client asks only for runs and rewards it was told of. *)
Send(h) ==
  /\ call[h].pc = "new"
  /\ Plan[h].kind = "finish" => runs[Plan[h].run].status # "none"
  /\ Plan[h].kind = "claim" => rewards[Plan[h].run].status # "none"
  /\ call' = [call EXCEPT ![h] = IF Plan[h].key = NoKey
                                 THEN [@ EXCEPT !.pc = "serve", !.role = "bare"]
                                 ELSE [@ EXCEPT !.pc = "begin"]]
  /\ UNCHANGED <<profileVars, runs, rewards, idem>>

(* Idempotency.Begin: the conditional put of an IN_PROGRESS record. *)
BeginAcquired_Unconditional(h) ==
  /\ call[h].pc = "begin"
  /\ idem' = [idem EXCEPT ![Plan[h].key] = "in_progress"]
  /\ call' = [call EXCEPT ![h].pc = "serve", ![h].role = "owner"]
  /\ UNCHANGED <<profileVars, runs, rewards>>
BeginAcquired(h) ==
  /\ call[h].pc = "begin"
  /\ idem[Plan[h].key] = "free"
  /\ idem' = [idem EXCEPT ![Plan[h].key] = "in_progress"]
  /\ call' = [call EXCEPT ![h].pc = "serve", ![h].role = "owner"]
  /\ UNCHANGED <<profileVars, runs, rewards>>

(* What is said to a request whose key has a record. *)
FromRecord_Waits(h) ==
  IF idem[Plan[h].key] = "in_progress" THEN Go(h, "begin") ELSE End(h, idem[Plan[h].key])
FromRecord_AlwaysOk(h) ==
  End(h, IF idem[Plan[h].key] = "in_progress" THEN "busy" ELSE "ok")
FromRecord(h) ==
  End(h, IF idem[Plan[h].key] = "in_progress" THEN "busy" ELSE idem[Plan[h].key])

(* The key is taken.  The memory adapter reads the record under the same   *)
(* lock; the DynamoDB adapter reads it with a second call.                 *)
BeginTaken(h) ==
  /\ call[h].pc = "begin"
  /\ idem[Plan[h].key] # "free"
  /\ IF Backend = "memory" THEN FromRecord(h) ELSE Go(h, "lookup")
  /\ UNCHANGED <<profileVars, runs, rewards, idem>>

Lookup(h) ==
  /\ call[h].pc = "lookup"
  /\ idem[Plan[h].key] # "free"
  /\ FromRecord(h)
  /\ UNCHANGED <<profileVars, runs, rewards, idem>>

(* Begin returns an error, so the request is processed without protection:  *)
(* the record was released between the two calls (LookupGone), or a call    *)
(* failed, perhaps after it had reserved the key (BeginFails).              *)
LookupGone(h) ==
  /\ call[h].pc = "lookup"
  /\ idem[Plan[h].key] = "free"
  /\ call' = [call EXCEPT ![h].pc = "serve", ![h].role = "bare"]
  /\ UNCHANGED <<profileVars, runs, rewards, idem>>

BeginFails(h, reserved) ==
  /\ "error" \in Faults
  /\ call[h].pc \in {"begin", "lookup"}
  /\ reserved => "acklost" \in Faults /\ call[h].pc = "begin" /\ idem[Plan[h].key] = "free"
  /\ idem' = IF reserved THEN [idem EXCEPT ![Plan[h].key] = "in_progress"] ELSE idem
  /\ call' = [call EXCEPT ![h].pc = "serve", ![h].role = "bare"]
  /\ UNCHANGED <<profileVars, runs, rewards>>

(* The handler's answer, once it has one: its own, or what Mutate returned.  *)
(* ErrRetriesExhausted is classified 409.                                   *)
Outcome_ConflictIsOk(h) ==
  CASE call[h].pc = "answer" -> call[h].status
    [] call[h].pc = "mutate" /\ mut[h].pc = "failed" -> "failed"
    [] call[h].pc = "mutate" /\ mut[h].pc = "refused" -> "refused"
    [] call[h].pc = "mutate" /\ mut[h].pc \in {"conflict", "done"} /\ Plan[h].kind # "start" -> "ok"
    [] OTHER -> "none"
Outcome(h) ==
  CASE call[h].pc = "answer" -> call[h].status
    [] call[h].pc = "mutate" /\ mut[h].pc = "failed" -> "failed"
    [] call[h].pc = "mutate" /\ mut[h].pc \in {"refused", "conflict"} -> "refused"
    [] call[h].pc = "mutate" /\ mut[h].pc = "done" /\ Plan[h].kind # "start" -> "ok"
    [] OTHER -> "none"

(* Idempotency.Complete stores an answer below 500 in the record. *)
Complete(h) ==
  /\ Outcome(h) \in {"ok", "refused"}
  /\ call[h].role = "owner"
  /\ idem' = [idem EXCEPT ![Plan[h].key] = IF @ = "free" THEN @ ELSE Outcome(h)]
  /\ End(h, Outcome(h))
  /\ UNCHANGED <<profileVars, runs, rewards>>

(* Idempotency.Abort releases the key after a 5xx, "let the client retry". *)
Abort(h) ==
  /\ Outcome(h) = "failed"
  /\ call[h].role = "owner"
  /\ idem' = [idem EXCEPT ![Plan[h].key] = "free"]
  /\ End(h, "failed")
  /\ UNCHANGED <<profileVars, runs, rewards>>

(* There is no record to settle, or the call that settles it fails: an error *)
(* the middleware logs and drops.                                            *)
ReplyOnly(h) ==
  /\ Outcome(h) # "none"
  /\ call[h].role = "bare" \/ "error" \in Faults
  /\ End(h, Outcome(h))
  /\ UNCHANGED <<profileVars, runs, rewards, idem>>

-----------------------------------------------------------------------------
(* Handlers. *)

(* shop.Service.Purchase *)
PurchaseServe(h) ==
  /\ At(h, "purchase", "serve")
  /\ Call(h, Plan[h].op)
  /\ Go(h, "mutate")
  /\ UNCHANGED <<runs, rewards, idem>>

(* gameplay.Service.Start: while the event is open, charge, then store the run. *)
StartRefused(h) ==
  /\ At(h, "start", "serve")
  /\ now >= EndsAt
  /\ Decide(h, "refused")
  /\ UNCHANGED <<profileVars, runs, rewards, idem>>

StartCharge(h) ==
  /\ At(h, "start", "serve")
  /\ now < EndsAt
  /\ Call(h, Plan[h].op)
  /\ call' = [call EXCEPT ![h].pc = "mutate", ![h].at = now]
  /\ UNCHANGED <<runs, rewards, idem>>

NewRun_NoGrace(at) ==
  [status |-> "ACTIVE", expiresAt |-> at + RunTTL, result |-> Invalid]
NewRun(at) ==
  [status |-> "ACTIVE", expiresAt |-> Smaller(at + RunTTL, EndsAt + Grace), result |-> Invalid]

(* Runs.Put, after the charge went through. *)
StartPut(h, answered) ==
  /\ At(h, "start", "mutate")
  /\ mut[h].pc = "done"
  /\ Told(answered)
  /\ runs' = [runs EXCEPT ![h] = NewRun(call[h].at)]
  /\ Decide(h, IF answered THEN "ok" ELSE "failed")
  /\ UNCHANGED <<profileVars, rewards, idem>>

(* gameplay.Service.Finish: load the run and go through the validation chain. *)
Finishable(h) ==
  /\ runs[Plan[h].run].status = "ACTIVE"
  /\ now <= runs[Plan[h].run].expiresAt
  /\ Plan[h].result # Invalid

FinishRefused(h) ==
  /\ At(h, "finish", "serve")
  /\ ~Finishable(h)
  /\ Decide(h, "refused")
  /\ UNCHANGED <<profileVars, runs, rewards, idem>>

FinishLoad(h) ==
  /\ At(h, "finish", "serve")
  /\ Finishable(h)
  /\ Go(h, "settle")
  /\ UNCHANGED <<profileVars, runs, rewards, idem>>

(* Runs.Finish: ACTIVE -> FINISHED, on the condition that it still is ACTIVE. *)
FinishSettle_NoCondition(h, answered) ==
  /\ call[h].pc = "settle"
  /\ Told(answered)
  /\ runs' = [runs EXCEPT ![Plan[h].run].status = "FINISHED",
                          ![Plan[h].run].result = Plan[h].result]
  /\ Proceed(h, "grant", answered)
  /\ UNCHANGED <<profileVars, rewards, idem>>
FinishSettle(h, answered) ==
  /\ call[h].pc = "settle"
  /\ runs[Plan[h].run].status = "ACTIVE"
  /\ Told(answered)
  /\ runs' = [runs EXCEPT ![Plan[h].run].status = "FINISHED",
                          ![Plan[h].run].result = Plan[h].result]
  /\ Proceed(h, "grant", answered)
  /\ UNCHANGED <<profileVars, rewards, idem>>

FinishLost(h) ==
  /\ call[h].pc = "settle"
  /\ runs[Plan[h].run].status # "ACTIVE"
  /\ Decide(h, "refused")
  /\ UNCHANGED <<profileVars, runs, rewards, idem>>

(* reward.Service.GrantRunLoot creates the reward unless it exists, and the  *)
(* statistics are handed to Mutate.                                          *)
Granted(h) ==
  IF rewards[Plan[h].run].status = "none"
  THEN [status |-> "PENDING", coins |-> RunLootCoins(Plan[h].result.score)]
  ELSE rewards[Plan[h].run]

FinishGrant(h) ==
  /\ call[h].pc = "grant"
  /\ rewards' = [rewards EXCEPT ![Plan[h].run] = Granted(h)]
  /\ Call(h, SettleOp(Plan[h].result))
  /\ Go(h, "mutate")
  /\ UNCHANGED <<runs, idem>>

FinishGrantUnanswered(h) ==
  /\ call[h].pc = "grant"
  /\ "acklost" \in Faults
  /\ rewards' = [rewards EXCEPT ![Plan[h].run] = Granted(h)]
  /\ Decide(h, "failed")
  /\ UNCHANGED <<profileVars, runs, idem>>

(* reward.Service.Claim: PENDING -> CLAIMED, then the credit. *)
ClaimFlip_Unchecked(h) ==
  /\ At(h, "claim", "serve")
  /\ rewards' = [rewards EXCEPT ![Plan[h].run].status = "CLAIMED"]
  /\ Call(h, CreditOp(rewards[Plan[h].run].coins))
  /\ Go(h, "mutate")
  /\ UNCHANGED <<runs, idem>>
ClaimFlip(h) ==
  /\ At(h, "claim", "serve")
  /\ rewards[Plan[h].run].status = "PENDING"
  /\ rewards' = [rewards EXCEPT ![Plan[h].run].status = "CLAIMED"]
  /\ Call(h, CreditOp(rewards[Plan[h].run].coins))
  /\ Go(h, "mutate")
  /\ UNCHANGED <<runs, idem>>

ClaimFlipUnanswered(h) ==
  /\ At(h, "claim", "serve")
  /\ rewards[Plan[h].run].status = "PENDING"
  /\ "acklost" \in Faults
  /\ rewards' = [rewards EXCEPT ![Plan[h].run].status = "CLAIMED"]
  /\ Decide(h, "failed")
  /\ UNCHANGED <<profileVars, runs, idem>>

ClaimRefused(h) ==
  /\ At(h, "claim", "serve")
  /\ rewards[Plan[h].run].status # "PENDING"
  /\ Decide(h, "refused")
  /\ UNCHANGED <<profileVars, runs, rewards, idem>>

(* A store call of a handler fails and leaves nothing: 503. *)
Mutated(h) == call[h].pc = "mutate" /\ mut[h].pc = "done"
CallsStore(h) ==
  \/ call[h].pc = "serve" /\ Plan[h].kind # "purchase"
  \/ call[h].pc \in {"settle", "grant"}
  \/ Mutated(h) /\ Plan[h].kind = "start"
StoreFails(h) ==
  /\ "error" \in Faults
  /\ CallsStore(h)
  /\ Decide(h, "failed")
  /\ UNCHANGED <<profileVars, runs, rewards, idem>>

HandlerMutates(h) ==
  /\ call[h].pc = "mutate"
  /\ MutateStep(h)
  /\ UNCHANGED heistOnly

Passes ==
  /\ Tick
  /\ UNCHANGED heistOnly

-----------------------------------------------------------------------------
Middleware(h) ==
  \/ BeginAcquired(h) \/ BeginTaken(h) \/ Lookup(h) \/ LookupGone(h)
  \/ \E reserved \in BOOLEAN : BeginFails(h, reserved)
  \/ Complete(h) \/ Abort(h) \/ ReplyOnly(h)

Handler(h) ==
  \/ PurchaseServe(h)
  \/ StartRefused(h) \/ StartCharge(h)
  \/ \E answered \in BOOLEAN : StartPut(h, answered) \/ FinishSettle(h, answered)
  \/ FinishRefused(h) \/ FinishLoad(h) \/ FinishLost(h)
  \/ FinishGrant(h) \/ FinishGrantUnanswered(h)
  \/ ClaimFlip(h) \/ ClaimFlipUnanswered(h) \/ ClaimRefused(h)
  \/ StoreFails(h)
  \/ HandlerMutates(h)

Serve(h) == Middleware(h) \/ Handler(h)

HeistNext ==
  \/ \E h \in Request : Send(h) \/ Serve(h)
  \/ Passes

HeistSpec == HeistInit /\ [][HeistNext]_heistVars

(* Go runs every handler to its end; the process is assumed to stay up. *)
FairHeistSpec == HeistSpec /\ \A h \in Request : WF_heistVars(Serve(h))
=============================================================================
