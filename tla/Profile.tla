-------------------------------- MODULE Profile --------------------------------
(***************************************************************************)
(* The profile of one player under concurrent requests: the version-       *)
(* checked store (Players.Get, Players.Update) and the bounded retry loop  *)
(* of player.Service.Mutate, through which every purchase, heist charge,   *)
(* settlement, reward credit and operator grant goes.  Each store call is  *)
(* one step; between the read and the write of a request any other request *)
(* may run.                                                                *)
(***************************************************************************)
EXTENDS PlayerRules, FiniteSets

CONSTANTS
  Request,      \* HTTP requests; a request calls Mutate at most once
  Workload,     \* the operations requests may carry
  NoOp,         \* a request that has not called Mutate
  MaxRetries,   \* player.MaxRetries
  MaxNow,       \* bound: ticks of the clock
  Faults        \* what the store may do to a call

(* "error": a call fails and leaves nothing; "acklost": a write lands and   *)
(* its answer does not.  A request whose task dies is one that takes no      *)
(* further step: nothing of it outlives the process.                        *)
FaultKinds == {"error", "acklost"}

ASSUME ProfileAssumption ==
  /\ MaxRetries \in Nat \ {0}
  /\ MaxNow \in Nat \ {0}
  /\ Faults \subseteq FaultKinds
  /\ Workload \subseteq Operation
  /\ NoOp \notin Workload

VARIABLES
  profile,      \* the stored item's data
  version,      \* the stored item's version attribute
  mut,          \* mut[h]: the Mutate call of request h
  applied,      \* history: requests whose Update took effect
  now           \* time.Now

profileVars == <<profile, version, mut, applied, now>>

(* What Mutate returned: a value, fn's error, ErrRetriesExhausted, or the   *)
(* store's error.                                                           *)
Returned == {"done", "refused", "conflict", "failed"}
MutPc == {"idle", "get", "update"} \cup Returned

(* Locals of a call: the loop counter, and what Get returned and when. *)
MutateCall == [pc : MutPc, op : Workload \cup {NoOp}, attempt : 0..MaxRetries,
               read : Player \cup {NoOp}, readVersion : Nat, at : 0..MaxNow]
Idle == [pc |-> "idle", op |-> NoOp, attempt |-> 0, read |-> NoOp, readVersion |-> 0, at |-> 0]

ProfileInit ==
  /\ now = 1
  /\ profile = Stored(NewPlayer(now))
  /\ version = 1
  /\ mut = [h \in Request |-> Idle]
  /\ applied = {}

(* The call ends, or tries again: what the attempt had read goes out of scope. *)
Leave(m, pc, attempt) == [Idle EXCEPT !.pc = pc, !.op = m.op, !.attempt = attempt]
Return(m, pc) == Leave(m, pc, 0)

(* A service calls Mutate with op as its decision function. *)
Call(h, op) ==
  /\ mut[h].pc = "idle"
  /\ mut' = [mut EXCEPT ![h] = [Idle EXCEPT !.pc = "get", !.op = op]]
  /\ UNCHANGED <<profile, version, applied, now>>

(* Players.Get, then ApplyRegen and fn on the copy: fn's error ends the call. *)
Get(h) ==
  /\ mut[h].pc = "get"
  /\ mut' = [mut EXCEPT ![h] =
       IF Allowed(@.op, profile, now)
       THEN [@ EXCEPT !.pc = "update", !.read = profile, !.readVersion = version, !.at = now]
       ELSE Return(@, "refused")]
  /\ UNCHANGED <<profile, version, applied, now>>

(* Players.Update where the stored version still is the one that was read. *)
(* With answered = FALSE the caller sees an error although it took effect. *)
Update_NoVersionCheck(h, answered) ==
  /\ mut[h].pc = "update"
  /\ answered \/ "acklost" \in Faults
  /\ profile' = Written(mut[h].op, mut[h].read, mut[h].at, now)
  /\ version' = version + 1
  /\ mut' = [mut EXCEPT ![h] = Return(@, IF answered THEN "done" ELSE "failed")]
  /\ applied' = applied \cup {h}
  /\ UNCHANGED now
Update(h, answered) ==
  /\ mut[h].pc = "update"
  /\ version = mut[h].readVersion
  /\ answered \/ "acklost" \in Faults
  /\ profile' = Written(mut[h].op, mut[h].read, mut[h].at, now)
  /\ version' = version + 1
  /\ mut' = [mut EXCEPT ![h] = Return(@, IF answered THEN "done" ELSE "failed")]
  /\ applied' = applied \cup {h}
  /\ UNCHANGED now

(* ErrVersionConflict: read again, until the attempts are used up. *)
UpdateConflict_KeepsDecision(h) ==
  /\ mut[h].pc = "update"
  /\ version # mut[h].readVersion
  /\ mut' = [mut EXCEPT ![h].readVersion = version]
  /\ UNCHANGED <<profile, version, applied, now>>
UpdateConflict_ReportsDone(h) ==
  /\ mut[h].pc = "update"
  /\ version # mut[h].readVersion
  /\ mut' = [mut EXCEPT ![h] = Return(@, "done")]
  /\ UNCHANGED <<profile, version, applied, now>>
UpdateConflict(h) ==
  /\ mut[h].pc = "update"
  /\ version # mut[h].readVersion
  /\ mut' = [mut EXCEPT ![h] =
       IF @.attempt + 1 < MaxRetries THEN Leave(@, "get", @.attempt + 1)
       ELSE Return(@, "conflict")]
  /\ UNCHANGED <<profile, version, applied, now>>

(* Any other error of Get or Update ends the call at once. *)
CallFails(h) ==
  /\ "error" \in Faults
  /\ mut[h].pc \in {"get", "update"}
  /\ mut' = [mut EXCEPT ![h] = Return(@, "failed")]
  /\ UNCHANGED <<profile, version, applied, now>>

MutateStep(h) ==
  \/ Get(h)
  \/ \E answered \in BOOLEAN : Update(h, answered)
  \/ UpdateConflict(h)
  \/ CallFails(h)

(* The clock. *)
Tick ==
  /\ now < MaxNow
  /\ now' = now + 1
  /\ UNCHANGED <<profile, version, mut, applied>>

ProfileNext ==
  \/ \E h \in Request, op \in Workload : Call(h, op)
  \/ \E h \in Request : MutateStep(h)
  \/ Tick

ProfileSpec == ProfileInit /\ [][ProfileNext]_profileVars

-----------------------------------------------------------------------------
(* Types.  Every balance is a natural number and lives stay in 0..MaxLives: *)
(* no interleaving of purchases, charges and grants overdraws the profile   *)
(* (player.Service.Mutate, shop.Service.Purchase, gameplay.Service.Start).  *)
ProfileTypeOK ==
  /\ profile \in Player
  /\ version \in Nat \ {0}
  /\ now \in 1..MaxNow
  /\ applied \subseteq Request
  /\ mut \in [Request -> MutateCall]

(* A write counts once: the version is one more than the number of requests *)
(* that took effect, and a request told "done" is one of them.              *)
VersionCountsWrites ==
  /\ version = 1 + Cardinality(applied)
  /\ \A h \in Request : mut[h].pc = "done" => h \in applied

(* Every request takes effect atomically, at most once, on the profile its  *)
(* decision was taken on, whatever the races and retries in Mutate.         *)
L == INSTANCE Ledger WITH order <- [h \in Request |-> mut[h].op],
                          Fresh <- Stored(NewPlayer(1))
Linearizable == L!LedgerSpec
=============================================================================
