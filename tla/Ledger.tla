-------------------------------- MODULE Ledger --------------------------------
(***************************************************************************)
(* What the profile store promises its callers (docs/architecture.md,      *)
(* section 6: the profile is linearizable per player): every request takes *)
(* effect at most once and in a single step, its decision taken on the     *)
(* very profile it replaces.  Nothing is said of retries, versions or      *)
(* lost races; Profile implements this.                                    *)
(***************************************************************************)
EXTENDS Naturals

CONSTANTS
  Request,            \* requests that mutate the profile
  Workload,           \* the operations they may carry
  NoOp,               \* a request that carries no operation yet
  Fresh,              \* the profile of a new player
  Allowed(_, _, _),   \* may op be applied to profile p at time t
  Written(_, _, _, _) \* what is stored when it is, at time t, and the write lands at u

VARIABLES
  profile,      \* the player's profile, as stored
  order,        \* order[r]: the operation r carries
  applied,      \* requests whose effect is in profile
  now           \* the clock

ledgerVars == <<profile, order, applied, now>>

LedgerInit ==
  /\ now = 1
  /\ profile = Fresh
  /\ order = [r \in Request |-> NoOp]
  /\ applied = {}

(* A caller asks for an operation. *)
Submit(r, op) ==
  /\ order[r] = NoOp
  /\ order' = [order EXCEPT ![r] = op]
  /\ UNCHANGED <<profile, applied, now>>

(* The whole effect at once.  The clock of the decision may be a little     *)
(* behind the clock of the write.                                           *)
Commit(r) ==
  /\ order[r] # NoOp
  /\ r \notin applied
  /\ \E at \in 1..now :
       /\ Allowed(order[r], profile, at)
       /\ profile' = Written(order[r], profile, at, now)
  /\ applied' = applied \cup {r}
  /\ UNCHANGED <<order, now>>

Advance ==
  /\ now' = now + 1
  /\ UNCHANGED <<profile, order, applied>>

LedgerNext ==
  \/ \E r \in Request, op \in Workload : Submit(r, op)
  \/ \E r \in Request : Commit(r)
  \/ Advance

LedgerSpec == LedgerInit /\ [][LedgerNext]_ledgerVars
=============================================================================
