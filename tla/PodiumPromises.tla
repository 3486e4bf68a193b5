---------------------------- MODULE PodiumPromises -----------------------------
(***************************************************************************)
(* What the distribution of leaderboard rewards promises.                  *)
(***************************************************************************)
EXTENDS Podium

PassState ==
  [pc : {"idle", "top", "grant", "forget"}, seen : [version : 0..MaxVersion, distributed : BOOLEAN],
   top : [Player -> 0..PodiumSize], next : 0..(PodiumSize + 1)]

(* Types of the leaderboard, the rewards and the job. *)
PodiumTypeOK ==
  /\ board \in [Player -> {Unranked} \cup {a.score : a \in Arrival}]
  /\ podium \in [Player -> 0..PodiumSize]
  /\ pass \in [Worker -> PassState]
  /\ onTime \subseteq Player

Paid == {p \in Player : podium[p] # 0}

(* An event is flagged only "after a successful pass" (reward.Distributor):  *)
(* by then as many players have a reward as there are places, or as there   *)
(* were players on the board when the event ended.                          *)
FlagMeansPaid ==
  meta.distributed =>
    \/ Cardinality(Paid) >= PodiumSize
    \/ Cardinality(Paid) >= Cardinality(onTime)

(* Whoever repeats a pass, a reward once created is never rewritten, so that *)
(* a claimed one is not pending again ("idempotent: reward ids are derived  *)
(* from the event").                                                        *)
RewardsAreFinal ==
  [][\A p \in Player : podium[p] # 0 => podium'[p] = podium[p]]_podiumVars

(* An ended event is paid in the end, and stays flagged: although workers    *)
(* repeat and fail, and publishers write old flags back.                    *)
EventuallyDistributed == (meta # NoMeta /\ now >= EndsAt) ~> [](meta.distributed)
=============================================================================
