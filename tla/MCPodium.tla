-------------------------------- MODULE MCPodium -------------------------------
(***************************************************************************)
(* Two players with equal scores, two workers, and an event that the admin *)
(* creates and publishes to while it is being paid.                        *)
(***************************************************************************)
EXTENDS PodiumPromises, TLC
CONSTANTS w1, w2, c1, p1, easy, hard

MCWorker == {w1, w2}
MCOperation == {c1, p1}
MCAgenda == c1 :> [kind |-> "create", at |-> w1, content |-> hard]
         @@ p1 :> [kind |-> "publish", at |-> w2, content |-> easy]
MCContent == {easy, hard}
MCPlayer == 1..2
Scored(p, s) == [player |-> p, score |-> s]
MCArrival == {Scored(1, 20), Scored(2, 20)}
=============================================================================
