------------------------------- MODULE MCLiveOps -------------------------------
(* Two servers, a publisher on each; on one of them, two readers that       *)
(* provision the event when there is none.                                  *)
EXTENDS LiveOpsPromises, TLC
CONSTANTS s1, s2, r1, r2, p1, p2, daily, easy, hard

MCServer == {s1, s2}
MCContent == {daily, easy, hard}
Read(s) == [kind |-> "current", at |-> s]
Publish(s, content) == [kind |-> "publish", at |-> s, content |-> content]

MCOperation == {r1, r2, p1, p2}
MCAgenda == (r1 :> Read(s2) @@ r2 :> Read(s2) @@ p1 :> Publish(s1, easy) @@ p2 :> Publish(s2, hard))
(* The readers ask for the same on the same server. *)
MCSymmetry == Permutations({r1, r2})
=============================================================================
