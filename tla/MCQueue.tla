-------------------------------- MODULE MCQueue --------------------------------
(* Two workers with one poller each; one player's run that starts and ends. *)
EXTENDS QueuePromises, TLC
CONSTANTS start, finish, p1, p2, w1, w2
MCItem == {start, finish}
MCWhat == (start :> [kind |-> "started", player |-> 1, score |-> 0]
        @@ finish :> [kind |-> "finished", player |-> 1, score |-> 7])
MCPlayer == {1}
MCPoller == {p1, p2}
MCRuns == (p1 :> w1 @@ p2 :> w2)
=============================================================================
