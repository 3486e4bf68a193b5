---------------------------- MODULE ClientPromises -----------------------------
(***************************************************************************)
(* What the game client promises its player: the properties of Client.     *)
(***************************************************************************)
EXTENDS Client

(* Whatever answers come in while a heist is played, the record on the      *)
(* device is that of the heist on the board, move for move (main.ts          *)
(* persistRun): a reload takes nothing from the player.                    *)
PlayIsPersisted ==
  screen.name = "play" => active # None /\ saved = Record(active)

(* A heist is submitted under one key, by finishRun, by a retry and after a  *)
(* resume (main.ts idemKey): the player is never told that the heist was     *)
(* finished already, by a submission of which the answer was lost.          *)
OwnFinishNeverRefused ==
  \A i \in Slot : calls[i].answer # "RUN_ALREADY_FINISHED"

(* Once the player has seen the score of a heist, it is neither offered for   *)
(* resuming nor played again, whichever of several submissions was answered  *)
(* and wherever the player had gone (main.ts finishRun, onRetry).           *)
NoGhosts ==
  result # None /\ result.response # None =>
    /\ saved # None => saved.id # result.response
    /\ active # None => active.id # result.response
    /\ screen.persisted # None => screen.persisted.id # result.response

(* No flag that shows a spinner or disables a button stays up for ever        *)
(* (main.ts: submitting, claiming, starting, buying, the loading screen and  *)
(* the welcome screen), though requests fail and submissions share one       *)
(* ResultState.                                                            *)
SpinnersEnd ==
  /\ []<>~(result # None /\ result.submitting)
  /\ []<>~(result # None /\ result.claiming)
  /\ []<>~starting
  /\ []<>~Buying
  /\ []<>~(screen.name = "loading" \/ (screen.name = "welcome" /\ screen.busy))

(* main.ts: "Your progress is saved on this device. You can resume from the  *)
(* home screen until the run expires": what the home screen offers to resume*)
(* while the server still waits for it, and nobody is submitting it, can be. *)
ResumeWorks ==
  LET p == screen.persisted
  IN  screen.name = "home" /\ p # None /\ calls = [i \in Slot |-> Idle]
        => heists[p.id].finished \/ heists[p.id].late \/ RebuildRun(p) # None
=============================================================================
