---------------------------------- MODULE Play ---------------------------------
(***************************************************************************)
(* Playing a heist in the game client: the board (client/src/game/board.ts)*)
(* turns pointer events into moves of the engine and animates them; main.ts*)
(* records the moves, asks the player to escape or go deeper after each    *)
(* cracked vault, and replays the record for the score.                    *)
(***************************************************************************)
EXTENDS Engine

CONSTANTS
  Seed,       \* the seeds a heist may be given
  Boosters,   \* the sets of boosters a heist may be started with
  Finger,     \* PointerEvent.pointerId
  NoFinger

ASSUME FingerAssumption == NoFinger \notin Finger

NoResult == [outcome |-> "NONE"]
NoOffer == [escape |-> -1]

VARIABLES
  seed, boosters, \* ActiveRun: of the start's answer
  sim,            \* ActiveRun.sim, which the board shares
  index,          \* ActiveRun.vaultIndex, counting from 1
  vaults, moves,  \* ActiveRun.vaults and currentMoves: the record
  total,          \* ActiveRun.totalLoot
  path, pointer,  \* BoardView: the chain under the finger, and the finger
  inputEnabled, animating,
  phase,          \* what the tweens are at
  reshuffled,     \* MoveResult.reshuffled of the move they show
  overlay,        \* "none", "banner" or "decision"
  offer,          \* history: what the last decision modal promised
  result          \* the local replay of finishRun

heistVars == <<seed, boosters>>
recordVars == <<index, vaults, moves, total>>
touchVars == <<path, pointer>>
inputVars == <<inputEnabled, animating, phase, reshuffled>>
endVars == <<overlay, offer, result>>
playVars == <<heistVars, sim, recordVars, touchVars, inputVars, endVars>>

-----------------------------------------------------------------------------
(* BoardView.setSim with its entry animation.  It forgets the chain, not the *)
(* finger: nobody may be touching the board.                                *)
SetSim(s) ==
  /\ sim' = s
  /\ path' = <<>>
  /\ inputEnabled' = FALSE
  /\ animating' = TRUE
  /\ phase' = "entry"
  /\ reshuffled' = FALSE

PlayInit ==
  /\ seed \in Seed /\ boosters \in Boosters
  /\ sim = NewSim(seed, 1, boosters)
  /\ index = 1 /\ vaults = <<>> /\ moves = <<>> /\ total = 0
  /\ path = <<>> /\ pointer = NoFinger
  /\ inputEnabled = FALSE /\ animating = TRUE /\ phase = "entry" /\ reshuffled = FALSE
  /\ overlay = "none" /\ offer = NoOffer /\ result = NoResult

EntryDone ==
  /\ phase = "entry"
  /\ phase' = "idle"
  /\ animating' = FALSE
  /\ inputEnabled' = (sim.state = "PLAYING")
  /\ UNCHANGED <<heistVars, sim, recordVars, touchVars, reshuffled, endVars>>

-----------------------------------------------------------------------------
(* The pointer.                                                             *)

OnDown(f, i) ==
  /\ inputEnabled /\ ~animating
  /\ pointer = NoFinger
  /\ CanExtend(sim.grid, <<>>, i)
  /\ pointer' = f
  /\ path' = <<i>>
  /\ UNCHANGED <<heistVars, sim, recordVars, inputVars, endVars>>

(* Back to the last cell but one takes the last cell off the chain. *)
Backtracks(i) == Len(path) >= 2 /\ path[Len(path) - 1] = i
OnMove(f, i) ==
  /\ pointer = f
  /\ path[Len(path)] # i
  /\ \/ Backtracks(i) /\ path' = SubSeq(path, 1, Len(path) - 1)
     \/ ~Backtracks(i) /\ CanExtend(sim.grid, path, i) /\ path' = Append(path, i)
  /\ UNCHANGED <<heistVars, sim, recordVars, pointer, inputVars, endVars>>

(* Released, or cancelled by the browser: the same handler commits the chain. *)
Commits == Len(path) >= 3 /\ ValidatePath(sim.grid, path)
OnUp(f) ==
  /\ pointer = f
  /\ pointer' = NoFinger
  /\ path' = <<>>
  /\ IF Commits
     THEN /\ sim' = Apply(sim, path)
          /\ moves' = Append(moves, path)
          /\ inputEnabled' = FALSE /\ animating' = TRUE /\ phase' = "pop"
          /\ reshuffled' = (sim'.reshuffles > sim.reshuffles)
     ELSE UNCHANGED <<sim, moves, inputVars>>
  /\ UNCHANGED <<heistVars, index, vaults, total, endVars>>

-----------------------------------------------------------------------------
(* The animation of a move, and onSettled at its end.                       *)

Fall ==
  /\ phase = "pop"
  /\ phase' = "fall"
  /\ UNCHANGED <<heistVars, sim, recordVars, touchVars, inputEnabled, animating, reshuffled, endVars>>

(* afterGravity: a board that was reshuffled shows that first. *)
ShowsShuffle ==
  /\ phase = "fall" /\ reshuffled
  /\ phase' = "shuffle"
  /\ UNCHANGED <<heistVars, sim, recordVars, touchVars, inputEnabled, animating, reshuffled, endVars>>

OnSettled ==
  IF sim.state = "PLAYING" THEN UNCHANGED <<recordVars, overlay>>
  ELSE /\ vaults' = Append(vaults, moves)
       /\ moves' = <<>>
       /\ total' = total + sim.loot
       /\ overlay' = "banner"
       /\ UNCHANGED index
Settle ==
  /\ phase = (IF reshuffled THEN "shuffle" ELSE "fall")
  /\ phase' = "idle"
  /\ animating' = FALSE
  /\ inputEnabled' = (sim.state = "PLAYING")
  /\ OnSettled
  /\ UNCHANGED <<heistVars, sim, touchVars, reshuffled, offer, result>>

-----------------------------------------------------------------------------
(* The end of a vault.                                                      *)

FinishRun(escaped) ==
  /\ overlay' = "none"
  /\ result' = RunReplay(seed, boosters, vaults, escaped)
  /\ UNCHANGED <<heistVars, sim, recordVars, touchVars, inputVars, offer>>

LastVault == index = Len(Vaults)
CleanSweep == overlay = "banner" /\ sim.state = "CRACKED" /\ LastVault /\ FinishRun(TRUE)
Busted == overlay = "banner" /\ sim.state = "BUSTED" /\ FinishRun(FALSE)

(* The modal shows the score of an escape, of cracking the next vault with   *)
(* the loot so far, and of busting in it with the loot so far.              *)
Decision_NextMultiplier ==
  /\ overlay = "banner" /\ sim.state = "CRACKED" /\ ~LastVault
  /\ overlay' = "decision"
  /\ offer' = [escape |-> EscapeScore(total, Len(vaults) + 1),
               deeper |-> EscapeScore(total, Len(vaults) + 1),
               bust |-> BustScore(total, Len(vaults) + 1, boosters)]
  /\ UNCHANGED <<heistVars, sim, recordVars, touchVars, inputVars, result>>
Decision ==
  /\ overlay = "banner" /\ sim.state = "CRACKED" /\ ~LastVault
  /\ overlay' = "decision"
  /\ offer' = [escape |-> EscapeScore(total, Len(vaults)),
               deeper |-> EscapeScore(total, Len(vaults) + 1),
               bust |-> BustScore(total, Len(vaults) + 1, boosters)]
  /\ UNCHANGED <<heistVars, sim, recordVars, touchVars, inputVars, result>>

OnEscape == overlay = "decision" /\ FinishRun(TRUE)

(* goDeeper: the next vault goes on with the generator of this one. *)
OnDeeper_Reseeded ==
  /\ overlay = "decision"
  /\ overlay' = "none"
  /\ index' = index + 1
  /\ SetSim(NewSim(seed, index + 1, boosters))
  /\ UNCHANGED <<heistVars, vaults, moves, total, pointer, offer, result>>
OnDeeper ==
  /\ overlay = "decision"
  /\ overlay' = "none"
  /\ index' = index + 1
  /\ SetSim(NewSim(sim.rng, index + 1, boosters))
  /\ UNCHANGED <<heistVars, vaults, moves, total, pointer, offer, result>>

Touch == \E f \in Finger : (\E i \in Cell : OnDown(f, i) \/ OnMove(f, i)) \/ OnUp(f)
Animate == EntryDone \/ Fall \/ ShowsShuffle \/ Settle
Conclude == Decision \/ OnEscape \/ OnDeeper \/ CleanSweep \/ Busted

PlayNext == Touch \/ Animate \/ Conclude
PlaySpec == PlayInit /\ [][PlayNext]_playVars

-----------------------------------------------------------------------------
(* rebuildRun: the vault that a saved record leads to, or Refused. *)
InPlay(s) == IF s.state # "PLAYING" THEN Refused ELSE s
Reopened(done) ==
  IF done.state # "CRACKED" \/ Len(vaults) >= Len(Vaults) THEN Refused
  ELSE InPlay(Played(NewSim(done.rng, Len(vaults) + 1, boosters), moves))
RebuildRun == Reopened(Replayed(seed, boosters, vaults))

(* findHintChain: the first cell, row by row, with two neighbours like it,   *)
(* between the first and the second of them; the empty path when none has.  *)
HintCells(grid) == {i \in Cell : Chainable(grid[i]) /\ Cardinality(Alike(grid, i)) >= 2}
FindHintChain(grid) ==
  IF HintCells(grid) = {} THEN <<>>
  ELSE LET i == Min(HintCells(grid))
           first == Min(Alike(grid, i))
       IN  <<first, i, Min(Alike(grid, i) \ {first})>>
=============================================================================
