--------------------------------- MODULE Client --------------------------------
(***************************************************************************)
(* The application state machine of the game client (client/src/main.ts):  *)
(* screens, the heist being played and its record in localStorage, and the *)
(* functions suspended at an await, which resume in any order on whatever  *)
(* screen the player is by then.  What happens on the board is module Play;*)
(* here a move only says how it leaves the vault.                          *)
(***************************************************************************)
EXTENDS Naturals, Sequences, FiniteSets

CONSTANTS
  Vaults,     \* how many vaults a heist has
  Lives,      \* bound: how many heists the player can start
  Slots,      \* bound: how many functions are suspended at a time
  Expiring,   \* bound: the heists whose time may run out
  Browsing,   \* bound: shop and leaderboard are left alone once this many heists were started
  None

ASSUME ClientAssumption == Vaults \in Nat \ {0} /\ Lives \in Nat /\ Slots \in Nat \ {0}

Heist == 1..Lives
Slot == 1..Slots
NoKey == 0

VARIABLES
  screen,     \* what show() put on the page, with the values it captured
  overlay,    \* the modal over it
  board,      \* the BoardView: "none", "ready" or "moving"
  active,     \* state.run
  starting,   \* state.starting
  result,     \* the ResultState that every submission shares
  lbTab,      \* the tab the leaderboard was last opened at, while that matters
  session,    \* localStorage: whether there is a session token
  calls,      \* calls[i]: a suspended function and the request it waits for
  saved,      \* localStorage: the record under RUN_KEY
  heists      \* the server's runs, with the answer stored under their key

pageVars == <<screen, overlay, board>>
stateVars == <<active, starting, result>>
clientVars == <<pageVars, stateVars, lbTab, session, calls, saved, heists>>

(* How a vault was left, and what replaying the moves recorded in it gives.  *)
(* Moves made in another vault than the one they are filed under are garbled.*)
Left == {"CRACKED", "BUSTED", "garbled"}
Replays == {"empty", "PLAYING"} \cup Left

(* state.run, its record in localStorage, and the ResultState of a submission. *)
ActiveRun ==
  [id : Nat, vaults : Seq(Replays), moves : Replays, key : Nat \ {NoKey},
   index : Nat, state : {"PLAYING", "CRACKED", "BUSTED"}, faithful : BOOLEAN]
PersistedRun == [id : Nat, vaults : Seq(Replays), moves : Replays, key : Nat \ {NoKey}]
ResultState ==
  [run : Nat, key : Nat \ {NoKey}, response : Nat \cup {None}, error : BOOLEAN,
   submitting : BOOLEAN, claiming : BOOLEAN, claimed : BOOLEAN]

ASSUME NoneAssumption == None \notin ActiveRun \cup PersistedRun \cup ResultState

Idle == [kind |-> "idle", stage |-> "none", id |-> None, key |-> NoKey, answer |-> "none"]
Call(kind, stage, id, key) == [kind |-> kind, stage |-> stage, id |-> id, key |-> key, answer |-> "none"]
Reads(kind) == Call(kind, "sent", None, NoKey)
Free(i) == calls[i] = Idle /\ \A j \in 1..i - 1 : calls[j] # Idle
Await(i, call) == calls' = [calls EXCEPT ![i] = call]
Pending(i, kind) == calls[i].kind = kind

-----------------------------------------------------------------------------
(* Screens.  show() destroys the board and clears the overlay. *)

Screen(name) == [name |-> name, persisted |-> None, busy |-> FALSE, back |-> "home"]

Show(view) ==
  /\ screen' = view
  /\ overlay' = "none"
  /\ board' = "none"

(* What the player may tap on each screen, and on a modal that covers it.    *)
When(condition, buttons) == IF condition THEN buttons ELSE {}

WelcomeScreen(busy) == When(~busy, {"join"})
HomeScreen(resumable, busy) ==
  {"toggle", "board", "shop"}
  \cup When(resumable # None, {"resume", "discard"})
  \cup When(resumable = None /\ ~busy, {"start"})
PlayScreen == {"quit"}
ResultScreen(r) ==
  {"home", "board"}
  \cup When(~r.submitting, {"again"})
  \cup When(~r.submitting /\ r.error, {"retry"})
  \cup When(~r.submitting /\ ~r.error /\ r.response # None /\ ~r.claiming /\ ~r.claimed, {"claim"})
LeaderboardScreen == {"tab", "back"}
Browses == Len(heists) < Browsing
ShopScreen(buying) == {"back"} \cup When(~buying, {"buy"})
DecisionModal == {"escape", "deeper"}
ConfirmModal == {"confirm", "cancel"}

(* The module variable `buying` is up as long as the purchase is pending. *)
Buying == \E i \in Slot : Pending(i, "buy")
Buttons ==
  CASE overlay = "decision" -> DecisionModal
    [] overlay \in {"discard", "leave"} -> ConfirmModal
    [] OTHER ->
  CASE screen.name = "error" -> {"try again"}
    [] screen.name = "welcome" -> WelcomeScreen(screen.busy)
    [] screen.name = "home" -> HomeScreen(screen.persisted, screen.busy)
    [] screen.name = "play" -> PlayScreen
    [] screen.name = "result" -> ResultScreen(result)
    [] screen.name = "board" -> LeaderboardScreen
    [] screen.name = "shop" -> ShopScreen(Buying)
    [] OTHER -> {}

(* loadPersistedRun drops a record that has expired.  The home screen keeps  *)
(* the record and the `starting` of its render.                            *)
Kept(record) == IF record # None /\ heists[record.id].late THEN None ELSE record
ShowHome(record, busy) ==
  /\ saved' = Kept(record)
  /\ Show([Screen("home") EXCEPT !.persisted = Kept(record), !.busy = busy])

(* persistRun and rebuildRun.  vaultIndex and the engine's state are not in  *)
(* the record: they come back by replaying it.                             *)
Record(run) == [id |-> run.id, vaults |-> run.vaults, moves |-> run.moves, key |-> run.key]

(* Mutant: the key of the finish is not part of the record. *)
RebuildRun_ForgetsKey(p) ==
  IF \/ Len(p.vaults) >= Vaults
     \/ \E v \in 1..Len(p.vaults) : p.vaults[v] # "CRACKED"
     \/ p.moves \in {"CRACKED", "BUSTED"}
  THEN None
  ELSE [id |-> p.id, vaults |-> p.vaults, moves |-> p.moves, key |-> NoKey,
        index |-> Len(p.vaults), state |-> "PLAYING", faithful |-> p.moves # "garbled"]
RebuildRun(p) ==
  IF \/ Len(p.vaults) >= Vaults
     \/ \E v \in 1..Len(p.vaults) : p.vaults[v] # "CRACKED"
     \/ p.moves \in {"CRACKED", "BUSTED"}
  THEN None
  ELSE [id |-> p.id, vaults |-> p.vaults, moves |-> p.moves, key |-> p.key,
        index |-> Len(p.vaults), state |-> "PLAYING", faithful |-> p.moves # "garbled"]

ShowPlay(run) ==
  /\ screen' = Screen("play")
  /\ overlay' = "none"
  /\ board' = "ready"
  /\ active' = run

-----------------------------------------------------------------------------
(* Boot, and reloading the page: what was in memory is gone, requests that    *)
(* were sent may still reach the server.                                   *)

ClientInit ==
  /\ screen = Screen("loading") /\ overlay = "none" /\ board = "none"
  /\ active = None /\ starting = FALSE /\ result = None /\ lbTab = "global"
  /\ session = FALSE
  /\ calls = [i \in Slot |-> IF i = 1 THEN Reads("boot") ELSE Idle]
  /\ saved = None
  /\ heists = <<>>

Adrift(call) ==
  IF call.kind \in {"start", "finish", "retry"} /\ call.stage = "sent" THEN [call EXCEPT !.stage = "adrift"]
  ELSE IF call.stage = "adrift" THEN call ELSE Idle
Reload(i) ==
  /\ Adrift(calls[i]) = Idle
  /\ Show(Screen("loading"))
  /\ active' = None /\ starting' = FALSE /\ result' = None
  /\ calls' = [j \in Slot |-> IF j = i THEN Reads("boot") ELSE Adrift(calls[j])]
  /\ UNCHANGED <<saved, heists>>

Boot(i) ==
  /\ Free(i)
  /\ Show(Screen("loading"))
  /\ Await(i, Reads("boot"))
  /\ UNCHANGED <<stateVars, saved, heists>>

(* The profile and the event have come, or have not: boot and goHome.  An     *)
(* expired session is renewed on the way (a 401 calls ensurePlayer).        *)
Refreshed(i, ok) ==
  /\ Pending(i, "boot") \/ Pending(i, "home")
  /\ IF ~ok THEN Show(Screen("error")) /\ UNCHANGED saved
     ELSE IF ~session THEN Show(Screen("welcome")) /\ UNCHANGED saved
     ELSE ShowHome(saved, starting)
  /\ Await(i, Idle)
  /\ UNCHANGED <<stateVars, heists>>

(* Joining the crew: the account, then the event.  The account may be had     *)
(* though the event is not.                                                *)
Join(i) ==
  /\ Free(i)
  /\ Show([Screen("welcome") EXCEPT !.busy = TRUE])
  /\ Await(i, Reads("join"))
  /\ UNCHANGED <<stateVars, saved, heists>>

Joined(i, account, event) ==
  /\ Pending(i, "join")
  /\ session' = account
  /\ IF account /\ event THEN ShowHome(saved, starting)
     ELSE Show(Screen("error")) /\ UNCHANGED saved
  /\ Await(i, Idle)
  /\ UNCHANGED <<stateVars, heists>>

GoHome(i) ==
  /\ Free(i)
  /\ Show(Screen("loading"))
  /\ Await(i, Reads("home"))
  /\ UNCHANGED <<stateVars, saved, heists>>

-----------------------------------------------------------------------------
(* The home screen. *)

Toggle ==
  /\ ShowHome(saved, starting)
  /\ UNCHANGED <<stateVars, calls, heists>>

Resume ==
  /\ LET run == RebuildRun(screen.persisted)
     IN  IF run = None THEN ShowHome(None, starting) /\ UNCHANGED active
         ELSE ShowPlay(run) /\ UNCHANGED saved
  /\ UNCHANGED <<starting, result, calls, heists>>

OnDiscard ==
  /\ overlay' = "discard"
  /\ UNCHANGED <<screen, board, stateVars, calls, saved, heists>>

(* Abandon forgets the record, but not state.run. *)
Abandon ==
  /\ ShowHome(None, starting)
  /\ UNCHANGED <<stateVars, calls, heists>>

Cancel ==
  /\ overlay' = "none"
  /\ UNCHANGED <<screen, board, stateVars, calls, saved, heists>>

-----------------------------------------------------------------------------
(* startHeist. *)

StartHeist(i) ==
  IF starting
  THEN Await(i, Idle) /\ UNCHANGED <<pageVars, starting, saved>>
  ELSE /\ starting' = TRUE
       /\ ShowHome(saved, TRUE)
       /\ Await(i, Reads("start"))

StartButton(i) ==
  /\ Free(i)
  /\ StartHeist(i)
  /\ UNCHANGED <<active, result, heists>>

(* PLAY AGAIN refreshes the profile first, on the result screen. *)
PlayAgain(i) ==
  /\ Free(i)
  /\ Await(i, Reads("again"))
  /\ UNCHANGED <<pageVars, stateVars, saved, heists>>

Again(i) ==
  /\ Pending(i, "again")
  /\ StartHeist(i)
  /\ UNCHANGED <<active, result, heists>>

NewRun(id) ==
  [id |-> id, vaults |-> <<>>, moves |-> "empty", key |-> id, index |-> 0, state |-> "PLAYING", faithful |-> TRUE]
Started(i) ==
  /\ Pending(i, "start") /\ calls[i].answer = "ok"
  /\ ShowPlay(NewRun(calls[i].id))
  /\ saved' = Record(active')
  /\ starting' = FALSE
  /\ Await(i, Idle)
  /\ UNCHANGED <<result, heists>>

(* Refused, or the request or its answer is lost: a toast, and the profile   *)
(* is refreshed before the flag is lowered.                                *)
NotStarted(i) ==
  /\ Pending(i, "start") /\ calls[i].stage # "adrift"
  /\ Await(i, Reads("regroup"))
  /\ UNCHANGED <<pageVars, stateVars, saved, heists>>

Regrouped(i) ==
  /\ Pending(i, "regroup")
  /\ starting' = FALSE
  /\ IF active = None THEN ShowHome(saved, FALSE) ELSE UNCHANGED <<pageVars, saved>>
  /\ Await(i, Idle)
  /\ UNCHANGED <<active, result, heists>>

-----------------------------------------------------------------------------
(* Playing. *)

(* A move is recorded when it is made, and settles when its animation ends. *)
OnMove(state) ==
  /\ screen.name = "play" /\ overlay = "none" /\ board = "ready" /\ active.state = "PLAYING"
  /\ active' = [active EXCEPT !.state = state, !.moves = IF active.faithful THEN state ELSE "garbled"]
  /\ saved' = Record(active')
  /\ board' = "moving"
  /\ UNCHANGED <<screen, overlay, starting, result, calls, heists>>

(* onSettled files the vault, and a banner shows for a while. *)
Banner ==
  IF active.state = "BUSTED" THEN "busted"
  ELSE IF active.index >= Vaults - 1 THEN "swept" ELSE "cracked"
OnSettled(i) ==
  /\ board = "moving"
  /\ board' = "ready"
  /\ IF active.state = "PLAYING" THEN UNCHANGED <<active, saved, calls>>
     ELSE /\ Free(i)
          /\ active' = [active EXCEPT !.vaults = Append(@, active.moves), !.moves = "empty"]
          /\ saved' = Record(active')
          /\ Await(i, Call(Banner, "shown", None, NoKey))
  /\ UNCHANGED <<screen, overlay, starting, result, heists>>

OnQuit ==
  /\ board # "moving"
  /\ overlay' = "leave"
  /\ UNCHANGED <<screen, board, stateVars, calls, saved, heists>>

(* goDeeper opens the next vault of state.run, on the board there is.  Past    *)
(* the last vault the constructor of Sim throws after vaultIndex moved.     *)
NextVault(run) ==
  IF run.index + 1 >= Vaults THEN [run EXCEPT !.index = @ + 1]
  ELSE [run EXCEPT !.index = @ + 1, !.state = "PLAYING",
                   !.faithful = @ /\ run.index + 1 = Len(run.vaults) /\ run.moves = "empty"]
GoDeeper ==
  /\ overlay' = "none"
  /\ IF active = None \/ board = "none" THEN UNCHANGED <<board, active, saved>>
     ELSE /\ active' = NextVault(active)
          /\ board' = IF active.index + 1 >= Vaults THEN board ELSE "ready"
          /\ saved' = Record(active')
  /\ UNCHANGED <<screen, starting, result, calls, heists>>

-----------------------------------------------------------------------------
(* Finishing. *)

Response(id) == [run |-> id, key |-> id, response |-> id, error |-> FALSE,
                 submitting |-> FALSE, claiming |-> FALSE, claimed |-> FALSE]
Submitting(run) == [Response(run.id) EXCEPT !.key = run.key, !.response = None, !.submitting = TRUE]

(* runReplay of the record: no vault, a vault before the last that was not     *)
(* cracked, or an end the last one does not give, and it throws.            *)
Replayable(vaults, escaped) ==
  /\ Len(vaults) \in 1..Vaults
  /\ \A v \in 1..Len(vaults) - 1 : vaults[v] = "CRACKED"
  /\ CASE vaults[Len(vaults)] = "CRACKED" -> escaped \/ Len(vaults) = Vaults
       [] vaults[Len(vaults)] = "BUSTED" -> ~escaped
       [] OTHER -> FALSE

RenderResult == Show(Screen("result"))

FinishRun(i, escaped) ==
  IF active = None
  THEN Await(i, Idle) /\ UNCHANGED <<pageVars, active, result, saved>>
  ELSE IF Replayable(active.vaults, escaped)
  THEN /\ result' = Submitting(active)
       /\ RenderResult
       /\ Await(i, Call("finish", "sent", active.id, active.key))
       /\ UNCHANGED <<active, saved>>
  ELSE /\ saved' = None /\ active' = None
       /\ Show(Screen("loading"))
       /\ Await(i, Reads("home"))
       /\ UNCHANGED result

(* The banner is gone: the modal, or the end.  state.run is read again.     *)
BannerGone(i) ==
  /\ \/ /\ Pending(i, "cracked")
        /\ overlay' = "decision"
        /\ Await(i, Idle)
        /\ UNCHANGED <<screen, board, active, result, saved>>
     \/ Pending(i, "swept") /\ FinishRun(i, TRUE)
     \/ Pending(i, "busted") /\ FinishRun(i, FALSE)
  /\ UNCHANGED <<starting, heists>>

Escape(i) ==
  /\ IF active = None THEN overlay' = "none" /\ UNCHANGED <<screen, board, active, result, calls, saved>>
     ELSE Free(i) /\ FinishRun(i, TRUE)
  /\ UNCHANGED <<starting, heists>>

(* The answer to a submission, whosever result is on show by now.           *)
(* Mutant: the answer no longer pulls the player from another screen. *)
Accepted_StaysPut(i) ==
  /\ result' = [result EXCEPT !.response = calls[i].id, !.submitting = FALSE]
  /\ saved' = None /\ active' = None
  /\ IF screen.name = "result" THEN RenderResult ELSE UNCHANGED pageVars
Accepted(i) ==
  /\ result' = [result EXCEPT !.response = calls[i].id, !.submitting = FALSE]
  /\ saved' = None /\ active' = None
  /\ RenderResult

FinishAnswered(i) ==
  /\ Pending(i, "finish") /\ calls[i].stage = "answered"
  /\ IF calls[i].answer = "ok"
     THEN Accepted(i) /\ Await(i, Call("poll", "sent", calls[i].id, NoKey))
     ELSE /\ result' = [result EXCEPT !.error = TRUE, !.submitting = FALSE]
          /\ saved' = None /\ active' = None
          /\ RenderResult
          /\ Await(i, Idle)
  /\ UNCHANGED <<starting, heists>>

Unreachable(i) ==
  /\ Pending(i, "finish") \/ Pending(i, "retry")
  /\ calls[i].stage # "adrift"
  /\ result' = [result EXCEPT !.error = TRUE, !.submitting = FALSE]
  /\ RenderResult
  /\ Await(i, Idle)
  /\ UNCHANGED <<active, starting, saved, heists>>

OnRetry(i) ==
  /\ Free(i)
  /\ result' = [result EXCEPT !.error = FALSE, !.submitting = TRUE]
  /\ RenderResult
  /\ Await(i, Call("retry", "sent", result.run, result.key))
  /\ UNCHANGED <<active, starting, saved, heists>>

(* A refusal leaves the record, unlike in finishRun. *)
RetryAnswered_KeepsRecord(i) ==
  /\ Pending(i, "retry") /\ calls[i].stage = "answered"
  /\ result' = [result EXCEPT !.submitting = FALSE, !.error = calls[i].answer # "ok",
                              !.response = IF calls[i].answer = "ok" THEN calls[i].id ELSE @]
  /\ RenderResult
  /\ Await(i, Idle)
  /\ UNCHANGED <<active, starting, saved, heists>>
RetryAnswered(i) ==
  /\ Pending(i, "retry") /\ calls[i].stage = "answered"
  /\ IF calls[i].answer = "ok" THEN Accepted(i)
     ELSE /\ result' = [result EXCEPT !.error = TRUE, !.submitting = FALSE]
          /\ RenderResult
          /\ UNCHANGED <<active, saved>>
  /\ Await(i, Idle)
  /\ UNCHANGED <<starting, heists>>

(* Until the board knows the score, six times at most; then the rank is shown.*)
Polled(i, ranked) ==
  /\ Pending(i, "poll")
  /\ IF ranked THEN RenderResult ELSE UNCHANGED pageVars
  /\ Await(i, Idle)
  /\ UNCHANGED <<stateVars, saved, heists>>

ClaimReward(i) ==
  /\ Free(i)
  /\ result' = [result EXCEPT !.claiming = TRUE]
  /\ RenderResult
  /\ Await(i, Call("claim", "sent", result.response, NoKey))
  /\ UNCHANGED <<active, starting, saved, heists>>

(* Mutant: the button is released in the try block, not in finally. *)
Claimed_NoFinally(i, paid) ==
  /\ Pending(i, "claim")
  /\ result' = [result EXCEPT !.claiming = @ /\ ~paid, !.claimed = @ \/ paid]
  /\ RenderResult
  /\ Await(i, Idle)
  /\ UNCHANGED <<active, starting, saved, heists>>
Claimed(i, paid) ==
  /\ Pending(i, "claim")
  /\ result' = [result EXCEPT !.claiming = FALSE, !.claimed = @ \/ paid]
  /\ RenderResult
  /\ Await(i, Idle)
  /\ UNCHANGED <<active, starting, saved, heists>>

-----------------------------------------------------------------------------
(* The leaderboard, from the home or the result screen, and its two tabs.    *)

ShowLeaderboard(i, tab, back) ==
  /\ Browses
  /\ Free(i)
  /\ lbTab' = tab
  /\ Show([Screen("board") EXCEPT !.back = back])
  /\ Await(i, [Reads("board") EXCEPT !.id = <<tab, back>>])
  /\ UNCHANGED <<stateVars, saved, heists>>

Leaderboard(i) ==
  \/ screen.name = "home" /\ ShowLeaderboard(i, "global", "home")
  \/ screen.name = "result" /\ ShowLeaderboard(i, "rivals", "result")
  \/ screen.name = "board" /\ \E tab \in {"global", "rivals"} : ShowLeaderboard(i, tab, screen.back)

(* The rows of a tab that was left are dropped; a failure empties the board   *)
(* of whichever tab is on.  lbTab is only read here: it is forgotten with the*)
(* last of the answers.                                                     *)
Ranked(i, ok) ==
  /\ Pending(i, "board")
  /\ IF ok /\ lbTab # calls[i].id[1] THEN UNCHANGED pageVars
     ELSE Show([Screen("board") EXCEPT !.back = calls[i].id[2]])
  /\ Await(i, Idle)
  /\ lbTab' = IF \E j \in Slot \ {i} : Pending(j, "board") THEN lbTab ELSE "global"
  /\ UNCHANGED <<stateVars, saved, heists>>

(* Also the way out of the shop. *)
Back(i) ==
  /\ IF screen.back = "home" THEN GoHome(i)
     ELSE RenderResult /\ UNCHANGED <<stateVars, calls, saved, heists>>

-----------------------------------------------------------------------------
(* The shop.  Its catalog is fetched once and kept: whether it is there is     *)
(* not modelled.  Until it comes the home screen stays; when it comes, or when*)
(* a purchase ends, the shop is drawn over whatever the player does by then.*)

ShopView == Show(Screen("shop"))

ShowShop(i) ==
  /\ Browses
  /\ \/ ShopView /\ UNCHANGED calls
     \/ Free(i) /\ Await(i, Reads("catalog")) /\ UNCHANGED pageVars
  /\ UNCHANGED <<stateVars, saved, heists>>

Catalog(i, ok) ==
  /\ Pending(i, "catalog")
  /\ IF ok THEN ShopView ELSE UNCHANGED pageVars
  /\ Await(i, Idle)
  /\ UNCHANGED <<stateVars, saved, heists>>

OnBuy(i) ==
  /\ Browses
  /\ Free(i)
  /\ ShopView
  /\ Await(i, Reads("buy"))
  /\ UNCHANGED <<stateVars, saved, heists>>

(* Bought, refused or failed, after a version conflict with the profile anew.*)
Bought(i) ==
  /\ Pending(i, "buy")
  /\ ShopView
  /\ Await(i, Idle)
  /\ UNCHANGED <<stateVars, saved, heists>>

-----------------------------------------------------------------------------
(* The server, as far as the client can tell (modules Heist and Profile are   *)
(* the real one): a start opens a heist while there are lives; the first     *)
(* finish under a key settles it, and its answer is stored under the key.   *)

Opened == [finished |-> FALSE, late |-> FALSE, answer |-> "none"]
Reply(i, id, answer) ==
  Await(i, IF calls[i].stage = "adrift" THEN Idle
           ELSE [calls[i] EXCEPT !.stage = "answered", !.id = id, !.answer = answer])

ServeStart(i) ==
  /\ Pending(i, "start") /\ calls[i].stage \in {"sent", "adrift"}
  /\ Len(heists) < Lives
  /\ heists' = Append(heists, Opened)
  /\ Reply(i, Len(heists) + 1, "ok")
  /\ UNCHANGED <<pageVars, stateVars, saved>>

Verdict(heist) ==
  IF heist.finished THEN "RUN_ALREADY_FINISHED" ELSE IF heist.late THEN "RUN_EXPIRED" ELSE "ok"
ServeFinish(i) ==
  /\ Pending(i, "finish") \/ Pending(i, "retry")
  /\ calls[i].stage \in {"sent", "adrift"}
  /\ LET id == calls[i].id
         stored == calls[i].key # NoKey /\ heists[id].answer # "none"
         answer == IF stored THEN heists[id].answer ELSE Verdict(heists[id])
     IN  /\ heists' = [heists EXCEPT ![id] = [finished |-> @.finished \/ answer = "ok", late |-> @.late,
                                            answer |-> IF calls[i].key = NoKey THEN @.answer ELSE answer]]
         /\ Reply(i, id, answer)
  /\ UNCHANGED <<pageVars, stateVars, saved>>

LostAtSea(i) ==
  /\ calls[i].stage = "adrift"
  /\ Await(i, Idle)
  /\ UNCHANGED <<pageVars, stateVars, saved, heists>>

(* expiresAt passes, for the server and for the device; bound: a heist that   *)
(* was finished in time stays in time, its record is only kept for longer.  *)
Expire(id) ==
  /\ id <= Len(heists) /\ ~heists[id].late /\ ~heists[id].finished
  /\ heists' = [heists EXCEPT ![id].late = TRUE]
  /\ UNCHANGED <<pageVars, stateVars, calls, saved>>

-----------------------------------------------------------------------------
(* The handlers behind the buttons. *)
Tap(button, i) ==
  \/ button = "try again" /\ Boot(i)
  \/ button = "join" /\ Join(i)
  \/ button = "start" /\ StartButton(i)
  \/ button = "again" /\ PlayAgain(i)
  \/ button = "home" /\ GoHome(i)
  \/ button = "confirm" /\ overlay = "leave" /\ GoHome(i)
  \/ button = "escape" /\ Escape(i)
  \/ button = "retry" /\ OnRetry(i)
  \/ button = "claim" /\ ClaimReward(i)
  \/ button = "shop" /\ ShowShop(i)
  \/ button = "buy" /\ OnBuy(i)
  \/ button = "back" /\ Back(i)
TapHere(button) ==
  \/ button = "toggle" /\ Toggle
  \/ button = "resume" /\ Resume
  \/ button = "discard" /\ OnDiscard
  \/ button = "confirm" /\ overlay = "discard" /\ Abandon
  \/ button = "cancel" /\ Cancel
  \/ button = "quit" /\ OnQuit
  \/ button = "deeper" /\ GoDeeper

(* What a suspended function waits for comes, or fails. *)
Continue(i) ==
  \/ \E ok \in BOOLEAN : Ranked(i, ok) /\ UNCHANGED session
  \/ \E account, event \in BOOLEAN : Joined(i, account, event) /\ UNCHANGED lbTab
  \/ /\ \/ \E ok \in BOOLEAN : Refreshed(i, ok) \/ Polled(i, ok) \/ Claimed(i, ok) \/ Catalog(i, ok)
        \/ Bought(i) \/ Again(i) \/ Started(i) \/ NotStarted(i) \/ Regrouped(i)
        \/ BannerGone(i) \/ FinishAnswered(i) \/ RetryAnswered(i) \/ Unreachable(i)
     /\ UNCHANGED <<lbTab, session>>

Server(i) == ServeStart(i) \/ ServeFinish(i) \/ LostAtSea(i)

ClientNext ==
  \/ \E i \in Slot : Continue(i)
  \/ \E i \in Slot : Reload(i) /\ lbTab' = "global" /\ UNCHANGED session
  \/ \E button \in Buttons :
        /\ button \in {"board", "tab"}
        /\ \E i \in Slot : Leaderboard(i)
        /\ UNCHANGED session
  \/ /\ \/ \E button \in Buttons : TapHere(button) \/ \E i \in Slot : Tap(button, i)
        \/ \E state \in {"PLAYING", "CRACKED", "BUSTED"} : OnMove(state)
        \/ \E i \in Slot : Server(i) \/ OnSettled(i)
        \/ \E id \in Expiring : Expire(id)
     /\ UNCHANGED <<lbTab, session>>

(* Every request is answered or fails, and timers fire; so does the loading of*)
(* a page, however often the player starts it over.                         *)
ClientSpec ==
  /\ ClientInit /\ [][ClientNext]_clientVars
  /\ \A i \in Slot : WF_clientVars(Continue(i))
  /\ WF_clientVars(\E i \in Slot, ok \in BOOLEAN : Refreshed(i, ok) /\ UNCHANGED <<lbTab, session>>)
=============================================================================
