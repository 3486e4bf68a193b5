------------------------------ MODULE ClientProofs -----------------------------
(***************************************************************************)
(* Safety of the game client for any number of heists, vaults and suspended*)
(* functions: module ClientPromises, but for its liveness.                 *)
(***************************************************************************)
EXTENDS ClientPromises, TLAPS

HeistRun == [finished : BOOLEAN, late : BOOLEAN, answer : {"none", "ok", "RUN_EXPIRED"}]

Issued == 1..Len(heists)
Submission(c) == c.kind \in {"finish", "retry"}
Opens(c) == c.kind = "start" /\ c.answer = "ok"

(* Which heists the page, the record and the submissions know of.           *)
Held(id) ==
  \/ active # None /\ active.id = id
  \/ saved # None /\ saved.id = id
  \/ result # None /\ (result.run = id \/ (result.response # None /\ result.response = id))
  \/ \E j \in Slot : Submission(calls[j]) /\ calls[j].id = id

ServerOK ==
  /\ heists \in Seq(HeistRun)
  /\ \A id \in Issued : heists[id].finished => heists[id].answer # "none"

DataOK ==
  /\ active # None => active \in ActiveRun /\ active.id \in Issued
  /\ saved # None => saved \in PersistedRun /\ saved.id \in Issued
  /\ result # None => /\ result \in ResultState /\ result.run \in Issued
                      /\ result.response # None => result.response \in Issued

(* The home screen shows the record as it is; there is a board on the play   *)
(* screen only; whatever leads to the result finds one.                     *)
PageOK ==
  /\ screen.name = "home" => screen.persisted = saved
  /\ screen.name # "home" => screen.persisted = None
  /\ board # "none" => screen.name = "play"
  /\ screen.name = "play" => active # None /\ saved = Record(active)
  /\ screen.back \in {"home", "result"}
  /\ screen.name = "result" \/ screen.back = "result" => result # None

(* What was answered is no ghost: neither on the board nor in the record.     *)
GhostOK ==
  result # None /\ result.response # None =>
    /\ saved # None => saved.id # result.response
    /\ active # None => active.id # result.response

CallOK(c) ==
  /\ c = [kind |-> c.kind, stage |-> c.stage, id |-> c.id, key |-> c.key, answer |-> c.answer]
  /\ c.answer \in {"none", "ok", "RUN_EXPIRED"}
  /\ Submission(c) => c.id \in Issued /\ c.key \in Nat \ {NoKey}
  /\ c.stage = "adrift" => c.kind \in {"start", "finish", "retry"}
  /\ c.kind \in {"finish", "retry", "poll", "claim"} /\ c.stage # "adrift" => result # None
  /\ c.kind = "board" => c.id[2] \in {"home", "result"} /\ (c.id[2] = "result" => result # None)

(* A heist that the server has just opened is known to nobody else. *)
CallsOK ==
  /\ calls = [i \in Slot |-> calls[i]]
  /\ \A i \in Slot : CallOK(calls[i])
  /\ \A i \in Slot : Opens(calls[i]) => calls[i].id \in Issued /\ ~Held(calls[i].id)
  /\ \A i, j \in Slot : i # j /\ Opens(calls[i]) /\ Opens(calls[j]) => calls[i].id # calls[j].id

CInv == ServerOK /\ DataOK /\ PageOK /\ GhostOK /\ CallsOK

-----------------------------------------------------------------------------
(* Steps that only take heists away from the page, and the calls they leave.  *)

Harmless(c) ==
  /\ c = [kind |-> c.kind, stage |-> c.stage, id |-> c.id, key |-> c.key, answer |-> c.answer]
  /\ c.answer = "none" /\ c.stage # "adrift"
  /\ ~Submission(c)
  /\ c.kind \in {"poll", "claim"} => result # None
  /\ c.kind = "board" => c.id[2] \in {"home", "result"} /\ (c.id[2] = "result" => result # None)

CallsSettle ==
  /\ calls' = [i \in Slot |-> calls'[i]]
  /\ \A i \in Slot : calls'[i] = calls[i] \/ Harmless(calls'[i])

LEMMA AwaitSettles ==
  ASSUME CallsOK, NEW i \in Slot, NEW c, Harmless(c), Await(i, c)
  PROVE  CallsSettle
  BY DEF CallsOK, Await, CallsSettle

LEMMA ReadsHarmless ==
  /\ Harmless(Idle)
  /\ \A kind : kind \notin {"finish", "retry", "poll", "claim", "board"} => Harmless(Reads(kind))
  BY DEF Harmless, Idle, Reads, Call, Submission

(* Nothing is learnt, the record is kept or dropped. *)
LEMMA Quiet ==
  ASSUME CInv, UNCHANGED <<active, result, heists>>, saved' = saved \/ saved' = None,
         calls' = calls \/ CallsSettle
  PROVE  (ServerOK /\ DataOK /\ GhostOK /\ CallsOK)'
<1>1. CallsSettle
  BY DEF CInv, CallsOK, CallsSettle
<1>2. \A id : Held(id)' => Held(id)
  BY <1>1 DEF Held, CallsSettle, Harmless
<1>3. (ServerOK /\ DataOK /\ GhostOK)'
  BY DEF CInv, ServerOK, DataOK, GhostOK, Issued
<1>4. \A i \in Slot : Opens(calls'[i]) => calls'[i] = calls[i] /\ Opens(calls[i])
  BY <1>1 DEF CallsSettle, Harmless, Opens
<1>5. ASSUME NEW i \in Slot PROVE CallOK(calls[i])'
  <2>1. CASE calls'[i] = calls[i]
    BY <2>1 DEF CInv, CallsOK, CallOK, Issued
  <2>2. CASE Harmless(calls'[i])
    BY <2>2 DEF Harmless, CallOK, Submission
  <2> QED
    BY <1>1, <2>1, <2>2 DEF CallsSettle
<1>6. ASSUME NEW i \in Slot, Opens(calls'[i]) PROVE calls'[i].id \in Issued' /\ ~Held(calls[i].id)'
  BY <1>2, <1>4, <1>6 DEF CInv, CallsOK, Issued
<1>7. ASSUME NEW i \in Slot, NEW j \in Slot, i # j, Opens(calls'[i]), Opens(calls'[j])
      PROVE  calls'[i].id # calls'[j].id
  BY <1>4, <1>7 DEF CInv, CallsOK
<1>8. calls' = [i \in Slot |-> calls'[i]]
  BY <1>1 DEF CallsSettle
<1> QED
  BY <1>3, <1>5, <1>6, <1>7, <1>8 DEF CallsOK, Opens

(* The page stays, or shows something that is neither home, board nor result. *)
LEMMA PageStays ==
  ASSUME PageOK, UNCHANGED <<screen, board, active, saved, result>>
  PROVE  PageOK'
  BY DEF PageOK

Leads(view) ==
  /\ view.persisted = None /\ view.back \in {"home", "result"}
  /\ view.name = "result" \/ view.back = "result" => result # None

LEMMA PageLeads ==
  ASSUME NEW view, Show(view), view.name \notin {"home", "play"}, Leads(view), result' = result
  PROVE  PageOK'
  BY DEF Show, PageOK, Leads

LEMMA PlainScreen ==
  ASSUME NEW name
  PROVE  /\ Screen(name).name = name /\ Screen(name).persisted = None /\ Screen(name).back = "home"
         /\ name # "result" => Leads(Screen(name))
         /\ result # None => Leads(Screen(name))
  BY DEF Screen, Leads

LEMMA ScreenShown ==
  ASSUME NEW name, Show(Screen(name)), name \notin {"home", "play"}, name = "result" => result # None,
         result' = result
  PROVE  PageOK'
  BY PlainScreen, PageLeads

LEMMA HomeShown ==
  ASSUME NEW record, NEW busy, ShowHome(record, busy), record = saved \/ record = None
  PROVE  PageOK' /\ (saved' = saved \/ saved' = None)
<1>1. saved' = Kept(record) /\ (Kept(record) = record \/ Kept(record) = None)
  BY DEF ShowHome, Kept
<1>2. /\ screen'.name = "home" /\ screen'.persisted = Kept(record) /\ screen'.back = "home"
      /\ board' = "none"
  BY DEF ShowHome, Show, Screen
<1> QED
  BY <1>1, <1>2 DEF PageOK

-----------------------------------------------------------------------------
(* What a button tells of the screen it is on. *)

LEMMA ButtonsMean ==
  /\ "resume" \in Buttons => screen.name = "home" /\ screen.persisted # None
  /\ "retry" \in Buttons => screen.name = "result"
  /\ "claim" \in Buttons => screen.name = "result" /\ result.response # None
<1> DEFINE onScreen == CASE screen.name = "error" -> {"try again"}
              [] screen.name = "welcome" -> WelcomeScreen(screen.busy)
              [] screen.name = "home" -> HomeScreen(screen.persisted, screen.busy)
              [] screen.name = "play" -> PlayScreen
              [] screen.name = "result" -> ResultScreen(result)
              [] screen.name = "board" -> LeaderboardScreen
              [] screen.name = "shop" -> ShopScreen(Buying)
              [] OTHER -> {}
<1>1. \A b \in {"resume", "retry", "claim"} : b \in Buttons => b \in onScreen
  BY DEF Buttons, DecisionModal, ConfirmModal
<1>2. \A condition, buttons, b : b \in When(condition, buttons) => condition /\ b \in buttons
  BY DEF When
<1>3. \A b \in {"resume", "retry", "claim"} : \A x, y : 
        /\ b \notin WelcomeScreen(x) /\ b \notin PlayScreen /\ b \notin LeaderboardScreen /\ b \notin ShopScreen(x)
        /\ b \in HomeScreen(x, y) => b = "resume" /\ x # None
  BY <1>2 DEF WelcomeScreen, PlayScreen, LeaderboardScreen, ShopScreen, HomeScreen
<1>4. \A b \in {"resume", "retry", "claim"} :
        b \in ResultScreen(result) => b \in {"retry", "claim"} /\ (b = "claim" => result.response # None)
  BY <1>2 DEF ResultScreen
<1> QED
  BY <1>1, <1>3, <1>4

-----------------------------------------------------------------------------
(* The steps that open, play and submit nothing. *)

Waits(i) == calls' = calls \/ \E c : Harmless(c) /\ Await(i, c)

LEMMA QuietStep ==
  ASSUME CInv, UNCHANGED <<active, result, heists>>, saved' = saved \/ saved' = None,
         NEW i \in Slot, Waits(i), PageOK'
  PROVE  CInv'
<1>1. calls' = calls \/ CallsSettle
  BY AwaitSettles DEF CInv, Waits
<1> QED
  BY <1>1, Quiet DEF CInv

LEMMA LoadingSteps ==
  ASSUME CInv, NEW i \in Slot,
         Boot(i) \/ GoHome(i) \/ Join(i) \/ PlayAgain(i) \/ OnBuy(i) \/ Bought(i)
  PROVE  CInv'
<1>0. /\ Harmless(Idle) /\ \A kind \in {"boot", "home", "join", "again", "buy"} : Harmless(Reads(kind))
  BY ReadsHarmless
<1>1. /\ UNCHANGED <<active, result, heists, saved>>
      /\ Waits(i)
  BY <1>0 DEF Boot, GoHome, Join, PlayAgain, OnBuy, Bought, ShopView, stateVars, Waits
<1>2. CASE Boot(i) \/ GoHome(i) \/ OnBuy(i) \/ Bought(i)
  <2>1. PageOK'
    BY <1>1, <1>2, ScreenShown DEF Boot, GoHome, OnBuy, Bought, ShopView
  <2> QED
    BY <1>1, <2>1, QuietStep
<1>3. CASE Join(i)
  <2>1. Leads([Screen("welcome") EXCEPT !.busy = TRUE]) /\ [Screen("welcome") EXCEPT !.busy = TRUE].name = "welcome"
    BY DEF Leads, Screen
  <2>2. PageOK'
    BY <1>1, <1>3, <2>1, PageLeads DEF Join
  <2> QED
    BY <1>1, <2>2, QuietStep
<1>4. CASE PlayAgain(i)
  <2>1. PageOK'
    BY <1>1, <1>4, PageStays DEF PlayAgain, pageVars, CInv
  <2> QED
    BY <1>1, <2>1, QuietStep
<1> QED
  BY <1>2, <1>3, <1>4

LEMMA LoadedSteps ==
  ASSUME CInv, NEW i \in Slot,
         \E ok, event \in BOOLEAN : Refreshed(i, ok) \/ Joined(i, ok, event) \/ Catalog(i, ok)
  PROVE  CInv'
<1>1. UNCHANGED <<active, result, heists>> /\ Waits(i)
  BY ReadsHarmless DEF Refreshed, Joined, Catalog, stateVars, Waits
<1>2. \/ Show(Screen("error")) /\ UNCHANGED saved
      \/ Show(Screen("welcome")) /\ UNCHANGED saved
      \/ Show(Screen("shop")) /\ UNCHANGED saved
      \/ ShowHome(saved, starting)
      \/ UNCHANGED <<screen, board, saved>>
  BY DEF Refreshed, Joined, Catalog, ShopView, pageVars
<1>3. PageOK' /\ (saved' = saved \/ saved' = None)
  BY <1>1, <1>2, ScreenShown, HomeShown, PageStays DEF CInv
<1> QED
  BY <1>1, <1>3, QuietStep

(* The home screen and the modals. *)
LEMMA HomeSteps ==
  ASSUME CInv, Toggle \/ OnDiscard \/ Abandon \/ Cancel \/ OnQuit
  PROVE  CInv'
<1>1. UNCHANGED <<active, result, heists, calls>>
  BY DEF Toggle, OnDiscard, Abandon, Cancel, OnQuit, stateVars
<1>2. \/ \E record \in {saved, None} : ShowHome(record, starting)
      \/ UNCHANGED <<screen, board, saved>>
  BY DEF Toggle, OnDiscard, Abandon, Cancel, OnQuit
<1>3. PageOK' /\ (saved' = saved \/ saved' = None)
  BY <1>1, <1>2, HomeShown, PageStays DEF CInv
<1> QED
  BY <1>1, <1>3, Quiet DEF CInv

LEMMA StartSteps ==
  ASSUME CInv, NEW i \in Slot, StartButton(i) \/ Again(i) \/ NotStarted(i) \/ Regrouped(i)
  PROVE  CInv'
<1>0. Harmless(Idle) /\ Harmless(Reads("start")) /\ Harmless(Reads("regroup"))
  BY ReadsHarmless
<1>1. UNCHANGED <<active, result, heists>> /\ Waits(i)
  BY <1>0 DEF StartButton, Again, NotStarted, Regrouped, StartHeist, stateVars, Waits
<1>2. (\E busy : ShowHome(saved, busy)) \/ UNCHANGED <<screen, board, saved>>
  BY DEF StartButton, Again, NotStarted, Regrouped, StartHeist, pageVars
<1>3. PageOK' /\ (saved' = saved \/ saved' = None)
  BY <1>1, <1>2, HomeShown, PageStays DEF CInv
<1> QED
  BY <1>1, <1>3, QuietStep

(* The leaderboard and the shop. *)
LEMMA BoardScreen ==
  ASSUME NEW back \in {"home", "result"}, back = "result" => result # None
  PROVE  /\ Leads([Screen("board") EXCEPT !.back = back])
         /\ [Screen("board") EXCEPT !.back = back].name = "board"
  BY DEF Leads, Screen

LEMMA ShowLeaderboardStep ==
  ASSUME CInv, NEW i \in Slot, NEW tab, NEW back \in {"home", "result"}, back = "result" => result # None,
         ShowLeaderboard(i, tab, back)
  PROVE  CInv'
<1> DEFINE c == [Reads("board") EXCEPT !.id = <<tab, back>>]
<1>1. Harmless(c)
  BY DEF Harmless, Reads, Call, Submission
<1>2. UNCHANGED <<active, result, heists, saved>> /\ Await(i, c)
  BY DEF ShowLeaderboard, stateVars
<1> HIDE DEF c
<1>3. Waits(i)
  BY <1>1, <1>2 DEF Waits
<1>4. PageOK'
  BY <1>2, BoardScreen, PageLeads DEF ShowLeaderboard
<1> QED
  BY <1>2, <1>3, <1>4, QuietStep

LEMMA LeaderboardStep ==
  ASSUME CInv, NEW i \in Slot, Leaderboard(i)
  PROVE  CInv'
<1>1. CASE screen.name = "home" /\ ShowLeaderboard(i, "global", "home")
  BY <1>1, ShowLeaderboardStep
<1>2. CASE screen.name = "result" /\ ShowLeaderboard(i, "rivals", "result")
  <2>1. result # None
    BY <1>2 DEF CInv, PageOK
  <2> QED
    BY <1>2, <2>1, ShowLeaderboardStep
<1>3. ASSUME NEW tab \in {"global", "rivals"}, ShowLeaderboard(i, tab, screen.back) PROVE CInv'
  <2>1. screen.back \in {"home", "result"} /\ (screen.back = "result" => result # None)
    BY DEF CInv, PageOK
  <2> QED
    BY <1>3, <2>1, ShowLeaderboardStep
<1> QED
  BY <1>1, <1>2, <1>3 DEF Leaderboard

LEMMA RankedStep ==
  ASSUME CInv, NEW i \in Slot, NEW ok \in BOOLEAN, Ranked(i, ok)
  PROVE  CInv'
<1>1. UNCHANGED <<active, result, heists, saved>> /\ Waits(i)
  BY ReadsHarmless DEF Ranked, stateVars, Waits
<1>2. calls[i].id[2] \in {"home", "result"} /\ (calls[i].id[2] = "result" => result # None)
  BY DEF CInv, CallsOK, CallOK, Ranked, Pending
<1>3. PageOK'
  BY <1>1, <1>2, BoardScreen, PageLeads, PageStays DEF CInv, Ranked, pageVars
<1> QED
  BY <1>1, <1>3, QuietStep

LEMMA BrowsingSteps ==
  ASSUME CInv, NEW i \in Slot, Back(i) \/ ShowShop(i)
  PROVE  CInv'
<1>1. CASE GoHome(i)
  BY <1>1, LoadingSteps
<1>2. CASE Back(i) /\ ~GoHome(i)
  <2>1. screen.back = "result" /\ RenderResult /\ UNCHANGED <<active, result, heists, saved, calls>>
    BY <1>2 DEF Back, CInv, PageOK, stateVars
  <2>2. PageOK'
    BY <2>1, ScreenShown DEF RenderResult, CInv, PageOK
  <2> QED
    BY <2>1, <2>2, QuietStep DEF Waits
<1>3. CASE ShowShop(i)
  <2>1. UNCHANGED <<active, result, heists, saved>> /\ Waits(i)
    BY <1>3, ReadsHarmless DEF ShowShop, stateVars, Waits
  <2>2. PageOK'
    BY <1>3, <2>1, ScreenShown, PageStays DEF ShowShop, ShopView, pageVars, CInv
  <2> QED
    BY <2>1, <2>2, QuietStep
<1> QED
  BY <1>1, <1>2, <1>3

LEMMA PolledStep ==
  ASSUME CInv, NEW i \in Slot, NEW ranked \in BOOLEAN, Polled(i, ranked)
  PROVE  CInv'
<1>1. UNCHANGED <<active, result, heists, saved>> /\ Waits(i)
  BY ReadsHarmless DEF Polled, stateVars, Waits
<1>2. result # None
  BY DEF CInv, CallsOK, CallOK, Polled, Pending
<1>3. PageOK'
  BY <1>1, <1>2, ScreenShown, PageStays DEF Polled, RenderResult, pageVars, CInv
<1> QED
  BY <1>1, <1>3, QuietStep

-----------------------------------------------------------------------------
(* Playing: the board, its run and the record move together. *)

LEMMA NotNone ==
  /\ \A run \in ActiveRun : run # None
  /\ \A r \in ResultState : r # None
  BY NoneAssumption

LEMMA Recorded ==
  ASSUME NEW run \in ActiveRun
  PROVE  Record(run) \in PersistedRun /\ Record(run).id = run.id
  BY DEF Record, ActiveRun, PersistedRun

(* A rebuilt run is recorded as it was. *)
LEMMA Rebuilt ==
  ASSUME NEW p \in PersistedRun, RebuildRun(p) # None
  PROVE  /\ RebuildRun(p) \in ActiveRun /\ RebuildRun(p).id = p.id
         /\ Record(RebuildRun(p)) = p
<1>1. RebuildRun(p) = [id |-> p.id, vaults |-> p.vaults, moves |-> p.moves, key |-> p.key,
        index |-> Len(p.vaults), state |-> "PLAYING", faithful |-> p.moves # "garbled"]
  BY DEF RebuildRun
<1>2. Len(p.vaults) \in Nat
  BY DEF PersistedRun
<1>3. (p.moves # "garbled") \in BOOLEAN
  OBVIOUS
<1>4. p = [id |-> p.id, vaults |-> p.vaults, moves |-> p.moves, key |-> p.key]
  BY DEF PersistedRun
<1>5. /\ p.id \in Nat /\ p.vaults \in Seq(Replays) /\ p.moves \in Replays /\ p.key \in Nat \ {NoKey}
  BY DEF PersistedRun
<1>6. RebuildRun(p) \in ActiveRun
  BY <1>1, <1>2, <1>3, <1>5 DEF ActiveRun
<1>7. Record(RebuildRun(p)) = [id |-> p.id, vaults |-> p.vaults, moves |-> p.moves, key |-> p.key]
  BY <1>1 DEF Record
<1> QED
  BY <1>1, <1>4, <1>6, <1>7

(* The run on the board changes, and its record with it. *)
LEMMA PlaysOn ==
  ASSUME CInv, UNCHANGED <<result, heists>>, calls' = calls \/ CallsSettle,
         active' \in ActiveRun, saved' = Record(active'),
         active'.id \in Issued, \A i \in Slot : Opens(calls'[i]) => calls'[i].id # active'.id,
         result # None /\ result.response # None => active'.id # result.response,
         screen'.name = "play", screen'.persisted = None,
         screen'.back \in {"home", "result"}, screen'.back = "result" => result # None
  PROVE  CInv'
<1>1. CallsSettle
  BY DEF CInv, CallsOK, CallsSettle
<1>2. saved' \in PersistedRun /\ saved'.id = active'.id /\ active' # None
  BY Recorded, NotNone
<1>3. \A id : Held(id)' => Held(id) \/ id = active'.id
  BY <1>1, <1>2 DEF Held, CallsSettle, Harmless
<1>4. (ServerOK /\ DataOK /\ GhostOK)'
  BY <1>2 DEF CInv, ServerOK, DataOK, GhostOK, Issued
<1>5. PageOK'
  BY <1>2 DEF PageOK
<1>6. \A i \in Slot : Opens(calls'[i]) => calls'[i] = calls[i] /\ Opens(calls[i])
  BY <1>1 DEF CallsSettle, Harmless, Opens
<1>7. ASSUME NEW i \in Slot PROVE CallOK(calls[i])'
  <2>1. CASE calls'[i] = calls[i]
    BY <2>1 DEF CInv, CallsOK, CallOK, Issued
  <2>2. CASE Harmless(calls'[i])
    BY <2>2 DEF Harmless, CallOK, Submission
  <2> QED
    BY <1>1, <2>1, <2>2 DEF CallsSettle
<1>8. ASSUME NEW i \in Slot, Opens(calls'[i]) PROVE calls'[i].id \in Issued' /\ ~Held(calls[i].id)'
  BY <1>3, <1>6, <1>8 DEF CInv, CallsOK, Issued
<1>9. ASSUME NEW i \in Slot, NEW j \in Slot, i # j, Opens(calls'[i]), Opens(calls'[j])
      PROVE  calls'[i].id # calls'[j].id
  BY <1>6, <1>9 DEF CInv, CallsOK
<1>10. calls' = [i \in Slot |-> calls'[i]]
  BY <1>1 DEF CallsSettle
<1> QED
  BY <1>4, <1>5, <1>7, <1>8, <1>9, <1>10 DEF CInv, CallsOK, Opens

LEMMA PlayShown ==
  ASSUME NEW run, ShowPlay(run)
  PROVE  /\ screen'.name = "play" /\ screen'.persisted = None /\ screen'.back = "home"
         /\ active' = run
  BY DEF ShowPlay, Screen

LEMMA ResumeStep ==
  ASSUME CInv, Resume, screen.name = "home", screen.persisted # None
  PROVE  CInv'
<1>1. /\ screen.persisted = saved /\ saved \in PersistedRun /\ saved.id \in Issued
      /\ UNCHANGED <<result, heists, calls>>
  BY DEF Resume, CInv, PageOK, DataOK
<1>2. CASE RebuildRun(saved) = None
  <2>1. ShowHome(None, starting) /\ UNCHANGED active
    BY <1>1, <1>2 DEF Resume
  <2> QED
    BY <1>1, <2>1, HomeShown, Quiet DEF CInv
<1>3. CASE RebuildRun(saved) # None
  <2>1. ShowPlay(RebuildRun(saved)) /\ UNCHANGED saved
    BY <1>1, <1>3 DEF Resume
  <2>2. active' \in ActiveRun /\ active'.id = saved.id /\ saved' = Record(active')
    BY <1>1, <1>3, <2>1, PlayShown, Rebuilt
  <2>3. Held(active'.id) /\ (result # None /\ result.response # None => active'.id # result.response)
    BY <1>1, <1>3, <2>2 DEF Held, CInv, GhostOK, Resume
  <2>4. \A i \in Slot : Opens(calls'[i]) => calls'[i].id # active'.id
    BY <1>1, <2>3 DEF CInv, CallsOK
  <2> QED
    BY <1>1, <2>1, <2>2, <2>3, <2>4, PlayShown, PlaysOn
<1> QED
  BY <1>2, <1>3

(* The heist that the server has opened: nobody knew of it. *)
LEMMA StartedStep ==
  ASSUME CInv, NEW i \in Slot, Started(i)
  PROVE  CInv'
<1> DEFINE id == calls[i].id
<1>1. Opens(calls[i]) /\ id \in Issued /\ ~Held(id)
  BY DEF Started, Pending, Opens, CInv, CallsOK
<1>2. /\ ShowPlay(NewRun(id)) /\ saved' = Record(active') /\ UNCHANGED <<result, heists>>
      /\ Await(i, Idle)
  BY DEF Started
<1>3. CallsSettle
  BY <1>2, ReadsHarmless, AwaitSettles DEF CInv
<1>4. NewRun(id) \in ActiveRun /\ NewRun(id).id = id
  <2>1. id \in Nat \ {NoKey}
    <3>1. heists \in Seq(HeistRun)
      BY DEF CInv, ServerOK
    <3> QED
      BY <1>1, <3>1 DEF Issued, NoKey
  <2>2. <<>> \in Seq(Replays) /\ "empty" \in Replays
    BY DEF Replays
  <2> HIDE DEF id
  <2> QED
    BY <2>1, <2>2 DEF NewRun, ActiveRun
<1>5. \A j \in Slot : Opens(calls'[j]) => j # i /\ calls'[j] = calls[j]
  <2>1. calls'[i] = Idle /\ \A j \in Slot \ {i} : calls'[j] = calls[j]
    BY <1>2 DEF Await, CInv, CallsOK
  <2> QED
    BY <2>1 DEF Opens, Idle
<1>6. \A j \in Slot : Opens(calls'[j]) => calls'[j].id # id
  BY <1>1, <1>5 DEF CInv, CallsOK
<1>7. result # None /\ result.response # None => id # result.response
  BY <1>1 DEF Held
<1> HIDE DEF id
<1> QED
  BY <1>1, <1>2, <1>3, <1>4, <1>6, <1>7, PlayShown, PlaysOn

(* What is known of the run while the board is there. *)
LEMMA OnBoard ==
  ASSUME CInv, screen.name = "play"
  PROVE  /\ active # None /\ active \in ActiveRun /\ active.id \in Issued
         /\ screen.persisted = None
         /\ screen.back \in {"home", "result"} /\ (screen.back = "result" => result # None)
         /\ result # None /\ result.response # None => active.id # result.response
         /\ \A i \in Slot : Opens(calls[i]) => calls[i].id # active.id
<1>1. active # None /\ Held(active.id)
  BY DEF CInv, PageOK, Held
<1> QED
  BY <1>1 DEF CInv, PageOK, DataOK, GhostOK, CallsOK

LEMMA SameHeist ==
  ASSUME CInv, screen.name = "play", UNCHANGED <<screen, result, heists>>,
         NEW i \in Slot, Waits(i),
         active' \in ActiveRun, active'.id = active.id, saved' = Record(active')
  PROVE  CInv'
<1>1. calls' = calls \/ CallsSettle
  BY AwaitSettles DEF CInv, Waits
<1>2. \A j \in Slot : Opens(calls'[j]) => calls'[j] = calls[j]
  BY <1>1 DEF CallsSettle, Harmless, Opens
<1>3. \A j \in Slot : Opens(calls'[j]) => calls'[j].id # active'.id
  BY <1>2, OnBoard
<1> QED
  BY <1>1, <1>3, OnBoard, PlaysOn

LEMMA PlayingSteps ==
  ASSUME CInv, NEW i \in Slot,
         (\E state \in {"PLAYING", "CRACKED", "BUSTED"} : OnMove(state)) \/ OnSettled(i) \/ GoDeeper
  PROVE  CInv'
<1>1. ASSUME NEW state \in {"PLAYING", "CRACKED", "BUSTED"}, OnMove(state) PROVE CInv'
  <2>1. active \in ActiveRun
    BY <1>1, OnBoard DEF OnMove
  <2>2. active' = [active EXCEPT !.state = state, !.moves = IF active.faithful THEN state ELSE "garbled"]
    BY <1>1 DEF OnMove
  <2>3. active' \in ActiveRun /\ active'.id = active.id
    BY <2>1, <2>2 DEF ActiveRun, Replays, Left
  <2> QED
    BY <1>1, <2>3, SameHeist DEF OnMove, Waits
<1>2. CASE OnSettled(i)
  <2>1. screen.name = "play" /\ active \in ActiveRun /\ UNCHANGED <<screen, result, heists>>
    BY <1>2, OnBoard DEF OnSettled, CInv, PageOK
  <2>2. CASE active.state = "PLAYING"
    <3>1. UNCHANGED <<active, saved, calls>> /\ saved = Record(active)
      BY <1>2, <2>1, <2>2 DEF OnSettled, CInv, PageOK
    <3> QED
      BY <2>1, <3>1, SameHeist DEF Waits
  <2>3. CASE active.state # "PLAYING"
    <3>1. /\ active' = [active EXCEPT !.vaults = Append(active.vaults, active.moves), !.moves = "empty"]
          /\ saved' = Record(active') /\ Await(i, Call(Banner, "shown", None, NoKey))
      BY <1>2, <2>3 DEF OnSettled
    <3>2. active' \in ActiveRun /\ active'.id = active.id
      <4>1. \A s \in Seq(Replays), e \in Replays : Append(s, e) \in Seq(Replays)
        OBVIOUS
      <4>2. Append(active.vaults, active.moves) \in Seq(Replays) /\ "empty" \in Replays
        BY <2>1, <4>1 DEF ActiveRun, Replays
      <4> QED
        BY <2>1, <3>1, <4>2 DEF ActiveRun
    <3>3. Harmless(Call(Banner, "shown", None, NoKey))
      BY DEF Harmless, Call, Banner, Submission
    <3> QED
      BY <2>1, <3>1, <3>2, <3>3, SameHeist DEF Waits
  <2> QED
    BY <2>2, <2>3
<1>3. CASE GoDeeper /\ (active = None \/ board = "none")
  BY <1>3, PageStays, Quiet DEF GoDeeper, CInv
<1>4. CASE GoDeeper /\ ~(active = None \/ board = "none")
  <2>1. /\ screen.name = "play" /\ active \in ActiveRun /\ UNCHANGED <<screen, result, heists, calls>>
        /\ active' = NextVault(active) /\ saved' = Record(active')
    BY <1>4, OnBoard DEF GoDeeper, CInv, PageOK
  <2>2. NextVault(active) \in ActiveRun /\ NextVault(active).id = active.id
    <3>1. active.index + 1 \in Nat
      BY <2>1 DEF ActiveRun
    <3>2. (active.faithful /\ active.index + 1 = Len(active.vaults) /\ active.moves = "empty") \in BOOLEAN
      OBVIOUS
    <3>3. \/ NextVault(active) = [active EXCEPT !.index = active.index + 1]
          \/ NextVault(active) = [active EXCEPT !.index = active.index + 1, !.state = "PLAYING",
               !.faithful = (active.faithful /\ active.index + 1 = Len(active.vaults) /\ active.moves = "empty")]
      BY DEF NextVault
    <3> QED
      BY <2>1, <3>1, <3>2, <3>3 DEF ActiveRun
  <2> QED
    BY <2>1, <2>2, SameHeist DEF Waits
<1> QED
  BY <1>1, <1>2, <1>3, <1>4

-----------------------------------------------------------------------------
(* Finishing: a submission and its answer.  The page goes to the result. *)

ResultShown == screen'.name = "result" /\ screen'.persisted = None /\ screen'.back = "home" /\ board' = "none"

LEMMA RenderShows == RenderResult => ResultShown
  BY DEF RenderResult, Show, Screen, ResultShown

(* The call that ends or begins there knows of no heist but those held. *)
Known(c) ==
  /\ c = [kind |-> c.kind, stage |-> c.stage, id |-> c.id, key |-> c.key, answer |-> c.answer]
  /\ c.answer = "none" /\ c.stage # "adrift"
  /\ Submission(c) => c.id \in Issued /\ Held(c.id) /\ c.key \in Nat \ {NoKey}
  /\ c.kind # "board"

LEMMA Submits ==
  ASSUME CInv, UNCHANGED heists, NEW i \in Slot, NEW c, Known(c), Await(i, c),
         active' = active \/ active' = None, saved' = saved \/ saved' = None,
         result' \in ResultState, result'.run \in Issued, Held(result'.run),
         result'.response # None => result'.response \in Issued /\ Held(result'.response),
         result'.response # None /\ active' # None => active.id # result'.response,
         result'.response # None /\ saved' # None => saved.id # result'.response,
         ResultShown
  PROVE  CInv'
<1>0. result' # None
  BY NotNone
<1>1. /\ calls' = [j \in Slot |-> calls'[j]]
      /\ calls'[i] = c /\ \A j \in Slot \ {i} : calls'[j] = calls[j]
  BY DEF Await, CInv, CallsOK
<1>2. ASSUME NEW id, Held(id)' PROVE Held(id)
  <2>1. CASE active' # None /\ active'.id = id
    BY <2>1 DEF Held
  <2>2. CASE saved' # None /\ saved'.id = id
    BY <2>2 DEF Held
  <2>3. CASE result'.run = id \/ (result'.response # None /\ result'.response = id)
    BY <2>3
  <2>4. ASSUME NEW j \in Slot, Submission(calls'[j]), calls'[j].id = id PROVE Held(id)
    BY <1>1, <2>4 DEF Held, Known
  <2> QED
    BY <1>2, <2>1, <2>2, <2>3, <2>4 DEF Held
<1>3. (ServerOK /\ DataOK /\ PageOK)'
  BY <1>0 DEF CInv, ServerOK, DataOK, PageOK, Issued, ResultShown
<1>4. GhostOK'
  BY DEF GhostOK
<1>5. ASSUME NEW j \in Slot PROVE CallOK(calls[j])'
  <2>1. CASE j = i
    BY <1>0, <1>1, <2>1 DEF Known, CallOK, Issued, Submission
  <2>2. CASE j # i
    BY <1>0, <1>1, <2>2 DEF CInv, CallsOK, CallOK, Issued
  <2> QED
    BY <2>1, <2>2
<1>6. \A j \in Slot : Opens(calls'[j]) => j # i /\ calls'[j] = calls[j] /\ Opens(calls[j])
  BY <1>1 DEF Known, Opens
<1>7. ASSUME NEW j \in Slot, Opens(calls'[j]) PROVE calls'[j].id \in Issued' /\ ~Held(calls[j].id)'
  <2>1. calls'[j].id = calls[j].id /\ calls[j].id \in Issued /\ ~Held(calls[j].id)
    BY <1>6, <1>7 DEF CInv, CallsOK
  <2> QED
    BY <1>2, <2>1 DEF Issued
<1>8. ASSUME NEW j \in Slot, NEW k \in Slot, j # k, Opens(calls'[j]), Opens(calls'[k])
      PROVE  calls'[j].id # calls'[k].id
  BY <1>6, <1>8 DEF CInv, CallsOK
<1> QED
  BY <1>1, <1>3, <1>4, <1>5, <1>7, <1>8 DEF CInv, CallsOK, Opens

LEMMA FinishRunStep ==
  ASSUME CInv, UNCHANGED heists, NEW i \in Slot, NEW escaped \in BOOLEAN, FinishRun(i, escaped)
  PROVE  CInv'
<1>1. CASE active = None
  <2>1. UNCHANGED <<screen, board, active, result, saved>> /\ Waits(i)
    BY <1>1, ReadsHarmless DEF FinishRun, pageVars, Waits
  <2> QED
    BY <2>1, PageStays, QuietStep DEF CInv
<1>2. CASE active # None /\ Replayable(active.vaults, escaped)
  <2> DEFINE c == Call("finish", "sent", active.id, active.key)
  <2>1. /\ result' = Submitting(active) /\ RenderResult /\ Await(i, c) /\ UNCHANGED <<active, saved>>
    BY <1>2 DEF FinishRun
  <2>2. active \in ActiveRun /\ active.id \in Issued /\ Held(active.id)
    BY <1>2 DEF CInv, DataOK, Held
  <2>3. Known(c)
    BY <2>2 DEF Known, Call, Submission, ActiveRun
  <2> HIDE DEF c
  <2>4. result' = [run |-> active.id, key |-> active.key, response |-> None, error |-> FALSE,
                   submitting |-> TRUE, claiming |-> FALSE, claimed |-> FALSE]
    BY <2>1 DEF Submitting, Response
  <2>5. result' \in ResultState /\ result'.run = active.id /\ result'.response = None
    BY <2>2, <2>4 DEF ResultState, ActiveRun
  <2> QED
    BY <2>1, <2>2, <2>3, <2>5, RenderShows, Submits
<1>3. CASE active # None /\ ~Replayable(active.vaults, escaped)
  <2>1. /\ saved' = None /\ active' = None /\ result' = result
        /\ Show(Screen("loading")) /\ Await(i, Reads("home"))
    BY <1>3 DEF FinishRun
  <2>2. CallsSettle
    BY <2>1, ReadsHarmless, AwaitSettles DEF CInv
  <2>3. (ServerOK /\ DataOK /\ GhostOK)'
    BY <2>1 DEF CInv, ServerOK, DataOK, GhostOK, Issued
  <2>4. PageOK'
    BY <2>1, ScreenShown
  <2>5. CallsOK'
    <3>1. \A id : Held(id)' => Held(id)
      BY <2>1, <2>2 DEF Held, CallsSettle, Harmless
    <3>2. \A j \in Slot : Opens(calls'[j]) => calls'[j] = calls[j] /\ Opens(calls[j])
      BY <2>2 DEF CallsSettle, Harmless, Opens
    <3>3. ASSUME NEW j \in Slot PROVE CallOK(calls[j])'
      <4>1. CASE calls'[j] = calls[j]
        BY <2>1, <4>1 DEF CInv, CallsOK, CallOK, Issued
      <4>2. CASE Harmless(calls'[j])
        BY <2>1, <4>2 DEF Harmless, CallOK, Submission
      <4> QED
        BY <2>2, <4>1, <4>2 DEF CallsSettle
    <3> QED
      BY <2>2, <3>1, <3>2, <3>3 DEF CInv, CallsOK, CallsSettle, Opens, Issued
  <2> QED
    BY <2>3, <2>4, <2>5 DEF CInv
<1> QED
  BY <1>1, <1>2, <1>3

LEMMA BannerGoneStep ==
  ASSUME CInv, NEW i \in Slot, BannerGone(i)
  PROVE  CInv'
<1>1. CASE FinishRun(i, TRUE) \/ FinishRun(i, FALSE)
  BY <1>1, FinishRunStep DEF BannerGone
<1>2. CASE ~(FinishRun(i, TRUE) \/ FinishRun(i, FALSE))
  <2>1. UNCHANGED <<screen, board, active, result, saved, heists>> /\ Waits(i)
    BY <1>2, ReadsHarmless DEF BannerGone, Waits
  <2> QED
    BY <2>1, PageStays, QuietStep DEF CInv
<1> QED
  BY <1>1, <1>2

LEMMA EscapeStep ==
  ASSUME CInv, NEW i \in Slot, Escape(i)
  PROVE  CInv'
<1>1. CASE FinishRun(i, TRUE)
  BY <1>1, FinishRunStep DEF Escape
<1>2. CASE ~FinishRun(i, TRUE)
  <2>1. UNCHANGED <<screen, board, active, result, saved, heists, calls>>
    BY <1>2 DEF Escape
  <2> QED
    BY <2>1, PageStays, QuietStep DEF CInv, Waits
<1> QED
  BY <1>1, <1>2

(* The result that is on show takes an answer, or is asked something. *)
LEMMA ResultThere ==
  ASSUME CInv, result # None
  PROVE  /\ result \in ResultState /\ result.run \in Issued /\ Held(result.run)
         /\ result.response # None => /\ result.response \in Issued /\ Held(result.response)
                                      /\ active # None => active.id # result.response
                                      /\ saved # None => saved.id # result.response
  BY DEF CInv, DataOK, GhostOK, Held

(* A step that keeps run and response of the result. *)
LEMMA SameResult ==
  ASSUME CInv, result # None, UNCHANGED heists, NEW i \in Slot, NEW c, Known(c), Await(i, c), RenderResult,
         active' = active \/ active' = None, saved' = saved \/ saved' = None,
         result' \in ResultState, result'.run = result.run, result'.response = result.response
  PROVE  CInv'
<1>1. ResultShown
  BY RenderShows
<1>2. result.run \in Issued /\ Held(result.run)
  BY ResultThere
<1>3. result.response # None => /\ result.response \in Issued /\ Held(result.response)
                                /\ active # None => active.id # result.response
                                /\ saved # None => saved.id # result.response
  BY ResultThere
<1>4. /\ result'.response # None /\ active' # None => active.id # result'.response
      /\ result'.response # None /\ saved' # None => saved.id # result'.response
  BY <1>3
<1>5. result'.run \in Issued /\ Held(result'.run)
  BY <1>2
<1>6. result'.response # None => result'.response \in Issued /\ Held(result'.response)
  BY <1>3
<1> QED
  BY <1>1, <1>4, <1>5, <1>6, Submits

LEMMA AcceptedStep ==
  ASSUME CInv, UNCHANGED heists, NEW i \in Slot, Submission(calls[i]), calls[i].stage # "adrift",
         Accepted(i), NEW c, Known(c), Await(i, c)
  PROVE  CInv'
<1>1. result # None /\ calls[i].id \in Issued /\ Held(calls[i].id)
  BY DEF CInv, CallsOK, CallOK, Submission, Held
<1>2. result' = [result EXCEPT !.response = calls[i].id, !.submitting = FALSE]
  BY DEF Accepted
<1>3. calls[i].id \in Nat
  BY <1>1 DEF Issued, CInv, ServerOK
<1>4. result' \in ResultState /\ result'.run = result.run /\ result'.response = calls[i].id
  BY <1>1, <1>2, <1>3, ResultThere DEF ResultState
<1>5. saved' = None /\ active' = None /\ ResultShown
  BY RenderShows DEF Accepted
<1> QED
  BY <1>1, <1>4, <1>5, ResultThere, Submits

LEMMA ErrorResult ==
  ASSUME NEW r \in ResultState, NEW error \in BOOLEAN, NEW submitting \in BOOLEAN
  PROVE  LET e == [r EXCEPT !.error = error, !.submitting = submitting]
         IN  e \in ResultState /\ e.run = r.run /\ e.response = r.response
  BY DEF ResultState

LEMMA SubmissionThere ==
  ASSUME CInv, NEW i \in Slot, Submission(calls[i]), calls[i].stage # "adrift"
  PROVE  result # None /\ calls[i].id \in Issued /\ Held(calls[i].id)
  BY DEF CInv, CallsOK, CallOK, Submission, Held

LEMMA IdleKnown == Known(Idle)
  BY DEF Known, Idle, Submission

LEMMA AnsweredSteps ==
  ASSUME CInv, NEW i \in Slot, FinishAnswered(i) \/ RetryAnswered(i) \/ Unreachable(i)
  PROVE  CInv'
<1>1. Submission(calls[i]) /\ calls[i].stage # "adrift" /\ UNCHANGED heists
  BY DEF FinishAnswered, RetryAnswered, Unreachable, Pending, Submission
<1>2. CASE Accepted(i) /\ (FinishAnswered(i) \/ RetryAnswered(i))
  <2>1. Known(Call("poll", "sent", calls[i].id, NoKey))
    BY DEF Known, Call, Submission
  <2>2. Await(i, Idle) \/ Await(i, Call("poll", "sent", calls[i].id, NoKey))
    BY <1>2 DEF FinishAnswered, RetryAnswered
  <2> QED
    BY <1>1, <1>2, <2>1, <2>2, IdleKnown, AcceptedStep
<1>3. CASE ~Accepted(i) \/ Unreachable(i)
  <2>1. /\ result' = [result EXCEPT !.error = TRUE, !.submitting = FALSE]
        /\ RenderResult /\ Await(i, Idle)
        /\ active' = active \/ active' = None
        /\ saved' = saved \/ saved' = None
    BY <1>3 DEF FinishAnswered, RetryAnswered, Unreachable
  <2>2. result # None /\ result \in ResultState
    BY <1>1, SubmissionThere, ResultThere
  <2>3. result' \in ResultState /\ result'.run = result.run /\ result'.response = result.response
    BY <2>1, <2>2, ErrorResult
  <2> QED
    BY <1>1, <2>1, <2>2, <2>3, IdleKnown, SameResult
<1> QED
  BY <1>2, <1>3

LEMMA AskingSteps ==
  ASSUME CInv, NEW i \in Slot, result # None, OnRetry(i) \/ ClaimReward(i)
  PROVE  CInv'
<1>0. /\ result \in ResultState /\ result.run \in Issued /\ Held(result.run)
      /\ UNCHANGED <<heists, active, saved>> /\ RenderResult
  BY ResultThere DEF OnRetry, ClaimReward
<1>1. CASE OnRetry(i)
  <2>1. Known(Call("retry", "sent", result.run, result.key))
    BY <1>0 DEF Known, Call, Submission, ResultState
  <2>2. result' \in ResultState /\ result'.run = result.run /\ result'.response = result.response
    BY <1>0, <1>1, ErrorResult DEF OnRetry
  <2>3. Await(i, Call("retry", "sent", result.run, result.key))
    BY <1>1 DEF OnRetry
  <2> QED
    BY <1>0, <2>1, <2>2, <2>3, SameResult
<1>2. CASE ClaimReward(i)
  <2>1. Known(Call("claim", "sent", result.response, NoKey))
    BY DEF Known, Call, Submission
  <2>2. result' \in ResultState /\ result'.run = result.run /\ result'.response = result.response
    BY <1>0, <1>2 DEF ClaimReward, ResultState
  <2>3. Await(i, Call("claim", "sent", result.response, NoKey))
    BY <1>2 DEF ClaimReward
  <2> QED
    BY <1>0, <2>1, <2>2, <2>3, SameResult
<1> QED
  BY <1>1, <1>2

LEMMA ClaimedStep ==
  ASSUME CInv, NEW i \in Slot, NEW paid \in BOOLEAN, Claimed(i, paid)
  PROVE  CInv'
<1>1. result # None /\ result \in ResultState
  <2>1. result # None
    BY DEF Claimed, Pending, CInv, CallsOK, CallOK
  <2> QED
    BY <2>1, ResultThere
<1>2. (result.claimed \/ paid) \in BOOLEAN
  OBVIOUS
<1>3. result' = [result EXCEPT !.claiming = FALSE, !.claimed = (result.claimed \/ paid)]
  BY DEF Claimed
<1>4. result' \in ResultState /\ result'.run = result.run /\ result'.response = result.response
  BY <1>1, <1>2, <1>3 DEF ResultState
<1> QED
  BY <1>1, <1>4, IdleKnown, SameResult DEF Claimed

-----------------------------------------------------------------------------
(* The server, the tide and the clock. *)

(* Calls change, but know of no more than they did; heists only grow older. *)
HeistsAge ==
  /\ heists' \in Seq(HeistRun) /\ Len(heists') = Len(heists)
  /\ \A id \in Issued : heists'[id].finished => heists'[id].answer # "none"

LEMMA Ages ==
  ASSUME CInv, HeistsAge, UNCHANGED <<screen, board, active, result, saved>>,
         calls' = [i \in Slot |-> calls'[i]],
         \A i \in Slot : CallOK(calls'[i]),
         \A i \in Slot : Submission(calls'[i]) => Submission(calls[i]) /\ calls'[i].id = calls[i].id,
         \A i \in Slot : Opens(calls'[i]) => Opens(calls[i]) /\ calls'[i].id = calls[i].id
  PROVE  CInv'
<1>1. Issued' = Issued
  BY DEF HeistsAge, Issued
<1>2. \A id : Held(id)' => Held(id)
  BY DEF Held
<1>3. (ServerOK /\ DataOK /\ PageOK /\ GhostOK)'
  BY <1>1 DEF CInv, ServerOK, DataOK, PageOK, GhostOK, HeistsAge
<1>4. \A i \in Slot : CallOK(calls[i])'
  BY <1>1 DEF CallOK
<1>5. ASSUME NEW i \in Slot, Opens(calls'[i]) PROVE calls'[i].id \in Issued' /\ ~Held(calls[i].id)'
  BY <1>1, <1>2, <1>5 DEF CInv, CallsOK
<1>6. ASSUME NEW i \in Slot, NEW j \in Slot, i # j, Opens(calls'[i]), Opens(calls'[j])
      PROVE  calls'[i].id # calls'[j].id
  BY <1>6 DEF CInv, CallsOK
<1> QED
  BY <1>3, <1>4, <1>5, <1>6 DEF CInv, CallsOK, Opens

LEMMA Same ==
  ASSUME CInv
  PROVE  /\ \A i \in Slot : CallOK(calls[i])
         /\ calls = [i \in Slot |-> calls[i]]
         /\ heists \in Seq(HeistRun) /\ Len(heists) \in Nat
         /\ \A id \in Issued : heists[id] \in HeistRun /\ (heists[id].finished => heists[id].answer # "none")
  BY DEF CInv, CallsOK, ServerOK, Issued

LEMMA IdleOK == CallOK(Idle) /\ ~Submission(Idle) /\ ~Opens(Idle)
  BY DEF CallOK, Idle, Submission, Opens

LEMMA LostAtSeaStep ==
  ASSUME CInv, NEW i \in Slot, LostAtSea(i)
  PROVE  CInv'
<1>1. UNCHANGED <<screen, board, active, result, saved, heists>> /\ Await(i, Idle)
  BY DEF LostAtSea, pageVars, stateVars
<1>2. calls'[i] = Idle /\ (\A j \in Slot \ {i} : calls'[j] = calls[j]) /\ calls' = [j \in Slot |-> calls'[j]]
  BY <1>1, Same DEF Await
<1>3. HeistsAge
  BY <1>1, Same DEF HeistsAge
<1> QED
  BY <1>1, <1>2, <1>3, Same, IdleOK, Ages

LEMMA ExpireStep ==
  ASSUME CInv, NEW id \in Expiring, Expire(id)
  PROVE  CInv'
<1>1. UNCHANGED <<screen, board, active, result, saved, calls>>
  BY DEF Expire, pageVars, stateVars
<1>2. heists' = [heists EXCEPT ![id].late = TRUE]
  BY DEF Expire
<1>3. \A h \in HeistRun : [h EXCEPT !.late = TRUE] \in HeistRun
                       /\ [h EXCEPT !.late = TRUE].finished = h.finished
                       /\ [h EXCEPT !.late = TRUE].answer = h.answer
  BY DEF HeistRun
<1>4. Len(heists') = Len(heists) /\ heists' \in Seq(HeistRun)
  <2>1. CASE id \in Issued
    <3>1. PICK h \in HeistRun : h = [heists[id] EXCEPT !.late = TRUE]
      BY <1>3, <2>1, Same
    <3>2. heists' = [heists EXCEPT ![id] = h]
      BY <1>2, <3>1
    <3> QED
      BY <2>1, <3>2, Same DEF Issued
  <2>2. CASE id \notin Issued
    <3>1. heists' = heists
      BY <1>2, <2>2, Same DEF Issued
    <3> QED
      BY <3>1, Same
  <2> QED
    BY <2>1, <2>2
<1>5. \A k \in Issued : heists'[k].finished => heists'[k].answer # "none"
  BY <1>2, <1>3, Same DEF Issued
<1>6. HeistsAge
  BY <1>4, <1>5 DEF HeistsAge
<1> QED
  BY <1>1, <1>6, Same, Ages

LEMMA ServeFinishStep ==
  ASSUME CInv, NEW i \in Slot, ServeFinish(i)
  PROVE  CInv'
<1> DEFINE c == calls[i]
<1> DEFINE id == c.id
<1> DEFINE stored == c.key # NoKey /\ heists[id].answer # "none"
<1> DEFINE answer == IF stored THEN heists[id].answer ELSE Verdict(heists[id])
<1>1. /\ Submission(c) /\ UNCHANGED <<screen, board, active, result, saved>>
      /\ Reply(i, id, answer)
      /\ heists' = [heists EXCEPT ![id] = [finished |-> @.finished \/ answer = "ok", late |-> @.late,
                                         answer |-> IF c.key = NoKey THEN @.answer ELSE answer]]
  BY DEF ServeFinish, Pending, Submission, pageVars, stateVars
<1>2. id \in Issued /\ c.key # NoKey /\ CallOK(c) /\ heists[id] \in HeistRun
  BY <1>1, Same DEF CallOK
<1>3. answer \in {"ok", "RUN_EXPIRED"}
  BY <1>2, Same DEF Verdict, HeistRun
<1> HIDE DEF answer, stored
<1>4. HeistsAge
  <2>1. PICK done \in BOOLEAN : done = (heists[id].finished \/ answer = "ok")
    OBVIOUS
  <2>2. PICK h \in HeistRun : h = [finished |-> done, late |-> heists[id].late, answer |-> answer]
    BY <1>2, <1>3 DEF HeistRun
  <2>3. heists' = [heists EXCEPT ![id] = h]
    BY <1>1, <1>2, <2>1, <2>2, Same DEF Issued
  <2> QED
    BY <1>2, <1>3, <2>2, <2>3, Same DEF HeistsAge, Issued
<1>5. Len(heists') = Len(heists) /\ \A j \in Slot \ {i} : calls'[j] = calls[j]
  BY <1>1, <1>4, Same DEF HeistsAge, Reply, Await
<1>6. /\ calls' = [j \in Slot |-> calls'[j]]
      /\ \/ calls'[i] = Idle
         \/ c.stage # "adrift" /\ calls'[i] = [c EXCEPT !.stage = "answered", !.id = id, !.answer = answer]
  BY <1>1, Same DEF Reply, Await
<1>7. ASSUME c.stage # "adrift", calls'[i] = [c EXCEPT !.stage = "answered", !.id = id, !.answer = answer]
      PROVE  /\ CallOK(calls'[i])
             /\ calls'[i].id = id /\ calls'[i].kind = c.kind /\ ~Opens(calls'[i])
  <2>1. calls'[i] = [kind |-> c.kind, stage |-> "answered", id |-> id, key |-> c.key, answer |-> answer]
    BY <1>2, <1>7 DEF CallOK
  <2> QED
    BY <1>1, <1>2, <1>3, <1>7, <2>1, Same DEF CallOK, Submission, Opens
<1>8. CallOK(calls'[i]) /\ ~Opens(calls'[i])
      /\ (Submission(calls'[i]) => calls'[i].id = calls[i].id)
  BY <1>6, <1>7, IdleOK
<1> QED
  BY <1>1, <1>4, <1>5, <1>6, <1>8, Same, Ages

LEMMA HeldIsIssued ==
  ASSUME CInv, NEW id, Held(id)
  PROVE  id \in Issued
  BY DEF CInv, DataOK, CallsOK, CallOK, Held

LEMMA ServeStartStep ==
  ASSUME CInv, NEW i \in Slot, ServeStart(i)
  PROVE  CInv'
<1> DEFINE new == Len(heists) + 1
<1>1. /\ calls[i].kind = "start" /\ UNCHANGED <<screen, board, active, result, saved>>
      /\ Reply(i, new, "ok") /\ heists' = Append(heists, Opened)
  BY DEF ServeStart, Pending, pageVars, stateVars
<1>2. Opened \in HeistRun /\ ~Opened.finished
  BY DEF Opened, HeistRun
<1>3. new \notin Issued /\ Issued' = Issued \cup {new}
  BY <1>1, Same DEF Issued
<1>4. ServerOK'
  <2>1. heists' \in Seq(HeistRun)
    BY <1>1, <1>2, Same
  <2>2. \A id \in Issued' : heists'[id] = IF id = new THEN Opened ELSE heists[id]
    BY <1>1, <1>3, Same DEF Issued
  <2> QED
    BY <1>2, <1>3, <2>1, <2>2, Same DEF ServerOK
<1>5. (DataOK /\ PageOK /\ GhostOK)'
  BY <1>1, <1>3 DEF CInv, DataOK, PageOK, GhostOK
<1>6. /\ calls' = [j \in Slot |-> calls'[j]]
      /\ \A j \in Slot \ {i} : calls'[j] = calls[j]
      /\ \/ calls'[i] = Idle
         \/ calls[i].stage # "adrift" /\ calls'[i] = [calls[i] EXCEPT !.stage = "answered", !.id = new, !.answer = "ok"]
  BY <1>1, Same DEF Reply, Await
<1>7. CallOK(calls[i])' /\ ~Submission(calls'[i]) /\ (Opens(calls'[i]) => calls'[i].id = new)
  <2>1. CASE calls'[i] = Idle
    BY <2>1 DEF Idle, CallOK, Submission, Opens
  <2>2. CASE calls'[i] = [calls[i] EXCEPT !.stage = "answered", !.id = new, !.answer = "ok"]
    <3>1. calls'[i] = [kind |-> "start", stage |-> "answered", id |-> new, key |-> calls[i].key, answer |-> "ok"]
      BY <1>1, <2>2, Same DEF CallOK
    <3> QED
      BY <3>1 DEF CallOK, Submission, Opens
  <2> QED
    BY <1>6, <2>1, <2>2
<1>8. \A j \in Slot : CallOK(calls[j])'
  BY <1>1, <1>3, <1>6, <1>7, Same DEF CallOK
<1>9. \A id : Held(id)' => Held(id)
  BY <1>1, <1>6, <1>7 DEF Held
<1>10. ~Held(new)
  BY <1>3, HeldIsIssued
<1> HIDE DEF new
<1>11. ASSUME NEW j \in Slot, Opens(calls'[j]) PROVE calls'[j].id \in Issued' /\ ~Held(calls[j].id)'
  <2>1. CASE j = i
    BY <1>3, <1>7, <1>9, <1>10, <1>11, <2>1
  <2>2. CASE j # i
    BY <1>3, <1>6, <1>9, <1>11, <2>2 DEF CInv, CallsOK
  <2> QED
    BY <2>1, <2>2
<1>12. ASSUME NEW j \in Slot, NEW k \in Slot, j # k, Opens(calls'[j]), Opens(calls'[k])
       PROVE  calls'[j].id # calls'[k].id
  <2>1. \A l \in Slot \ {i} : Opens(calls'[l]) => calls'[l] = calls[l] /\ calls'[l].id \in Issued
    BY <1>6 DEF CInv, CallsOK
  <2>2. CASE j = i \/ k = i
    BY <1>3, <1>7, <1>12, <2>1, <2>2
  <2>3. CASE j # i /\ k # i
    BY <1>12, <2>1, <2>3 DEF CInv, CallsOK
  <2> QED
    BY <2>2, <2>3
<1> QED
  BY <1>4, <1>5, <1>6, <1>8, <1>11, <1>12 DEF CInv, CallsOK, Opens

LEMMA AdriftKeeps ==
  ASSUME NEW c, CallOK(c)
  PROVE  \/ Adrift(c) = Idle
         \/ /\ Adrift(c) = [kind |-> c.kind, stage |-> "adrift", id |-> c.id, key |-> c.key, answer |-> c.answer]
            /\ c.kind \in {"start", "finish", "retry"}
  BY DEF CallOK, Adrift

LEMMA ReloadStep ==
  ASSUME CInv, NEW i \in Slot, Reload(i)
  PROVE  CInv'
<1>1. /\ Show(Screen("loading")) /\ active' = None /\ result' = None /\ UNCHANGED <<saved, heists>>
      /\ calls' = [j \in Slot |-> IF j = i THEN Reads("boot") ELSE Adrift(calls[j])]
  BY DEF Reload
<1>2. (ServerOK /\ DataOK /\ GhostOK)'
  BY <1>1 DEF CInv, ServerOK, DataOK, GhostOK, Issued
<1>3. PageOK'
  BY <1>1 DEF Show, Screen, PageOK
<1>4. ASSUME NEW j \in Slot
      PROVE  \/ calls'[j] = Idle
             \/ calls'[j] = Reads("boot")
             \/ /\ calls'[j] = [kind |-> calls[j].kind, stage |-> "adrift", id |-> calls[j].id,
                                key |-> calls[j].key, answer |-> calls[j].answer]
                /\ calls[j].kind \in {"start", "finish", "retry"}
  BY <1>1, Same, AdriftKeeps
<1>5. \A j \in Slot : CallOK(calls[j])'
  <2> SUFFICES ASSUME NEW j \in Slot PROVE CallOK(calls[j])'
    OBVIOUS
  <2>1. CASE calls'[j] = Idle \/ calls'[j] = Reads("boot")
    BY <2>1 DEF Idle, Reads, Call, CallOK, Submission
  <2>2. CASE ~(calls'[j] = Idle \/ calls'[j] = Reads("boot"))
    <3>1. /\ calls'[j] = [kind |-> calls[j].kind, stage |-> "adrift", id |-> calls[j].id,
                          key |-> calls[j].key, answer |-> calls[j].answer]
          /\ calls[j].kind \in {"start", "finish", "retry"}
      BY <1>4, <2>2
    <3>2. CallOK(calls[j]) /\ Issued' = Issued
      BY <1>1, Same DEF Issued
    <3> QED
      BY <3>1, <3>2 DEF CallOK, Submission
  <2> QED
    BY <2>1, <2>2
<1>6. \A j \in Slot : /\ Submission(calls'[j]) => Submission(calls[j]) /\ calls'[j].id = calls[j].id
                      /\ Opens(calls'[j]) => Opens(calls[j]) /\ calls'[j].id = calls[j].id
  <2> SUFFICES ASSUME NEW j \in Slot
               PROVE  /\ Submission(calls'[j]) => Submission(calls[j]) /\ calls'[j].id = calls[j].id
                      /\ Opens(calls'[j]) => Opens(calls[j]) /\ calls'[j].id = calls[j].id
    OBVIOUS
  <2>1. CASE calls'[j] = Idle \/ calls'[j] = Reads("boot")
    BY <2>1 DEF Idle, Reads, Call, Submission, Opens
  <2>2. CASE ~(calls'[j] = Idle \/ calls'[j] = Reads("boot"))
    <3>1. calls'[j] = [kind |-> calls[j].kind, stage |-> "adrift", id |-> calls[j].id,
                       key |-> calls[j].key, answer |-> calls[j].answer]
      BY <1>4, <2>2
    <3> QED
      BY <3>1 DEF Submission, Opens
  <2> QED
    BY <2>1, <2>2
<1>7. \A id : Held(id)' => Held(id)
  BY <1>1, <1>6 DEF Held
<1>8. ASSUME NEW j \in Slot, Opens(calls'[j]) PROVE calls'[j].id \in Issued' /\ ~Held(calls[j].id)'
  BY <1>1, <1>6, <1>7, <1>8 DEF CInv, CallsOK, Issued
<1>9. ASSUME NEW j \in Slot, NEW k \in Slot, j # k, Opens(calls'[j]), Opens(calls'[k])
      PROVE  calls'[j].id # calls'[k].id
  BY <1>6, <1>9 DEF CInv, CallsOK
<1>10. calls' = [j \in Slot |-> calls'[j]]
  BY <1>1
<1> QED
  BY <1>2, <1>3, <1>5, <1>8, <1>9, <1>10 DEF CInv, CallsOK, Opens

-----------------------------------------------------------------------------
(* Every step, and what follows. *)

LEMMA InitCInv == ClientInit => CInv
<1> SUFFICES ASSUME ClientInit PROVE CInv
  OBVIOUS
<1>1. /\ screen.name = "loading" /\ screen.persisted = None /\ screen.back = "home" /\ board = "none"
      /\ active = None /\ saved = None /\ result = None /\ heists = <<>>
  BY DEF ClientInit, Screen
<1>2. ServerOK /\ DataOK /\ PageOK /\ GhostOK
  BY <1>1 DEF ServerOK, DataOK, PageOK, GhostOK, Issued
<1>3. calls = [i \in Slot |-> calls[i]] /\ \A i \in Slot : calls[i] = Reads("boot") \/ calls[i] = Idle
  BY DEF ClientInit
<1>4. ASSUME NEW c, c = Reads("boot") \/ c = Idle PROVE CallOK(c) /\ ~Opens(c)
  BY <1>4 DEF Reads, Call, Idle, CallOK, Submission, Opens
<1> QED
  BY <1>2, <1>3, <1>4 DEF CInv, CallsOK

LEMMA ContinueStep ==
  ASSUME CInv, NEW i \in Slot, Continue(i)
  PROVE  CInv'
<1>1. CASE \E ok \in BOOLEAN : Ranked(i, ok)
  BY <1>1, RankedStep
<1>2. CASE \E ok, event \in BOOLEAN : Refreshed(i, ok) \/ Joined(i, ok, event) \/ Catalog(i, ok)
  BY <1>2, LoadedSteps
<1>3. CASE \E ok \in BOOLEAN : Polled(i, ok) \/ Claimed(i, ok)
  BY <1>3, PolledStep, ClaimedStep
<1>4. CASE Bought(i) \/ Again(i) \/ NotStarted(i) \/ Regrouped(i)
  BY <1>4, LoadingSteps, StartSteps
<1>5. CASE Started(i)
  BY <1>5, StartedStep
<1>6. CASE BannerGone(i)
  BY <1>6, BannerGoneStep
<1>7. CASE FinishAnswered(i) \/ RetryAnswered(i) \/ Unreachable(i)
  BY <1>7, AnsweredSteps
<1> QED
  BY <1>1, <1>2, <1>3, <1>4, <1>5, <1>6, <1>7 DEF Continue

LEMMA TapSteps ==
  ASSUME CInv, NEW i \in Slot, NEW button \in Buttons, Tap(button, i)
  PROVE  CInv'
<1>1. CASE Boot(i) \/ Join(i) \/ PlayAgain(i) \/ GoHome(i) \/ OnBuy(i)
  BY <1>1, LoadingSteps
<1>2. CASE StartButton(i)
  BY <1>2, StartSteps
<1>3. CASE Escape(i)
  BY <1>3, EscapeStep
<1>4. CASE (button = "retry" /\ OnRetry(i)) \/ (button = "claim" /\ ClaimReward(i))
  <2>1. result # None
    BY <1>4, ButtonsMean DEF CInv, PageOK
  <2> QED
    BY <1>4, <2>1, AskingSteps
<1>5. CASE ShowShop(i) \/ Back(i)
  BY <1>5, BrowsingSteps
<1> QED
  BY <1>1, <1>2, <1>3, <1>4, <1>5 DEF Tap

LEMMA SlotThere == 1 \in Slot
  BY ClientAssumption DEF Slot

LEMMA TapHereSteps ==
  ASSUME CInv, NEW button \in Buttons, TapHere(button)
  PROVE  CInv'
<1>1. CASE Toggle \/ OnDiscard \/ Abandon \/ Cancel \/ OnQuit
  BY <1>1, HomeSteps
<1>2. CASE button = "resume" /\ Resume
  BY <1>2, ButtonsMean, ResumeStep
<1>3. CASE GoDeeper
  BY <1>3, SlotThere, PlayingSteps
<1> QED
  BY <1>1, <1>2, <1>3 DEF TapHere

LEMMA StepCInv == CInv /\ [ClientNext]_clientVars => CInv'
<1> SUFFICES ASSUME CInv, [ClientNext]_clientVars PROVE CInv'
  OBVIOUS
<1>1. CASE \E i \in Slot : Continue(i) \/ Reload(i) \/ Leaderboard(i)
  BY <1>1, ContinueStep, ReloadStep, LeaderboardStep
<1>2. CASE \E button \in Buttons : TapHere(button) \/ \E i \in Slot : Tap(button, i)
  BY <1>2, TapHereSteps, TapSteps
<1>3. CASE (\E state \in {"PLAYING", "CRACKED", "BUSTED"} : OnMove(state)) \/ \E i \in Slot : OnSettled(i)
  BY <1>3, SlotThere, PlayingSteps
<1>4. CASE \E i \in Slot : Server(i)
  BY <1>4, ServeStartStep, ServeFinishStep, LostAtSeaStep DEF Server
<1>5. CASE \E id \in Expiring : Expire(id)
  BY <1>5, ExpireStep
<1>6. CASE UNCHANGED clientVars
  <2>1. UNCHANGED <<screen, board, active, result, saved, heists, calls>>
    BY <1>6 DEF clientVars, pageVars, stateVars
  <2> QED
    BY <2>1, Quiet, PageStays DEF CInv
<1> QED
  BY <1>1, <1>2, <1>3, <1>4, <1>5, <1>6 DEF ClientNext

(* The invariant holds in every state of the client. *)
THEOREM CInvAlways == ClientSpec => []CInv
  BY InitCInv, StepCInv, PTL DEF ClientSpec

(* While a heist is on the board, what is in localStorage is that heist, move *)
(* for move (main.ts persistRun): no answer that comes in on another screen  *)
(* or for another heist takes the record away from under it.               *)
THEOREM ClientPersists == ClientSpec => []PlayIsPersisted
<1>1. CInv => PlayIsPersisted
  BY DEF CInv, PageOK, PlayIsPersisted
<1> QED
  BY <1>1, CInvAlways, PTL

(* No submission of the client meets a heist that another of its submissions *)
(* has finished (main.ts idemKey): they all go out under the key of the run,*)
(* through retries, reloads and resumes.                                   *)
THEOREM ClientNeverRefusesItself == ClientSpec => []OwnFinishNeverRefused
<1>1. CInv => OwnFinishNeverRefused
  BY DEF CInv, CallsOK, CallOK, OwnFinishNeverRefused
<1> QED
  BY <1>1, CInvAlways, PTL

(* A heist whose score was shown is neither in the record, nor on the home    *)
(* screen, nor on the board (main.ts finishRun, onRetry).                   *)
THEOREM ClientHasNoGhosts == ClientSpec => []NoGhosts
<1>1. CInv => NoGhosts
  BY DEF CInv, PageOK, GhostOK, NoGhosts
<1> QED
  BY <1>1, CInvAlways, PTL
=============================================================================
