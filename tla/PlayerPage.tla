-------------------------------- MODULE PlayerPage -----------------------------
(***************************************************************************)
(* The players page of the admin console (pages/Players.tsx): a lookup by  *)
(* id, and a form that grants something to the player who is shown.  The   *)
(* page stays mounted from one lookup to the next.                         *)
(***************************************************************************)
EXTENDS AsyncHook

CONSTANTS
  Player,     \* the ids there are
  Typo,       \* an id that there is not
  MaxGrants   \* bound: how many grants a player gets, one in flight at a time

ASSUME TypoAssumption == Typo \notin Player /\ None \notin Player \cup {Typo}

VARIABLES
  purse,   \* the server's profiles: how many grants each player has got
  route,   \* the id in the URL
  form,    \* GrantForm: whether it is busy, and as history whose profile was
           \* shown when it was filled in
  post     \* the grant in flight

formVars == <<form, post>>
playerVars == <<purse, route, formVars>>

Look == TheHook("player")
EmptyForm == [filled |-> None, busy |-> FALSE]

(* What the page shows: a skeleton until the first answer for this id, a     *)
(* notice for an unknown one, else the player it has, if any, or the error.  *)
LookedUp(look) == look.key # None /\ ~(look.loading /\ ~look.loaded) /\ look.error # "missing"
ProfileShown(look) == LookedUp(look) /\ look.data # None
ErrorShown(look) == LookedUp(look) /\ look.data = None /\ look.error # "none"

PlayerInit ==
  /\ purse = [p \in Player |-> 0]
  /\ route = None
  /\ form = EmptyForm /\ post = None

(* A form that is not shown any more, or a page, leaves its grants alone.     *)
FormGone ==
  /\ form' = EmptyForm
  /\ post' = IF post = None THEN None ELSE [post EXCEPT !.mine = FALSE]
PlayersGone ==
  /\ form' = EmptyForm
  /\ post' = IF post = None THEN None ELSE [post EXCEPT !.mine = FALSE, !.here = FALSE]
  /\ route' = None

(* Searched for, or one of the recent ones: the search waits for the last    *)
(* answer, the recent ids, which the device keeps, do not.                  *)
Lookup(id) ==
  /\ Shows("player") /\ id # route /\ Quiet
  /\ route' = id
  /\ page' = Ask(page, "player", id)
  /\ FormGone
  /\ UNCHANGED purse

AllPlayers ==
  /\ Shows("player") /\ route # None
  /\ route' = None
  /\ page' = Disable(page, "player")
  /\ FormGone
  /\ UNCHANGED purse

(* The refresh button, and the retry button of the error state.  A skeleton   *)
(* takes the place of a profile that was not the one asked for.             *)
Reload == page' = Ask(page, "player", route)
Refresh ==
  /\ Shows("player") /\ Quiet
  /\ ProfileShown(Look) \/ ErrorShown(Look)
  /\ Reload
  /\ IF ProfileShown(page'.hooks["player"]) THEN UNCHANGED formVars ELSE FormGone
  /\ UNCHANGED <<purse, route>>

ServePlayer(f) ==
  /\ f.hook = "player"
  /\ IF f.key \in Player THEN Serve(f, [of |-> f.key, state |-> purse[f.key]]) ELSE Fail(f, "missing")
  /\ UNCHANGED playerVars
HearPlayer(f) ==
  /\ f.hook = "player" /\ Answered(f)
  /\ page' = Heard(f)
  /\ IF ProfileShown(page'.hooks["player"]) THEN UNCHANGED formVars ELSE FormGone
  /\ UNCHANGED <<purse, route>>

FormShown == Shows("player") /\ ProfileShown(Look)
Fill ==
  /\ FormShown /\ form.filled = None
  /\ form' = [form EXCEPT !.filled = Look.data.of]
  /\ UNCHANGED <<purse, route, post, page>>

(* The grant goes to the player shown, whoever the URL names.               *)
Grant(to) == [to |-> to, filled |-> form.filled, state |-> "sent", mine |-> TRUE, here |-> TRUE]
Submit_ByRoute ==
  /\ FormShown /\ form.filled # None /\ ~form.busy /\ post = None
  /\ form' = [form EXCEPT !.busy = TRUE]
  /\ post' = Grant(route)
  /\ UNCHANGED <<purse, route, page>>
Submit ==
  /\ FormShown /\ form.filled # None /\ ~form.busy /\ post = None
  /\ form' = [form EXCEPT !.busy = TRUE]
  /\ post' = Grant(Look.data.of)
  /\ UNCHANGED <<purse, route, page>>

ServeGrant ==
  /\ post # None /\ post.state = "sent" /\ purse[post.to] < MaxGrants
  /\ purse' = [purse EXCEPT ![post.to] = @ + 1]
  /\ post' = [post EXCEPT !.state = "ok"]
  /\ UNCHANGED <<route, form, page>>
GrantFails ==
  /\ post # None /\ post.state # "failed"
  /\ post' = [post EXCEPT !.state = "failed"]
  /\ UNCHANGED <<purse, route, form, page>>

(* A grant that was made empties the form and reloads whatever is looked up   *)
(* by now; the form is free again either way.                              *)
Granted ==
  /\ post # None /\ post.state = "ok"
  /\ post' = None
  /\ IF post.here /\ route # None THEN Reload ELSE UNCHANGED page
  /\ form' = IF post.mine \/ (post.here /\ route # None /\ ~ProfileShown(page'.hooks["player"])) THEN EmptyForm ELSE form
  /\ UNCHANGED <<purse, route>>
NotGranted ==
  /\ post # None /\ post.state = "failed"
  /\ post' = None
  /\ form' = IF post.mine THEN [form EXCEPT !.busy = FALSE] ELSE form
  /\ UNCHANGED <<purse, route, page>>

-----------------------------------------------------------------------------
PlayerTouch ==
  \/ \E id \in Player \cup {Typo} : Lookup(id)
  \/ AllPlayers \/ Refresh \/ Fill \/ Submit
PlayerServer == ServeGrant \/ GrantFails
PlayerHears == \E f \in page.flights : ServePlayer(f) \/ HearPlayer(f)
PlayerFails == \E f \in page.flights : f.hook = "player" /\ Fail(f, "failed") /\ UNCHANGED playerVars
GrantEnds == Granted \/ NotGranted
=============================================================================
