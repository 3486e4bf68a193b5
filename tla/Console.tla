---------------------------------- MODULE Console --------------------------------
(***************************************************************************)
(* The admin console: the two pages that change something, and the session *)
(* (auth.tsx, api/client.ts).  A page that is left is unmounted: its       *)
(* requests are aborted, but what was sent to change something goes on.    *)
(***************************************************************************)
EXTENDS EventPage, PlayerPage

CONSTANTS
  First,   \* the versions that the event has to begin with
  Tour     \* bound: the pages an admin goes to, in one behaviour

ASSUME ConsoleAssumption ==
  /\ First \in Seq(Config) /\ Len(First) >= 1
  /\ MaxVersion \in Nat

VARIABLES
  token,  \* the admin token is stored, and shown to be good
  tour    \* bound: one of Tour

sessionVars == <<token, tour>>
consoleVars == <<page, eventVars, playerVars, sessionVars>>

ConsoleInit ==
  /\ page = Mounted({})
  /\ EventInit(First) /\ PlayerInit
  /\ token = FALSE /\ tour \in Tour

(* The publication of an editor that is gone goes on. *)
Unmount ==
  /\ EventGone /\ PlayersGone
  /\ put' = IF put = None THEN None ELSE [put EXCEPT !.mine = FALSE]
  /\ UNCHANGED <<versions, purse>>

(* connect: /admin/v1/system takes the token, or the form shows why not.     *)
Connect == ~token /\ token' = TRUE /\ UNCHANGED <<page, eventVars, playerVars, tour>>

SignedOut == token' = FALSE /\ page' = Mounted({}) /\ Unmount /\ UNCHANGED tour
Disconnect == token /\ SignedOut

(* A 401 or 403 forgets whatever token there is by then. *)
Posted == (put # None /\ put.state = "sent") \/ (post # None /\ post.state = "sent")
Asked == awaited # {} \/ \E f \in page.flights : f.live /\ ~Answered(f)
Rejected == token /\ (Posted \/ Asked) /\ SignedOut

OpenEvent ==
  /\ token /\ "event" \in tour /\ ~Shows("detail")
  /\ page' = Ask(Mounted({"detail", "viewed"}), "detail", TheEvent)
  /\ Unmount /\ UNCHANGED sessionVars
OpenPlayers ==
  /\ token /\ "players" \in tour /\ ~Shows("player")
  /\ page' = Mounted({"player"})
  /\ Unmount /\ UNCHANGED sessionVars

-----------------------------------------------------------------------------
InEvent(A) == "event" \in tour /\ A /\ UNCHANGED <<playerVars, sessionVars>>
InPlayers(A) == A /\ UNCHANGED <<eventVars, sessionVars>>

ConsoleNext ==
  \/ Connect \/ Disconnect \/ Rejected \/ OpenEvent \/ OpenPlayers
  \/ InEvent(EventTouch \/ EventServer \/ EventFails \/ PutEnds \/ RestoreEnds)
  \/ InEvent(\E h \in {"detail", "viewed"} : EventHears(h))
  \/ InPlayers(PlayerTouch \/ PlayerServer \/ PlayerHears \/ PlayerFails \/ GrantEnds)

(* Requests are answered or fail. *)
ConsoleSpec ==
  /\ ConsoleInit /\ [][ConsoleNext]_consoleVars
  /\ WF_consoleVars(InEvent(EventHears("detail")))
  /\ WF_consoleVars(InEvent(ServePut \/ PutFails \/ PutEnds))
  /\ WF_consoleVars(InPlayers(PlayerServer \/ GrantEnds))
=============================================================================
