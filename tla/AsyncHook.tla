-------------------------------- MODULE AsyncHook ------------------------------
(***************************************************************************)
(* How a page of the admin console asks for data: useAsync                 *)
(* (admin/src/api/hooks.ts) asks again whenever the things it depends on   *)
(* change.  What was asked before is cancelled; what is shown stays until  *)
(* the next answer, which may be about something else.                     *)
(***************************************************************************)
EXTENDS Naturals, FiniteSets

CONSTANTS
  None,
  MaxFlights  \* bound: how many requests are out when the admin asks for more

VARIABLES
  page    \* the mounted page: its hooks, and the requests that are out

(* The last data and error of a hook; `key` is what it depends on, None while *)
(* it is not enabled, and `loaded` whether there was an answer for this key. *)
(* Data says what it is `of`, and how far the server was when it was read.   *)
Hook == [data |-> None, error |-> "none", loading |-> FALSE, key |-> None, loaded |-> FALSE]
Mounted(names) == [hooks |-> [h \in names |-> Hook], flights |-> {}]
Shows(h) == h \in DOMAIN page.hooks
TheHook(h) == page.hooks[h]

(* A request is live until the effect that sent it is undone: it is aborted    *)
(* then, unless its answer was there.                                      *)
Request(h, key) == [hook |-> h, key |-> key, answer |-> None, error |-> "none", live |-> TRUE]
Answered(f) == f.answer # None \/ f.error # "none"
Cancelled(p, h) ==
  {IF f.hook = h THEN [f EXCEPT !.live = FALSE] ELSE f : f \in {g \in p.flights : g.hook # h \/ Answered(g)}}

(* The effect runs again, because the key or the tick changed. *)
Loading(hook, key) == [hook EXCEPT !.loading = TRUE, !.key = key, !.loaded = @ /\ key = hook.key]
Ask(p, h, key) ==
  [hooks |-> [p.hooks EXCEPT ![h] = Loading(@, key)],
   flights |-> Cancelled(p, h) \cup {Request(h, key)}]
Disable(p, h) ==
  [hooks |-> [p.hooks EXCEPT ![h] = [@ EXCEPT !.loading = FALSE, !.key = None, !.loaded = FALSE]],
   flights |-> Cancelled(p, h)]

Quiet == Cardinality(page.flights) < MaxFlights

(* An answer comes; of the answer to a cancelled request nothing is made.     *)
Settled(hook, f) ==
  IF f.error # "none" THEN [hook EXCEPT !.error = f.error, !.loading = FALSE]
  ELSE [hook EXCEPT !.data = f.answer, !.error = "none", !.loading = FALSE, !.loaded = TRUE]
(* Mutant: the answer to a cancelled request is taken. *)
Heard_Cancelled(f) ==
  [hooks |-> [page.hooks EXCEPT ![f.hook] = Settled(@, f)],
   flights |-> page.flights \ {f}]
Heard(f) ==
  [hooks |-> [page.hooks EXCEPT ![f.hook] = IF f.live THEN Settled(@, f) ELSE @],
   flights |-> page.flights \ {f}]

(* The server reads what is asked for, or the request fails. *)
Serve(f, answer) ==
  /\ ~Answered(f)
  /\ page' = [page EXCEPT !.flights = (@ \ {f}) \cup {[f EXCEPT !.answer = answer]}]
Fail(f, error) ==
  /\ ~Answered(f)
  /\ page' = [page EXCEPT !.flights = (@ \ {f}) \cup {[f EXCEPT !.error = error]}]
=============================================================================
