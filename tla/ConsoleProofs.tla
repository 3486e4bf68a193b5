----------------------------- MODULE ConsoleProofs -----------------------------
(***************************************************************************)
(* Safety of the admin console, for any number of fields, values, versions *)
(* and players, any number of requests in flight and any order of answers. *)
(***************************************************************************)
EXTENDS ConsolePromises, TLAPS

USE ConsoleAssumption, TypoAssumption

-----------------------------------------------------------------------------
(* What the hooks of a page know, while the server has n versions and the     *)
(* purses u.                                                                *)

Names == {"detail", "viewed", "player"}
Error == {"none", "failed", "missing"}
AnyKey == Nat \cup Player \cup {Typo, None}
Datum == {None} \cup [of : AnyKey, state : Nat]
HookState == [data : Datum, error : Error, loading : BOOLEAN, key : AnyKey, loaded : BOOLEAN]
FlightState == [hook : Names, key : AnyKey, answer : Datum, error : Error, live : BOOLEAN]

IsKey(h, key, n) ==
  \/ h = "detail" /\ key = TheEvent
  \/ h = "viewed" /\ key \in 1..n
  \/ h = "player" /\ key \in Player \cup {Typo}
IsData(h, d, n, u) ==
  \/ h = "detail" /\ d.of = TheEvent /\ d.state \in 1..n
  \/ h = "viewed" /\ d.of \in 1..n /\ d.state = d.of
  \/ h = "player" /\ d.of \in Player /\ d.state <= u[d.of]

HookOK(h, k, n, u) ==
  /\ k.data # None => IsData(h, k.data, n, u)
  /\ k.loaded => k.data # None /\ k.data.of = k.key

(* A live request is what its hook is loading, and its answer is not older   *)
(* than what the hook shows.                                               *)
FlightOK(p, f, n, u) ==
  /\ f.hook \in DOMAIN p.hooks
  /\ IsKey(f.hook, f.key, n)
  /\ f.answer # None => IsData(f.hook, f.answer, n, u) /\ f.answer.of = f.key
  /\ f.live => /\ p.hooks[f.hook].loading /\ p.hooks[f.hook].key = f.key
               /\ f.answer # None /\ p.hooks[f.hook].data # None /\ p.hooks[f.hook].data.of = f.key =>
                    f.answer.state >= p.hooks[f.hook].data.state

PageType(p) ==
  /\ p = [hooks |-> p.hooks, flights |-> p.flights]
  /\ p.hooks \in [DOMAIN p.hooks -> HookState] /\ DOMAIN p.hooks \subseteq Names
  /\ p.flights \subseteq FlightState

PageOK(p, n, u) ==
  /\ PageType(p)
  /\ \A h \in DOMAIN p.hooks : HookOK(h, p.hooks[h], n, u)
  /\ \A f \in p.flights : FlightOK(p, f, n, u)
  /\ \A f, g \in p.flights : f.live /\ g.live /\ f.hook = g.hook => f = g

(* Nothing happens to the other hooks, and to h nothing that one can see. *)
Keeps(p, q, h) ==
  /\ DOMAIN q.hooks = DOMAIN p.hooks
  /\ \A g \in DOMAIN p.hooks : g # h => q.hooks[g] = p.hooks[g]
DependsOn(q, h, key) == q.hooks[h].key = key
SameData(p, q) ==
  /\ DOMAIN q.hooks = DOMAIN p.hooks
  /\ \A g \in DOMAIN p.hooks : q.hooks[g].data = p.hooks[g].data

-----------------------------------------------------------------------------
(* The server only grows. *)
LEMMA PageGrows ==
  ASSUME NEW p, NEW n \in Nat, NEW m \in Nat, NEW u \in [Player -> Nat], NEW w \in [Player -> Nat],
         n <= m, \A a \in Player : u[a] <= w[a], PageOK(p, n, u)
  PROVE  PageOK(p, m, w)
<1>1. ASSUME NEW h, NEW d \in Datum, d # None, IsData(h, d, n, u) PROVE IsData(h, d, m, w)
  <2>1. d.state \in Nat
    BY <1>1 DEF Datum
  <2> QED
    BY <1>1, <2>1 DEF IsData
<1>2. \A h, key : IsKey(h, key, n) => IsKey(h, key, m)
  BY DEF IsKey
<1>3. \A h \in DOMAIN p.hooks : HookOK(h, p.hooks[h], m, w)
  <2> SUFFICES ASSUME NEW h \in DOMAIN p.hooks PROVE HookOK(h, p.hooks[h], m, w)
    OBVIOUS
  <2>1. HookOK(h, p.hooks[h], n, u) /\ p.hooks[h].data \in Datum
    BY DEF PageOK, PageType, HookState
  <2> QED
    BY <1>1, <2>1 DEF HookOK
<1>4. \A f \in p.flights : FlightOK(p, f, m, w)
  <2> SUFFICES ASSUME NEW f \in p.flights PROVE FlightOK(p, f, m, w)
    OBVIOUS
  <2>1. FlightOK(p, f, n, u) /\ f.answer \in Datum
    BY DEF PageOK, PageType, FlightState
  <2> QED
    BY <1>1, <1>2, <2>1 DEF FlightOK
<1> QED
  BY <1>3, <1>4 DEF PageOK

(* After the requests of a hook are cancelled none of it is live. *)
LEMMA CancelledAre ==
  ASSUME NEW p, PageType(p), NEW h
  PROVE  /\ Cancelled(p, h) \subseteq FlightState
         /\ \A f \in Cancelled(p, h) :
              \/ f \in p.flights /\ f.hook # h
              \/ /\ ~f.live /\ f.hook = h
                 /\ \E g \in p.flights : f = [g EXCEPT !.live = FALSE]
<1> SUFFICES ASSUME NEW f \in Cancelled(p, h)
             PROVE  /\ f \in FlightState
                    /\ \/ f \in p.flights /\ f.hook # h
                       \/ ~f.live /\ f.hook = h /\ \E g \in p.flights : f = [g EXCEPT !.live = FALSE]
  OBVIOUS
<1>1. PICK g \in p.flights : f = IF g.hook = h THEN [g EXCEPT !.live = FALSE] ELSE g
  BY DEF Cancelled
<1>2. g \in FlightState
  BY DEF PageType
<1>3. CASE g.hook # h
  BY <1>1, <1>2, <1>3
<1>4. CASE g.hook = h
  BY <1>1, <1>2, <1>4 DEF FlightState
<1> QED
  BY <1>3, <1>4

(* Requests that were cancelled are harmless whatever becomes of the hook.   *)
LEMMA CancelledOK ==
  ASSUME NEW p, NEW n, NEW u, PageOK(p, n, u), NEW h, NEW q, DOMAIN q.hooks = DOMAIN p.hooks,
         \A g \in DOMAIN p.hooks : g # h => q.hooks[g] = p.hooks[g]
  PROVE  /\ \A f \in Cancelled(p, h) : FlightOK(q, f, n, u)
         /\ \A f, g \in Cancelled(p, h) : f.live /\ g.live /\ f.hook = g.hook => f = g
         /\ \A f \in Cancelled(p, h) : f.live => f.hook # h
<1>1. ASSUME NEW f \in Cancelled(p, h) PROVE FlightOK(q, f, n, u)
  <2>1. CASE f \in p.flights /\ f.hook # h
    BY <2>1 DEF PageOK, FlightOK
  <2>2. CASE ~f.live /\ \E g \in p.flights : f = [g EXCEPT !.live = FALSE]
    <3>1. PICK g \in p.flights : f = [g EXCEPT !.live = FALSE]
      BY <2>2
    <3>2. FlightOK(p, g, n, u) /\ g \in FlightState
      BY DEF PageOK, PageType
    <3>3. f.hook = g.hook /\ f.key = g.key /\ f.answer = g.answer
      BY <3>1, <3>2 DEF FlightState
    <3> QED
      BY <2>2, <3>2, <3>3 DEF FlightOK
  <2> QED
    BY <2>1, <2>2, CancelledAre DEF PageOK
<1>2. \A f \in Cancelled(p, h) : f.live => f.hook # h /\ f \in p.flights
  BY CancelledAre DEF PageOK
<1> QED
  BY <1>1, <1>2 DEF PageOK

LEMMA AskOK ==
  ASSUME NEW p, NEW n \in Nat, NEW u, PageOK(p, n, u), NEW h \in DOMAIN p.hooks, NEW key, IsKey(h, key, n)
  PROVE  LET q == Ask(p, h, key)
         IN  PageOK(q, n, u) /\ Keeps(p, q, h) /\ SameData(p, q) /\ DependsOn(q, h, key)
<1> DEFINE k == p.hooks[h]
           l == Loading(k, key)
           q == [hooks |-> [p.hooks EXCEPT ![h] = l], flights |-> Cancelled(p, h) \cup {Request(h, key)}]
<1>1. Ask(p, h, key) = q
  BY DEF Ask
<1>2. k \in HookState /\ HookOK(h, k, n, u) /\ h \in Names /\ PageType(p)
  BY DEF PageOK, PageType
<1>3. key \in AnyKey
  BY DEF IsKey, AnyKey, TheEvent
<1>4. l \in HookState /\ l.data = k.data /\ l.loading = TRUE /\ l.key = key /\ (l.loaded => k.loaded /\ key = k.key)
  BY <1>2, <1>3 DEF HookState, Loading
<1> HIDE DEF l
<1>5. q.hooks = [p.hooks EXCEPT ![h] = l] /\ q.flights = Cancelled(p, h) \cup {Request(h, key)}
      /\ q = [hooks |-> q.hooks, flights |-> q.flights]
  OBVIOUS
<1> HIDE DEF q
<1>6. Keeps(p, q, h) /\ q.hooks[h] = l /\ q.hooks \in [DOMAIN q.hooks -> HookState]
  BY <1>2, <1>4, <1>5 DEF Keeps, PageType
<1>7. SameData(p, q)
  BY <1>4, <1>6 DEF SameData, Keeps
<1>8. /\ Request(h, key) \in FlightState
      /\ Request(h, key).hook = h /\ Request(h, key).key = key /\ Request(h, key).answer = None
  BY <1>2, <1>3 DEF Request, FlightState, Error, Datum
<1>9. PageType(q)
  BY <1>2, <1>5, <1>6, <1>8, CancelledAre DEF PageType, Keeps
<1>10. HookOK(h, l, n, u)
  BY <1>2, <1>4 DEF HookOK
<1>11. FlightOK(q, Request(h, key), n, u)
  BY <1>4, <1>6, <1>8 DEF FlightOK, Keeps
<1>12. /\ \A f \in Cancelled(p, h) : FlightOK(q, f, n, u)
       /\ \A f, g \in Cancelled(p, h) : f.live /\ g.live /\ f.hook = g.hook => f = g
       /\ \A f \in Cancelled(p, h) : f.live => f.hook # h
  BY <1>6, CancelledOK DEF Keeps
<1>13. \A g \in DOMAIN q.hooks : HookOK(g, q.hooks[g], n, u)
  BY <1>6, <1>10 DEF Keeps, PageOK
<1>14. \A f, g \in q.flights : f.live /\ g.live /\ f.hook = g.hook => f = g
  BY <1>5, <1>8, <1>12
<1>15. \A f \in q.flights : FlightOK(q, f, n, u)
  BY <1>5, <1>11, <1>12
<1> QED
  BY <1>1, <1>4, <1>6, <1>7, <1>9, <1>13, <1>14, <1>15 DEF PageOK, DependsOn

LEMMA DisableOK ==
  ASSUME NEW p, NEW n, NEW u, PageOK(p, n, u), NEW h \in DOMAIN p.hooks
  PROVE  LET q == Disable(p, h)
         IN  PageOK(q, n, u) /\ Keeps(p, q, h) /\ SameData(p, q) /\ DependsOn(q, h, None)
<1> DEFINE k == p.hooks[h]
           l == [k EXCEPT !.loading = FALSE, !.key = None, !.loaded = FALSE]
           q == [hooks |-> [p.hooks EXCEPT ![h] = l], flights |-> Cancelled(p, h)]
<1>1. Disable(p, h) = q
  BY DEF Disable
<1>2. k \in HookState /\ HookOK(h, k, n, u) /\ PageType(p)
  BY DEF PageOK, PageType
<1>3. l \in HookState /\ l.data = k.data /\ ~l.loaded /\ l.key = None
  BY <1>2 DEF HookState, AnyKey
<1> HIDE DEF l
<1>4. q.hooks = [p.hooks EXCEPT ![h] = l] /\ q.flights = Cancelled(p, h)
      /\ q = [hooks |-> q.hooks, flights |-> q.flights]
  OBVIOUS
<1> HIDE DEF q
<1>5. Keeps(p, q, h) /\ q.hooks[h] = l /\ q.hooks \in [DOMAIN q.hooks -> HookState]
  BY <1>2, <1>3, <1>4 DEF Keeps, PageType
<1>6. SameData(p, q)
  BY <1>3, <1>5 DEF SameData, Keeps
<1>7. PageType(q)
  BY <1>2, <1>4, <1>5, CancelledAre DEF PageType, Keeps
<1>8. /\ \A f \in q.flights : FlightOK(q, f, n, u)
      /\ \A f, g \in q.flights : f.live /\ g.live /\ f.hook = g.hook => f = g
  BY <1>4, <1>5, CancelledOK DEF Keeps
<1>9. \A g \in DOMAIN q.hooks : HookOK(g, q.hooks[g], n, u)
  BY <1>2, <1>3, <1>5 DEF Keeps, PageOK, HookOK
<1> QED
  BY <1>1, <1>3, <1>5, <1>6, <1>7, <1>8, <1>9 DEF PageOK, DependsOn

(* A request is answered, with what is not older than anything shown, or fails. *)
LEMMA RepliedOK ==
  ASSUME NEW n, NEW u, PageOK(page, n, u), NEW f \in page.flights, NEW answer, NEW error \in Error,
         \/ Fail(f, error)
         \/ /\ Serve(f, answer)
            /\ answer \in Datum /\ IsData(f.hook, answer, n, u) /\ answer.of = f.key
            /\ page.hooks[f.hook].data # None /\ page.hooks[f.hook].data.of = f.key
                 => answer.state >= page.hooks[f.hook].data.state
  PROVE  PageOK(page', n, u) /\ page'.hooks = page.hooks
<1>1. f \in FlightState /\ FlightOK(page, f, n, u) /\ PageType(page)
  BY DEF PageOK, PageType
<1>2. PICK e : /\ page' = [page EXCEPT !.flights = (@ \ {f}) \cup {e}]
               /\ e \in FlightState /\ e.hook = f.hook /\ e.key = f.key /\ e.live = f.live
               /\ e.answer = f.answer \/ (/\ e.answer = answer /\ IsData(f.hook, answer, n, u) /\ answer.of = f.key
                                          /\ page.hooks[f.hook].data # None /\ page.hooks[f.hook].data.of = f.key
                                               => answer.state >= page.hooks[f.hook].data.state)
  <2>1. CASE Fail(f, error)
    <3>1. page' = [page EXCEPT !.flights = (@ \ {f}) \cup {[f EXCEPT !.error = error]}]
      BY <2>1 DEF Fail
    <3>2. LET e == [f EXCEPT !.error = error]
          IN  e \in FlightState /\ e.hook = f.hook /\ e.key = f.key /\ e.live = f.live /\ e.answer = f.answer
      BY <1>1 DEF FlightState
    <3> QED
      BY <3>1, <3>2
  <2>2. CASE Serve(f, answer) /\ answer \in Datum /\ IsData(f.hook, answer, n, u) /\ answer.of = f.key
    <3>1. page' = [page EXCEPT !.flights = (@ \ {f}) \cup {[f EXCEPT !.answer = answer]}]
      BY <2>2 DEF Serve
    <3>2. LET e == [f EXCEPT !.answer = answer]
          IN  e \in FlightState /\ e.hook = f.hook /\ e.key = f.key /\ e.live = f.live /\ e.answer = answer
      BY <1>1, <2>2 DEF FlightState
    <3>3. CASE Fail(f, error)
      BY <2>1, <3>3
    <3>4. CASE ~Fail(f, error)
      BY <2>2, <3>1, <3>2, <3>4
    <3> QED
      BY <3>3, <3>4
  <2> QED
    BY <2>1, <2>2
<1>3. page'.hooks = page.hooks /\ page'.flights = (page.flights \ {f}) \cup {e}
      /\ page' = [hooks |-> page'.hooks, flights |-> page'.flights]
  BY <1>1, <1>2 DEF PageType
<1>4. FlightOK(page', e, n, u)
  BY <1>1, <1>2, <1>3 DEF FlightOK
<1>5. PageType(page')
  BY <1>1, <1>2, <1>3 DEF PageType
<1>6. \A g \in page'.flights : FlightOK(page', g, n, u)
  BY <1>3, <1>4 DEF PageOK, FlightOK
<1>7. \A g, h \in page'.flights : g.live /\ h.live /\ g.hook = h.hook => g = h
  BY <1>2, <1>3 DEF PageOK
<1> QED
  BY <1>3, <1>5, <1>6, <1>7 DEF PageOK

(* An answer is taken when it is live: it is about what the hook depends on, and *)
(* not older than what it shows.                                            *)
LEMMA HeardOK ==
  ASSUME NEW n, NEW u, PageOK(page, n, u), NEW f \in page.flights, Answered(f), page' = Heard(f)
  PROVE  /\ PageOK(page', n, u) /\ Keeps(page, page', f.hook)
         /\ LET old == page.hooks[f.hook]
                new == page'.hooks[f.hook]
            IN  /\ new.key = old.key
                /\ \/ new.data = old.data
                   \/ /\ old.loading /\ old.key = f.key
                      /\ new.data # None /\ new.data.of = f.key
                      /\ old.data # None /\ old.data.of = f.key => new.data.state >= old.data.state
<1> DEFINE k == page.hooks[f.hook]
<1>1. f \in FlightState /\ FlightOK(page, f, n, u) /\ PageType(page) /\ f.hook \in DOMAIN page.hooks
  BY DEF PageOK, PageType, FlightOK
<1>2. k \in HookState /\ HookOK(f.hook, k, n, u)
  BY <1>1 DEF PageOK, PageType
<1> DEFINE l == IF f.live THEN Settled(k, f) ELSE k
<1>3. /\ page'.hooks = [page.hooks EXCEPT ![f.hook] = l] /\ page'.flights = page.flights \ {f}
      /\ page' = [hooks |-> page'.hooks, flights |-> page'.flights]
  BY DEF Heard
<1>4. /\ l \in HookState /\ HookOK(f.hook, l, n, u) /\ l.key = k.key
      /\ l = k \/ l.data = k.data \/ (f.live /\ l.data = f.answer /\ f.answer # None)
  <2>1. CASE ~f.live
    BY <1>2, <2>1
  <2>2. CASE f.live /\ f.error # "none"
    <3>1. l = [k EXCEPT !.error = f.error, !.loading = FALSE]
      BY <2>2 DEF Settled
    <3>2. l \in HookState /\ l.data = k.data /\ l.key = k.key /\ l.loaded = k.loaded
      BY <1>1, <1>2, <3>1 DEF HookState, FlightState
    <3> HIDE DEF l
    <3> QED
      BY <1>2, <3>2 DEF HookOK
  <2>3. CASE f.live /\ f.error = "none"
    <3>1. l = [k EXCEPT !.data = f.answer, !.error = "none", !.loading = FALSE, !.loaded = TRUE]
      BY <2>3 DEF Settled
    <3>2. l \in HookState /\ l.data = f.answer /\ l.key = k.key
      BY <1>1, <1>2, <3>1 DEF HookState, FlightState, Error
    <3>3. f.answer # None /\ IsData(f.hook, f.answer, n, u) /\ f.answer.of = k.key
      BY <1>1, <2>3 DEF Answered, FlightOK
    <3> HIDE DEF l
    <3> QED
      BY <2>3, <3>2, <3>3 DEF HookOK
  <2> QED
    BY <1>1, <2>1, <2>2, <2>3 DEF FlightState
<1> HIDE DEF l
<1>5. Keeps(page, page', f.hook) /\ page'.hooks[f.hook] = l /\ page'.hooks \in [DOMAIN page'.hooks -> HookState]
  BY <1>1, <1>3, <1>4 DEF Keeps, PageType
<1>6. PageType(page')
  BY <1>1, <1>3, <1>5 DEF PageType, Keeps
<1>7. \A g \in page'.flights : FlightOK(page', g, n, u)
  <2> SUFFICES ASSUME NEW g \in page'.flights PROVE FlightOK(page', g, n, u)
    OBVIOUS
  <2>1. FlightOK(page, g, n, u) /\ g \in page.flights /\ g # f
    BY <1>3 DEF PageOK
  <2>2. CASE g.hook # f.hook
    BY <1>5, <2>1, <2>2 DEF FlightOK, Keeps
  <2>3. CASE g.hook = f.hook /\ ~g.live
    BY <1>5, <2>1, <2>3 DEF FlightOK, Keeps
  <2>4. CASE g.hook = f.hook /\ g.live
    <3>1. ~f.live
      BY <2>1, <2>4 DEF PageOK
    <3>2. l = k
      BY <3>1 DEF l
    <3> QED
      BY <1>5, <2>1, <2>4, <3>2 DEF FlightOK, Keeps
  <2> QED
    BY <2>2, <2>3, <2>4
<1>8. \A g \in DOMAIN page'.hooks : HookOK(g, page'.hooks[g], n, u)
  BY <1>4, <1>5 DEF Keeps, PageOK
<1>9. PageOK(page', n, u)
  BY <1>3, <1>6, <1>7, <1>8 DEF PageOK
<1>10. f.live /\ f.answer # None => /\ k.loading /\ k.key = f.key /\ f.answer.of = f.key
                                    /\ k.data # None /\ k.data.of = f.key => f.answer.state >= k.data.state
  BY <1>1 DEF FlightOK
<1> QED
  BY <1>4, <1>5, <1>9, <1>10

-----------------------------------------------------------------------------
(* The invariant: the hooks of the page, the event page, the players page.   *)

EditorState ==
  [draft : Config \cup {None}, note : BOOLEAN, confirm : BOOLEAN, publishing : BOOLEAN,
   own : SUBSET Field, published : Nat]
PutState == [config : Config, state : {"sent", "ok", "failed"}, mine : BOOLEAN, version : Nat]
PostState ==
  [to : Player, filled : Player \cup {None}, state : {"sent", "ok", "failed"}, mine : BOOLEAN, here : BOOLEAN]

Mounting == DOMAIN page.hooks \in {{}, {"detail", "viewed"}, {"player"}}

EventType ==
  /\ versions \in Seq(Config) /\ Len(versions) >= 1
  /\ awaited \subseteq 1..Len(versions)
  /\ editor \in EditorState
  /\ put \in {None} \cup PutState
(* A view, a restore, the modal and the editor's publication need the editor. *)
EventBusy == awaited # {} \/ viewing # None \/ editor.confirm \/ (put # None /\ put.mine)
EventInv ==
  /\ EventType
  /\ EventBusy => EditorShown
  /\ EditorShown => editor.draft \in Config
  /\ DiffIsOwn

(* A form that is filled in is shown, beside the profile it was filled in for. *)
PlayerInv ==
  /\ purse \in [Player -> Nat]
  /\ route \in Player \cup {Typo, None}
  /\ form \in [filled : Player \cup {None}, busy : BOOLEAN]
  /\ post \in {None} \cup PostState
  /\ Shows("player") => Look.key = route
  /\ form.filled # None => FormShown /\ Look.data.of = form.filled
  /\ post # None /\ post.here => Shows("player")
  /\ GrantsAsFilledIn

ConsoleInv ==
  /\ Mounting
  /\ PageOK(page, Len(versions), purse)
  /\ EventInv
  /\ PlayerInv

(* What NeverGoesBack says of a step. *)
Forward ==
  \A h \in DOMAIN page.hooks \cap DOMAIN page'.hooks :
    LET old == TheHook(h).data
        new == page'.hooks[h].data
    IN  old # None /\ new # None /\ old.of = new.of => new.state >= old.state

LEMMA StatesAreNumbers ==
  ASSUME PageType(page), NEW h \in DOMAIN page.hooks, page.hooks[h].data # None
  PROVE  page.hooks[h].data.state \in Nat /\ page.hooks[h].data.of \in AnyKey
BY DEF PageType, HookState, Datum

LEMMA SameForward ==
  ASSUME PageType(page), SameData(page, page')
  PROVE  Forward /\ (Mounting => Mounting')
<1>1. Forward
  BY StatesAreNumbers DEF SameData, Forward, TheHook
<1> QED
  BY <1>1 DEF SameData, Mounting

(* The base of the editor, and what depends on it. *)
SameBase == EditorShown' = EditorShown /\ (EditorShown => Base' = Base)

LEMMA SameDataSameBase ==
  ASSUME SameData(page, page')
  PROVE  SameBase
BY DEF SameData, SameBase, EditorShown, Base, Shows, TheHook

LEMMA KeepsBase ==
  ASSUME NEW h, h # "detail", Keeps(page, page', h)
  PROVE  SameBase
BY DEF Keeps, SameBase, EditorShown, Base, Shows, TheHook

LEMMA BaseThere ==
  ASSUME ConsoleInv, EditorShown
  PROVE  /\ Base \in 1..Len(versions) /\ Len(versions) \in Nat /\ versions[Base] \in Config
         /\ DOMAIN page.hooks = {"detail", "viewed"}
<1>1. "detail" \in DOMAIN page.hooks /\ page.hooks["detail"].data # None
  BY DEF EditorShown, Shows, TheHook
<1>2. IsData("detail", page.hooks["detail"].data, Len(versions), purse)
  BY <1>1 DEF ConsoleInv, PageOK, HookOK
<1>3. Base \in 1..Len(versions)
  BY <1>2 DEF IsData, Base, TheHook
<1>4. versions \in Seq(Config)
  BY DEF ConsoleInv, EventInv, EventType
<1> QED
  BY <1>1, <1>3, <1>4 DEF ConsoleInv, Mounting

(* The server's versions are only added to. *)
Extended ==
  /\ versions' \in Seq(Config) /\ Len(versions') >= Len(versions)
  /\ \A v \in 1..Len(versions) : versions'[v] = versions[v]

LEMMA EventStays ==
  ASSUME ConsoleInv, SameBase, Extended, EventType', EventBusy' => EditorShown,
         EditorShown => /\ editor'.draft \in Config
                        /\ \A k \in Field : editor'.draft[k] # versions[Base][k] => k \in editor'.own
  PROVE  EventInv'
<1>1. EditorShown => versions'[Base'] = versions[Base]
  BY BaseThere DEF SameBase, Extended
<1>2. DiffIsOwn'
  BY <1>1 DEF DiffIsOwn, SameBase
<1> QED
  BY <1>2 DEF EventInv, SameBase

LEMMA EventUntouched ==
  ASSUME ConsoleInv, SameBase, UNCHANGED eventVars
  PROVE  EventInv'
<1>1. UNCHANGED <<versions, viewing, awaited, editor, put>>
  BY DEF eventVars, viewVars
<1>2. Extended
  BY <1>1 DEF Extended, ConsoleInv, EventInv, EventType
<1>3. EventType' /\ (EventBusy' => EditorShown)
  BY <1>1 DEF ConsoleInv, EventInv, EventType, EventBusy
<1> QED
  BY <1>1, <1>2, <1>3, EventStays DEF ConsoleInv, EventInv, DiffIsOwn

LEMMA PlayerUntouched ==
  ASSUME PlayerInv, UNCHANGED playerVars, DOMAIN page'.hooks = DOMAIN page.hooks,
         "player" \in DOMAIN page.hooks => page'.hooks["player"] = page.hooks["player"]
  PROVE  PlayerInv'
<1>1. UNCHANGED <<purse, route, form, post>>
  BY DEF playerVars, formVars
<1>2. (FormShown => FormShown' /\ Look' = Look) /\ (Shows("player")' => Shows("player") /\ Look' = Look)
  BY DEF FormShown, Shows, Look, TheHook, ProfileShown, LookedUp
<1> QED
  BY <1>1, <1>2 DEF PlayerInv, GrantsAsFilledIn, Shows

(* A step of the event page's hooks. *)
LEMMA EventHookSteps ==
  ASSUME ConsoleInv, NEW h \in {"detail", "viewed"}, Keeps(page, page', h), UNCHANGED playerVars
  PROVE  PlayerInv'
BY PlayerUntouched DEF ConsoleInv, Keeps

(* A step that leaves the page alone, and the server not behind. *)
LEMMA PageUntouched ==
  ASSUME ConsoleInv, page' = page, Len(versions') \in Nat, Len(versions') >= Len(versions),
         purse' \in [Player -> Nat], \A a \in Player : purse'[a] >= purse[a]
  PROVE  PageOK(page, Len(versions), purse)' /\ Mounting' /\ Forward /\ SameBase
<1>1. PageType(page) /\ SameData(page, page')
  BY DEF ConsoleInv, PageOK, SameData
<1>2. Len(versions) \in Nat /\ purse \in [Player -> Nat]
  BY DEF ConsoleInv, EventInv, EventType, PlayerInv
<1>3. \A a \in Player : purse[a] <= purse'[a]
  BY <1>2
<1>4. PageOK(page, Len(versions'), purse')
  BY <1>2, <1>3, PageGrows DEF ConsoleInv
<1> QED
  BY <1>1, <1>4, SameForward, SameDataSameBase DEF ConsoleInv
-----------------------------------------------------------------------------
(* The steps of the event page. *)

(* The hooks of the event page ask or stop asking, or nothing happens to the page. *)
HookStep ==
  \/ page' = page
  \/ \E h \in {"detail", "viewed"} :
       PageOK(page', Len(versions), purse) /\ Keeps(page, page', h) /\ SameData(page, page')

LEMMA EventStep ==
  ASSUME ConsoleInv, HookStep, UNCHANGED <<versions, playerVars>>, EventType', EventBusy' => EditorShown,
         EditorShown => /\ editor'.draft \in Config
                        /\ \A k \in Field : editor'.draft[k] # versions[Base][k] => k \in editor'.own
  PROVE  ConsoleInv' /\ Forward
<1>1. versions' = versions /\ purse' = purse
  BY DEF playerVars
<1>2. versions \in Seq(Config) /\ Len(versions) \in Nat /\ purse \in [Player -> Nat] /\ PageType(page)
  BY DEF ConsoleInv, EventInv, EventType, PlayerInv, PageOK
<1>3. Extended
  BY <1>1, <1>2 DEF Extended
<1>4. PageOK(page, Len(versions), purse)' /\ Mounting' /\ Forward /\ SameBase /\ PlayerInv'
  <2>1. CASE page' = page
    <3>1. PlayerInv'
      BY <2>1, PlayerUntouched DEF ConsoleInv
    <3> QED
      BY <1>1, <1>2, <2>1, <3>1, PageUntouched
  <2>2. ASSUME NEW h \in {"detail", "viewed"}, PageOK(page', Len(versions), purse),
               Keeps(page, page', h), SameData(page, page')
        PROVE  PageOK(page, Len(versions), purse)' /\ Mounting' /\ Forward /\ SameBase /\ PlayerInv'
    <3>1. PlayerInv'
      BY <2>2, EventHookSteps
    <3> QED
      BY <1>1, <1>2, <2>2, <3>1, SameForward, SameDataSameBase DEF ConsoleInv
  <2> QED
    BY <2>1, <2>2 DEF HookStep
<1>5. EventInv'
  BY <1>3, <1>4, EventStays
<1> QED
  BY <1>4, <1>5 DEF ConsoleInv

(* What the steps of the event page start from. *)
LEMMA EventFacts ==
  ASSUME ConsoleInv
  PROVE  /\ EventType /\ Len(versions) \in Nat /\ PageOK(page, Len(versions), purse)
         /\ EditorShown => /\ editor.draft \in Config
                           /\ \A k \in Field : editor.draft[k] # versions[Base][k] => k \in editor.own
         /\ EventBusy => EditorShown
         /\ EditorShown => {"detail", "viewed"} = DOMAIN page.hooks /\ Base \in 1..Len(versions)
BY BaseThere DEF ConsoleInv, EventInv, EventType, DiffIsOwn

LEMMA ViewStep ==
  ASSUME ConsoleInv, NEW v, View(v), UNCHANGED playerVars
  PROVE  ConsoleInv' /\ Forward
<1>1. EditorShown /\ v \in 1..Len(versions)
  BY EventFacts DEF View, Older
<1>2. UNCHANGED <<versions, awaited, editor, put>> /\ page' = Ask(page, "viewed", v)
  BY DEF View
<1>3. IsKey("viewed", v, Len(versions))
  BY <1>1 DEF IsKey
<1>4. HookStep
  BY <1>1, <1>2, <1>3, EventFacts, AskOK DEF HookStep
<1> QED
  BY <1>1, <1>2, <1>4, EventFacts, EventStep DEF EventType

LEMMA UnviewOK ==
  ASSUME ConsoleInv, page' = Unview(page)
  PROVE  HookStep
<1>1. CASE viewing = None
  BY <1>1 DEF Unview, HookStep
<1>2. CASE viewing # None
  <2>1. "viewed" \in DOMAIN page.hooks
    BY <1>2, EventFacts DEF EventBusy
  <2> QED
    BY <1>2, <2>1, EventFacts, DisableOK DEF Unview, HookStep
<1> QED
  BY <1>1, <1>2

LEMMA ExitStep ==
  ASSUME ConsoleInv, ExitReadOnly, UNCHANGED playerVars
  PROVE  ConsoleInv' /\ Forward
<1>1. EditorShown
  BY EventFacts DEF ExitReadOnly, EventBusy
<1>2. UNCHANGED <<versions, awaited, editor, put>> /\ HookStep
  BY UnviewOK DEF ExitReadOnly
<1> QED
  BY <1>1, <1>2, EventFacts, EventStep DEF EventType

LEMMA HandOffStep ==
  ASSUME ConsoleInv, EditorShown, NEW v \in 1..Len(versions), HandOff(v), awaited' \subseteq awaited,
         UNCHANGED <<versions, put, playerVars>>
  PROVE  ConsoleInv' /\ Forward
<1>1. HookStep
  BY UnviewOK DEF HandOff
<1>2. versions[v] \in Config
  BY EventFacts DEF EventType
<1>3. editor' = [editor EXCEPT !.draft = versions[v], !.own = Field, !.note = TRUE]
  BY DEF HandOff
<1>4. editor' \in EditorState /\ editor'.draft = versions[v] /\ editor'.own = Field
  BY <1>2, <1>3, EventFacts DEF EventType, EditorState
<1>5. EventType'
  BY <1>4, EventFacts DEF EventType
<1> QED
  BY <1>1, <1>2, <1>4, <1>5, EventStep

LEMMA RequestRestoreStep ==
  ASSUME ConsoleInv, NEW v, RequestRestore(v), UNCHANGED playerVars
  PROVE  ConsoleInv' /\ Forward
<1>1. EditorShown /\ v \in 1..Len(versions) /\ UNCHANGED <<versions, put>>
  BY EventFacts DEF RequestRestore, Older
<1>2. CASE InView(v)
  <2> DEFINE d == page.hooks["viewed"].data
  <2>1. d # None /\ "viewed" \in DOMAIN page.hooks
    BY <1>1, <1>2, EventFacts DEF InView, TheHook
  <2>2. IsData("viewed", d, Len(versions), purse)
    BY <2>1, EventFacts DEF PageOK, HookOK
  <2>3. d.of \in 1..Len(versions)
    BY <2>2 DEF IsData
  <2>4. HandOff(d.of) /\ awaited' = awaited
    BY <1>2 DEF RequestRestore, TheHook
  <2> HIDE DEF d
  <2> QED
    BY <1>1, <2>3, <2>4, HandOffStep
<1>3. CASE ~InView(v)
  <2>1. awaited' = awaited \cup {v} /\ UNCHANGED <<viewing, editor, page>>
    BY <1>3 DEF RequestRestore
  <2>2. EventType'
    BY <1>1, <2>1, EventFacts DEF EventType
  <2> QED
    BY <1>1, <2>1, <2>2, EventFacts, EventStep DEF HookStep
<1> QED
  BY <1>2, <1>3

LEMMA RestoreEndsStep ==
  ASSUME ConsoleInv, RestoreEnds, UNCHANGED playerVars
  PROVE  ConsoleInv' /\ Forward
<1>1. PICK v \in awaited : RestoreFetched(v) \/ RestoreFails(v)
  BY DEF RestoreEnds
<1>2. EditorShown /\ v \in 1..Len(versions)
  BY EventFacts DEF EventBusy, EventType
<1>3. CASE RestoreFetched(v)
  BY <1>2, <1>3, HandOffStep DEF RestoreFetched
<1>4. CASE RestoreFails(v)
  <2>1. UNCHANGED <<versions, viewing, editor, put, page>> /\ awaited' = awaited \ {v}
    BY <1>4 DEF RestoreFails
  <2>2. EventType'
    BY <2>1, EventFacts DEF EventType
  <2> QED
    BY <1>2, <2>1, <2>2, EventFacts, EventStep DEF HookStep
<1> QED
  BY <1>1, <1>3, <1>4

(* The admin works on the draft, and the draft stays accounted for. *)
LEMMA EditStep ==
  ASSUME ConsoleInv, EditorShown, UNCHANGED <<versions, viewVars, put, page, playerVars>>, editor' \in EditorState,
         editor'.draft \in Config, \A k \in Field : editor'.draft[k] # versions[Base][k] => k \in editor'.own
  PROVE  ConsoleInv' /\ Forward
<1>1. UNCHANGED <<versions, awaited, put>>
  BY DEF viewVars
<1>2. EventType'
  BY <1>1, EventFacts DEF EventType
<1> QED
  BY <1>2, EventStep DEF HookStep

LEMMA SetStep ==
  ASSUME ConsoleInv, NEW k \in Field, NEW v \in Value, Set(k, v), UNCHANGED playerVars
  PROVE  ConsoleInv' /\ Forward
<1> DEFINE d == [editor.draft EXCEPT ![k] = v]
           o == editor.own \cup {k}
<1>1. EditorShown /\ UNCHANGED <<versions, viewVars, put, page>>
  BY DEF Set, Editing
<1>2. editor \in EditorState /\ editor.draft \in Config
  BY <1>1, EventFacts DEF EventType
<1>3. editor' = [editor EXCEPT !.draft = d, !.own = o]
  BY <1>2 DEF Set, EditorState
<1>4. d \in Config /\ \A j \in Field : j # k => d[j] = editor.draft[j]
  BY <1>2 DEF Config
<1>5. o \in SUBSET Field
  BY <1>2 DEF EditorState
<1>6. editor' \in EditorState /\ editor'.draft = d /\ editor'.own = o
  BY <1>2, <1>3, <1>4, <1>5 DEF EditorState
<1>7. \A j \in Field : d[j] # versions[Base][j] => j \in o
  BY <1>1, <1>4, EventFacts
<1> QED
  BY <1>1, <1>4, <1>6, <1>7, EditStep

LEMMA DiscardStep ==
  ASSUME ConsoleInv, Discard, UNCHANGED playerVars
  PROVE  ConsoleInv' /\ Forward
<1>1. EditorShown /\ UNCHANGED <<versions, viewVars, put, page>>
  BY DEF Discard, Editing
<1>2. versions[Base] \in Config
  BY <1>1, BaseThere
<1>3. editor' = [editor EXCEPT !.draft = versions[Base], !.own = {}]
  BY DEF Discard
<1>4. editor' \in EditorState /\ editor'.draft = versions[Base]
  BY <1>2, <1>3, EventFacts DEF EventType, EditorState
<1> QED
  BY <1>1, <1>2, <1>4, EditStep

(* The note, the modal and the spinner leave the draft alone. *)
LEMMA SameDraft ==
  ASSUME editor \in EditorState, NEW b \in BOOLEAN
  PROVE  /\ \A e \in {[editor EXCEPT !.note = b], [editor EXCEPT !.confirm = b], [editor EXCEPT !.publishing = b]} :
              e \in EditorState /\ e.draft = editor.draft /\ e.own = editor.own
         /\ [editor EXCEPT !.note = b].confirm = editor.confirm
         /\ [editor EXCEPT !.publishing = b].confirm = editor.confirm
BY DEF EditorState

LEMMA ModalStep ==
  ASSUME ConsoleInv, SetNote \/ UpdateEvent \/ CancelUpdate, UNCHANGED playerVars
  PROVE  ConsoleInv' /\ Forward
<1>1. EditorShown /\ UNCHANGED <<versions, viewVars, put, page>>
  BY EventFacts DEF SetNote, UpdateEvent, CancelUpdate, Editing, EventBusy
<1>2. editor' \in EditorState /\ editor'.draft = editor.draft /\ editor'.own = editor.own
  BY SameDraft, EventFacts DEF EventType, SetNote, UpdateEvent, CancelUpdate
<1> QED
  BY <1>1, <1>2, EventFacts, EditStep

LEMMA PublishStep ==
  ASSUME ConsoleInv, Publish, UNCHANGED playerVars
  PROVE  ConsoleInv' /\ Forward
<1>1. EditorShown /\ UNCHANGED <<versions, viewing, awaited, page>>
  BY EventFacts DEF Publish, EventBusy, viewVars
<1>2. editor' \in EditorState /\ editor'.draft = editor.draft /\ editor'.own = editor.own
  BY SameDraft, EventFacts DEF EventType, Publish
<1>3. editor.draft \in Config
  BY <1>1, EventFacts
<1>4. put' = [config |-> editor.draft, state |-> "sent", mine |-> TRUE, version |-> 0]
  BY DEF Publish
<1>5. put' \in PutState
  BY <1>3, <1>4 DEF PutState
<1>6. EventType'
  BY <1>1, <1>2, <1>5, EventFacts DEF EventType
<1> QED
  BY <1>1, <1>2, <1>6, EventFacts, EventStep DEF HookStep

LEMMA PutFailsStep ==
  ASSUME ConsoleInv, PutFails, UNCHANGED playerVars
  PROVE  ConsoleInv' /\ Forward
<1>1. put \in PutState /\ put' = [put EXCEPT !.state = "failed"] /\ UNCHANGED <<versions, viewing, awaited, editor, page>>
  BY EventFacts DEF PutFails, EventType, viewVars
<1>2. put' \in PutState /\ put'.mine = put.mine
  BY <1>1 DEF PutState
<1>3. EventType'
  BY <1>1, <1>2, EventFacts DEF EventType
<1>4. EventBusy' => EventBusy
  BY <1>1, <1>2, EventFacts DEF EventBusy, PutFails
<1> QED
  BY <1>1, <1>3, <1>4, EventFacts, EventStep DEF HookStep

LEMMA NotPublishedStep ==
  ASSUME ConsoleInv, NotPublished \/ Orphaned, UNCHANGED playerVars
  PROVE  ConsoleInv' /\ Forward
<1>1. put' = None /\ UNCHANGED <<versions, viewing, awaited, page>>
  BY DEF NotPublished, Orphaned, viewVars
<1>2. editor' \in EditorState /\ editor'.draft = editor.draft /\ editor'.own = editor.own /\ editor'.confirm = editor.confirm
  BY SameDraft, EventFacts DEF EventType, NotPublished, Orphaned
<1>3. EventType'
  BY <1>1, <1>2, EventFacts DEF EventType
<1>4. EventBusy' => EventBusy
  BY <1>1, <1>2 DEF EventBusy
<1> QED
  BY <1>1, <1>2, <1>3, <1>4, EventFacts, EventStep DEF HookStep

LEMMA RetryStep ==
  ASSUME ConsoleInv, Retry, UNCHANGED playerVars
  PROVE  ConsoleInv' /\ Forward
<1>1. "detail" \in DOMAIN page.hooks /\ page' = Ask(page, "detail", TheEvent) /\ UNCHANGED <<versions, viewing, awaited, editor, put>>
  BY DEF Retry, Shows, eventVars, viewVars
<1>2. IsKey("detail", TheEvent, Len(versions))
  BY DEF IsKey
<1>3. HookStep
  BY <1>1, <1>2, EventFacts, AskOK DEF HookStep
<1>4. EventType' /\ (EventBusy' => EventBusy)
  BY <1>1, EventFacts DEF EventType, EventBusy
<1> QED
  BY <1>1, <1>3, <1>4, EventFacts, EventStep

(* The view is left, and then the event is asked for again. *)
LEMMA PublishedStep ==
  ASSUME ConsoleInv, Published, UNCHANGED playerVars
  PROVE  ConsoleInv' /\ Forward
<1> DEFINE p == Unview(page)
<1>1. /\ put \in PutState /\ put' = None /\ viewing' = None /\ UNCHANGED <<versions, awaited>>
      /\ editor' = [editor EXCEPT !.confirm = FALSE, !.publishing = FALSE, !.published = put.version]
      /\ page' = Ask(p, "detail", TheEvent)
  BY EventFacts DEF Published, EventType
<1>2. EditorShown
  BY EventFacts DEF Published, EventBusy
<1>3. put.version \in Nat
  BY <1>1 DEF PutState
<1>4. editor' \in EditorState /\ editor'.draft = editor.draft /\ editor'.own = editor.own
  BY <1>1, <1>3, EventFacts DEF EventType, EditorState
<1>5. PageOK(p, Len(versions), purse) /\ DOMAIN p.hooks = DOMAIN page.hooks /\ SameData(page, p)
      /\ ("player" \in DOMAIN page.hooks => p.hooks["player"] = page.hooks["player"])
  <2>1. CASE viewing = None
    BY <2>1, EventFacts DEF Unview, SameData
  <2>2. CASE viewing # None
    BY <1>2, <2>2, EventFacts, DisableOK DEF Unview, Keeps, SameData
  <2> QED
    BY <2>1, <2>2
<1> HIDE DEF p
<1>6. IsKey("detail", TheEvent, Len(versions)) /\ "detail" \in DOMAIN p.hooks
  BY <1>2, <1>5, EventFacts DEF IsKey
<1>7. PageOK(page', Len(versions), purse) /\ Keeps(p, page', "detail") /\ SameData(p, page')
  BY <1>1, <1>5, <1>6, EventFacts, AskOK
<1>8. SameData(page, page') /\ DOMAIN page'.hooks = DOMAIN page.hooks
  BY <1>5, <1>7 DEF SameData
<1>9. "player" \in DOMAIN page.hooks => page'.hooks["player"] = page.hooks["player"]
  BY <1>5, <1>7 DEF Keeps
<1>10. PlayerInv'
  BY <1>8, <1>9, PlayerUntouched DEF ConsoleInv
<1>11. Forward /\ Mounting' /\ SameBase
  BY <1>8, SameForward, SameDataSameBase DEF ConsoleInv, PageOK
<1>12. EventType' /\ Extended
  BY <1>1, <1>4, EventFacts DEF EventType, Extended
<1>13. EventInv'
  BY <1>1, <1>2, <1>4, <1>11, <1>12, EventFacts, EventStays
<1>14. PageOK(page, Len(versions), purse)'
  BY <1>1, <1>7 DEF playerVars
<1> QED
  BY <1>10, <1>11, <1>13, <1>14 DEF ConsoleInv

-----------------------------------------------------------------------------
(* The server, the answers and what becomes of them. *)

LEMMA AppendStep ==
  ASSUME ConsoleInv, NEW config \in Config, Appends(config), UNCHANGED <<viewVars, editor, page, playerVars>>,
         put' \in {None} \cup PutState, put' # None /\ put'.mine => put # None /\ put.mine
  PROVE  ConsoleInv' /\ Forward
<1>1. versions \in Seq(Config) /\ versions' = Append(versions, config) /\ UNCHANGED <<viewing, awaited, editor, page>>
  BY EventFacts DEF EventType, Appends, viewVars
<1>2. Extended /\ Len(versions') \in Nat
  BY <1>1 DEF Extended
<1>3. purse' = purse /\ purse \in [Player -> Nat] /\ Len(versions) \in Nat
  BY <1>1 DEF playerVars, ConsoleInv, PlayerInv
<1>4. \A a \in Player : purse'[a] >= purse[a]
  BY <1>3
<1>5. PageOK(page, Len(versions), purse)' /\ Mounting' /\ Forward /\ SameBase
  BY <1>1, <1>2, <1>3, <1>4, PageUntouched DEF Extended
<1>6. PlayerInv'
  BY <1>1, PlayerUntouched DEF ConsoleInv
<1>7. EventType'
  BY <1>1, <1>2, <1>3, EventFacts DEF EventType, Extended
<1>8. EventBusy' => EventBusy
  BY <1>1 DEF EventBusy
<1>9. EventInv'
  BY <1>1, <1>2, <1>5, <1>7, <1>8, EventFacts, EventStays
<1> QED
  BY <1>5, <1>6, <1>9 DEF ConsoleInv

LEMMA ServerStep ==
  ASSUME ConsoleInv, EventServer, UNCHANGED playerVars
  PROVE  ConsoleInv' /\ Forward
<1>1. ASSUME NEW config \in Config, AnotherPublishes(config) PROVE ConsoleInv' /\ Forward
  BY <1>1, EventFacts, AppendStep DEF AnotherPublishes, EventType
<1>2. CASE ServePut
  <2>1. put \in PutState /\ put' = [put EXCEPT !.state = "ok", !.version = Len(versions')] /\ Appends(put.config)
    BY <1>2, EventFacts DEF ServePut, EventType
  <2>2. put.config \in Config
    BY <2>1 DEF PutState
  <2>3. Len(versions') \in Nat
    BY <2>1, <2>2, EventFacts DEF Appends, EventType
  <2>4. put' \in PutState /\ put'.mine = put.mine
    BY <2>1, <2>3 DEF PutState
  <2> QED
    BY <1>2, <2>1, <2>2, <2>4, AppendStep DEF ServePut
<1>3. CASE PutFails
  BY <1>3, PutFailsStep
<1> QED
  BY <1>1, <1>2, <1>3 DEF EventServer

(* What the server answers is not older than anything that was shown.        *)
LEMMA ReplyStep ==
  ASSUME ConsoleInv, NEW f \in page.flights, NEW answer, NEW error \in Error, UNCHANGED <<eventVars, playerVars>>,
         \/ Fail(f, error)
         \/ Serve(f, answer) /\ answer \in Datum /\ IsData(f.hook, answer, Len(versions), purse) /\ answer.of = f.key
            /\ (f.hook = "detail" => answer.state = Len(versions))
            /\ (f.hook = "player" => answer.state = purse[answer.of])
  PROVE  ConsoleInv' /\ Forward
<1> DEFINE d == page.hooks[f.hook].data
<1>1. PageType(page) /\ f.hook \in DOMAIN page.hooks /\ Len(versions) \in Nat /\ purse \in [Player -> Nat]
  BY EventFacts DEF PageOK, FlightOK, ConsoleInv, PlayerInv
<1>2. d # None => IsData(f.hook, d, Len(versions), purse) /\ d.state \in Nat
  BY <1>1, EventFacts, StatesAreNumbers DEF PageOK, HookOK
<1>3. ASSUME d # None, d.of = f.key, answer.of = f.key, IsData(f.hook, answer, Len(versions), purse),
             f.hook = "detail" => answer.state = Len(versions), f.hook = "player" => answer.state = purse[answer.of]
      PROVE  answer.state >= d.state
  BY <1>1, <1>2, <1>3 DEF IsData
<1> HIDE DEF d
<1>4. PageOK(page', Len(versions), purse) /\ page'.hooks = page.hooks
  <2>1. CASE Fail(f, error)
    BY <2>1, EventFacts, RepliedOK
  <2>2. CASE ~Fail(f, error)
    BY <1>3, <2>2, EventFacts, RepliedOK DEF d
  <2> QED
    BY <2>1, <2>2
<1>5. SameData(page, page')
  BY <1>4 DEF SameData
<1>6. Forward /\ Mounting' /\ SameBase
  BY <1>1, <1>5, SameForward, SameDataSameBase DEF ConsoleInv
<1>7. EventInv' /\ PlayerInv'
  BY <1>4, <1>6, EventUntouched, PlayerUntouched DEF ConsoleInv
<1>8. PageOK(page, Len(versions), purse)'
  BY <1>4 DEF eventVars, playerVars
<1> QED
  BY <1>6, <1>7, <1>8 DEF ConsoleInv

LEMMA ServesAre ==
  ASSUME ConsoleInv, NEW f \in page.flights
  PROVE  /\ f.hook = "detail" => LET a == Sheet(TheEvent, Len(versions))
                                 IN  a \in Datum /\ IsData("detail", a, Len(versions), purse) /\ a.of = f.key
         /\ f.hook = "viewed" => LET a == Sheet(f.key, f.key)
                                 IN  a \in Datum /\ IsData("viewed", a, Len(versions), purse) /\ a.of = f.key
         /\ f.hook = "player" /\ f.key \in Player =>
              LET a == [of |-> f.key, state |-> purse[f.key]]
              IN  a \in Datum /\ IsData("player", a, Len(versions), purse) /\ a.of = f.key
<1>1. IsKey(f.hook, f.key, Len(versions)) /\ Len(versions) \in Nat /\ purse \in [Player -> Nat]
  BY EventFacts DEF PageOK, FlightOK, ConsoleInv, PlayerInv
<1>2. Len(versions) >= 1
  BY EventFacts DEF EventType
<1> QED
  BY <1>1, <1>2 DEF IsKey, Sheet, Datum, AnyKey, IsData, TheEvent

LEMMA HeardStep ==
  ASSUME ConsoleInv, NEW f \in page.flights, Answered(f), page' = Heard(f)
  PROVE  /\ PageOK(page', Len(versions), purse) /\ Keeps(page, page', f.hook) /\ f.hook \in DOMAIN page.hooks
         /\ Forward /\ Mounting'
<1> DEFINE old == page.hooks[f.hook]
           new == page'.hooks[f.hook]
<1>1. /\ PageOK(page', Len(versions), purse) /\ Keeps(page, page', f.hook)
      /\ \/ new.data = old.data
         \/ /\ new.data # None /\ new.data.of = f.key
            /\ old.data # None /\ old.data.of = f.key => new.data.state >= old.data.state
  BY EventFacts, HeardOK
<1>2. f.hook \in DOMAIN page.hooks /\ PageType(page)
  BY EventFacts DEF PageOK, FlightOK
<1>3. old.data # None /\ new.data # None /\ old.data.of = new.data.of => new.data.state >= old.data.state
  BY <1>1, <1>2, StatesAreNumbers
<1> HIDE DEF old, new
<1>4. ASSUME NEW h \in DOMAIN page.hooks, page.hooks[h].data # None, page'.hooks[h].data # None,
             page.hooks[h].data.of = page'.hooks[h].data.of
      PROVE  page'.hooks[h].data.state >= page.hooks[h].data.state
  <2>1. CASE h = f.hook
    BY <1>3, <1>4, <2>1 DEF old, new
  <2>2. CASE h # f.hook
    BY <1>1, <1>2, <1>4, <2>2, StatesAreNumbers DEF Keeps
  <2> QED
    BY <2>1, <2>2
<1>5. Forward
  BY <1>1, <1>4 DEF Forward, TheHook, Keeps
<1>6. Mounting'
  BY <1>1 DEF Mounting, Keeps, ConsoleInv
<1> QED
  BY <1>1, <1>2, <1>5, <1>6

LEMMA HearViewedStep ==
  ASSUME ConsoleInv, NEW f \in page.flights, HearViewed(f), UNCHANGED playerVars
  PROVE  ConsoleInv' /\ Forward
<1>1. f.hook = "viewed" /\ Answered(f) /\ page' = Heard(f) /\ UNCHANGED eventVars
  BY DEF HearViewed
<1>2. PageOK(page', Len(versions), purse) /\ Keeps(page, page', "viewed") /\ Forward /\ Mounting'
  BY <1>1, HeardStep
<1>3. EventInv' /\ PlayerInv'
  BY <1>1, <1>2, KeepsBase, EventUntouched, EventHookSteps
<1>4. PageOK(page, Len(versions), purse)'
  BY <1>1, <1>2 DEF eventVars, playerVars
<1> QED
  BY <1>2, <1>3, <1>4 DEF ConsoleInv

(* Another base resets the draft: there is nothing to account for.           *)
LEMMA HearDetailStep ==
  ASSUME ConsoleInv, NEW f \in page.flights, HearDetail(f), UNCHANGED playerVars
  PROVE  ConsoleInv' /\ Forward
<1> DEFINE d == page'.hooks["detail"].data
<1>1. f.hook = "detail" /\ Answered(f) /\ page' = Heard(f) /\ UNCHANGED <<versions, viewing, awaited, put>>
  BY DEF HearDetail, viewVars
<1>2. PageOK(page', Len(versions), purse) /\ Keeps(page, page', "detail") /\ Forward /\ Mounting'
      /\ "detail" \in DOMAIN page.hooks
  BY <1>1, HeardStep
<1>3. PlayerInv'
  BY <1>2, EventHookSteps
<1>4. PageOK(page, Len(versions), purse)'
  BY <1>1, <1>2 DEF playerVars
<1>5. CASE d = page.hooks["detail"].data
  <2>1. SameBase
    BY <1>2, <1>5 DEF SameBase, EditorShown, Base, Shows, TheHook, Keeps
  <2>2. editor' = editor
    BY <1>5 DEF HearDetail, TheHook
  <2>3. EventInv'
    BY <1>1, <2>1, <2>2, EventUntouched DEF eventVars, viewVars
  <2> QED
    BY <1>2, <1>3, <1>4, <2>3 DEF ConsoleInv
<1>6. CASE d # page.hooks["detail"].data
  <2>1. d # None
    BY <1>1, <1>6, EventFacts, HeardOK
  <2>2. d.state \in 1..Len(versions)
    BY <1>2, <2>1 DEF PageOK, HookOK, IsData, Keeps
  <2>3. EditorShown' /\ Base' = d.state
    BY <1>2, <2>1 DEF EditorShown, Shows, TheHook, Base, Keeps
  <2>4. editor' = IF EditorShown THEN Rebased(d.state) ELSE Clean(versions[d.state])
    BY <1>6 DEF HearDetail, TheHook
  <2>5. versions[d.state] \in Config
    BY <2>2, EventFacts DEF EventType
  <2> HIDE DEF d
  <2>6. editor' \in EditorState /\ editor'.draft = versions[d.state]
    <3>1. CASE EditorShown
      <4>1. editor' = [editor EXCEPT !.draft = versions[d.state], !.own = {}, !.note = FALSE]
        BY <2>4, <3>1 DEF Rebased
      <4> QED
        BY <2>5, <4>1, EventFacts DEF EventType, EditorState
    <3>2. CASE ~EditorShown
      BY <2>4, <2>5, <3>2 DEF Clean, EditorState
    <3> QED
      BY <3>1, <3>2
  <2>7. EventType'
    BY <1>1, <2>6, EventFacts DEF EventType
  <2>8. DiffIsOwn'
    BY <1>1, <2>3, <2>6 DEF DiffIsOwn
  <2>9. EventInv'
    BY <2>3, <2>5, <2>6, <2>7, <2>8 DEF EventInv
  <2> QED
    BY <1>2, <1>3, <1>4, <2>9 DEF ConsoleInv
<1> QED
  BY <1>5, <1>6

LEMMA EventHearsStep ==
  ASSUME ConsoleInv, NEW h, EventHears(h), UNCHANGED playerVars
  PROVE  ConsoleInv' /\ Forward
<1>1. PICK f \in page.flights : ServeDetail(f) \/ ServeViewed(f) \/ HearDetail(f) \/ HearViewed(f)
  BY DEF EventHears
<1>2. CASE ServeDetail(f)
  <2> DEFINE a == Sheet(TheEvent, Len(versions))
  <2>1. a.state = Len(versions)
    BY DEF Sheet
  <2> QED
    BY <1>2, <2>1, ServesAre, ReplyStep DEF ServeDetail, Error
<1>3. CASE ServeViewed(f)
  BY <1>3, ServesAre, ReplyStep DEF ServeViewed, Error
<1> QED
  BY <1>1, <1>2, <1>3, HearDetailStep, HearViewedStep

LEMMA EventFailsStep ==
  ASSUME ConsoleInv, EventFails, UNCHANGED playerVars
  PROVE  ConsoleInv' /\ Forward
BY ReplyStep DEF EventFails, Error

LEMMA EventSteps ==
  ASSUME ConsoleInv, UNCHANGED playerVars,
         \/ EventTouch \/ EventServer \/ EventFails \/ PutEnds \/ RestoreEnds
         \/ \E h \in {"detail", "viewed"} : EventHears(h)
  PROVE  ConsoleInv' /\ Forward
<1>1. CASE EventTouch
  <2>1. CASE \E v \in 1..MaxVersion : View(v) \/ RequestRestore(v)
    BY <2>1, ViewStep, RequestRestoreStep
  <2>2. CASE \E k \in Field, v \in Value : Set(k, v)
    BY <2>2, SetStep
  <2> QED
    BY <1>1, <2>1, <2>2, RetryStep, ExitStep, ModalStep, DiscardStep, PublishStep DEF EventTouch
<1>2. CASE PutEnds
  BY <1>2, PublishedStep, NotPublishedStep DEF PutEnds
<1> QED
  BY <1>1, <1>2, ServerStep, EventFailsStep, RestoreEndsStep, EventHearsStep

-----------------------------------------------------------------------------
(* The steps of the players page. *)

LEMMA PlayerFacts ==
  ASSUME ConsoleInv
  PROVE  /\ PlayerInv /\ PageOK(page, Len(versions), purse) /\ PageType(page) /\ Mounting
         /\ Len(versions) \in Nat /\ purse \in [Player -> Nat]
         /\ "player" \in DOMAIN page.hooks => DOMAIN page.hooks = {"player"}
BY EventFacts DEF ConsoleInv, PlayerInv, PageOK, Mounting

(* A form is empty after the page or what it shows has changed.              *)
LEMMA FormGoneOK ==
  ASSUME PlayerInv, FormGone, DOMAIN page'.hooks = DOMAIN page.hooks, UNCHANGED purse,
         route' \in Player \cup {Typo, None}, Shows("player") => page'.hooks["player"].key = route'
  PROVE  PlayerInv'
<1>1. /\ form' \in [filled : Player \cup {None}, busy : BOOLEAN] /\ form'.filled = None
      /\ Shows("player")' => (Look.key)' = route'
  BY DEF FormGone, EmptyForm, Shows, Look, TheHook
<1>2. CASE post = None
  BY <1>1, <1>2 DEF FormGone, PlayerInv, GrantsAsFilledIn
<1>3. CASE post # None
  <2>1. post \in PostState /\ post' = [post EXCEPT !.mine = FALSE]
    BY <1>3 DEF FormGone, PlayerInv
  <2>2. post' \in PostState /\ post'.here = post.here /\ post'.to = post.to /\ post'.filled = post.filled
    BY <2>1 DEF PostState
  <2> QED
    BY <1>1, <1>3, <2>2 DEF PlayerInv, GrantsAsFilledIn, Shows
<1> QED
  BY <1>2, <1>3

(* The players page has no part in what the event page shows. *)
LEMMA PlayerStep ==
  ASSUME ConsoleInv, UNCHANGED eventVars, PlayerInv', purse' = purse, DOMAIN page'.hooks = DOMAIN page.hooks,
         \/ page' = page
         \/ /\ "player" \in DOMAIN page.hooks /\ PageOK(page', Len(versions), purse)
            /\ SameData(page, page')
  PROVE  ConsoleInv' /\ Forward
<1>1. versions' = versions
  BY DEF eventVars
<1>2. SameData(page, page') /\ PageOK(page', Len(versions), purse)
  BY PlayerFacts DEF SameData
<1>3. Forward /\ Mounting' /\ SameBase
  BY <1>2, PlayerFacts, SameForward, SameDataSameBase
<1>4. EventInv'
  BY <1>3, EventUntouched
<1>5. PageOK(page, Len(versions), purse)'
  BY <1>1, <1>2
<1> QED
  BY <1>3, <1>4, <1>5 DEF ConsoleInv

LEMMA LookupStep ==
  ASSUME ConsoleInv, NEW id \in Player \cup {Typo}, Lookup(id), UNCHANGED eventVars
  PROVE  ConsoleInv' /\ Forward
<1>1. "player" \in DOMAIN page.hooks /\ page' = Ask(page, "player", id) /\ FormGone /\ purse' = purse /\ route' = id
  BY DEF Lookup, Shows
<1>2. IsKey("player", id, Len(versions))
  BY DEF IsKey
<1>3. PageOK(page', Len(versions), purse) /\ Keeps(page, page', "player") /\ SameData(page, page')
      /\ DependsOn(page', "player", id)
  BY <1>1, <1>2, PlayerFacts, AskOK
<1>4. DOMAIN page'.hooks = DOMAIN page.hooks
  BY <1>3 DEF Keeps
<1>5. PlayerInv'
  BY <1>1, <1>3, <1>4, PlayerFacts, FormGoneOK DEF DependsOn
<1> QED
  BY <1>1, <1>3, <1>4, <1>5, PlayerStep

LEMMA AllPlayersStep ==
  ASSUME ConsoleInv, AllPlayers, UNCHANGED eventVars
  PROVE  ConsoleInv' /\ Forward
<1>1. "player" \in DOMAIN page.hooks /\ page' = Disable(page, "player") /\ FormGone /\ purse' = purse /\ route' = None
  BY DEF AllPlayers, Shows
<1>2. PageOK(page', Len(versions), purse) /\ Keeps(page, page', "player") /\ SameData(page, page')
      /\ page'.hooks["player"].key = None
  BY <1>1, PlayerFacts, DisableOK DEF DependsOn
<1>3. DOMAIN page'.hooks = DOMAIN page.hooks
  BY <1>2 DEF Keeps
<1>4. PlayerInv'
  BY <1>1, <1>2, <1>3, PlayerFacts, FormGoneOK
<1> QED
  BY <1>1, <1>2, <1>3, <1>4, PlayerStep

(* While the form stays, so does the profile beside it. *)
LEMMA FormStays ==
  ASSUME PlayerInv, UNCHANGED <<purse, route, form>>, DOMAIN page'.hooks = DOMAIN page.hooks,
         Shows("player") => page'.hooks["player"].key = route,
         form.filled # None => ProfileShown(page'.hooks["player"]) /\ page'.hooks["player"].data.of = form.filled,
         post' \in {None, post}
  PROVE  PlayerInv'
<1>1. /\ form.filled # None => FormShown' /\ (Look.data.of)' = form.filled
      /\ Shows("player")' => (Look.key)' = route'
  BY DEF PlayerInv, FormShown, Shows, Look, TheHook
<1> QED
  BY <1>1 DEF PlayerInv, GrantsAsFilledIn, Shows

(* What is looked up is asked for again, and the form stays if it can.       *)
LEMMA ReloadKeeps ==
  ASSUME ConsoleInv, "player" \in DOMAIN page.hooks, route # None, Reload
  PROVE  /\ PageOK(page', Len(versions), purse) /\ DOMAIN page'.hooks = DOMAIN page.hooks /\ SameData(page, page')
         /\ page'.hooks["player"].key = route
         /\ form.filled # None => page'.hooks["player"].data.of = form.filled
<1>1. route \in Player \cup {Typo}
  BY PlayerFacts DEF PlayerInv
<1>2. IsKey("player", route, Len(versions)) /\ page' = Ask(page, "player", route)
  BY <1>1 DEF IsKey, Reload
<1>3. /\ PageOK(page', Len(versions), purse) /\ Keeps(page, page', "player") /\ SameData(page, page')
      /\ DependsOn(page', "player", route)
  BY <1>2, PlayerFacts, AskOK
<1>4. form.filled # None => page.hooks["player"].data.of = form.filled
  BY PlayerFacts DEF PlayerInv, Look, TheHook
<1>5. form.filled # None => page'.hooks["player"].data.of = form.filled
  BY <1>3, <1>4 DEF SameData
<1> QED
  BY <1>3, <1>5 DEF Keeps, DependsOn

LEMMA RefreshStep ==
  ASSUME ConsoleInv, Refresh, UNCHANGED eventVars
  PROVE  ConsoleInv' /\ Forward
<1>1. "player" \in DOMAIN page.hooks /\ Reload /\ UNCHANGED <<purse, route>>
  BY DEF Refresh, Shows
<1>2. route # None
  BY <1>1, PlayerFacts DEF Refresh, ProfileShown, ErrorShown, LookedUp, PlayerInv, Shows
<1>3. /\ PageOK(page', Len(versions), purse) /\ DOMAIN page'.hooks = DOMAIN page.hooks /\ SameData(page, page')
      /\ page'.hooks["player"].key = route
      /\ form.filled # None => page'.hooks["player"].data.of = form.filled
  BY <1>1, <1>2, ReloadKeeps
<1>4. CASE ProfileShown(page'.hooks["player"])
  <2>1. form' = form /\ post' = post
    BY <1>4 DEF Refresh, formVars
  <2>2. PlayerInv'
    BY <1>1, <1>3, <1>4, <2>1, PlayerFacts, FormStays
  <2> QED
    BY <1>1, <1>3, <2>2, PlayerStep
<1>5. CASE ~ProfileShown(page'.hooks["player"])
  <2>1. FormGone
    BY <1>5 DEF Refresh
  <2>2. PlayerInv'
    BY <1>1, <1>3, <2>1, PlayerFacts, FormGoneOK DEF PlayerInv
  <2> QED
    BY <1>1, <1>3, <2>2, PlayerStep
<1> QED
  BY <1>4, <1>5

(* The profile that takes the place of one with a form beside it is the same  *)
(* player's: another's would have come after a skeleton.                    *)
LEMMA HearPlayerStep ==
  ASSUME ConsoleInv, NEW f \in page.flights, HearPlayer(f), UNCHANGED eventVars
  PROVE  ConsoleInv' /\ Forward
<1> DEFINE old == page.hooks["player"]
           new == page'.hooks["player"]
<1>1. f.hook = "player" /\ Answered(f) /\ page' = Heard(f) /\ UNCHANGED <<purse, route>>
  BY DEF HearPlayer
<1>2. PageOK(page', Len(versions), purse) /\ Keeps(page, page', "player") /\ Forward /\ Mounting'
      /\ "player" \in DOMAIN page.hooks
  BY <1>1, HeardStep
<1>3. /\ new.key = old.key
      /\ new.data = old.data \/ (old.loading /\ old.key = f.key /\ new.data.of = f.key)
  BY <1>1, PlayerFacts, HeardOK
<1>4. old.loaded => old.data.of = old.key
  BY <1>2, PlayerFacts DEF PageOK, HookOK
<1>5. form.filled # None => ProfileShown(old) /\ old.data.of = form.filled
  BY PlayerFacts DEF PlayerInv, FormShown, Look, TheHook
<1>6. form.filled # None => new.data.of = form.filled
  BY <1>3, <1>4, <1>5 DEF ProfileShown, LookedUp
<1>7. Shows("player") => new.key = route
  BY <1>3, PlayerFacts DEF PlayerInv, Look, TheHook
<1>8. DOMAIN page'.hooks = DOMAIN page.hooks
  BY <1>2 DEF Keeps
<1>9. PlayerInv'
  <2>1. CASE ProfileShown(new)
    <3>1. form' = form /\ post' = post
      BY <2>1 DEF HearPlayer, formVars
    <3> QED
      BY <1>1, <1>6, <1>7, <1>8, <2>1, <3>1, PlayerFacts, FormStays
  <2>2. CASE ~ProfileShown(new)
    <3>1. FormGone
      BY <2>2 DEF HearPlayer
    <3> QED
      BY <1>1, <1>7, <1>8, <3>1, PlayerFacts, FormGoneOK DEF PlayerInv
  <2> QED
    BY <2>1, <2>2
<1>10. EventInv'
  <2>1. SameBase
    BY <1>2, KeepsBase
  <2> QED
    BY <2>1, EventUntouched
<1>11. PageOK(page, Len(versions), purse)'
  BY <1>1, <1>2 DEF eventVars
<1> QED
  BY <1>2, <1>9, <1>10, <1>11 DEF ConsoleInv

LEMMA ServePlayerStep ==
  ASSUME ConsoleInv, NEW f \in page.flights, ServePlayer(f), UNCHANGED eventVars
  PROVE  ConsoleInv' /\ Forward
<1>1. f.hook = "player" /\ UNCHANGED playerVars
  BY DEF ServePlayer
<1>2. CASE f.key \in Player
  <2> DEFINE a == [of |-> f.key, state |-> purse[f.key]]
  <2>1. Serve(f, a) /\ a.of = f.key /\ a.state = purse[a.of]
    BY <1>2 DEF ServePlayer
  <2>2. a \in Datum /\ IsData("player", a, Len(versions), purse)
    BY <1>1, <1>2, ServesAre
  <2> HIDE DEF a
  <2> QED
    BY <1>1, <2>1, <2>2, ReplyStep DEF Error
<1>3. CASE f.key \notin Player
  <2>1. Fail(f, "missing")
    BY <1>3 DEF ServePlayer
  <2> QED
    BY <1>1, <2>1, ReplyStep DEF Error
<1> QED
  BY <1>2, <1>3

(* Steps of the form and its grant, which leave the page alone. *)
LEMMA FormStep ==
  ASSUME ConsoleInv, UNCHANGED <<eventVars, page, route>>, purse' \in [Player -> Nat],
         \A a \in Player : purse'[a] >= purse[a],
         form' \in [filled : Player \cup {None}, busy : BOOLEAN],
         form'.filled # None => FormShown /\ Look.data.of = form'.filled,
         post' \in {None} \cup PostState,
         post' # None => post'.to = post'.filled /\ (post'.here => Shows("player"))
  PROVE  ConsoleInv' /\ Forward
<1>1. versions' = versions /\ page' = page /\ route' = route
  BY DEF eventVars
<1>2. PageOK(page, Len(versions), purse)' /\ Mounting' /\ Forward /\ SameBase
  BY <1>1, PlayerFacts, PageUntouched
<1>3. EventInv'
  BY <1>2, EventUntouched
<1>4. Look' = Look /\ FormShown' = FormShown /\ Shows("player")' = Shows("player")
  BY <1>1 DEF Look, FormShown, Shows, TheHook, ProfileShown, LookedUp
<1>5. PlayerInv'
  BY <1>1, <1>4, PlayerFacts DEF PlayerInv, GrantsAsFilledIn
<1> QED
  BY <1>2, <1>3, <1>5 DEF ConsoleInv

LEMMA ShownPlayer ==
  ASSUME ConsoleInv, FormShown
  PROVE  Look.data.of \in Player
<1> DEFINE d == page.hooks["player"].data
<1>1. "player" \in DOMAIN page.hooks /\ d # None
  BY DEF FormShown, Shows, Look, TheHook, ProfileShown
<1>2. IsData("player", d, Len(versions), purse)
  BY <1>1, PlayerFacts DEF PageOK, HookOK
<1> QED
  BY <1>2 DEF IsData, Look, TheHook

LEMMA FillStep ==
  ASSUME ConsoleInv, Fill, UNCHANGED eventVars
  PROVE  ConsoleInv' /\ Forward
<1>1. form \in [filled : Player \cup {None}, busy : BOOLEAN] /\ form' = [form EXCEPT !.filled = Look.data.of]
      /\ FormShown /\ UNCHANGED <<purse, route, post, page>>
  BY PlayerFacts DEF Fill, PlayerInv
<1>2. form' \in [filled : Player \cup {None}, busy : BOOLEAN] /\ form'.filled = Look.data.of
  BY <1>1, ShownPlayer
<1>3. \A a \in Player : purse'[a] >= purse[a]
  BY <1>1, PlayerFacts
<1> QED
  BY <1>1, <1>2, <1>3, PlayerFacts, FormStep DEF PlayerInv, GrantsAsFilledIn

LEMMA SubmitStep ==
  ASSUME ConsoleInv, Submit, UNCHANGED eventVars
  PROVE  ConsoleInv' /\ Forward
<1>1. /\ form \in [filled : Player \cup {None}, busy : BOOLEAN] /\ form' = [form EXCEPT !.busy = TRUE]
      /\ FormShown /\ form.filled # None /\ UNCHANGED <<purse, route, page>> /\ post' = Grant(Look.data.of)
  BY PlayerFacts DEF Submit, PlayerInv
<1>2. Look.data.of = form.filled /\ form.filled \in Player
  BY <1>1, PlayerFacts DEF PlayerInv
<1>3. form' \in [filled : Player \cup {None}, busy : BOOLEAN] /\ form'.filled = form.filled
  BY <1>1
<1>4. post' \in PostState /\ post'.to = post'.filled
  BY <1>1, <1>2 DEF Grant, PostState
<1>5. \A a \in Player : purse'[a] >= purse[a]
  BY <1>1, PlayerFacts
<1> QED
  BY <1>1, <1>2, <1>3, <1>4, <1>5, PlayerFacts, FormStep DEF FormShown

LEMMA GrantServerStep ==
  ASSUME ConsoleInv, PlayerServer, UNCHANGED eventVars
  PROVE  ConsoleInv' /\ Forward
<1>1. post \in PostState /\ UNCHANGED <<route, form, page>>
  BY PlayerFacts DEF PlayerServer, ServeGrant, GrantFails, PlayerInv
<1>2. PICK t \in {"ok", "failed"} : post' = [post EXCEPT !.state = t]
  BY DEF PlayerServer, ServeGrant, GrantFails
<1>3. post' \in PostState /\ post'.to = post.to /\ post'.filled = post.filled /\ post'.here = post.here
  BY <1>1, <1>2 DEF PostState
<1>4. post.to \in Player
  BY <1>1 DEF PostState
<1>5. purse' \in [Player -> Nat] /\ \A a \in Player : purse'[a] >= purse[a]
  <2>1. CASE purse' = purse
    BY <2>1, PlayerFacts
  <2>2. CASE purse' = [purse EXCEPT ![post.to] = @ + 1]
    BY <1>4, <2>2, PlayerFacts
  <2> QED
    BY <2>1, <2>2 DEF PlayerServer, ServeGrant, GrantFails
<1>6. form' \in [filled : Player \cup {None}, busy : BOOLEAN] /\ (form'.filled # None => FormShown /\ Look.data.of = form'.filled)
  BY <1>1, PlayerFacts DEF PlayerInv
<1>7. post # None /\ post'.to = post'.filled /\ (post'.here => Shows("player"))
  BY <1>3, PlayerFacts DEF PlayerInv, GrantsAsFilledIn, PlayerServer, ServeGrant, GrantFails
<1> QED
  BY <1>1, <1>3, <1>5, <1>6, <1>7, FormStep

LEMMA NotGrantedStep ==
  ASSUME ConsoleInv, NotGranted, UNCHANGED eventVars
  PROVE  ConsoleInv' /\ Forward
<1>1. form \in [filled : Player \cup {None}, busy : BOOLEAN] /\ UNCHANGED <<purse, route, page>> /\ post' = None
  BY PlayerFacts DEF NotGranted, PlayerInv
<1>2. form' \in [filled : Player \cup {None}, busy : BOOLEAN] /\ form'.filled = form.filled
  BY <1>1 DEF NotGranted
<1>3. \A a \in Player : purse'[a] >= purse[a]
  BY <1>1, PlayerFacts
<1> QED
  BY <1>1, <1>2, <1>3, PlayerFacts, FormStep DEF PlayerInv

LEMMA GrantedStep ==
  ASSUME ConsoleInv, Granted, UNCHANGED eventVars
  PROVE  ConsoleInv' /\ Forward
<1>1. post # None /\ post' = None /\ UNCHANGED <<purse, route>> /\ form' \in {EmptyForm, form}
  BY DEF Granted
<1>2. CASE post.here /\ route # None
  <2>1. Reload /\ "player" \in DOMAIN page.hooks
    BY <1>1, <1>2, PlayerFacts DEF Granted, PlayerInv, Shows
  <2>2. /\ PageOK(page', Len(versions), purse) /\ DOMAIN page'.hooks = DOMAIN page.hooks /\ SameData(page, page')
        /\ page'.hooks["player"].key = route
        /\ form.filled # None => page'.hooks["player"].data.of = form.filled
    BY <1>2, <2>1, ReloadKeeps
  <2>3. PlayerInv'
    <3>1. CASE form' = EmptyForm
      <4>1. form' \in [filled : Player \cup {None}, busy : BOOLEAN] /\ form'.filled = None
        BY <3>1 DEF EmptyForm
      <4>2. (Look.key)' = route'
        BY <1>1, <2>2 DEF Look, TheHook
      <4> QED
        BY <1>1, <4>1, <4>2, PlayerFacts DEF PlayerInv, GrantsAsFilledIn
    <3>2. CASE form' = form /\ ProfileShown(page'.hooks["player"])
      BY <1>1, <2>2, <3>2, PlayerFacts, FormStays
    <3>3. CASE form' # EmptyForm /\ ~ProfileShown(page'.hooks["player"])
      BY <1>2, <3>3 DEF Granted
    <3> QED
      BY <1>1, <3>1, <3>2, <3>3
  <2> QED
    BY <1>1, <2>1, <2>2, <2>3, PlayerStep
<1>3. CASE ~(post.here /\ route # None)
  <2>1. page' = page
    BY <1>3 DEF Granted
  <2>2. EmptyForm \in [filled : Player \cup {None}, busy : BOOLEAN] /\ EmptyForm.filled = None
    BY DEF EmptyForm
  <2>3. form' \in [filled : Player \cup {None}, busy : BOOLEAN] /\ (form'.filled # None => form' = form)
    BY <1>1, <2>2, PlayerFacts DEF PlayerInv
  <2>4. \A a \in Player : purse'[a] >= purse[a]
    BY <1>1, PlayerFacts
  <2> QED
    BY <1>1, <2>1, <2>3, <2>4, PlayerFacts, FormStep DEF PlayerInv
<1> QED
  BY <1>2, <1>3

LEMMA PlayerFailsStep ==
  ASSUME ConsoleInv, PlayerFails, UNCHANGED eventVars
  PROVE  ConsoleInv' /\ Forward
BY ReplyStep DEF PlayerFails, Error

LEMMA PlayerSteps ==
  ASSUME ConsoleInv, UNCHANGED eventVars, PlayerTouch \/ PlayerServer \/ PlayerHears \/ PlayerFails \/ GrantEnds
  PROVE  ConsoleInv' /\ Forward
<1>1. CASE PlayerTouch
  BY <1>1, LookupStep, AllPlayersStep, RefreshStep, FillStep, SubmitStep DEF PlayerTouch
<1>2. CASE PlayerHears
  BY <1>2, ServePlayerStep, HearPlayerStep DEF PlayerHears
<1>3. CASE GrantEnds
  BY <1>3, GrantedStep, NotGrantedStep DEF GrantEnds
<1> QED
  BY <1>1, <1>2, <1>3, GrantServerStep, PlayerFailsStep

-----------------------------------------------------------------------------
(* The session: a page that is mounted shows nothing yet. *)

Fresh(p) == \A h \in DOMAIN p.hooks : p.hooks[h].data = None

LEMMA MountedOK ==
  ASSUME NEW names \in SUBSET Names, NEW n, NEW u
  PROVE  /\ PageOK(Mounted(names), n, u) /\ DOMAIN Mounted(names).hooks = names
         /\ Fresh(Mounted(names)) /\ \A h \in names : Mounted(names).hooks[h].key = None
<1>1. Hook \in HookState /\ Hook.data = None /\ ~Hook.loaded /\ Hook.key = None
  BY DEF Hook, HookState, Datum, Error, AnyKey
<1> DEFINE p == Mounted(names)
<1>2. p.hooks = [h \in names |-> Hook] /\ p.flights = {} /\ p = [hooks |-> p.hooks, flights |-> p.flights]
  BY DEF Mounted
<1> HIDE DEF p
<1>3. DOMAIN p.hooks = names /\ \A h \in names : p.hooks[h] = Hook
  BY <1>2
<1>4. PageType(p)
  BY <1>1, <1>2 DEF PageType
<1>5. PageOK(p, n, u)
  BY <1>1, <1>2, <1>3, <1>4 DEF PageOK, HookOK
<1> QED
  BY <1>1, <1>3, <1>5 DEF Fresh, p

LEMMA UnmountStep ==
  ASSUME ConsoleInv, Unmount, PageOK(page', Len(versions), purse), Mounting', Fresh(page'),
         "player" \in DOMAIN page'.hooks => page'.hooks["player"].key = None
  PROVE  ConsoleInv' /\ Forward
<1>1. /\ viewing' = None /\ awaited' = {} /\ editor' = NoEditor /\ UNCHANGED <<versions, purse>>
      /\ form' = EmptyForm /\ route' = None
  BY DEF Unmount, EventGone, PlayersGone
<1>2. Forward
  BY DEF Forward, Fresh, TheHook
<1>3. ~EditorShown'
  BY DEF EditorShown, Shows, TheHook, Fresh
<1>4. put' \in {None} \cup PutState /\ (put' # None => ~put'.mine)
  <2>1. CASE put = None
    BY <2>1 DEF Unmount
  <2>2. CASE put # None
    <3>1. put \in PutState /\ put' = [put EXCEPT !.mine = FALSE]
      BY <2>2, EventFacts DEF Unmount, EventType
    <3> QED
      BY <3>1 DEF PutState
  <2> QED
    BY <2>1, <2>2
<1>5. editor' \in EditorState /\ ~editor'.confirm
  BY <1>1 DEF NoEditor, Clean, EditorState
<1>6. EventType'
  BY <1>1, <1>4, <1>5, EventFacts DEF EventType
<1>7. EventInv'
  BY <1>1, <1>3, <1>4, <1>5, <1>6 DEF EventInv, EventBusy, DiffIsOwn
<1>8. post' \in {None} \cup PostState /\ (post' # None => ~post'.here /\ post'.to = post'.filled)
  <2>1. CASE post = None
    BY <2>1 DEF Unmount, PlayersGone
  <2>2. CASE post # None
    <3>1. post \in PostState /\ post' = [post EXCEPT !.mine = FALSE, !.here = FALSE] /\ post.to = post.filled
      BY <2>2, PlayerFacts DEF Unmount, PlayersGone, PlayerInv, GrantsAsFilledIn
    <3> QED
      BY <3>1 DEF PostState
  <2> QED
    BY <2>1, <2>2
<1>9. form' \in [filled : Player \cup {None}, busy : BOOLEAN] /\ form'.filled = None
  BY <1>1 DEF EmptyForm
<1>10. PlayerInv'
  BY <1>1, <1>8, <1>9, PlayerFacts DEF PlayerInv, GrantsAsFilledIn, Shows, Look, TheHook
<1>11. PageOK(page, Len(versions), purse)'
  BY <1>1
<1> QED
  BY <1>2, <1>7, <1>10, <1>11 DEF ConsoleInv

LEMMA SessionSteps ==
  ASSUME ConsoleInv, Disconnect \/ Rejected \/ OpenEvent \/ OpenPlayers
  PROVE  ConsoleInv' /\ Forward
<1>1. CASE Disconnect \/ Rejected
  <2>1. page' = Mounted({}) /\ Unmount
    BY <1>1 DEF Disconnect, Rejected, SignedOut
  <2>2. PageOK(page', Len(versions), purse) /\ DOMAIN page'.hooks = {} /\ Fresh(page')
    BY <2>1, MountedOK
  <2> QED
    BY <2>1, <2>2, UnmountStep DEF Mounting
<1>2. CASE OpenPlayers
  <2>1. page' = Mounted({"player"}) /\ Unmount
    BY <1>2 DEF OpenPlayers
  <2>2. /\ PageOK(page', Len(versions), purse) /\ DOMAIN page'.hooks = {"player"} /\ Fresh(page')
        /\ page'.hooks["player"].key = None
    BY <2>1, MountedOK DEF Names
  <2> QED
    BY <2>1, <2>2, UnmountStep DEF Mounting
<1>3. CASE OpenEvent
  <2> DEFINE p == Mounted({"detail", "viewed"})
  <2>1. page' = Ask(p, "detail", TheEvent) /\ Unmount
    BY <1>3 DEF OpenEvent
  <2>2. PageOK(p, Len(versions), purse) /\ DOMAIN p.hooks = {"detail", "viewed"} /\ Fresh(p)
    BY MountedOK DEF Names
  <2> HIDE DEF p
  <2>3. IsKey("detail", TheEvent, Len(versions))
    BY DEF IsKey
  <2>4. PageOK(page', Len(versions), purse) /\ SameData(p, page')
    BY <2>1, <2>2, <2>3, EventFacts, AskOK
  <2>5. DOMAIN page'.hooks = {"detail", "viewed"} /\ Fresh(page')
    BY <2>2, <2>4 DEF SameData, Fresh
  <2> QED
    BY <2>1, <2>4, <2>5, UnmountStep DEF Mounting
<1> QED
  BY <1>1, <1>2, <1>3

-----------------------------------------------------------------------------
LEMMA ConsoleStarts ==
  ASSUME ConsoleInit
  PROVE  ConsoleInv
<1>1. /\ page = Mounted({}) /\ versions = First /\ viewing = None /\ awaited = {} /\ editor = NoEditor /\ put = None
      /\ purse = [p \in Player |-> 0] /\ route = None /\ form = EmptyForm /\ post = None
  BY DEF ConsoleInit, EventInit, PlayerInit
<1>2. PageOK(page, Len(versions), purse) /\ DOMAIN page.hooks = {}
  BY <1>1, MountedOK
<1>3. editor \in EditorState /\ ~editor.confirm
  BY <1>1 DEF NoEditor, Clean, EditorState
<1>4. EventInv
  BY <1>1, <1>2, <1>3 DEF EventInv, EventType, EventBusy, EditorShown, Shows, DiffIsOwn
<1>5. form \in [filled : Player \cup {None}, busy : BOOLEAN] /\ form.filled = None
  BY <1>1 DEF EmptyForm
<1>6. PlayerInv
  BY <1>1, <1>2, <1>5 DEF PlayerInv, Shows, GrantsAsFilledIn
<1> QED
  BY <1>2, <1>4, <1>6 DEF ConsoleInv, Mounting

LEMMA ConsoleSteps ==
  ASSUME ConsoleInv, [ConsoleNext]_consoleVars
  PROVE  ConsoleInv' /\ Forward
<1>1. CASE UNCHANGED consoleVars \/ Connect
  <2>1. UNCHANGED <<page, eventVars, playerVars>>
    BY <1>1 DEF consoleVars, Connect
  <2>2. UNCHANGED <<versions, viewing, awaited, editor, put>>
    BY <2>1 DEF eventVars, viewVars
  <2>3. EventType' /\ (EventBusy' => EventBusy)
    BY <2>2, EventFacts DEF EventType, EventBusy
  <2> QED
    BY <2>1, <2>2, <2>3, EventFacts, EventStep DEF HookStep
<1>2. CASE InEvent(EventTouch \/ EventServer \/ EventFails \/ PutEnds \/ RestoreEnds)
  BY <1>2, EventSteps DEF InEvent
<1>3. CASE InEvent(\E h \in {"detail", "viewed"} : EventHears(h))
  BY <1>3, EventSteps DEF InEvent
<1>4. CASE InPlayers(PlayerTouch \/ PlayerServer \/ PlayerHears \/ PlayerFails \/ GrantEnds)
  BY <1>4, PlayerSteps DEF InPlayers
<1> QED
  BY <1>1, <1>2, <1>3, <1>4, SessionSteps DEF ConsoleNext

LEMMA ConsoleInvHolds == ConsoleSpec => []ConsoleInv /\ [][Forward]_consoleVars
BY ConsoleStarts, ConsoleSteps, PTL DEF ConsoleSpec

(* The diff that an admin confirms never lists as taken back what another      *)
(* admin published (ConfigEditor.tsx rebases the draft), for any configs.    *)
THEOREM DraftsAreOwn == ConsoleSpec => []DiffIsOwn
<1>1. ConsoleInv => DiffIsOwn
  BY DEF ConsoleInv, EventInv
<1> QED
  BY <1>1, ConsoleInvHolds, PTL

(* A grant reaches the player whose profile the form was filled in beside,    *)
(* whatever was looked up, failed or came late meanwhile (Players.tsx).     *)
THEOREM GrantsReachWhoWasShown == ConsoleSpec => []GrantsAsFilledIn
<1>1. ConsoleInv => GrantsAsFilledIn
  BY DEF ConsoleInv, PlayerInv
<1> QED
  BY <1>1, ConsoleInvHolds, PTL

(* No page goes back to an older state of what it shows, however many answers *)
(* are out and in whatever order they come (hooks.ts useAsync).             *)
THEOREM PagesGoForward == ConsoleSpec => NeverGoesBack
BY ConsoleInvHolds, PTL DEF NeverGoesBack, Forward
=============================================================================
