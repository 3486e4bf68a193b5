-------------------------------- MODULE EventPage ------------------------------
(***************************************************************************)
(* The event page of the admin console (pages/EventDetail.tsx): the editor *)
(* of the current config (components/ConfigEditor.tsx), the version history*)
(* with its read-only view, and the hand-off that restores an old version. *)
(* The server is the one the console talks to: it appends a version to what*)
(* it has by then, whoever publishes.                                      *)
(***************************************************************************)
EXTENDS AsyncHook, Sequences

CONSTANTS
  Field, Value,   \* what a config says, as far as validate() takes it
  MaxVersion      \* bound: how many versions the event gets

VARIABLES
  versions,   \* the server's configs of the event, never rewritten
  viewing,    \* EventDetail: the version shown read-only
  awaited,    \* the versions that requestRestore is fetching
  editor,     \* ConfigEditor
  put         \* the publication in flight

viewVars == <<viewing, awaited>>
eventVars == <<versions, viewVars, editor, put>>

Config == [Field -> Value]
Sheet(key, n) == [of |-> key, state |-> n]
TheEvent == 0
Base == TheHook("detail").data.state
EditorShown == Shows("detail") /\ TheHook("detail").data # None

(* A draft; as history, the fields that were set since its base was loaded,  *)
(* and the last version that this editor published.                        *)
Clean(config) ==
  [draft |-> config, note |-> FALSE, confirm |-> FALSE, publishing |-> FALSE, own |-> {}, published |-> 0]
NoEditor == Clean(None)

EventGone == viewing' = None /\ awaited' = {} /\ editor' = NoEditor

EventInit(first) ==
  /\ versions = first
  /\ viewing = None /\ awaited = {} /\ editor = NoEditor
  /\ put = None

-----------------------------------------------------------------------------
(* The answers to the page's requests. *)

ServeDetail(f) ==
  /\ f.hook = "detail"
  /\ Serve(f, Sheet(TheEvent, Len(versions)))
  /\ UNCHANGED eventVars
ServeViewed(f) ==
  /\ f.hook = "viewed"
  /\ Serve(f, Sheet(f.key, f.key))
  /\ UNCHANGED eventVars

(* A base of another version resets the draft, the note and the error, not   *)
(* the modal.                                                              *)
Rebased_KeepsDraft(base) == [editor EXCEPT !.own = {}, !.note = FALSE]
Rebased(base) == [editor EXCEPT !.draft = versions[base], !.own = {}, !.note = FALSE]
HearDetail(f) ==
  /\ f.hook = "detail" /\ Answered(f)
  /\ page' = Heard(f)
  /\ editor' = IF page'.hooks["detail"].data = TheHook("detail").data THEN editor
               ELSE IF EditorShown THEN Rebased(page'.hooks["detail"].data.state)
               ELSE Clean(versions[page'.hooks["detail"].data.state])
  /\ UNCHANGED <<versions, viewVars, put>>
HearViewed(f) ==
  /\ f.hook = "viewed" /\ Answered(f)
  /\ page' = Heard(f)
  /\ UNCHANGED eventVars

(* The error state of a page without data offers another try. *)
Retry ==
  /\ Shows("detail") /\ TheHook("detail").error # "none" /\ TheHook("detail").data = None
  /\ ~TheHook("detail").loading /\ Quiet
  /\ page' = Ask(page, "detail", TheEvent)
  /\ UNCHANGED eventVars

-----------------------------------------------------------------------------
(* The version history. *)

Older == IF EditorShown THEN 1..Base - 1 ELSE {}
Uncovered == ~editor.confirm

View(v) ==
  /\ v \in Older /\ Uncovered /\ v # viewing /\ Quiet
  /\ viewing' = v
  /\ page' = Ask(page, "viewed", v)
  /\ UNCHANGED <<versions, awaited, editor, put>>

Unview(p) == IF viewing = None THEN p ELSE Disable(p, "viewed")
ExitReadOnly ==
  /\ viewing # None /\ Uncovered
  /\ viewing' = None
  /\ page' = Unview(page)
  /\ UNCHANGED <<versions, awaited, editor, put>>

(* The config becomes the draft, over the present base; an empty note is     *)
(* filled in.                                                              *)
HandOff(v) ==
  /\ editor' = [editor EXCEPT !.draft = versions[v], !.own = Field, !.note = TRUE]
  /\ viewing' = None
  /\ page' = Unview(page)

(* requestRestore takes what the view shows when it is this version's view,   *)
(* and fetches the version otherwise.                                      *)
InView(v) == viewing = v /\ TheHook("viewed").data # None
RequestRestore(v) ==
  /\ v \in Older /\ Uncovered
  /\ IF InView(v)
     THEN HandOff(TheHook("viewed").data.of) /\ UNCHANGED awaited
     ELSE awaited' = awaited \cup {v} /\ UNCHANGED <<viewing, editor, page>>
  /\ UNCHANGED <<versions, put>>
RestoreFetched(v) ==
  /\ v \in awaited
  /\ awaited' = awaited \ {v}
  /\ HandOff(v)
  /\ UNCHANGED <<versions, put>>
RestoreFails(v) ==
  /\ v \in awaited
  /\ awaited' = awaited \ {v}
  /\ UNCHANGED <<versions, viewing, editor, put, page>>

-----------------------------------------------------------------------------
(* The editor. *)

Editing == EditorShown /\ viewing = None /\ Uncovered
Dirty == editor.draft # versions[Base]
CanPublish == Dirty /\ editor.note /\ ~editor.publishing

Set(k, v) ==
  /\ Editing
  /\ editor' = [editor EXCEPT !.draft[k] = v, !.own = @ \cup {k}]
  /\ UNCHANGED <<versions, viewVars, put, page>>
SetNote ==
  /\ Editing
  /\ editor' = [editor EXCEPT !.note = TRUE]
  /\ UNCHANGED <<versions, viewVars, put, page>>
Discard ==
  /\ Editing /\ Dirty
  /\ editor' = [editor EXCEPT !.draft = versions[Base], !.own = {}]
  /\ UNCHANGED <<versions, viewVars, put, page>>

UpdateEvent ==
  /\ Editing /\ CanPublish
  /\ editor' = [editor EXCEPT !.confirm = TRUE]
  /\ UNCHANGED <<versions, viewVars, put, page>>
CancelUpdate ==
  /\ editor.confirm /\ ~editor.publishing
  /\ editor' = [editor EXCEPT !.confirm = FALSE]
  /\ UNCHANGED <<versions, viewVars, put, page>>

(* publish: the modal checks nothing but that no publication is under way.    *)
(* Bound: none of an editor that is gone is either.                         *)
Publish ==
  /\ editor.confirm /\ ~editor.publishing /\ put = None
  /\ editor' = [editor EXCEPT !.publishing = TRUE]
  /\ put' = [config |-> editor.draft, state |-> "sent", mine |-> TRUE, version |-> 0]
  /\ UNCHANGED <<versions, viewVars, page>>

Appends(config) == Len(versions) < MaxVersion /\ versions' = Append(versions, config)
ServePut ==
  /\ put # None /\ put.state = "sent"
  /\ Appends(put.config)
  /\ put' = [put EXCEPT !.state = "ok", !.version = Len(versions')]
  /\ UNCHANGED <<viewVars, editor, page>>
(* The call fails, or its answer is lost. *)
PutFails ==
  /\ put # None /\ put.state # "failed"
  /\ put' = [put EXCEPT !.state = "failed"]
  /\ UNCHANGED <<versions, viewVars, editor, page>>

(* onPublished leaves the view and reloads, once the modal is closed.        *)
Published_NoReload ==
  /\ put # None /\ put.state = "ok" /\ put.mine
  /\ editor' = [editor EXCEPT !.confirm = FALSE, !.publishing = FALSE, !.published = put.version]
  /\ viewing' = None
  /\ page' = Unview(page)
  /\ put' = None
  /\ UNCHANGED <<versions, awaited>>
Published ==
  /\ put # None /\ put.state = "ok" /\ put.mine
  /\ editor' = [editor EXCEPT !.confirm = FALSE, !.publishing = FALSE, !.published = put.version]
  /\ viewing' = None
  /\ page' = Ask(Unview(page), "detail", TheEvent)
  /\ put' = None
  /\ UNCHANGED <<versions, awaited>>
NotPublished ==
  /\ put # None /\ put.state = "failed" /\ put.mine
  /\ editor' = [editor EXCEPT !.publishing = FALSE]
  /\ put' = None
  /\ UNCHANGED <<versions, viewVars, page>>
Orphaned ==
  /\ put # None /\ put.state # "sent" /\ ~put.mine
  /\ put' = None
  /\ UNCHANGED <<versions, viewVars, editor, page>>

AnotherPublishes(config) ==
  /\ Appends(config)
  /\ UNCHANGED <<viewVars, editor, put, page>>

-----------------------------------------------------------------------------
EventTouch ==
  \/ \E v \in 1..MaxVersion : View(v) \/ RequestRestore(v)
  \/ \E k \in Field, v \in Value : Set(k, v)
  \/ Retry \/ ExitReadOnly \/ SetNote \/ Discard \/ UpdateEvent \/ CancelUpdate \/ Publish
EventServer ==
  \/ \E config \in Config : AnotherPublishes(config)
  \/ ServePut \/ PutFails
EventHears(h) == \E f \in page.flights :
  f.hook = h /\ (ServeDetail(f) \/ ServeViewed(f) \/ HearDetail(f) \/ HearViewed(f))
EventFails == \E f \in page.flights : f.hook \in {"detail", "viewed"} /\ Fail(f, "failed") /\ UNCHANGED eventVars
PutEnds == Published \/ NotPublished \/ Orphaned
RestoreEnds == \E v \in awaited : RestoreFetched(v) \/ RestoreFails(v)
=============================================================================
