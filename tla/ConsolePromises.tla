---------------------------- MODULE ConsolePromises ----------------------------
(* What an admin can rely on while versions are published, by this console  *)
(* and by others, and players are looked up.                                *)
EXTENDS Console

(* However late or out of order answers come, a page never goes back to an    *)
(* older state of what it shows (hooks.ts "aborts stale requests").         *)
NeverGoesBack ==
  [][\A h \in DOMAIN page.hooks \cap DOMAIN page'.hooks :
       LET old == TheHook(h).data
           new == page'.hooks[h].data
       IN  old # None /\ new # None /\ old.of = new.of => new.state >= old.state]_consoleVars

(* The diff that a publication is confirmed on lists no change that nobody    *)
(* made since its base was loaded: what another admin published meanwhile,   *)
(* once it is the base, is not in the diff as taken back (ConfigEditor.tsx). *)
DiffIsOwn ==
  EditorShown => \A k \in Field : editor.draft[k] # versions[Base][k] => k \in editor.own

(* A grant goes to the player whose profile the form was filled in beside,    *)
(* whichever lookups failed or came late meanwhile (Players.tsx GrantForm).  *)
GrantsAsFilledIn == post # None => post.to = post.filled

(* Spinners end, and after a publication the page comes to show it or       *)
(* something newer, unless its reload fails (EventDetail.tsx onPublished).   *)
ConsoleSettles ==
  /\ []<>~editor.publishing
  /\ []<>~form.busy
  /\ []<>(Shows("detail") => ~TheHook("detail").loading)
  /\ []<>(EditorShown => Base >= editor.published \/ TheHook("detail").error # "none")

(* admin/README.md: "Restore" on an older version loads its fields into the   *)
(* editor: what the button hands over at once is the version it is of.       *)
RestoreLoadsItsVersion ==
  [][\A v \in Older : RequestRestore(v) /\ editor' # editor => editor'.draft = versions[v]]_consoleVars
=============================================================================
