-------------------------------- MODULE MCConsole -------------------------------
(***************************************************************************)
(* An event that begins with one version and gets two more, and two        *)
(* players.                                                                *)
(***************************************************************************)
EXTENDS ConsolePromises

CONSTANTS p1, p2

MCPlayer == {p1, p2}
MCTour == {{"event"}, {"players"}}
MCFirst == << <<0>> >>
=============================================================================
