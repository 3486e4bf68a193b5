-------------------------------- MODULE MCClient -------------------------------
(***************************************************************************)
(* Two heists of two vaults, two functions suspended at a time.            *)
(***************************************************************************)
EXTENDS ClientPromises
=============================================================================
