--------------------------------- MODULE MCPlay --------------------------------
(***************************************************************************)
(* Two vaults of two columns and three rows, with keys, cash, a guard and a*)
(* lock.  The seeds start at different places of one stream of draws.      *)
(***************************************************************************)
EXTENDS PlayPromises

CONSTANTS f1

MCFinger == {f1}
MCOut == [k \in 0..22 |-> <<0, 7, 2, 4, 9, 1, 3, 8, 10, 0, 5, 2, 6, 1, 11, 4, 0, 3, 9, 2, 5, 7, 1>>[k + 1]]
MCWeights(key, money, guard) ==
  [t \in Kind |-> CASE t = Key -> key [] t = Money -> money [] t = Guard -> guard [] OTHER -> 0]
Needs(key) == [o \in Objective |-> IF o = Key THEN key ELSE 0]
MCVaults ==
  << [moves |-> 2, objectives |-> Needs(4), locks |-> 1, weights |-> MCWeights(2, 1, 1)],
     [moves |-> 1, objectives |-> Needs(3), locks |-> 0, weights |-> MCWeights(2, 1, 0)] >>
MCMultipliers == <<10, 15>>
MCSeed == {1, 2, 10, 17, 18, 19, 22}
MCBoosters == {{}, {"shield"}}
MCArchetype == { [maxVault |-> 1, maxChain |-> 5, greedy |-> FALSE],
                 [maxVault |-> 2, maxChain |-> 6, greedy |-> TRUE] }
=============================================================================
