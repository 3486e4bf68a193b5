------------------------------- MODULE MCProfile -------------------------------
(* Three requests against one profile, each free to carry any operation of a *)
(* workload that touches every balance; lives are scarce (2), so regeneration,*)
(* charging and buying lives meet.                                            *)
EXTENDS ProfileBooks, TLC

CONSTANTS r1, r2, r3
MCRequest == {r1, r2, r3}
MCSymmetry == Permutations(MCRequest)

NoBoosters == [b \in Booster |-> 0]
MCWorkload ==
  { [type |-> "purchase", item |-> "life"],
    [type |-> "purchase", item |-> "shield"],
    [type |-> "start", uses |-> {"shield"}, livesCost |-> 2],
    [type |-> "settle", score |-> 7, loot |-> 5],
    [type |-> "credit", coins |-> 10, boosters |-> [NoBoosters EXCEPT !["shield"] = 1]],
    [type |-> "grant", coins |-> -100, lives |-> -1, boosters |-> NoBoosters] }
=============================================================================
