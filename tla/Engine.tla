--------------------------------- MODULE Engine --------------------------------
(***************************************************************************)
(* The puzzle engine of the game client: client/src/engine.  A vault is a  *)
(* record, a move a function from vaults to vaults.                        *)
(*                                                                         *)
(* The generator is a counter with an output function, as mulberry32 is:   *)
(* rng counts the draws from the seed, Out is what each of them yields.    *)
(* Multipliers and the penalty are in tenths, the difficulty in percent.   *)
(***************************************************************************)
EXTENDS Integers, Sequences, FiniteSets, FiniteSetsExt

CONSTANTS
  W, H,          \* Config.grid
  Period, Out,   \* the generator: draw k yields Out[k % Period]
  Vaults,        \* Config.vaults
  Multipliers,   \* Config.vaultMultipliers
  LootMultiplier, BustPenalty, Difficulty,
  MaxShuffles    \* the attempts of reshuffle: 100

Key == 0
Laser == 1
Camera == 2
Money == 3
Diamond == 4
Guard == 5
Lock == 6
Empty == -1
Kind == 0..5
Tile == Kind \cup {Lock}
Objective == {Key, Laser, Camera}

Cell == 0..(W * H - 1)
Row(i) == i \div W
Col(i) == i % W
Near(a, b) == a - b \in -1..1
Touching(i, j) == i # j /\ Near(Row(i), Row(j)) /\ Near(Col(i), Col(j))
Beside(i, j) == Touching(i, j) /\ (Row(i) = Row(j) \/ Col(i) = Col(j))
Chainable(t) == t \notin {Lock, Empty}

ASSUME EngineAssumption ==
  /\ W \in Nat \ {0} /\ H \in Nat \ {0}
  /\ Period \in Nat \ {0} /\ Out \in [0..(Period - 1) -> Nat]
  /\ Vaults \in Seq([moves : Nat, objectives : [Objective -> Nat], locks : Nat, weights : [Kind -> Nat]])
  /\ Vaults # <<>>
  /\ Multipliers \in Seq(Nat) /\ Len(Multipliers) = Len(Vaults)
  /\ LootMultiplier \in Nat /\ BustPenalty \in 0..10
  /\ MaxShuffles \in Nat \ {0}

-----------------------------------------------------------------------------
(* Drawing.                                                                 *)

UpTo(weights) ==
  LET upTo[t \in Kind] == weights[t] + (IF t = 0 THEN 0 ELSE upTo[t - 1])
  IN  upTo
NextInt(k, n) == Out[k % Period] % n

(* randomTile, for the k-th draw: the first kind whose weight, with those of  *)
(* the kinds before it, exceeds the number drawn.                          *)
RandomTile(weights, k) ==
  LET r == NextInt(k, UpTo(weights)[Guard])
      exceeds == {t \in Kind : r < UpTo(weights)[t]}
  IN  IF exceeds = {} THEN Money ELSE Min(exceeds)

(* New tiles for the cells that `turn` is a function on: the draw that each   *)
(* of them gets, row by row or column by column.                           *)
ByRow(S) == [i \in S |-> Cardinality({j \in S : j <= i})]
ByColumn(S) == [i \in S |-> Cardinality({j \in S : Col(j) < Col(i) \/ (Col(j) = Col(i) /\ j <= i)})]
Drawn(sim, turn) ==
  [sim EXCEPT !.grid = [i \in Cell |-> IF i \in DOMAIN turn THEN RandomTile(sim.weights, sim.rng + turn[i])
                                                            ELSE sim.grid[i]],
              !.rng = @ + Cardinality(DOMAIN turn)]

-----------------------------------------------------------------------------
(* Looking at the board.                                                    *)

ChainPct(n) == CASE n >= 6 -> 300 [] n = 5 -> 200 [] n = 4 -> 150 [] OTHER -> 100
BaseLoot == [t \in Tile |-> <<40, 40, 40, 100, 250, 30, 0>>[t + 1]]
PreviewLoot(grid, path) ==
  IF Len(path) < 3 THEN 0
  ELSE (Len(path) * BaseLoot[grid[path[1]]] * ChainPct(Len(path))) \div 100

Alike(grid, i) == {j \in Cell : Touching(i, j) /\ grid[j] = grid[i]}
HasAnyMove_Pairs(grid) == \E i \in Cell : Chainable(grid[i]) /\ Alike(grid, i) # {}
HasAnyMove(grid) == \E i \in Cell : Chainable(grid[i]) /\ Cardinality(Alike(grid, i)) >= 2

ValidatePath(grid, path) ==
  /\ Len(path) >= 3
  /\ \A n \in DOMAIN path :
       /\ path[n] \in Cell
       /\ \A m \in 1..(n - 1) : path[m] # path[n]
       /\ Chainable(grid[path[n]])
       /\ n > 1 => grid[path[n]] = grid[path[1]] /\ Touching(path[n - 1], path[n])

CanExtend_FromTheFirst(grid, path, next) ==
  /\ \A n \in DOMAIN path : path[n] # next
  /\ Chainable(grid[next])
  /\ path # <<>> => grid[path[1]] = grid[next] /\ Touching(path[1], next)
CanExtend(grid, path, next) ==
  /\ \A n \in DOMAIN path : path[n] # next
  /\ Chainable(grid[next])
  /\ path # <<>> => grid[path[1]] = grid[next] /\ Touching(path[Len(path)], next)

-----------------------------------------------------------------------------
(* A vault.                                                                 *)

(* At most MaxShuffles attempts, then whatever the last one gave. *)
Attempt(sim, n) ==
  IF n > 1 /\ HasAnyMove(sim.grid) THEN sim
  ELSE [Drawn(sim, ByRow({i \in Cell : sim.grid[i] # Lock})) EXCEPT !.reshuffles = @ + 1]
Reshuffle(sim) ==
  LET attempt[n \in 0..MaxShuffles] == IF n = 0 THEN sim ELSE Attempt(attempt[n - 1], n)
  IN  attempt[MaxShuffles]
Playable(sim) == IF HasAnyMove(sim.grid) THEN sim ELSE Reshuffle(sim)

(* Draws until each lock has found a cell that holds none. *)
PlaceLock(sim) ==
  LET Spot(k) == NextInt(sim.rng + k, W * H)
      draws == CHOOSE k \in 1..Period : /\ sim.grid[Spot(k)] # Lock
                                        /\ \A j \in 1..(k - 1) : sim.grid[Spot(j)] = Lock
  IN  [sim EXCEPT !.grid[Spot(draws)] = Lock, !.rng = @ + draws]
PlaceLocks(sim, locks) ==
  LET placed[n \in 0..locks] == IF n = 0 THEN sim ELSE PlaceLock(placed[n - 1])
  IN  placed[locks]

ScaledObjectives(base) == [o \in Objective |-> IF base[o] = 0 THEN 0 ELSE (base[o] * Difficulty + 50) \div 100]

(* new Sim(rng, cfg, vaultIndex, boosters); vaults count from 1 *)
NewSim(rng, v, boosters) ==
  LET empty == [grid |-> [i \in Cell |-> Empty],
                objectives |-> ScaledObjectives(Vaults[v].objectives),
                movesLeft |-> Vaults[v].moves + (IF "extra_moves" \in boosters THEN 3 ELSE 0),
                loot |-> 0, state |-> "PLAYING", reshuffles |-> 0,
                rng |-> rng, weights |-> Vaults[v].weights]
  IN  Playable(PlaceLocks(Drawn(empty, ByRow(Cell)), Vaults[v].locks))

-----------------------------------------------------------------------------
(* A move.                                                                  *)

Cells(path) == {path[n] : n \in DOMAIN path}
Unlocked(grid, path) == {i \in Cell : grid[i] = Lock /\ \E j \in Cells(path) : Beside(i, j)}

(* Where the tile of cell i falls to, past the empty cells under it. *)
LandsAt(grid, i) ==
  i + W * Cardinality({j \in Cell : Col(j) = Col(i) /\ j > i /\ grid[j] = Empty})
Collapsed(grid) ==
  [i \in Cell |-> LET from == {j \in Cell : grid[j] # Empty /\ LandsAt(grid, j) = i}
                  IN  IF from = {} THEN Empty ELSE grid[CHOOSE j \in from : TRUE]]
Refill(sim) == Drawn(sim, ByColumn({i \in Cell : sim.grid[i] = Empty}))
CollapseAndRefill(sim) == Refill([sim EXCEPT !.grid = Collapsed(@)])

Counted(sim, t, n) ==
  [sim EXCEPT !.objectives = [o \in Objective |-> IF o # t THEN @[o] ELSE IF @[o] > n THEN @[o] - n ELSE 0],
              !.movesLeft = IF t = Guard THEN @ ELSE @ - 1]
Cleared(sim, path) ==
  [sim EXCEPT !.grid = [i \in Cell |-> IF i \in Cells(path) THEN Empty ELSE @[i]]]

Judged(sim) ==
  IF \A o \in Objective : sim.objectives[o] = 0 THEN [sim EXCEPT !.state = "CRACKED"]
  ELSE IF sim.movesLeft <= 0 THEN [sim EXCEPT !.state = "BUSTED"]
  ELSE Playable(sim)

(* Sim.apply, of a path that validatePath accepts *)
Apply(sim, path) ==
  LET counted == [Counted(sim, sim.grid[path[1]], Len(path)) EXCEPT !.loot = @ + PreviewLoot(sim.grid, path)]
      opened == Drawn(counted, ByRow(Unlocked(sim.grid, path)))
  IN  Judged(CollapseAndRefill(Cleared(opened, path)))

-----------------------------------------------------------------------------
(* Replays and scores.                                                      *)

(* The vault after the moves, or Refused when apply throws on one. *)
Refused == [state |-> "REFUSED"]
PlayOn(sim, move) ==
  IF sim.state = "PLAYING" /\ ValidatePath(sim.grid, move) THEN Apply(sim, move) ELSE Refused
Played(sim, moves) ==
  LET after[n \in 0..Len(moves)] == IF n = 0 THEN sim ELSE PlayOn(after[n - 1], moves[n])
  IN  after[Len(moves)]

RoundHalfUp(n, d) == (2 * n + d) \div (2 * d)
EscapeScore(loot, reached) == RoundHalfUp(loot * Multipliers[reached] * LootMultiplier, 100)
BustScore(loot, reached, boosters) ==
  LET mult == IF reached >= 2 THEN Multipliers[reached - 1] ELSE 10
      kept == 20 - BustPenalty * (IF "shield" \in boosters THEN 1 ELSE 2)
  IN  RoundHalfUp(loot * mult * kept * LootMultiplier, 2000)

Invalid == [outcome |-> "INVALID"]

(* The vaults of a replay, one after the other on one generator. *)
Ended(sim, total) ==
  IF sim.state \notin {"CRACKED", "BUSTED"} THEN Refused
  ELSE [state |-> sim.state, rng |-> sim.rng, total |-> total + sim.loot]
Begun(seed) == [state |-> "CRACKED", rng |-> seed, total |-> 0]
NextVault(last, v, boosters, moves) ==
  IF last.state # "CRACKED" THEN Refused
  ELSE Ended(Played(NewSim(last.rng, v, boosters), moves), last.total)
Replayed(seed, boosters, vaults) ==
  LET vault[v \in 0..Len(vaults)] ==
        IF v = 0 THEN Begun(seed) ELSE NextVault(vault[v - 1], v, boosters, vaults[v])
  IN  vault[Len(vaults)]

Verdict(end, reached, escaped, boosters) ==
  LET Scored(outcome, score) == [outcome |-> outcome, loot |-> end.total, reached |-> reached, score |-> score]
  IN  CASE reached = 0 \/ reached > Len(Vaults) \/ end.state = "REFUSED" -> Invalid
        [] end.state = "CRACKED" /\ (escaped \/ reached = Len(Vaults)) ->
             Scored("ESCAPED", EscapeScore(end.total, reached))
        [] end.state = "BUSTED" /\ ~escaped -> Scored("BUSTED", BustScore(end.total, reached, boosters))
        [] OTHER -> Invalid
RunReplay(seed, boosters, vaults, escaped) ==
  Verdict(Replayed(seed, boosters, vaults), Len(vaults), escaped, boosters)
=============================================================================
