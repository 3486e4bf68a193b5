---------------------------------- MODULE Bot ----------------------------------
(***************************************************************************)
(* The greedy bot of the load tests (load-tests/k6/lib/bot.js) plays on the*)
(* same engine, bundled for k6, without a board: it records a whole heist  *)
(* and replays it for the score that the server has to reproduce.          *)
(***************************************************************************)
EXTENDS Play

CONSTANTS
  Archetype,  \* the opts of heist-flow.js: maxVault, maxChain, greedy
  NoBot

VARIABLES
  bot,    \* the archetype that plays, or NoBot: then a finger does
  gaveUp  \* history: the bot left a vault without a move

botOnly == <<bot, gaveUp>>
botVars == <<playVars, botOnly>>

ASSUME BotAssumption == \A a \in Archetype : a.maxVault \in DOMAIN Vaults /\ a.maxChain \in Nat /\ a.maxChain >= 3

BotInit == PlayInit /\ bot \in Archetype \cup {NoBot} /\ gaveUp = FALSE

-----------------------------------------------------------------------------
(* Legal chains of tiles of these kinds, of n cells. *)
Single(grid, kinds) == {<<i>> : i \in {c \in Cell : grid[c] \in kinds}}
Longer(grid, chains) == UNION {{Append(p, i) : i \in {c \in Cell : CanExtend(grid, p, c)}} : p \in chains}
Chains(grid, kinds, maxLen) ==
  LET chains[n \in 1..maxLen] == IF n = 1 THEN Single(grid, kinds) ELSE Longer(grid, chains[n - 1])
  IN  UNION {chains[n] : n \in 3..maxLen}

(* The search visits neighbours by index and keeps the first of the longest. *)
Before(p, q) == \E n \in DOMAIN p : p[n] < q[n] /\ \A m \in 1..(n - 1) : p[m] = q[m]
Longest(chains) == {p \in chains : \A q \in chains : Len(q) <= Len(p)}
FirstOf(chains) == IF chains = {} THEN <<>> ELSE CHOOSE p \in chains : \A q \in chains : p = q \/ Before(p, q)
LongestChain(grid, kinds, maxLen) == FirstOf(Longest(Chains(grid, kinds, maxLen)))

Needed(s) == {o \in Objective : s.objectives[o] > 0}

(* chooseMove: the first wish of the list that has a chain. *)
Wishes(s, a) ==
  (IF a.greedy /\ s.movesLeft > 6 THEN <<{Diamond, Money}>> ELSE <<>>)
    \o <<Needed(s)>>
    \o (IF s.movesLeft <= 3 THEN <<{Guard}>> ELSE <<>>)
    \o <<Kind>>
Granted(found) == {n \in DOMAIN found : found[n] # <<>>}
FirstGranted(found) == IF Granted(found) = {} THEN <<>> ELSE found[Min(Granted(found))]
ChooseMove(s, a) ==
  FirstGranted([n \in DOMAIN Wishes(s, a) |-> LongestChain(s.grid, Wishes(s, a)[n], a.maxChain)])

-----------------------------------------------------------------------------
(* playRun *)

Playing == bot # NoBot /\ result = NoResult
Stuck == ChooseMove(sim, bot) = <<>>

BotMove ==
  /\ Playing
  /\ sim.state = "PLAYING" /\ ~Stuck
  /\ sim' = Apply(sim, ChooseMove(sim, bot))
  /\ moves' = Append(moves, ChooseMove(sim, bot))
  /\ UNCHANGED <<heistVars, index, vaults, total, touchVars, inputVars, endVars, botOnly>>

(* A bot without a move leaves the vault as it is, and enters the next. *)
VaultOver == Playing /\ (sim.state # "PLAYING" \/ Stuck)
LastOne == sim.state = "BUSTED" \/ index = bot.maxVault

BotVault ==
  /\ VaultOver /\ ~LastOne
  /\ vaults' = Append(vaults, moves)
  /\ moves' = <<>>
  /\ index' = index + 1
  /\ sim' = NewSim(sim.rng, index + 1, boosters)
  /\ gaveUp' = (gaveUp \/ sim.state = "PLAYING")
  /\ UNCHANGED <<heistVars, total, touchVars, inputVars, endVars, bot>>

BotFinish ==
  /\ VaultOver /\ LastOne
  /\ vaults' = Append(vaults, moves)
  /\ moves' = <<>>
  /\ result' = RunReplay(seed, boosters, vaults', sim.state = "CRACKED")
  /\ gaveUp' = (gaveUp \/ sim.state = "PLAYING")
  /\ UNCHANGED <<heistVars, sim, index, total, touchVars, inputVars, overlay, offer, bot>>

ByHand == bot = NoBot /\ PlayNext /\ UNCHANGED botOnly
BotNext == ByHand \/ BotMove \/ BotVault \/ BotFinish
BotSpec == BotInit /\ [][BotNext]_botVars
=============================================================================
