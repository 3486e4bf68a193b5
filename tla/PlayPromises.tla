------------------------------ MODULE PlayPromises -----------------------------
(* What the player, the server and the next session rely on while a heist is *)
(* played, by hand or by the bot.                                           *)
EXTENDS Bot

(* Whatever the finger does, and whatever falls under it meanwhile, a chain  *)
(* of three or more that is released is a legal move: no chain the board     *)
(* highlights is dropped, and apply (engine.ts) never throws at one.        *)
TouchIsLegal == pointer # NoFinger /\ Len(path) >= 3 => ValidatePath(sim.grid, path)

(* A path of three that the rules allow, by brute force. *)
LegalMove(grid) == \E a, b, c \in Cell : ValidatePath(grid, <<a, b, c>>)

(* While a vault is being played there is a move, unless reshuffle has used  *)
(* up its attempts; the board's hint and the bot find one exactly when there *)
(* is one, and the hint is legal.                                           *)
MovesCanBeFound ==
  sim.state = "PLAYING" /\ result = NoResult /\ (bot = NoBot => (inputEnabled /\ pointer = NoFinger)) =>
    LET hint == FindHintChain(sim.grid)
        some == LegalMove(sim.grid)
    IN  /\ some \/ sim.reshuffles >= MaxShuffles
        /\ some = (hint # <<>>) /\ (some => ValidatePath(sim.grid, hint))
        /\ \A a \in Archetype : some = (ChooseMove(sim, a) # <<>>)

(* The record is the heist: replayed from the seed it leads to the vault that*)
(* is on the board, tile for tile and draw for draw, over any number of      *)
(* vaults, and once a vault is over to its outcome and loot; the replay of a *)
(* heist that came to its end is never refused (engine.ts runReplay,         *)
(* main.ts rebuildRun), unless the bot gave up on a dead board.             *)
EndsAs(end) == end.state = sim.state /\ end.rng = sim.rng /\ (bot = NoBot => end.total = total)
ReplayReproduces ==
  LET settled == Len(vaults) = index
  IN  ~gaveUp =>
        /\ ~settled /\ sim.state = "PLAYING" => RebuildRun = sim
        /\ settled => EndsAs(Replayed(seed, boosters, vaults))
        /\ result # Invalid

(* The decision modal keeps its word (main.ts onSettled): escaping scores what*)
(* it showed, a player who goes deeper and busts walks away with no less than *)
(* shown, one who cracks the vault and leaves gets no less either.  And the  *)
(* loot of a move is what the board showed while the chain was drawn.       *)
OffersAreKept ==
  [][ /\ sim'.loot > sim.loot /\ bot = NoBot => sim'.loot = sim.loot + PreviewLoot(sim.grid, path)
      /\ result' # result /\ offer # NoOffer =>
           IF overlay = "decision" THEN result'.score = offer.escape
           ELSE result'.score >= IF result'.outcome = "BUSTED" THEN offer.bust ELSE offer.deeper ]_botVars
=============================================================================
