SPECIFICATION BotSpec
CONSTANTS
  W = 2
  H = 3
  Period = 23
  Out <- MCOut
  Vaults <- MCVaults
  Multipliers <- MCMultipliers
  LootMultiplier = 12
  BustPenalty = 5
  Difficulty = 100
  MaxShuffles = 2
  Seed <- MCSeed
  Boosters <- MCBoosters
  Finger <- MCFinger
  Archetype <- MCArchetype
  f1 = f1
  NoFinger = NoFinger
  NoBot = NoBot
INVARIANTS
  TouchIsLegal
  MovesCanBeFound
  ReplayReproduces
PROPERTY
  OffersAreKept
CHECK_DEADLOCK FALSE
