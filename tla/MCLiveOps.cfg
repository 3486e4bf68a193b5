SPECIFICATION LiveOpsSpec
CONSTANTS
  Server <- MCServer
  Operation <- MCOperation
  Agenda <- MCAgenda
  Content <- MCContent
  Daily = daily
  NoConfig = NoConfig
  MaxVersion = 3
  MaxAttempts = 2
  TTL = 1
  MaxNow = 2
  Faults = {"error", "acklost", "kv", "full"}
  s1 = s1
  s2 = s2
  r1 = r1
  r2 = r2
  p1 = p1
  p2 = p2
  daily = daily
  easy = easy
  hard = hard
SYMMETRY MCSymmetry
INVARIANTS
  ReplaysAreFaithful
  CachesAgree
  
  NewRunsPickUpPublished
CHECK_DEADLOCK FALSE
