SPECIFICATION FairHeistSpec
CONSTANTS
  MaxLives = 5
  LifeRegen = 0
  Backend = "dynamodb"
  Request <- ClaimRequest
  Workload <- MCWorkload
  Plan <- ClaimPlan
  NoOp = NoOp
  Invalid = Invalid
  MaxRetries = 2
  MaxNow = 1
  EndsAt = 2
  RunTTL = 3
  Grace = 0
  Faults = {"error", "acklost"}
  s1 = s1
  s2 = s2
  f1 = f1
  f2 = f2
  c1 = c1
  c2 = c2
  p1 = p1
INVARIANTS
  PaidOnce
PROPERTIES
  EveryRequestAnswered
CHECK_DEADLOCK FALSE
