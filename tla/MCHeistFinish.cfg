SPECIFICATION HeistSpec
CONSTANTS
  MaxLives = 5
  LifeRegen = 0
  Backend = "dynamodb"
  Request <- FinishRequest
  Workload <- MCWorkload
  Plan <- FinishPlan
  NoOp = NoOp
  Invalid = Invalid
  MaxRetries = 2
  MaxNow = 3
  EndsAt = 2
  RunTTL = 3
  Grace = 0
  Faults = {"error"}
  s1 = s1
  s2 = s2
  f1 = f1
  f2 = f2
  c1 = c1
  c2 = c2
  p1 = p1
INVARIANTS
  ScoredOnce
  RunsArePaidFor
  OneOwnerPerKey
  ReplaysAreTrue
  AnswersAreHonest
CHECK_DEADLOCK FALSE
