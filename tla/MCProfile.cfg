SPECIFICATION ProfileSpec
CONSTANTS
  MaxLives = 2
  LifeRegen = 2
  Backend = "memory"
  Request <- MCRequest
  Workload <- MCWorkload
  NoOp = NoOp
  MaxRetries = 2
  MaxNow = 4
  Faults = {"error", "acklost"}
  r1 = r1
  r2 = r2
  r3 = r3
SYMMETRY MCSymmetry
INVARIANTS
  ProfileTypeOK
  BooksBalance
  RegenNeverOutrunsClock
  FullAfterRest
  ReplayAgrees
PROPERTY
  Linearizable
CHECK_DEADLOCK FALSE
