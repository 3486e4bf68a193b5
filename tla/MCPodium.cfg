SPECIFICATION FairPodiumSpec
CONSTANTS
  Server <- MCWorker
  Worker <- MCWorker
  Operation <- MCOperation
  Agenda <- MCAgenda
  Content <- MCContent
  Daily = hard
  NoConfig = NoConfig
  MaxVersion = 2
  MaxAttempts = 1
  TTL = 1
  MaxNow = 2
  EndsAt = 1
  Faults = {}
  Outage = {1}
  Player <- MCPlayer
  Arrival <- MCArrival
  PodiumSize = 2
  w1 = w1
  w2 = w2
  c1 = c1
  p1 = p1
  easy = easy
  hard = hard
INVARIANTS
  FlagMeansPaid
PROPERTIES
  
  EventuallyDistributed
CHECK_DEADLOCK FALSE
