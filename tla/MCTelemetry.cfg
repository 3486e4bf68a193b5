SPECIFICATION FairTelemetrySpec
CONSTANTS
  Event <- MCEvent
  Worker <- MCWorker
  NoEvent = NoEvent
  Buffer = 1
  NumSinks = 2
  MaxAttempts = 2
  e1 = e1
  e2 = e2
  e3 = e3
  w1 = w1
  w2 = w2
INVARIANTS
  EveryEventSomewhere
  LossIsCounted
  CleanShutdownLosesNothing
  NoPanicInTime
PROPERTIES
  AcceptedIsSettled
CHECK_DEADLOCK FALSE
