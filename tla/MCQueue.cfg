SPECIFICATION FairQueueSpec
CONSTANTS
  Item <- MCItem
  What <- MCWhat
  Player <- MCPlayer
  Poller <- MCPoller
  Runs <- MCRuns
  MaxSends = 2
  MaxReceives = 2
  MaxTries = 2
  BatchSize = 2
  MaxFaults = 1
  start = start
  finish = finish
  p1 = p1
  p2 = p2
  w1 = w1
  w2 = w2
INVARIANTS
  NothingUncounted
  NothingInflated
PROPERTY
  EveryMessageEnds
CHECK_DEADLOCK FALSE
