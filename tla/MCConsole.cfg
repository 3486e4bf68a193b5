SPECIFICATION ConsoleSpec
CONSTANTS
  Field = {1}
  Value = {0, 1}
  MaxVersion = 3
  First <- MCFirst
  Tour <- MCTour
  Player <- MCPlayer
  p1 = p1
  p2 = p2
  Typo = Typo
  MaxGrants = 1
  MaxFlights = 2
  None = None
INVARIANTS
  DiffIsOwn
  GrantsAsFilledIn

  
  
CHECK_DEADLOCK FALSE
