SPECIFICATION ClientSpec
CONSTANTS
  Vaults = 2
  Lives = 2
  Slots = 2
  Browsing = 2
  Expiring = {1}
  None = None
INVARIANTS
  PlayIsPersisted
  
  NoGhosts
PROPERTY
  SpinnersEnd
