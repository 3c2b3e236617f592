CONSTANTS
  MaxRequests = 2
  MaxLosses = 2
  MaxChanges = 1
  None = None
SPECIFICATION FairSpec
CHECK_DEADLOCK FALSE
INVARIANTS Once ShowsState
PROPERTY QueueDrains
