CONSTANTS
  Writers = {w1, w2}
  None = None
  Torn = Torn
  MaxChanges = 3
  MaxCrashes = 2
SPECIFICATION Spec
CHECK_DEADLOCK FALSE
SYMMETRY Symmetry
INVARIANTS NeverTorn NothingLost
PROPERTY RestoredGrows
