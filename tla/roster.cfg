CONSTANTS
  People = {p1, p2}
  Nicks = {n1, n2, n3}
  Me = Me
  Ignorable = {p2}
  Public = FALSE
  MaxChanges = 2
  MaxDrops = 1
  MaxJoins = 2
SPECIFICATION Spec
CHECK_DEADLOCK FALSE
SYMMETRY Symmetry
INVARIANTS RosterExact BrowserExact
