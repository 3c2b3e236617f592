CONSTANTS
  Procs = {g1, g2, g3}
  Clients = {c1, c2}
  Chans = {h1, h2, h3, h4}
  Commands <- AllCommands
  MaxCommands = 2
  None = None
SPECIFICATION FairSpec
CHECK_DEADLOCK FALSE
INVARIANTS LoopsCanBeStopped SessionIsTrue
PROPERTIES DisconnectIsFinal LoopRepairs
