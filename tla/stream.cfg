CONSTANTS
  Emitters = {g1}
  Subs = {s1, s2}
  BufferSize = 1
  MaxChanges = 2
  None = None
SPECIFICATION FairSpec
INVARIANTS NoPanic ShowsState
PROPERTY EmitEnds
