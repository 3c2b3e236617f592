SPECIFICATION Spec
CONSTANTS
  Callers = {f1, f2, page}
  Forms = {f1, f2}
  Values = {v1, v2, bad}
  Invalid = {bad}
  None = None
  Faults = {}
  f1 = f1
  f2 = f2
  page = page
  v1 = v1
  v2 = v2
  bad = bad
CHECK_DEADLOCK FALSE
INVARIANT SuccessIsTrue
PROPERTIES SubmitIsSent PerformEnds SingleFlightSpec
