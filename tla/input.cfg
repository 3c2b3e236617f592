CONSTANTS
  Convs = {c1, c2}
  Words = {"part", "close"}
  Uploads = {f1}
  UploadFaults = {"network"}
  MaxHistory = 1
  MaxText = 2
  MaxActs = 5
  MaxMounts = 2
SPECIFICATION InputSpec
CHECK_DEADLOCK FALSE
INVARIANTS TextStays SentWhereTyped
