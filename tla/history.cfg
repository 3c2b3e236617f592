SPECIFICATION HistorySpec
CONSTANTS
  PageSize = 2
  Year = 3
  Screen = 3
  MaxOld = 3
  MaxMessages = 4
  MaxNow = 4
  MaxNotices = 1
CHECK_DEADLOCK FALSE
INVARIANT Piece
PROPERTIES NotMoved FillsUp
