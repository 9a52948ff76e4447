CONSTANTS
  Main = main
  Workers = {w1, w2}
  NoOne = nobody
  Threshold = 1
  MaxCalls = 4
  MaxStrays = 1
  Pieces = {"{}", "{:x}"}
  Values = {"v", "{}"}
  MaxPieces = 3
SPECIFICATION FairSpec
INVARIANTS LinesWhole FileFollowsConsole EachShownOnce FormattedByPlace
PROPERTY CallsReturn
CHECK_DEADLOCK FALSE
