SPECIFICATION MCSpec
CONSTANTS
  Cancellers = {c1, c2}
  MaxFaults = 1
  Streamed = {mine, other}
  Turns = {turn}
  Mine = mine
  Workers = 2
  MaxRuns = 1
  MaxRows = 1
CHECK_DEADLOCK FALSE
INVARIANTS
  EndIsTrue
  AnswerIsBacked
PROPERTIES
  CancelIsHonoured
  ReaderIsTold
  UnavailableOnlyWhileBuilding
