SPECIFICATION Spec
CONSTANTS
  MaxAttempts = 2
  RowCap = 1
  HighFrequencyMaxRows = 1
  MaxXAxisLabels = 12
  DefaultMaxResults = 2
INVARIANTS
  SubtasksAreSound
  ReportIsTrue
  FilesAreComplete
CHECK_DEADLOCK FALSE
