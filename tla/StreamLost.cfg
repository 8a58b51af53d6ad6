SPECIFICATION Spec
CONSTANTS
  Candidates = {k1, k2}
  CandidateEvents = 2
  RunEvents = 2
  PageLimit = 2
  MaxCursor = 0
  Repositories = {"postgres"}
CHECK_DEADLOCK FALSE
INVARIANTS
  EveryEventRecorded
