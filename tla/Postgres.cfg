SPECIFICATION PostgresSpec
INVARIANTS
  NeverStranded
  ArchivedHasReport
  StoredIsResting
PROPERTIES
  ArtifactsIntact
  FinishedIsLeftByReportsOnly
  RequestsEnd
  RunOverCopiesEnds
CONSTANTS
  Clients = {c1, c2}
  Ops = {"send", "confirm", "cancel", "report", "delete"}
  MaxOps = 3
  MaxRestarts = 1
  MaxLostWrites = 1
  Plans <- AllPlans
  MaxRunFaults = 1
CHECK_DEADLOCK FALSE
