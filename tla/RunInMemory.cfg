SPECIFICATION FairSpec
CONSTANTS
  Plans <- AllPlans
  MaxRepairAttempts = 1
  EnableFailureRepair = TRUE
  SharedObjects = TRUE
  MayDelete = TRUE
  MaxFaults = 1
CHECK_DEADLOCK FALSE
INVARIANTS
  OneActivation
  OneChainPerFailure
  SucceededRunIsClean
  EndedRunIsDecided
  SandboxesAccountedFor
PROPERTIES
  FinishedStaysFinished
  StartsOnFinishedInputs
  VerdictIsFinal
  VerdictIsReached
