SPECIFICATION Spec
CONSTANTS
  Plans <- ForkOnly
  MaxRepairAttempts = 1
  EnableFailureRepair = FALSE
  SharedObjects = FALSE
  MayDelete = FALSE
  MaxFaults = 0
CHECK_DEADLOCK FALSE
PROPERTIES
  SucceededTaskIsFinal
