SPECIFICATION Spec
INVARIANTS
  ConfirmHasPreview
CONSTANTS
  Clients = {c1}
  Ops = {"send", "confirm"}
  MaxOps = 2
  MaxRestarts = 0
  MaxLostWrites = 0
CHECK_DEADLOCK FALSE
