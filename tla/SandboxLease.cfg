SPECIFICATION MCSpec
INVARIANTS
  NoSandboxIsLost
  TrailIsTrue
  CompletedIsBacked
PROPERTIES
  NotRedone
  EveryUseEnds
CONSTANTS
  Calls = {c1, c2, c3}
  Leasing = {c1}
  Command = c1
  Scripts = {c2, c3}
  Uncalled = c3
  Paths = {p, q}
  MaxAttempts = 2
  MaxFaults = 1
  CreateRetries = 2
  Variants = 2
  MaxStrays = 1
CHECK_DEADLOCK FALSE
