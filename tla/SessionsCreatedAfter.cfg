SPECIFICATION ClientsSpec
CONSTANTS
  Callers = {a, b, c}
  MaxRetries = 1
  MaxConcurrency = 2
  MaxFaults = 1
  MaxRevokes = 1
  MaxExpiries = 1
  Mine = {m1, m2, m3}
  Theirs = {t1}
  PageSize = 1
  Times = {3}
  MaxTime = 6
  MaxLost = 1
  Runs = {r1}
  SubtaskIds = {s1}
  ApiPageLimit = 2
  MaxRecorded = 3
  MaxStored = 1
  MaxApiFaults = 1
  AgentTools = {"memory_write", "run_skill_script"}
  MaxQuestions = 2
  MaxBreaks = 1
INVARIANT
  OlderAreLeftOut
CHECK_DEADLOCK FALSE
