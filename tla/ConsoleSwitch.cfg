SPECIFICATION DisplaySpec
CONSTANTS
  VirtualTargets = {256}
  PhysicalTargets = {0}
  Workers = {"w1"}
  Attempts = 2
  MaxDisplayCalls = 3
  MaxEvents = 2
INVARIANT OneTsconAtATime
CHECK_DEADLOCK FALSE
