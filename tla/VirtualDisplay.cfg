SPECIFICATION DisplayFairSpec
CONSTANTS
  VirtualTargets = {256}
  PhysicalTargets = {0}
  Workers = {"w1"}
  Attempts = 2
  MaxDisplayCalls = 5
  MaxEvents = 2
INVARIANTS DisplayTypeOK 
PROPERTIES CallsTakeEffect CallsReturn
CHECK_DEADLOCK FALSE
