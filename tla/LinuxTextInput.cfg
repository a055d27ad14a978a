SPECIFICATION TextFairSpec
CONSTANTS
  Engines = {"e1", "e2"}
  Contexts = {"c1", "c2"}
  MaxOps = 3
  MaxUser = 2
  MaxFaults = 2
INVARIANTS TextTypeOK TransactionSound
 
CHECK_DEADLOCK FALSE
