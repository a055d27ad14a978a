SPECIFICATION FairSpec
CONSTANTS
  MaxInputs = 4
  MaxCalls = 3
  MaxFaults = 2
INVARIANTS TypeOK ConnectionSound Delivery
PROPERTIES ImplementsSession Progress
CHECK_DEADLOCK FALSE
