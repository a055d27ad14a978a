SPECIFICATION Spec
CONSTANTS
  Vks = {16, 160, 65}
  KeyCode <- MCKeyCode
  Buttons = {1, 3}
  Positions = {"p", "q"}
  Deltas <- MCDeltas
  NotFinite = NotFinite
  MaxWheel = 12000
  MaxCalls = 5
INVARIANTS TypeOK  
CHECK_DEADLOCK FALSE
