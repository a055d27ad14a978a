SPECIFICATION FairSpec
CONSTANTS
  Keys = {1, 2}
  TouchIds = {0, 5, 7}
  NSlots = 2
  Screens = {1, 2}
  Buttons = {1}
  Workloads = {"keys", "touch"}
  HoverIdle = 2
  MaxEvents = 4
  MaxWire = 2
INVARIANTS TypeOK 
PROPERTIES RevivedOnlyInWindow MonitorProgress
CHECK_DEADLOCK FALSE
