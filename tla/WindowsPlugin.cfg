SPECIFICATION Spec
CONSTANTS
  NPads = 2
  MaxTargets = 3
  MaxCallbacks = 2
  Always = {"alt"}
  Chord <- MCChord
  Plain = {"lctrl"}
  MaxMoves = 2
  Valid = {"fhd", "qhd"}
  Invalid = {"zero"}
  NSlots = 2
  MaxLate = 2
  Uses = {{"pads", "cursor"}, {"keyboard", "cursor"}, {"configs"}, {"orientation"}}
  MaxCalls = 5
  MaxUser = 6
INVARIANTS TypeOK RumbleSound KeysSound LeavesNothing 
CHECK_DEADLOCK FALSE
