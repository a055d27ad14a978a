SPECIFICATION Spec
CONSTANTS
  Nodes = {field, password, canvas, button}
  Editable = {field, password, canvas}
  Secure = {password}
  Boundless = {canvas}
  NoNode = NoNode
  MaxClicks = 2
  MaxFocusMoves = 1
  Uses = {"immersive", "edit"}
  MaxCalls = 5
INVARIANTS TypeOK WindowSound
PROPERTY Prompt
CHECK_DEADLOCK FALSE
