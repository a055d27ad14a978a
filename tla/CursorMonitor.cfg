SPECIFICATION CursorSpec
CONSTANTS
  Ids = {1, 2}
  HookAll = {2}
  PositionIds = {1}
  Cursors = {1, 2, 3}
  SystemCursors = {1}
  Bitmap <- MCBitmap
  Positions = {1, 2}
  MaxChanges = 3
  MaxCalls = 3
  MaxFaults = 1
INVARIANTS CursorTypeOK CachedIsKnown ViewsSettle
CHECK_DEADLOCK FALSE
