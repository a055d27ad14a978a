SPECIFICATION FairSpec
CONSTANTS
  MaxCalls = 4
  MaxNative = 3
INVARIANTS TypeOK CaptureSound
PROPERTIES CaptureResolves
CHECK_DEADLOCK FALSE
