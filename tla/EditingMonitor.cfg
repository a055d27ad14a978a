SPECIFICATION FairSpec
CONSTANTS
  MaxSessions = 2
  MaxRequests = 3
  MaxFaults = 1
INVARIANTS TypeOK DecisionsSound
PROPERTIES AnswersAndStops
CHECK_DEADLOCK FALSE
