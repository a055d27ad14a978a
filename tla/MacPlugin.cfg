SPECIFICATION FairSpec
CONSTANTS
  Keys = {"tab"}
  ChordOf <- MCChordOf
  Owners = {"a", "b"}
  MaxChallenge = 2
  Procs = {"p", "q"}
  UserMaps <- MCUserMaps
  MaxFaults = 2
  MaxCrashes = 2
  MaxRemaps = 1
  Uses = {"caps", "shortcuts"}
  MaxCalls <- MCMaxCalls
  MaxUser = 4
INVARIANTS TypeOK ShortcutsSound RemapSound
 
CHECK_DEADLOCK FALSE
