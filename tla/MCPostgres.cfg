SPECIFICATION FairSpec
CONSTANTS
  NumDBs = 1
  Counters = {"xact"}
  None = None
  OtherParts <- MCOtherParts
  ConnectAttempts = 2
  RoleLimit = 1
  MaxRounds = 3
  MaxWork = 2
  MaxFaults = 2
INVARIANTS
  OneSession
  ActivityExact
  ActivityPresent
  LoggedOnChange
  
PROPERTIES
  CollectReturns
