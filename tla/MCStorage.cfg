SPECIFICATION FairSpec
CONSTANTS
  Length <- MCLength
  Wildcard = "*"
  NoEntry = NoEntry
  Points <- MCPoints
  Tables <- MCTables
  Mountable <- MCMountable
  Config <- MCConfig
  NoCall = 0
  NoPattern = NoPattern
  NoDev = NoDev
  MaxRounds = 2
  MaxRemounts = 1
  MaxRestarts = 1
INVARIANTS
  OneCallPerPath
  SizeTrue
  
  FailureLoggedOnce
  CountedOnce
PROPERTIES
  RoundEnds
