SPECIFICATION FairSpec
CONSTANTS
  Ids = {a, b}
  None = None
  Asked = Asked
  UsesPreRead = TRUE
  MaxParallel = 1
  MaxCpu = 2
  MaxMoves = 3
  MaxErrors = 1
  MaxRounds = 4
INVARIANTS
  
  
  WholeInterval
  EntryTrue
PROPERTIES
  RoundEnds
