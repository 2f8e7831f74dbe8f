SPECIFICATION FairSpec
CONSTANTS
  Callers = {c1, c2}
  NoCaller = NoCaller
  Interval <- MCInterval
  MaxBatch = 2
  MaxTime = 3
  MaxCalls = 3
INVARIANTS
  Conserved
  Throttled
  UnloggedIsRecent
PROPERTIES
  Returns
