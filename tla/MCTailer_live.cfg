SPECIFICATION FairSpec
CONSTANTS
  NumPaths = 1
  Inodes = {i1, i2}
  NoFile = NoFile
  Kinds = {"nl"}
  Glob = FALSE
  MaxLine = 2
  ReadBuf = 2
  RotationCheckEvery = 2
  MaxBytes = 3
  MaxMoves = 2
  MaxErrors = 1
  MaxRestarts = 0
PROPERTIES
  
  FollowsThePath
