SPECIFICATION Spec
CONSTANTS
  NumPaths = 1
  Inodes = {i1}
  NoFile = NoFile
  Kinds = {"ch", "nl"}
  Glob = FALSE
  MaxLine = 3
  ReadBuf = 2
  RotationCheckEvery = 4
  MaxBytes = 4
  MaxMoves = 0
  MaxErrors = 0
  MaxRestarts = 0
INVARIANT
  OneLinePerMessage
