SPECIFICATION Spec
CONSTANTS
  NumPaths = 1
  Inodes = {i1}
  NoFile = NoFile
  Kinds = {"nl", "ch"}
  Glob = FALSE
  MaxLine = 3
  ReadBuf = 2
  RotationCheckEvery = 2
  MaxBytes = 4
  MaxMoves = 1
  MaxErrors = 0
  MaxRestarts = 0
INVARIANT
  NoSplice
