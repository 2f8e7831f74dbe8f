SPECIFICATION Spec
CONSTANTS
  NumPaths = 1
  Inodes = {i1, i2, i3}
  NoFile = NoFile
  Kinds = {"ch", "nl", "cr"}
  Glob = FALSE
  MaxLine = 3
  ReadBuf = 2
  RotationCheckEvery = 2
  MaxBytes = 5
  MaxMoves = 0
  MaxErrors = 1
  MaxRestarts = 0
SYMMETRY Symmetry
INVARIANTS
  BufferBounded
  NothingLost
  LinesExact
