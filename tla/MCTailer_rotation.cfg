SPECIFICATION Spec
CONSTANTS
  NumPaths = 1
  Inodes = {i1, i2, i3}
  NoFile = NoFile
  Kinds = {"ch", "nl"}
  Glob = FALSE
  MaxLine = 2
  ReadBuf = 2
  RotationCheckEvery = 2
  MaxBytes = 3
  MaxMoves = 2
  MaxErrors = 1
  MaxRestarts = 1
SYMMETRY Symmetry
INVARIANTS
  BufferIsTail
  DuplicateOnlyAfterFault
  OldOnlyAfterFault
PROPERTY
  ImplementsLineStream
