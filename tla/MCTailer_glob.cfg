SPECIFICATION Spec
CONSTANTS
  NumPaths = 2
  Inodes = {i1, i2, i3}
  NoFile = NoFile
  Kinds = {"ch"}
  Glob = TRUE
  MaxLine = 1
  ReadBuf = 1
  RotationCheckEvery = 1
  MaxBytes = 3
  MaxMoves = 1
  MaxErrors = 1
  MaxRestarts = 0
SYMMETRY Symmetry

  
PROPERTY
  DrainsBeforeSwitch
