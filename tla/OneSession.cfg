SPECIFICATION Spec
CONSTANTS
  fileA = fileA
  fileB = fileB
  Paths = {fileA}
  Syncers = {"net"}
  MaxTime = 5
  MaxNumber = 3
  MaxPieces = 4
  Requests = {"create", "open", "write", "unlink"}
  WorkOnline = FALSE
  MaxServerEdits = 2
  MaxDisconnects = 1
  MaxRestarts = 1
  MayLoseServer = FALSE
INVARIANT NoFalseConflict
PROPERTY NoBlindOverwrite
CHECK_DEADLOCK FALSE
