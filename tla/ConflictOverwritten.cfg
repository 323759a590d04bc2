SPECIFICATION Spec
CONSTANTS
  fileA = fileA
  fileB = fileB
  Paths = {fileA}
  Syncers = {"net"}
  MaxTime = 4
  MaxNumber = 2
  MaxPieces = 3
  Requests = {"create", "open", "write", "unlink"}
  WorkOnline = TRUE
  MaxServerEdits = 1
  MaxDisconnects = 1
  MaxRestarts = 0
  MayLoseServer = FALSE
PROPERTY ConflictKeepsUserVersion
CHECK_DEADLOCK FALSE
