SPECIFICATION Spec
CONSTANTS
  fileA = fileA
  fileB = fileB
  Paths = {fileA}
  Syncers = {"net"}
  MaxTime = 3
  MaxNumber = 2
  MaxPieces = 4
  Requests = {"create", "open", "write", "ftruncate", "truncate", "unlink", "resolve"}
  WorkOnline = TRUE
  MaxServerEdits = 1
  MaxDisconnects = 1
  MaxRestarts = 1
  MayLoseServer = TRUE
INVARIANT TypeOK
CHECK_DEADLOCK FALSE
