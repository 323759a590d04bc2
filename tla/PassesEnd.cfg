SPECIFICATION FairSpec
CONSTANTS
  fileA = fileA
  fileB = fileB
  Paths = {fileA, fileB}
  Syncers = {"lazy", "net"}
  MaxTime = 3
  MaxNumber = 3
  MaxPieces = 3
  Requests = {"create", "rename"}
  WorkOnline = FALSE
  MaxServerEdits = 0
  MaxDisconnects = 1
  MaxRestarts = 0
  MayLoseServer = FALSE
PROPERTY
  PassesEnd
  WaitingChangeIsTaken
CHECK_DEADLOCK FALSE
