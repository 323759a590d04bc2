SPECIFICATION FairSpec
CONSTANTS
  user = user
  Requests = {user}
  Protocols = {"stream", "unknown"}
  MaxDescriptors = 1
  MaxToggles = 2
  MaxSignals = 1
  MaxPipes = 1
  MaxMounts = 2
INVARIANTS
  TypeOK
  EveryWaitHasAChild
  
PROPERTIES
  ComesBack
  GoesOffline
CHECK_DEADLOCK FALSE
