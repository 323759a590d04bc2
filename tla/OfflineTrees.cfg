SPECIFICATION FairSpec
CONSTANTS
  AppPaths <- MCAppPaths
  Listed <- MCListed
  Names <- MCNames
  KindsAt <- MCKindsAt
  Requests = {"mkdir","mknod","symlink","rmdir","link","chmod","chown","utimens","readlink","setxattr"}
  MaxTime = 2
  MaxLog = 1
  MaxEvents = 3
INVARIANTS
  TypeOK
  OneTreePerPath
  SavedIsRegistered
  UpdateMirrors
PROPERTIES
  ConflictSurvivesUpdate
  ResolutionAgrees
  UpdateEnds
CHECK_DEADLOCK FALSE
