SPECIFICATION Spec
CONSTANTS
  AppPaths <- MCAppPaths
  Listed <- MCListed
  Names <- MCNames
  KindsAt <- MCKindsAt
  Requests = {"mkdir","mknod","symlink","rmdir","link","chmod","chown","utimens","readlink","setxattr"}
  MaxTime = 2
  MaxLog = 1
  MaxEvents = 3
PROPERTY OnlyRemovedIsCleared
CHECK_DEADLOCK FALSE
