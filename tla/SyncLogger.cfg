SPECIFICATION Spec
CONSTANTS
  p = p
  q = q
  one = one
  two = two
  Adders = {one, two}
  Paths = {p, q}
  PathLen <- MCPathLen
  MaxNumber = 3
  MaxPieces = 2
  MaxRestarts = 1
SYMMETRY AddersAlike
INVARIANTS
  TypeOK
  NumberNamesOneChange
PROPERTIES
  ImplementsSyncLog
  AppendKeepsOthers
CHECK_DEADLOCK FALSE
