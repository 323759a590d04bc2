SPECIFICATION Spec
CONSTANTS
  p = p
  q = q
  one = one
  two = two
  Adders = {one, two}
  Paths = {p, q}
  PathLen <- MCPathLen
  MaxNumber = 3
  MaxPieces = 3
  MaxRestarts = 0
PROPERTY PendingSurvivesAppend
CHECK_DEADLOCK FALSE
