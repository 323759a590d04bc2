SPECIFICATION Spec
CONSTANTS
  Users = {"tom"}
  Groups = {"staff"}
  CommandLines <- MCCommandLines
  a = a
  b = b
  c = c
  zero = zero
  Zero = zero
  Fds = {zero, a, b, c}
  g = g
  h = h
  Handles = {g, h}
  MaxEvents = 3
SYMMETRY FdSymmetry
INVARIANTS
  TypeOK
  NoDescriptorLeft
  OrderDoesNotMatter
  
  ExitWritesBack
CHECK_DEADLOCK FALSE
