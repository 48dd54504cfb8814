SPECIFICATION Spec
CONSTANTS
  Objects = {o1, o2, o3}
  Fds = {3, 4, 5, 6, 7}
  MaxPipes = 4
  None = None
  Other = Other
SYMMETRY Symmetry
INVARIANTS EndsOwned NoneLeaked
