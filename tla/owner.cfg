SPECIFICATION Spec
CONSTANTS
  Objects = {s1, s2, o1, o2}
  Sync = {s1, s2}
  Pids = {p1, p2, p3}
  NoPid = NoPid
  Nobody = Nobody
  RuntimeGroup = RuntimeGroup
SYMMETRY Symmetry
INVARIANTS OneOwner
 
CHECK_DEADLOCK FALSE
VIEW View
