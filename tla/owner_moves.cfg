SPECIFICATION Spec
CONSTANTS
  Objects = {o1, o2}
  Sync = {}
  Pids = {p1, p2}
  NoPid = NoPid
  Nobody = Nobody
  RuntimeGroup = RuntimeGroup
PROPERTIES DestroyIsExact
CHECK_DEADLOCK FALSE
