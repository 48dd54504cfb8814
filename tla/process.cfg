SPECIFICATION FairSpec
CONSTANTS
  Procs = {p1, p2, p3, p4}
  Runtime = Runtime
  Missing = {p4}
  Broken = {p2}
  Eager = FALSE
  Faults = {"runtime", "child", "fork"}
INVARIANTS TypeOK PreparedLeadsGroup NoDescriptorLeak
PROPERTIES HoldSafety HoldProgress PrepareReturns
CHECK_DEADLOCK FALSE
