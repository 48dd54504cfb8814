SPECIFICATION FairSpec
CONSTANTS
  Producers = {p1, p2}
  Consumers = {c1, c2, c3}
  Values = {v1, v2, v3}
  Nothing = Nothing
  NoThread = NoThread
INVARIANTS TypeOK MutualExclusion NoLostWakeup
PROPERTIES FifoSafety FifoProgress
