SPECIFICATION MonitorsSpec
CONSTANTS
  Pids = {1, 2, 3, 4}
  Cpus = 4
  Offline = {2}
  NoCpu = NoCpu
  AnyCpu = AnyCpu
  N = 2
  MaxTime = 2
  MaxRate = 1
  Faults = TRUE
INVARIANTS AllocationMatchesMapping OwnCpu HopsAway SpareCpu
INVARIANTS IntervalsAddUp ScalingIsFraction NoSpuriousError
CHECK_DEADLOCK FALSE
