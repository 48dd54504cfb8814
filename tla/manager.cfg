SPECIFICATION FairSpec
CONSTANTS
  N = 3
  Monitors = {"simple", "cpu-hopper", "pmc-sampler"}
  Cpus = 3
  Faults = TRUE
INVARIANTS StartTogether CleanShutdown
PROPERTIES FirstExitEndsRun SimpleExitsInOrder
CHECK_DEADLOCK FALSE
