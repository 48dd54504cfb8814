SPECIFICATION FairSpec
CONSTANTS
  N = 2
  Monitors = {"pmc-sampler"}
  Cpus = 4
  Faults = FALSE
PROPERTIES OthersKilled
CHECK_DEADLOCK FALSE
