SPECIFICATION FairSpec
CONSTANTS
  Pids = {1, 2}
  Fds = {3, 4, 5, 6}
  N = 2
  None = None
  Other = Other
INVARIANTS DescriptorsOwned NothingLeft
PROPERTIES EverySampled
CHECK_DEADLOCK FALSE
