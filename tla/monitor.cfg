SPECIFICATION FairSpec
CONSTANTS
  Pids = {p1, p2, f}
  Foreign = {f}
  MaxLives = 2
  NoPid = NoPid
INVARIANTS PushedHasFuture NoThreadSurvives
PROPERTIES ReportsSafety ReportsProgress DestructorReturns
CHECK_DEADLOCK FALSE
