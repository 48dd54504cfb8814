SPECIFICATION FairSpec
CONSTANTS
  Timers = {t1, t2}
INVARIANTS SilentOnceCanceled
PROPERTIES DestructorReturns ExpiryIsServed
CHECK_DEADLOCK FALSE
