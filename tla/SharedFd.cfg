SPECIFICATION FairSpec
CONSTANTS
  Ops = {o1, o2, o3}
  CloseMayFail = {TRUE, FALSE}
INVARIANT CloseAfterOps
INVARIANT ClosedOnce
PROPERTY ClosedEventually
CHECK_DEADLOCK FALSE
