SPECIFICATION FairSpec
CONSTANTS
  Ops = {o1, o2, o3}
  CloseMayFail = {FALSE}
PROPERTY CloseReturns
CHECK_DEADLOCK FALSE
