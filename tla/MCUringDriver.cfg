SPECIFICATION FairSpec
CONSTANTS
  o1 = o1
  o2 = o2
  o3 = o3
  o4 = o4
  k1 = k1
  k2 = k2
  k3 = k3
  k4 = k4
  Ops <- ThreeOps
  Keys <- ThreeKeys
  SQSize = 1
  CQSize = 1
  Environments = {"busy", "close"}
  NoKey = NoKey
  NoOp = NoOp
INVARIANT UncheckedHolds
INVARIANT BuffersHeld
INVARIANT NoSlabLeak
PROPERTY CompletionDelivered
CHECK_DEADLOCK FALSE
