SPECIFICATION BuffersSpec
CONSTANTS
  old = old
  f1 = f1
  f2 = f2
  Uninit = Uninit
  Byte <- MCByte
  NoResult = NoResult
  NewBuffers <- MCNewBuffers
  NewFile <- MCNewFile
  Bounds <- MCBounds
  MaxViews = 2
INVARIANT MemorySafe
INVARIANT TransfersExact
