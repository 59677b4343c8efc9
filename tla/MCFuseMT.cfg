SPECIFICATION Spec
CONSTANTS
  a = a
  b = b
  Names <- MCNames
  Paths <- MCPaths
  NoPath = NoPath
  NoList = NoList
  Deleted = Deleted
  MaxLookups = 2
  PageSize = 3
  Offsets = {0, 1}
  MaxJobs = 2
  NoName = NoName
  Closed = Closed
  Limits <- MCLimits
INVARIANT TableExact
INVARIANT PagesExact
INVARIANT HandlesMatch
INVARIANT TransfersInPlace
PROPERTY GenerationFresh
CHECK_DEADLOCK FALSE
