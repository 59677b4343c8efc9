SPECIFICATION SlabSpec
CONSTANTS
  NUM_PAGES = 3
  PAGE_INITIAL_SIZE = 1
  COMPACT_INTERVAL = 2
  GENERATIONS = 2
  Vals = {"a", "b"}
  NoVal = "none"
INVARIANT FreeListExact
PROPERTY ImplementsMap
