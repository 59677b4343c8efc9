SPECIFICATION Spec
CONSTANTS
  a = a
  b = b
  c = c
  d = d
  bad = bad
  Names <- MCNames
  NotUtf8 <- MCNotUtf8
  EntrySize <- MCEntrySize
  BufferSizes = {2, 3, 6}
  NoListing = NoListing
INVARIANT IndexExact
INVARIANT ListingSound
CHECK_DEADLOCK FALSE
