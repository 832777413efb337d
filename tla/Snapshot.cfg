SPECIFICATION Spec
CONSTANTS
  Clients = {c1, c2}
  WriteRanges <- MCWriteRanges
  ReadRanges <- MCReadRanges
  PageSize = 3
  NumPages = 3
  Size = 5
  CachePages = 1
  MaxOps = 2
INVARIANTS ReadIsCurrent WritesLand SaveIsExact
PROPERTIES OnlyOwnBytesChange
