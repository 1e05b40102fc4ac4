\* Six free pages and one page asked at a time, never mapped in advance.  The
\* kernel stops when an assertion fails.
CONSTANTS
  PageSize = 51
  KslabSize = 7
  RangeSize = 6
  CacheSize = 11
  TopPage = 8
  Small = "small"
  KmallocClass <- Classes
  Driver = {}
  Shape <- Shapes
  MaxPagesPerSlab = 2
  MaxOwned = 3
  Request = {51}
  Grant = {0, 9}
SPECIFICATION DemandSpec
CHECK_DEADLOCK FALSE
INVARIANT FreeNeverHalts
