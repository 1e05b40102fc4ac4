\* Eight pages, two of them the first slabs, and descriptors of seven ranges in a
\* slab; a class of kmalloc with slab
\* structures outside its slabs, a driver's cache with a reserve and slabs of
\* two pages.
CONSTANTS
  PageSize = 51
  KslabSize = 7
  RangeSize = 6
  CacheSize = 11
  TopPage = 8
  Small = "small"
  Dma = "dma"
  Huge = "huge"
  KmallocClass <- Classes
  Driver = {"dma", "huge"}
  Shape <- Shapes
  MaxPagesPerSlab = 2
  MaxOwned = 3
  Request = {10, 51}
  Grant = {0, 1, 9}
SPECIFICATION KmemSpec
INVARIANTS
  KmemTypeOK
  RangesTile
  NothingLost
  ReserveKept
  OwnedIsAllocated
PROPERTIES
  ImplementsHeap
