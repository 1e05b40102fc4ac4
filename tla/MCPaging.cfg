\* Six pages of RAM besides page 0, one of them mapped at boot; two page tables
\* of two entries beside the mirroring.
CONSTANTS
  Page = {1, 2, 3, 4, 5, 6}
  Kernel = {1}
  Hwmap = {}
  KmemRange = {r1}
  NULL = NULL
  PDIndex = {0, 1, 9}
  PTIndex = {0, 1}
  MirrorIndex = 9
  MaxHeld = 1
SPECIFICATION PagingSpec
INVARIANTS
  PagingTypeOK
  CountsExact
  TablesInUse
PROPERTIES
  RangeKept
  ImplementsAddressSpace
