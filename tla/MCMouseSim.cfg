\* Every map of 3 x 2 cells, four blocks for mice.
CONSTANTS
  Mouse = {m1, m2, m3, m4}
  MAP_X = 3
  MAP_Y = 2
  Tokens = 2
SPECIFICATION MouseSpec
CHECK_DEADLOCK FALSE
INVARIANTS
  MouseTypeOK
  MapMatchesMice
  MiceComeFromHarvests
