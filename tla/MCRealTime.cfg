\* Three actions, ticks two or three nanoseconds apart, three nanoseconds in a
\* second and words of three bits; dates up to 6.
CONSTANTS
  NS_IN_SEC = 3
  Word = 8
  Action = {a1, a2, a3}
  Resolutions = {2, 3}
  MaxDelay = 3
  MaxTime = 6
SPECIFICATION RealTimeSpec
SYMMETRY Interchangeable
INVARIANTS
  TimeoutsTypeOK
  ListInDueOrder
  CalledInTime
PROPERTIES
  TickCallsAllDue
  RemainingIsExact
  FirstProgrammedFirst
