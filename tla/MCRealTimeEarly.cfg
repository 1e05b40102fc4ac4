\* A delay that is asked for between two ticks is cut short.
CONSTANTS
  NS_IN_SEC = 3
  Word = 8
  Action = {a1, a2, a3}
  Resolutions = {2, 3}
  MaxDelay = 3
  MaxTime = 6
SPECIFICATION RealTimeSpec
INVARIANT
  NeverEarly
