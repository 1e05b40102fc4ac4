\* The thread API: idle, kinit and two further threads.
CONSTANTS
  Thread = {idle, kinit, t1, t2}
  Idle = idle
  Kinit = kinit
SPECIFICATION ThreadsFairSpec
INVARIANTS
  ThreadsTypeOK
  SchedConsistent
  NoDanglingTimeout
  SleeperHasWaker
  AlwaysAReadyThread
PROPERTIES
  NoOvertaking
  ReadyRuns
  TimedSleepEnds
