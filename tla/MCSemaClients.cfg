\* One unit (a mutual exclusion semaphore) shared by three threads.
CONSTANTS
  Thread = {idle, kinit, t1, t2}
  Idle = idle
  Kinit = kinit
  InitialValue = 1
  MaxValue = 1
SPECIFICATION ClientsFairSpec
INVARIANT
  UnitsConserved
PROPERTY
  WaitEnds
