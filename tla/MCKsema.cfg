\* A semaphore used by two threads besides idle, ups from anywhere.
CONSTANTS
  Thread = {idle, kinit, t1, t2}
  Idle = idle
  Kinit = kinit
  InitialValue = 1
  MaxValue = 2
SPECIFICATION KsemaSpec
SYMMETRY CreatedLater
INVARIANTS
  KsemaTypeOK
  EntriesMatchWaiters
  WokenNotBlocked
  WakeupTerminates
  ValueCountsWaiters
PROPERTY
  ImplementsSemaphore
