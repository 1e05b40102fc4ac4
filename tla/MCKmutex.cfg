\* A mutex shared by three threads that unlock only what they hold.
CONSTANTS
  Thread = {idle, kinit, t1, t2}
  Idle = idle
  Kinit = kinit
  Null = null
SPECIFICATION KmutexFairSpec
INVARIANTS
  KmutexTypeOK
  MutualExclusion
PROPERTIES
  ImplementsBinarySemaphore
  LockEnds
