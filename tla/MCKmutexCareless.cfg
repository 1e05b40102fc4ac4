\* A second unlock by the former owner is not refused with -SOS_EPERM and frees the mutex.
CONSTANTS
  Thread = {idle, kinit, t1, t2}
  Idle = idle
  Kinit = kinit
  Null = null
SPECIFICATION CarelessSpec
INVARIANT
  HoldersExclusive
