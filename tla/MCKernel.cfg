\* The kernel as it is linked: nobody wakes a thread that sleeps for a delay.
CONSTANTS
  Thread = {idle, kinit, t1}
  Idle = idle
  Kinit = kinit
  CountModulus = 4
SPECIFICATION KernelSpec
PROPERTY
  TimerWakesSleepers
