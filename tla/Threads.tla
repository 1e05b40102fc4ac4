------------------------------ MODULE Threads ------------------------------
(***************************************************************************)
(* The kernel threads of SaghirOS (src/os/thread.c): creation, yield,      *)
(* sleep, forced wake-up and exit, interleaved with the timer interrupt.   *)
(* One action per kernel call up to the point where it gives the CPU away, *)
(* and one for what the call still does once the thread has the CPU again. *)
(***************************************************************************)
EXTENDS Sleep

CONSTANTS
  Idle,   \* the thread of idle_thread(): hlt, yield, for ever
  Kinit   \* the primary thread, which runs cmain()

ASSUME IdleKinitAssumption == Idle \in Thread /\ Kinit \in Thread /\ Idle # Kinit

thread_vars == <<state, ready_queue, current_thread, loc, timed, armed, fired>>

ThreadsTypeOK == SchedTypeOK /\ SleepTypeOK

(* cmain() when it enables interrupts: sos_thread_subsystem_setup() has    *)
(* made the boot stack the thread [kinit], RUNNING, and the idle thread    *)
(* has been created.                                                       *)
ThreadsInit ==
  /\ state = [t \in Thread |-> CASE t = Kinit -> "RUNNING"
                                 [] t = Idle -> "READY"
                                 [] OTHER -> "FREE"]
  /\ ready_queue = <<Idle>>
  /\ current_thread = Kinit
  /\ loc = [t \in Thread |-> "run"]
  /\ timed = {}
  /\ armed = {}
  /\ fired = {}

-----------------------------------------------------------------------------
(* sos_create_kernel_thread(), up to the insertion in the global list: the *)
(* new control block is CREATED.  Interrupts stay enabled.                 *)
CreateBegin(self, new) ==
  /\ InOwnCode(self)
  /\ state[new] = "FREE"
  /\ state' = [state EXCEPT ![new] = "CREATED"]
  /\ loc' = [loc EXCEPT ![self] = "create"]
  /\ UNCHANGED <<ready_queue, current_thread, timed, armed, fired>>

(* ... and its last step, which makes the new thread READY.                *)
CreateEnd(self, new) ==
  /\ self = current_thread
  /\ loc[self] = "create"
  /\ state[new] = "CREATED"
  /\ SetReady(new)
  /\ loc' = [loc EXCEPT ![self] = "run"]
  /\ UNCHANGED <<current_thread, timed, armed, fired>>

(* sos_thread_yield() *)
Yield(self) ==
  /\ InOwnCode(self)
  /\ YieldCPU
  /\ loc' = [loc EXCEPT ![self] = "yield"]
  /\ UNCHANGED <<timed, armed, fired>>

YieldReturn(self) ==
  /\ self = current_thread
  /\ loc[self] = "yield"
  /\ loc' = [loc EXCEPT ![self] = "run"]
  /\ UNCHANGED <<sched_vars, timed, armed, fired>>

(* sos_thread_sleep(): idle_thread() never calls it.                       *)
SleepCall(self, with_timeout) ==
  /\ InOwnCode(self)
  /\ self # Idle
  /\ BeginSleep(self, with_timeout)
  /\ loc' = [loc EXCEPT ![self] = "sleep"]

SleepReturn(self) ==
  /\ self = current_thread
  /\ loc[self] = "sleep"
  /\ EndSleep(self)
  /\ loc' = [loc EXCEPT ![self] = "run"]
  /\ UNCHANGED sched_vars

(* sos_thread_exit(), also called when the routine of a thread returns.    *)
Exit(self) ==
  /\ InOwnCode(self)
  /\ self # Idle
  /\ LeaveCPU
  /\ UNCHANGED sleep_vars

(* sos_thread_force_unblock() on a thread whose creation is complete, by   *)
(* the current thread or by an interrupt handler.                          *)
Unblock(t) ==
  /\ IRQsEnabled
  /\ state[t] \notin {"FREE", "CREATED"}
  /\ ForceUnblock(t)
  /\ UNCHANGED <<current_thread, sleep_vars>>

(* The timer interrupt, when its handler runs sos_time_do_tick().          *)
Tick(t) ==
  /\ IRQsEnabled
  /\ Expire(t)

-----------------------------------------------------------------------------
(* What the running code does by itself, what interrupts do to it.         *)
ThreadStep(self) ==
  \/ \E new \in Thread : CreateBegin(self, new) \/ CreateEnd(self, new)
  \/ Yield(self)
  \/ YieldReturn(self)
  \/ \E with_timeout \in BOOLEAN : SleepCall(self, with_timeout)
  \/ SleepReturn(self)
  \/ Exit(self)

ThreadsNext == \E t \in Thread : ThreadStep(t) \/ Unblock(t) \/ Tick(t)

ThreadsSpec == ThreadsInit /\ [][ThreadsNext]_thread_vars

(* Fairness: the CPU executes, the code of every thread ends up calling a  *)
(* function that gives the CPU away (the kernel is cooperative) and a      *)
(* creation completes; a tick that interrupts hold back is delivered by    *)
(* the interrupt controller when they are enabled, and dates pass, so an   *)
(* action that stays in the list expires.                                  *)
Progress(self) ==
  \/ \E new \in Thread : CreateEnd(self, new)
  \/ Yield(self)
  \/ YieldReturn(self)
  \/ SleepReturn(self)

ThreadsFairness ==
  /\ WF_thread_vars(\E t \in Thread : Progress(t))
  /\ \A t \in Thread \ {Idle} : SF_thread_vars(Tick(t))

ThreadsFairSpec == ThreadsSpec /\ ThreadsFairness

-----------------------------------------------------------------------------
(* PROPERTIES                                                              *)

(* sos_reschedule() never reaches its SOS_FATAL_ERROR: whenever a thread   *)
(* other than Idle has the CPU, and so may block or exit, the idle thread  *)
(* is in the ready queue ("An operating system MUST always have a ready    *)
(* thread !", kernel.c).                                                   *)
AlwaysAReadyThread == current_thread # Idle => InReadyQueue(Idle)

(* Every kernel call that gave the CPU away finds its caller in a state    *)
(* the caller can have there: a BLOCKED thread is inside a sleep, a        *)
(* thread in the middle of a creation still has the CPU, and a thread      *)
(* whose block is not in use has nothing pending.                          *)
LocMatchesState ==
  \A t \in Thread :
    /\ state[t] = "BLOCKED" => loc[t] \in Sleeping
    /\ state[t] \in {"FREE", "CREATED"} => loc[t] = "run" /\ t \notin timed
    /\ loc[t] = "create" => t = current_thread
    /\ loc[Idle] \notin Sleeping

(* Dispatching is first come, first served: while t waits in the ready     *)
(* queue, a thread u that is behind it, or not yet in the queue, is not    *)
(* dispatched before it and does not get ahead of it.                      *)
Before(t, u) ==
  \E i, j \in DOMAIN ready_queue : i < j /\ ready_queue[i] = t /\ ready_queue[j] = u
NoOvertaking ==
  [][\A t, u \in Thread :
       t # u /\ InReadyQueue(t) /\ ~ Before(u, t)
         => /\ current_thread' = u => current_thread = u
            /\ InReadyQueue(t)' => ~ Before(u, t)']_thread_vars

(* A READY thread gets the CPU, whatever the others do.                    *)
ReadyRuns == \A t \in Thread : (state[t] = "READY") ~> (state[t] = "RUNNING")

(* A sleep with a timeout ends: the caller is back in its own code.        *)
TimedSleepEnds == \A t \in Thread : (t \in timed) ~> (loc[t] = "run")

=============================================================================
