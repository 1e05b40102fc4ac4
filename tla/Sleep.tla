------------------------------- MODULE Sleep -------------------------------
(***************************************************************************)
(* Blocking with an optional timeout (sos_thread_sleep, its sleep_timeout  *)
(* callback and sos_thread_force_unblock of src/os/thread.c), as state and *)
(* operators shared by every blocking call of the kernel.                  *)
(*                                                                         *)
(* The timeout action of a sleep lives on the stack of the sleeping        *)
(* thread.  Dates are abstracted here: an action that is in the timeout    *)
(* list may expire at any tick; Timeouts.tla models the dates, the order   *)
(* of the list and the remaining time.                                     *)
(***************************************************************************)
EXTENDS Sched

VARIABLES
  loc,     \* where each thread is: in its own code or in a kernel call
  timed,   \* threads whose current sleep was given a timeout
  armed,   \* threads whose timeout action is in timeout_action_list
  fired    \* sleeping threads with timeout_triggered = TRUE

sleep_vars == <<loc, timed, armed, fired>>

(* "run": own code, interrupts enabled.  "create": in                      *)
(* sos_create_kernel_thread(), interrupts enabled.  The others are inside  *)
(* a critical section that has given the CPU away: when the thread is      *)
(* dispatched again, its saved flags keep interrupts disabled until it     *)
(* leaves the section.                                                     *)
Location == {"run", "create", "yield", "sleep", "wait"}
Sleeping == {"sleep", "wait"}

SleepTypeOK ==
  /\ loc \in [Thread -> Location]
  /\ timed \subseteq Thread
  /\ armed \subseteq Thread
  /\ fired \subseteq Thread

(* Interrupt handlers run between two steps of a thread that has them      *)
(* enabled.                                                                *)
IRQsEnabled == loc[current_thread] \in {"run", "create"}

(* The current thread executes its own code and may call the kernel.       *)
InOwnCode(t) == t = current_thread /\ loc[t] = "run"

-----------------------------------------------------------------------------
(* sos_thread_sleep() until the CPU is given away: register the action if  *)
(* there is a timeout, then block.                                         *)
BeginSleep_NotArmed(t, with_timeout) ==   \* mutant: the action is not registered
  /\ BlockCPU
  /\ timed' = IF with_timeout THEN timed \union {t} ELSE timed
  /\ UNCHANGED <<armed, fired>>

BeginSleep(t, with_timeout) ==
  /\ BlockCPU
  /\ timed' = IF with_timeout THEN timed \union {t} ELSE timed
  /\ armed' = IF with_timeout THEN armed \union {t} ELSE armed
  /\ UNCHANGED fired

(* The return value of sos_thread_sleep(): SOS_OK when there is no timeout *)
(* or when it triggered, -SOS_EINTR otherwise.                             *)
SleepStatus(t) == IF t \in timed /\ t \notin fired THEN "EINTR" ELSE "OK"

(* The end of sos_thread_sleep(), when the thread has the CPU again: an    *)
(* action that did not trigger is unregistered, and the frame that held    *)
(* the action is popped.                                                   *)
EndSleep_KeepAction(t) ==  \* mutant: the action is not unregistered
  /\ timed' = timed \ {t}
  /\ fired' = fired \ {t}
  /\ UNCHANGED armed

EndSleep(t) ==
  /\ armed' = IF SleepStatus(t) = "EINTR" THEN armed \ {t} ELSE armed
  /\ timed' = timed \ {t}
  /\ fired' = fired \ {t}

(* sos_thread_force_unblock(): a RUNNING or READY thread is left alone.    *)
ForceUnblock(t) ==
  IF state[t] \in {"RUNNING", "READY"} THEN UNCHANGED <<state, ready_queue>>
                                       ELSE SetReady(t)

(* One iteration of the loop of sos_time_do_tick(): the action of thread t *)
(* leaves the list, its callback sleep_timeout() flags it and unblocks the *)
(* thread.  A tick that expires several actions is a sequence of these.    *)
Expire_NoUnblock(t) ==     \* mutant: sleep_timeout() does not unblock
  /\ t \in armed
  /\ armed' = armed \ {t}
  /\ fired' = fired \union {t}
  /\ UNCHANGED <<sched_vars, loc, timed>>

Expire(t) ==
  /\ t \in armed
  /\ armed' = armed \ {t}
  /\ fired' = fired \union {t}
  /\ ForceUnblock(t)
  /\ UNCHANGED <<current_thread, loc, timed>>

-----------------------------------------------------------------------------
(* The timeout action of a sleep is in the list only while the stack frame *)
(* that contains it exists: the timer interrupt never follows a pointer to *)
(* a popped frame (time.h: "'act' MUST remain valid until it is either     *)
(* fired or removed").                                                     *)
NoDanglingTimeout == \A t \in armed : t \in timed /\ loc[t] \in Sleeping

(* A thread that blocked with a timeout and has not been woken up still    *)
(* has its action in the list: it is never left asleep without a waker.    *)
SleeperHasWaker == \A t \in timed : state[t] = "BLOCKED" => t \in armed

=============================================================================
