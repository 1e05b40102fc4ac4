------------------------------- MODULE Ksema -------------------------------
(***************************************************************************)
(* A kernel semaphore (src/os/ksynch.c) used by all the threads of the     *)
(* thread API and, for sos_ksema_up(), by interrupt handlers.              *)
(***************************************************************************)
EXTENDS WaitQueue, Integers

CONSTANTS
  InitialValue,   \* the initial_value of sos_ksema_init()
  MaxValue        \* bound of the model on sema->value: more ups are not explored

ASSUME ValueAssumption ==
  /\ InitialValue \in Nat
  /\ MaxValue \in Nat
  /\ InitialValue <= MaxValue

VARIABLE value    \* sema->value

sema_vars == <<waiting_list, woken, value>>
ksema_vars == <<state, ready_queue, current_thread, loc, timed, armed, fired,
                waiting_list, woken, value>>

KsemaTypeOK ==
  /\ ThreadsTypeOK
  /\ WaitQueueTypeOK
  /\ value \in Int

KsemaInit ==
  /\ ThreadsInit
  /\ WaitQueueInit
  /\ value = InitialValue

-----------------------------------------------------------------------------
(* sos_ksema_down() when the value was positive *)
DownNow(self) ==
  /\ InOwnCode(self)
  /\ self # Idle
  /\ value - 1 >= 0
  /\ value' = value - 1
  /\ UNCHANGED <<thread_vars, waitq_vars>>

(* sos_ksema_down() until it gives the CPU away, when it was not *)
DownWait(self, with_timeout) ==
  /\ InOwnCode(self)
  /\ self # Idle
  /\ value - 1 < 0
  /\ value' = value - 1
  /\ WaitBegin(self, with_timeout)

(* The end of sos_ksema_down(): a wait that did not succeed is undone.     *)
DownReturn_NoUndo(self) ==    \* mutant: the value is not restored
  /\ self = current_thread
  /\ loc[self] = "wait"
  /\ WaitEnd(self)
  /\ UNCHANGED value

DownReturn(self) ==
  /\ self = current_thread
  /\ loc[self] = "wait"
  /\ WaitEnd(self)
  /\ value' = IF WaitStatus(self) = "OK" THEN value ELSE value + 1

(* sos_ksema_trydown(), when it succeeds; otherwise it changes nothing.    *)
TryDown(self) ==
  /\ InOwnCode(self)
  /\ self # Idle
  /\ value >= 1
  /\ value' = value - 1
  /\ UNCHANGED <<thread_vars, waitq_vars>>

(* sos_ksema_up(), by the current thread or by an interrupt handler *)
Up_NoWakeup ==                \* mutant: does not wake a waiter up
  /\ IRQsEnabled
  /\ value < MaxValue
  /\ value' = value + 1
  /\ UNCHANGED <<thread_vars, waitq_vars>>

Up ==
  /\ IRQsEnabled
  /\ value < MaxValue
  /\ value' = value + 1
  /\ WakeupOne
  /\ UNCHANGED <<current_thread, sleep_vars>>

-----------------------------------------------------------------------------
SemaStep(self) ==
  \/ DownNow(self)
  \/ \E with_timeout \in BOOLEAN : DownWait(self, with_timeout)
  \/ DownReturn(self)
  \/ TryDown(self)

KsemaNext ==
  \/ ThreadsNext /\ UNCHANGED sema_vars
  \/ \E t \in Thread : SemaStep(t)
  \/ Up

KsemaSpec == KsemaInit /\ [][KsemaNext]_ksema_vars

-----------------------------------------------------------------------------
(* PROPERTIES                                                              *)

(* The value counts the waiters when it is negative and the units that are *)
(* free otherwise: no unit is free while a thread waits, and an up that    *)
(* finds the value negative finds a thread to wake up.                     *)
ValueCountsWaiters == Len(waiting_list) = IF value < 0 THEN -value ELSE 0

(* The semaphore implements the abstract one: the free units are the       *)
(* positive part of the value, the granted clients those whose entry was   *)
(* woken up and that have not run yet.                                     *)
FreeUnits == IF value > 0 THEN value ELSE 0

Semaphore == INSTANCE CountingSemaphore
  WITH Client <- Thread, avail <- FreeUnits, queue <- waiting_list, granted <- woken

ImplementsSemaphore == Semaphore!Spec

=============================================================================
