------------------------------- MODULE Kmutex -------------------------------
(***************************************************************************)
(* A kernel mutex (src/os/ksynch.c), with ownership transfer: unlocking a  *)
(* mutex that is waited for does not mark it free, and mutex->owner keeps  *)
(* designating the thread that unlocked it until the woken waiter runs and *)
(* writes its own name.                                                    *)
(***************************************************************************)
EXTENDS WaitQueue

CONSTANT Null     \* no owner

ASSUME NullAssumption == Null \notin Thread

VARIABLES
  owner,     \* mutex->owner
  holding    \* history: threads that were told SOS_OK by lock or trylock and
             \* have not called unlock since

kmutex_vars == <<state, ready_queue, current_thread, loc, timed, armed, fired,
                 waiting_list, woken, owner, holding>>

KmutexTypeOK ==
  /\ ThreadsTypeOK
  /\ WaitQueueTypeOK
  /\ owner \in Thread \union {Null}
  /\ holding \subseteq Thread

KmutexInit ==
  /\ ThreadsInit
  /\ WaitQueueInit
  /\ owner = Null
  /\ holding = {}

-----------------------------------------------------------------------------
(* sos_kmutex_lock() and sos_kmutex_trylock() of a free mutex *)
LockNow(self) ==
  /\ InOwnCode(self)
  /\ self # Idle
  /\ owner = Null
  /\ owner' = self
  /\ holding' = holding \union {self}
  /\ UNCHANGED <<thread_vars, waitq_vars>>

(* sos_kmutex_lock() of a mutex owned by another thread, until it gives    *)
(* the CPU away.  When owner = self it returns -SOS_EBUSY at once.         *)
LockWait(self, with_timeout) ==
  /\ InOwnCode(self)
  /\ self # Idle
  /\ owner \notin {Null, self}
  /\ WaitBegin(self, with_timeout)
  /\ UNCHANGED <<owner, holding>>

(* ... and its end: the awoken thread takes the mutex. *)
LockReturn_AnyStatus(self) ==   \* mutant: the status of the wait is not tested
  /\ self = current_thread
  /\ loc[self] = "wait"
  /\ WaitEnd(self)
  /\ owner' = self
  /\ holding' = holding \union {self}

LockReturn(self) ==
  /\ self = current_thread
  /\ loc[self] = "wait"
  /\ WaitEnd(self)
  /\ IF WaitStatus(self) = "OK"
       THEN owner' = self /\ holding' = holding \union {self}
       ELSE UNCHANGED <<owner, holding>>

(* sos_kmutex_unlock() by the thread that mutex->owner designates; any     *)
(* other caller gets -SOS_EPERM and nothing changes.                       *)
Unlock_Free(self) ==            \* mutant: owner is cleared even if it is waited for
  /\ InOwnCode(self)
  /\ owner = self
  /\ WakeupOne
  /\ owner' = Null
  /\ holding' = holding \ {self}
  /\ UNCHANGED <<current_thread, sleep_vars>>

Unlock_NoWakeup(self) ==        \* mutant: the waiter is not woken up
  /\ InOwnCode(self)
  /\ owner = self
  /\ owner' = IF waiting_list = <<>> THEN Null ELSE owner
  /\ holding' = holding \ {self}
  /\ UNCHANGED <<thread_vars, waitq_vars>>

Unlock(self) ==
  /\ InOwnCode(self)
  /\ owner = self
  /\ WakeupOne
  /\ owner' = IF waiting_list = <<>> THEN Null ELSE owner
  /\ holding' = holding \ {self}
  /\ UNCHANGED <<current_thread, sleep_vars>>

-----------------------------------------------------------------------------
(* A thread that holds the mutex does not lock it again, block for ever    *)
(* nor exit.                                                               *)
Elsewhere ==
  /\ ThreadsNext
  /\ \A t \in holding : ~ Exit(t) /\ ~ SleepCall(t, FALSE)
  /\ UNCHANGED <<waitq_vars, owner, holding>>

LockStep(self) ==
  /\ self \notin holding
  /\ \/ LockNow(self)
     \/ \E with_timeout \in BOOLEAN : LockWait(self, with_timeout)
     \/ LockReturn(self)

(* Threads that unlock only what they hold *)
KmutexNext ==
  \/ Elsewhere
  \/ \E t \in Thread : LockStep(t) \/ (t \in holding /\ Unlock(t))

KmutexSpec == KmutexInit /\ [][KmutexNext]_kmutex_vars

(* Threads that may call unlock at any time, relying on -SOS_EPERM *)
CarelessNext ==
  \/ Elsewhere
  \/ \E t \in Thread : LockStep(t) \/ Unlock(t)

CarelessSpec == KmutexInit /\ [][CarelessNext]_kmutex_vars

(* Fairness of the thread API; a thread that holds the mutex and gets the  *)
(* CPU again and again ends up unlocking it.                               *)
KmutexProgress(self) ==
  \/ Progress(self) /\ UNCHANGED <<waitq_vars, owner, holding>>
  \/ LockReturn(self)

KmutexFairSpec ==
  /\ KmutexSpec
  /\ WF_kmutex_vars(\E t \in Thread : KmutexProgress(t))
  /\ \A t \in Thread \ {Idle} :
       /\ SF_kmutex_vars(t \in holding /\ Unlock(t))
       /\ SF_kmutex_vars(Tick(t) /\ UNCHANGED <<waitq_vars, owner, holding>>)

-----------------------------------------------------------------------------
(* PROPERTIES                                                              *)

OwnerIsHolder ==
  /\ (owner = Null) <=> (holding = {} /\ woken = {})
  /\ \A t \in holding : owner = t

(* The mutex is held by, or on its way to, at most one thread.             *)
(* mutex->owner is NULL exactly when nobody holds the mutex nor was handed *)
(* it, and a holder is the owner, so that it can unlock: the mutex is      *)
(* never stolen from a woken thread, and never locked for ever.            *)
MutualExclusion == Cardinality(holding \union woken) <= 1 /\ OwnerIsHolder

(* The mutex is "binary semaphore with strong ownership" (ksynch.h): it    *)
(* implements the counting semaphore with one unit.                        *)
BinarySemaphore == INSTANCE CountingSemaphore
  WITH Client <- Thread, InitialValue <- 1,
       avail <- IF owner = Null THEN 1 ELSE 0,
       queue <- waiting_list, granted <- woken

ImplementsBinarySemaphore == BinarySemaphore!Spec

(* ksynch.h: a mutex is a "binary semaphore with strong ownership", and    *)
(* sos_kmutex_unlock() returns "-SOS_EPERM when the calling thread is NOT  *)
(* the owner": whoever calls it, two threads never hold the mutex.         *)
HoldersExclusive == Cardinality(holding) <= 1

(* Every wait for the mutex ends.                                          *)
LockEnds == \A t \in Thread : (loc[t] = "wait") ~> (loc[t] = "run")

=============================================================================
