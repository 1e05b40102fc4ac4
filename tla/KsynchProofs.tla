---------------------------- MODULE KsynchProofs ----------------------------
(***************************************************************************)
(* The two synchronisation objects of src/os/ksynch.c, for any set of      *)
(* threads and any interleaving.  The semaphore: its invariants, that it   *)
(* implements the abstract one, and that its units are conserved by        *)
(* clients that give back what they took.  Then the mutex: it excludes its *)
(* clients from one another and is a binary semaphore, when threads unlock *)
(* only what they hold.  Each theorem is about one of the two: the state   *)
(* of the other does not occur in it.                                      *)
(***************************************************************************)
EXTENDS SemaClients, Kmutex, ThreadsProofs, FiniteSetTheorems

-----------------------------------------------------------------------------
(* SEMAPHORES                                                              *)

(* What the wait queue and the value say of each other, with the           *)
(* invariants of the wait queue: inductive together.                       *)
KsemaInv ==
  /\ WaitQueueInv
  /\ value \in Int
  /\ ValueCountsWaiters

(* The invariant holds when the semaphore is created. *)
LEMMA KsemaInitInv == KsemaInit => KsemaInv
  <1> SUFFICES ASSUME KsemaInit PROVE KsemaInv
    OBVIOUS
  <1>1. WaitQueueInv
    BY WaitQueueInitInv DEF KsemaInit
  <1>2. waiting_list = <<>> /\ value = InitialValue
    BY DEF KsemaInit, WaitQueueInit
  <1> QED
    BY <1>1, <1>2, ValueAssumption DEF KsemaInv, ValueCountsWaiters

(* The length of the queue is a number. *)
LEMMA KsemaInvLen == KsemaInv => waiting_list \in Seq(Thread) /\ Len(waiting_list) \in Nat
  BY LenProperties DEF KsemaInv, WaitQueueInv, WaitQueueTypeOK

(* The step of the thread API *)
LEMMA KsemaThreadsStep ==
  ASSUME KsemaInv, ThreadsNext, UNCHANGED sema_vars
  PROVE  KsemaInv'
  <1>1. WaitQueueInv'
    BY WaitQueueThreadsStep DEF KsemaInv, sema_vars, waitq_vars
  <1> QED  BY <1>1 DEF KsemaInv, sema_vars, ValueCountsWaiters

(* sos_ksema_down() and sos_ksema_trydown() when a unit is free *)
LEMMA KsemaTakeStep ==
  ASSUME KsemaInv, NEW self \in Thread, DownNow(self) \/ TryDown(self)
  PROVE  KsemaInv' /\ value >= 1
  <1>1. /\ value \in Int /\ value >= 1 /\ value' = value - 1
        /\ UNCHANGED <<thread_vars, waitq_vars>>
    BY DEF KsemaInv, DownNow, TryDown
  <1>2. WaitQueueInv'
    BY <1>1, WaitQueueStutterInv DEF KsemaInv
  <1> QED
    BY <1>1, <1>2 DEF KsemaInv, waitq_vars, ValueCountsWaiters

(* sos_ksema_down() when it must wait *)
LEMMA KsemaWaitStep ==
  ASSUME KsemaInv, NEW self \in Thread, NEW b \in BOOLEAN, DownWait(self, b)
  PROVE  /\ KsemaInv'
         /\ value <= 0 /\ self \notin woken /\ ~ InWaitQueue(self)
         /\ woken' = woken
  <1>1. /\ InOwnCode(self) /\ self # Idle /\ value <= 0 /\ value' = value - 1
        /\ value \in Int /\ WaitBegin(self, b)
    BY DEF DownWait, KsemaInv
  <1>2. /\ WaitQueueInv' /\ self \notin woken /\ ~ InWaitQueue(self)
        /\ woken' = woken /\ Len(waiting_list') = Len(waiting_list) + 1
    BY <1>1, WaitBeginStep DEF KsemaInv
  <1> QED  BY <1>1, <1>2, KsemaInvLen DEF KsemaInv, ValueCountsWaiters

(* sos_ksema_down() back from its wait, with the unit or without it *)
LEMMA KsemaReturnStep ==
  ASSUME KsemaInv, NEW self \in Thread, DownReturn(self)
  PROVE  /\ KsemaInv'
         /\ self \in woken =>
              /\ woken' = woken \ {self}
              /\ waiting_list' = waiting_list /\ value' = value
         /\ self \notin woken =>
              /\ woken' = woken /\ value' = value + 1 /\ value < 0
              /\ \E i \in DOMAIN waiting_list :
                   waiting_list[i] = self /\ waiting_list' = RemoveAt(waiting_list, i)
  <1>1. /\ self = current_thread /\ loc[self] = "wait" /\ WaitEnd(self)
        /\ value' = IF self \in woken THEN value ELSE value + 1
        /\ value \in Int
    BY DEF DownReturn, WaitStatus, KsemaInv
  <1>2. /\ WaitQueueInv'
        /\ self \in woken => woken' = woken \ {self} /\ waiting_list' = waiting_list
        /\ self \notin woken =>
             /\ woken' = woken
             /\ \E i \in DOMAIN waiting_list :
                  waiting_list[i] = self /\ waiting_list' = RemoveAt(waiting_list, i)
             /\ Len(waiting_list) > 0 /\ Len(waiting_list') = Len(waiting_list) - 1
    BY <1>1, WaitEndStep DEF KsemaInv
  <1>3. self \notin woken => value < 0
    BY <1>1, <1>2, KsemaInvLen DEF KsemaInv, ValueCountsWaiters
  <1>4. ValueCountsWaiters'
    BY <1>1, <1>2, <1>3, KsemaInvLen DEF KsemaInv, ValueCountsWaiters
  <1> QED  BY <1>1, <1>2, <1>3, <1>4 DEF KsemaInv

(* sos_ksema_up(): nobody waits, or the first waiter gets the unit *)
LEMMA KsemaUpStep ==
  ASSUME KsemaInv, Up
  PROVE  /\ KsemaInv'
         /\ waiting_list = <<>> =>
              /\ value >= 0 /\ value' = value + 1
              /\ waiting_list' = <<>> /\ woken' = woken
         /\ waiting_list # <<>> =>
              /\ value < 0 /\ value' = value + 1
              /\ waiting_list' = Tail(waiting_list)
              /\ woken' = woken \union {Head(waiting_list)}
              /\ Head(waiting_list) \in Thread /\ Head(waiting_list) \notin woken
              /\ loc[Head(waiting_list)] = "wait"
  <1>1. /\ value' = value + 1 /\ WakeupOne /\ UNCHANGED <<current_thread, sleep_vars>>
        /\ value \in Int
    BY DEF Up, KsemaInv
  <1>2. WaitQueueInv'
    BY <1>1, WakeupOneStep DEF KsemaInv
  <1>3. CASE waiting_list = <<>>
    <2>1. waiting_list' = <<>> /\ woken' = woken
      BY <1>1, <1>3, WakeupOneStep DEF KsemaInv
    <2>2. value >= 0
      BY <1>1, <1>3 DEF KsemaInv, ValueCountsWaiters
    <2> QED  BY <1>1, <1>2, <1>3, <2>1, <2>2 DEF KsemaInv, ValueCountsWaiters
  <1>4. CASE waiting_list # <<>>
    <2>1. /\ Head(waiting_list) \in Thread /\ Head(waiting_list) \notin woken
          /\ loc[Head(waiting_list)] = "wait"
          /\ waiting_list' = Tail(waiting_list)
          /\ woken' = woken \union {Head(waiting_list)}
          /\ Len(waiting_list) > 0 /\ Len(waiting_list') = Len(waiting_list) - 1
      BY <1>1, <1>4, WakeupOneStep DEF KsemaInv
    <2>2. value < 0
      BY <1>1, <2>1, KsemaInvLen DEF KsemaInv, ValueCountsWaiters
    <2>3. ValueCountsWaiters'
      BY <1>1, <2>1, <2>2, KsemaInvLen DEF KsemaInv, ValueCountsWaiters
    <2> QED  BY <1>1, <1>2, <1>4, <2>1, <2>2, <2>3 DEF KsemaInv
  <1> QED  BY <1>3, <1>4

(* A step that changes nothing keeps the invariant. *)
LEMMA KsemaStutterInv == KsemaInv /\ UNCHANGED ksema_vars => KsemaInv'
  <1> SUFFICES ASSUME KsemaInv, UNCHANGED ksema_vars PROVE KsemaInv'
    OBVIOUS
  <1>1. WaitQueueInv'
    BY WaitQueueStutterInv DEF KsemaInv, ksema_vars, thread_vars, waitq_vars
  <1> QED
    BY <1>1 DEF KsemaInv, ksema_vars, ValueCountsWaiters

(* Every step keeps the invariant. *)
LEMMA KsemaNextInv == KsemaInv /\ [KsemaNext]_ksema_vars => KsemaInv'
  BY KsemaThreadsStep, KsemaTakeStep, KsemaWaitStep, KsemaReturnStep, KsemaUpStep,
     KsemaStutterInv DEF KsemaNext, SemaStep

(* The invariants hold in every state of the semaphore's system. *)
THEOREM KsemaInvariance == KsemaSpec => []KsemaInv
  BY KsemaInitInv, KsemaNextInv, PTL DEF KsemaSpec

(* Type correctness of the semaphore and its threads. *)
THEOREM KsemaTypeCorrect == KsemaSpec => []KsemaTypeOK
  <1>1. KsemaInv => KsemaTypeOK
    BY DEF KsemaInv, WaitQueueInv, KsemaTypeOK, ThreadsInv
  <1> QED  BY <1>1, KsemaInvariance, PTL

(* The value of the semaphore counts its waiters when it is negative. *)
THEOREM ValueAlwaysCountsWaiters == KsemaSpec => []ValueCountsWaiters
  BY KsemaInvariance, PTL DEF KsemaInv

(* The entries of the wait queue are those of the blocked waiters. *)
THEOREM EntriesAlwaysMatchWaiters == KsemaSpec => []EntriesMatchWaiters
  BY KsemaInvariance, PTL DEF KsemaInv, WaitQueueInv

(* No wake-up is lost. *)
THEOREM WokenNeverBlocked == KsemaSpec => []WokenNotBlocked
  BY KsemaInvariance, PTL DEF KsemaInv, WaitQueueInv

(* sos_kwaitq_wakeup() terminates when a semaphore calls it. *)
THEOREM WakeupAlwaysTerminates == KsemaSpec => []WakeupTerminates
  <1>1. KsemaInv => WakeupTerminates
    BY WaitQueueInvWakeupTerminates DEF KsemaInv
  <1> QED  BY <1>1, KsemaInvariance, PTL

(* The kernel semaphore implements the counting semaphore: initial states  *)
(* map to initial states, and each step to one of its steps or to none.    *)
THEOREM KsemaImplementsSemaphore == KsemaSpec => ImplementsSemaphore
  <1>1. KsemaInit => Semaphore!Init
    BY ValueAssumption DEF KsemaInit, WaitQueueInit, Semaphore!Init, FreeUnits
  <1>2. ASSUME KsemaInv, [KsemaNext]_ksema_vars
        PROVE  [Semaphore!Next]_(Semaphore!vars)
    <2>1. value \in Int
      BY <1>2 DEF KsemaInv
    <2>2. CASE ThreadsNext /\ UNCHANGED sema_vars
      BY <2>2 DEF sema_vars, FreeUnits, Semaphore!vars
    <2>3. ASSUME NEW self \in Thread, DownNow(self) \/ TryDown(self)
          PROVE  Semaphore!Take
      <3>1. value >= 1 /\ value' = value - 1 /\ UNCHANGED <<waiting_list, woken>>
        BY <1>2, <2>3, KsemaTakeStep DEF DownNow, TryDown, waitq_vars
      <3> QED  BY <2>1, <3>1 DEF Semaphore!Take, FreeUnits
    <2>4. ASSUME NEW self \in Thread, NEW b \in BOOLEAN, DownWait(self, b)
          PROVE  Semaphore!Enqueue(self)
      <3>1. /\ value <= 0 /\ self \notin woken /\ ~ InWaitQueue(self) /\ woken' = woken
        BY <1>2, <2>4, KsemaWaitStep
      <3>2. waiting_list' = Append(waiting_list, self) /\ value' = value - 1
        BY <2>4 DEF DownWait, WaitBegin
      <3> QED  BY <2>1, <3>1, <3>2 DEF Semaphore!Enqueue, FreeUnits, InWaitQueue
    <2>5. ASSUME NEW self \in Thread, DownReturn(self)
          PROVE  Semaphore!Collect(self) \/ Semaphore!Withdraw(self)
      <3>1. CASE self \in woken
        <4>1. woken' = woken \ {self} /\ waiting_list' = waiting_list /\ value' = value
          BY <1>2, <2>5, <3>1, KsemaReturnStep
        <4> QED  BY <3>1, <4>1 DEF Semaphore!Collect, FreeUnits
      <3>2. CASE self \notin woken
        <4>1. /\ woken' = woken /\ value' = value + 1 /\ value < 0
              /\ \E i \in DOMAIN waiting_list :
                   waiting_list[i] = self /\ waiting_list' = RemoveAt(waiting_list, i)
          BY <1>2, <2>5, <3>2, KsemaReturnStep
        <4>2. FreeUnits' = FreeUnits
          BY <2>1, <4>1 DEF FreeUnits
        <4> QED  BY <3>2, <4>1, <4>2 DEF Semaphore!Withdraw, RemoveAt, Semaphore!RemoveAt
      <3> QED  BY <3>1, <3>2
    <2>6. CASE Up
      <3>1. CASE waiting_list = <<>>
        <4>1. value >= 0 /\ value' = value + 1 /\ waiting_list' = <<>> /\ woken' = woken
          BY <1>2, <2>6, <3>1, KsemaUpStep
        <4> QED  BY <2>1, <3>1, <4>1 DEF Semaphore!Next, Semaphore!Release, FreeUnits
      <3>2. CASE waiting_list # <<>>
        <4>1. /\ value < 0 /\ value' = value + 1
              /\ waiting_list' = Tail(waiting_list)
              /\ woken' = woken \union {Head(waiting_list)}
          BY <1>2, <2>6, <3>2, KsemaUpStep
        <4> QED  BY <2>1, <3>2, <4>1 DEF Semaphore!Next, Semaphore!Release, FreeUnits
      <3> QED  BY <3>1, <3>2
    <2>7. CASE UNCHANGED ksema_vars
      BY <2>7 DEF ksema_vars, FreeUnits, Semaphore!vars
    <2> QED
      BY <1>2, <2>2, <2>3, <2>4, <2>5, <2>6, <2>7
         DEF KsemaNext, SemaStep, Semaphore!Next
  <1> QED
    BY <1>1, <1>2, KsemaInvariance, PTL DEF KsemaSpec, ImplementsSemaphore, Semaphore!Spec

-----------------------------------------------------------------------------
(* THE CLIENTS OF A SEMAPHORE                                              *)

(* What must be added to the conservation of the units to make it          *)
(* inductive: a holder is not inside a wait (so the unit it holds is not   *)
(* the one granted to a woken waiter), and the sets counted are finite.    *)
HoldersOutsideWait == \A t \in inside : loc[t] # "wait"

ClientsInv ==
  /\ KsemaInv
  /\ inside \subseteq Thread
  /\ IsFiniteSet(inside) /\ IsFiniteSet(woken)
  /\ HoldersOutsideWait
  /\ UnitsConserved

(* Nobody holds a unit at the beginning. *)
LEMMA ClientsInitInv == ClientsInit => ClientsInv
  <1> SUFFICES ASSUME ClientsInit PROVE ClientsInv
    OBVIOUS
  <1>1. KsemaInv /\ inside = {} /\ woken = {} /\ value = InitialValue
    BY KsemaInitInv DEF ClientsInit, KsemaInit, WaitQueueInit
  <1> QED
    BY <1>1, FS_EmptySet, ValueAssumption
       DEF ClientsInv, HoldersOutsideWait, UnitsConserved, FreeUnits

(* The numbers that are added *)
LEMMA ClientsNumbers ==
  ClientsInv => /\ value \in Int /\ FreeUnits \in Nat
                /\ Cardinality(inside) \in Nat /\ Cardinality(woken) \in Nat
                /\ loc \in [Thread -> Location]
  BY FS_CardinalityType
     DEF ClientsInv, KsemaInv, WaitQueueInv, ThreadsInv, ThreadsTypeOK, SleepTypeOK,
         FreeUnits

(* The rest of the clients' code, interrupts, and stuttering *)
LEMMA ClientsElsewhereStep ==
  ASSUME ClientsInv, ClientsElsewhere \/ UNCHANGED clients_vars
  PROVE  ClientsInv'
  <1>1. UNCHANGED <<sema_vars, inside>>
    BY DEF ClientsElsewhere, clients_vars, sema_vars
  <1>2. KsemaInv' /\ \A t \in Thread : loc[t] = "wait" <=> loc'[t] = "wait"
    <2>1. CASE ClientsElsewhere
      BY <2>1, <1>1, KsemaThreadsStep, ThreadsNextWaiters
         DEF ClientsElsewhere, ClientsInv, KsemaInv, WaitQueueInv
    <2>2. CASE UNCHANGED clients_vars
      BY <2>2, KsemaStutterInv DEF clients_vars, ksema_vars, ClientsInv
    <2> QED  BY <2>1, <2>2
  <1> QED
    BY <1>1, <1>2 DEF sema_vars, ClientsInv, HoldersOutsideWait, UnitsConserved, FreeUnits

(* A unit is taken at once. *)
LEMMA EnterStep ==
  ASSUME ClientsInv, NEW self \in Thread, Enter(self)
  PROVE  ClientsInv'
  <1>1. /\ KsemaInv' /\ value >= 1 /\ value' = value - 1
        /\ woken' = woken /\ loc' = loc /\ loc[self] = "run"
        /\ self \notin inside /\ inside' = inside \union {self}
    BY KsemaTakeStep
       DEF ClientsInv, Enter, DownNow, TryDown, InOwnCode, waitq_vars, thread_vars
  <1>2. /\ IsFiniteSet(inside') /\ Cardinality(inside') = Cardinality(inside) + 1
    BY <1>1, FS_AddElement DEF ClientsInv
  <1>3. UnitsConserved'
    BY <1>1, <1>2, ClientsNumbers DEF ClientsInv, UnitsConserved, FreeUnits
  <1> QED  BY <1>1, <1>2, <1>3 DEF ClientsInv, HoldersOutsideWait

(* No unit is free: the client starts to wait. *)
LEMMA EnterWaitStep ==
  ASSUME ClientsInv, NEW self \in Thread, NEW b \in BOOLEAN, EnterWait(self, b)
  PROVE  ClientsInv'
  <1>1. /\ KsemaInv' /\ value <= 0 /\ value' = value - 1 /\ woken' = woken
        /\ self \notin inside /\ inside' = inside
        /\ loc' = [loc EXCEPT ![self] = "wait"]
    BY KsemaWaitStep DEF ClientsInv, EnterWait, DownWait, WaitBegin
  <1>2. UnitsConserved'
    BY <1>1, ClientsNumbers DEF ClientsInv, UnitsConserved, FreeUnits
  <1>3. HoldersOutsideWait'
    BY <1>1, ClientsNumbers DEF ClientsInv, HoldersOutsideWait
  <1> QED  BY <1>1, <1>2, <1>3 DEF ClientsInv

(* The wait ends: the granted unit is held, or the value is restored. *)
LEMMA EnterReturnStep ==
  ASSUME ClientsInv, NEW self \in Thread, EnterReturn(self)
  PROVE  ClientsInv'
  <1>1. /\ DownReturn(self) /\ loc[self] = "wait" /\ self \notin inside
        /\ inside' = IF self \in woken THEN inside \union {self} ELSE inside
        /\ loc' = [loc EXCEPT ![self] = "run"]
    BY DEF EnterReturn, DownReturn, WaitEnd, WaitStatus, ClientsInv, HoldersOutsideWait
  <1>2. /\ KsemaInv'
        /\ self \in woken => woken' = woken \ {self} /\ value' = value
        /\ self \notin woken => woken' = woken /\ value' = value + 1 /\ value < 0
    BY <1>1, KsemaReturnStep DEF ClientsInv
  <1>3. HoldersOutsideWait' /\ inside' \subseteq Thread
    BY <1>1, ClientsNumbers DEF ClientsInv, HoldersOutsideWait
  <1>4. CASE self \in woken
    <2>1. /\ IsFiniteSet(inside') /\ Cardinality(inside') = Cardinality(inside) + 1
          /\ IsFiniteSet(woken') /\ Cardinality(woken') = Cardinality(woken) - 1
      BY <1>1, <1>2, <1>4, FS_AddElement, FS_RemoveElement DEF ClientsInv
    <2>2. UnitsConserved'
      BY <1>2, <1>4, <2>1, ClientsNumbers DEF ClientsInv, UnitsConserved, FreeUnits
    <2> QED  BY <1>2, <1>3, <2>1, <2>2 DEF ClientsInv
  <1>5. CASE self \notin woken
    <2>1. inside' = inside /\ woken' = woken /\ FreeUnits' = FreeUnits
      BY <1>1, <1>2, <1>5, ClientsNumbers DEF FreeUnits
    <2> QED  BY <1>2, <1>3, <2>1 DEF ClientsInv, UnitsConserved
  <1> QED  BY <1>4, <1>5

(* A unit comes back: it is free, or granted to the first waiter. *)
LEMMA LeaveStep ==
  ASSUME ClientsInv, NEW self \in Thread, Leave(self)
  PROVE  ClientsInv'
  <1>1. /\ Up /\ self \in inside /\ inside' = inside \ {self} /\ loc' = loc
    BY DEF Leave, Up, sleep_vars
  <1>2. IsFiniteSet(inside') /\ Cardinality(inside') = Cardinality(inside) - 1
    BY <1>1, FS_RemoveElement DEF ClientsInv
  <1>3. KsemaInv' /\ HoldersOutsideWait' /\ inside' \subseteq Thread
    BY <1>1, KsemaUpStep DEF ClientsInv, HoldersOutsideWait
  <1>4. CASE waiting_list = <<>>
    <2>1. value >= 0 /\ value' = value + 1 /\ woken' = woken
      BY <1>1, <1>4, KsemaUpStep DEF ClientsInv
    <2>2. UnitsConserved'
      BY <1>2, <2>1, ClientsNumbers DEF ClientsInv, UnitsConserved, FreeUnits
    <2> QED  BY <1>2, <1>3, <2>1, <2>2 DEF ClientsInv
  <1>5. CASE waiting_list # <<>>
    <2>1. /\ value < 0 /\ value' = value + 1
          /\ woken' = woken \union {Head(waiting_list)}
          /\ Head(waiting_list) \notin woken
      BY <1>1, <1>5, KsemaUpStep DEF ClientsInv
    <2>2. IsFiniteSet(woken') /\ Cardinality(woken') = Cardinality(woken) + 1
      BY <2>1, FS_AddElement DEF ClientsInv
    <2>3. UnitsConserved'
      BY <1>2, <2>1, <2>2, ClientsNumbers DEF ClientsInv, UnitsConserved, FreeUnits
    <2> QED  BY <1>2, <1>3, <2>2, <2>3 DEF ClientsInv
  <1> QED  BY <1>4, <1>5

(* Every step of the clients keeps the invariant. *)
LEMMA ClientsNextInv == ClientsInv /\ [ClientsNext]_clients_vars => ClientsInv'
  BY ClientsElsewhereStep, EnterStep, EnterWaitStep, EnterReturnStep, LeaveStep
     DEF ClientsNext, ClientStep

(* Clients that share the units of a semaphore keep ClientsInv. *)
THEOREM ClientsInvariance == ClientsSpec => []ClientsInv
  BY ClientsInitInv, ClientsNextInv, PTL DEF ClientsSpec

(* No unit of the semaphore is lost and none is duplicated. *)
THEOREM UnitsAlwaysConserved == ClientsSpec => []UnitsConserved
  BY ClientsInvariance, PTL DEF ClientsInv

(* As many holders as the semaphore has units, at most: with one unit,     *)
(* SemMap of mouse_sim.c excludes its clients from one another.            *)
THEOREM HoldersBounded == ClientsSpec => [](Cardinality(inside) <= InitialValue)
  <1>1. ClientsInv => Cardinality(inside) <= InitialValue
    BY ClientsNumbers, ValueAssumption DEF ClientsInv, UnitsConserved
  <1> QED  BY <1>1, ClientsInvariance, PTL

(* MaxValue, the bound of the model on the value, never keeps a client     *)
(* from giving its unit back.                                              *)
THEOREM BoundNeverReached == ClientsSpec => [](inside # {} => value < MaxValue)
  <1>1. ASSUME ClientsInv, inside # {} PROVE value < MaxValue
    <2>1. /\ value \in Int /\ FreeUnits \in Nat
          /\ Cardinality(inside) \in Nat /\ Cardinality(woken) \in Nat
      BY <1>1, ClientsNumbers
    <2>2. Cardinality(inside) # 0
      BY <1>1, FS_EmptySet DEF ClientsInv
    <2>3. FreeUnits < InitialValue
      BY <1>1, <2>1, <2>2, ValueAssumption DEF ClientsInv, UnitsConserved
    <2> QED  BY <2>1, <2>3, ValueAssumption DEF FreeUnits
  <1> QED  BY <1>1, ClientsInvariance, PTL

-----------------------------------------------------------------------------
(* MUTEXES                                                                 *)

(* What must be added to the invariants to make them inductive: a free     *)
(* mutex is waited for by nobody (Unlock would otherwise free a mutex that *)
(* a sleeping waiter can no longer be handed).                             *)
FreeIsNotAwaited == owner = Null => waiting_list = <<>>
AtMostOneHolder == \A t, u \in holding \union woken : t = u

KmutexInv ==
  /\ WaitQueueInv
  /\ owner \in Thread \union {Null}
  /\ holding \subseteq Thread
  /\ OwnerIsHolder
  /\ AtMostOneHolder
  /\ FreeIsNotAwaited

(* The invariant holds when the mutex is created. *)
LEMMA KmutexInitInv == KmutexInit => KmutexInv
  <1> SUFFICES ASSUME KmutexInit PROVE KmutexInv
    OBVIOUS
  <1>1. WaitQueueInv
    BY WaitQueueInitInv DEF KmutexInit
  <1> QED
    BY <1>1 DEF KmutexInit, WaitQueueInit, KmutexInv, OwnerIsHolder, AtMostOneHolder,
                FreeIsNotAwaited

(* sos_kmutex_lock() and sos_kmutex_trylock() of a free mutex *)
LEMMA LockNowStep ==
  ASSUME KmutexInv, NEW self \in Thread, LockNow(self)
  PROVE  /\ KmutexInv'
         /\ owner = Null /\ owner' # Null
         /\ waiting_list' = waiting_list /\ woken' = woken
  <1>1. WaitQueueInv' /\ waiting_list' = waiting_list /\ woken' = woken
    BY WaitQueueStutterInv DEF KmutexInv, LockNow, waitq_vars
  <1>2. owner = Null /\ owner' = self /\ self # Null
    BY NullAssumption DEF LockNow
  <1>3. holding = {} /\ woken = {} /\ holding' = {self}
    BY <1>2 DEF LockNow, KmutexInv, OwnerIsHolder
  <1> QED
    BY <1>1, <1>2, <1>3 DEF KmutexInv, OwnerIsHolder, AtMostOneHolder, FreeIsNotAwaited

(* sos_kmutex_lock() when it must wait *)
LEMMA LockWaitStep ==
  ASSUME KmutexInv, NEW self \in Thread, NEW b \in BOOLEAN, LockWait(self, b)
  PROVE  /\ KmutexInv'
         /\ owner # Null /\ owner' = owner
         /\ self \notin woken /\ ~ InWaitQueue(self)
         /\ waiting_list' = Append(waiting_list, self) /\ woken' = woken
  <1>1. /\ InOwnCode(self) /\ self # Idle /\ WaitBegin(self, b)
        /\ owner # Null /\ owner' = owner /\ holding' = holding
    BY DEF LockWait
  <1>2. /\ WaitQueueInv' /\ self \notin woken /\ ~ InWaitQueue(self)
        /\ waiting_list' = Append(waiting_list, self) /\ woken' = woken
    BY <1>1, WaitBeginStep DEF KmutexInv
  <1> QED
    BY <1>1, <1>2 DEF KmutexInv, OwnerIsHolder, AtMostOneHolder, FreeIsNotAwaited

(* sos_kmutex_lock() back from its wait, with the mutex or without it *)
LEMMA LockReturnStep ==
  ASSUME KmutexInv, NEW self \in Thread, self \notin holding, LockReturn(self)
  PROVE  /\ KmutexInv'
         /\ owner # Null /\ owner' # Null
         /\ self \in woken =>
              woken' = woken \ {self} /\ waiting_list' = waiting_list
         /\ self \notin woken =>
              /\ woken' = woken
              /\ \E i \in DOMAIN waiting_list :
                   waiting_list[i] = self /\ waiting_list' = RemoveAt(waiting_list, i)
  <1>1. self = current_thread /\ loc[self] = "wait" /\ WaitEnd(self)
    BY DEF LockReturn
  <1>2. /\ WaitQueueInv'
        /\ self \in woken => woken' = woken \ {self} /\ waiting_list' = waiting_list
        /\ self \notin woken =>
             /\ woken' = woken
             /\ \E i \in DOMAIN waiting_list :
                  waiting_list[i] = self /\ waiting_list' = RemoveAt(waiting_list, i)
    BY <1>1, WaitEndStep DEF KmutexInv
  <1>3. CASE self \in woken
    <2>1. owner # Null /\ woken = {self} /\ holding = {}
      BY <1>3 DEF KmutexInv, OwnerIsHolder, AtMostOneHolder
    <2>2. owner' = self /\ holding' = {self} /\ woken' = {} /\ self # Null
      BY <1>2, <1>3, <2>1, NullAssumption DEF LockReturn, WaitStatus
    <2> QED
      BY <1>2, <1>3, <2>1, <2>2
         DEF KmutexInv, OwnerIsHolder, AtMostOneHolder, FreeIsNotAwaited
  <1>4. CASE self \notin woken
    <2>1. owner' = owner /\ holding' = holding /\ woken' = woken
      BY <1>2, <1>4 DEF LockReturn, WaitStatus
    <2>2. owner # Null
      BY <1>2, <1>4 DEF KmutexInv, FreeIsNotAwaited
    <2> QED
      BY <1>2, <1>4, <2>1, <2>2
         DEF KmutexInv, OwnerIsHolder, AtMostOneHolder, FreeIsNotAwaited
  <1> QED  BY <1>3, <1>4

(* sos_kmutex_unlock(): the mutex becomes free, or goes to the first       *)
(* waiter while mutex->owner still designates its former owner.            *)
LEMMA UnlockStep ==
  ASSUME KmutexInv, NEW self \in holding, Unlock(self)
  PROVE  /\ KmutexInv'
         /\ owner # Null
         /\ waiting_list = <<>> =>
              owner' = Null /\ waiting_list' = <<>> /\ woken' = woken
         /\ waiting_list # <<>> =>
              /\ owner' # Null
              /\ waiting_list' = Tail(waiting_list)
              /\ woken' = woken \union {Head(waiting_list)}
  <1>1. /\ self \in Thread /\ InOwnCode(self) /\ owner = self /\ WakeupOne
        /\ owner' = IF waiting_list = <<>> THEN Null ELSE owner
        /\ holding' = holding \ {self}
        /\ UNCHANGED <<current_thread, sleep_vars>>
    BY DEF Unlock, KmutexInv
  <1>2. owner # Null
    BY <1>1, NullAssumption
  <1>3. self \notin woken
    BY <1>1 DEF InOwnCode, KmutexInv, WaitQueueInv, EntriesMatchWaiters
  <1>4. woken = {} /\ holding' = {}
    BY <1>1, <1>3 DEF KmutexInv, AtMostOneHolder
  <1>5. WaitQueueInv'
    BY <1>1, WakeupOneStep DEF KmutexInv
  <1>6. CASE waiting_list = <<>>
    <2>1. waiting_list' = <<>> /\ woken' = woken
      BY <1>1, <1>6, WakeupOneStep DEF KmutexInv
    <2> QED
      BY <1>1, <1>2, <1>4, <1>5, <1>6, <2>1
         DEF KmutexInv, OwnerIsHolder, AtMostOneHolder, FreeIsNotAwaited
  <1>7. CASE waiting_list # <<>>
    <2>1. /\ waiting_list' = Tail(waiting_list)
          /\ woken' = woken \union {Head(waiting_list)}
      BY <1>1, <1>7, WakeupOneStep DEF KmutexInv
    <2> QED
      BY <1>1, <1>2, <1>4, <1>5, <1>7, <2>1
         DEF KmutexInv, OwnerIsHolder, AtMostOneHolder, FreeIsNotAwaited
  <1> QED  BY <1>6, <1>7

(* The rest of the threads' code, interrupts, and stuttering *)
LEMMA KmutexElsewhereStep ==
  ASSUME KmutexInv, Elsewhere \/ UNCHANGED kmutex_vars
  PROVE  KmutexInv'
  <1>1. UNCHANGED <<waiting_list, woken, owner, holding>>
    BY DEF Elsewhere, kmutex_vars, waitq_vars
  <1>2. WaitQueueInv'
    <2>1. CASE Elsewhere
      BY <2>1, WaitQueueThreadsStep DEF Elsewhere, KmutexInv
    <2>2. CASE UNCHANGED kmutex_vars
      BY <2>2, WaitQueueStutterInv DEF kmutex_vars, thread_vars, waitq_vars, KmutexInv
    <2> QED  BY <2>1, <2>2
  <1> QED
    BY <1>1, <1>2 DEF KmutexInv, OwnerIsHolder, AtMostOneHolder, FreeIsNotAwaited

(* Every step keeps the invariant. *)
LEMMA KmutexNextInv == KmutexInv /\ [KmutexNext]_kmutex_vars => KmutexInv'
  BY LockNowStep, LockWaitStep, LockReturnStep, UnlockStep, KmutexElsewhereStep
     DEF KmutexNext, LockStep

(* The invariants hold in every state of the mutex's system. *)
THEOREM KmutexInvariance == KmutexSpec => []KmutexInv
  BY KmutexInitInv, KmutexNextInv, PTL DEF KmutexSpec

(* Type correctness of the mutex and its threads. *)
THEOREM KmutexTypeCorrect == KmutexSpec => []KmutexTypeOK
  <1>1. KmutexInv => KmutexTypeOK
    BY DEF KmutexInv, WaitQueueInv, ThreadsInv, KmutexTypeOK
  <1> QED  BY <1>1, KmutexInvariance, PTL

(* The mutex is held by, or on its way to, at most one thread, and its     *)
(* holder is its owner.                                                    *)
THEOREM KmutexExcludes == KmutexSpec => []MutualExclusion
  <1>1. ASSUME KmutexInv PROVE Cardinality(holding \union woken) <= 1
    <2>1. CASE holding \union woken = {}
      BY <2>1, FS_EmptySet
    <2>2. CASE \E t : holding \union woken = {t}
      BY <2>2, FS_Singleton
    <2> QED  BY <1>1, <2>1, <2>2 DEF KmutexInv, AtMostOneHolder
  <1>2. KmutexInv => MutualExclusion
    BY <1>1 DEF KmutexInv, MutualExclusion
  <1> QED  BY <1>2, KmutexInvariance, PTL

(* Every wake-up loop that an unlock starts terminates. *)
THEOREM KmutexWakeupTerminates == KmutexSpec => []WakeupTerminates
  <1>1. KmutexInv => WakeupTerminates
    BY WaitQueueInvWakeupTerminates DEF KmutexInv
  <1> QED  BY <1>1, KmutexInvariance, PTL

(* The mutex implements the counting semaphore with one unit: an unlock    *)
(* that finds a waiter is a release that grants it the unit, although      *)
(* mutex->owner does not change.                                           *)
THEOREM KmutexImplementsSemaphore == KmutexSpec => ImplementsBinarySemaphore
  <1>1. KmutexInit => BinarySemaphore!Init
    BY DEF KmutexInit, WaitQueueInit, BinarySemaphore!Init
  <1>2. ASSUME KmutexInv, [KmutexNext]_kmutex_vars
        PROVE  [BinarySemaphore!Next]_(BinarySemaphore!vars)
    <2>1. CASE Elsewhere \/ UNCHANGED kmutex_vars
      BY <2>1 DEF Elsewhere, kmutex_vars, waitq_vars, BinarySemaphore!vars
    <2>2. ASSUME NEW self \in Thread, LockNow(self)
          PROVE  BinarySemaphore!Take
      BY <1>2, <2>2, LockNowStep DEF BinarySemaphore!Take
    <2>3. ASSUME NEW self \in Thread, NEW b \in BOOLEAN, LockWait(self, b)
          PROVE  BinarySemaphore!Enqueue(self)
      BY <1>2, <2>3, LockWaitStep DEF BinarySemaphore!Enqueue, InWaitQueue
    <2>4. ASSUME NEW self \in Thread, self \notin holding, LockReturn(self)
          PROVE  BinarySemaphore!Collect(self) \/ BinarySemaphore!Withdraw(self)
      <3>1. owner # Null /\ owner' # Null
        BY <1>2, <2>4, LockReturnStep
      <3>2. CASE self \in woken
        <4>1. woken' = woken \ {self} /\ waiting_list' = waiting_list
          BY <1>2, <2>4, <3>2, LockReturnStep
        <4> QED  BY <3>1, <3>2, <4>1 DEF BinarySemaphore!Collect
      <3>3. CASE self \notin woken
        <4>1. /\ woken' = woken
              /\ \E i \in DOMAIN waiting_list :
                   waiting_list[i] = self /\ waiting_list' = RemoveAt(waiting_list, i)
          BY <1>2, <2>4, <3>3, LockReturnStep
        <4> QED
          BY <3>1, <3>3, <4>1
             DEF BinarySemaphore!Withdraw, RemoveAt, BinarySemaphore!RemoveAt
      <3> QED  BY <3>2, <3>3
    <2>5. ASSUME NEW self \in holding, Unlock(self)
          PROVE  BinarySemaphore!Release
      <3>1. CASE waiting_list = <<>>
        <4>1. owner # Null /\ owner' = Null /\ waiting_list' = <<>> /\ woken' = woken
          BY <1>2, <2>5, <3>1, UnlockStep
        <4> QED  BY <3>1, <4>1 DEF BinarySemaphore!Release
      <3>2. CASE waiting_list # <<>>
        <4>1. /\ owner # Null /\ owner' # Null
              /\ waiting_list' = Tail(waiting_list)
              /\ woken' = woken \union {Head(waiting_list)}
          BY <1>2, <2>5, <3>2, UnlockStep
        <4> QED  BY <3>2, <4>1 DEF BinarySemaphore!Release
      <3> QED  BY <3>1, <3>2
    <2> QED
      BY <1>2, <2>1, <2>2, <2>3, <2>4, <2>5
         DEF KmutexNext, LockStep, BinarySemaphore!Next
  <1> QED
    BY <1>1, <1>2, KmutexInvariance, PTL
       DEF KmutexSpec, ImplementsBinarySemaphore, BinarySemaphore!Spec

=============================================================================
