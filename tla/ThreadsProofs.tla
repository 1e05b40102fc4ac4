--------------------------- MODULE ThreadsProofs ---------------------------
(***************************************************************************)
(* The safety invariants of the scheduler and of the thread API, and the   *)
(* order of dispatching, for any set of threads; then, what the wait queue *)
(* and the threads say of each other, which the thread API and every       *)
(* operation of the queue preserve.  The proofs of the semaphore and of    *)
(* the mutex rest on these steps.                                          *)
(***************************************************************************)
EXTENDS WaitQueue, SequenceLemmas

-----------------------------------------------------------------------------
(* THE SCHEDULER: each of its operations keeps the ready queue consistent  *)
(* with the states of the threads.                                         *)

(* A queue q is consistent with thread states st, when no thread runs. *)
Dispatchable(st, q) ==
  /\ st \in [Thread -> ThreadState]
  /\ q \in Seq(Thread)
  /\ \A t \in Thread : st[t] # "RUNNING"
  /\ \A t \in Thread : (\E i \in DOMAIN q : q[i] = t) <=> (st[t] = "READY")
  /\ \A i, j \in DOMAIN q : q[i] = q[j] => i = j

(* Dispatching the head of such a queue gives a consistent scheduler. *)
LEMMA DispatchConsistent ==
  ASSUME NEW STATE st, NEW STATE q, Dispatchable(st, q), Dispatch(st, q)
  PROVE  /\ SchedTypeOK' /\ SchedConsistent'
         /\ current_thread' \in Thread
         /\ state' = [st EXCEPT ![current_thread'] = "RUNNING"]
         /\ st[current_thread'] = "READY"
  <1>1. /\ q \in Seq(Thread) /\ q # <<>>
        /\ st \in [Thread -> ThreadState]
    BY DEF Dispatchable, Dispatch
  <1>2. /\ Tail(q) \in Seq(Thread)
        /\ Head(q) \in Thread
        /\ Head(q) = q[1]
        /\ Len(q) \in Nat \ {0}
        /\ DOMAIN q = 1 .. Len(q)
        /\ DOMAIN Tail(q) = 1 .. (Len(q) - 1)
        /\ \A i \in 1 .. (Len(q) - 1) : Tail(q)[i] = q[i + 1]
    BY <1>1, TailPlaces
  <1>3. /\ current_thread' = Head(q)
        /\ ready_queue' = Tail(q)
        /\ state' = [st EXCEPT ![Head(q)] = "RUNNING"]
    BY DEF Dispatch
  <1>4. st[Head(q)] = "READY"
    BY <1>2 DEF Dispatchable
  <1>5. SchedTypeOK'
    BY <1>1, <1>2, <1>3 DEF SchedTypeOK, ThreadState
  <1>6. OneRunning'
    BY <1>1, <1>2, <1>3 DEF OneRunning, Dispatchable
  <1>7. QueueNoDuplicate'
    <2> SUFFICES ASSUME NEW i \in 1 .. (Len(q) - 1), NEW j \in 1 .. (Len(q) - 1),
                        q[i + 1] = q[j + 1]
                 PROVE  i = j
      BY <1>2, <1>3 DEF QueueNoDuplicate
    <2> QED  BY <1>2 DEF Dispatchable
  <1>8. QueueHoldsReady'
    <2> SUFFICES ASSUME NEW t \in Thread
                 PROVE  InReadyQueue(t)' <=> (state'[t] = "READY")
      BY DEF QueueHoldsReady
    <2>0. InReadyQueue(t)' <=> \E i \in 1 .. (Len(q) - 1) : q[i + 1] = t
      BY <1>2, <1>3 DEF InReadyQueue
    <2>1. CASE t = Head(q)
      <3>1. state'[t] = "RUNNING"  BY <1>1, <1>3, <2>1
      <3>2. \A i \in 1 .. (Len(q) - 1) : q[i + 1] # q[1]
        BY <1>2 DEF Dispatchable
      <3> QED  BY <1>2, <2>0, <2>1, <3>1, <3>2
    <2>2. CASE t # Head(q)
      <3>1. state'[t] = st[t]  BY <1>1, <1>3, <2>2
      <3>2. ASSUME NEW i \in 1 .. Len(q), q[i] = t
            PROVE  \E k \in 1 .. (Len(q) - 1) : q[k + 1] = t
        <4>1. i # 1  BY <1>2, <2>2, <3>2
        <4>2. i - 1 \in 1 .. (Len(q) - 1) /\ (i - 1) + 1 = i  BY <1>2, <4>1
        <4> QED  BY <3>2, <4>2
      <3>3. (\E i \in 1 .. Len(q) : q[i] = t) <=> (st[t] = "READY")
        BY <1>2 DEF Dispatchable
      <3>4. \A k \in 1 .. (Len(q) - 1) : k + 1 \in 1 .. Len(q)  BY <1>2
      <3> QED  BY <2>0, <3>1, <3>2, <3>3, <3>4
    <2> QED  BY <2>1, <2>2
  <1> QED  BY <1>2, <1>3, <1>4, <1>5, <1>6, <1>7, <1>8 DEF SchedConsistent

(* sos_thread_yield(): the caller goes to the tail, and there is always a  *)
(* thread to dispatch, the caller itself if the queue was empty.           *)
LEMMA YieldConsistent ==
  ASSUME SchedTypeOK, SchedConsistent, YieldCPU
  PROVE  /\ SchedTypeOK' /\ SchedConsistent'
         /\ \A t \in Thread : state[t] = "BLOCKED" <=> state'[t] = "BLOCKED"
         /\ \A t \in Thread : state[t] = "FREE" <=> state'[t] = "FREE"
         /\ \A t \in Thread : state[t] = "CREATED" <=> state'[t] = "CREATED"
  <1> DEFINE st == [state EXCEPT ![current_thread] = "READY"]
             q == Append(ready_queue, current_thread)
  <1>1. /\ q \in Seq(Thread)
        /\ Len(ready_queue) \in Nat
        /\ DOMAIN ready_queue = 1 .. Len(ready_queue)
        /\ DOMAIN q = 1 .. (Len(ready_queue) + 1)
        /\ \A i \in 1 .. Len(ready_queue) : q[i] = ready_queue[i]
        /\ q[Len(ready_queue) + 1] = current_thread
    BY AppendPlaces DEF SchedTypeOK
  <1> HIDE DEF q
  <1>2. Dispatchable(st, q)
    <2>1. st \in [Thread -> ThreadState]
      BY DEF SchedTypeOK, ThreadState
    <2>2. \A t \in Thread : st[t] # "RUNNING"
      BY DEF SchedTypeOK, SchedConsistent, OneRunning
    <2>3. ~ InReadyQueue(current_thread)
      BY DEF SchedTypeOK, SchedConsistent, QueueHoldsReady, OneRunning
    <2>4. ASSUME NEW t \in Thread
          PROVE  (\E i \in DOMAIN q : q[i] = t) <=> (st[t] = "READY")
      <3>1. CASE t = current_thread
        BY <1>1, <3>1 DEF SchedTypeOK
      <3>2. CASE t # current_thread
        <4>1. (\E i \in DOMAIN q : q[i] = t) <=> InReadyQueue(t)
          BY <1>1, <3>2 DEF InReadyQueue
        <4>2. InReadyQueue(t) <=> state[t] = "READY"
          BY DEF SchedConsistent, QueueHoldsReady
        <4> QED  BY <3>2, <4>1, <4>2 DEF SchedTypeOK
      <3> QED  BY <3>1, <3>2
    <2>5. ASSUME NEW i \in DOMAIN q, NEW j \in DOMAIN q, q[i] = q[j]
          PROVE  i = j
      BY <1>1, <2>3, <2>5 DEF InReadyQueue, SchedConsistent, QueueNoDuplicate
    <2> QED  BY <1>1, <2>1, <2>2, <2>4, <2>5 DEF Dispatchable
  <1>3. Dispatch(st, q)
    BY DEF YieldCPU, q
  <1>4. /\ SchedTypeOK' /\ SchedConsistent'
        /\ current_thread' \in Thread
        /\ state' = [st EXCEPT ![current_thread'] = "RUNNING"]
        /\ st[current_thread'] = "READY"
    BY <1>2, <1>3, DispatchConsistent
  <1> QED
    BY <1>4 DEF SchedTypeOK, SchedConsistent, OneRunning

(* A thread that blocks or exits: gone is its next state. *)
LEMMA GiveUpConsistent ==
  ASSUME SchedTypeOK, SchedConsistent, NEW gone \in {"BLOCKED", "FREE"},
         Dispatch([state EXCEPT ![current_thread] = gone], ready_queue)
  PROVE  /\ SchedTypeOK' /\ SchedConsistent'
         /\ state'[current_thread] = gone
         /\ current_thread' \in Thread \ {current_thread}
         /\ state[current_thread'] = "READY"
         /\ \A t \in Thread \ {current_thread, current_thread'} : state'[t] = state[t]
  <1> DEFINE st == [state EXCEPT ![current_thread] = gone]
  <1>1. Dispatchable(st, ready_queue)
    BY DEF Dispatchable, SchedTypeOK, ThreadState, SchedConsistent, OneRunning,
           QueueHoldsReady, QueueNoDuplicate, InReadyQueue
  <1>2. /\ SchedTypeOK' /\ SchedConsistent'
        /\ current_thread' \in Thread
        /\ state' = [st EXCEPT ![current_thread'] = "RUNNING"]
        /\ st[current_thread'] = "READY"
    BY <1>1, DispatchConsistent
  <1> QED
    BY <1>2 DEF SchedTypeOK

(* sos_sched_set_ready() on a thread that does not run. *)
LEMMA SetReadyConsistent ==
  ASSUME SchedTypeOK, SchedConsistent, NEW t \in Thread, t # current_thread,
         SetReady(t), UNCHANGED current_thread
  PROVE  SchedTypeOK' /\ SchedConsistent'
  <1>1. CASE state[t] = "READY"
    <2>1. state' = state /\ ready_queue' = ready_queue
      BY <1>1 DEF SetReady, SchedTypeOK
    <2> QED
      BY <2>1 DEF SchedTypeOK, SchedConsistent, OneRunning, QueueHoldsReady,
                  QueueNoDuplicate, InReadyQueue
  <1>2. CASE state[t] # "READY"
    <2>1. /\ ready_queue' = Append(ready_queue, t)
          /\ state' = [state EXCEPT ![t] = "READY"]
      BY <1>2 DEF SetReady
    <2>2. /\ ready_queue' \in Seq(Thread)
          /\ Len(ready_queue) \in Nat
          /\ DOMAIN ready_queue = 1 .. Len(ready_queue)
          /\ DOMAIN ready_queue' = 1 .. (Len(ready_queue) + 1)
          /\ \A i \in 1 .. Len(ready_queue) : ready_queue'[i] = ready_queue[i]
          /\ ready_queue'[Len(ready_queue) + 1] = t
      BY <2>1, AppendPlaces DEF SchedTypeOK
    <2>3. ~ InReadyQueue(t)
      BY <1>2 DEF SchedConsistent, QueueHoldsReady
    <2>4. SchedTypeOK'
      BY <2>1, <2>2 DEF SchedTypeOK, ThreadState
    <2>5. OneRunning'
      BY <2>1 DEF SchedTypeOK, SchedConsistent, OneRunning
    <2>6. QueueNoDuplicate'
      BY <2>2, <2>3 DEF InReadyQueue, SchedConsistent, QueueNoDuplicate
    <2>7. QueueHoldsReady'
      <3> SUFFICES ASSUME NEW u \in Thread
                   PROVE  InReadyQueue(u)' <=> (state'[u] = "READY")
        BY DEF QueueHoldsReady
      <3>1. CASE u = t
        BY <2>1, <2>2, <3>1 DEF InReadyQueue, SchedTypeOK
      <3>2. CASE u # t
        <4>1. InReadyQueue(u)' <=> InReadyQueue(u)
          BY <2>2, <3>2 DEF InReadyQueue
        <4>2. InReadyQueue(u) <=> state[u] = "READY"
          BY DEF SchedConsistent, QueueHoldsReady
        <4> QED  BY <2>1, <3>2, <4>1, <4>2 DEF SchedTypeOK
      <3> QED  BY <3>1, <3>2
    <2> QED  BY <2>4, <2>5, <2>6, <2>7 DEF SchedConsistent
  <1> QED  BY <1>1, <1>2

-----------------------------------------------------------------------------
(* THE THREADS                                                             *)

(* What must be added to the invariants to make them inductive: the frame  *)
(* of a timed sleep belongs to a sleeping thread, an action that triggered *)
(* has left the list, and the idle thread never blocks nor exits.          *)
TimeoutFrames ==
  /\ \A t \in timed : loc[t] \in Sleeping
  /\ \A t \in fired : t \in timed /\ t \notin armed
IdleAwake == state[Idle] \in {"READY", "RUNNING"}

ThreadsInv ==
  /\ ThreadsTypeOK
  /\ SchedConsistent
  /\ NoDanglingTimeout
  /\ SleeperHasWaker
  /\ LocMatchesState
  /\ TimeoutFrames
  /\ IdleAwake

(* The invariant holds when the initial thread and the idle thread exist. *)
LEMMA ThreadsInitInv == ThreadsInit => ThreadsInv
  <1> SUFFICES ASSUME ThreadsInit PROVE ThreadsInv
    OBVIOUS
  <1> USE IdleKinitAssumption DEF ThreadsInit
  <1>1. ThreadsTypeOK
    BY DEF ThreadsTypeOK, SchedTypeOK, SleepTypeOK, ThreadState, Location
  <1>2. SchedConsistent
    BY DEF SchedConsistent, OneRunning, QueueHoldsReady, InReadyQueue, QueueNoDuplicate
  <1>3. /\ NoDanglingTimeout /\ SleeperHasWaker /\ LocMatchesState
        /\ TimeoutFrames /\ IdleAwake
    BY DEF NoDanglingTimeout, SleeperHasWaker, LocMatchesState, TimeoutFrames,
           IdleAwake, Sleeping
  <1> QED  BY <1>1, <1>2, <1>3 DEF ThreadsInv

(* A call that gives the CPU away and blocks, with or without a timeout,   *)
(* in sos_thread_sleep() itself or in a wait built on it.                  *)
LEMMA BeginSleepInv ==
  ASSUME ThreadsInv, NEW self \in Thread, NEW b \in BOOLEAN, NEW where \in Sleeping,
         InOwnCode(self), self # Idle, BeginSleep(self, b),
         loc' = [loc EXCEPT ![self] = where]
  PROVE  ThreadsInv'
  <1>1. /\ self = current_thread /\ loc[self] = "run" /\ self \notin timed
        /\ self \notin fired /\ self \notin armed
    BY DEF InOwnCode, ThreadsInv, TimeoutFrames, NoDanglingTimeout, Sleeping
  <1>2. /\ SchedTypeOK' /\ SchedConsistent'
        /\ state'[self] = "BLOCKED"
        /\ current_thread' \in Thread \ {self}
        /\ state[current_thread'] = "READY"
        /\ \A t \in Thread \ {self, current_thread'} : state'[t] = state[t]
    BY <1>1, GiveUpConsistent DEF BeginSleep, BlockCPU, ThreadsInv, ThreadsTypeOK
  <1>3. state'[current_thread'] = "RUNNING"
    BY <1>2 DEF SchedConsistent, OneRunning
  <1>4. /\ timed' = IF b THEN timed \union {self} ELSE timed
        /\ armed' = IF b THEN armed \union {self} ELSE armed
        /\ fired' = fired
    BY DEF BeginSleep
  <1>5. \A t \in Thread : loc'[t] = IF t = self THEN where ELSE loc[t]
    BY DEF ThreadsInv, ThreadsTypeOK, SleepTypeOK
  <1>6. ThreadsTypeOK'
    BY <1>2, <1>4 DEF ThreadsInv, ThreadsTypeOK, SleepTypeOK, Sleeping, Location
  <1>7. NoDanglingTimeout' /\ TimeoutFrames'
    BY <1>1, <1>4, <1>5
       DEF ThreadsInv, ThreadsTypeOK, SleepTypeOK, NoDanglingTimeout, TimeoutFrames
  <1>8. SleeperHasWaker'
    <2> SUFFICES ASSUME NEW t \in timed', state'[t] = "BLOCKED"
                 PROVE  t \in armed'
      BY DEF SleeperHasWaker
    <2>1. t \in Thread /\ t # current_thread'
      BY <1>3, <1>6 DEF ThreadsTypeOK, SleepTypeOK
    <2>2. CASE t = self
      BY <1>1, <1>4, <2>2
    <2>3. CASE t # self
      <3>1. state[t] = "BLOCKED" /\ t \in timed
        BY <1>2, <1>4, <2>1, <2>3
      <3> QED  BY <1>4, <3>1 DEF ThreadsInv, SleeperHasWaker
    <2> QED  BY <2>2, <2>3
  <1>9. LocMatchesState'
    BY <1>1, <1>2, <1>3, <1>4, <1>5, IdleKinitAssumption
       DEF ThreadsInv, LocMatchesState, Sleeping
  <1>10. IdleAwake'
    BY <1>2, <1>3, IdleKinitAssumption DEF ThreadsInv, IdleAwake
  <1> QED  BY <1>2, <1>6, <1>7, <1>8, <1>9, <1>10 DEF ThreadsInv

(* The end of such a call. *)
LEMMA EndSleepInv ==
  ASSUME ThreadsInv, NEW self \in Thread, self = current_thread,
         loc[self] \in Sleeping, EndSleep(self),
         loc' = [loc EXCEPT ![self] = "run"], UNCHANGED sched_vars
  PROVE  ThreadsInv'
  <1>1. /\ state' = state /\ ready_queue' = ready_queue
        /\ current_thread' = current_thread
    BY DEF sched_vars
  <1>2. SchedTypeOK' /\ SchedConsistent' /\ IdleAwake'
    BY <1>1 DEF ThreadsInv, ThreadsTypeOK, SchedTypeOK, SchedConsistent, OneRunning,
                QueueHoldsReady, InReadyQueue, QueueNoDuplicate, IdleAwake
  <1>3. /\ timed' = timed \ {self} /\ fired' = fired \ {self}
        /\ armed' = armed \ {self}
    BY DEF EndSleep, SleepStatus, ThreadsInv, NoDanglingTimeout, TimeoutFrames
  <1>4. \A t \in Thread : loc'[t] = IF t = self THEN "run" ELSE loc[t]
    BY DEF ThreadsInv, ThreadsTypeOK, SleepTypeOK
  <1>5. SleepTypeOK'
    BY <1>3 DEF ThreadsInv, ThreadsTypeOK, SleepTypeOK, Location
  <1>6. NoDanglingTimeout' /\ TimeoutFrames' /\ SleeperHasWaker'
    BY <1>1, <1>3, <1>4 DEF ThreadsInv, ThreadsTypeOK, SleepTypeOK,
       NoDanglingTimeout, TimeoutFrames, SleeperHasWaker
  <1>7. state[self] = "RUNNING"
    BY DEF ThreadsInv, SchedConsistent, OneRunning
  <1>8. LocMatchesState'
    BY <1>1, <1>3, <1>4, <1>7, IdleKinitAssumption
       DEF ThreadsInv, LocMatchesState, Sleeping
  <1> QED  BY <1>2, <1>5, <1>6, <1>8 DEF ThreadsInv, ThreadsTypeOK

(* Waking a thread up keeps every invariant but the pairing of timeouts    *)
(* with sleepers, which does not mind because a READY thread needs no      *)
(* waker.                                                                  *)
LEMMA ForceUnblockInv ==
  ASSUME ThreadsInv, NEW t \in Thread, state[t] \notin {"FREE", "CREATED"},
         ForceUnblock(t), UNCHANGED <<current_thread, loc, timed>>,
         \/ UNCHANGED <<armed, fired>>
         \/ t \in armed /\ armed' = armed \ {t} /\ fired' = fired \union {t}
  PROVE  ThreadsInv'
  <1>1. /\ SchedTypeOK' /\ SchedConsistent'
        /\ state' = IF state[t] = "BLOCKED" THEN [state EXCEPT ![t] = "READY"] ELSE state
    <2>1. CASE state[t] = "BLOCKED"
      <3>1. t # current_thread /\ SetReady(t)
        BY <2>1 DEF ForceUnblock, ThreadsInv, SchedConsistent, OneRunning
      <3> QED  BY <2>1, <3>1, SetReadyConsistent
                  DEF SetReady, ThreadsInv, ThreadsTypeOK
    <2>2. CASE state[t] # "BLOCKED"
      <3>1. state[t] \in {"READY", "RUNNING"}
        BY <2>2 DEF ThreadsInv, ThreadsTypeOK, SchedTypeOK, ThreadState
      <3>2. UNCHANGED <<state, ready_queue>>
        BY <3>1 DEF ForceUnblock
      <3> QED  BY <2>2, <3>2
                  DEF ThreadsInv, ThreadsTypeOK, SchedTypeOK, SchedConsistent,
                      OneRunning, QueueHoldsReady, InReadyQueue, QueueNoDuplicate
    <2> QED  BY <2>1, <2>2
  <1>2. \A u \in Thread : /\ state'[u] # state[u] => u = t /\ state'[u] = "READY"
    BY <1>1 DEF ThreadsInv, ThreadsTypeOK, SchedTypeOK
  <1>3. state'[t] # "BLOCKED"
    BY <1>1 DEF ThreadsInv, ThreadsTypeOK, SchedTypeOK
  <1>4. SleepTypeOK'
    BY DEF ThreadsInv, ThreadsTypeOK, SleepTypeOK
  <1>5. NoDanglingTimeout' /\ TimeoutFrames'
    BY DEF ThreadsInv, NoDanglingTimeout, TimeoutFrames
  <1>6. SleeperHasWaker'
    BY <1>2, <1>3 DEF ThreadsInv, ThreadsTypeOK, SleepTypeOK, SleeperHasWaker
  <1>7. LocMatchesState' /\ IdleAwake'
    BY <1>2, IdleKinitAssumption DEF ThreadsInv, LocMatchesState, IdleAwake
  <1> QED  BY <1>1, <1>4, <1>5, <1>6, <1>7 DEF ThreadsInv, ThreadsTypeOK

(* One step of the thread API keeps the invariants: one case per action.   *)
LEMMA ThreadsNextInv ==
  ASSUME ThreadsInv, ThreadsNext
  PROVE  ThreadsInv'
  <1> USE DEF ThreadsInv, ThreadsTypeOK
  <1>1. ASSUME NEW self \in Thread, NEW new \in Thread, CreateBegin(self, new)
        PROVE  ThreadsInv'
    <2>1. /\ self = current_thread /\ loc[self] = "run" /\ state[self] = "RUNNING"
          /\ state[new] = "FREE" /\ new # self
      BY <1>1 DEF CreateBegin, InOwnCode, SchedConsistent, OneRunning
    <2>2. /\ state' = [state EXCEPT ![new] = "CREATED"]
          /\ loc' = [loc EXCEPT ![self] = "create"]
          /\ UNCHANGED <<ready_queue, current_thread, timed, armed, fired>>
      BY <1>1 DEF CreateBegin
    <2>3. SchedTypeOK' /\ SleepTypeOK'
      BY <2>2 DEF SchedTypeOK, SleepTypeOK, ThreadState, Location
    <2>4. SchedConsistent'
      BY <2>1, <2>2 DEF SchedTypeOK, SchedConsistent, OneRunning, QueueHoldsReady,
                        InReadyQueue, QueueNoDuplicate
    <2>5. self \notin timed
      BY <2>1 DEF TimeoutFrames, Sleeping
    <2>6. NoDanglingTimeout' /\ TimeoutFrames' /\ SleeperHasWaker'
      BY <2>1, <2>2, <2>5 DEF SchedTypeOK, SleepTypeOK, NoDanglingTimeout,
         TimeoutFrames, SleeperHasWaker, Sleeping
    <2>7. LocMatchesState' /\ IdleAwake'
      BY <2>1, <2>2, IdleKinitAssumption
         DEF SchedTypeOK, SleepTypeOK, LocMatchesState, Sleeping, IdleAwake
    <2> QED  BY <2>3, <2>4, <2>6, <2>7
  <1>2. ASSUME NEW self \in Thread, NEW new \in Thread, CreateEnd(self, new)
        PROVE  ThreadsInv'
    <2>1. /\ self = current_thread /\ loc[self] = "create" /\ state[self] = "RUNNING"
          /\ state[new] = "CREATED" /\ new # self /\ self \notin timed
      BY <1>2 DEF CreateEnd, SchedConsistent, OneRunning, TimeoutFrames, Sleeping
    <2>2. /\ SetReady(new) /\ loc' = [loc EXCEPT ![self] = "run"]
          /\ state' = [state EXCEPT ![new] = "READY"]
          /\ UNCHANGED <<current_thread, timed, armed, fired>>
      BY <1>2 DEF CreateEnd, SetReady
    <2>3. SchedTypeOK' /\ SchedConsistent'
      BY <2>1, <2>2, SetReadyConsistent
    <2>4. SleepTypeOK'
      BY <2>2 DEF SleepTypeOK, Location
    <2>5. NoDanglingTimeout' /\ TimeoutFrames' /\ SleeperHasWaker'
      BY <2>1, <2>2 DEF SchedTypeOK, SleepTypeOK, NoDanglingTimeout,
         TimeoutFrames, SleeperHasWaker
    <2>6. LocMatchesState' /\ IdleAwake'
      BY <2>1, <2>2, IdleKinitAssumption
         DEF SchedTypeOK, SleepTypeOK, LocMatchesState, Sleeping, IdleAwake
    <2> QED  BY <2>3, <2>4, <2>5, <2>6
  <1>3. ASSUME NEW self \in Thread, Yield(self)
        PROVE  ThreadsInv'
    <2>1. /\ self = current_thread /\ loc[self] = "run" /\ state[self] = "RUNNING"
          /\ self \notin timed
      BY <1>3 DEF Yield, InOwnCode, SchedConsistent, OneRunning, TimeoutFrames, Sleeping
    <2>2. /\ YieldCPU /\ loc' = [loc EXCEPT ![self] = "yield"]
          /\ UNCHANGED <<timed, armed, fired>>
      BY <1>3 DEF Yield
    <2>3. /\ SchedTypeOK' /\ SchedConsistent'
          /\ \A t \in Thread : state[t] = "BLOCKED" <=> state'[t] = "BLOCKED"
          /\ \A t \in Thread : state[t] = "FREE" <=> state'[t] = "FREE"
          /\ \A t \in Thread : state[t] = "CREATED" <=> state'[t] = "CREATED"
      BY <2>2, YieldConsistent
    <2>4. \A t \in Thread : loc'[t] = IF t = self THEN "yield" ELSE loc[t]
      BY <2>2 DEF SleepTypeOK
    <2>5. SleepTypeOK'
      BY <2>2 DEF SleepTypeOK, Location
    <2>6. NoDanglingTimeout' /\ TimeoutFrames'
      BY <2>1, <2>2, <2>4 DEF SleepTypeOK, NoDanglingTimeout, TimeoutFrames
    <2>7. SleeperHasWaker'
      BY <2>2, <2>3 DEF SleepTypeOK, SleeperHasWaker
    <2>8. \A t \in Thread : loc[t] = "create" => t = self
      BY <2>1 DEF LocMatchesState
    <2>9. LocMatchesState'
      BY <2>1, <2>2, <2>3, <2>4, <2>8, IdleKinitAssumption DEF LocMatchesState, Sleeping
    <2>10. IdleAwake'
      BY <2>3, IdleKinitAssumption DEF SchedTypeOK, ThreadState, IdleAwake
    <2> QED  BY <2>3, <2>5, <2>6, <2>7, <2>9, <2>10
  <1>4. ASSUME NEW self \in Thread, YieldReturn(self)
        PROVE  ThreadsInv'
    <2>1. /\ self = current_thread /\ loc[self] = "yield" /\ self \notin timed
          /\ loc' = [loc EXCEPT ![self] = "run"]
          /\ UNCHANGED <<state, ready_queue, current_thread, timed, armed, fired>>
      BY <1>4 DEF YieldReturn, sched_vars, TimeoutFrames, Sleeping
    <2>2. SchedTypeOK' /\ SchedConsistent' /\ IdleAwake'
      BY <2>1 DEF SchedTypeOK, SchedConsistent, OneRunning, QueueHoldsReady,
                  InReadyQueue, QueueNoDuplicate, IdleAwake
    <2>3. SleepTypeOK' /\ NoDanglingTimeout' /\ TimeoutFrames' /\ SleeperHasWaker'
      BY <2>1 DEF SleepTypeOK, Location, NoDanglingTimeout, TimeoutFrames, SleeperHasWaker
    <2>4. LocMatchesState'
      BY <2>1, IdleKinitAssumption
         DEF SleepTypeOK, LocMatchesState, Sleeping, SchedConsistent, OneRunning
    <2> QED  BY <2>2, <2>3, <2>4
  <1>5. ASSUME NEW self \in Thread, NEW b \in BOOLEAN, SleepCall(self, b)
        PROVE  ThreadsInv'
    BY <1>5, BeginSleepInv DEF SleepCall, Sleeping
  <1>6. ASSUME NEW self \in Thread, SleepReturn(self)
        PROVE  ThreadsInv'
    BY <1>6, EndSleepInv DEF SleepReturn, Sleeping
  <1>7. ASSUME NEW self \in Thread, Exit(self)
        PROVE  ThreadsInv'
    <2>1. /\ self = current_thread /\ loc[self] = "run" /\ self # Idle
          /\ self \notin timed
          /\ UNCHANGED <<loc, timed, armed, fired>>
      BY <1>7 DEF Exit, InOwnCode, TimeoutFrames, Sleeping, sleep_vars
    <2>2. /\ SchedTypeOK' /\ SchedConsistent'
          /\ state'[self] = "FREE"
          /\ current_thread' \in Thread \ {self}
          /\ state[current_thread'] = "READY"
          /\ \A t \in Thread \ {self, current_thread'} : state'[t] = state[t]
      BY <1>7, <2>1, GiveUpConsistent DEF Exit, LeaveCPU
    <2>3. state'[current_thread'] = "RUNNING"
      BY <2>2 DEF SchedConsistent, OneRunning
    <2>4. SleepTypeOK' /\ NoDanglingTimeout' /\ TimeoutFrames'
      BY <2>1 DEF SleepTypeOK, NoDanglingTimeout, TimeoutFrames
    <2>5. SleeperHasWaker'
      <3> SUFFICES ASSUME NEW t \in timed, state'[t] = "BLOCKED"
                   PROVE  t \in armed
        BY <2>1 DEF SleeperHasWaker
      <3>1. t \in Thread \ {self, current_thread'}
        BY <2>1, <2>3 DEF SleepTypeOK
      <3> QED  BY <2>2, <3>1 DEF SleeperHasWaker
    <2>6. LocMatchesState'
      BY <2>1, <2>2, <2>3, IdleKinitAssumption DEF LocMatchesState, Sleeping
    <2>7. IdleAwake'
      BY <2>1, <2>2, <2>3, IdleKinitAssumption DEF IdleAwake
    <2> QED  BY <2>2, <2>4, <2>5, <2>6, <2>7
  <1>8. ASSUME NEW t \in Thread, Unblock(t)
        PROVE  ThreadsInv'
    BY <1>8, ForceUnblockInv DEF Unblock, sleep_vars
  <1>9. ASSUME NEW t \in Thread, Tick(t)
        PROVE  ThreadsInv'
    <2>1. state[t] \notin {"FREE", "CREATED"}
      BY <1>9 DEF Tick, Expire, NoDanglingTimeout, LocMatchesState
    <2> QED  BY <1>9, <2>1, ForceUnblockInv DEF Tick, Expire
  <1> QED
    BY <1>1, <1>2, <1>3, <1>4, <1>5, <1>6, <1>7, <1>8, <1>9
       DEF ThreadsNext, ThreadStep

(* A step that changes nothing keeps the invariant. *)
LEMMA ThreadsStutterInv == ThreadsInv /\ UNCHANGED thread_vars => ThreadsInv'
  BY DEF thread_vars, ThreadsInv, ThreadsTypeOK, SchedTypeOK, SleepTypeOK,
         SchedConsistent, OneRunning, QueueHoldsReady, InReadyQueue, QueueNoDuplicate,
         NoDanglingTimeout, SleeperHasWaker, LocMatchesState, TimeoutFrames, IdleAwake

(* The invariants hold in every state of the thread API. *)
THEOREM ThreadsInvariance == ThreadsSpec => []ThreadsInv
  <1>1. ThreadsInv /\ [ThreadsNext]_thread_vars => ThreadsInv'
    BY ThreadsNextInv, ThreadsStutterInv
  <1> QED  BY <1>1, ThreadsInitInv, PTL DEF ThreadsSpec

(* Type correctness of the threads and of the scheduler. *)
THEOREM ThreadsTypeCorrect == ThreadsSpec => []ThreadsTypeOK
  BY ThreadsInvariance, PTL DEF ThreadsInv

(* The ready queue holds exactly the READY threads, each one once, and the *)
(* current thread is the only RUNNING one, whatever the interleaving of    *)
(* creations, sleeps, wake-ups, exits and ticks.                           *)
THEOREM SchedAlwaysConsistent == ThreadsSpec => []SchedConsistent
  BY ThreadsInvariance, PTL DEF ThreadsInv

(* No timeout action outlives the stack frame it lives in. *)
THEOREM NeverDanglingTimeout == ThreadsSpec => []NoDanglingTimeout
  BY ThreadsInvariance, PTL DEF ThreadsInv

(* A thread blocked with a timeout always has an action that will wake it. *)
THEOREM SleepersHaveWakers == ThreadsSpec => []SleeperHasWaker
  BY ThreadsInvariance, PTL DEF ThreadsInv

(* sos_reschedule() never finds the queue empty when a thread blocks. *)
THEOREM NeverNoReadyThread == ThreadsSpec => []AlwaysAReadyThread
  <1>1. ThreadsInv => AlwaysAReadyThread
    BY IdleKinitAssumption
       DEF ThreadsInv, IdleAwake, SchedConsistent, OneRunning, QueueHoldsReady,
           AlwaysAReadyThread
  <1> QED  BY <1>1, ThreadsInvariance, PTL

-----------------------------------------------------------------------------
(* DISPATCHING IS FIRST COME, FIRST SERVED                                 *)

(* t is ahead of u in the queue q. *)
Ahead(q, t, u) == \E i, j \in DOMAIN q : i < j /\ q[i] = t /\ q[j] = u

(* A thread that joins a queue is behind those that are there. *)
LEMMA JoinsBehind ==
  ASSUME NEW q \in Seq(Thread), NEW x \in Thread, NEW t \in Thread, NEW u \in Thread,
         \A i \in DOMAIN q : q[i] # x,
         NEW k \in DOMAIN q, q[k] = t, ~ Ahead(q, u, t)
  PROVE  ~ Ahead(Append(q, x), u, t)
  <1>1. /\ DOMAIN q = 1 .. Len(q) /\ Len(q) \in Nat
        /\ DOMAIN Append(q, x) = 1 .. (Len(q) + 1)
        /\ \A i \in 1 .. Len(q) : Append(q, x)[i] = q[i]
        /\ Append(q, x)[Len(q) + 1] = x
    BY AppendPlaces
  <1> SUFFICES ASSUME NEW i \in 1 .. (Len(q) + 1), NEW j \in 1 .. (Len(q) + 1),
                      i < j, Append(q, x)[i] = u, Append(q, x)[j] = t
               PROVE  FALSE
    BY <1>1 DEF Ahead
  <1>2. CASE j = Len(q) + 1
    BY <1>1, <1>2
  <1>3. CASE j # Len(q) + 1
    <2>1. i \in 1 .. Len(q) /\ j \in 1 .. Len(q)
      BY <1>1, <1>3
    <2> QED  BY <1>1, <2>1 DEF Ahead
  <1> QED  BY <1>2, <1>3

(* The head of a queue leaves first. *)
LEMMA HeadLeavesFirst ==
  ASSUME NEW q \in Seq(Thread), NEW t \in Thread, NEW u \in Thread, t # u,
         NEW k \in DOMAIN q, q[k] = t, ~ Ahead(q, u, t)
  PROVE  Head(q) # u /\ ~ Ahead(Tail(q), u, t)
  <1>1. q # <<>>
    OBVIOUS
  <1>2. /\ Head(q) = q[1]
        /\ Len(q) \in Nat \ {0}
        /\ DOMAIN q = 1 .. Len(q)
        /\ DOMAIN Tail(q) = 1 .. (Len(q) - 1)
        /\ \A i \in 1 .. (Len(q) - 1) : Tail(q)[i] = q[i + 1]
    BY <1>1, TailPlaces
  <1>3. Head(q) # u
    <2> SUFFICES ASSUME q[1] = u PROVE FALSE
      BY <1>2
    <2>1. k # 1 /\ 1 < k /\ 1 \in DOMAIN q
      BY <1>2
    <2> QED  BY <2>1 DEF Ahead
  <1>4. ~ Ahead(Tail(q), u, t)
    <2> SUFFICES ASSUME NEW i \in 1 .. (Len(q) - 1), NEW j \in 1 .. (Len(q) - 1),
                        i < j, Tail(q)[i] = u, Tail(q)[j] = t
                 PROVE  FALSE
      BY <1>2 DEF Ahead
    <2>1. /\ i + 1 \in DOMAIN q /\ j + 1 \in DOMAIN q /\ i + 1 < j + 1
          /\ q[i + 1] = u /\ q[j + 1] = t
      BY <1>2
    <2> QED  BY <2>1 DEF Ahead
  <1> QED  BY <1>3, <1>4

-----------------------------------------------------------------------------
(* What a step does to the queue: nothing, a thread joins it, its head is  *)
(* dispatched, or the current thread joins it and its head is dispatched.  *)
QueueStep ==
  \/ UNCHANGED <<ready_queue, current_thread>>
  \/ \E x \in Thread : /\ ~ InReadyQueue(x)
                       /\ ready_queue' = Append(ready_queue, x)
                       /\ current_thread' = current_thread
  \/ /\ ready_queue # <<>>
     /\ ready_queue' = Tail(ready_queue)
     /\ current_thread' = Head(ready_queue)
  \/ /\ ready_queue' = Tail(Append(ready_queue, current_thread))
     /\ current_thread' = Head(Append(ready_queue, current_thread))

(* A thread made READY joins a queue it was not in. *)
LEMMA SetReadyQueueStep ==
  ASSUME ThreadsInv, NEW x \in Thread, SetReady(x), UNCHANGED current_thread
  PROVE  QueueStep
  <1>1. CASE state[x] = "READY"
    BY <1>1 DEF SetReady, QueueStep
  <1>2. CASE state[x] # "READY"
    <2>1. ~ InReadyQueue(x) /\ ready_queue' = Append(ready_queue, x)
      BY <1>2 DEF SetReady, ThreadsInv, SchedConsistent, QueueHoldsReady
    <2> QED  BY <2>1 DEF QueueStep
  <1> QED  BY <1>1, <1>2

(* Every step of the thread API is one of the four changes of the queue. *)
LEMMA ThreadsQueueStep ==
  ASSUME ThreadsInv, ThreadsNext
  PROVE  QueueStep
  <1>1. ASSUME NEW self \in Thread, NEW new \in Thread, CreateBegin(self, new)
        PROVE  QueueStep
    BY <1>1 DEF CreateBegin, QueueStep
  <1>2. ASSUME NEW self \in Thread, NEW new \in Thread, CreateEnd(self, new)
        PROVE  QueueStep
    BY <1>2, SetReadyQueueStep DEF CreateEnd
  <1>3. ASSUME NEW self \in Thread, Yield(self)
        PROVE  QueueStep
    BY <1>3 DEF Yield, YieldCPU, Dispatch, QueueStep
  <1>4. ASSUME NEW self \in Thread, YieldReturn(self) \/ SleepReturn(self)
        PROVE  QueueStep
    BY <1>4 DEF YieldReturn, SleepReturn, EndSleep, sched_vars, QueueStep
  <1>5. ASSUME NEW self \in Thread, NEW b \in BOOLEAN, SleepCall(self, b)
        PROVE  QueueStep
    BY <1>5 DEF SleepCall, BeginSleep, BlockCPU, Dispatch, QueueStep
  <1>6. ASSUME NEW self \in Thread, Exit(self)
        PROVE  QueueStep
    BY <1>6 DEF Exit, LeaveCPU, Dispatch, QueueStep
  <1>7. ASSUME NEW t \in Thread, Unblock(t) \/ Tick(t)
        PROVE  QueueStep
    <2>1. current_thread' = current_thread
      BY <1>7 DEF Unblock, Tick, Expire
    <2>2. \/ SetReady(t)
          \/ UNCHANGED <<state, ready_queue>>
      BY <1>7 DEF Unblock, Tick, Expire, ForceUnblock
    <2> QED  BY <2>1, <2>2, SetReadyQueueStep DEF QueueStep
  <1> QED  BY <1>1, <1>2, <1>3, <1>4, <1>5, <1>6, <1>7 DEF ThreadsNext, ThreadStep

(* Such a step lets nobody overtake. *)
LEMMA QueueStepOrder ==
  ASSUME ThreadsInv, QueueStep, NEW t \in Thread, NEW u \in Thread,
         t # u, InReadyQueue(t), ~ Before(u, t)
  PROVE  /\ current_thread' = u => current_thread = u
         /\ InReadyQueue(t)' => ~ Before(u, t)'
  <1> DEFINE q == ready_queue
  <1>1. PICK k \in DOMAIN q : q[k] = t
    BY DEF InReadyQueue
  <1>2. q \in Seq(Thread) /\ current_thread \in Thread
    BY DEF ThreadsInv, ThreadsTypeOK, SchedTypeOK
  <1>3. ~ Ahead(q, u, t)
    BY DEF Before, Ahead
  <1>4. Before(u, t)' <=> Ahead(ready_queue', u, t)
    BY DEF Before, Ahead
  <1>5. CASE UNCHANGED <<ready_queue, current_thread>>
    BY <1>3, <1>4, <1>5
  <1>6. ASSUME NEW x \in Thread, ~ InReadyQueue(x), ready_queue' = Append(ready_queue, x),
               current_thread' = current_thread
        PROVE  ~ Ahead(ready_queue', u, t)
    <2>1. \A i \in DOMAIN q : q[i] # x
      BY <1>6 DEF InReadyQueue
    <2> QED  BY <1>1, <1>2, <1>3, <1>6, <2>1, JoinsBehind
  <1>7. CASE /\ ready_queue # <<>>
             /\ ready_queue' = Tail(ready_queue)
             /\ current_thread' = Head(ready_queue)
    <2>1. Head(q) # u /\ ~ Ahead(Tail(q), u, t)
      BY <1>1, <1>2, <1>3, HeadLeavesFirst
    <2> QED  BY <1>4, <1>7, <2>1
  <1>8. CASE /\ ready_queue' = Tail(Append(ready_queue, current_thread))
             /\ current_thread' = Head(Append(ready_queue, current_thread))
    <2> DEFINE r == Append(q, current_thread)
    <2>1. \A i \in DOMAIN q : q[i] # current_thread
      BY <1>2 DEF ThreadsInv, SchedConsistent, OneRunning, QueueHoldsReady, InReadyQueue
    <2>2. ~ Ahead(r, u, t)
      BY <1>1, <1>2, <1>3, <2>1, JoinsBehind
    <2>3. r \in Seq(Thread) /\ k \in DOMAIN r /\ r[k] = t
      BY <1>1, <1>2, AppendPlaces
    <2>4. Head(r) # u /\ ~ Ahead(Tail(r), u, t)
      <3> HIDE DEF r
      <3> QED  BY <2>2, <2>3, HeadLeavesFirst
    <2> QED  BY <1>4, <1>8, <2>4
  <1> QED  BY <1>4, <1>5, <1>6, <1>7, <1>8 DEF QueueStep

(* In every behaviour of the thread API a thread that waits in the ready   *)
(* queue is never overtaken.                                               *)
THEOREM NeverOvertaken == ThreadsSpec => NoOvertaking
  <1>1. ASSUME ThreadsInv, [ThreadsNext]_thread_vars
        PROVE  [\A t, u \in Thread :
                  t # u /\ InReadyQueue(t) /\ ~ Before(u, t)
                    => /\ current_thread' = u => current_thread = u
                       /\ InReadyQueue(t)' => ~ Before(u, t)']_thread_vars
    BY <1>1, ThreadsQueueStep, QueueStepOrder
  <1> QED  BY <1>1, ThreadsInvariance, PTL DEF ThreadsSpec, NoOvertaking

-----------------------------------------------------------------------------
(* THE WAIT QUEUE                                                          *)

(* Inductive together with the invariants of the threads. *)
WaitQueueInv ==
  /\ ThreadsInv
  /\ WaitQueueTypeOK
  /\ EntriesMatchWaiters
  /\ WokenNotBlocked

(* To be in the wait queue is to be one of its elements. *)
LEMMA InWaitQueueContains ==
  /\ waiting_list \in Seq(Thread) =>
       \A t : InWaitQueue(t) <=> Contains(waiting_list, t)
  /\ waiting_list' \in Seq(Thread) =>
       \A t : InWaitQueue(t)' <=> Contains(waiting_list', t)
  BY LenProperties DEF InWaitQueue, Contains

(* The invariant holds when the wait queue is initialised. *)
LEMMA WaitQueueInitInv == ThreadsInit /\ WaitQueueInit => WaitQueueInv
  <1> SUFFICES ASSUME ThreadsInit, WaitQueueInit PROVE WaitQueueInv
    OBVIOUS
  <1>1. ThreadsInv
    BY ThreadsInitInv
  <1>2. /\ waiting_list = <<>> /\ woken = {} /\ loc = [t \in Thread |-> "run"]
    BY DEF ThreadsInit, WaitQueueInit
  <1> QED
    BY <1>1, <1>2 DEF WaitQueueInv, WaitQueueTypeOK, EntriesMatchWaiters, InWaitQueue,
                      WokenNotBlocked

(* A step that changes nothing keeps the invariant. *)
LEMMA WaitQueueStutterInv ==
  ASSUME WaitQueueInv, UNCHANGED <<thread_vars, waitq_vars>>
  PROVE  WaitQueueInv'
  <1>1. ThreadsInv'
    BY ThreadsStutterInv DEF WaitQueueInv
  <1> QED
    BY <1>1 DEF WaitQueueInv, thread_vars, waitq_vars, WaitQueueTypeOK,
                EntriesMatchWaiters, InWaitQueue, WokenNotBlocked

(* The loop of sos_kwaitq_wakeup() terminates wherever it may be called.   *)
LEMMA WaitQueueInvWakeupTerminates == WaitQueueInv => WakeupTerminates
  <1>1. ASSUME WaitQueueInv, IRQsEnabled, NEW i \in DOMAIN waiting_list
        PROVE  state[waiting_list[i]] # "RUNNING"
    <2>1. waiting_list[i] \in Thread /\ InWaitQueue(waiting_list[i])
      BY <1>1 DEF WaitQueueInv, WaitQueueTypeOK, InWaitQueue
    <2>2. loc[waiting_list[i]] = "wait"
      BY <1>1, <2>1 DEF WaitQueueInv, EntriesMatchWaiters
    <2> QED
      BY <1>1, <2>1, <2>2
         DEF IRQsEnabled, WaitQueueInv, ThreadsInv, SchedConsistent, OneRunning
  <1> QED  BY <1>1 DEF WakeupTerminates

(* The thread API does not move a thread into a wait or out of it, and     *)
(* does not block a waiter that is READY or RUNNING.                       *)
LEMMA ThreadsNextWaiters ==
  ASSUME ThreadsInv, ThreadsNext, NEW t \in Thread
  PROVE  /\ loc[t] = "wait" <=> loc'[t] = "wait"
         /\ loc[t] = "wait" /\ state[t] \in {"READY", "RUNNING"}
              => state'[t] \in {"READY", "RUNNING"}
  <1> USE DEF ThreadsInv, ThreadsTypeOK, SleepTypeOK
  <1>1. ASSUME NEW self \in Thread, NEW new \in Thread,
               CreateBegin(self, new) \/ CreateEnd(self, new)
        PROVE  /\ loc[t] = "wait" <=> loc'[t] = "wait"
               /\ state[t] \in {"READY", "RUNNING"} => state'[t] \in {"READY", "RUNNING"}
    BY <1>1 DEF CreateBegin, CreateEnd, InOwnCode, SetReady, SchedTypeOK
  <1>2. ASSUME NEW self \in Thread, Yield(self)
        PROVE  /\ loc[t] = "wait" <=> loc'[t] = "wait"
               /\ state[t] \in {"READY", "RUNNING"} => state'[t] \in {"READY", "RUNNING"}
    <2>1. /\ SchedTypeOK'
          /\ state[t] = "BLOCKED" <=> state'[t] = "BLOCKED"
          /\ state[t] = "FREE" <=> state'[t] = "FREE"
          /\ state[t] = "CREATED" <=> state'[t] = "CREATED"
      BY <1>2, YieldConsistent DEF Yield
    <2> QED  BY <1>2, <2>1 DEF Yield, InOwnCode, SchedTypeOK, ThreadState
  <1>3. ASSUME NEW self \in Thread, YieldReturn(self) \/ SleepReturn(self)
        PROVE  /\ loc[t] = "wait" <=> loc'[t] = "wait"
               /\ state' = state
    BY <1>3 DEF YieldReturn, SleepReturn, sched_vars
  <1>4. ASSUME NEW self \in Thread, NEW gone \in {"BLOCKED", "FREE"}, InOwnCode(self),
               Dispatch([state EXCEPT ![current_thread] = gone], ready_queue),
               loc[t] = "wait", state[t] \in {"READY", "RUNNING"}
        PROVE  state'[t] \in {"READY", "RUNNING"}
    <2>1. t # current_thread
      BY <1>4 DEF InOwnCode
    <2>2. /\ SchedConsistent' /\ current_thread' \in Thread
          /\ \A u \in Thread \ {current_thread, current_thread'} : state'[u] = state[u]
      BY <1>4, GiveUpConsistent
    <2> QED  BY <1>4, <2>1, <2>2 DEF SchedConsistent, OneRunning
  <1>5. ASSUME NEW self \in Thread, NEW b \in BOOLEAN, SleepCall(self, b)
        PROVE  /\ loc[t] = "wait" <=> loc'[t] = "wait"
               /\ loc[t] = "wait" /\ state[t] \in {"READY", "RUNNING"}
                    => state'[t] \in {"READY", "RUNNING"}
    BY <1>4, <1>5 DEF SleepCall, InOwnCode, BeginSleep, BlockCPU
  <1>6. ASSUME NEW self \in Thread, Exit(self)
        PROVE  /\ loc[t] = "wait" <=> loc'[t] = "wait"
               /\ loc[t] = "wait" /\ state[t] \in {"READY", "RUNNING"}
                    => state'[t] \in {"READY", "RUNNING"}
    BY <1>4, <1>6 DEF Exit, LeaveCPU, sleep_vars
  <1>7. ASSUME NEW u \in Thread, Unblock(u) \/ Tick(u)
        PROVE  /\ loc[t] = "wait" <=> loc'[t] = "wait"
               /\ state[t] \in {"READY", "RUNNING"} => state'[t] \in {"READY", "RUNNING"}
    BY <1>7 DEF Unblock, Tick, Expire, ForceUnblock, SetReady, sleep_vars, SchedTypeOK
  <1> QED
    BY <1>1, <1>2, <1>3, <1>5, <1>6, <1>7 DEF ThreadsNext, ThreadStep

(* The step of the thread API *)
LEMMA WaitQueueThreadsStep ==
  ASSUME WaitQueueInv, ThreadsNext, UNCHANGED waitq_vars
  PROVE  WaitQueueInv'
  <1>1. ThreadsInv'
    BY ThreadsNextInv DEF WaitQueueInv
  <1>2. /\ waiting_list' = waiting_list /\ woken' = woken
    BY DEF waitq_vars
  <1>3. ASSUME NEW t \in Thread
        PROVE  /\ loc[t] = "wait" <=> loc'[t] = "wait"
               /\ loc[t] = "wait" /\ state[t] \in {"READY", "RUNNING"}
                    => state'[t] \in {"READY", "RUNNING"}
    BY ThreadsNextWaiters DEF WaitQueueInv
  <1>4. WaitQueueTypeOK'
    BY <1>2 DEF WaitQueueInv, WaitQueueTypeOK
  <1>5. EntriesMatchWaiters' /\ WokenNotBlocked'
    BY <1>2, <1>3 DEF WaitQueueInv, WaitQueueTypeOK, EntriesMatchWaiters, InWaitQueue,
                      WokenNotBlocked
  <1> QED  BY <1>1, <1>4, <1>5 DEF WaitQueueInv

(* sos_kwaitq_wait() until the CPU is given away *)
LEMMA WaitBeginStep ==
  ASSUME WaitQueueInv, NEW self \in Thread, NEW b \in BOOLEAN,
         InOwnCode(self), self # Idle, WaitBegin(self, b)
  PROVE  /\ WaitQueueInv'
         /\ self \notin woken /\ ~ InWaitQueue(self)
         /\ woken' = woken
         /\ waiting_list' = Append(waiting_list, self)
         /\ Len(waiting_list') = Len(waiting_list) + 1
         /\ loc' = [loc EXCEPT ![self] = "wait"]
  <1>1. /\ waiting_list' = Append(waiting_list, self)
        /\ BeginSleep(self, b)
        /\ loc' = [loc EXCEPT ![self] = "wait"]
    BY DEF WaitBegin
  <1>2. ThreadsInv'
    BY <1>1, BeginSleepInv DEF WaitQueueInv, Sleeping
  <1>3. /\ self = current_thread /\ loc[self] = "run"
        /\ self \notin woken /\ ~ InWaitQueue(self)
    BY DEF InOwnCode, WaitQueueInv, EntriesMatchWaiters
  <1>4. woken' = woken
    BY <1>3 DEF WaitBegin
  <1>5. \A t \in Thread : loc'[t] = IF t = self THEN "wait" ELSE loc[t]
    BY <1>1 DEF WaitQueueInv, ThreadsInv, ThreadsTypeOK, SleepTypeOK
  <1>6. /\ waiting_list' \in Seq(Thread)
        /\ Len(waiting_list') = Len(waiting_list) + 1
        /\ Len(waiting_list) \in Nat
        /\ DOMAIN waiting_list = 1 .. Len(waiting_list)
        /\ DOMAIN waiting_list' = 1 .. (Len(waiting_list) + 1)
        /\ \A i \in 1 .. Len(waiting_list) : waiting_list'[i] = waiting_list[i]
        /\ waiting_list'[Len(waiting_list) + 1] = self
    BY <1>1, AppendPlaces DEF WaitQueueInv, WaitQueueTypeOK
  <1>7. WaitQueueTypeOK'
    BY <1>1, <1>4, <1>6 DEF WaitQueueInv, WaitQueueTypeOK
  <1>8. ASSUME NEW t \in Thread
        PROVE  InWaitQueue(t)' <=> InWaitQueue(t) \/ t = self
    BY <1>6 DEF InWaitQueue
  <1>9. ASSUME NEW i \in DOMAIN waiting_list', NEW j \in DOMAIN waiting_list',
               waiting_list'[i] = waiting_list'[j]
        PROVE  i = j
    BY <1>3, <1>6, <1>9 DEF InWaitQueue, WaitQueueInv, EntriesMatchWaiters
  <1>10. EntriesMatchWaiters'
    BY <1>3, <1>4, <1>5, <1>8, <1>9 DEF WaitQueueInv, WaitQueueTypeOK, EntriesMatchWaiters
  <1>11. WokenNotBlocked'
    <2> SUFFICES ASSUME NEW t \in woken
                 PROVE  state'[t] \in {"READY", "RUNNING"}
      BY <1>4 DEF WokenNotBlocked
    <2>1. t \in Thread /\ t # self
      BY <1>3 DEF WaitQueueInv, WaitQueueTypeOK
    <2>2. /\ SchedConsistent' /\ current_thread' \in Thread
          /\ \A u \in Thread \ {current_thread, current_thread'} : state'[u] = state[u]
      BY <1>1, GiveUpConsistent DEF BeginSleep, BlockCPU, WaitQueueInv, ThreadsInv, ThreadsTypeOK
    <2> QED
      BY <1>3, <2>1, <2>2 DEF SchedConsistent, OneRunning, WaitQueueInv, WokenNotBlocked
  <1> QED  BY <1>1, <1>2, <1>3, <1>4, <1>6, <1>7, <1>10, <1>11 DEF WaitQueueInv

(* The end of sos_kwaitq_wait() *)
LEMMA WaitEndStep ==
  ASSUME WaitQueueInv, NEW self \in Thread,
         self = current_thread, loc[self] = "wait", WaitEnd(self)
  PROVE  /\ WaitQueueInv'
         /\ loc' = [loc EXCEPT ![self] = "run"] /\ state' = state
         /\ self \in woken =>
              woken' = woken \ {self} /\ waiting_list' = waiting_list
         /\ self \notin woken =>
              /\ woken' = woken
              /\ \E i \in DOMAIN waiting_list :
                   waiting_list[i] = self /\ waiting_list' = RemoveAt(waiting_list, i)
              /\ Len(waiting_list) > 0 /\ Len(waiting_list') = Len(waiting_list) - 1
  <1>1. /\ waiting_list \in Seq(Thread) /\ woken \subseteq Thread
    BY DEF WaitQueueInv, WaitQueueTypeOK
  <1>2. /\ EndSleep(self) /\ UNCHANGED sched_vars /\ state' = state
        /\ loc' = [loc EXCEPT ![self] = "run"]
        /\ woken' = woken \ {self}
        /\ self \in woken => waiting_list' = waiting_list
        /\ self \notin woken => RemoveEntry(self)
    BY DEF WaitEnd, WaitStatus, sched_vars
  <1>3. ThreadsInv'
    BY <1>1, <1>2, EndSleepInv DEF WaitQueueInv, Sleeping
  <1>4. \A t \in Thread : loc'[t] = IF t = self THEN "run" ELSE loc[t]
    BY <1>2 DEF WaitQueueInv, ThreadsInv, ThreadsTypeOK, SleepTypeOK
  <1>5. WokenNotBlocked'
    BY <1>2 DEF WaitQueueInv, WokenNotBlocked, sched_vars
  <1>6. CASE self \in woken
    <2>1. waiting_list' = waiting_list
      BY <1>1, <1>2, <1>6
    <2>2. WaitQueueTypeOK'
      BY <1>1, <1>2, <2>1 DEF WaitQueueInv, WaitQueueTypeOK
    <2>3. EntriesMatchWaiters'
      BY <1>2, <1>4, <1>6, <2>1
         DEF WaitQueueInv, WaitQueueTypeOK, EntriesMatchWaiters, InWaitQueue
    <2> QED  BY <1>2, <1>3, <1>5, <1>6, <2>1, <2>2, <2>3 DEF WaitQueueInv
  <1>7. CASE self \notin woken
    <2>1. PICK i \in DOMAIN waiting_list :
            waiting_list[i] = self /\ waiting_list' = RemoveAt(waiting_list, i)
      BY <1>2, <1>7 DEF RemoveEntry
    <2>2. /\ DOMAIN waiting_list = 1 .. Len(waiting_list) /\ Len(waiting_list) \in Nat
      BY <1>1, LenProperties
    <2>3. /\ waiting_list' \in Seq(Thread)
          /\ Len(waiting_list') = Len(waiting_list) - 1
          /\ \A j \in 1 .. (Len(waiting_list) - 1) :
               waiting_list'[j] = IF j < i THEN waiting_list[j] ELSE waiting_list[j + 1]
      BY <1>1, <2>1, <2>2, RemoveAtPlaces
    <2>4. IsInjective(waiting_list)
      BY DEF WaitQueueInv, EntriesMatchWaiters, IsInjective
    <2>5. /\ \A t \in Thread : InWaitQueue(t)' <=> InWaitQueue(t) /\ t # self
          /\ IsInjective(waiting_list')
      <3>1. /\ IsInjective(waiting_list')
            /\ \A t \in Thread :
                 Contains(waiting_list', t) <=> Contains(waiting_list, t) /\ t # self
        BY <1>1, <2>1, <2>2, <2>4, RemoveAtContains
      <3> QED  BY <1>1, <2>2, <2>3, <3>1, InWaitQueueContains
    <2>6. woken' = woken
      BY <1>1, <1>2, <1>7
    <2>8. WaitQueueTypeOK'
      BY <1>1, <2>2, <2>3, <2>6 DEF WaitQueueInv, WaitQueueTypeOK
    <2>9. EntriesMatchWaiters'
      BY <1>1, <1>4, <1>7, <2>5, <2>6 DEF WaitQueueInv, EntriesMatchWaiters, IsInjective
    <2>7. Len(waiting_list) > 0
      BY <2>1, <2>2
    <2> QED
      BY <1>2, <1>3, <1>5, <1>7, <2>1, <2>3, <2>6, <2>7, <2>8, <2>9 DEF WaitQueueInv
  <1> QED  BY <1>6, <1>7

(* sos_kwaitq_wakeup() of one waiter, by a thread or by an interrupt       *)
(* handler: nobody waits, or the first waiter is made READY.               *)
LEMMA WakeupOneStep ==
  ASSUME WaitQueueInv, WakeupOne, UNCHANGED <<current_thread, sleep_vars>>
  PROVE  /\ WaitQueueInv'
         /\ waiting_list = <<>> =>
              waiting_list' = <<>> /\ woken' = woken /\ UNCHANGED thread_vars
         /\ waiting_list # <<>> =>
              /\ Head(waiting_list) \in Thread /\ Head(waiting_list) \notin woken
              /\ loc[Head(waiting_list)] = "wait"
              /\ waiting_list' = Tail(waiting_list)
              /\ woken' = woken \union {Head(waiting_list)}
              /\ Len(waiting_list) > 0 /\ Len(waiting_list') = Len(waiting_list) - 1
  <1>1. /\ waiting_list \in Seq(Thread) /\ woken \subseteq Thread
        /\ Len(waiting_list) \in Nat /\ DOMAIN waiting_list = 1 .. Len(waiting_list)
    BY LenProperties DEF WaitQueueInv, WaitQueueTypeOK
  <1>2. CASE waiting_list = <<>>
    <2>1. UNCHANGED <<state, ready_queue, waiting_list, woken>>
      BY <1>1, <1>2 DEF WakeupOne, waitq_vars
    <2>2. UNCHANGED thread_vars
      BY <1>1, <2>1 DEF thread_vars, sleep_vars
    <2>3. ThreadsInv'
      BY <2>2, ThreadsStutterInv DEF WaitQueueInv
    <2>5. WaitQueueTypeOK'
      BY <1>1, <1>2, <2>1 DEF WaitQueueInv, WaitQueueTypeOK
    <2>6. EntriesMatchWaiters' /\ WokenNotBlocked'
      BY <2>1, <2>2 DEF WaitQueueInv, EntriesMatchWaiters, InWaitQueue, WokenNotBlocked,
                        thread_vars
    <2> QED  BY <1>2, <2>1, <2>2, <2>3, <2>5, <2>6 DEF WaitQueueInv
  <1>3. CASE waiting_list # <<>>
    <2> DEFINE h == Head(waiting_list)
    <2>1. /\ state[h] # "RUNNING" /\ SetReady(h)
          /\ waiting_list' = Tail(waiting_list)
          /\ woken' = woken \union {h}
      BY <1>1, <1>3 DEF WakeupOne
    <2>2. /\ waiting_list' \in Seq(Thread)
          /\ h \in Thread /\ h = waiting_list[1]
          /\ Len(waiting_list) \in Nat \ {0}
          /\ DOMAIN waiting_list' = 1 .. (Len(waiting_list) - 1)
          /\ Len(waiting_list') = Len(waiting_list) - 1
          /\ \A j \in 1 .. (Len(waiting_list) - 1) :
               waiting_list'[j] = waiting_list[j + 1]
      BY <1>1, <1>3, <2>1, TailPlaces, LenProperties
    <2> HIDE DEF h
    <2>3. InWaitQueue(h) /\ 1 \in 1 .. Len(waiting_list)
      BY <1>1, <2>2 DEF InWaitQueue
    <2>4. loc[h] = "wait" /\ h \notin woken
      BY <2>2, <2>3 DEF WaitQueueInv, EntriesMatchWaiters
    <2>5. state[h] \in {"READY", "BLOCKED"}
      BY <2>1, <2>2, <2>4
         DEF WaitQueueInv, ThreadsInv, ThreadsTypeOK, SchedTypeOK, ThreadState, LocMatchesState
    <2>6. ForceUnblock(h)
      BY <2>1, <2>5 DEF ForceUnblock, SetReady, WaitQueueInv, ThreadsInv, ThreadsTypeOK,
                        SchedTypeOK
    <2>7. ThreadsInv'
      BY <1>1, <2>2, <2>5, <2>6, ForceUnblockInv DEF WaitQueueInv, sleep_vars
    <2>8. IsInjective(waiting_list)
      BY DEF WaitQueueInv, EntriesMatchWaiters, IsInjective
    <2>10. /\ \A t \in Thread : InWaitQueue(t)' <=> InWaitQueue(t) /\ t # h
           /\ IsInjective(waiting_list')
      <3>1. /\ IsInjective(waiting_list')
            /\ \A t \in Thread :
                 Contains(waiting_list', t) <=> Contains(waiting_list, t) /\ t # h
        BY <1>1, <1>3, <2>1, <2>8, TailContains DEF h
      <3> QED  BY <1>1, <2>2, <3>1, InWaitQueueContains
    <2>12. WaitQueueTypeOK'
      BY <1>1, <2>1, <2>2 DEF WaitQueueInv, WaitQueueTypeOK
    <2>13. EntriesMatchWaiters'
      BY <1>1, <2>1, <2>2, <2>4, <2>10
         DEF WaitQueueInv, EntriesMatchWaiters, IsInjective, sleep_vars
    <2>14. WokenNotBlocked'
      BY <1>1, <2>1, <2>2 DEF WaitQueueInv, ThreadsInv, ThreadsTypeOK, SchedTypeOK,
         SetReady, WokenNotBlocked
    <2> QED  BY <1>1, <1>3, <2>1, <2>7, <2>2, <2>4, <2>12, <2>13, <2>14 DEF WaitQueueInv, h
  <1> QED  BY <1>2, <1>3

=============================================================================
