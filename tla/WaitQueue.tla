----------------------------- MODULE WaitQueue -----------------------------
(***************************************************************************)
(* A kernel wait queue (src/os/kwaitq.c) as the synchronisation primitives *)
(* of src/os/ksynch.c use it: state and operators, composed with the       *)
(* thread API.  A waiter has one entry, on the stack of its                *)
(* sos_kwaitq_wait(), so the queue is the sequence of its waiters.         *)
(***************************************************************************)
EXTENDS Threads, SequencesExt

VARIABLES
  waiting_list,   \* kwq->waiting_list, head first: the owners of the entries
  woken           \* threads whose entry has wakeup_triggered = TRUE

waitq_vars == <<waiting_list, woken>>

WaitQueueTypeOK ==
  /\ waiting_list \in Seq(Thread)
  /\ woken \subseteq Thread

WaitQueueInit ==
  /\ waiting_list = <<>>
  /\ woken = {}

InWaitQueue(t) == \E i \in DOMAIN waiting_list : waiting_list[i] = t

-----------------------------------------------------------------------------
(* _kwaitq_remove_entry() of the entry of thread t *)
RemoveEntry(t) ==
  \E i \in DOMAIN waiting_list :
    /\ waiting_list[i] = t
    /\ waiting_list' = RemoveAt(waiting_list, i)

(* sos_kwaitq_wait() until the CPU is given away: the new entry goes to    *)
(* the tail, then the thread sleeps.                                       *)
WaitBegin_AtHead(self, with_timeout) ==   \* mutant: list_add_head
  /\ waiting_list' = <<self>> \o waiting_list
  /\ woken' = woken \ {self}
  /\ BeginSleep(self, with_timeout)
  /\ loc' = [loc EXCEPT ![self] = "wait"]

WaitBegin(self, with_timeout) ==
  /\ waiting_list' = Append(waiting_list, self)
  /\ woken' = woken \ {self}
  /\ BeginSleep(self, with_timeout)
  /\ loc' = [loc EXCEPT ![self] = "wait"]

(* The return value of sos_kwaitq_wait() *)
WaitStatus(t) == IF t \in woken THEN "OK" ELSE "EINTR"

(* The end of sos_kwaitq_wait(): a waiter that nobody woke up removes its  *)
(* entry by itself.                                                        *)
WaitEnd_KeepEntry(self) ==                \* mutant: the entry is not removed
  /\ EndSleep(self)
  /\ woken' = woken \ {self}
  /\ loc' = [loc EXCEPT ![self] = "run"]
  /\ UNCHANGED <<sched_vars, waiting_list>>

WaitEnd(self) ==
  /\ EndSleep(self)
  /\ IF WaitStatus(self) = "OK" THEN UNCHANGED waiting_list ELSE RemoveEntry(self)
  /\ woken' = woken \ {self}
  /\ loc' = [loc EXCEPT ![self] = "run"]
  /\ UNCHANGED sched_vars

(* sos_kwaitq_wakeup(kwq, 1, SOS_OK).  A head entry whose thread is        *)
(* RUNNING is the "continue" of the source, which loops for ever with      *)
(* interrupts disabled: no step.                                           *)
WakeupOne_NotReady ==      \* mutant: sos_sched_set_ready() is not called
  IF waiting_list = <<>> THEN UNCHANGED <<state, ready_queue, waitq_vars>>
  ELSE /\ state[Head(waiting_list)] # "RUNNING"
       /\ waiting_list' = Tail(waiting_list)
       /\ woken' = woken \union {Head(waiting_list)}
       /\ UNCHANGED <<state, ready_queue>>

WakeupOne ==
  IF waiting_list = <<>> THEN UNCHANGED <<state, ready_queue, waitq_vars>>
  ELSE /\ state[Head(waiting_list)] # "RUNNING"
       /\ SetReady(Head(waiting_list))
       /\ waiting_list' = Tail(waiting_list)
       /\ woken' = woken \union {Head(waiting_list)}

-----------------------------------------------------------------------------
(* The entries of the queue are those of the threads that are inside       *)
(* sos_kwaitq_wait() and have not been woken up, one entry each: no entry  *)
(* outlives the stack frame it lives in (sos_thread_exit() asserts it),    *)
(* and no waiter is forgotten.                                             *)
EntriesMatchWaiters ==
  /\ \A t \in Thread : InWaitQueue(t) <=> (loc[t] = "wait" /\ t \notin woken)
  /\ \A i, j \in DOMAIN waiting_list : waiting_list[i] = waiting_list[j] => i = j
  /\ \A t \in woken : loc[t] = "wait"

(* A wake-up is never lost: a thread whose entry was woken up has or will  *)
(* get the CPU, even if its timeout or a forced unblock came first.        *)
WokenNotBlocked == \A t \in woken : state[t] \in {"READY", "RUNNING"}

(* The loop of sos_kwaitq_wakeup() terminates: when the kernel may call it *)
(* (from a thread or from an interrupt), no entry is that of the RUNNING   *)
(* thread.                                                                 *)
WakeupTerminates ==
  IRQsEnabled => \A i \in DOMAIN waiting_list : state[waiting_list[i]] # "RUNNING"

=============================================================================
