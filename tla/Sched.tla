------------------------------- MODULE Sched -------------------------------
(***************************************************************************)
(* The CPU scheduler of SaghirOS (src/os/sched.c) and the context-switch   *)
(* helpers of src/os/thread.c that call it.  The kernel runs on ONE        *)
(* processor, threads are switched only when they ask for it (yield,       *)
(* sleep, exit) and interrupt handlers never switch.                       *)
(*                                                                         *)
(* This module declares the scheduler's state and one operator for each    *)
(* function that changes it; it has no next-state relation of its own.     *)
(* The modules of the subsystems that call the scheduler (Threads, Ksema,  *)
(* Kmutex...) are built from these operators.                              *)
(***************************************************************************)
EXTENDS Naturals, Sequences

CONSTANTS
  Thread    \* the thread control blocks the "thread" slab cache can hand out

VARIABLES
  state,           \* thr->state of every thread ("FREE": block not allocated)
  ready_queue,     \* ready_queue.thread_list, head first
  current_thread   \* the thread that owns the CPU

sched_vars == <<state, ready_queue, current_thread>>

(* sos_thread_state_t.  SOS_THR_ZOMBIE lasts only between two instructions *)
(* of sos_thread_exit(), with interrupts disabled: see LeaveCPU.           *)
ThreadState == {"FREE", "CREATED", "READY", "RUNNING", "BLOCKED"}

SchedTypeOK ==
  /\ state \in [Thread -> ThreadState]
  /\ ready_queue \in Seq(Thread)
  /\ current_thread \in Thread

InReadyQueue(t) == \E i \in DOMAIN ready_queue : ready_queue[i] = t

-----------------------------------------------------------------------------
(* sos_sched_set_ready(): a thread that is already READY is left where it  *)
(* is, any other one goes to the tail of the queue.                        *)

SetReady_AtHead(t) ==      \* mutant: add_in_ready_queue(thr, FALSE)
  /\ ready_queue' = IF state[t] = "READY" THEN ready_queue ELSE <<t>> \o ready_queue
  /\ state' = [state EXCEPT ![t] = "READY"]

SetReady(t) ==
  /\ ready_queue' = IF state[t] = "READY" THEN ready_queue
                                          ELSE Append(ready_queue, t)
  /\ state' = [state EXCEPT ![t] = "READY"]

(* The end of sos_reschedule() and _set_current(): the head of the queue q *)
(* becomes the current thread; st is the state of the threads after the    *)
(* current one has been marked.  An empty queue is the kernel's            *)
(* SOS_FATAL_ERROR("No kernel thread ready ?!"): no step.                  *)
Dispatch(st, q) ==
  /\ q # <<>>
  /\ current_thread' = Head(q)
  /\ ready_queue' = Tail(q)
  /\ state' = [st EXCEPT ![Head(q)] = "RUNNING"]

(* _switch_to_next_thread(YIELD_MYSELF): the current thread is reserved    *)
(* for the next turn, at the tail of the queue.                            *)
YieldCPU_AtHead ==         \* mutant: sos_reschedule(myself, FALSE)
  Dispatch([state EXCEPT ![current_thread] = "READY"],
           <<current_thread>> \o ready_queue)

YieldCPU_Dropped ==        \* mutant: the yielding thread is not reinserted
  Dispatch([state EXCEPT ![current_thread] = "READY"], ready_queue)

YieldCPU ==
  Dispatch([state EXCEPT ![current_thread] = "READY"],
           Append(ready_queue, current_thread))

(* _switch_to_next_thread(BLOCK_MYSELF): sos_reschedule() does not put a   *)
(* BLOCKED thread back in the queue.                                       *)
BlockCPU_StillReady ==     \* mutant: a BLOCKED thread is put back in the queue
  Dispatch([state EXCEPT ![current_thread] = "BLOCKED"],
           Append(ready_queue, current_thread))

BlockCPU ==
  Dispatch([state EXCEPT ![current_thread] = "BLOCKED"], ready_queue)

LeaveCPU_Zombie ==         \* mutant: delete_thread() is not called
  Dispatch([state EXCEPT ![current_thread] = "ZOMBIE"], ready_queue)

(* sos_thread_exit(): the current thread becomes a ZOMBIE, the next one is *)
(* dispatched, and on its stack, with interrupts still disabled,           *)
(* delete_thread() gives the control block back to the cache.              *)
LeaveCPU ==
  Dispatch([state EXCEPT ![current_thread] = "FREE"], ready_queue)

-----------------------------------------------------------------------------
(* One processor: the current thread is RUNNING and no other thread is.    *)
(* It is the assertion of sos_thread_get_current() and of                  *)
(* _switch_to_next_thread(), for every state.                              *)
OneRunning == \A t \in Thread : (state[t] = "RUNNING") <=> (t = current_thread)

(* The ready queue holds the READY threads, each one once.                 *)
QueueHoldsReady == \A t \in Thread : InReadyQueue(t) <=> (state[t] = "READY")
QueueNoDuplicate ==
  \A i, j \in DOMAIN ready_queue : ready_queue[i] = ready_queue[j] => i = j

(* What every subsystem relies on: no thread is lost (READY but never to   *)
(* be dispatched), dispatched twice, or queued while it sleeps.            *)
SchedConsistent ==
  /\ OneRunning
  /\ QueueHoldsReady
  /\ QueueNoDuplicate

=============================================================================
