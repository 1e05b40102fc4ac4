------------------------- MODULE CountingSemaphore -------------------------
(***************************************************************************)
(* What a kernel semaphore promises to its users (src/os/ksynch.h): units  *)
(* are granted to the waiters first come, first served, a waiter is never  *)
(* refused a unit that is available, and a waiter that gives up (timeout,  *)
(* forced wake-up) gives up exactly its own request.  No scheduler, no     *)
(* interrupt, no negative counter here: Ksema implements this              *)
(* specification.                                                          *)
(***************************************************************************)
EXTENDS Naturals, Sequences, SequencesExt

CONSTANTS
  Client,
  InitialValue

VARIABLES
  avail,     \* units nobody holds nor has been granted
  queue,     \* clients waiting for a unit, in order of arrival
  granted    \* clients that were granted a unit while waiting

vars == <<avail, queue, granted>>

Init ==
  /\ avail = InitialValue
  /\ queue = <<>>
  /\ granted = {}

(* A unit is available: it is taken at once. *)
Take ==
  /\ avail > 0
  /\ avail' = avail - 1
  /\ UNCHANGED <<queue, granted>>

(* No unit: the client waits, behind the others. *)
Enqueue(c) ==
  /\ avail = 0
  /\ c \notin granted
  /\ \A i \in DOMAIN queue : queue[i] # c
  /\ queue' = Append(queue, c)
  /\ UNCHANGED <<avail, granted>>

(* A unit comes back, for the first waiter if there is one. *)
Release ==
  \/ /\ queue = <<>>
     /\ avail' = avail + 1
     /\ UNCHANGED <<queue, granted>>
  \/ /\ queue # <<>>
     /\ granted' = granted \union {Head(queue)}
     /\ queue' = Tail(queue)
     /\ UNCHANGED avail

(* A client that was granted a unit returns with it. *)
Collect(c) ==
  /\ c \in granted
  /\ granted' = granted \ {c}
  /\ UNCHANGED <<avail, queue>>

(* A waiting client gives up. *)
Withdraw(c) ==
  /\ c \notin granted
  /\ \E i \in DOMAIN queue : queue[i] = c /\ queue' = RemoveAt(queue, i)
  /\ UNCHANGED <<avail, granted>>

Next ==
  \/ Take
  \/ Release
  \/ \E c \in Client : Enqueue(c) \/ Collect(c) \/ Withdraw(c)

Spec == Init /\ [][Next]_vars

=============================================================================
