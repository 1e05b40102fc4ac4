---------------------------- MODULE SemaClients ----------------------------
(***************************************************************************)
(* Threads that share units of one semaphore the way src/os/mouse_sim.c    *)
(* uses SemMap and SemMouse: each sos_ksema_up() gives back a unit that a  *)
(* successful sos_ksema_down() obtained.  A client does not block for ever *)
(* nor exit while it holds a unit.                                         *)
(***************************************************************************)
EXTENDS Ksema

VARIABLE inside    \* threads that were told SOS_OK and have not called up since

clients_vars == <<state, ready_queue, current_thread, loc, timed, armed, fired,
                  waiting_list, woken, value, inside>>

ClientsInit == KsemaInit /\ inside = {}

(* The rest of the client's code, and interrupts. *)
ClientsElsewhere ==
  /\ ThreadsNext
  /\ \A t \in inside : ~ Exit(t) /\ ~ SleepCall(t, FALSE)
  /\ UNCHANGED <<sema_vars, inside>>

Enter(self) ==
  /\ self \notin inside
  /\ DownNow(self) \/ TryDown(self)
  /\ inside' = inside \union {self}

EnterWait(self, with_timeout) ==
  /\ self \notin inside
  /\ DownWait(self, with_timeout)
  /\ UNCHANGED inside

EnterReturn_AnyStatus(self) ==   \* mutant: the return value of down is not checked
  /\ DownReturn(self)
  /\ inside' = inside \union {self}

EnterReturn(self) ==
  /\ DownReturn(self)
  /\ inside' = IF WaitStatus(self) = "OK" THEN inside \union {self} ELSE inside

Leave(self) ==
  /\ InOwnCode(self)
  /\ self \in inside
  /\ Up
  /\ inside' = inside \ {self}

ClientStep(self) ==
  \/ Enter(self)
  \/ \E with_timeout \in BOOLEAN : EnterWait(self, with_timeout)
  \/ EnterReturn(self)
  \/ Leave(self)

ClientsNext == ClientsElsewhere \/ \E t \in Thread : ClientStep(t)

ClientsSpec == ClientsInit /\ [][ClientsNext]_clients_vars

(* Fairness of the thread API; in addition a client that holds a unit and  *)
(* gets the CPU again and again ends up giving the unit back.              *)
ClientsProgress(self) ==
  \/ Progress(self) /\ UNCHANGED <<sema_vars, inside>>
  \/ EnterReturn(self)

ClientsFairSpec ==
  /\ ClientsSpec
  /\ WF_clients_vars(\E t \in Thread : ClientsProgress(t))
  /\ \A t \in Thread \ {Idle} :
       /\ SF_clients_vars(Leave(t))
       /\ SF_clients_vars(Tick(t) /\ UNCHANGED <<sema_vars, inside>>)

-----------------------------------------------------------------------------
(* A unit is free, granted to a waiter on its way back, or held by one     *)
(* client: none is lost and none is duplicated.  With InitialValue = 1     *)
(* this is mutual exclusion of the clients.                                *)
UnitsConserved ==
  Cardinality(inside) + Cardinality(woken) + FreeUnits = InitialValue

(* Every wait ends, timeout or not: the unit comes.                        *)
WaitEnds == \A t \in Thread : (loc[t] = "wait") ~> (loc[t] = "run")

=============================================================================
