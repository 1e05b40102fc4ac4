------------------------------ MODULE Timeouts ------------------------------
(***************************************************************************)
(* The timeout actions of src/os/time.c: the kernel's clock of ticks, the  *)
(* list of the programmed actions in order of due date, and the timer      *)
(* interrupt's sos_time_do_tick().  A date is a struct sos_time of         *)
(* TimeArith.                                                              *)
(***************************************************************************)
EXTENDS TimeArith, SequencesExt

CONSTANTS
  Action,        \* the struct sos_timeout_action that the kernel's threads own
  Resolutions,   \* the values tick_resolution may be set to, in nanoseconds
  MaxDelay,      \* bound of the model on the delays asked for, in nanoseconds
  MaxTime        \* bound of the model on the kernel's clock, in nanoseconds

ASSUME TimeoutsAssumption ==
  /\ Resolutions \subseteq Nat \ {0}
  /\ Resolutions # {}
  /\ MaxDelay \in Nat
  /\ MaxTime \in Nat
  /\ \A r \in Resolutions : MaxTime + MaxDelay + r < Word * NS_IN_SEC

VARIABLES
  last_tick_time,        \* time of the last tick
  tick_resolution,       \* time between two ticks
  timeout_action_list,   \* the programmed actions, first to expire at the head
  timeout,               \* act->timeout: due date while the action is in the
                         \* list, then the time that remained when it left it
  called                 \* history: actions called by the last tick, in order

timeouts_vars == <<last_tick_time, tick_resolution, timeout_action_list, timeout, called>>

TimeoutsTypeOK ==
  /\ last_tick_time \in Date
  /\ tick_resolution \in {DateOf(r) : r \in Resolutions}
  /\ timeout_action_list \in Seq(Action)
  /\ timeout \in [Action -> Date]
  /\ called \in Seq(Action)

(* sos_time_subsysem_setup() *)
TimeoutsInit ==
  /\ last_tick_time = Zero
  /\ tick_resolution \in {DateOf(r) : r \in Resolutions}
  /\ timeout_action_list = <<>>
  /\ timeout = [a \in Action |-> Zero]
  /\ called = <<>>

Programmed(a) == Contains(timeout_action_list, a)

-----------------------------------------------------------------------------
(* The place the loop of _add_action() finds for a due date: in front of   *)
(* the first action that is due strictly later.                            *)
InsertionPlace_BeforeEqual(due) ==   \* mutant: <= instead of <
  LET later == {i \in DOMAIN timeout_action_list :
                  TimeCmp(due, timeout[timeout_action_list[i]]) <= 0}
  IN IF later = {} THEN Len(timeout_action_list) + 1 ELSE Min(later)

InsertionPlace(due) ==
  LET later == {i \in DOMAIN timeout_action_list :
                  TimeCmp(due, timeout[timeout_action_list[i]]) < 0}
  IN IF later = {} THEN Len(timeout_action_list) + 1 ELSE Min(later)

(* _add_action(); an action that is already in the list is refused with    *)
(* -SOS_EBUSY.                                                             *)
AddAction(a, due) ==
  /\ ~ Programmed(a)
  /\ timeout' = [timeout EXCEPT ![a] = due]
  /\ timeout_action_list' = InsertAt(timeout_action_list, InsertionPlace(due), a)
  /\ UNCHANGED <<last_tick_time, tick_resolution>>
  /\ called' = <<>>

(* sos_time_register_action_relative() *)
RegisterRelative(a, delay) == AddAction(a, TimeInc(last_tick_time, delay))

(* sos_time_register_action_absolute(): a date in the past is refused with *)
(* -SOS_EINVAL.                                                            *)
RegisterAbsolute(a, date) ==
  /\ TimeCmp(date, last_tick_time) >= 0
  /\ AddAction(a, date)

(* What _remove_action() leaves in act->timeout when the clock shows now.  *)
Remaining(a, now) ==
  IF TimeCmp(timeout[a], now) <= 0 THEN Zero ELSE TimeDec(timeout[a], now)

(* sos_time_unregister_action(); nothing happens to an action that is not  *)
(* in the list.                                                            *)
Unregister(a) ==
  /\ Programmed(a)
  /\ timeout' = [timeout EXCEPT ![a] = Remaining(a, last_tick_time)]
  /\ timeout_action_list' = RemoveFirst(timeout_action_list, a)
  /\ UNCHANGED <<last_tick_time, tick_resolution>>
  /\ called' = <<>>

(* The number of actions the loop of sos_time_do_tick() removes when the   *)
(* clock shows now: it stops at the first one that is due later.           *)
NbExpired_Strict(now) ==             \* mutant: stops at an action due now
  LET later == {i \in DOMAIN timeout_action_list :
                  TimeCmp(now, timeout[timeout_action_list[i]]) <= 0}
  IN IF later = {} THEN Len(timeout_action_list) ELSE Min(later) - 1

NbExpired(now) ==
  LET later == {i \in DOMAIN timeout_action_list :
                  TimeCmp(now, timeout[timeout_action_list[i]]) < 0}
  IN IF later = {} THEN Len(timeout_action_list) ELSE Min(later) - 1

(* sos_time_do_tick(): the clock advances, the expired actions leave the   *)
(* list and are called, in the order of the list.                          *)
DoTick ==
  LET now == TimeInc(last_tick_time, tick_resolution)
      n == NbExpired(now)
  IN /\ DateValue(last_tick_time) + DateValue(tick_resolution) <= MaxTime
     /\ last_tick_time' = now
     /\ called' = SubSeq(timeout_action_list, 1, n)
     /\ timeout_action_list' = SubSeq(timeout_action_list, n + 1, Len(timeout_action_list))
     /\ timeout' = [a \in Action |-> IF Contains(called', a) THEN Remaining(a, now)
                                                             ELSE timeout[a]]
     /\ UNCHANGED tick_resolution

(* sos_time_set_tick_resolution() *)
SetTickResolution(r) ==
  /\ tick_resolution' = r
  /\ UNCHANGED <<last_tick_time, timeout_action_list, timeout>>
  /\ called' = <<>>

TimeoutsNext ==
  \/ \E a \in Action, delay \in 0 .. MaxDelay : RegisterRelative(a, DateOf(delay))
  \/ \E a \in Action, date \in 0 .. MaxTime : RegisterAbsolute(a, DateOf(date))
  \/ \E a \in Action : Unregister(a)
  \/ \E r \in Resolutions : SetTickResolution(DateOf(r))
  \/ DoTick

TimeoutsSpec == TimeoutsInit /\ [][TimeoutsNext]_timeouts_vars

-----------------------------------------------------------------------------
(* PROPERTIES                                                              *)

(* The list holds each action once, in increasing order of due date: the   *)
(* comparison of seconds and nanoseconds that inserts an action orders     *)
(* dates as the numbers they stand for.                                    *)
ListInDueOrder ==
  \A i, j \in DOMAIN timeout_action_list : i < j =>
    /\ timeout_action_list[i] # timeout_action_list[j]
    /\ DateValue(timeout[timeout_action_list[i]]) <= DateValue(timeout[timeout_action_list[j]])

(* A tick calls every programmed action whose date has come and no other   *)
(* one, although it looks only at the head of the list; and it does not    *)
(* call the same action twice.                                             *)
TickCallsAllDue ==
  [][last_tick_time' # last_tick_time =>
       /\ ToSet(called') = {a \in Action : /\ Programmed(a)
                                           /\ DateValue(timeout[a]) <= DateValue(last_tick_time')}
       /\ Len(called') = Cardinality(ToSet(called'))]_timeouts_vars

(* Whoever takes the action out of the list, the timer or its owner, it is *)
(* left with the time that remained before its due date, which is zero for *)
(* an action that was called (asserted by sos_thread_sleep()): the borrow  *)
(* of nanoseconds, which mixes signed and unsigned words, loses nothing.   *)
RemainingIsExact ==
  [][\A a \in Action : Programmed(a) /\ ~ Programmed(a)' =>
       LET now == DateValue(last_tick_time')
       IN \/ DateValue(timeout[a]) = now + DateValue(timeout'[a])
          \/ DateValue(timeout[a]) < now /\ DateValue(timeout'[a]) = 0]_timeouts_vars

(* Two actions due at the same date expire in the order in which they were *)
(* programmed: a new action never enters in front of one due as early.     *)
FirstProgrammedFirst ==
  [][\A a, b \in Action :
       /\ Programmed(a) /\ Programmed(a)' /\ ~ Programmed(b) /\ Programmed(b)'
       /\ timeout'[a] = timeout'[b]
       => \E i, j \in DOMAIN timeout_action_list' :
            i < j /\ timeout_action_list'[i] = a /\ timeout_action_list'[j] = b]_timeouts_vars

=============================================================================
