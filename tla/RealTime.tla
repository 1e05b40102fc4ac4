------------------------------ MODULE RealTime ------------------------------
(***************************************************************************)
(* The timeout actions seen from a clock finer than the tick: actions are  *)
(* programmed between two ticks, and sos_time_register_action_relative()   *)
(* counts their delay from the last tick.                                  *)
(***************************************************************************)
EXTENDS Timeouts

VARIABLES
  clock,      \* real time, in nanoseconds
  interrupt,  \* real time at which the timer raises its next interrupt
  wish,       \* history: the real time for which each action was asked
  dated       \* history: actions asked for at a date, the others after a delay

realtime_vars == <<last_tick_time, tick_resolution, timeout_action_list, timeout,
                   called, clock, interrupt, wish, dated>>

RealTimeInit ==
  /\ TimeoutsInit
  /\ clock = 0
  /\ interrupt = DateValue(tick_resolution)
  /\ wish = [a \in Action |-> 0]
  /\ dated = {}

(* Time passes, until the timer raises its interrupt. *)
Pass ==
  /\ clock + 1 < interrupt
  /\ interrupt <= MaxTime
  /\ clock' = clock + 1
  /\ UNCHANGED <<last_tick_time, tick_resolution, timeout_action_list, timeout,
                 interrupt, wish, dated>>
  /\ called' = <<>>

TimerInterrupt ==
  /\ clock + 1 = interrupt
  /\ clock' = interrupt
  /\ DoTick
  /\ interrupt' = interrupt + DateValue(tick_resolution)
  /\ UNCHANGED <<wish, dated>>

ProgramIn(a, delay) ==
  /\ RegisterRelative(a, DateOf(delay))
  /\ wish' = [wish EXCEPT ![a] = clock + delay]
  /\ dated' = dated \ {a}
  /\ UNCHANGED <<clock, interrupt>>

ProgramAt(a, date) ==
  /\ RegisterAbsolute(a, DateOf(date))
  /\ wish' = [wish EXCEPT ![a] = date]
  /\ dated' = dated \union {a}
  /\ UNCHANGED <<clock, interrupt>>

(* The timer chip is programmed anew just after a tick. *)
ChangeResolution(r) ==
  /\ clock + DateValue(tick_resolution) = interrupt
  /\ SetTickResolution(DateOf(r))
  /\ interrupt' = clock + r
  /\ UNCHANGED <<clock, wish, dated>>

RealTimeNext ==
  \/ Pass
  \/ TimerInterrupt
  \/ \E a \in Action, delay \in 0 .. MaxDelay : ProgramIn(a, delay)
  \/ \E a \in Action, date \in 0 .. MaxTime : ProgramAt(a, date)
  \/ \E a \in Action : Unregister(a) /\ UNCHANGED <<clock, interrupt, wish, dated>>
  \/ \E r \in Resolutions : ChangeResolution(r)

RealTimeSpec == RealTimeInit /\ [][RealTimeNext]_realtime_vars

-----------------------------------------------------------------------------
(* PROPERTIES                                                              *)

LongestTick == Max(Resolutions)

(* No action is late: it is called at most one tick after the time it was  *)
(* asked for, and is not left in the list longer than that, whatever the   *)
(* resolution becomes in between; and one that was asked for at a date is  *)
(* not called before it (time.h: "triggered after the specified ABSOLUTE   *)
(* date").                                                                 *)
CalledInTime ==
  /\ \A i \in DOMAIN called :
       /\ clock <= wish[called[i]] + LongestTick
       /\ called[i] \in dated => clock >= wish[called[i]]
  /\ \A a \in Action : Programmed(a) => clock < wish[a] + LongestTick

(* thread.h says of sos_thread_sleep(): "Release the CPU for (at least)    *)
(* the given delay", and time.h that an action is triggered "after the     *)
(* specified delay RELATIVE to the time when the function gets called": no *)
(* action is called before the time it was asked for.                      *)
NeverEarly == \A i \in DOMAIN called : clock >= wish[called[i]]

=============================================================================
