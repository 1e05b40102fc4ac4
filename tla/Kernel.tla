------------------------------- MODULE Kernel -------------------------------
(***************************************************************************)
(* The kernel that src/os/kernel.c builds: the thread API with the handler *)
(* that cmain() installs for the timer interrupt, clk_it(), which counts   *)
(* the interrupts and displays the count.  It does not call                *)
(* sos_time_do_tick(), so Tick of Threads is not an action here; no code   *)
(* but the callback of a sleep calls sos_thread_force_unblock().           *)
(***************************************************************************)
EXTENDS Threads

CONSTANT CountModulus    \* 2^32 in the code

VARIABLE clock_count     \* the static variable of clk_it()

kernel_vars == <<state, ready_queue, current_thread, loc, timed, armed, fired, clock_count>>

KernelInit == ThreadsInit /\ clock_count = 0

(* clk_it() *)
ClkIt ==
  /\ IRQsEnabled
  /\ clock_count' = (clock_count + 1) % CountModulus
  /\ UNCHANGED thread_vars

KernelNext ==
  \/ (\E t \in Thread : ThreadStep(t)) /\ UNCHANGED clock_count
  \/ ClkIt

(* The timer is programmed at 100 Hz: its interrupt never stops coming. *)
KernelSpec ==
  /\ KernelInit
  /\ [][KernelNext]_kernel_vars
  /\ WF_kernel_vars((\E t \in Thread : Progress(t)) /\ UNCHANGED clock_count)
  /\ SF_kernel_vars(ClkIt)

-----------------------------------------------------------------------------
(* kernel.c, before cmain() enables the interrupts: "this will make the    *)
(* timer HW interrupt call the scheduler"; time.h on sos_time_do_tick():   *)
(* "Timer IRQ callback. Call and remove expired actions from the list."    *)
(* So a sleep with a delay, such as those of the mice of mouse_sim.c, ends.*)
TimerWakesSleepers == \A t \in Thread : (t \in timed) ~> (loc[t] = "run")

=============================================================================
