------------------------------- MODULE Timers -------------------------------
(***************************************************************************)
(* The timer drivers (bsp/nrf/timer_hf.c on a TIMER, bsp/nrf/timer.c on an *)
(* RTC, the same code but for the registers): a blocking delay of the main *)
(* loop on the last compare channel, and an alarm of any of the others,    *)
(* which the main loop sets and interrupts set again while it runs (the    *)
(* slot timers of the TDMA client).  The counter goes round every Wrap     *)
(* ticks.                                                                  *)
(*                                                                         *)
(* A TIMER sets EVENTS_COMPARE whenever the counter meets CC; an RTC only  *)
(* if the channel's interrupt is enabled.  The main loop captures the      *)
(* counter in CC and then adds to it; with an RTC, where it reads COUNTER  *)
(* and writes CC once, cc holds what was read.                             *)
(***************************************************************************)
EXTENDS Integers

CONSTANTS
  Wrap,     \* the ticks of the counter: 2^32, or 2^24 for an RTC
  Delays,   \* the delays asked for
  Periods   \* the times set for the alarm

ASSUME TimersConstants ==
  /\ Wrap \in Nat \ {0}
  /\ Delays \subseteq 1 .. Wrap - 1 /\ Periods \subseteq 1 .. Wrap - 1

VARIABLES
  peripheral,         \* "TIMER" or "RTC"
  counter, cc, event, \* COUNTER, CC and EVENTS_COMPARE, for each channel
  enabled,            \* INTEN of the alarm's channel; the delay's stays set
  one_shot, period,   \* timer_callback of the alarm (0: never set)
  running,            \* _timer_hf_vars.running
  loop_pc, delay,     \* the next access of the main loop, and the delay
  isr_pc,             \* the next access of _timer_hf_isr, or "idle"
  \* history
  left,               \* ticks until the delay being armed is over
  late,               \* was it over before it was armed?
  calls,              \* calls of the alarm's callback since it was set (*)
  alarm_left,         \* ticks until the time it was set for
  crossed             \* did an expiry or another setting come in between, or
                      \*   was it armed later than it is over?

\* (*) counted up to 2.

alarm_vars == <<enabled, one_shot, period, calls, alarm_left, crossed>>
delay_vars == <<running, loop_pc, delay, left, late>>
timer_vars == <<peripheral, counter, cc, event, isr_pc, alarm_vars, delay_vars>>

Channels == {"alarm", "delay"}

\* Where the main loop is in the middle of setting the alarm.
Setting == {"alarm_capture", "alarm_arm"}

TimersInit ==
  /\ peripheral \in {"TIMER", "RTC"}
  /\ counter = 0 /\ cc = [ch \in Channels |-> 0]
  /\ event = [ch \in Channels |-> FALSE]
  /\ enabled = FALSE /\ one_shot = FALSE /\ period = 0
  /\ running = FALSE /\ loop_pc = "idle" /\ delay = 0
  /\ isr_pc = "idle"
  /\ left = 0 /\ late = FALSE
  /\ calls = 0 /\ alarm_left = 0 /\ crossed = FALSE

\* The handler's own few accesses take no time; that it is taken late, and
\* that callbacks last, shows in the ticks before the next step.
TimerTick ==
  /\ isr_pc = "idle"
  /\ counter' = (counter + 1) % Wrap
  /\ event' = [ch \in Channels |->
       event[ch] \/ (cc[ch] = counter' /\
         (peripheral = "TIMER" \/ ch = "delay" \/ enabled))]
  /\ left' = IF left > 0 THEN left - 1 ELSE 0
  /\ alarm_left' = IF alarm_left > 0 THEN alarm_left - 1 ELSE 0
  /\ UNCHANGED <<peripheral, cc, isr_pc, enabled, one_shot, period, calls,
                 crossed, running, loop_pc, delay, late>>

-----------------------------------------------------------------------------
\* The main loop goes on, with what none of its steps changes.
LoopGoto(from, to) ==
  /\ isr_pc = "idle" /\ loop_pc = from /\ loop_pc' = to
  /\ UNCHANGED <<peripheral, counter, event, isr_pc, running>>

(* db_timer_hf_delay_us. *)

DelayGoto(from, to) == LoopGoto(from, to) /\ UNCHANGED alarm_vars

DelayCapture(us) ==
  /\ DelayGoto("idle", "delay_arm")
  /\ cc' = [cc EXCEPT !["delay"] = counter]
  /\ delay' = us /\ left' = us /\ late' = FALSE

DelayArm ==
  /\ DelayGoto("delay_arm", "delay_run")
  /\ cc' = [cc EXCEPT !["delay"] = (@ + delay) % Wrap]
  /\ late' = (left = 0)
  /\ UNCHANGED <<delay, left>>

DelayRun ==
  /\ isr_pc = "idle" /\ loop_pc = "delay_run" /\ loop_pc' = "wait"
  /\ running' = TRUE
  /\ late' = (late \/ (left = 0 /\ ~event["delay"]))
  /\ left' = 0
  /\ UNCHANGED <<peripheral, counter, event, isr_pc, alarm_vars, cc, delay>>

DelayEnd ==
  /\ ~running
  /\ DelayGoto("wait", "idle")
  /\ late' = FALSE
  /\ UNCHANGED <<cc, delay, left>>

-----------------------------------------------------------------------------
(* db_timer_hf_set_oneshot_us, db_timer_hf_set_periodic_us: an expiry that  *)
(* waits is not forgotten.                                                 *)

MutantSetAlarm(once, us) ==
  /\ cc' = [cc EXCEPT !["alarm"] = (counter + us) % Wrap]
  /\ one_shot' = once /\ period' = us
  /\ calls' = 0 /\ alarm_left' = us
  /\ crossed' = (event["alarm"] \/ isr_pc # "idle" \/ loop_pc \in Setting)
  /\ UNCHANGED <<peripheral, counter, event, enabled, isr_pc, delay_vars>>

\* From the callback, or from an interrupt above the timer's.
SetAlarm(once, us) ==
  /\ cc' = [cc EXCEPT !["alarm"] = (counter + us) % Wrap]
  /\ enabled' = TRUE
  /\ one_shot' = once /\ period' = us
  /\ calls' = 0 /\ alarm_left' = us
  /\ crossed' = (event["alarm"] \/ isr_pc # "idle" \/ loop_pc \in Setting)
  /\ UNCHANGED <<peripheral, counter, event, isr_pc, delay_vars>>

\* From the main loop, with interrupts before each access.
AlarmEnable(once, us) ==
  /\ LoopGoto("idle", "alarm_capture")
  /\ enabled' = TRUE
  /\ one_shot' = once /\ period' = us
  /\ calls' = 0 /\ alarm_left' = us
  /\ crossed' = event["alarm"]
  /\ UNCHANGED <<cc, delay, left, late>>

AlarmCapture ==
  /\ LoopGoto("alarm_capture", "alarm_arm")
  /\ cc' = [cc EXCEPT !["alarm"] = counter]
  /\ UNCHANGED <<alarm_vars, delay, left, late>>

AlarmArm ==
  /\ LoopGoto("alarm_arm", "idle")
  /\ cc' = [cc EXCEPT !["alarm"] = (@ + period) % Wrap]
  /\ crossed' = (crossed \/ event["alarm"]
                  \/ (counter - cc["alarm"]) % Wrap >= period)
  /\ UNCHANGED <<enabled, one_shot, period, calls, alarm_left, delay, left, late>>

-----------------------------------------------------------------------------
(* _timer_hf_isr: any channel's interrupt makes it look at all of them. *)

MutantTakeExpiry ==
  /\ isr_pc = "idle"
  /\ event["delay"] \/ (event["alarm"] /\ enabled)
  /\ event' = [ch \in Channels |-> FALSE]
  /\ running' = (running /\ ~event["alarm"])
  /\ isr_pc' = IF event["alarm"] THEN "disable" ELSE "idle"
  /\ UNCHANGED <<peripheral, counter, cc, alarm_vars, loop_pc, delay, left, late>>

TakeExpiry ==
  /\ isr_pc = "idle"
  /\ event["delay"] \/ (event["alarm"] /\ enabled)
  /\ event' = [ch \in Channels |-> FALSE]
  /\ running' = (running /\ ~event["delay"])
  /\ isr_pc' = IF event["alarm"] THEN "disable" ELSE "idle"
  /\ UNCHANGED <<peripheral, counter, cc, alarm_vars, loop_pc, delay, left, late>>

StopOneShot ==
  /\ isr_pc = "disable" /\ one_shot
  /\ isr_pc' = "callback"
  /\ enabled' = FALSE
  /\ crossed' = (crossed \/ loop_pc \in Setting)
  /\ UNCHANGED <<peripheral, counter, cc, event, one_shot, period, calls,
                 alarm_left, delay_vars>>

NextPeriod ==
  /\ isr_pc = "disable" /\ ~one_shot
  /\ isr_pc' = "callback"
  /\ cc' = [cc EXCEPT !["alarm"] = (@ + period) % Wrap]
  /\ crossed' = (crossed \/ loop_pc \in Setting
                  \/ (counter - cc["alarm"]) % Wrap >= period)
  /\ UNCHANGED <<peripheral, counter, event, enabled, one_shot, period, calls,
                 alarm_left, delay_vars>>

Callback ==
  /\ isr_pc = "callback"
  /\ isr_pc' = "idle"
  /\ calls' = IF calls < 2 THEN calls + 1 ELSE calls
  /\ UNCHANGED <<peripheral, counter, cc, event, enabled, one_shot, period,
                 alarm_left, crossed, delay_vars>>

TimersNext ==
  \/ TimerTick
  \/ \E us \in Delays : DelayCapture(us)
  \/ DelayArm \/ DelayRun \/ DelayEnd
  \/ \E once \in BOOLEAN, us \in Periods :
       SetAlarm(once, us) \/ AlarmEnable(once, us)
  \/ AlarmCapture \/ AlarmArm
  \/ TakeExpiry \/ StopOneShot \/ NextPeriod \/ Callback

TimersSpec == TimersInit /\ [][TimersNext]_timer_vars

-----------------------------------------------------------------------------
\* The ticks until the counter next meets CC.
DueIn(ch) == ((cc[ch] - counter - 1) % Wrap) + 1

(***************************************************************************)
(* db_timer_hf_delay_us waits for its time and not for a turn of the       *)
(* counter, 71 minutes: the flag, the compare event and the interrupt that *)
(* clears both work together.  The exception is a delay that is over       *)
(* before it is armed, because interrupts took longer than it lasts (see   *)
(* DelayIsBounded).                                                        *)
(***************************************************************************)
DelayWakes ==
  loop_pc = "wait" /\ running /\ ~late =>
    event["delay"] \/ DueIn("delay") <= delay

(***************************************************************************)
(* An alarm that was set is enabled, and due within its time or being      *)
(* dealt with.  Two things can cross it, and neither is guarded against:   *)
(* setting it while the old expiry waits or is being dealt with, whose     *)
(* INTENCLR is then for the new one (NeverEarly shows what follows), and   *)
(* interrupts so long that the expiry lies behind the counter when CC is   *)
(* written.                                                                *)
(***************************************************************************)
AlarmKept ==
  period # 0 /\ ~crossed /\ (one_shot => calls = 0)
    /\ isr_pc = "idle" /\ loop_pc \notin Setting =>
    enabled /\ (event["alarm"] \/ DueIn("alarm") <= period)

(***************************************************************************)
(* db_timer_hf_set_oneshot_us: "Set a callback to be called once after an  *)
(* amount of microseconds" (timer_hf.h:51).                                *)
(***************************************************************************)
OneShotOnce == one_shot /\ ~crossed => calls <= 1

(***************************************************************************)
(* The same line, read for the time: an alarm that is set again does not   *)
(* get the callback of its old expiry, before its own time.                *)
(***************************************************************************)
NeverEarly == one_shot /\ calls > 0 => alarm_left = 0

(***************************************************************************)
(* db_timer_hf_delay_us: "Add a delay in us using the high frequency       *)
(* timer" (timer_hf.h:81), however long the interrupts between its         *)
(* accesses last.                                                          *)
(***************************************************************************)
DelayIsBounded ==
  loop_pc = "wait" /\ running => event["delay"] \/ DueIn("delay") <= delay

=============================================================================
