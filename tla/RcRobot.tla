------------------------------ MODULE RcRobot ------------------------------
(***************************************************************************)
(* The remote-controlled robot (02testbed_dotbot_rcrobot.c): commands come *)
(* in an interrupt that may interrupt the periodic check which stops the   *)
(* motors when no command has come for a while.  Time is the tick counter  *)
(* of the RTC, which goes round.                                           *)
(***************************************************************************)
EXTENDS Integers

CONSTANTS
  TickWrap,      \* 2^24 ticks of the RTC
  Timeout,       \* TIMEOUT_CHECK_TICKS
  CheckPeriod    \* TIMEOUT_CHECK_MS, in ticks

ASSUME RcRobotConstants ==
  /\ TickWrap \in Nat /\ Timeout \in Nat /\ CheckPeriod \in Nat \ {0}
  /\ Timeout + CheckPeriod < TickWrap

VARIABLES
  ticks,         \* db_timer_ticks
  ts,            \* ts_last_packet_received
  moving,        \* do the motors run?
  check_in,      \* ticks until _timeout_check is called
  stopping,      \* has the running check decided to stop the motors?
  unheard        \* history: ticks since the last packet (*)

\* (*) counted up to Timeout + CheckPeriod + 1.

robot_vars == <<ticks, ts, moving, check_in, stopping, unheard>>

RobotInit ==
  /\ ticks = 0 /\ ts = 0 /\ moving = FALSE
  /\ check_in = CheckPeriod /\ stopping = FALSE /\ unheard = 0

\* The check is taken in the tick it is due.
RobotTick ==
  /\ check_in > 0 /\ ~stopping
  /\ ticks' = (ticks + 1) % TickWrap
  /\ check_in' = check_in - 1
  /\ unheard' = IF unheard > Timeout + CheckPeriod THEN unheard ELSE unheard + 1
  /\ UNCHANGED <<ts, moving, stopping>>

\* _rx_data_callback; any other command than these leaves the motors alone.
RxDataCallback(cmd) ==
  /\ ts' = ticks /\ unheard' = 0
  /\ moving' = CASE cmd \in {"FORWARD", "LEFT", "RIGHT"} -> TRUE
                 [] cmd = "STOP" -> FALSE
                 [] OTHER -> moving
  /\ UNCHANGED <<ticks, check_in, stopping>>

MutantTimedOut == ticks > ts + Timeout + CheckPeriod

\* Both sides are uint32_t: the sum does not go round with the counter.
TimedOut == ticks > ts + Timeout

TimeoutCheck ==
  /\ check_in = 0
  /\ check_in' = CheckPeriod
  /\ stopping' = TimedOut
  /\ UNCHANGED <<ticks, ts, moving, unheard>>

StopMotors ==
  /\ stopping /\ stopping' = FALSE
  /\ moving' = FALSE
  /\ UNCHANGED <<ticks, ts, check_in, unheard>>

RobotNext ==
  \/ RobotTick \/ TimeoutCheck \/ StopMotors
  \/ \E cmd \in {"FORWARD", "LEFT", "RIGHT", "STOP", "other"} :
       RxDataCallback(cmd)

RobotSpec == RobotInit /\ [][RobotNext]_robot_vars

(***************************************************************************)
(* A robot that hears no more commands stops within the timeout and one    *)
(* period of the check, except when the counter goes round before the      *)
(* check can see the timeout: _timeout_check compares with a sum beyond    *)
(* the counter's range, and the robot drives on.                           *)
(***************************************************************************)
NeverRunsAway ==
  moving /\ unheard > Timeout + CheckPeriod
    => ts + Timeout + CheckPeriod >= TickWrap

(***************************************************************************)
(* With "the number of ticks since timer initialization" (timer.h:48) that *)
(* db_timer_ticks returns, which does not go round, no robot drives on     *)
(* unheard for longer, however long it has been running.                   *)
(***************************************************************************)
StopsWhenSilent == moving => unheard <= Timeout + CheckPeriod

=============================================================================
