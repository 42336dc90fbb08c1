--------------------------- MODULE Clocks_proofs ---------------------------
(***************************************************************************)
(* Proofs about the parts that reckon with the time of a counter that goes *)
(* round: the timer drivers, for any width, delays and periods, however    *)
(* late interrupts are taken; the remote-controlled robot, for every       *)
(* timeout, period of its check and width of the counter; the lighthouse   *)
(* driver, for any rotor a little faster than the driver takes it to be.   *)
(***************************************************************************)
EXTENDS Timers, RcRobot, Lh2, TLAPS

-----------------------------------------------------------------------------
(* Arithmetic of a counter that goes round every n ticks. *)

LEMMA Division ==
  ASSUME NEW y \in Int, NEW n \in Nat \ {0}
  PROVE  \E k \in Int, r \in 0 .. n - 1 : y = n * k + r /\ (y % n) = r
  <1>1. y % n \in 0 .. n - 1 /\ y \div n \in Int /\ y = n * (y \div n) + (y % n)
    OBVIOUS
  <1> QED BY <1>1

LEMMA Distribute ==
  ASSUME NEW n \in Int, NEW a \in Int, NEW b \in Int
  PROVE  n * (a + b) = n * a + n * b /\ n * (a - b) = n * a - n * b
  OBVIOUS

LEMMA NoMultiple ==
  ASSUME NEW n \in Nat \ {0}, NEW k \in Int, NEW y \in Int,
         y = n * k, y < n, y > -n
  PROVE  k = 0
  <1>1. CASE k >= 1
    <2>1. n * k >= n
      BY <1>1
    <2> QED BY <2>1
  <1>2. CASE k <= -1
    <2>1. n * k <= -n
      BY <1>2
    <2> QED BY <2>1
  <1> QED BY <1>1, <1>2

LEMMA Remainder ==
  ASSUME NEW n \in Nat \ {0}, NEW y \in Int, NEW k \in Int, NEW r \in 0 .. n - 1,
         y = n * k + r
  PROVE  (y % n) = r
  <1>1. PICK q \in Int, s \in 0 .. n - 1 : y = n * q + s /\ (y % n) = s
    BY Division
  <1>2. PICK d \in Int : d = q - k
    OBVIOUS
  <1>3. r - s = n * d
    BY <1>1, <1>2
  <1>4. d = 0
    BY <1>3, NoMultiple
  <1> QED BY <1>1, <1>3, <1>4

\* The ticks from c until the counter next meets x, 1 to n.
Gap(x, c, n) == ((x - c - 1) % n) + 1

LEMMA GapIs ==
  ASSUME NEW n \in Nat \ {0}, NEW x \in Int, NEW c \in Int
  PROVE  /\ Gap(x, c, n) \in 1 .. n
         /\ \E k \in Int : x - c = n * k + Gap(x, c, n)
  <1>1. PICK y \in Int : y = x - c - 1
    OBVIOUS
  <1>2. PICK k \in Int, r \in 0 .. n - 1 : y = n * k + r /\ (y % n) = r
    BY Division
  <1>3. Gap(x, c, n) = r + 1
    BY <1>1, <1>2 DEF Gap
  <1>4. x - c = n * k + (r + 1)
    BY <1>1, <1>2
  <1> QED BY <1>3, <1>4

LEMMA GapOf ==
  ASSUME NEW n \in Nat \ {0}, NEW x \in Int, NEW c \in Int,
         NEW k \in Int, NEW g \in 1 .. n, x - c = n * k + g
  PROVE  Gap(x, c, n) = g
  <1>1. PICK y \in Int : y = x - c - 1
    OBVIOUS
  <1>2. PICK r \in 0 .. n - 1 : r = g - 1
    OBVIOUS
  <1>3. y = n * k + r
    BY <1>1, <1>2
  <1>4. (y % n) = r
    BY <1>3, Remainder
  <1> QED BY <1>1, <1>2, <1>4 DEF Gap

\* What is added or left out in whole turns makes no difference.
LEMMA GapTurns ==
  ASSUME NEW n \in Nat \ {0}, NEW x \in Int, NEW c \in Int
  PROVE  Gap((x % n), c, n) = Gap(x, c, n)
  <1>1. PICK q \in Int, r \in 0 .. n - 1 : x = n * q + r /\ (x % n) = r
    BY Division
  <1>2. PICK g \in 1 .. n, k \in Int : g = Gap(x, c, n) /\ x - c = n * k + g
    <2>1. /\ Gap(x, c, n) \in 1 .. n
          /\ \E k \in Int : x - c = n * k + Gap(x, c, n)
      BY GapIs
    <2> HIDE DEF Gap
    <2> QED BY <2>1
  <1>3. PICK d \in Int : d = k - q
    OBVIOUS
  <1>4. r - c = n * d + g
    <2>1. n * d = n * k - n * q /\ n * k \in Int /\ n * q \in Int
      BY <1>3, Distribute
    <2> QED BY <1>1, <1>2, <2>1
  <1>5. Gap(r, c, n) = g
    <2>1. r \in Int
      OBVIOUS
    <2> QED BY <1>4, <2>1, GapOf
  <1> QED BY <1>1, <1>2, <1>5

\* The counter goes on: it meets x, or is one tick nearer.
LEMMA GapTick ==
  ASSUME NEW n \in Nat \ {0}, NEW x \in Int, NEW c \in Int,
         NEW next, next = ((c + 1) % n)
  PROVE  /\ Gap(x, c, n) # 1 => Gap(x, next, n) = Gap(x, c, n) - 1
         /\ Gap(x, c, n) = 1 /\ x \in 0 .. n - 1 => x = next
  <1>1. PICK y \in Int : y = c + 1
    OBVIOUS
  <1>2. PICK q \in Int, r \in 0 .. n - 1 : y = n * q + r /\ (y % n) = r
    BY Division
  <1>3. next = r
    BY <1>1, <1>2
  <1>4. PICK g \in 1 .. n, k \in Int : g = Gap(x, c, n) /\ x - c = n * k + g
    <2>1. /\ Gap(x, c, n) \in 1 .. n
          /\ \E k \in Int : x - c = n * k + Gap(x, c, n)
      BY GapIs
    <2> HIDE DEF Gap
    <2> QED BY <2>1
  <1>5. PICK d \in Int : d = k + q
    OBVIOUS
  <1>6. x - r = n * d + (g - 1)
    <2>1. n * d = n * k + n * q /\ n * k \in Int /\ n * q \in Int
      BY <1>5, Distribute
    <2>2. PICK a \in Int, b \in Int : a = n * k /\ b = n * q
      BY <2>1
    <2>3. y = b + r /\ x - c = a + g /\ n * d = a + b
      BY <1>2, <1>4, <2>1, <2>2
    <2>4. x - r = (a + b) + (g - 1)
      BY <1>1, <2>2, <2>3
    <2> QED BY <2>3, <2>4
  <1>7. CASE g # 1
    <2>1. PICK h \in 1 .. n : h = g - 1
      BY <1>7
    <2>2. Gap(x, r, n) = h
      <3>1. r \in Int /\ x - r = n * d + h
        BY <1>6, <2>1
      <3> QED BY <3>1, GapOf
    <2> QED BY <1>3, <1>4, <1>7, <2>1, <2>2
  <1>8. CASE g = 1
    <2> SUFFICES ASSUME x \in 0 .. n - 1 PROVE x = r
      BY <1>3, <1>4, <1>8
    <2>1. PICK z \in Int : z = x - r /\ z = n * d
      BY <1>6, <1>8
    <2>2. d = 0
      BY <2>1, NoMultiple
    <2> QED BY <2>1, <2>2
  <1> QED BY <1>7, <1>8

\* x behind the counter by less than p, and set p further.
LEMMA GapPeriod ==
  ASSUME NEW n \in Nat \ {0}, NEW x \in Int, NEW c \in Int, NEW p \in 1 .. n - 1,
         ((c - x) % n) < p
  PROVE  Gap(((x + p) % n), c, n) <= p
  <1>1. PICK y \in Int : y = c - x
    OBVIOUS
  <1>2. PICK q \in Int, r \in 0 .. n - 1 : y = n * q + r /\ (y % n) = r
    BY Division
  <1>3. PICK g \in 1 .. n, d \in Int, z \in Int : g = p - r /\ d = -q /\ z = x + p
    BY <1>1, <1>2
  <1>4. z - c = n * d + g
    BY <1>1, <1>2, <1>3
  <1>5. Gap(z, c, n) = g
    BY <1>4, GapOf
  <1>6. Gap((z % n), c, n) = g
    BY <1>5, GapTurns
  <1> QED BY <1>3, <1>6

LEMMA GapAhead ==
  ASSUME NEW n \in Nat \ {0}, NEW c \in Int, NEW u \in 1 .. n
  PROVE  Gap((c + u), c, n) = u
  <1>1. PICK z \in Int : z = c + u
    OBVIOUS
  <1>2. z - c = n * 0 + u /\ 0 \in Int
    BY <1>1
  <1>3. Gap(z, c, n) = u
    BY <1>2, GapOf
  <1> QED BY <1>1, <1>3

-----------------------------------------------------------------------------
(* Types. *)

LoopPcs == {"idle", "delay_arm", "delay_run", "wait"} \cup Setting

TimersTypeOK ==
  /\ peripheral \in {"TIMER", "RTC"}
  /\ counter \in 0 .. Wrap - 1
  /\ cc \in [Channels -> 0 .. Wrap - 1]
  /\ event \in [Channels -> BOOLEAN]
  /\ enabled \in BOOLEAN /\ one_shot \in BOOLEAN
  /\ period \in 0 .. Wrap - 1
  /\ running \in BOOLEAN /\ late \in BOOLEAN /\ crossed \in BOOLEAN
  /\ loop_pc \in LoopPcs
  /\ isr_pc \in {"idle", "disable", "callback"}
  /\ delay \in 0 .. Wrap - 1 /\ left \in Nat /\ left <= delay
  /\ calls \in Nat

LEMMA WrapType == Wrap \in Nat \ {0}
  BY TimersConstants DEF TimersConstants

LEMMA Turned ==
  ASSUME NEW y \in Int
  PROVE  (y % Wrap) \in 0 .. Wrap - 1
  <1>1. PICK k \in Int, r \in 0 .. Wrap - 1 : (y % Wrap) = r
    BY WrapType, Division
  <1> QED BY <1>1

LEMMA TimersTypeStep == TimersTypeOK /\ [TimersNext]_timer_vars => TimersTypeOK'
  <1> SUFFICES ASSUME TimersTypeOK, [TimersNext]_timer_vars PROVE TimersTypeOK'
    OBVIOUS
  <1> USE DEF TimersTypeOK, Channels, LoopPcs, Setting
  <1>1. CASE TimerTick
    <2>1. counter' \in 0 .. Wrap - 1
      <3>1. counter + 1 \in Int /\ counter' = (counter + 1) % Wrap
        BY <1>1 DEF TimerTick
      <3> QED BY <3>1, Turned
    <2>2. event' \in [Channels -> BOOLEAN]
      BY <1>1 DEF TimerTick
    <2>3. left' \in Nat /\ left' <= delay /\ delay' = delay
      BY <1>1 DEF TimerTick
    <2> QED BY <1>1, <2>1, <2>2, <2>3 DEF TimerTick, alarm_vars
  <1>2. ASSUME NEW us \in Delays, DelayCapture(us) PROVE TimersTypeOK'
    <2>1. us \in 0 .. Wrap - 1 /\ us \in Nat
      BY TimersConstants DEF TimersConstants
    <2>2. delay' \in 0 .. Wrap - 1 /\ left' \in Nat /\ left' <= delay'
      BY <1>2, <2>1 DEF DelayCapture
    <2>3. cc' \in [Channels -> 0 .. Wrap - 1] /\ late' \in BOOLEAN
      BY <1>2 DEF DelayCapture
    <2> QED BY <1>2, <2>2, <2>3 DEF DelayCapture, DelayGoto, LoopGoto, alarm_vars
  <1>3. CASE DelayArm
    <2>1. (cc["delay"] + delay) % Wrap \in 0 .. Wrap - 1
      <3>1. cc["delay"] + delay \in Int
        OBVIOUS
      <3> QED BY <3>1, Turned
    <2> QED BY <1>3, <2>1 DEF DelayArm, DelayGoto, LoopGoto, alarm_vars
  <1>4. CASE DelayRun
    BY <1>4, WrapType DEF DelayRun, alarm_vars
  <1>5. CASE DelayEnd
    BY <1>5 DEF DelayEnd, DelayGoto, LoopGoto, alarm_vars
  <1>6. ASSUME NEW once \in BOOLEAN, NEW us \in Periods, SetAlarm(once, us)
        PROVE  TimersTypeOK'
    <2>1. us \in 0 .. Wrap - 1 /\ us \in Nat
      BY TimersConstants DEF TimersConstants
    <2>2. (counter + us) % Wrap \in 0 .. Wrap - 1
      <3>1. counter + us \in Int
        BY <2>1
      <3> QED BY <3>1, Turned
    <2> QED BY <1>6, <2>1, <2>2 DEF SetAlarm, delay_vars
  <1>7. CASE TakeExpiry
    BY <1>7 DEF TakeExpiry, alarm_vars
  <1>8. CASE StopOneShot
    BY <1>8 DEF StopOneShot, delay_vars
  <1>9. CASE NextPeriod
    <2>1. (cc["alarm"] + period) % Wrap \in 0 .. Wrap - 1
      <3>1. cc["alarm"] + period \in Int
        OBVIOUS
      <3> QED BY <3>1, Turned
    <2> QED BY <1>9, <2>1 DEF NextPeriod, delay_vars
  <1>10. CASE Callback
    BY <1>10 DEF Callback, delay_vars
  <1>11. ASSUME NEW once \in BOOLEAN, NEW us \in Periods, AlarmEnable(once, us)
         PROVE  TimersTypeOK'
    <2>1. us \in 0 .. Wrap - 1
      BY TimersConstants DEF TimersConstants
    <2> QED BY <1>11, <2>1 DEF AlarmEnable, LoopGoto
  <1>12. CASE AlarmCapture
    BY <1>12 DEF AlarmCapture, LoopGoto, alarm_vars
  <1>13. CASE AlarmArm
    <2>1. (cc["alarm"] + period) % Wrap \in 0 .. Wrap - 1
      <3>1. cc["alarm"] + period \in Int
        OBVIOUS
      <3> QED BY <3>1, Turned
    <2> QED BY <1>13, <2>1 DEF AlarmArm, LoopGoto
  <1>14. CASE UNCHANGED timer_vars
    BY <1>14 DEF timer_vars, alarm_vars, delay_vars
  <1> QED BY <1>1, <1>2, <1>3, <1>4, <1>5, <1>6, <1>7, <1>8, <1>9, <1>10, <1>11,
             <1>12, <1>13, <1>14 DEF TimersNext

\* The next tick brings the event of a channel that it is due for.
LEMMA TickDue ==
  ASSUME TimersTypeOK, TimerTick, NEW ch \in Channels
  PROVE  /\ DueIn(ch) \in 1 .. Wrap /\ DueIn(ch)' \in 1 .. Wrap
         /\ DueIn(ch) # 1 => DueIn(ch)' = DueIn(ch) - 1
         /\ DueIn(ch) = 1 /\ (ch = "delay" \/ enabled) => event'[ch]
         /\ event[ch] => event'[ch]
  <1>1. PICK x \in Int, c \in Int : x = cc[ch] /\ c = counter /\ x \in 0 .. Wrap - 1
    BY DEF TimersTypeOK
  <1>2. PICK next \in Int : next = (c + 1) % Wrap /\ counter' = next
    <2>1. c + 1 \in Int
      OBVIOUS
    <2> QED BY <1>1, <2>1, Turned DEF TimerTick
  <1>3. DueIn(ch) = Gap(x, c, Wrap)
    BY <1>1 DEF DueIn, Gap
  <1>4. cc' = cc /\ DueIn(ch)' = Gap(x, next, Wrap)
    BY <1>1, <1>2 DEF TimerTick, DueIn, Gap
  <1>5. /\ Gap(x, c, Wrap) \in 1 .. Wrap /\ Gap(x, next, Wrap) \in 1 .. Wrap
        /\ Gap(x, c, Wrap) # 1 => Gap(x, next, Wrap) = Gap(x, c, Wrap) - 1
        /\ Gap(x, c, Wrap) = 1 => x = next
    <2>1. /\ Gap(x, c, Wrap) \in 1 .. Wrap
          /\ Gap(x, next, Wrap) \in 1 .. Wrap
      BY WrapType, GapIs, Zenon
    <2>2. next = ((c + 1) % Wrap)
      BY <1>2
    <2>3. Gap(x, c, Wrap) # 1 => Gap(x, next, Wrap) = Gap(x, c, Wrap) - 1
      BY <2>2, WrapType, GapTick, Zenon
    <2>4. Gap(x, c, Wrap) = 1 => x = next
      BY <1>1, <2>2, WrapType, GapTick, Zenon
    <2> QED BY <2>1, <2>3, <2>4
  <1>6. event'[ch] = (event[ch] \/ (cc[ch] = counter' /\
          (peripheral = "TIMER" \/ ch = "delay" \/ enabled)))
    BY DEF TimerTick
  <1>7. DueIn(ch) = 1 /\ (ch = "delay" \/ enabled) => event'[ch]
    BY <1>1, <1>2, <1>3, <1>5, <1>6
  <1>8. event[ch] => event'[ch]
    BY <1>6
  <1> QED BY <1>3, <1>4, <1>5, <1>7, <1>8

-----------------------------------------------------------------------------
(* The delay. *)

(***************************************************************************)
(* Until it is over, the delay is due in what is left of it: from the      *)
(* capture on, before CC is set (Captured), then by CC (Armed).            *)
(***************************************************************************)
Captured ==
  loop_pc = "delay_arm" /\ left > 0 => Gap(cc["delay"] + delay, counter, Wrap) = left
Armed == loop_pc = "delay_run" /\ ~late /\ left > 0 => DueIn("delay") = left
DelayInv == TimersTypeOK /\ Captured /\ Armed /\ DelayWakes

LEMMA DelayTick ==
  ASSUME DelayInv, TimerTick
  PROVE  Captured' /\ Armed' /\ DelayWakes'
  <1> USE DEF DelayInv
  <1>1. UNCHANGED <<cc, loop_pc, delay, running, late>>
    BY DEF TimerTick
  <1>2. left' = IF left > 0 THEN left - 1 ELSE 0
    BY DEF TimerTick
  <1>3. left \in Nat
    BY DEF TimersTypeOK
  <1>4. Captured'
    <2> SUFFICES ASSUME loop_pc = "delay_arm", left' > 0
                 PROVE  Gap(cc["delay"] + delay, counter', Wrap) = left'
      BY <1>1 DEF Captured
    <2>1. left > 1 /\ left' = left - 1
      BY <1>2, <1>3
    <2>2. PICK x \in Int, c \in Int : x = cc["delay"] + delay /\ c = counter
      BY DEF TimersTypeOK, Channels
    <2>3. PICK next : next = ((c + 1) % Wrap) /\ counter' = next
      BY <2>2 DEF TimerTick
    <2>4. Gap(x, c, Wrap) = left
      BY <1>3, <2>1, <2>2 DEF Captured
    <2>5. Gap(x, next, Wrap) = Gap(x, c, Wrap) - 1
      <3>1. Gap(x, c, Wrap) # 1
        BY <1>3, <2>1, <2>4
      <3>2. next = ((c + 1) % Wrap)
        BY <2>3
      <3> QED BY <3>1, <3>2, WrapType, GapTick, Zenon
    <2> QED BY <2>1, <2>2, <2>3, <2>4, <2>5
  <1>5. Armed'
    <2> SUFFICES ASSUME loop_pc = "delay_run", ~late, left' > 0
                 PROVE  DueIn("delay")' = left'
      BY <1>1 DEF Armed
    <2>1. left > 1 /\ left' = left - 1
      BY <1>2, <1>3
    <2>2. DueIn("delay") = left
      BY <1>3, <2>1 DEF Armed
    <2> QED BY <2>1, <2>2, TickDue DEF Channels
  <1>6. DelayWakes'
    <2> SUFFICES ASSUME loop_pc = "wait", running, ~late
                 PROVE  event'["delay"] \/ DueIn("delay")' <= delay
      BY <1>1 DEF DelayWakes
    <2>1. event["delay"] \/ DueIn("delay") <= delay
      BY DEF DelayWakes
    <2>2. delay \in Nat
      BY WrapType DEF TimersTypeOK
    <2> QED BY <2>1, <2>2, TickDue DEF Channels
  <1> QED BY <1>4, <1>5, <1>6

LEMMA DelayArmKeeps ==
  ASSUME DelayInv, DelayArm
  PROVE  Armed'
  <1> USE DEF DelayInv
  <1> SUFFICES ASSUME ~late', left > 0 PROVE DueIn("delay")' = left
    BY DEF Armed, DelayArm
  <1>1. PICK x \in Int, c \in Int : x = cc["delay"] + delay /\ c = counter
    BY DEF TimersTypeOK, Channels
  <1>2. Gap(x, c, Wrap) = left
    BY <1>1 DEF Captured, DelayArm, DelayGoto, LoopGoto
  <1>3. Gap((x % Wrap), c, Wrap) = left
    BY <1>2, WrapType, GapTurns
  <1>4. cc'["delay"] = (x % Wrap) /\ counter' = c
    BY <1>1 DEF DelayArm, DelayGoto, LoopGoto, TimersTypeOK, Channels
  <1> QED BY <1>3, <1>4 DEF DueIn, Gap

LEMMA DelayCaptureKeeps ==
  ASSUME DelayInv, NEW us \in Delays, DelayCapture(us)
  PROVE  Captured'
  <1> USE DEF DelayInv
  <1>1. us \in 1 .. Wrap
    BY TimersConstants DEF TimersConstants
  <1>2. PICK c \in Int : c = counter
    BY DEF TimersTypeOK
  <1>3. Gap((c + us), c, Wrap) = us
    BY <1>1, WrapType, GapAhead
  <1>4. cc'["delay"] = c /\ counter' = c /\ delay' = us /\ left' = us
    BY <1>2 DEF DelayCapture, DelayGoto, LoopGoto, TimersTypeOK, Channels
  <1> QED BY <1>3, <1>4 DEF Captured

LEMMA DelayInvStep == DelayInv /\ [TimersNext]_timer_vars => DelayInv'
  <1> SUFFICES ASSUME DelayInv, [TimersNext]_timer_vars
               PROVE  Captured' /\ Armed' /\ DelayWakes'
    BY TimersTypeStep DEF DelayInv
  <1>1. CASE TimerTick
    BY <1>1, DelayTick
  <1>2. ASSUME NEW us \in Delays, DelayCapture(us)
        PROVE  Captured' /\ Armed' /\ DelayWakes'
    BY <1>2, DelayCaptureKeeps DEF DelayCapture, DelayGoto, LoopGoto, Armed, DelayWakes
  <1>3. CASE DelayArm
    BY <1>3, DelayArmKeeps DEF DelayArm, DelayGoto, LoopGoto, Captured, DelayWakes
  <1>4. CASE DelayRun
    <2>1. loop_pc' = "wait" /\ loop_pc = "delay_run" /\ UNCHANGED <<cc, counter, event, delay>>
      BY <1>4 DEF DelayRun, DelayGoto, LoopGoto
    <2>2. ASSUME ~late' PROVE event["delay"] \/ DueIn("delay") <= delay
      <3>1. left \in Nat /\ left <= delay /\ delay \in Nat
        BY WrapType DEF DelayInv, TimersTypeOK
      <3>2. ~late /\ (left = 0 => event["delay"])
        BY <1>4, <2>2 DEF DelayRun
      <3>3. left > 0 => DueIn("delay") = left
        BY <2>1, <3>2 DEF DelayInv, Armed
      <3> QED BY <3>1, <3>2, <3>3
    <2>3. DueIn("delay")' = DueIn("delay")
      BY <2>1 DEF DueIn
    <2> QED BY <2>1, <2>2, <2>3 DEF Captured, Armed, DelayWakes
  <1>5. CASE DelayEnd
    BY <1>5 DEF DelayEnd, DelayGoto, LoopGoto, Captured, Armed, DelayWakes
  <1>6. CASE TakeExpiry
    BY <1>6 DEF TakeExpiry, DelayInv, Captured, Armed, DelayWakes, DueIn,
       Channels
  <1>7. ASSUME UNCHANGED <<counter, loop_pc, delay, left, late, running>>,
               cc'["delay"] = cc["delay"], event'["delay"] = event["delay"]
        PROVE  Captured' /\ Armed' /\ DelayWakes'
    BY <1>7 DEF DelayInv, Captured, Armed, DelayWakes, DueIn
  <1>8. ASSUME NEW once \in BOOLEAN, NEW us \in Periods, SetAlarm(once, us)
        PROVE  Captured' /\ Armed' /\ DelayWakes'
    BY <1>7, <1>8 DEF SetAlarm, delay_vars, DelayInv, TimersTypeOK, Channels
  <1>9. CASE StopOneShot
    BY <1>7, <1>9 DEF StopOneShot, delay_vars
  <1>10. CASE NextPeriod
    BY <1>7, <1>10 DEF NextPeriod, delay_vars, DelayInv, TimersTypeOK, Channels
  <1>11. CASE Callback
    BY <1>7, <1>11 DEF Callback, delay_vars
  <1>12. ASSUME loop_pc' \in Setting \cup {"idle"}
         PROVE  Captured' /\ Armed' /\ DelayWakes'
    BY <1>12 DEF Captured, Armed, DelayWakes, Setting
  <1>13. ASSUME NEW once \in BOOLEAN, NEW us \in Periods, AlarmEnable(once, us)
         PROVE  Captured' /\ Armed' /\ DelayWakes'
    BY <1>12, <1>13 DEF AlarmEnable, LoopGoto, Setting
  <1>14. CASE AlarmCapture \/ AlarmArm
    BY <1>12, <1>14 DEF AlarmCapture, AlarmArm, LoopGoto, Setting
  <1>15. CASE UNCHANGED timer_vars
    BY <1>7, <1>15 DEF timer_vars, alarm_vars, delay_vars
  <1> QED BY <1>1, <1>2, <1>3, <1>4, <1>5, <1>6, <1>8, <1>9, <1>10, <1>11, <1>13,
             <1>14, <1>15 DEF TimersNext

LEMMA TimersTypeInit == TimersInit => TimersTypeOK
  <1> SUFFICES ASSUME TimersInit PROVE TimersTypeOK
    OBVIOUS
  <1>1. 0 \in 0 .. Wrap - 1
    BY WrapType
  <1>2. counter \in 0 .. Wrap - 1 /\ cc \in [Channels -> 0 .. Wrap - 1]
    BY <1>1 DEF TimersInit
  <1>3. event \in [Channels -> BOOLEAN]
    BY DEF TimersInit
  <1>4. /\ delay = 0 /\ left = 0 /\ left <= delay /\ left \in Nat
        /\ calls \in Nat /\ period = 0
    BY DEF TimersInit
  <1>5. /\ enabled \in BOOLEAN /\ one_shot \in BOOLEAN /\ running \in BOOLEAN
        /\ late \in BOOLEAN /\ crossed \in BOOLEAN
    BY Zenon DEF TimersInit
  <1>6. /\ peripheral \in {"TIMER", "RTC"}
        /\ loop_pc \in LoopPcs
        /\ isr_pc \in {"idle", "disable", "callback"}
    BY DEF TimersInit, LoopPcs
  <1> QED BY <1>1, <1>2, <1>3, <1>4, <1>5, <1>6 DEF TimersTypeOK

(***************************************************************************)
(* A delay wakes within its time, whatever the alarm and its callbacks do  *)
(* meanwhile, unless it was over before it was armed.                      *)
(***************************************************************************)
THEOREM DelaysWake == TimersSpec => []DelayWakes
  <1>1. TimersInit => DelayInv
    BY TimersTypeInit DEF TimersInit, DelayInv, Captured, Armed, DelayWakes
  <1>2. DelayInv => DelayWakes
    BY DEF DelayInv
  <1> QED BY <1>1, <1>2, DelayInvStep, PTL DEF TimersSpec

-----------------------------------------------------------------------------
(* The alarm. *)

\* What holds of it while it is being set or its expiry is being dealt with.
AlarmInHand ==
  period # 0 /\ ~crossed /\ (one_shot => calls = 0) =>
    /\ isr_pc = "disable" \/ loop_pc \in Setting => enabled
    /\ isr_pc = "callback" => loop_pc \notin Setting
    /\ isr_pc = "callback" /\ ~one_shot =>
         enabled /\ (event["alarm"] \/ DueIn("alarm") <= period)
AlarmInv == TimersTypeOK /\ AlarmInHand /\ AlarmKept

LEMMA AlarmTick ==
  ASSUME AlarmInv, TimerTick
  PROVE  AlarmInHand' /\ AlarmKept'
  <1> USE DEF AlarmInv
  <1>1. UNCHANGED <<enabled, one_shot, period, calls, crossed, loop_pc>>
        /\ isr_pc' = "idle" /\ isr_pc = "idle"
    BY DEF TimerTick
  <1>2. AlarmKept'
    <2> SUFFICES ASSUME period # 0, ~crossed, one_shot => calls = 0,
                        loop_pc \notin Setting
                 PROVE  enabled /\ (event'["alarm"] \/ DueIn("alarm")' <= period)
      BY <1>1 DEF AlarmKept
    <2>1. enabled /\ (event["alarm"] \/ DueIn("alarm") <= period)
      BY <1>1 DEF AlarmKept
    <2>2. period \in Nat
      BY WrapType DEF TimersTypeOK
    <2> QED BY <2>1, <2>2, TickDue DEF Channels
  <1> QED BY <1>1, <1>2 DEF AlarmInHand

LEMMA SetAlarmKeeps ==
  ASSUME AlarmInv, NEW once \in BOOLEAN, NEW us \in Periods, SetAlarm(once, us)
  PROVE  AlarmInHand' /\ AlarmKept'
  <1> USE DEF AlarmInv
  <1>1. us \in 1 .. Wrap
    BY TimersConstants DEF TimersConstants
  <1>2. PICK c \in Int : c = counter
    BY DEF TimersTypeOK
  <1>3. PICK x \in Int : x = c + us
    BY <1>1
  <1>4. Gap((x % Wrap), c, Wrap) = us
    <2>1. Gap(x, c, Wrap) = us
      BY <1>1, <1>3, WrapType, GapAhead
    <2> QED BY <2>1, WrapType, GapTurns
  <1>5. cc'["alarm"] = (x % Wrap) /\ counter' = c /\ period' = us
    BY <1>2, <1>3 DEF SetAlarm, TimersTypeOK, Channels
  <1>6. DueIn("alarm")' = us
    BY <1>4, <1>5 DEF DueIn, Gap
  <1>7. enabled' /\ (isr_pc' # "idle" \/ loop_pc' \in Setting => crossed')
    BY DEF SetAlarm, delay_vars
  <1> QED BY <1>1, <1>5, <1>6, <1>7 DEF AlarmInHand, AlarmKept

\* CC set a period further, which the counter has not passed yet.
LEMMA PeriodAhead ==
  ASSUME AlarmInv, period # 0, counter' = counter,
         (counter - cc["alarm"]) % Wrap < period,
         cc' = [cc EXCEPT !["alarm"] = (@ + period) % Wrap]
  PROVE  DueIn("alarm")' <= period
  <1> USE DEF AlarmInv
  <1>1. PICK x \in Int, c \in Int, p \in 1 .. Wrap - 1 :
          x = cc["alarm"] /\ c = counter /\ p = period
    BY DEF TimersTypeOK, Channels
  <1>2. Gap(((x + p) % Wrap), c, Wrap) <= p
    BY <1>1, WrapType, GapPeriod
  <1>3. cc'["alarm"] = ((x + p) % Wrap) /\ counter' = c
    BY <1>1 DEF TimersTypeOK, Channels
  <1> QED BY <1>1, <1>2, <1>3 DEF DueIn, Gap

LEMMA NotBehind ==
  ASSUME AlarmInv, ~ ((counter - cc["alarm"]) % Wrap >= period)
  PROVE  (counter - cc["alarm"]) % Wrap < period
  <1>1. PICK d \in Int : d = counter - cc["alarm"]
    BY DEF AlarmInv, TimersTypeOK, Channels
  <1>2. (d % Wrap) \in 0 .. Wrap - 1
    BY Turned
  <1> QED BY <1>1, <1>2, WrapType DEF AlarmInv, TimersTypeOK

LEMMA AlarmArmKeeps ==
  ASSUME AlarmInv, AlarmArm
  PROVE  AlarmInHand' /\ AlarmKept'
  <1> USE DEF AlarmInv
  <1>1. /\ isr_pc = "idle" /\ isr_pc' = "idle"
        /\ loop_pc \in Setting /\ loop_pc' \notin Setting
        /\ UNCHANGED <<enabled, one_shot, period, calls, counter>>
    BY DEF AlarmArm, LoopGoto, Setting
  <1> SUFFICES ASSUME period # 0, ~crossed', one_shot => calls = 0
               PROVE  enabled /\ DueIn("alarm")' <= period
    BY <1>1 DEF AlarmInHand, AlarmKept
  <1>2. ~crossed /\ ~ ((counter - cc["alarm"]) % Wrap >= period)
    BY DEF AlarmArm
  <1>3. cc' = [cc EXCEPT !["alarm"] = (@ + period) % Wrap]
    BY DEF AlarmArm
  <1> QED BY <1>1, <1>2, <1>3, NotBehind, PeriodAhead DEF AlarmInHand

LEMMA NextPeriodKeeps ==
  ASSUME AlarmInv, NextPeriod
  PROVE  AlarmInHand' /\ AlarmKept'
  <1> USE DEF AlarmInv
  <1>1. /\ isr_pc' = "callback" /\ ~one_shot' /\ enabled' = enabled
        /\ period' = period /\ loop_pc' = loop_pc
        /\ loop_pc \in Setting => crossed'
    BY DEF NextPeriod, delay_vars
  <1> SUFFICES ASSUME period # 0, ~crossed'
               PROVE  enabled /\ DueIn("alarm")' <= period
    BY <1>1 DEF AlarmInHand, AlarmKept
  <1>2. enabled
    BY DEF NextPeriod, AlarmInHand
  <1>3. ~ ((counter - cc["alarm"]) % Wrap >= period)
    BY DEF NextPeriod
  <1>4. counter' = counter /\ cc' = [cc EXCEPT !["alarm"] = (@ + period) % Wrap]
    BY DEF NextPeriod
  <1> QED BY <1>2, <1>3, <1>4, NotBehind, PeriodAhead

LEMMA AlarmInvStep == AlarmInv /\ [TimersNext]_timer_vars => AlarmInv'
  <1> SUFFICES ASSUME AlarmInv, [TimersNext]_timer_vars
               PROVE  AlarmInHand' /\ AlarmKept'
    BY TimersTypeStep DEF AlarmInv
  <1>1. CASE TimerTick
    BY <1>1, AlarmTick
  <1>2. ASSUME NEW once \in BOOLEAN, NEW us \in Periods, SetAlarm(once, us)
        PROVE  AlarmInHand' /\ AlarmKept'
    BY <1>2, SetAlarmKeeps
  <1>3. CASE TakeExpiry
    BY <1>3 DEF TakeExpiry, alarm_vars, AlarmInv, AlarmInHand, AlarmKept, DueIn,
                Channels
  <1>4. CASE StopOneShot
    BY <1>4 DEF StopOneShot, delay_vars, AlarmInHand, AlarmKept
  <1>5. CASE NextPeriod
    BY <1>5, NextPeriodKeeps
  <1>6. CASE Callback
    <2>1. /\ isr_pc = "callback" /\ isr_pc' = "idle" /\ calls' # 0
          /\ UNCHANGED <<counter, cc, event, enabled, one_shot, period, crossed,
                         loop_pc>>
      BY <1>6 DEF Callback, delay_vars, AlarmInv, TimersTypeOK
    <2> QED BY <2>1 DEF AlarmInv, AlarmInHand, AlarmKept, DueIn
  <1>7. ASSUME UNCHANGED <<counter, event, isr_pc, enabled, one_shot, period,
                           calls, crossed>>,
               loop_pc \notin Setting, loop_pc' \notin Setting,
               cc'["alarm"] = cc["alarm"]
        PROVE  AlarmInHand' /\ AlarmKept'
    BY <1>7 DEF AlarmInv, AlarmInHand, AlarmKept, DueIn
  <1>8. ASSUME NEW us \in Delays, DelayCapture(us)
        PROVE  AlarmInHand' /\ AlarmKept'
    BY <1>7, <1>8 DEF DelayCapture, DelayGoto, LoopGoto, Setting, alarm_vars,
                      AlarmInv, TimersTypeOK, Channels
  <1>9. CASE DelayArm
    BY <1>7, <1>9 DEF DelayArm, DelayGoto, LoopGoto, Setting, alarm_vars,
                      AlarmInv, TimersTypeOK, Channels
  <1>10. CASE DelayRun \/ DelayEnd
    BY <1>7, <1>10 DEF DelayRun, DelayEnd, DelayGoto, LoopGoto, Setting, alarm_vars
  <1>11. ASSUME NEW once \in BOOLEAN, NEW us \in Periods, AlarmEnable(once, us)
         PROVE  AlarmInHand' /\ AlarmKept'
    BY <1>11 DEF AlarmEnable, LoopGoto, Setting, AlarmInHand, AlarmKept
  <1>12. CASE AlarmCapture
    BY <1>12 DEF AlarmCapture, LoopGoto, Setting, alarm_vars, AlarmInv,
                 AlarmInHand, AlarmKept
  <1>13. CASE AlarmArm
    BY <1>13, AlarmArmKeeps
  <1>14. CASE UNCHANGED timer_vars
    BY <1>14 DEF timer_vars, alarm_vars, delay_vars, AlarmInv, AlarmInHand,
                 AlarmKept, DueIn
  <1> QED BY <1>1, <1>2, <1>3, <1>4, <1>5, <1>6, <1>8, <1>9, <1>10, <1>11, <1>12,
             <1>13, <1>14 DEF TimersNext

(***************************************************************************)
(* An alarm that nothing crossed is enabled, and due within its time or    *)
(* being dealt with, whatever delays the main loop waits for meanwhile.    *)
(***************************************************************************)
THEOREM AlarmsAreKept == TimersSpec => []AlarmKept
  <1>1. TimersInit => AlarmInv
    BY TimersTypeInit DEF TimersInit, AlarmInv, AlarmInHand, AlarmKept
  <1>2. AlarmInv => AlarmKept
    BY DEF AlarmInv
  <1> QED BY <1>1, <1>2, AlarmInvStep, PTL DEF TimersSpec

\* On an RTC, a one-shot alarm goes from armed to called, and no further.
RtcCalls ==
  peripheral = "RTC" /\ one_shot /\ ~crossed =>
    \/ isr_pc = "idle" /\ calls = 0
    \/ isr_pc = "disable" /\ calls = 0 /\ ~event["alarm"]
    \/ isr_pc = "callback" /\ calls = 0 /\ ~event["alarm"] /\ ~enabled
    \/ isr_pc = "idle" /\ calls = 1 /\ ~event["alarm"] /\ ~enabled

LEMMA RtcCallsStep ==
  TimersTypeOK /\ RtcCalls /\ [TimersNext]_timer_vars => RtcCalls'
  <1> SUFFICES ASSUME TimersTypeOK, RtcCalls, [TimersNext]_timer_vars
               PROVE  RtcCalls'
    OBVIOUS
  <1>1. CASE TimerTick
    <2>1. /\ UNCHANGED <<peripheral, enabled, one_shot, calls, crossed>>
          /\ isr_pc = "idle" /\ isr_pc' = "idle"
      BY <1>1 DEF TimerTick, alarm_vars
    <2>2. peripheral = "RTC" /\ ~enabled /\ ~event["alarm"] => ~event'["alarm"]
      BY <1>1 DEF TimerTick, Channels
    <2> QED BY <2>1, <2>2 DEF RtcCalls
  <1>2. ASSUME NEW once, NEW us, SetAlarm(once, us) PROVE RtcCalls'
    <2>1. calls' = 0 /\ isr_pc' = isr_pc /\ (~crossed' => isr_pc = "idle")
      BY <1>2 DEF SetAlarm
    <2> QED BY <2>1 DEF RtcCalls
  <1>3. CASE TakeExpiry
    <2>1. /\ UNCHANGED <<peripheral, enabled, one_shot, calls, crossed>>
          /\ isr_pc = "idle" /\ ~event'["alarm"]
          /\ isr_pc' = IF event["alarm"] THEN "disable" ELSE "idle"
      BY <1>3 DEF TakeExpiry, alarm_vars, Channels
    <2> QED BY <2>1 DEF RtcCalls
  <1>4. CASE StopOneShot
    <2>1. /\ UNCHANGED <<peripheral, event, one_shot, calls>>
          /\ crossed => crossed'
          /\ isr_pc = "disable" /\ isr_pc' = "callback" /\ ~enabled'
      BY <1>4 DEF StopOneShot
    <2> QED BY <2>1 DEF RtcCalls
  <1>5. CASE NextPeriod
    <2>1. ~one_shot'
      BY <1>5 DEF NextPeriod
    <2> QED BY <2>1 DEF RtcCalls
  <1>6. CASE Callback
    <2>1. /\ UNCHANGED <<peripheral, event, enabled, one_shot, crossed>>
          /\ isr_pc = "callback" /\ isr_pc' = "idle"
          /\ calls = 0 => calls' = 1
      BY <1>6 DEF Callback
    <2> QED BY <2>1 DEF RtcCalls
  <1>7. CASE UNCHANGED <<peripheral, event, isr_pc, alarm_vars>>
    BY <1>7 DEF RtcCalls, alarm_vars
  <1>8. ASSUME NEW us, DelayCapture(us) PROVE RtcCalls'
    BY <1>7, <1>8 DEF DelayCapture, DelayGoto, LoopGoto
  <1>9. CASE DelayArm \/ DelayRun \/ DelayEnd
    BY <1>7, <1>9 DEF DelayArm, DelayRun, DelayEnd, DelayGoto, LoopGoto
  <1>10. ASSUME NEW once, NEW us, AlarmEnable(once, us) PROVE RtcCalls'
    <2>1. /\ calls' = 0 /\ event' = event /\ crossed' = event["alarm"]
          /\ isr_pc = "idle" /\ isr_pc' = "idle"
      BY <1>10 DEF AlarmEnable, LoopGoto
    <2> QED BY <2>1 DEF RtcCalls
  <1>11. CASE AlarmCapture
    BY <1>7, <1>11 DEF AlarmCapture, LoopGoto
  <1>12. CASE AlarmArm
    <2>1. /\ UNCHANGED <<peripheral, event, isr_pc, enabled, one_shot, calls>>
          /\ crossed => crossed'
      BY <1>12 DEF AlarmArm, LoopGoto
    <2> QED BY <2>1 DEF RtcCalls
  <1>13. CASE UNCHANGED timer_vars
    BY <1>7, <1>13 DEF timer_vars
  <1> QED BY <1>1, <1>2, <1>3, <1>4, <1>5, <1>6, <1>8, <1>9, <1>10, <1>11, <1>12,
             <1>13 DEF TimersNext

(***************************************************************************)
(* On an RTC (timer.c) the callback of a one-shot alarm that nothing       *)
(* crossed is called once at most: its event is not set again while its    *)
(* interrupt is off.  On a TIMER (timer_hf.c) it is, after one turn of the *)
(* counter.                                                                *)
(***************************************************************************)
THEOREM RtcCallsOnce ==
  TimersSpec => [](peripheral = "RTC" => OneShotOnce)
  <1>1. TimersInit => TimersTypeOK /\ RtcCalls
    BY TimersTypeInit DEF TimersInit, RtcCalls
  <1>2. RtcCalls => (peripheral = "RTC" => OneShotOnce)
    BY DEF RtcCalls, OneShotOnce
  <1> QED BY <1>1, <1>2, TimersTypeStep, RtcCallsStep, PTL DEF TimersSpec

-----------------------------------------------------------------------------
(* The remote-controlled robot. *)

\* The longest time without a command before the motors stop.
Longest == Timeout + CheckPeriod

RobotTypeOK ==
  /\ ticks \in Nat /\ ts \in Nat /\ unheard \in Nat
  /\ check_in \in 0 .. CheckPeriod
  /\ moving \in BOOLEAN /\ stopping \in BOOLEAN

\* While the counter cannot go round, it tells the time since the last packet,
\* and each check leaves the motors on for one more period at most.
StopInv ==
  ts + Longest < TickWrap =>
    /\ unheard <= Longest => ticks = ts + unheard
    /\ moving => unheard <= Longest
    /\ moving /\ ~stopping => unheard + check_in <= Longest

RobotInv == RobotTypeOK /\ StopInv

LEMMA RobotInvInit == RobotInit => RobotInv
<1> SUFFICES ASSUME RobotInit PROVE RobotInv
  OBVIOUS
<1>1. CheckPeriod \in 0 .. CheckPeriod /\ Longest \in Nat
  BY RcRobotConstants DEF RcRobotConstants, Longest
<1>2. RobotTypeOK
  BY <1>1 DEF RobotInit, RobotTypeOK
<1>3. ticks = ts + unheard /\ ~moving
  BY DEF RobotInit
<1>. QED  BY <1>2, <1>3 DEF RobotInv, StopInv

LEMMA SmallRemainder ==
  ASSUME NEW n \in Nat, NEW w \in Nat, w > 0
  PROVE  (n % w) \in Nat /\ (n < w => (n % w) = n)
  OBVIOUS

LEMMA RobotInvStep == RobotInv /\ [RobotNext]_robot_vars => RobotInv'
<1> SUFFICES ASSUME RobotInv, [RobotNext]_robot_vars
             PROVE  RobotInv'
  OBVIOUS
<1>0. /\ TickWrap \in Nat /\ Timeout \in Nat /\ CheckPeriod \in Nat
      /\ CheckPeriod > 0 /\ Longest < TickWrap /\ Longest \in Nat
  BY RcRobotConstants DEF RcRobotConstants, Longest
<1> USE <1>0 DEF RobotInv, RobotTypeOK, StopInv
<1>1. CASE RobotTick
  <2>1. (ticks + 1) % TickWrap \in Nat
        /\ (ticks + 1 < TickWrap => (ticks + 1) % TickWrap = ticks + 1)
    BY SmallRemainder
  <2>2. ticks' \in Nat /\ (ticks + 1 < TickWrap => ticks' = ticks + 1)
    BY <1>1, <2>1 DEF RobotTick
  <2>. QED  BY <1>1, <2>2 DEF RobotTick, Longest
<1>2. ASSUME NEW cmd, RxDataCallback(cmd)
      PROVE  RobotInv'
  <2>1. moving' \in BOOLEAN
    BY <1>2 DEF RxDataCallback
  <2>2. ts' = ticks /\ unheard' = 0 /\ UNCHANGED <<ticks, check_in, stopping>>
    BY <1>2 DEF RxDataCallback
  <2>. QED  BY <2>1, <2>2 DEF Longest
<1>3. CASE TimeoutCheck
  BY <1>3 DEF TimeoutCheck, TimedOut, Longest
<1>4. CASE StopMotors
  BY <1>4 DEF StopMotors
<1>5. CASE UNCHANGED robot_vars
  BY <1>5 DEF robot_vars
<1>. QED  BY <1>1, <1>2, <1>3, <1>4, <1>5 DEF RobotNext

(***************************************************************************)
(* A robot that hears nothing stops within the timeout and one period of   *)
(* the check, unless the tick counter goes round first.                    *)
(***************************************************************************)
THEOREM StopsInTime == RobotSpec => []NeverRunsAway
<1>1. RobotInv => NeverRunsAway
  BY RcRobotConstants
  DEF RcRobotConstants, RobotInv, RobotTypeOK, StopInv, Longest, NeverRunsAway
<1>. QED  BY <1>1, RobotInvInit, RobotInvStep, PTL DEF RobotSpec

-----------------------------------------------------------------------------
(* The lighthouse driver. *)

Sweeps == {"A", "B"}
Times == 0 .. LhWrap - 1

\* Sweep "A" comes SecondSweep before sweep "B", and that once a turn.
Ahead(sweep) == IF sweep = "A" THEN SecondSweep ELSE 0
OnTime(sweep, t) == \E turns \in Int : t + Ahead(sweep) = RotorPeriod * turns

\* How far a time is from whole periods of the driver.
Near(diff) ==
  LET rest == (diff % SweepPeriod)
  IN  IF rest < SweepPeriod - rest THEN rest ELSE SweepPeriod - rest

\* Less than two thresholds apart, the two sweeps could not be told apart.
WellApart ==
  2 * Threshold - 1 <= SecondSweep /\ 2 * Threshold - 1 <= RotorPeriod - SecondSweep

LEMMA Lh2Numbers ==
  /\ LhWrap \in Nat \ {0} /\ RotorPeriod \in Nat \ {0} /\ SecondSweep \in Nat \ {0}
  /\ SweepPeriod \in Nat \ {0} /\ Threshold \in Nat \ {0}
  /\ SecondSweep < RotorPeriod /\ RotorPeriod < SweepPeriod
  /\ (LhWrap % RotorPeriod) = 0
  BY Lh2Constants DEF Lh2Constants

LEMMA ZeroTime == 0 \in Times
  BY Lh2Numbers DEF Times

LEMMA TimeGap ==
  ASSUME NEW t \in Times, NEW u \in Times
  PROVE  ((t - u) % LhWrap) \in Int
  <1>1. t - u \in Int /\ LhWrap \in Nat \ {0}
    BY Lh2Numbers DEF Times
  <1>2. PICK k \in Int, r \in 0 .. LhWrap - 1 : ((t - u) % LhWrap) = r
    BY <1>1, Division
  <1> QED BY <1>2

LEMMA MaxTurnsInt == MaxTurns \in Int
  <1>1. PICK slip \in Nat \ {0} : slip = SweepPeriod - RotorPeriod
    BY Lh2Numbers
  <1>2. PICK last \in Int : last = Threshold - 1
    BY Lh2Numbers
  <1>3. last \div slip \in Int
    OBVIOUS
  <1> QED BY <1>1, <1>2, <1>3 DEF MaxTurns

LEMMA WrapIsTurns == \E w \in Int : LhWrap = RotorPeriod * w
  <1>1. LhWrap \in Int /\ RotorPeriod \in Nat \ {0}
    BY Lh2Numbers
  <1>2. PICK k \in Int, r \in 0 .. RotorPeriod - 1 :
          LhWrap = RotorPeriod * k + r /\ (LhWrap % RotorPeriod) = r
    BY <1>1, Division
  <1> QED BY <1>2, Lh2Numbers

\* A difference of two times of the counter, whole turns of the rotor aside.
LEMMA DifferenceIs ==
  ASSUME NEW t \in Times, NEW u \in Times, NEW k \in Int, NEW o \in Int,
         t - u = RotorPeriod * k + o
  PROVE  \E m \in Int : ((t - u) % LhWrap) = RotorPeriod * m + o
  <1>1. PICK w \in Int : LhWrap = RotorPeriod * w
    BY WrapIsTurns
  <1>t. t \in Int /\ u \in Int /\ t - u < LhWrap /\ t - u > -LhWrap
    BY Lh2Numbers DEF Times
  <1>2. CASE t >= u
    <2>1. LhWrap * 0 = 0 /\ t - u \in 0 .. LhWrap - 1
      BY <1>2, <1>t, Lh2Numbers
    <2>2. t - u = LhWrap * 0 + (t - u)
      BY <2>1
    <2>3. ((t - u) % LhWrap) = t - u
      BY <2>1, <2>2, <1>t, Lh2Numbers, Remainder
    <2> QED BY <2>3
  <1>3. CASE t < u
    <2>1. LhWrap * (-1) = -LhWrap /\ (t - u) + LhWrap \in 0 .. LhWrap - 1
      BY <1>3, <1>t, Lh2Numbers
    <2>2. t - u = LhWrap * (-1) + ((t - u) + LhWrap)
      BY <2>1, <1>t, Lh2Numbers
    <2>3. ((t - u) % LhWrap) = (t - u) + LhWrap
      BY <2>1, <2>2, <1>t, Lh2Numbers, Remainder
    <2>4. PICK m \in Int : m = k + w
      OBVIOUS
    <2>5. RotorPeriod * m = RotorPeriod * k + RotorPeriod * w
      BY <2>4, Lh2Numbers, Distribute
    <2>6. RotorPeriod * k \in Int /\ RotorPeriod * w \in Int
      BY Lh2Numbers
    <2>7. (t - u) + LhWrap = RotorPeriod * m + o
      BY <1>1, <2>5, <2>6
    <2> QED BY <2>3, <2>7
  <1> QED BY <1>2, <1>3, <1>t

\* Between two sweeps of one kind there are whole turns, and between two of
\* different kinds whole turns and one of the two arcs.
LEMMA BetweenSweeps ==
  ASSUME NEW t \in Times, NEW u \in Times, NEW s \in Sweeps, NEW z \in Sweeps,
         OnTime(s, t), OnTime(z, u)
  PROVE  \E m \in Int, o \in {0, SecondSweep, RotorPeriod - SecondSweep} :
           /\ ((t - u) % LhWrap) = RotorPeriod * m + o
           /\ s = z <=> o = 0
  <1>1. PICK i \in Int : t + Ahead(s) = RotorPeriod * i
    BY DEF OnTime
  <1>2. PICK j \in Int : u + Ahead(z) = RotorPeriod * j
    BY DEF OnTime
  <1>t. t \in Int /\ u \in Int /\ RotorPeriod * i \in Int /\ RotorPeriod * j \in Int
    BY Lh2Numbers DEF Times
  <1>3. PICK k \in Int : k = i - j
    OBVIOUS
  <1>4. RotorPeriod * k = RotorPeriod * i - RotorPeriod * j
    BY <1>3, Lh2Numbers, Distribute
  <1>5. CASE s = z
    <2>1. t - u = RotorPeriod * k + 0
      BY <1>1, <1>2, <1>4, <1>5, <1>t, Lh2Numbers DEF Ahead
    <2>2. PICK m \in Int : ((t - u) % LhWrap) = RotorPeriod * m + 0
      BY <2>1, DifferenceIs
    <2> QED BY <2>2, <1>5
  <1>6. CASE s = "B" /\ z = "A"
    <2>1. t - u = RotorPeriod * k + SecondSweep
      BY <1>1, <1>2, <1>4, <1>6, <1>t, Lh2Numbers DEF Ahead
    <2>0. SecondSweep \in Int
      BY Lh2Numbers
    <2>2. PICK m \in Int : ((t - u) % LhWrap) = RotorPeriod * m + SecondSweep
      BY <2>0, <2>1, DifferenceIs
    <2> QED BY <2>2, <1>6, Lh2Numbers
  <1>7. CASE s = "A" /\ z = "B"
    <2>1. PICK h \in Int : h = k - 1
      OBVIOUS
    <2>2. /\ RotorPeriod * h = RotorPeriod * k - RotorPeriod * 1
          /\ RotorPeriod * 1 = RotorPeriod
      BY <2>1, Lh2Numbers, Distribute
    <2>3. t - u = RotorPeriod * h + (RotorPeriod - SecondSweep)
      BY <1>1, <1>2, <1>4, <1>7, <1>t, <2>2, Lh2Numbers DEF Ahead
    <2>4. RotorPeriod - SecondSweep \in Int /\ RotorPeriod - SecondSweep # 0
      BY Lh2Numbers
    <2>5. PICK m \in Int :
            ((t - u) % LhWrap) = RotorPeriod * m + (RotorPeriod - SecondSweep)
      BY <2>3, <2>4, DifferenceIs
    <2> QED BY <2>4, <2>5, <1>7
  <1> QED BY <1>5, <1>6, <1>7 DEF Sweeps

\* After k turns the true period is k times the difference of the periods
\* behind the driver's, less than a threshold.
LEMMA DriftIs ==
  ASSUME NEW k \in Int, NEW o \in 0 .. RotorPeriod - 1, NEW d \in Nat,
         d = RotorPeriod * k + o, d <= MaxTurns * RotorPeriod
  PROVE  \E e \in 0 .. Threshold - 1 : d = SweepPeriod * k + (o - e)
  <1>1. PICK slip \in Nat \ {0} : slip = SweepPeriod - RotorPeriod
    BY Lh2Numbers
  <1>2. PICK turns \in Int : turns = MaxTurns /\ slip * turns <= Threshold - 1
    <2>1. \A n \in Int : n \div slip \in Int /\ slip * (n \div slip) <= n
      BY <1>1
    <2>2. Threshold - 1 \in Int
      BY Lh2Numbers
    <2> QED BY <1>1, <2>1, <2>2 DEF MaxTurns
  <1>3. k >= 0
    <2>1. ASSUME k <= -1 PROVE FALSE
      <3>1. \A r \in Nat : r * k <= -r
        BY <2>1
      <3>2. RotorPeriod * k <= -RotorPeriod
        BY <3>1, Lh2Numbers
      <3> QED BY <3>2, Lh2Numbers
    <2> QED BY <2>1
  <1>4. k <= turns
    <2>1. ASSUME k >= turns + 1 PROVE FALSE
      <3>1. PICK more \in Nat : k = turns + 1 + more
        BY <2>1
      <3>2. PICK r \in Nat \ {0} : r = RotorPeriod
        BY Lh2Numbers
      <3>3. r * k = r * turns + r + r * more /\ r * more >= 0 /\ turns * r = r * turns
        BY <3>1
      <3>4. r * turns \in Int /\ r * more \in Int
        OBVIOUS
      <3> QED BY <1>2, <3>2, <3>3, <3>4
    <2> QED BY <2>1
  <1>5. slip * k <= slip * turns /\ slip * k >= 0
    BY <1>3, <1>4
  <1>6. slip * k = SweepPeriod * k - RotorPeriod * k
    BY <1>1, Lh2Numbers
  <1>7. /\ SweepPeriod * k \in Int /\ RotorPeriod * k \in Int
        /\ slip * k \in Int /\ slip * turns \in Int
    BY Lh2Numbers
  <1>8. slip * k \in 0 .. Threshold - 1
    BY <1>2, <1>5, <1>7, Lh2Numbers
  <1>9. d = SweepPeriod * k + (o - slip * k)
    BY <1>6, <1>7
  <1> QED BY <1>8, <1>9

LEMMA NearOf ==
  ASSUME NEW d \in Int, NEW k \in Int, NEW r \in 0 .. SweepPeriod - 1,
         d = SweepPeriod * k + r
  PROVE  Near(d) = IF r < SweepPeriod - r THEN r ELSE SweepPeriod - r
  <1>1. (d % SweepPeriod) = r
    BY Lh2Numbers, Remainder
  <1> QED BY <1>1 DEF Near

LEMMA InPeriods ==
  ASSUME NEW d \in Int
  PROVE  \E k \in Int, r \in 0 .. SweepPeriod - 1 : d = SweepPeriod * k + r
  <1>1. SweepPeriod \in Nat \ {0}
    BY Lh2Numbers
  <1> QED BY <1>1, Division

LEMMA NearInt ==
  ASSUME NEW d \in Int
  PROVE  Near(d) \in Int
  <1>1. PICK h \in Int, r \in 0 .. SweepPeriod - 1 : d = SweepPeriod * h + r
    BY InPeriods
  <1>2. Near(d) = IF r < SweepPeriod - r THEN r ELSE SweepPeriod - r
    BY <1>1, NearOf
  <1> QED BY <1>1, <1>2, Lh2Numbers

LEMMA NearIs ==
  ASSUME NEW d \in Int, NEW k \in Int, NEW e \in 0 .. Threshold - 1,
         d = SweepPeriod * k + (0 - e)
  PROVE  Near(d) < Threshold
  <1>1. CASE e = 0
    <2>1. PICK r \in 0 .. SweepPeriod - 1 : r = 0
      BY Lh2Numbers
    <2>2. d = SweepPeriod * k + r
      BY <1>1, <2>1
    <2>3. Near(d) = IF r < SweepPeriod - r THEN r ELSE SweepPeriod - r
      BY <2>2, NearOf
    <2> QED BY <2>1, <2>3, Lh2Numbers
  <1>2. CASE e # 0 /\ e < SweepPeriod
    <2>1. PICK h \in Int : h = k - 1
      OBVIOUS
    <2>2. SweepPeriod * h = SweepPeriod * k - SweepPeriod /\ SweepPeriod * k \in Int
      BY <2>1, Lh2Numbers
    <2>3. PICK r \in 0 .. SweepPeriod - 1 : r = SweepPeriod - e
      BY <1>2, Lh2Numbers
    <2>4. d = SweepPeriod * h + r
      BY <2>2, <2>3, Lh2Numbers
    <2>5. Near(d) = IF r < SweepPeriod - r THEN r ELSE SweepPeriod - r
      BY <2>4, NearOf
    <2> QED BY <2>3, <2>5, Lh2Numbers
  <1>3. CASE e >= SweepPeriod
    <2>1. PICK h \in Int, r \in 0 .. SweepPeriod - 1 : d = SweepPeriod * h + r
      BY InPeriods
    <2>2. Near(d) = IF r < SweepPeriod - r THEN r ELSE SweepPeriod - r
      BY <2>1, NearOf
    <2> QED BY <1>3, <2>2, Lh2Numbers
  <1> QED BY <1>1, <1>2, <1>3, Lh2Numbers

LEMMA FarIs ==
  ASSUME WellApart, NEW d \in Int, NEW k \in Int, NEW e \in 0 .. Threshold - 1,
         NEW o \in {SecondSweep, RotorPeriod - SecondSweep},
         d = SweepPeriod * k + (o - e)
  PROVE  Near(d) >= Threshold
  <1>1. PICK r \in 0 .. SweepPeriod - 1 :
          r = o - e /\ r >= Threshold /\ SweepPeriod - r >= Threshold
    BY Lh2Numbers DEF WellApart
  <1>2. Near(d) = IF r < SweepPeriod - r THEN r ELSE SweepPeriod - r
    BY <1>1, NearOf
  <1> QED BY <1>1, <1>2, Lh2Numbers

\* A sweep is near the last one of its kind, and far from the other.
LEMMA Separated ==
  ASSUME WellApart,
         NEW t \in Times, NEW u \in Times, NEW s \in Sweeps, NEW z \in Sweeps,
         OnTime(s, t), OnTime(z, u),
         ((t - u) % LhWrap) <= MaxTurns * RotorPeriod
  PROVE  s = z <=> Near((t - u) % LhWrap) < Threshold
  <1>1. PICK m \in Int, o \in {0, SecondSweep, RotorPeriod - SecondSweep} :
          /\ ((t - u) % LhWrap) = RotorPeriod * m + o
          /\ s = z <=> o = 0
    BY BetweenSweeps
  <1>2. PICK d \in Nat : d = ((t - u) % LhWrap)
    <2>1. t - u \in Int
      BY DEF Times
    <2>2. PICK k \in Int, r \in 0 .. LhWrap - 1 : ((t - u) % LhWrap) = r
      BY <2>1, Lh2Numbers, Division
    <2> QED BY <2>2, Lh2Numbers
  <1>3. o \in 0 .. RotorPeriod - 1
    BY Lh2Numbers
  <1>4. PICK e \in 0 .. Threshold - 1 : d = SweepPeriod * m + (o - e)
    BY <1>1, <1>2, <1>3, DriftIs
  <1>5. CASE o = 0
    <2>1. Near(d) < Threshold
      BY <1>4, <1>5, NearIs
    <2> QED BY <1>1, <1>2, <1>5, <2>1
  <1>6. CASE o # 0
    <2>1. o \in {SecondSweep, RotorPeriod - SecondSweep}
      BY <1>6
    <2>2. Near(d) >= Threshold
      BY <1>4, <2>1, FarIs
    <2>3. Near(d) \in Int
      BY NearInt
    <2> QED BY <1>1, <1>2, <1>6, <2>2, <2>3, Lh2Numbers
  <1> QED BY <1>5, <1>6

\* The sweep that a time belongs to, if it is one's.
Timely(t) == \E s \in Sweeps : OnTime(s, t)
SweepAt(t) == IF OnTime("A", t) THEN "A" ELSE "B"

LEMMA SweepAtTimes ==
  ASSUME NEW t, Timely(t)
  PROVE  SweepAt(t) \in Sweeps /\ OnTime(SweepAt(t), t)
  BY DEF Timely, SweepAt, Sweeps

\* No time belongs to both sweeps.
LEMMA OneSweep ==
  ASSUME NEW t \in Times, NEW s \in Sweeps, OnTime(s, t)
  PROVE  Timely(t) /\ SweepAt(t) = s
  <1>1. Timely(t)
    BY DEF Timely
  <1>2. CASE s = "A"
    BY <1>1, <1>2 DEF SweepAt
  <1>3. CASE s = "B"
    <2>1. ASSUME OnTime("A", t) PROVE FALSE
      <3>1. PICK i \in Int : t + SecondSweep = RotorPeriod * i
        BY <2>1 DEF OnTime, Ahead
      <3>2. PICK j \in Int : t + 0 = RotorPeriod * j
        BY <1>3 DEF OnTime, Ahead
      <3>3. PICK k \in Int : k = i - j
        OBVIOUS
      <3>4. RotorPeriod * k = RotorPeriod * i - RotorPeriod * j
        BY <3>3, Lh2Numbers, Distribute
      <3>5. SecondSweep = RotorPeriod * k
        <4>1. t \in Int /\ RotorPeriod * i \in Int /\ RotorPeriod * j \in Int
          BY Lh2Numbers DEF Times
        <4> QED BY <3>1, <3>2, <3>4, <4>1, Lh2Numbers
      <3>6. k = 0
        BY <3>5, Lh2Numbers, NoMultiple
      <3> QED BY <3>5, <3>6, Lh2Numbers
    <2> QED BY <1>1, <1>3, <2>1 DEF SweepAt
  <1> QED BY <1>2, <1>3 DEF Sweeps

\* What a cell of the ring holds: nothing yet, or a sweep captured on time.
Captures ==
  {c \in [bits : Sweeps \cup {"none"}, time : Times] :
     Timely(c.time) /\ (c.time # 0 => c.bits = SweepAt(c.time))}

SensorRing ==
  [buffer : [Spi!Cells -> Captures], write_index : Spi!Cells,
   read_index : Spi!Cells, count : Int]

LEMMA NextCell ==
  ASSUME NEW i \in Spi!Cells
  PROVE  Spi!Advance(i) \in Spi!Cells
  <1>1. i + 1 \in Int /\ LhSize \in Nat \ {0}
    BY Lh2Constants DEF Lh2Constants, Spi!Cells
  <1>2. PICK k \in Int, r \in 0 .. LhSize - 1 : ((i + 1) % LhSize) = r
    BY <1>1, Division
  <1> QED BY <1>2 DEF Spi!Advance, Spi!Cells

\* The sweep that came last.
Latest == IF next_sweep = "A" THEN "B" ELSE "A"

ClockInv ==
  /\ lh_now \in Times /\ next_sweep \in Sweeps
  /\ OnTime(Latest, lh_now)
  /\ spi \in {"none", Latest}

\* Wherever the interrupt cuts the taking of a capture, the bits are some
\* capture's, and so is the time.
TakeInv ==
  /\ captures \in SensorRing
  /\ read_reg \in Spi!Cells /\ count_reg \in Int
  /\ lh_pc \in {"time", "advance", "count", "store"} /\ bits_time # 0 =>
       bits = SweepAt(bits_time)
  /\ lh_pc \in {"advance", "count", "store"} => time \in Times /\ Timely(time)

SlotTypes ==
  /\ slot_time \in [0 .. 1 -> Times]
  /\ \A slot \in 0 .. 1 : Timely(slot_time[slot])
  /\ DOMAIN location \subseteq 0 .. 1
  /\ outdated \in BOOLEAN

\* Two slots that have a time have the times of two sweeps.
Sorted(times) ==
  times[0] # 0 /\ times[1] # 0 => SweepAt(times[0]) # SweepAt(times[1])

SlotsInv ==
  ~outdated =>
    /\ \A slot \in DOMAIN location :
         /\ slot_time[slot] # 0
         /\ slot \notin mixed => location[slot] = SweepAt(slot_time[slot])
    /\ Sorted(slot_time)

Lh2Inv == ClockInv /\ TakeInv /\ SlotTypes /\ SlotsInv

\* The slot chosen for a capture is never next to one with the same sweep.
LEMMA SelectApart ==
  ASSUME WellApart, NEW times \in [0 .. 1 -> Times],
         \A slot \in 0 .. 1 : Timely(times[slot]),
         Sorted(times), time \in Times, Timely(time),
         \A slot \in 0 .. 1 : times[slot] # 0 =>
           ((time - times[slot]) % LhWrap) <= MaxTurns * RotorPeriod,
         NEW other, other = 1 - SelectSweep(times), times[other] # 0
  PROVE  /\ SelectSweep(times) \in 0 .. 1
         /\ SweepAt(times[other]) # SweepAt(time)
  <1>1. SelectSweep(times) \in 0 .. 1
    BY DEF SelectSweep
  <1>2. \A slot \in 0 .. 1 : Distance(times, slot) = Near((time - times[slot]) % LhWrap)
    BY DEF Distance, Near
  <1>3. \A slot \in 0 .. 1 : times[slot] # 0 =>
          (SweepAt(time) = SweepAt(times[slot]) <=> Distance(times, slot) < Threshold)
    <2>1. TAKE slot \in 0 .. 1
    <2>2. HAVE times[slot] # 0
    <2>3. /\ SweepAt(time) \in Sweeps /\ OnTime(SweepAt(time), time)
          /\ SweepAt(times[slot]) \in Sweeps /\ OnTime(SweepAt(times[slot]), times[slot])
      BY SweepAtTimes
    <2>4. times[slot] \in Times /\ ((time - times[slot]) % LhWrap) <= MaxTurns * RotorPeriod
      BY <2>2
    <2>5. SweepAt(time) = SweepAt(times[slot])
            <=> Near((time - times[slot]) % LhWrap) < Threshold
      BY <2>3, <2>4, Separated
    <2> QED BY <1>2, <2>5
  <1>4. times[0] # 0 /\ times[1] # 0 => SweepAt(times[0]) # SweepAt(times[1])
    BY DEF Sorted
  <1> DEFINE first == SweepAt(times[0])
             second == SweepAt(times[1])
             mine == SweepAt(time)
  <1>5. \A slot \in 0 .. 1 : Distance(times, slot) \in Int
    <2>1. TAKE slot \in 0 .. 1
    <2>2. PICK d \in Int : d = ((time - times[slot]) % LhWrap)
      BY TimeGap
    <2>3. Near(d) \in Int
      BY NearInt
    <2> QED BY <1>2, <2>2, <2>3
  <1>6. PICK p \in Int, q \in Int : p = Distance(times, 0) /\ q = Distance(times, 1)
    BY <1>5
  <1>7. Threshold \in Int
    BY Lh2Numbers
  <1>s. /\ times[0] # 0 => (mine = first <=> p < Threshold)
        /\ times[1] # 0 => (mine = second <=> q < Threshold)
        /\ times[0] # 0 /\ times[1] # 0 => first # second
        /\ mine \in {"A", "B"} /\ first \in {"A", "B"} /\ second \in {"A", "B"}
    BY <1>3, <1>4, <1>6 DEF SweepAt
  <1> HIDE DEF first, second, mine
  <1>8. CASE other = 0
    <2>1. SelectSweep(times) = 1
      BY <1>1, <1>8
    <2>2. ~(times[1] = 0 /\ p < Threshold) /\ (times[1] # 0 => ~(p <= q))
      BY <1>6, <1>8, <2>1 DEF SelectSweep
    <2>3. first # mine
      BY <1>6, <1>7, <1>8, <1>s, <2>2
    <2> QED BY <1>1, <1>8, <2>3 DEF first, mine
  <1>9. CASE other = 1
    <2>1. SelectSweep(times) = 0
      BY <1>1, <1>9
    <2>2. ~(times[0] = 0 /\ q < Threshold) /\ (times[0] # 0 => p <= q)
      BY <1>6, <1>9, <2>1 DEF SelectSweep
    <2>3. second # mine
      BY <1>6, <1>7, <1>9, <1>s, <2>2
    <2> QED BY <1>1, <1>9, <2>3 DEF second, mine
  <1> QED BY <1>1, <1>8, <1>9

LEMMA Lh2InvInit == Lh2Init => Lh2Inv
  <1> SUFFICES ASSUME Lh2Init PROVE Lh2Inv
    OBVIOUS
  <1>1. 0 \in Times
    BY ZeroTime
  <1>2. OnTime("B", 0)
    <2>1. 0 + Ahead("B") = RotorPeriod * 0
      BY Lh2Numbers DEF Ahead
    <2> QED BY <2>1 DEF OnTime
  <1>3. ClockInv
    BY <1>1, <1>2 DEF Lh2Init, ClockInv, Latest, Sweeps
  <1>4. Timely(0)
    BY <1>1, <1>2, OneSweep DEF Sweeps
  <1>5. 0 \in Spi!Cells
    BY Lh2Constants DEF Lh2Constants, Spi!Cells
  <1>6. NoCapture \in Captures
    BY <1>1, <1>4 DEF NoCapture, Captures
  <1>7. captures = [buffer |-> [i \in Spi!Cells |-> NoCapture],
                    write_index |-> 0, read_index |-> 0, count |-> 0]
    BY DEF Lh2Init, Spi!EmptyRing
  <1>8. TakeInv
    <2>1. captures \in SensorRing
      BY <1>5, <1>6, <1>7 DEF SensorRing
    <2> QED BY <1>5, <2>1 DEF Lh2Init, TakeInv
  <1>9. SlotTypes /\ SlotsInv
    BY <1>1, <1>4 DEF Lh2Init, SlotTypes, SlotsInv, Sorted
  <1> QED BY <1>3, <1>8, <1>9 DEF Lh2Inv

\* The rotor goes on to its next sweep.
LEMMA SweepKeeps ==
  ASSUME Lh2Inv, NEW seen \in BOOLEAN, Sweep(seen)
  PROVE  Lh2Inv'
  <1>1. ClockInv'
    <2>1. PICK arc \in Nat : /\ arc = IF next_sweep = "A" THEN RotorPeriod - SecondSweep
                                                      ELSE SecondSweep
                             /\ lh_now' = ((lh_now + arc) % LhWrap)
      BY Lh2Numbers DEF Sweep
    <2>2. lh_now \in Int /\ lh_now + arc \in Int /\ LhWrap \in Nat \ {0}
      BY Lh2Numbers DEF Lh2Inv, ClockInv, Times
    <2>3. PICK q \in Int, r \in 0 .. LhWrap - 1 :
            lh_now + arc = LhWrap * q + r /\ ((lh_now + arc) % LhWrap) = r
      BY <2>2, Division
    <2>4. PICK w \in Int : LhWrap = RotorPeriod * w
      BY WrapIsTurns
    <2>5. PICK i \in Int : lh_now + Ahead(Latest) = RotorPeriod * i
      BY DEF Lh2Inv, ClockInv, OnTime
    <2>6. next_sweep' = IF next_sweep = "A" THEN "B" ELSE "A"
      BY DEF Sweep
    <2>7. /\ next_sweep = "A" \/ next_sweep = "B"
          /\ next_sweep' \in Sweeps /\ Latest' = next_sweep
      BY <2>6 DEF Lh2Inv, ClockInv, Sweeps, Latest
    <2>8. PICK turns \in Int : lh_now + arc + Ahead(next_sweep) = RotorPeriod * turns
      <3>1. CASE next_sweep = "A"
        <4>1. PICK j \in Int : j = i + 1
          OBVIOUS
        <4>2. RotorPeriod * j = RotorPeriod * i + RotorPeriod /\ RotorPeriod * i \in Int
          BY <4>1, Lh2Numbers
        <4>3. lh_now + arc + Ahead(next_sweep) = RotorPeriod * j
          BY <2>1, <2>2, <2>5, <3>1, <4>2, Lh2Numbers DEF Ahead, Latest
        <4> QED BY <4>3
      <3>2. CASE next_sweep = "B"
        <4>1. lh_now + arc + Ahead(next_sweep) = RotorPeriod * i
          BY <2>1, <2>2, <2>5, <3>2, Lh2Numbers DEF Ahead, Latest
        <4> QED BY <4>1
      <3> QED BY <2>7, <3>1, <3>2
    <2>9. OnTime(next_sweep, r)
      <3>1. PICK j \in Int : j = turns - w * q
        OBVIOUS
      <3>2. RotorPeriod * j = RotorPeriod * turns - LhWrap * q
        <4>1. PICK p \in Int : p = w * q
          OBVIOUS
        <4>2. RotorPeriod * (turns - p) = RotorPeriod * turns - RotorPeriod * p
          BY Lh2Numbers, Distribute
        <4>3. RotorPeriod * (w * q) = (RotorPeriod * w) * q
          BY Lh2Numbers
        <4> QED BY <2>4, <3>1, <4>1, <4>2, <4>3
      <3>3. PICK a \in Int : a = Ahead(next_sweep)
        BY Lh2Numbers DEF Ahead
      <3>4. PICK x \in Int, y \in Int : x = RotorPeriod * turns /\ y = LhWrap * q
        BY Lh2Numbers
      <3>n. PICK n \in Int : n = lh_now + arc
        BY <2>2
      <3>5. n = y + r /\ n + a = x /\ RotorPeriod * j = x - y
        BY <2>3, <2>8, <3>2, <3>3, <3>4, <3>n
      <3>7. r + a = RotorPeriod * j
        BY <3>5
      <3>6. r + Ahead(next_sweep) = RotorPeriod * j
        BY <3>3, <3>7
      <3> QED BY <3>6 DEF OnTime
    <2>10. lh_now' = r /\ r \in Times
      BY <2>1, <2>3 DEF Times
    <2>11. OnTime(Latest, lh_now)'
      BY <2>7, <2>9, <2>10 DEF OnTime, Ahead
    <2>12. spi' \in {"none", Latest'}
      BY <2>7 DEF Sweep, lh_capture, Lh2Inv, ClockInv
    <2> QED BY <2>7, <2>10, <2>11, <2>12 DEF ClockInv, Times
  <1>2. TakeInv' /\ SlotTypes' /\ SlotsInv'
    BY DEF Sweep, lh_process, lh_slots, Lh2Inv, TakeInv, SlotTypes, SlotsInv,
           Sorted
  <1> QED BY <1>1, <1>2 DEF Lh2Inv

LEMMA IsrKeeps ==
  ASSUME Lh2Inv, Lh2Isr
  PROVE  Lh2Inv'
  <1>1. ClockInv'
    BY DEF Lh2Isr, lh_clock, Lh2Inv, ClockInv, Latest, OnTime, Ahead, Times
  <1>2. SlotTypes' /\ SlotsInv'
    BY DEF Lh2Isr, lh_slots, Lh2Inv, SlotTypes, SlotsInv, Sorted
  <1> DEFINE new == [bits |-> spi, time |-> lh_now]
  <1>3. new \in Captures
    <2>1. /\ spi = Latest /\ spi \in Sweeps /\ lh_now \in Times
          /\ OnTime(spi, lh_now)
      BY DEF Lh2Isr, Lh2Inv, ClockInv, Latest, Sweeps
    <2>2. Timely(lh_now) /\ SweepAt(lh_now) = spi
      BY <2>1, OneSweep
    <2> QED BY <2>1, <2>2 DEF Captures
  <1> HIDE DEF new
  <1>4. captures \in SensorRing
    BY DEF Lh2Inv, TakeInv
  <1>5. captures' = Spi!RbAdd(captures, new)
    BY DEF Lh2Isr, new
  <1>6. captures' \in SensorRing
    <2>1. [captures.buffer EXCEPT ![captures.write_index] = new]
            \in [Spi!Cells -> Captures]
      BY <1>3, <1>4 DEF SensorRing
    <2>2. /\ Spi!Advance(captures.write_index) \in Spi!Cells
          /\ Spi!Advance(captures.read_index) \in Spi!Cells
      BY <1>4, NextCell DEF SensorRing
    <2> QED BY <1>4, <1>5, <2>1, <2>2 DEF Spi!RbAdd, SensorRing
  <1>7. UNCHANGED lh_process
    BY DEF Lh2Isr
  <1>8. TakeInv'
    BY <1>6, <1>7 DEF lh_process, Lh2Inv, TakeInv, SweepAt, Timely, OnTime,
       Ahead, Times
  <1> QED BY <1>1, <1>2, <1>8 DEF Lh2Inv

\* One access of the main loop, to a ring that the interrupt may have changed
\* since the last.
LEMMA TakeKeeps ==
  ASSUME Lh2Inv, TakeBits \/ TakeTime \/ AdvanceRead \/ CountDown
  PROVE  Lh2Inv'
  <1>1. UNCHANGED lh_clock /\ UNCHANGED lh_capture /\ UNCHANGED lh_slots
    BY DEF TakeBits, TakeTime, AdvanceRead, CountDown
  <1>2. ClockInv' /\ SlotTypes' /\ SlotsInv'
    BY <1>1 DEF lh_clock, lh_capture, lh_slots, Lh2Inv, ClockInv, SlotTypes,
       SlotsInv, Sorted, OnTime, Ahead, Times, Latest
  <1>3. TakeInv /\ 0 \in Spi!Cells
    BY Lh2Constants DEF Lh2Constants, Spi!Cells, Lh2Inv
  <1>4. /\ captures \in SensorRing /\ captures.count \in Int
        /\ captures.read_index \in Spi!Cells
        /\ \A i \in Spi!Cells : captures.buffer[i] \in Captures
    BY <1>3 DEF TakeInv, SensorRing
  <1>5. CASE TakeBits
    <2>1. /\ read_reg' = captures.read_index /\ count_reg' = captures.count
          /\ UNCHANGED captures
          /\ bits' = captures.buffer[captures.read_index].bits
          /\ bits_time' = captures.buffer[captures.read_index].time
          /\ lh_pc' = "time"
      BY <1>5 DEF TakeBits, Goto
    <2>2. bits_time' # 0 => bits' = SweepAt(bits_time')
      BY <1>4, <2>1 DEF Captures
    <2>3. SweepAt(bits_time)' = SweepAt(bits_time')
      BY DEF SweepAt, OnTime, Ahead
    <2> QED BY <1>2, <1>3, <1>4, <2>1, <2>2, <2>3 DEF TakeInv, Lh2Inv
  <1>6. CASE TakeTime
    <2>1. /\ read_reg' \in {read_reg, captures.read_index}
          /\ count_reg' \in {count_reg, captures.count}
          /\ time' = captures.buffer[read_reg'].time
          /\ lh_pc = "time" /\ lh_pc' = "advance"
          /\ UNCHANGED <<bits, bits_time, captures>>
      BY <1>6 DEF TakeTime, Goto, Reload
    <2>2. read_reg' \in Spi!Cells /\ count_reg' \in Int
      BY <1>3, <1>4, <2>1 DEF TakeInv
    <2>3. time' \in Times /\ Timely(time')
      BY <1>4, <2>1, <2>2 DEF Captures
    <2>4. Timely(time)' = Timely(time') /\ Times' = Times
      BY DEF Timely, OnTime, Ahead, Times, Sweeps
    <2>5. SweepAt(bits_time)' = SweepAt(bits_time)
      BY <2>1 DEF SweepAt, OnTime, Ahead
    <2> QED BY <1>2, <1>3, <1>4, <2>1, <2>2, <2>3, <2>4, <2>5 DEF TakeInv, Lh2Inv
  <1>7. CASE AdvanceRead
    <2>1. PICK i \in {read_reg, captures.read_index} :
            captures' = [captures EXCEPT !.read_index = Spi!Advance(i)]
      BY <1>7 DEF AdvanceRead
    <2>2. /\ lh_pc = "advance" /\ lh_pc' = "count" /\ read_reg' = 0
          /\ count_reg' \in {count_reg, captures.count}
          /\ UNCHANGED <<bits, time, bits_time>>
      BY <1>7 DEF AdvanceRead, Goto
    <2>3. Spi!Advance(i) \in Spi!Cells
      BY <1>3, <1>4, <2>1, NextCell DEF TakeInv
    <2>4. captures' \in SensorRing
      BY <1>4, <2>1, <2>3 DEF SensorRing
    <2>5. TakeInv'
      BY <1>3, <1>4, <2>2, <2>4 DEF TakeInv, SweepAt, Timely, OnTime, Ahead, Times
    <2> QED BY <1>2, <2>5 DEF Lh2Inv
  <1>8. CASE CountDown
    <2>1. PICK k \in {count_reg, captures.count} :
            captures' = [captures EXCEPT !.count = k - 1]
      BY <1>8 DEF CountDown
    <2>2. /\ lh_pc = "count" /\ lh_pc' = "store"
          /\ read_reg' = 0 /\ count_reg' = 0
          /\ UNCHANGED <<bits, time, bits_time>>
      BY <1>8 DEF CountDown, Goto
    <2>3. captures' \in SensorRing
      <3>1. k - 1 \in Int
        BY <1>3, <1>4 DEF TakeInv
      <3> QED BY <1>4, <2>1, <3>1 DEF SensorRing
    <2>4. TakeInv'
      BY <1>3, <2>2, <2>3 DEF TakeInv, SweepAt, Timely, OnTime, Ahead, Times
    <2> QED BY <1>2, <2>4 DEF Lh2Inv
  <1> QED BY <1>5, <1>6, <1>7, <1>8

\* A capture goes to the slot of its own sweep or to an empty one.
LEMMA StoreKeeps ==
  ASSUME WellApart, Lh2Inv, NEW result, Store(result)
  PROVE  Lh2Inv'
  <1>1. ClockInv'
    BY DEF Store, lh_clock, lh_capture, Lh2Inv, ClockInv, Latest, OnTime,
       Ahead, Times
  <1>2. TakeInv'
    <2>1. captures \in SensorRing /\ 0 \in Spi!Cells
      BY Lh2Constants DEF Lh2Constants, Spi!Cells, Lh2Inv, TakeInv
    <2>2. lh_pc' = "idle" /\ read_reg' = 0 /\ count_reg' = 0 /\ UNCHANGED captures
      BY DEF Store, Goto
    <2> QED BY <2>1, <2>2 DEF TakeInv
  <1>t. /\ time \in Times /\ Timely(time)
        /\ bits_time # 0 => bits = SweepAt(bits_time)
        /\ SlotTypes /\ SlotsInv
    BY DEF Store, Goto, Lh2Inv, TakeInv
  <1>3. CASE result = "no polynomial"
    BY <1>1, <1>2, <1>3, <1>t DEF Store, lh_slots, Lh2Inv, SlotTypes,
       SlotsInv, Sorted
  <1>4. CASE result # "no polynomial"
    <2> DEFINE times == [slot \in 0 .. 1 |-> IF TooOld(slot) THEN 0 ELSE slot_time[slot]]
               kept  == {slot \in DOMAIN location : ~TooOld(slot)}
               sweep == SelectSweep(times)
               ready == IF result = "zeros" THEN kept \ {sweep} ELSE kept \cup {sweep}
               new   == IF result = "zeros" THEN {} ELSE {sweep}
               drifted == \E slot \in 0 .. 1 : times[slot] # 0 /\
                   ((time - times[slot]) % LhWrap) > MaxTurns * RotorPeriod
    <2>1. /\ slot_time' = [slot \in 0 .. 1 |->
                             IF slot \in new THEN time ELSE times[slot]]
          /\ location' = [slot \in ready |->
                            IF slot \in new THEN bits ELSE location[slot]]
          /\ mixed' = IF time = bits_time THEN (mixed \cap ready) \ new
                                          ELSE (mixed \cap ready) \cup new
          /\ outdated' = (outdated \/ time = 0 \/ drifted)
      BY <1>4 DEF Store
    <2>2. /\ times \in [0 .. 1 -> Times] /\ kept \subseteq DOMAIN location
          /\ kept \subseteq 0 .. 1
          /\ \A slot \in 0 .. 1 : times[slot] \in {0, slot_time[slot]}
          /\ \A slot \in kept : times[slot] = slot_time[slot]
      BY <1>t, ZeroTime DEF SlotTypes
    <2>3. sweep \in {0, 1}
      BY DEF SelectSweep
    <2>4. drifted \in BOOLEAN
      OBVIOUS
    <2>d. ~drifted => \A slot \in 0 .. 1 : times[slot] # 0 =>
            ~(((time - times[slot]) % LhWrap) > MaxTurns * RotorPeriod)
      OBVIOUS
    <2>s. /\ sweep = SelectSweep(times)
          /\ new = IF result = "zeros" THEN {} ELSE {sweep}
          /\ new \subseteq ready \/ new = {}
          /\ ready \subseteq kept \cup new
      OBVIOUS
    <2> HIDE DEF times, kept, sweep, drifted, ready, new
    <2>o. \A slot \in 0 .. 1 : Timely(times[slot])
      <3>1. Timely(0)
        <4>1. 0 + Ahead("B") = RotorPeriod * 0
          BY Lh2Numbers DEF Ahead
        <4>2. OnTime("B", 0)
          BY <4>1 DEF OnTime
        <4> QED BY <4>2 DEF Timely, Sweeps
      <3> QED BY <1>t, <2>2, <3>1 DEF SlotTypes
    <2>5. ~outdated /\ ~drifted => \A slot \in 0 .. 1 : times[slot] # 0 =>
           ((time - times[slot]) % LhWrap) <= MaxTurns * RotorPeriod
      <3>1. SUFFICES ASSUME ~drifted, NEW slot \in 0 .. 1, times[slot] # 0
                     PROVE  ((time - times[slot]) % LhWrap) <= MaxTurns * RotorPeriod
        OBVIOUS
      <3>2. ~(((time - times[slot]) % LhWrap) > MaxTurns * RotorPeriod)
        BY <2>d, <3>1
      <3>3. ((time - times[slot]) % LhWrap) \in Int
        <4>1. times[slot] \in Times
          BY <2>2
        <4> QED BY <1>t, <4>1, TimeGap
      <3>4. MaxTurns * RotorPeriod \in Int
        BY MaxTurnsInt, Lh2Numbers
      <3> QED BY <3>2, <3>3, <3>4
    <2>6. ~outdated => Sorted(times)
      BY <1>t, <2>2 DEF SlotsInv, Sorted
    <2>7. ~outdated' => \A other \in 0 .. 1 : other # sweep /\ times[other] # 0 =>
              SweepAt(times[other]) # SweepAt(time)
      <3>1. SUFFICES ASSUME ~outdated', NEW other \in 0 .. 1,
                            other # sweep, times[other] # 0
                     PROVE  SweepAt(times[other]) # SweepAt(time)
        OBVIOUS
      <3>2. other = 1 - sweep
        BY <2>3, <3>1
      <3>3. Sorted(times) /\ \A slot \in 0 .. 1 : times[slot] # 0 =>
              ((time - times[slot]) % LhWrap) <= MaxTurns * RotorPeriod
        BY <2>1, <2>4, <2>5, <2>6, <3>1
      <3>4. other = 1 - SelectSweep(times)
        BY <2>s, <3>2
      <3> QED BY <1>t, <2>2, <2>o, <3>1, <3>3, <3>4, SelectApart
    <2>8. SlotTypes'
      <3>1. outdated' \in BOOLEAN
        BY <1>t, <2>1, <2>4 DEF SlotTypes
      <3>2. new \subseteq 0 .. 1
        BY <2>3, <2>s
      <3>3. DOMAIN location' \subseteq 0 .. 1
        BY <2>1, <2>2, <2>s, <3>2
      <3>4. slot_time' \in [0 .. 1 -> Times]
        BY <1>t, <2>1, <2>2
      <3>5. \A slot \in 0 .. 1 : Timely(slot_time'[slot])
        BY <1>t, <2>1, <2>o
      <3> QED BY <3>1, <3>3, <3>4, <3>5 DEF SlotTypes, Times, Timely, OnTime, Ahead
    <2>9. SlotsInv'
      <3>1. SUFFICES ASSUME ~outdated'
              PROVE  /\ \A slot \in DOMAIN location' :
                          /\ slot_time'[slot] # 0
                          /\ slot \notin mixed' =>
                               location'[slot] = SweepAt(slot_time'[slot])
                     /\ Sorted(slot_time')
        BY DEF SlotsInv, Sorted, SweepAt, OnTime, Ahead
      <3>2. ~outdated /\ time # 0
        BY <2>1, <2>4, <3>1
      <3>3. \A slot \in kept : /\ times[slot] # 0
                               /\ slot \notin mixed => location[slot] = SweepAt(times[slot])
        BY <1>t, <2>2, <3>2 DEF SlotsInv
      <3>4. ASSUME NEW slot \in DOMAIN location'
            PROVE  /\ slot_time'[slot] # 0
                   /\ slot \notin mixed' => location'[slot] = SweepAt(slot_time'[slot])
        <4>1. slot \in ready /\ slot \in 0 .. 1
          BY <2>1, <2>8 DEF SlotTypes
        <4>2. CASE slot \in new
          <5>1. slot_time'[slot] = time /\ location'[slot] = bits
            BY <2>1, <4>1, <4>2
          <5>2. slot \notin mixed' => time = bits_time
            BY <2>1, <4>2
          <5> QED BY <1>t, <3>2, <5>1, <5>2
        <4>3. CASE slot \notin new
          <5>1. /\ slot \in kept
                /\ slot_time'[slot] = times[slot] /\ location'[slot] = location[slot]
            BY <2>1, <2>s, <4>1, <4>3
          <5>2. slot \in mixed => slot \in mixed'
            BY <2>1, <4>1, <4>3
          <5> QED BY <3>3, <5>1, <5>2
        <4> QED BY <4>2, <4>3
      <3>5. Sorted(slot_time')
        <4>1. CASE new = {}
          <5>1. slot_time'[0] = times[0] /\ slot_time'[1] = times[1]
            BY <2>1, <4>1
          <5> QED BY <2>6, <3>2, <5>1 DEF Sorted
        <4>2. CASE new = {sweep}
          <5>1. /\ slot_time'[sweep] = time
                /\ \A other \in 0 .. 1 : other # sweep => slot_time'[other] = times[other]
            BY <2>1, <2>3, <4>2
          <5> QED BY <2>3, <2>7, <3>1, <5>1 DEF Sorted
        <4> QED BY <2>s, <4>1, <4>2
      <3> QED BY <3>4, <3>5
    <2> QED BY <1>1, <1>2, <2>8, <2>9 DEF Lh2Inv
  <1> QED BY <1>3, <1>4

LEMMA Lh2InvStep ==
  ASSUME WellApart, Lh2Inv, [Lh2Next]_lh_vars
  PROVE  Lh2Inv'
  <1>1. CASE Lh2Reset
    <2>1. slot_time' \in [0 .. 1 -> Times] /\ \A slot \in 0 .. 1 : slot_time'[slot] = 0
      BY <1>1, ZeroTime DEF Lh2Reset
    <2>2. Timely(0)
      <3>1. 0 + Ahead("B") = RotorPeriod * 0
        BY Lh2Numbers DEF Ahead
      <3>2. OnTime("B", 0)
        BY <3>1 DEF OnTime
      <3> QED BY <3>2 DEF Timely, Sweeps
    <2>3. DOMAIN location' = {} /\ outdated' = FALSE
      BY <1>1 DEF Lh2Reset
    <2>4. SlotTypes'
      BY <2>1, <2>2, <2>3 DEF SlotTypes, Times, Timely, OnTime, Ahead
    <2>5. SlotsInv'
      BY <2>1, <2>3 DEF SlotsInv, Sorted
    <2>6. ClockInv' /\ TakeInv'
      BY <1>1 DEF Lh2Reset, lh_clock, lh_capture, lh_process, Lh2Inv, ClockInv,
         TakeInv, Latest, OnTime, Ahead, Times, Timely, SweepAt
    <2> QED BY <2>4, <2>5, <2>6 DEF Lh2Inv
  <1>2. ASSUME NEW on \in BOOLEAN, SetPpi(on)
        PROVE  Lh2Inv'
    BY <1>2 DEF SetPpi, lh_clock, lh_process, lh_slots, Lh2Inv, ClockInv,
       TakeInv, SlotTypes, SlotsInv, Sorted, Latest, OnTime, Ahead, Times,
       Timely, SweepAt
  <1>3. CASE UNCHANGED lh_vars
    BY <1>3 DEF lh_vars, lh_clock, lh_capture, lh_process, lh_slots, Lh2Inv,
       ClockInv, TakeInv, SlotTypes, SlotsInv, Sorted, Latest, OnTime, Ahead,
       Times, Timely, SweepAt
  <1> QED BY <1>1, <1>2, <1>3, SweepKeeps, IsrKeeps, TakeKeeps, StoreKeeps
             DEF Lh2Next

(***************************************************************************)
(* Captures are sorted into the right slots, whatever is missed, thrown    *)
(* away, overwritten or reset and wherever the interrupt cuts the main     *)
(* loop short, as long as the two sweeps are two thresholds apart: what an *)
(* interrupt can spoil is the bits of a slot, until that slot is filled    *)
(* again, never the sorting, unless it lets a capture overtake another.    *)
(***************************************************************************)
THEOREM SlotsAreSorted ==
  WellApart => (Lh2Spec => []SweepsApart)
  <1> SUFFICES ASSUME WellApart PROVE Lh2Spec => []SweepsApart
    OBVIOUS
  <1>1. Lh2Inv /\ [Lh2Next]_lh_vars => Lh2Inv'
    BY Lh2InvStep
  <1>2. Lh2Inv => SweepsApart
    <2> SUFFICES ASSUME Lh2Inv, DOMAIN location = {0, 1}, mixed = {}, ~outdated
                 PROVE  location[0] # location[1]
      BY DEF SweepsApart
    <2>1. /\ slot_time[0] # 0 /\ slot_time[1] # 0
          /\ location[0] = SweepAt(slot_time[0]) /\ location[1] = SweepAt(slot_time[1])
          /\ Sorted(slot_time)
      BY DEF Lh2Inv, SlotsInv
    <2> QED BY <2>1 DEF Sorted
  <1> QED BY <1>1, <1>2, Lh2InvInit, PTL DEF Lh2Spec

=============================================================================
