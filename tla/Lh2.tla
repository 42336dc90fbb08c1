-------------------------------- MODULE Lh2 --------------------------------
(***************************************************************************)
(* The lighthouse driver (bsp/nrf/lh2_default.c) for one base station.     *)
(* Its rotor crosses the robot twice a turn, as sweep "A" and sweep "B".   *)
(* The sensor's interrupt puts each capture with its time into a ring that *)
(* overwrites its oldest one; the main loop takes them out one by one and  *)
(* sorts them into two slots by their times alone, since nothing in a      *)
(* capture says which sweep it is.                                         *)
(*                                                                         *)
(* The interrupt may come between any two accesses of the main loop to the *)
(* ring, which nothing masks.  The ring is not volatile: what an access    *)
(* needs of read_index or count it loads, or has in a register already     *)
(* from one of the accesses before.  Of a capture copied while it is       *)
(* overwritten all bits are taken to be of one capture.                    *)
(***************************************************************************)
EXTENDS Integers, Sequences

CONSTANTS
  LhWrap,        \* the microseconds of the timer, 2^32
  RotorPeriod,   \* the true time of a turn
  SecondSweep,   \* the time from sweep "A" to sweep "B"
  SweepPeriod,   \* LH2_SWEEP_PERIOD_US: "a blanket 20ms"
  Threshold,     \* LH2_SWEEP_PERIOD_THRESHOLD_US
  MaxValidTime,  \* LH2_MAX_DATA_VALID_TIME_US
  LhSize,        \* LH2_BUFFER_SIZE
  MaxSweeps      \* bound: the sweeps after which time stops

ASSUME Lh2Constants ==
  /\ {LhWrap, RotorPeriod, SecondSweep, SweepPeriod, Threshold, LhSize}
       \subseteq Nat \ {0}
  /\ MaxValidTime \in Nat /\ MaxSweeps \in Nat
  /\ SecondSweep < RotorPeriod /\ RotorPeriod < SweepPeriod
  /\ LhWrap % RotorPeriod = 0

VARIABLES
  lh_now, next_sweep,  \* the timer, and the sweep that comes next
  sweeps,              \* how many there were, for the bound
  ppi_on, spi,         \* is the capture armed; the one whose interrupt is due
  captures,            \* the ring; a cell is a capture's bits and time
  lh_pc, bits, time,   \* of db_lh2_process_location
  read_reg, count_reg, \* read_index and count as the main loop has them
  slot_time,           \* timestamps of lh2
  location,            \* locations of lh2 where data_ready says that there is
                       \*   one: the sweep it was computed from
  \* history
  bits_time,           \* when bits was captured
  mixed,               \* the slots whose location is of bits that were not
                       \*   captured at the time they were sorted by
  outdated             \* was a sweep compared with one too old for that, or
                       \*   later than itself, or captured at time 0, which
                       \*   stands for "empty"?

lh_clock == <<lh_now, next_sweep, sweeps>>
lh_capture == <<ppi_on, spi>>
lh_process == <<lh_pc, bits, time, read_reg, count_reg, bits_time>>
lh_slots == <<slot_time, location, mixed, outdated>>
lh_vars == <<lh_clock, lh_capture, captures, lh_process, lh_slots>>

NoCapture == [bits |-> "none", time |-> 0]
Spi == INSTANCE RingOps WITH
  Size <- LhSize, NoData <- NoCapture,
  Data <- [bits : {"A", "B"}, time : 0 .. LhWrap - 1]

\* db_lh2_init and db_lh2_start
Lh2Init ==
  /\ lh_now = 0 /\ next_sweep = "A" /\ sweeps = 0
  /\ ppi_on = TRUE /\ spi = "none"
  /\ captures = Spi!EmptyRing
  /\ lh_pc = "idle" /\ bits = "none" /\ time = 0 /\ bits_time = 0
  /\ read_reg = 0 /\ count_reg = 0
  /\ slot_time = [slot \in 0 .. 1 |-> 0]
  /\ location = [slot \in {} |-> "none"]
  /\ mixed = {} /\ outdated = FALSE

-----------------------------------------------------------------------------
\* A sweep crosses the robot, and is captured or not.
Sweep(seen) ==
  /\ spi = "none" /\ sweeps < MaxSweeps
  /\ sweeps' = sweeps + 1
  /\ lh_now' = (lh_now + IF next_sweep = "A" THEN RotorPeriod - SecondSweep
                                             ELSE SecondSweep) % LhWrap
  /\ next_sweep' = IF next_sweep = "A" THEN "B" ELSE "A"
  /\ IF seen /\ ppi_on
     THEN spi' = next_sweep /\ ppi_on' = FALSE
     ELSE UNCHANGED lh_capture
  /\ UNCHANGED <<captures, lh_process, lh_slots>>

\* SPIM_IRQ_HANDLER, db_lh2_handle_isr and _add_to_spi_ring_buffer
Lh2Isr ==
  /\ spi # "none"
  /\ spi' = "none" /\ ppi_on' = TRUE
  /\ captures' = Spi!RbAdd(captures, [bits |-> spi, time |-> lh_now])
  /\ UNCHANGED <<lh_clock, lh_process, lh_slots>>

-----------------------------------------------------------------------------
(* db_lh2_process_location; _get_from_spi_ring_buffer is its first four    *)
(* steps.                                                                  *)

Goto(from, to) == lh_pc = from /\ lh_pc' = to

\* Loaded again, or not.
Reload ==
  /\ read_reg' \in {read_reg, captures.read_index}
  /\ count_reg' \in {count_reg, captures.count}

TakeBits ==
  /\ captures.count # 0 /\ Goto("idle", "time")
  /\ read_reg' = captures.read_index /\ count_reg' = captures.count
  /\ LET oldest == captures.buffer[read_reg']
     IN  bits' = oldest.bits /\ bits_time' = oldest.time
  /\ UNCHANGED <<time, lh_clock, lh_capture, captures, lh_slots>>

TakeTime ==
  /\ Goto("time", "advance") /\ Reload
  /\ time' = captures.buffer[read_reg'].time
  /\ UNCHANGED <<bits, bits_time, lh_clock, lh_capture, captures, lh_slots>>

AdvanceRead ==
  /\ Goto("advance", "count")
  /\ read_reg' = 0 /\ count_reg' \in {count_reg, captures.count}
  /\ \E i \in {read_reg, captures.read_index} :
       captures' = [captures EXCEPT !.read_index = Spi!Advance(i)]
  /\ UNCHANGED <<bits, time, bits_time, lh_clock, lh_capture, lh_slots>>

CountDown ==
  /\ Goto("count", "store")
  /\ read_reg' = 0 /\ count_reg' = 0
  /\ \E k \in {count_reg, captures.count} :
       captures' = [captures EXCEPT !.count = k - 1]
  /\ UNCHANGED <<bits, time, bits_time, lh_clock, lh_capture, lh_slots>>

Since(t) == (lh_now - t) % LhWrap

\* The slots that are not too old; the age of slot 0 decides for both, but
\* slot 0 is 0 already when slot 1 is looked at.
TooOld(slot) ==
  Since(IF slot = 1 /\ Since(slot_time[0]) > MaxValidTime
        THEN 0 ELSE slot_time[0]) > MaxValidTime

\* How far the time since slot was filled is from whole periods.
Distance(times, slot) ==
  LET diff == ((time - times[slot]) % LhWrap) % SweepPeriod
  IN  IF diff < SweepPeriod - diff THEN diff ELSE SweepPeriod - diff

MutantSelectSweep(times) ==
  IF times[0] # 0 /\ times[1] = 0 THEN 1
  ELSE IF Distance(times, 0) <= Distance(times, 1) THEN 0 ELSE 1

\* _select_sweep
SelectSweep(times) ==
  LET Fits(slot) == Distance(times, slot) < Threshold
  IN  CASE times[0] = 0 /\ times[1] = 0 -> 0
        [] times[0] = 0 /\ times[1] # 0 -> IF Fits(1) THEN 1 ELSE 0
        [] times[0] # 0 /\ times[1] = 0 -> IF Fits(0) THEN 0 ELSE 1
        [] OTHER -> IF Distance(times, 0) <= Distance(times, 1) THEN 0 ELSE 1

\* The turns after which the true period has drifted beyond the threshold.
MaxTurns == (Threshold - 1) \div (SweepPeriod - RotorPeriod)

\* What the capture turns out to be: no polynomial's, one with nothing but
\* zeros, or good.
Store(result) ==
  /\ Goto("store", "idle")
  /\ IF result = "no polynomial" THEN UNCHANGED lh_slots
     ELSE LET times == [slot \in 0 .. 1 |->
                          IF TooOld(slot) THEN 0 ELSE slot_time[slot]]
              kept  == {slot \in DOMAIN location : ~TooOld(slot)}
              sweep == SelectSweep(times)
              ready == IF result = "zeros" THEN kept \ {sweep}
                                           ELSE kept \cup {sweep}
              new   == IF result = "zeros" THEN {} ELSE {sweep}
          IN  /\ slot_time' = [slot \in 0 .. 1 |->
                                IF slot \in new THEN time ELSE times[slot]]
              /\ location' = [slot \in ready |->
                               IF slot \in new THEN bits ELSE location[slot]]
              /\ mixed' = IF time = bits_time THEN (mixed \cap ready) \ new
                                             ELSE (mixed \cap ready) \cup new
              /\ outdated' = (outdated \/ time = 0 \/ \E slot \in 0 .. 1 :
                   times[slot] # 0 /\
                   (time - times[slot]) % LhWrap > MaxTurns * RotorPeriod)
  /\ bits' = "none" /\ time' = 0 /\ bits_time' = 0
  /\ read_reg' = 0 /\ count_reg' = 0
  /\ UNCHANGED <<lh_clock, lh_capture, captures>>

\* db_lh2_reset
Lh2Reset ==
  /\ lh_pc = "idle"
  /\ location' = [slot \in {} |-> "none"]
  /\ slot_time' = [slot \in 0 .. 1 |-> 0]
  /\ mixed' = {} /\ outdated' = FALSE
  /\ UNCHANGED <<lh_clock, lh_capture, captures, lh_process>>

\* db_lh2_start, db_lh2_stop: a capture under way starts it again
SetPpi(on) ==
  /\ lh_pc = "idle" /\ ppi_on' = on
  /\ UNCHANGED <<spi, lh_clock, captures, lh_process, lh_slots>>

Lh2Next ==
  \/ \E seen \in BOOLEAN : Sweep(seen)
  \/ Lh2Isr \/ TakeBits \/ TakeTime \/ AdvanceRead \/ CountDown
  \/ \E result \in {"no polynomial", "zeros", "good"} : Store(result)
  \/ Lh2Reset
  \/ \E on \in BOOLEAN : SetPpi(on)

Lh2Spec == Lh2Init /\ [][Lh2Next]_lh_vars

-----------------------------------------------------------------------------
(***************************************************************************)
(* The two counts that are reported together are of the two sweeps and not *)
(* twice of one, whatever was missed, thrown away or overwritten and where *)
(* the interrupt cut the main loop short (_select_sweep); but for two      *)
(* cases that are the code's.  A slot may hold bits sorted by the time of  *)
(* another capture (BitsKeepTheirTime), and does until the next capture    *)
(* that is stored in it.  And a sweep may have been compared with one so   *)
(* old that the true period has drifted away from the blanket 20 ms, or    *)
(* with a later one that overtook it in the ring.                          *)
(***************************************************************************)
SweepsApart ==
  DOMAIN location = {0, 1} /\ mixed = {} /\ ~outdated =>
    location[0] # location[1]

(***************************************************************************)
(* "stop the interruptions while you're reading the data."                 *)
(* (lh2_default.c:909): the bits that are decoded are those captured at    *)
(* the time that sorts them into a slot.                                   *)
(***************************************************************************)
BitsKeepTheirTime ==
  lh_pc \in {"advance", "count", "store"} => time = bits_time

=============================================================================
