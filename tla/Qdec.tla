-------------------------------- MODULE Qdec --------------------------------
(***************************************************************************)
(* The quadrature decoder driver (bsp/nrf/qdec.c).  The peripheral samples *)
(* the encoder by itself and adds the steps of a wheel up in ACC, which    *)
(* holds -AccTop - 1 to AccTop; a sample for which there is no room is     *)
(* dropped and raises ACCOF, whose interrupt empties ACC and counts one    *)
(* more overflow or underflow.  The closed-loop moves read the total while *)
(* the wheel turns.                                                        *)
(***************************************************************************)
EXTENDS Integers

CONSTANTS
  AccTop,        \* 1023, which the driver has as a number
  DoublesTop,    \* the double transitions ACCDBL holds, 15
  MaxOverflows   \* bound on overflow and underflow, for TLC

ASSUME QdecConstants ==
  AccTop \in Nat \ {0} /\ DoublesTop \in Nat /\ MaxOverflows \in Nat

VARIABLES
  acc, acc_doubles, sample, accof,  \* ACC, ACCDBL, SAMPLE, EVENTS_ACCOF
  overflow, underflow,              \* of _qdec_vars
  clearing,      \* is qdec_isr about to empty ACC?
  reads_left,    \* what db_qdec_read has still to do
  value,         \*   and what it has added up
  \* history
  counted,       \* steps the peripheral has counted since it was cleared
  counted_then,  \* and had counted when ACC was read
  torn,          \* did qdec_isr run in the middle of the read?
  misled         \* did it find another state than that of the overflow?

qdec_hw == <<acc, acc_doubles, sample, accof>>
qdec_read == <<reads_left, value, counted_then, torn>>
qdec_vars == <<qdec_hw, overflow, underflow, clearing, counted, misled, qdec_read>>

QdecInit ==
  /\ acc = 0 /\ acc_doubles = 0 /\ sample = 0 /\ accof = FALSE
  /\ overflow = 0 /\ underflow = 0 /\ clearing = FALSE
  /\ reads_left = {} /\ value = 0
  /\ counted = 0 /\ counted_then = 0 /\ torn = FALSE /\ misled = FALSE

-----------------------------------------------------------------------------
(* The peripheral, which waits for nobody. *)

Room(step) == acc + step \in -AccTop - 1 .. AccTop

\* The interrupt will tell the direction by the sample it finds, and drop
\* what it finds in ACC.
Misleads(step) ==
  \/ accof /\ Room(step) /\ (step # 0 \/ acc < 0)
  \/ clearing /\ step # 0

QdecSample(step) ==
  /\ overflow + underflow < MaxOverflows
  /\ sample' = step
  /\ IF Room(step)
     THEN acc' = acc + step /\ counted' = counted + step /\ UNCHANGED accof
     ELSE accof' = TRUE /\ UNCHANGED <<acc, counted>>
  /\ misled' = (misled \/ Misleads(step))
  /\ UNCHANGED <<acc_doubles, overflow, underflow, clearing, qdec_read>>

\* ACCOF is the event of ACCDBL as well, which nobody empties.
DoubleTransition ==
  /\ overflow + underflow < MaxOverflows
  /\ sample' = 2
  /\ IF acc_doubles < DoublesTop
     THEN acc_doubles' = acc_doubles + 1 /\ UNCHANGED accof
     ELSE accof' = TRUE /\ UNCHANGED acc_doubles
  /\ misled' = (misled \/ acc_doubles = DoublesTop \/ (accof /\ acc < 0))
  /\ UNCHANGED <<acc, overflow, underflow, clearing, counted, qdec_read>>

-----------------------------------------------------------------------------
(* qdec_isr.  The main loop does not run while it waits or runs.           *)

QdecIsr ==
  /\ accof /\ ~clearing
  /\ accof' = FALSE /\ clearing' = TRUE
  /\ IF sample < 0
     THEN underflow' = underflow + 1 /\ UNCHANGED overflow
     ELSE overflow' = overflow + 1 /\ UNCHANGED underflow
  /\ torn' = (torn \/ reads_left \in {{"ACC"}, {"counters"}})
  /\ UNCHANGED <<acc, acc_doubles, sample, counted, misled, reads_left, value,
                 counted_then>>

ClearAcc ==
  /\ clearing /\ clearing' = FALSE
  /\ acc' = 0
  /\ UNCHANGED <<acc_doubles, sample, accof, overflow, underflow, counted,
                 misled, qdec_read>>

MainLoop == ~accof /\ ~clearing

-----------------------------------------------------------------------------
(* db_qdec_read: C leaves open which operand is read first. *)

QdecRead ==
  /\ MainLoop /\ reads_left = {}
  /\ reads_left' = {"ACC", "counters"} /\ value' = 0 /\ torn' = FALSE
  /\ UNCHANGED <<qdec_hw, overflow, underflow, clearing, counted, misled,
                 counted_then>>

ReadAcc ==
  /\ MainLoop /\ "ACC" \in reads_left
  /\ reads_left' = IF "counters" \in reads_left THEN {"counters"} ELSE {"return"}
  /\ value' = value + acc /\ counted_then' = counted
  /\ UNCHANGED <<qdec_hw, overflow, underflow, clearing, counted, misled, torn>>

MutantCounted == AccTop * overflow - AccTop * underflow

Counted == AccTop * overflow - (AccTop + 1) * underflow

ReadCounters ==
  /\ MainLoop /\ "counters" \in reads_left
  /\ reads_left' = IF "ACC" \in reads_left THEN {"ACC"} ELSE {"return"}
  /\ value' = value + Counted
  /\ UNCHANGED <<qdec_hw, overflow, underflow, clearing, counted, misled,
                 counted_then, torn>>

QdecReturn ==
  /\ MainLoop /\ reads_left = {"return"}
  /\ reads_left' = {} /\ value' = 0 /\ counted_then' = 0 /\ torn' = FALSE
  /\ UNCHANGED <<qdec_hw, overflow, underflow, clearing, counted, misled>>

\* db_qdec_read_and_clear, whose result nobody uses: with ACC emptied first,
\* no overflow comes before the counters are cleared.
QdecReadAndClear ==
  /\ MainLoop /\ reads_left = {}
  /\ acc' = 0 /\ overflow' = 0 /\ underflow' = 0
  /\ counted' = 0 /\ misled' = FALSE
  /\ UNCHANGED <<acc_doubles, sample, accof, clearing, qdec_read>>

QdecNext ==
  \/ \E step \in -1 .. 1 : QdecSample(step)
  \/ DoubleTransition
  \/ QdecIsr \/ ClearAcc
  \/ QdecRead \/ ReadAcc \/ ReadCounters \/ QdecReturn \/ QdecReadAndClear

QdecSpec == QdecInit /\ [][QdecNext]_qdec_vars

-----------------------------------------------------------------------------
(***************************************************************************)
(* db_qdec_read returns every step counted since db_qdec_read_and_clear,   *)
(* however often ACC ran over in either direction.  Two things defeat it:  *)
(* the interrupt in the middle of the read; and one that is so late, or    *)
(* raised by ACCDBL, that the accumulator or the sample it finds is not    *)
(* the one that ran over, which the total remembers until it is cleared.   *)
(***************************************************************************)
ReadsEveryStep == reads_left = {"return"} /\ ~torn /\ ~misled => value = counted_then

(***************************************************************************)
(* "Read the QDEC accumulator" (qdec.h:45), which db_qdec_read puts        *)
(* together from ACC and the counters of the interrupt (qdec.c:77): the    *)
(* steps returned have been counted, whether or not the interrupt comes    *)
(* between the two.                                                        *)
(***************************************************************************)
ReadsWholeTotal == reads_left = {"return"} /\ ~misled => value = counted_then

=============================================================================
