---------------------------- MODULE Qdec_proofs ----------------------------
(***************************************************************************)
(* Proof that db_qdec_read returns every step, whatever the size of the    *)
(* accumulator and however often it ran over.                              *)
(***************************************************************************)
EXTENDS Qdec, TLAPS

Numbers ==
  /\ acc_doubles \in Int /\ acc_doubles <= DoublesTop
  /\ acc \in Int /\ sample \in Int /\ -AccTop - 1 <= acc /\ acc <= AccTop
  /\ overflow \in Nat /\ underflow \in Nat
  /\ counted \in Int /\ counted_then \in Int /\ value \in Int

Flags ==
  /\ accof \in BOOLEAN /\ clearing \in BOOLEAN
  /\ torn \in BOOLEAN /\ misled \in BOOLEAN

Reads ==
  \/ reads_left = {} \/ reads_left = {"ACC", "counters"}
  \/ reads_left = {"ACC"} \/ reads_left = {"counters"} \/ reads_left = {"return"}

QdecType == Numbers /\ Flags /\ Reads

\* The interrupt will find what ran over.
OverflowStands ==
  accof => ~clearing /\ acc = (IF sample < 0 THEN -AccTop - 1 ELSE AccTop)

\* Between the two accesses of qdec_isr ACC is counted already.
TotalIsCounted == counted = Counted + (IF clearing THEN 0 ELSE acc)

\* A read under way has what it has read, and will read what is missing.
ReadIsHalfDone ==
  CASE reads_left = {"ACC"}      -> value = Counted
    [] reads_left = {"counters"} -> value + Counted = counted_then
    [] reads_left = {"return"}   -> value = counted_then
    [] reads_left = {}           -> TRUE
    [] OTHER                     -> value = 0

QdecInv ==
  /\ QdecType
  /\ ~misled => OverflowStands /\ TotalIsCounted
  /\ ~misled /\ ~torn => ReadIsHalfDone

LEMMA CountedInt ==
  ASSUME overflow \in Nat, underflow \in Nat
  PROVE  Counted \in Int
<1>1. AccTop \in Int
  BY QdecConstants DEF QdecConstants
<1>2. \A x, y \in Int : x * y \in Int
  OBVIOUS
<1>3. AccTop * overflow \in Int /\ (AccTop + 1) * underflow \in Int
  BY <1>1, <1>2
<1>. QED  BY <1>3 DEF Counted

\* One more overflow or underflow counts what is in a full accumulator.
LEMMA OneMore ==
  ASSUME NEW top \in Int, NEW n \in Int
  PROVE  top * (n + 1) = top * n + top
OBVIOUS

LEMMA QdecInitInv == QdecInit => QdecInv
<1>. SUFFICES ASSUME QdecInit PROVE QdecInv
  OBVIOUS
<1>1. AccTop \in Nat
  BY QdecConstants DEF QdecConstants
<1>2. Numbers /\ Reads
  BY <1>1, QdecConstants DEF QdecConstants, QdecInit, Numbers, Reads
<1>4. Flags
  BY DEF QdecInit, Flags
<1>3. Counted = 0
  BY <1>1 DEF QdecInit, Counted
<1>. QED  BY <1>2, <1>3, <1>4 DEF QdecInit, QdecInv, QdecType, OverflowStands,
             TotalIsCounted,
          ReadIsHalfDone

LEMMA QdecStep == QdecInv /\ [QdecNext]_qdec_vars => QdecInv'
<1>. SUFFICES ASSUME QdecInv, [QdecNext]_qdec_vars PROVE QdecInv'
  OBVIOUS
<1>. USE QdecConstants DEF QdecConstants, QdecInv, qdec_hw, qdec_read
<1>t. Numbers /\ Flags /\ Reads
  BY DEF QdecType
<1>. USE <1>t
<1>c. Counted \in Int
  BY CountedInt DEF Numbers
<1>1. CASE UNCHANGED qdec_vars
  BY <1>1 DEF qdec_vars, OverflowStands, TotalIsCounted, ReadIsHalfDone,
     Counted,
              QdecType, Numbers, Flags, Reads
<1>2. ASSUME NEW step \in -1 .. 1, QdecSample(step) PROVE QdecInv'
  <2>1. Counted' = Counted
    BY <1>2 DEF QdecSample, Counted
  <2>2. QdecType'
    <3>1. Numbers'
      BY <1>2 DEF QdecSample, Room, Misleads, Numbers
    <3>2. Flags'
      BY <1>2 DEF QdecSample, Room, Misleads, Flags
    <3>3. Reads'
      BY <1>2 DEF QdecSample, Room, Misleads, Reads
    <3>. QED  BY <3>1, <3>2, <3>3 DEF QdecType
  <2>3. ~misled' => ~misled /\ ~Misleads(step)
    BY <1>2 DEF QdecSample
  <2>4. ~misled' => OverflowStands'
    <3>. SUFFICES ASSUME ~misled' PROVE OverflowStands'
      OBVIOUS
    <3>1. CASE Room(step) /\ accof
      <4>1. step = 0 /\ acc >= 0 /\ sample' = step
        BY <1>2, <2>3, <3>1 DEF QdecSample, Misleads, Numbers
      <4>2. acc' = acc /\ accof' = accof /\ clearing' = clearing
        BY <1>2, <3>1, <4>1 DEF QdecSample, Numbers
      <4>3. ~clearing /\ acc = AccTop
        BY <2>3, <3>1, <4>1 DEF OverflowStands, Numbers
      <4>. QED  BY <4>1, <4>2, <4>3 DEF OverflowStands
    <3>2. CASE Room(step) /\ ~accof
      BY <1>2, <3>2 DEF QdecSample, OverflowStands
    <3>3. CASE ~Room(step)
      <4>1. \/ step = 1 /\ acc = AccTop
            \/ step = -1 /\ acc = -AccTop - 1
        BY <3>3 DEF Room, Numbers
      <4>2. ~clearing
        BY <2>3, <4>1 DEF Misleads
      <4>. QED  BY <1>2, <3>3, <4>1, <4>2 DEF QdecSample, OverflowStands
    <3>. QED  BY <3>1, <3>2, <3>3
  <2>5. ~misled' => TotalIsCounted'
    BY <1>2, <1>c, <2>1, <2>3 DEF QdecSample, Room, Misleads, TotalIsCounted,
       Numbers
  <2>6. ~misled' /\ ~torn' => ReadIsHalfDone'
    BY <1>2, <2>1, <2>3 DEF QdecSample, ReadIsHalfDone, Numbers, Reads
  <2>. QED  BY <2>2, <2>4, <2>5, <2>6
<1>3. CASE DoubleTransition
  <2>1. Counted' = Counted
    BY <1>3 DEF DoubleTransition, Counted
  <2>2. QdecType'
    <3>1. Numbers'
      BY <1>3 DEF DoubleTransition, Numbers
    <3>2. Flags'
      BY <1>3 DEF DoubleTransition, Flags
    <3>3. Reads'
      BY <1>3 DEF DoubleTransition, Reads
    <3>. QED  BY <3>1, <3>2, <3>3 DEF QdecType
  <2>3. ~misled' => ~misled /\ accof' = accof /\ ~(accof /\ acc < 0)
    <3>. SUFFICES ASSUME ~misled'
                  PROVE  ~misled /\ accof' = accof /\ ~(accof /\ acc < 0)
      OBVIOUS
    <3>1. ~misled /\ acc_doubles # DoublesTop /\ ~(accof /\ acc < 0)
      BY <1>3 DEF DoubleTransition
    <3>2. acc_doubles < DoublesTop
      BY <3>1 DEF Numbers
    <3>. QED  BY <1>3, <3>1, <3>2 DEF DoubleTransition
  <2>4. ~misled' => OverflowStands'
    <3>1. sample' = 2 /\ acc' = acc /\ clearing' = clearing
      BY <1>3 DEF DoubleTransition
    <3>2. ~misled' /\ accof => acc = AccTop /\ ~clearing
      BY <2>3 DEF OverflowStands, Numbers
    <3>3. ~misled' => (accof' <=> accof)
      BY <2>3
    <3>. QED  BY <3>1, <3>2, <3>3 DEF OverflowStands
  <2>5. ~misled' => TotalIsCounted'
    BY <1>3, <1>c, <2>1, <2>3 DEF DoubleTransition, TotalIsCounted, Numbers
  <2>6. ~misled' /\ ~torn' => ReadIsHalfDone'
    BY <1>3, <2>1, <2>3 DEF DoubleTransition, ReadIsHalfDone, Numbers, Reads
  <2>. QED  BY <2>2, <2>4, <2>5, <2>6
<1>4. CASE QdecIsr
  <2>2. QdecType'
    <3>1. Numbers'
      BY <1>4 DEF QdecIsr, Numbers
    <3>2. Flags'
      BY <1>4 DEF QdecIsr, Flags
    <3>3. Reads'
      BY <1>4 DEF QdecIsr, Reads
    <3>. QED  BY <3>1, <3>2, <3>3 DEF QdecType
  <2>3. ~misled => Counted' = Counted + acc
    <3>1. CASE sample < 0
      <4>1. (AccTop + 1) * underflow' = (AccTop + 1) * underflow + (AccTop + 1)
        BY <1>4, <3>1, OneMore DEF QdecIsr, Numbers
      <4>2. overflow' = overflow /\ (~misled => acc = -AccTop - 1)
        BY <1>4, <3>1 DEF Numbers, QdecIsr, OverflowStands
      <4>3. AccTop * overflow \in Int /\ (AccTop + 1) * underflow \in Int
        BY DEF Numbers
      <4>. QED  BY <4>1, <4>2, <4>3 DEF Counted, Numbers
    <3>2. CASE ~(sample < 0)
      <4>1. AccTop * overflow' = AccTop * overflow + AccTop
        BY <1>4, <3>2, OneMore DEF QdecIsr, Numbers
      <4>2. underflow' = underflow /\ (~misled => acc = AccTop)
        BY <1>4, <3>2 DEF Numbers, QdecIsr, OverflowStands
      <4>3. AccTop * overflow \in Int /\ (AccTop + 1) * underflow \in Int
        BY DEF Numbers
      <4>. QED  BY <4>1, <4>2, <4>3 DEF Counted, Numbers
    <3>. QED  BY <3>1, <3>2
  <2>4. ~misled' => OverflowStands'
    BY <1>4 DEF QdecIsr, OverflowStands, Numbers
  <2>5. ~misled' => TotalIsCounted'
    BY <1>4, <1>c, <2>3 DEF QdecIsr, TotalIsCounted, Numbers
  <2>6. ~misled' /\ ~torn' => ReadIsHalfDone'
    BY <1>4 DEF QdecIsr, ReadIsHalfDone, Numbers, Reads
  <2>. QED  BY <2>2, <2>4, <2>5, <2>6
<1>5. CASE ClearAcc
  <2>1. Counted' = Counted
    BY <1>5 DEF ClearAcc, Counted
  <2>2. QdecType'
    <3>1. Numbers'
      BY <1>5 DEF ClearAcc, Numbers
    <3>2. Flags'
      BY <1>5 DEF ClearAcc, Flags
    <3>3. Reads'
      BY <1>5 DEF ClearAcc, Reads
    <3>. QED  BY <3>1, <3>2, <3>3 DEF QdecType
  <2>3. ~misled' => OverflowStands'
    BY <1>5 DEF ClearAcc, OverflowStands, Numbers, Flags
  <2>4. ~misled' => TotalIsCounted'
    BY <1>5, <1>c, <2>1 DEF ClearAcc, TotalIsCounted, Numbers, Flags
  <2>5. ~misled' /\ ~torn' => ReadIsHalfDone'
    BY <1>5, <1>c, <2>1 DEF ClearAcc, ReadIsHalfDone, TotalIsCounted, Numbers,
       Reads
  <2>. QED  BY <2>2, <2>3, <2>4, <2>5
<1>6. CASE QdecRead
  <2>1. Counted' = Counted
    BY <1>6 DEF QdecRead, Counted
  <2>2. QdecType'
    <3>1. Numbers'
      BY <1>6 DEF QdecRead, Numbers
    <3>2. Flags'
      BY <1>6 DEF QdecRead, Flags
    <3>3. Reads'
      BY <1>6 DEF QdecRead, Reads
    <3>. QED  BY <3>1, <3>2, <3>3 DEF QdecType
  <2>3. ~misled' => OverflowStands'
    BY <1>6 DEF QdecRead, OverflowStands, Numbers, Flags
  <2>4. ~misled' => TotalIsCounted'
    BY <1>6, <1>c, <2>1 DEF QdecRead, TotalIsCounted, Numbers, Flags
  <2>5. ~misled' /\ ~torn' => ReadIsHalfDone'
    BY <1>6, <1>c, <2>1 DEF QdecRead, ReadIsHalfDone, TotalIsCounted, Numbers,
       Reads
  <2>. QED  BY <2>2, <2>3, <2>4, <2>5
<1>7. CASE ReadAcc
  <2>1. Counted' = Counted
    BY <1>7 DEF ReadAcc, Counted
  <2>2. QdecType'
    <3>1. Numbers'
      BY <1>7 DEF ReadAcc, Numbers
    <3>2. Flags'
      BY <1>7 DEF ReadAcc, Flags
    <3>3. Reads'
      BY <1>7 DEF ReadAcc, Reads
    <3>. QED  BY <3>1, <3>2, <3>3 DEF QdecType
  <2>3. ~misled' => OverflowStands'
    BY <1>7 DEF ReadAcc, MainLoop, OverflowStands, Numbers, Flags
  <2>4. ~misled' => TotalIsCounted'
    BY <1>7, <1>c, <2>1 DEF ReadAcc, MainLoop, TotalIsCounted, Numbers, Flags
  <2>5. ~misled' /\ ~torn' => ReadIsHalfDone'
    BY <1>7, <1>c, <2>1 DEF ReadAcc, MainLoop, ReadIsHalfDone, TotalIsCounted,
       Numbers, Reads
  <2>. QED  BY <2>2, <2>3, <2>4, <2>5
<1>8. CASE ReadCounters
  <2>1. Counted' = Counted
    BY <1>8 DEF ReadCounters, Counted
  <2>2. QdecType'
    <3>1. Numbers'
      BY <1>8, <1>c DEF ReadCounters, Numbers
    <3>2. Flags'
      BY <1>8 DEF ReadCounters, Flags
    <3>3. Reads'
      BY <1>8 DEF ReadCounters, Reads
    <3>. QED  BY <3>1, <3>2, <3>3 DEF QdecType
  <2>3. ~misled' => OverflowStands'
    BY <1>8 DEF ReadCounters, OverflowStands, Numbers, Flags
  <2>4. ~misled' => TotalIsCounted'
    BY <1>8, <1>c, <2>1 DEF ReadCounters, TotalIsCounted, Numbers, Flags
  <2>5. ~misled' /\ ~torn' => ReadIsHalfDone'
    <3>1. CASE reads_left = {"ACC", "counters"}
      <4>1. reads_left' = {"ACC"}
        BY <1>8, <3>1 DEF ReadCounters
      <4>2. reads_left \notin {{"ACC"}, {"counters"}, {"return"}, {}}
        BY <3>1
      <4>3. ~misled /\ ~torn => value = 0
        BY <4>2 DEF ReadIsHalfDone
      <4>4. ~misled' /\ ~torn' => value' = Counted
        BY <1>8, <1>c, <4>3 DEF ReadCounters
      <4>. QED  BY <4>1, <4>4, <2>1 DEF ReadIsHalfDone
    <3>2. CASE reads_left = {"counters"}
      <4>1. reads_left' = {"return"} /\ counted_then' = counted_then
        BY <1>8, <3>2 DEF ReadCounters
      <4>2. ~misled' /\ ~torn' => value' = counted_then
        BY <1>8, <1>c, <3>2 DEF ReadCounters, ReadIsHalfDone, Numbers
      <4>. QED  BY <4>1, <4>2 DEF ReadIsHalfDone
    <3>. QED  BY <1>8, <3>1, <3>2 DEF ReadCounters, Reads
  <2>. QED  BY <2>2, <2>3, <2>4, <2>5
<1>9. CASE QdecReturn
  <2>1. Counted' = Counted
    BY <1>9 DEF QdecReturn, Counted
  <2>2. QdecType'
    <3>1. Numbers'
      BY <1>9 DEF QdecReturn, Numbers
    <3>2. Flags'
      BY <1>9 DEF QdecReturn, Flags
    <3>3. Reads'
      BY <1>9 DEF QdecReturn, Reads
    <3>. QED  BY <3>1, <3>2, <3>3 DEF QdecType
  <2>3. ~misled' => OverflowStands'
    BY <1>9 DEF QdecReturn, OverflowStands, Numbers, Flags
  <2>4. ~misled' => TotalIsCounted'
    BY <1>9, <1>c, <2>1 DEF QdecReturn, TotalIsCounted, Numbers, Flags
  <2>5. ~misled' /\ ~torn' => ReadIsHalfDone'
    BY <1>9, <1>c, <2>1 DEF QdecReturn, ReadIsHalfDone, TotalIsCounted,
       Numbers, Reads
  <2>. QED  BY <2>2, <2>3, <2>4, <2>5
<1>10. CASE QdecReadAndClear
  <2>1. Counted' = 0
    BY <1>10 DEF QdecReadAndClear, Counted
  <2>2. QdecType'
    <3>1. Numbers'
      BY <1>10 DEF QdecReadAndClear, Numbers
    <3>2. Flags'
      BY <1>10 DEF QdecReadAndClear, Flags
    <3>3. Reads'
      BY <1>10 DEF QdecReadAndClear, Reads
    <3>. QED  BY <3>1, <3>2, <3>3 DEF QdecType
  <2>3. ~misled' => OverflowStands'
    BY <1>10 DEF QdecReadAndClear, MainLoop, OverflowStands, Numbers, Flags
  <2>4. ~misled' => TotalIsCounted'
    BY <1>10, <1>c, <2>1 DEF QdecReadAndClear, MainLoop, TotalIsCounted,
       Numbers, Flags
  <2>5. ~misled' /\ ~torn' => ReadIsHalfDone'
    BY <1>10, <1>c, <2>1 DEF QdecReadAndClear, MainLoop, ReadIsHalfDone,
       TotalIsCounted, Numbers, Reads
  <2>. QED  BY <2>2, <2>3, <2>4, <2>5
<1>. QED  BY <1>1, <1>2, <1>3, <1>4, <1>5, <1>6, <1>7, <1>8, <1>9, <1>10
          DEF QdecNext

\* db_qdec_read returns every step counted since the last clear, unless the
\* interrupt cut the read in two or found something else than what ran over.
THEOREM EveryStepIsRead == QdecSpec => []ReadsEveryStep
<1>1. QdecInv => ReadsEveryStep
  BY DEF QdecInv, ReadIsHalfDone, ReadsEveryStep
<1>. QED  BY <1>1, QdecInitInv, QdecStep, PTL DEF QdecSpec

=============================================================================
