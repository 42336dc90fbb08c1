------------------------- MODULE TdmaClient_proofs -------------------------
(***************************************************************************)
(* Proofs about the client for any number of robots, any tables, any ring  *)
(* size, any time on air and any retry delays.                             *)
(***************************************************************************)
EXTENDS TdmaClient, TxDrain_proofs, TLAPS

-----------------------------------------------------------------------------
(* Type correctness. *)

LEMMA RemainderType ==
  ASSUME NEW n \in Int, NEW w \in Nat \ {0}
  PROVE  (n % w) \in Nat
  OBVIOUS

LEMMA DefaultTableType ==
  /\ DefaultTable \in Tables
  /\ DefaultTable.rx_duration = DefaultTable.frame_duration
  BY ClientConstants DEF ClientConstants, DefaultTable, Tables

LEMMA SyncedType ==
  ASSUME NEW t \in Tables, NEW frame_period \in Nat
  PROVE  /\ Synced(t, frame_period) \in Tables
         /\ frame_period \in 1 .. MaxFrame - 1 =>
              Synced(t, frame_period).rx_duration
                = Synced(t, frame_period).frame_duration
  BY DEF Synced, Tables

\* What a drained queue and the time since the last transmission become.
LEMMA DrainType ==
  ASSUME TypeOK, NEW c \in Clients, NEW n \in 0 .. Len(tx_ring_buffer[c]),
         NEW used,
         tx_ring_buffer' = [tx_ring_buffer EXCEPT ![c] = PutBack(@, n)],
         silence' = Stamped(c, used)
  PROVE  /\ tx_ring_buffer' \in [Clients -> Seq(Packets)]
         /\ \A d \in Clients : Len(tx_ring_buffer'[d]) <= TxCap
         /\ silence' \in [Clients -> 0 .. MaxDelayWithoutTx + 1]
<1>1. /\ PutBack(tx_ring_buffer[c], n) \in Seq(Packets)
      /\ Len(PutBack(tx_ring_buffer[c], n)) <= Len(tx_ring_buffer[c])
  BY PutBackType DEF TypeOK
<1>2. Len(PutBack(tx_ring_buffer[c], n)) <= TxCap
  <2>1. Len(tx_ring_buffer[c]) \in Nat /\ Len(tx_ring_buffer[c]) <= TxCap
    BY DEF TypeOK
  <2>2. Len(PutBack(tx_ring_buffer[c], n)) \in Nat /\ TxCap \in Nat
    BY <1>1, ClientConstants DEF ClientConstants
  <2>. QED  BY <1>1, <2>1, <2>2
<1>3. 0 \in 0 .. MaxDelayWithoutTx + 1
  BY ClientConstants DEF ClientConstants
<1>4. silence' \in [Clients -> 0 .. MaxDelayWithoutTx + 1]
  BY <1>3 DEF TypeOK, Stamped
<1>. QED  BY <1>1, <1>2, <1>4 DEF TypeOK

LEMMA TypeInit == Init => TypeOK
<1> SUFFICES ASSUME Init PROVE TypeOK
  OBVIOUS
<1>1. /\ DefaultTxStart \in Nat /\ DefaultFrame \in Nat /\ TxCap \in Nat
      /\ 0 \in 0 .. MaxDelayWithoutTx + 1
  BY ClientConstants DEF ClientConstants
<1>2. /\ tx_ring_buffer \in [Clients -> Seq(Packets)]
      /\ \A c \in Clients : Len(tx_ring_buffer[c]) <= TxCap
  BY <1>1 DEF Init
<1>. QED  BY <1>1, <1>2, DefaultTableType DEF Init, TypeOK

LEMMA TypeStep == TypeOK /\ [Next]_vars => TypeOK'
<1> SUFFICES ASSUME TypeOK, [Next]_vars PROVE TypeOK'
  OBVIOUS
<1>1. CASE Tick
  <2>1. /\ tx_timer' \in [Clients -> Nat]
        /\ rx_timer' \in [Clients -> Nat \cup {NoTimer}]
    BY <1>1 DEF Tick, TypeOK, Elapse, NoTimer
  <2>2. silence' \in [Clients -> 0 .. MaxDelayWithoutTx + 1]
    BY <1>1, ClientConstants DEF ClientConstants, Tick, TypeOK
  <2>. QED  BY <1>1, <2>1, <2>2 DEF Tick, TypeOK
<1>2. ASSUME NEW c \in Clients, NEW new \in AnnouncedTables,
             NEW next_period_start \in 1 .. new.frame_duration,
             UpdateTable(c, new, next_period_start)
      PROVE  TypeOK'
  <2>1. new \in Tables
    BY ClientTables DEF ClientTables
  <2>2. new.tx_start \in Nat /\ new.rx_start \in Nat /\ new.frame_duration \in Nat
    BY <2>1 DEF Tables
  <2>3. /\ next_period_start + new.tx_start \in Nat
        /\ next_period_start + new.rx_start \in Nat
    BY <2>2
  <2>. QED  BY <1>2, <2>1, <2>3 DEF UpdateTable, TypeOK
<1>3. ASSUME NEW c \in Clients, NEW frame_period \in AnnouncedFrames,
             SyncFrame(c, frame_period)
      PROVE  TypeOK'
  <2>1. table[c] \in Tables /\ frame_period \in Nat
    BY ClientTables DEF ClientTables, TypeOK
  <2>2. Synced(table[c], frame_period) \in Tables
    BY <2>1, SyncedType
  <2>3. AfterSync(table[c].tx_start) \in Nat /\ AfterSync(table[c].rx_start) \in Nat
    BY <2>1, ClientConstants DEF ClientConstants, AfterSync, Tables
  <2>. QED  BY <1>3, <2>2, <2>3 DEF SyncFrame, TypeOK
<1>4. ASSUME NEW c \in Clients, TimerTxRegistered(c)
      PROVE  TypeOK'
  <2>1. PICK n \in 0 .. Len(tx_ring_buffer[c]) :
          /\ tx_ring_buffer' = [tx_ring_buffer EXCEPT ![c] = PutBack(@, n)]
          /\ silence' = Stamped(c, tx_ring_buffer[c] # <<>> \/
                (silence[c] > MaxDelayWithoutTx /\ ~(tx_ring_buffer[c] # <<>>)))
          /\ radio' \in [Clients -> BOOLEAN]
    BY <1>4 DEF TimerTxRegistered, TypeOK
  <2>2. tx_timer' \in [Clients -> Nat]
    BY <1>4 DEF TimerTxRegistered, Rearmed, TypeOK, Tables
  <2>3. /\ tx_ring_buffer' \in [Clients -> Seq(Packets)]
        /\ \A d \in Clients : Len(tx_ring_buffer'[d]) <= TxCap
        /\ silence' \in [Clients -> 0 .. MaxDelayWithoutTx + 1]
    BY <2>1, DrainType
  <2>. QED  BY <1>4, <2>1, <2>2, <2>3 DEF TimerTxRegistered, TypeOK
<1>5. ASSUME NEW c \in Clients, NEW delay \in RetrySlots,
             TimerTxUnregistered(c, delay)
      PROVE  TypeOK'
  <2>1. delay \in Nat /\ 0 \in 0 .. MaxDelayWithoutTx + 1
    BY ClientConstants DEF ClientConstants
  <2>. QED  BY <1>5, <2>1 DEF TimerTxUnregistered, Rearmed, Stamped, TypeOK
<1>6. ASSUME NEW c \in Clients, TimerRxInterrupt(c)
      PROVE  TypeOK'
  <2>1. /\ rx_timer' \in [Clients -> Nat \cup {NoTimer}]
        /\ radio' \in [Clients -> BOOLEAN]
    <3>1. CASE ListenForGood(c)
      BY <3>1 DEF ListenForGood, TypeOK
    <3>2. CASE BeginRx(c)
      BY <3>2 DEF BeginRx, TypeOK, Tables
    <3>3. CASE EndRx(c)
      <4>1. table[c].frame_duration - table[c].rx_duration \in Int
        BY DEF TypeOK, Tables
      <4>2. (table[c].frame_duration - table[c].rx_duration) % WrapSlots \in Nat
        BY <4>1, ClientConstants, RemainderType DEF ClientConstants
      <4>. QED  BY <3>3, <4>2 DEF EndRx, TypeOK
    <3>. QED  BY <1>6, <3>1, <3>2, <3>3 DEF TimerRxInterrupt
  <2>. QED  BY <1>6, <2>1 DEF TimerRxInterrupt, TypeOK
<1>7. ASSUME NEW c \in Clients, NEW p \in Packets, Tx(c, p)
      PROVE  TypeOK'
  <2>1. /\ PutInto(tx_ring_buffer[c], p, TxCap) \in Seq(Packets)
        /\ Len(PutInto(tx_ring_buffer[c], p, TxCap)) <= TxCap
    BY PutIntoType, ClientConstants DEF ClientConstants, TypeOK
  <2>. QED  BY <1>7, <2>1 DEF Tx, TypeOK
<1>8. ASSUME NEW c \in Clients, Flush(c)
      PROVE  TypeOK'
  <2>1. PICK n \in 0 .. Len(tx_ring_buffer[c]) :
          /\ tx_ring_buffer' = [tx_ring_buffer EXCEPT ![c] = PutBack(@, n)]
          /\ silence' = Stamped(c, tx_ring_buffer[c] # <<>>)
          /\ radio' \in [Clients -> BOOLEAN]
    BY <1>8 DEF Flush, TypeOK
  <2>2. /\ tx_ring_buffer' \in [Clients -> Seq(Packets)]
        /\ \A d \in Clients : Len(tx_ring_buffer'[d]) <= TxCap
        /\ silence' \in [Clients -> 0 .. MaxDelayWithoutTx + 1]
    BY <2>1, DrainType
  <2>. QED  BY <1>8, <2>1, <2>2 DEF Flush, TypeOK
<1>9. ASSUME NEW c \in Clients, Empty(c)
      PROVE  TypeOK'
  <2>1. /\ tx_ring_buffer' \in [Clients -> Seq(Packets)]
        /\ \A d \in Clients : Len(tx_ring_buffer'[d]) <= TxCap
    BY <1>9, ClientConstants DEF ClientConstants, Empty, TypeOK
  <2>. QED  BY <1>9, <2>1 DEF Empty, TypeOK
<1>10. ASSUME NEW c \in Clients, NEW new \in AppTables, SetTable(c, new)
       PROVE  TypeOK'
  <2>1. new \in Tables
    BY ClientTables DEF ClientTables
  <2>. QED  BY <1>10, <2>1 DEF SetTable, TypeOK
<1>11. ASSUME NEW c \in Clients, Restart(c)
       PROVE  TypeOK'
  <2>1. /\ DefaultTxStart \in Nat /\ DefaultFrame \in Nat /\ TxCap \in Nat
        /\ 0 \in 0 .. MaxDelayWithoutTx + 1
    BY ClientConstants DEF ClientConstants
  <2>2. /\ tx_ring_buffer' \in [Clients -> Seq(Packets)]
        /\ \A d \in Clients : Len(tx_ring_buffer'[d]) <= TxCap
    BY <1>11, <2>1 DEF Restart, TypeOK
  <2>. QED  BY <1>11, <2>1, <2>2, DefaultTableType DEF Restart, TypeOK
<1>12. CASE UNCHANGED vars
  BY <1>12 DEF vars, TypeOK
<1>. QED
  BY <1>1, <1>2, <1>3, <1>4, <1>5, <1>6, <1>7, <1>8, <1>9, <1>10, <1>11, <1>12
  DEF Next, Receive, TimerTxInterrupt

(***************************************************************************)
(* Every variable keeps the range of its C field: in particular the        *)
(* transmit timer is always armed, and the queue never outgrows its ring.  *)
(***************************************************************************)
THEOREM ClientTyping == Spec => []TypeOK
  BY TypeInit, TypeStep, PTL DEF Spec

-----------------------------------------------------------------------------
(* The receiver. *)

\* A table listens for no longer than its frame, and pauses for less than
\* MaxFrame.
WindowFits(t) == t.frame_duration - t.rx_duration \in 0 .. MaxFrame

WindowsFit == \A c \in Clients : WindowFits(table[c])

LEMMA DefaultFits == WindowFits(DefaultTable)
  BY ClientConstants DEF ClientConstants, DefaultTable, WindowFits

LEMMA SyncedFits ==
  ASSUME NEW t \in Tables, WindowFits(t), NEW frame_period \in Nat
  PROVE  WindowFits(Synced(t, frame_period))
<1>1. CASE frame_period \in 1 .. MaxFrame - 1
  BY <1>1, ClientConstants DEF ClientConstants, Synced, Tables, WindowFits
<1>2. CASE frame_period \notin 1 .. MaxFrame - 1
  BY <1>2 DEF Synced
<1>. QED  BY <1>1, <1>2

LEMMA WindowsFitStep ==
  ASSUME \A t \in AnnouncedTables \cup AppTables : WindowFits(t)
  PROVE  TypeOK /\ WindowsFit /\ [Next]_vars => WindowsFit'
<1> SUFFICES ASSUME TypeOK, WindowsFit, [Next]_vars PROVE WindowsFit'
  OBVIOUS
<1>1. ASSUME NEW c \in Clients, NEW t, WindowFits(t),
             table' = [table EXCEPT ![c] = t]
      PROVE  WindowsFit'
  BY <1>1 DEF TypeOK, WindowsFit
<1>2. ASSUME NEW c \in Clients, NEW new \in AnnouncedTables, NEW start,
             UpdateTable(c, new, start)
      PROVE  WindowsFit'
  BY <1>1, <1>2 DEF UpdateTable
<1>3. ASSUME NEW c \in Clients, NEW frame_period \in AnnouncedFrames,
             SyncFrame(c, frame_period)
      PROVE  WindowsFit'
  <2>1. table[c] \in Tables /\ frame_period \in Nat /\ WindowFits(table[c])
    BY ClientTables DEF ClientTables, TypeOK, WindowsFit
  <2>2. WindowFits(Synced(table[c], frame_period))
    BY <2>1, SyncedFits
  <2>3. table' = [table EXCEPT ![c] = Synced(table[c], frame_period)]
    BY <1>3 DEF SyncFrame
  <2>. QED  BY <1>1, <2>2, <2>3
<1>4. ASSUME NEW c \in Clients, NEW new \in AppTables, SetTable(c, new)
      PROVE  WindowsFit'
  BY <1>1, <1>4 DEF SetTable
<1>5. ASSUME NEW c \in Clients, Restart(c) PROVE WindowsFit'
  BY <1>1, <1>5, DefaultFits DEF Restart
<1>6. CASE UNCHANGED table
  BY <1>6 DEF WindowsFit
<1>7. \/ UNCHANGED table
      \/ \E c \in Clients :
           \/ Receive(c) \/ Restart(c)
           \/ \E new \in AppTables : SetTable(c, new)
  BY DEF Next, vars, Tick, TimerTxInterrupt, TimerTxRegistered,
     TimerTxUnregistered, TimerRxInterrupt, Tx, Flush, Empty
<1>. QED
  BY <1>2, <1>3, <1>4, <1>5, <1>6, <1>7 DEF Receive

\* What keeps a receiver that is off timed: its entries stay, or it is on.
LEMMA TurnedOn ==
  ASSUME TypeOK, OffIsTimed, NEW c \in Clients, NEW flag, NEW timer,
         rx_flag' = [rx_flag EXCEPT ![c] = flag],
         rx_timer' = [rx_timer EXCEPT ![c] = timer],
         radio' = [radio EXCEPT ![c] = TRUE]
  PROVE  OffIsTimed'
  BY DEF TypeOK, OffIsTimed

\* The remainder of a pause that is no longer than m.
LEMMA RemainderAtMost ==
  ASSUME NEW m \in Nat, NEW n \in 0 .. m, NEW w \in Nat \ {0}
  PROVE  n % w \in 0 .. m
  OBVIOUS

LEMMA OffIsTimedStep ==
  TypeOK /\ WindowsFit /\ OffIsTimed /\ [Next]_vars => OffIsTimed'
<1> SUFFICES ASSUME TypeOK, WindowsFit, OffIsTimed, [Next]_vars
             PROVE  OffIsTimed'
  OBVIOUS
<1>1. CASE Tick
  <2>1. MaxFrame \in Nat
    BY ClientConstants DEF ClientConstants
  <2>2. ASSUME NEW c \in Clients, ~radio[c]
        PROVE  rx_timer'[c] \in 0 .. MaxFrame
    <3>1. rx_timer[c] \in 0 .. MaxFrame /\ rx_timer[c] # 0
      BY <1>1, <2>2 DEF Tick, OffIsTimed
    <3>2. rx_timer'[c] = rx_timer[c] - 1
      BY <1>1, <3>1 DEF Tick, Elapse, NoTimer
    <3>. QED  BY <2>1, <3>1, <3>2
  <2>. QED  BY <1>1, <2>2 DEF Tick, OffIsTimed
<1>2. ASSUME NEW c \in Clients, Receive(c) PROVE OffIsTimed'
  <2>1. ASSUME NEW new, NEW start, UpdateTable(c, new, start)
        PROVE  OffIsTimed'
    BY <2>1 DEF UpdateTable, TypeOK, OffIsTimed
  <2>2. ASSUME NEW frame_period, SyncFrame(c, frame_period)
        PROVE  OffIsTimed'
    BY <2>2, TurnedOn DEF SyncFrame
  <2>. QED  BY <1>2, <2>1, <2>2 DEF Receive
<1>3. ASSUME NEW c \in Clients, TimerTxRegistered(c) \/ Flush(c)
      PROVE  OffIsTimed'
  <2>1. \A d \in Clients : radio[d] => radio'[d]
    BY <1>3 DEF TimerTxRegistered, Flush, TypeOK
  <2>2. rx_flag' = rx_flag /\ rx_timer' = rx_timer
    BY <1>3 DEF TimerTxRegistered, Flush
  <2>. QED  BY <2>1, <2>2 DEF OffIsTimed
<1>4. ASSUME NEW c \in Clients, NEW delay, TimerTxUnregistered(c, delay)
      PROVE  OffIsTimed'
  BY <1>4 DEF TimerTxUnregistered, TypeOK, OffIsTimed
<1>5. ASSUME NEW c \in Clients, TimerRxInterrupt(c) PROVE OffIsTimed'
  <2>1. CASE ListenForGood(c) \/ BeginRx(c)
    BY <1>5, <2>1 DEF ListenForGood, BeginRx, TimerRxInterrupt, TypeOK,
       OffIsTimed
  <2>2. CASE EndRx(c)
    <3> DEFINE idle == (table[c].frame_duration - table[c].rx_duration) % WrapSlots
    <3>1. idle \in 0 .. MaxFrame
      <4>1. table[c].frame_duration - table[c].rx_duration \in 0 .. MaxFrame
        BY DEF WindowsFit, WindowFits
      <4>. QED  BY <4>1, ClientConstants, RemainderAtMost DEF ClientConstants
    <3>2. /\ rx_timer' = [rx_timer EXCEPT ![c] = idle]
          /\ radio' = [radio EXCEPT ![c] = FALSE]
          /\ rx_flag[c] = "RX_ON" /\ rx_flag' = rx_flag
      BY <1>5, <2>2 DEF EndRx, TimerRxInterrupt
    <3> HIDE DEF idle
    <3>. QED  BY <3>1, <3>2 DEF TypeOK, OffIsTimed
  <2>. QED  BY <1>5, <2>1, <2>2 DEF TimerRxInterrupt
<1>6. ASSUME NEW c \in Clients,
             \/ \E p \in Packets : Tx(c, p)
             \/ Empty(c)
             \/ \E new \in AppTables : SetTable(c, new)
      PROVE  OffIsTimed'
  BY <1>6 DEF Tx, Empty, SetTable, OffIsTimed
<1>7. ASSUME NEW c \in Clients, Restart(c) PROVE OffIsTimed'
  BY <1>7, TurnedOn DEF Restart
<1>8. CASE UNCHANGED vars
  BY <1>8 DEF vars, OffIsTimed
<1>. QED
  BY <1>1, <1>2, <1>3, <1>4, <1>5, <1>6, <1>7, <1>8 DEF Next, TimerTxInterrupt

(***************************************************************************)
(* A receiver that is off has an interrupt armed that looks at it again    *)
(* within a frame, whatever tables, frames and transmissions come in       *)
(* between, if no table listens for longer than its frame.                 *)
(***************************************************************************)
THEOREM OffIsAlwaysTimed ==
  (\A t \in AnnouncedTables \cup AppTables : WindowFits(t)) =>
    (Spec => []OffIsTimed)
<1> SUFFICES ASSUME \A t \in AnnouncedTables \cup AppTables : WindowFits(t)
             PROVE  Spec => []OffIsTimed
  OBVIOUS
<1>1. Init => OffIsTimed /\ WindowsFit
  BY DefaultFits DEF Init, OffIsTimed, WindowsFit
<1>2. TypeOK /\ WindowsFit /\ [Next]_vars => WindowsFit'
  BY WindowsFitStep
<1>. QED
  BY <1>1, <1>2, TypeInit, TypeStep, OffIsTimedStep, PTL DEF Spec

\* Only a table of the application can end a period of reception.
WindowIsApps ==
  \A c \in Clients :
    /\ rx_flag[c] = "RX_ON"
    /\ table[c].rx_duration # table[c].frame_duration
    => table[c] \in AppTables

LEMMA WindowStep ==
  ASSUME AnnouncedFrames \subseteq 1 .. MaxFrame - 1
  PROVE  TypeOK /\ WindowIsApps /\ [Next]_vars => WindowIsApps'
<1> SUFFICES ASSUME TypeOK, WindowIsApps, [Next]_vars PROVE WindowIsApps'
  OBVIOUS
<1>1. ASSUME NEW c \in Clients, NEW new, NEW start, UpdateTable(c, new, start)
      PROVE  WindowIsApps'
  BY <1>1 DEF UpdateTable, TypeOK, WindowIsApps
<1>2. ASSUME NEW c \in Clients, NEW frame_period \in AnnouncedFrames,
             SyncFrame(c, frame_period)
      PROVE  WindowIsApps'
  <2>1. /\ table[c] \in Tables /\ frame_period \in Nat
        /\ frame_period \in 1 .. MaxFrame - 1
    BY ClientTables DEF ClientTables, TypeOK
  <2>2. Synced(table[c], frame_period).rx_duration
          = Synced(table[c], frame_period).frame_duration
    BY <2>1, SyncedType
  <2>. QED  BY <1>2, <2>2 DEF SyncFrame, TypeOK, WindowIsApps
<1>3. ASSUME NEW c \in Clients, NEW new \in AppTables, SetTable(c, new)
      PROVE  WindowIsApps'
  BY <1>3 DEF SetTable, TypeOK, WindowIsApps
<1>4. ASSUME NEW c \in Clients, Restart(c) PROVE WindowIsApps'
  BY <1>4, DefaultTableType DEF Restart, TypeOK, WindowIsApps
<1>5. CASE UNCHANGED <<rx_flag, table>>
  BY <1>5 DEF WindowIsApps
<1>6. UNCHANGED vars => UNCHANGED <<rx_flag, table>>
  BY DEF vars
<1>7. Tick => UNCHANGED <<rx_flag, table>>
  BY DEF Tick
<1>8. ASSUME NEW c \in Clients,
             \/ TimerTxInterrupt(c) \/ TimerRxInterrupt(c)
             \/ \E p \in Packets : Tx(c, p)
             \/ Flush(c) \/ Empty(c)
      PROVE  UNCHANGED <<rx_flag, table>>
  BY <1>8 DEF TimerTxInterrupt, TimerTxRegistered, TimerTxUnregistered,
     TimerRxInterrupt, Tx, Flush, Empty
<1>. QED
  BY <1>1, <1>2, <1>3, <1>4, <1>5, <1>6, <1>7, <1>8 DEF Next, Receive

LEMMA OffByApps ==
  TypeOK /\ WindowIsApps /\ [Next]_vars =>
    \A c \in Clients : radio[c] /\ ~radio'[c] => table[c] \in AppTables
<1> SUFFICES ASSUME TypeOK, WindowIsApps, [Next]_vars,
                    NEW d \in Clients, radio[d], ~radio'[d]
             PROVE  table[d] \in AppTables
  OBVIOUS
<1>1. radio' # radio
  OBVIOUS
<1>2. ~Tick /\ ~UNCHANGED vars
  BY <1>1 DEF Tick, vars
<1>3. ASSUME NEW c \in Clients, Receive(c) PROVE FALSE
  BY <1>1, <1>3 DEF Receive, UpdateTable, SyncFrame, TypeOK
<1>4. ASSUME NEW c \in Clients, TimerTxInterrupt(c) \/ Flush(c) PROVE FALSE
  BY <1>4 DEF TimerTxInterrupt, TimerTxRegistered, TimerTxUnregistered, Flush,
     TypeOK
<1>5. ASSUME NEW c \in Clients, TimerRxInterrupt(c)
      PROVE  table[d] \in AppTables
  BY <1>5 DEF TimerRxInterrupt, ListenForGood, BeginRx, EndRx, WindowIsApps,
     TypeOK
<1>6. ASSUME NEW c \in Clients,
             \/ \E p \in Packets : Tx(c, p)
             \/ Empty(c)
             \/ \E new \in AppTables : SetTable(c, new)
      PROVE  FALSE
  BY <1>1, <1>6 DEF Tx, Empty, SetTable
<1>7. ASSUME NEW c \in Clients, Restart(c) PROVE FALSE
  BY <1>7 DEF Restart, TypeOK
<1>. QED
  BY <1>2, <1>3, <1>4, <1>5, <1>6, <1>7 DEF Next

(***************************************************************************)
(* As long as the gateway announces frames shorter than MaxFrame, only a   *)
(* receive window the application asked for switches the receiver off:     *)
(* rx_duration of an older frame never does.                               *)
(***************************************************************************)
THEOREM AlwaysOnMode ==
  AnnouncedFrames \subseteq 1 .. MaxFrame - 1 => (Spec => ReceiverStaysOn)
<1> SUFFICES ASSUME AnnouncedFrames \subseteq 1 .. MaxFrame - 1
             PROVE  Spec => ReceiverStaysOn
  OBVIOUS
<1>1. Init => WindowIsApps
  BY DefaultTableType DEF Init, WindowIsApps
<1>2. TypeOK /\ WindowIsApps /\ [Next]_vars => WindowIsApps'
  BY WindowStep
<1>3. TypeOK /\ WindowIsApps /\ [Next]_vars =>
        [\A c \in Clients : radio[c] /\ ~radio'[c] => table[c] \in AppTables]_vars
  BY OffByApps
<1>. QED
  BY <1>1, <1>2, <1>3, TypeInit, TypeStep, PTL DEF Spec, ReceiverStaysOn

-----------------------------------------------------------------------------
(* What is sent. *)

LEMMA WaitsType ==
  ASSUME TypeOK, NEW c \in Clients
  PROVE  /\ Len(tx_ring_buffer[c]) \in Nat
         /\ Len(Waits(c)) = Len(tx_ring_buffer[c])
         /\ \A k \in 1 .. Len(tx_ring_buffer[c]) :
              Waits(c)[k] \in 0 .. 255 /\ tx_ring_buffer[c][k] \in Packets
<1>1. Len(tx_ring_buffer[c]) \in Nat /\ tx_ring_buffer[c] \in Seq(Packets)
  BY DEF TypeOK
<1>2. \A k \in 1 .. Len(tx_ring_buffer[c]) : tx_ring_buffer[c][k] \in Packets
  BY <1>1
<1>3. Len(Waits(c)) = Len(tx_ring_buffer[c])
  BY <1>1 DEF Waits
<1>. QED  BY <1>1, <1>2, <1>3, ClientPackets DEF Waits, ClientPackets

LEMMA LengthsAreNats == \A x \in 0 .. 255 : x \in Nat
  OBVIOUS

\* The first packet takes its own time.
LEMMA FirstPacketTime ==
  ASSUME TypeOK, NEW c \in Clients, tx_ring_buffer[c] # <<>>
  PROVE  /\ Len(tx_ring_buffer[c]) \in Nat \ {0}
         /\ AirTime(Waits(c), 1) = TxTime(tx_ring_buffer[c][1].len)
         /\ AirTime(Waits(c), 1) \in Nat
<1>1. Len(tx_ring_buffer[c]) \in Nat \ {0}
  BY DEF TypeOK
<1>2. PICK b \in Nat : b = Waits(c)[1] /\ b = tx_ring_buffer[c][1].len
  <2>1. 1 \in 1 .. Len(tx_ring_buffer[c])
    BY <1>1
  <2>2. Waits(c)[1] \in 0 .. 255
    BY <2>1, WaitsType
  <2>3. Waits(c)[1] = tx_ring_buffer[c][1].len
    BY <2>1 DEF Waits
  <2>4. Waits(c)[1] \in Nat
    BY <2>2, LengthsAreNats, Zenon
  <2>. QED  BY <2>3, <2>4
<1>3. TxTime(b) \in Nat
  BY TxTimeNat
<1>4. AirTime(Waits(c), 1) = TxTime(b)
  <2>1. /\ AirTime(Waits(c), 0) = 0
        /\ AirTime(Waits(c), 0 + 1) = AirTime(Waits(c), 0) + TxTime(Waits(c)[0 + 1])
    BY AirTimeStep
  <2>2. b = Waits(c)[1]
    BY <1>2
  <2>. QED  BY <1>3, <2>1, <2>2
<1>. QED  BY <1>1, <1>2, <1>3, <1>4

\* A queue is tried in vain if and only if its oldest packet does not fit.
LEMMA SomethingSent ==
  ASSUME TypeOK, NEW c \in Clients, NEW n \in 0 .. Len(tx_ring_buffer[c]),
         NEW budget \in Nat, Sends(c, n, budget), tx_ring_buffer[c] # <<>>
  PROVE  /\ n = 0 <=> TooLong(c, budget)
         /\ FirstPackets(c, n) = <<>> <=> n = 0
<1>1. PICK size \in Nat \ {0} : size = Len(tx_ring_buffer[c])
  BY FirstPacketTime
<1>2. PICK t \in Nat : /\ t = AirTime(Waits(c), 1)
                      /\ t = TxTime(tx_ring_buffer[c][1].len)
  BY FirstPacketTime
<1>3. TooLong(c, budget) <=> t >= budget
  BY <1>2 DEF TooLong
<1>4. ASSUME n = 0 PROVE t >= budget
  <2>1. n < Len(Waits(c)) => 0 + AirTime(Waits(c), n + 1) >= budget
    BY DEF Sends, SendsExactly, Waits
  <2>2. 0 < Len(Waits(c))
    BY <1>1, WaitsType
  <2>. QED  BY <1>2, <1>4, <2>1, <2>2
<1>5. ASSUME n # 0 PROVE t < budget
  <2>1. 1 \in 1 .. n
    BY <1>1, <1>5
  <2>2. 0 + AirTime(Waits(c), 1) < budget
    BY <2>1 DEF Sends, SendsExactly, Waits
  <2>. QED  BY <1>2, <2>2
<1>6. FirstPackets(c, n) = <<>> <=> n = 0
  <2>1. CASE n = 0
    BY <2>1 DEF FirstPackets
  <2>2. CASE n # 0
    <3>1. 1 \in DOMAIN FirstPackets(c, n)
      BY <1>1, <2>2 DEF FirstPackets
    <3>. QED  BY <2>2, <3>1
  <2>. QED  BY <2>1, <2>2
<1>. QED  BY <1>2, <1>3, <1>4, <1>5, <1>6

SaidByAll == DOMAIN said = Clients

LEMMA SaidByAllStep == SaidByAll /\ [Next]_vars => SaidByAll'
  BY DEF SaidByAll, Next, vars, Tick, Receive, UpdateTable, SyncFrame,
     TimerTxInterrupt, TimerTxRegistered, TimerTxUnregistered,
     TimerRxInterrupt, Tx, Flush, Empty, SetTable, Restart

StampsSent(d) ==
  \/ said'[d] # <<>>
  \/ Restart(d)
  \/ TimerTxRegistered(d) /\ TooLong(d, table[d].tx_duration * SlotUs)
  \/ Flush(d) /\ TooLong(d, FlushUs)

LEMMA BudgetType ==
  ASSUME TypeOK, NEW c \in Clients
  PROVE  table[c].tx_duration * SlotUs \in Nat
<1>1. PICK n \in Nat : n = table[c].tx_duration
  BY DEF TypeOK, Tables
<1>. QED  BY <1>1 DEF SlotUs

LEMMA StampIsReal ==
  ASSUME TypeOK, SaidByAll, [Next]_vars,
         NEW d \in Clients, silence'[d] < silence[d]
  PROVE  StampsSent(d)
<1> SUFFICES ASSUME ~ Restart(d),
                    TimerTxRegistered(d) =>
                      ~ TooLong(d, table[d].tx_duration * SlotUs),
                    Flush(d) => ~ TooLong(d, FlushUs)
             PROVE  said'[d] # <<>>
  BY DEF StampsSent
<1>0. silence[d] \in Nat
  BY ClientConstants DEF ClientConstants, TypeOK
<1>1. ~ UNCHANGED silence
  BY <1>0
<1>2. ~ Tick
  BY <1>0 DEF Tick
<1>3. ASSUME NEW c \in Clients, TimerTxRegistered(c)
      PROVE  said'[d] # <<>>
  <2> DEFINE tried == tx_ring_buffer[c] # <<>>
             overdue == silence[c] > MaxDelayWithoutTx /\ ~tried
  <2>1. PICK n \in 0 .. Len(tx_ring_buffer[c]) :
          /\ Sends(c, n, table[c].tx_duration * SlotUs)
          /\ said' = [said EXCEPT ![c] =
               IF overdue THEN <<KeepAlive>> ELSE FirstPackets(c, n)]
          /\ silence' = Stamped(c, tried \/ overdue)
    BY <1>3 DEF TimerTxRegistered
  <2> HIDE DEF overdue
  <2>2. d = c /\ (tried \/ overdue)
    BY <1>0, <2>1 DEF Stamped, TypeOK
  <2>3. CASE overdue
    BY <2>1, <2>2, <2>3 DEF SaidByAll
  <2>4. CASE ~ overdue
    <3>1. table[c].tx_duration * SlotUs \in Nat
      BY BudgetType
    <3>2. FirstPackets(c, n) # <<>>
      BY <1>3, <2>1, <2>2, <2>4, <3>1, SomethingSent
    <3>. QED  BY <2>1, <2>2, <2>4, <3>2 DEF SaidByAll
  <2>. QED  BY <2>3, <2>4
<1>4. ASSUME NEW c \in Clients, NEW delay, TimerTxUnregistered(c, delay)
      PROVE  said'[d] # <<>>
  <2>1. d = c
    BY <1>0, <1>4 DEF TimerTxUnregistered, Stamped, TypeOK
  <2>. QED  BY <1>4, <2>1 DEF TimerTxUnregistered, SaidByAll
<1>5. ASSUME NEW c \in Clients, Flush(c)
      PROVE  said'[d] # <<>>
  <2>1. PICK n \in 0 .. Len(tx_ring_buffer[c]) :
          /\ Sends(c, n, FlushUs)
          /\ said' = [said EXCEPT ![c] = FirstPackets(c, n)]
          /\ silence' = Stamped(c, tx_ring_buffer[c] # <<>>)
    BY <1>5 DEF Flush
  <2>2. d = c /\ tx_ring_buffer[c] # <<>>
    BY <1>0, <2>1 DEF Stamped, TypeOK
  <2>3. FirstPackets(c, n) # <<>>
    BY <1>5, <2>1, <2>2, SomethingSent DEF FlushUs
  <2>. QED  BY <2>1, <2>2, <2>3 DEF SaidByAll
<1>6. ASSUME NEW c \in Clients, Restart(c) PROVE FALSE
  <2>1. c = d
    BY <1>0, <1>6 DEF Restart, TypeOK
  <2>. QED  BY <1>6, <2>1
<1>. QED
  BY <1>1, <1>2, <1>3, <1>4, <1>5, <1>6
  DEF Next, vars, Receive, UpdateTable, SyncFrame, TimerTxInterrupt,
      TimerRxInterrupt, Tx, Empty, SetTable

(***************************************************************************)
(* last_tx_packet_timestamp, on which the keep-alive depends, is "when the *)
(* last packet was sent" (tdma_client_default.c:54) in every case but one: *)
(* a turn or a flush whose first packet does not fit the time it has sends *)
(* nothing, and moves the timestamp, too (:305).                           *)
(***************************************************************************)
THEOREM StampsAreReal ==
  Spec => [][\A c \in Clients : silence'[c] < silence[c] => StampsSent(c)]_vars
<1>1. Init => SaidByAll
  BY DEF Init, SaidByAll
<1>2. TypeOK /\ SaidByAll /\ [Next]_vars =>
        [\A c \in Clients : silence'[c] < silence[c] => StampsSent(c)]_vars
  BY StampIsReal
<1>. QED
  BY <1>1, <1>2, TypeInit, TypeStep, SaidByAllStep, PTL DEF Spec

(***************************************************************************)
(* And the exception is real: such a turn sends nothing and counts as a    *)
(* transmission, so that the keep-alive is never overdue.                  *)
(***************************************************************************)
THEOREM LongPacketsSilence ==
  ASSUME TypeOK, SaidByAll, NEW c \in Clients, TimerTxRegistered(c),
         TooLong(c, table[c].tx_duration * SlotUs)
  PROVE  said'[c] = <<>> /\ silence'[c] = 0
<1>1. tx_ring_buffer[c] # <<>>
  BY DEF TooLong
<1>2. PICK n \in 0 .. Len(tx_ring_buffer[c]) :
        /\ Sends(c, n, table[c].tx_duration * SlotUs)
        /\ said' = [said EXCEPT ![c] = FirstPackets(c, n)]
        /\ silence' = Stamped(c, TRUE)
  BY <1>1 DEF TimerTxRegistered
<1>3. table[c].tx_duration * SlotUs \in Nat
  BY BudgetType
<1>4. FirstPackets(c, n) = <<>>
  BY <1>1, <1>2, <1>3, SomethingSent
<1>. QED  BY <1>2, <1>4 DEF Stamped, TypeOK, SaidByAll

\* What is missing from a smaller number.
LEMMA Rest ==
  ASSUME NEW size \in Nat, NEW n \in Nat, n < size
  PROVE  \E rest \in Nat : (n + 1) + rest = size
<1>1. size - (n + 1) \in Nat /\ (n + 1) + (size - (n + 1)) = size
  OBVIOUS
<1>. QED  BY <1>1

(***************************************************************************)
(* A flush empties the queue for which its 50 ms are long enough, for any  *)
(* packets, ring and time on air.                                          *)
(***************************************************************************)
THEOREM FlushesSendAll == Spec => FlushSendsAll
<1>1. ASSUME TypeOK, NEW c \in Clients, Flush(c), TimeForAll(c) < FlushUs
      PROVE  tx_ring_buffer'[c] = <<>>
  <2>1. PICK n \in 0 .. Len(tx_ring_buffer[c]) :
          /\ Sends(c, n, FlushUs)
          /\ tx_ring_buffer' = [tx_ring_buffer EXCEPT ![c] = PutBack(@, n)]
    BY <1>1 DEF Flush
  <2>2. PICK size \in Nat : size = Len(tx_ring_buffer[c])
    BY <1>1, WaitsType
  <2>3. n = size
    <3> SUFFICES ASSUME n < size PROVE FALSE
      BY <2>2
    <3>1. n < Len(Waits(c)) => 0 + AirTime(Waits(c), n + 1) >= FlushUs
      BY <2>1 DEF Sends, SendsExactly
    <3>2. PICK rest \in Nat : (n + 1) + rest = size /\ n + 1 \in Nat
      <4>1. n \in Nat /\ n + 1 \in Nat
        BY <2>2
      <4>. QED  BY <4>1, Rest
    <3>3. \A k \in 1 .. (n + 1) + rest : Waits(c)[k] \in Nat
      BY <1>1, <2>2, <3>2, WaitsType, LengthsAreNats
    <3>4. /\ AirTime(Waits(c), n + 1) \in Nat
          /\ AirTime(Waits(c), (n + 1) + rest) \in Nat
          /\ AirTime(Waits(c), n + 1) <= AirTime(Waits(c), (n + 1) + rest)
      BY <3>2, <3>3, AirTimeGrows
    <3>5. AirTime(Waits(c), (n + 1) + rest) < FlushUs
      BY <1>1, <2>2, <3>2 DEF TimeForAll
    <3>6. n < Len(Waits(c))
      BY <1>1, <2>2, WaitsType
    <3>. QED  BY <3>1, <3>4, <3>5, <3>6 DEF FlushUs
  <2>. QED  BY <1>1, <2>1, <2>2, <2>3 DEF PutBack, TypeOK
<1>2. TypeOK /\ [Next]_vars =>
        [\A c \in Clients :
           Flush(c) /\ TimeForAll(c) < FlushUs => tx_ring_buffer'[c] = <<>>]_vars
  BY <1>1
<1>. QED  BY <1>2, TypeInit, TypeStep, PTL DEF Spec, FlushSendsAll

=============================================================================
