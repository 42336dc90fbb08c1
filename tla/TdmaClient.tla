----------------------------- MODULE TdmaClient -----------------------------
(***************************************************************************)
(* The robots' side of the TDMA protocol                                   *)
(* (drv/tdma_client/tdma_client_default.c), for any number of robots that  *)
(* do not know of each other.                                              *)
(*                                                                         *)
(* Time is counted in slots of TIME_SLOT_DURATION_US: a timer is the       *)
(* number of slots left before its interrupt, which is taken in the slot   *)
(* where the number is 0.  What happens inside one slot (the time on air   *)
(* of packets) is counted in microseconds, as in TxDrain.  An action is an *)
(* interrupt handler or an API call, run to completion.                    *)
(***************************************************************************)
EXTENDS Integers, TxDrain

CONSTANTS
  Clients,
  Packets,            \* what the application may queue: records with a len
  TxCap,              \* TDMA_CLIENT_RING_BUFFER_SIZE
  DefaultFrame,       \* TDMA_CLIENT_DEFAULT_FRAME_DURATION, in slots
  DefaultTxStart,     \* TDMA_CLIENT_DEFAULT_TX_START
  DefaultTxDuration,  \* TDMA_CLIENT_DEFAULT_TX_DURATION
  MaxDelayWithoutTx,  \* TDMA_CLIENT_MAX_DELAY_WITHOUT_TX
  RetrySlots,         \* the delays _get_random_delay_us may return
  MaxFrame,           \* a sync frame must announce less than this: 500 ms
  WrapSlots,          \* 2^32 microseconds: how far a delay that underflows
                      \*   sets a timer
  AnnouncedTables,    \* the tables update packets may carry
  AnnouncedFrames,    \* the frame lengths sync packets may carry
  AppTables           \* the tables the application may set

ASSUME ClientConstants ==
  /\ TxCap \in Nat \ {0}
  /\ DefaultFrame \in Nat \ {0} /\ DefaultTxStart \in Nat \ {0}
  /\ DefaultTxDuration \in Nat \ {0}
  /\ MaxDelayWithoutTx \in Nat \ {0}
  /\ RetrySlots \subseteq Nat \ {0} /\ RetrySlots # {}
  /\ MaxFrame \in Nat \ {0} /\ WrapSlots \in Nat \ {0}

Tables ==
  [frame_duration : Nat, rx_start : Nat, rx_duration : Nat,
   tx_start : Nat, tx_duration : Nat]

ASSUME ClientTables ==
  /\ AnnouncedTables \subseteq Tables /\ AppTables \subseteq Tables
  /\ AnnouncedFrames \subseteq Nat
ASSUME ClientPackets == \A p \in Packets : p.len \in 0 .. 255

SlotUs == 2500   \* TIME_SLOT_DURATION_US
FlushUs == 50000   \* the time db_tdma_client_flush gives the queue

VARIABLES
  registration_flag,   \* is the client registered with the gateway?
  rx_flag,             \* RX_WAIT or RX_ON
  table,               \* tdma_client_table of each client
  tx_timer, rx_timer,  \* slots until the interrupts, NoTimer if not armed
  silence,             \* slots since last_tx_packet_timestamp (*)
  tx_ring_buffer,      \* packets to send, oldest first
  radio,               \* is the receiver on?
  said                 \* what the last step of a client transmitted

\* (*) counted up to MaxDelayWithoutTx + 1, past which nothing changes.

vars == <<registration_flag, rx_flag, table, tx_timer, rx_timer, silence,
          tx_ring_buffer, radio, said>>

NoTimer == -1

DefaultTable ==
  [frame_duration |-> DefaultFrame,
   rx_start |-> 0, rx_duration |-> DefaultFrame,
   tx_start |-> DefaultTxStart, tx_duration |-> DefaultTxDuration]

KeepAlive == [type |-> "keep_alive"]
DataPacket(p) == [type |-> "data", packet |-> p]

Init ==
  /\ registration_flag = [c \in Clients |-> "UNREGISTERED"]
  /\ rx_flag = [c \in Clients |-> "RX_ON"]
  /\ table = [c \in Clients |-> DefaultTable]
  /\ tx_timer = [c \in Clients |-> DefaultTxStart]
  /\ rx_timer = [c \in Clients |-> DefaultFrame]
  /\ silence = [c \in Clients |-> 0]
  /\ tx_ring_buffer = [c \in Clients |-> <<>>]
  /\ radio = [c \in Clients |-> TRUE]
  /\ said = [c \in Clients |-> <<>>]

\* db_tdma_client_init again, after a reset
Restart(c) ==
  /\ registration_flag' = [registration_flag EXCEPT ![c] = "UNREGISTERED"]
  /\ rx_flag' = [rx_flag EXCEPT ![c] = "RX_ON"]
  /\ table' = [table EXCEPT ![c] = DefaultTable]
  /\ tx_timer' = [tx_timer EXCEPT ![c] = DefaultTxStart]
  /\ rx_timer' = [rx_timer EXCEPT ![c] = DefaultFrame]
  /\ silence' = [silence EXCEPT ![c] = 0]
  /\ tx_ring_buffer' = [tx_ring_buffer EXCEPT ![c] = <<>>]
  /\ radio' = [radio EXCEPT ![c] = TRUE]
  /\ said' = [said EXCEPT ![c] = <<>>]

-----------------------------------------------------------------------------
(* tdma_client_callback, for a packet of the right version addressed to    *)
(* this client or to all.  DATA packets only go to the application.        *)

(***************************************************************************)
(* DB_PACKET_TDMA_UPDATE_TABLE: the table in the packet becomes the        *)
(* client's, and its slot is awaited in the frame after this one.          *)
(***************************************************************************)
UpdateTable(c, new, next_period_start) ==
  /\ radio[c]
  /\ table' = [table EXCEPT ![c] = new]
  /\ registration_flag' = [registration_flag EXCEPT ![c] = "REGISTERED"]
  /\ rx_flag' = [rx_flag EXCEPT ![c] = "RX_WAIT"]
  /\ tx_timer' = [tx_timer EXCEPT ![c] = next_period_start + new.tx_start]
  /\ rx_timer' = [rx_timer EXCEPT ![c] = next_period_start + new.rx_start]
  /\ said' = [said EXCEPT ![c] = <<>>]
  /\ UNCHANGED <<silence, tx_ring_buffer, radio>>

\* start - tx_time in 32 bits: a packet that took part of this slot to come
\* makes a start of 0 wrap around.
AfterSync(start) == IF start = 0 THEN WrapSlots ELSE start

MutantFrameOnly(t, frame_period) ==
  IF frame_period \in 1 .. MaxFrame - 1
  THEN [t EXCEPT !.frame_duration = frame_period]
  ELSE t

\* The frame length is the packet's, and the receiver is to stay on for all
\* of it, unless the packet announces nonsense.
Synced(t, frame_period) ==
  IF frame_period \in 1 .. MaxFrame - 1
  THEN [t EXCEPT !.frame_duration = frame_period, !.rx_duration = frame_period]
  ELSE t

\* DB_PACKET_TDMA_SYNC_FRAME: the frame begins now.
SyncFrame(c, frame_period) ==
  /\ radio[c]
  /\ registration_flag[c] = "REGISTERED"
  /\ tx_timer' = [tx_timer EXCEPT ![c] = AfterSync(table[c].tx_start)]
  /\ rx_timer' = [rx_timer EXCEPT ![c] = AfterSync(table[c].rx_start)]
  /\ table' = [table EXCEPT ![c] = Synced(@, frame_period)]
  /\ rx_flag' = [rx_flag EXCEPT ![c] = "RX_ON"]
  /\ radio' = [radio EXCEPT ![c] = TRUE]
  /\ said' = [said EXCEPT ![c] = <<>>]
  /\ UNCHANGED <<registration_flag, silence, tx_ring_buffer>>

-----------------------------------------------------------------------------
(* Slot timers. *)

\* The lengths of the packets that wait.
Waits(c) == [k \in 1 .. Len(tx_ring_buffer[c]) |-> tx_ring_buffer[c][k].len]

\* The packets of c that _message_rb_tx_queue sends in budget microseconds
\* are the first n.
Sends(c, n, budget) ==
  n \in 0 .. Len(Waits(c)) /\ SendsExactly(Waits(c), n, 0, budget)

\* The oldest packet alone takes the whole budget, and nothing is sent.
TooLong(c, budget) ==
  tx_ring_buffer[c] # <<>> /\ TxTime(tx_ring_buffer[c][1].len) >= budget

FirstPackets(c, n) == [k \in 1 .. n |-> DataPacket(tx_ring_buffer[c][k])]

MutantNotRearmed(c, slots) == [tx_timer EXCEPT ![c] = NoTimer]

\* The handler arms its own next interrupt before anything else.
Rearmed(c, slots) == [tx_timer EXCEPT ![c] = slots]

MutantAlwaysStamped(c, used) == [silence EXCEPT ![c] = 0]

\* last_tx_packet_timestamp is moved when the turn was used.
Stamped(c, used) == [silence EXCEPT ![c] = IF used THEN 0 ELSE @]

(***************************************************************************)
(* timer_tx_interrupt, registered: the queue is sent, or if nothing could  *)
(* be sent for too long, a keep-alive.  A queue that is not empty counts   *)
(* as sent (last_tx_packet_timestamp) even when no packet fitted.          *)
(***************************************************************************)
TimerTxRegistered(c) ==
  /\ tx_timer[c] = 0
  /\ registration_flag[c] = "REGISTERED"
  /\ tx_timer' = Rearmed(c, table[c].frame_duration)
  /\ \E n \in 0 .. Len(tx_ring_buffer[c]) :
       LET tried   == tx_ring_buffer[c] # <<>>
           overdue == silence[c] > MaxDelayWithoutTx /\ ~tried
       IN  /\ Sends(c, n, table[c].tx_duration * SlotUs)
           /\ tx_ring_buffer' =
                [tx_ring_buffer EXCEPT ![c] = PutBack(@, n)]
           /\ said' = [said EXCEPT ![c] =
                IF overdue THEN <<KeepAlive>> ELSE FirstPackets(c, n)]
           /\ silence' = Stamped(c, tried \/ overdue)
           /\ radio' = [radio EXCEPT ![c] =
                @ \/ overdue \/ n > 0 \/ (tried /\ rx_flag[c] = "RX_ON")]
  /\ UNCHANGED <<registration_flag, rx_flag, table, rx_timer>>

\* Not registered: ask for a slot, and again after a random delay.
TimerTxUnregistered(c, delay) ==
  /\ tx_timer[c] = 0
  /\ registration_flag[c] = "UNREGISTERED"
  /\ tx_timer' = Rearmed(c, delay)
  /\ said' = [said EXCEPT ![c] = <<KeepAlive>>]
  /\ silence' = Stamped(c, TRUE)
  /\ radio' = [radio EXCEPT ![c] = TRUE]
  /\ UNCHANGED <<registration_flag, rx_flag, table, rx_timer, tx_ring_buffer>>

MutantFixedDelay(c) ==
  \/ TimerTxRegistered(c)
  \/ TimerTxUnregistered(c, CHOOSE delay \in RetrySlots : TRUE)

TimerTxInterrupt(c) ==
  TimerTxRegistered(c) \/ \E delay \in RetrySlots : TimerTxUnregistered(c, delay)

(***************************************************************************)
(* timer_rx_interrupt: the receiver is left on for good, or an rx period   *)
(* begins, or one ends.  rx_flag is to tell which of the last two, but     *)
(* nothing here changes it.                                                *)
(***************************************************************************)
MutantLeaveAsIs(c) ==
  /\ table[c].rx_duration = table[c].frame_duration
  /\ rx_timer' = [rx_timer EXCEPT ![c] = NoTimer]
  /\ UNCHANGED radio

ListenForGood(c) ==
  /\ table[c].rx_duration = table[c].frame_duration
  /\ rx_timer' = [rx_timer EXCEPT ![c] = NoTimer]
  /\ radio' = [radio EXCEPT ![c] = TRUE]

BeginRx(c) ==
  /\ table[c].rx_duration # table[c].frame_duration
  /\ rx_flag[c] = "RX_WAIT"
  /\ rx_timer' = [rx_timer EXCEPT ![c] = table[c].rx_duration]
  /\ radio' = [radio EXCEPT ![c] = TRUE]

EndRx(c) ==
  LET t == table[c]
  IN  /\ t.rx_duration # t.frame_duration
      /\ rx_flag[c] = "RX_ON"
      /\ rx_timer' = [rx_timer EXCEPT ![c] =
                        (t.frame_duration - t.rx_duration) % WrapSlots]
      /\ radio' = [radio EXCEPT ![c] = FALSE]

TimerRxInterrupt(c) ==
  /\ rx_timer[c] = 0
  /\ ListenForGood(c) \/ BeginRx(c) \/ EndRx(c)
  /\ said' = [said EXCEPT ![c] = <<>>]
  /\ UNCHANGED <<registration_flag, rx_flag, table, tx_timer, silence,
                 tx_ring_buffer>>

\* One slot passes: no interrupt is left to be taken in it.
Elapse(timer) == IF timer = NoTimer THEN NoTimer ELSE timer - 1

Tick ==
  /\ \A c \in Clients : tx_timer[c] # 0 /\ rx_timer[c] # 0
  /\ tx_timer' = [c \in Clients |-> Elapse(tx_timer[c])]
  /\ rx_timer' = [c \in Clients |-> Elapse(rx_timer[c])]
  /\ silence' = [c \in Clients |->
       IF silence[c] > MaxDelayWithoutTx THEN silence[c] ELSE silence[c] + 1]
  /\ said' = [c \in Clients |-> <<>>]
  /\ UNCHANGED <<registration_flag, rx_flag, table, tx_ring_buffer, radio>>

-----------------------------------------------------------------------------
(* API. *)

Tx(c, p) ==
  /\ tx_ring_buffer' = [tx_ring_buffer EXCEPT ![c] = PutInto(@, p, TxCap)]
  /\ said' = [said EXCEPT ![c] = <<>>]
  /\ UNCHANGED <<registration_flag, rx_flag, table, tx_timer, rx_timer,
                 silence, radio>>

Flush(c) ==
  /\ \E n \in 0 .. Len(tx_ring_buffer[c]) :
       LET tried == tx_ring_buffer[c] # <<>>
       IN  /\ Sends(c, n, FlushUs)
           /\ tx_ring_buffer' = [tx_ring_buffer EXCEPT ![c] = PutBack(@, n)]
           /\ said' = [said EXCEPT ![c] = FirstPackets(c, n)]
           /\ silence' = Stamped(c, tried)
           /\ radio' = [radio EXCEPT ![c] =
                @ \/ n > 0 \/ (tried /\ rx_flag[c] = "RX_ON")]
  /\ UNCHANGED <<registration_flag, rx_flag, table, tx_timer, rx_timer>>

Empty(c) ==
  /\ tx_ring_buffer' = [tx_ring_buffer EXCEPT ![c] = <<>>]
  /\ said' = [said EXCEPT ![c] = <<>>]
  /\ UNCHANGED <<registration_flag, rx_flag, table, tx_timer, rx_timer,
                 silence, radio>>

SetTable(c, new) ==
  /\ table' = [table EXCEPT ![c] = new]
  /\ said' = [said EXCEPT ![c] = <<>>]
  /\ UNCHANGED <<registration_flag, rx_flag, tx_timer, rx_timer, silence,
                 tx_ring_buffer, radio>>

-----------------------------------------------------------------------------
Receive(c) ==
  \/ \E new \in AnnouncedTables :
       \E next_period_start \in 1 .. new.frame_duration :
         UpdateTable(c, new, next_period_start)
  \/ \E frame_period \in AnnouncedFrames : SyncFrame(c, frame_period)

Next ==
  \/ Tick
  \/ \E c \in Clients :
       \/ Receive(c)
       \/ TimerTxInterrupt(c)
       \/ TimerRxInterrupt(c)
       \/ \E p \in Packets : Tx(c, p)
       \/ Flush(c)
       \/ Empty(c)
       \/ \E new \in AppTables : SetTable(c, new)
       \/ Restart(c)

Spec == Init /\ [][Next]_vars

\* Time passes, and interrupts are taken.
FairSpec ==
  /\ Spec
  /\ WF_vars(Tick)
  /\ \A c \in Clients : WF_vars(TimerTxInterrupt(c)) /\ WF_vars(TimerRxInterrupt(c))

-----------------------------------------------------------------------------
(* Properties. *)

\* Every variable has the type and range of its C field's intended use.
TypeOK ==
  /\ registration_flag \in [Clients -> {"UNREGISTERED", "REGISTERED"}]
  /\ rx_flag \in [Clients -> {"RX_WAIT", "RX_ON"}]
  /\ table \in [Clients -> Tables]
  /\ tx_timer \in [Clients -> Nat]
  /\ rx_timer \in [Clients -> Nat \cup {NoTimer}]
  /\ silence \in [Clients -> 0 .. MaxDelayWithoutTx + 1]
  /\ tx_ring_buffer \in [Clients -> Seq(Packets)]
  /\ \A c \in Clients : Len(tx_ring_buffer[c]) <= TxCap
  /\ radio \in [Clients -> BOOLEAN]

(***************************************************************************)
(* "we are working on ALWAYS_ON mode" (tdma_client_default.c:416): tables  *)
(* and frames of the gateway never switch the receiver off, although       *)
(* rx_duration may for a while be that of an older and shorter frame.      *)
(* Only a window that the application set itself does.                     *)
(***************************************************************************)
ReceiverStaysOn ==
  [][\A c \in Clients : radio[c] /\ ~radio'[c] => table[c] \in AppTables]_vars

(***************************************************************************)
(* With tables of the application the receiver is switched off, but never  *)
(* for longer than a frame: an interrupt to look at it again is armed,     *)
(* whatever tables, sync frames and transmissions come in between.  The    *)
(* delay of rx_start less the air time of the sync frame (:405), which     *)
(* underflows to 71 minutes, is never the one a robot waits for with its   *)
(* receiver off.                                                           *)
(***************************************************************************)
OffIsTimed ==
  \A c \in Clients :
    ~radio[c] => rx_flag[c] = "RX_ON" /\ rx_timer[c] \in 0 .. MaxFrame

(***************************************************************************)
(* A client is never deaf for ever: timer_rx_interrupt alone would leave   *)
(* it so, as it never changes the flag it tests, but each of its turns to  *)
(* transmit switches the receiver on, and the keep-alive sees to it that   *)
(* it takes one.                                                           *)
(***************************************************************************)
HearsAgain == \A c \in Clients : []<>radio[c]

(***************************************************************************)
(* "if no packet has been sent for a while, send a keep_alive ping to      *)
(* maintain the connection" (tdma_client_default.c:459): a registered      *)
(* robot transmits again and again, whatever its application queues and    *)
(* empties, unless tables, sync frames or resets always come before its    *)
(* timer is done.  One thing silences it: a packet too long for the slot   *)
(* comes up in its turns again and again, each of which sends nothing and  *)
(* moves last_tx_packet_timestamp all the same (:305).                     *)
(***************************************************************************)
BlockedTurn(c) ==
  TimerTxRegistered(c) /\ TooLong(c, table[c].tx_duration * SlotUs)

KeepsTheConnection ==
  \A c \in Clients :
    \/ []<>(said[c] # <<>> \/ registration_flag[c] = "UNREGISTERED")
    \/ []<><<Receive(c) \/ Restart(c)>>_vars
    \/ []<><<BlockedTurn(c)>>_vars

(***************************************************************************)
(* A robot that has no slot asks for one again and again, until it is      *)
(* given one: unless it is always reset before it can ask.                 *)
(***************************************************************************)
AsksUntilRegistered ==
  \A c \in Clients :
    \/ []<>(registration_flag[c] = "REGISTERED" \/ KeepAlive \in Waiting(said[c]))
    \/ []<><<Restart(c)>>_vars

(***************************************************************************)
(* "Ignore TDMA table and send all pending packets immediately"            *)
(* (tdma_client.h:86).  A flush leaves something only if all that waited   *)
(* would take its 50 ms or longer, as four packets of 255 bytes do at 125  *)
(* kbit/s.                                                                 *)
(***************************************************************************)
TimeForAll(c) == AirTime(Waits(c), Len(tx_ring_buffer[c]))

FlushSendsAll ==
  [][\A c \in Clients :
       Flush(c) /\ TimeForAll(c) < FlushUs => tx_ring_buffer'[c] = <<>>]_vars

=============================================================================
