-------------------------------- MODULE Tdma --------------------------------
(***************************************************************************)
(* The gateway (TdmaServer) and its robots (TdmaClient) on the air.        *)
(*                                                                         *)
(* Time goes slot by slot, for all of them at once: their clocks do not    *)
(* drift, but the gateway may take any slot to be any number of the frame, *)
(* and a robot knows nothing but what it hears.  In a slot                 *)
(*   - the gateway's timer fires and it may transmit (NextSlot);           *)
(*   - each robot hears, in order, the frames meant for it, or misses them *)
(*     (Hear, Miss);                                                       *)
(*   - robots whose timers are due take the interrupts, before or after    *)
(*     what they hear in this slot, and may transmit (TimerTx, TimerRx);   *)
(*   - the gateway, done transmitting, receives what robots sent, or part  *)
(*     of it, or nothing, as when two speak at once (Receive, Collide).    *)
(* The application's packets are left out: keep-alives suffice for the     *)
(* protocol, and the queues are the business of the two modules.           *)
(***************************************************************************)
EXTENDS Integers, FiniteSets

CONSTANTS
  Clients, Gateway, NoClient, ByteUs,
  SlotsPerGateway, DefaultSlots, TableSize, NewClientCap,
  ClientFrame, ClientTxStart, ClientTxDuration, MaxDelayWithoutTx,
  RetrySlots, MaxFrame, WrapSlots,
  MayReset,   \* who may be reset: robots, the gateway
  MaxResets   \* bound: how often in all

ASSUME RatesAssumption == ByteUs \in Nat \ {0}
ASSUME IdsAssumption ==
  /\ Gateway # NoClient
  /\ Gateway \notin Clients
  /\ NoClient \notin Clients
ASSUME SlotsAssumption ==
  /\ SlotsPerGateway \in Nat \ {0, 1}
  /\ DefaultSlots \in 1 .. SlotsPerGateway
ASSUME CapsAssumption ==
  /\ TableSize \in Nat \ {0}
  /\ NewClientCap \in Nat \ {0}
ASSUME ClientConstants ==
  /\ ClientFrame \in Nat \ {0} /\ ClientTxStart \in Nat \ {0}
  /\ RetrySlots \subseteq Nat \ {0}
  /\ MaxFrame \in Nat

(***************************************************************************)
(* A robot takes no frame of 500 ms or more from a sync packet: there are  *)
(* never so many robots that, with the gateway's slots, the frame grows to *)
(* that (MaxFrame 200 and SlotsPerGateway 20 allow 189; the table is for   *)
(* 100).                                                                   *)
(***************************************************************************)
ASSUME FrameFits ==
  /\ IsFiniteSet(Clients)
  /\ DefaultSlots < MaxFrame
  /\ Cardinality(Clients) < (MaxFrame - 1) - (MaxFrame - 1) \div SlotsPerGateway
ASSUME ResetBound == MaxResets \in Nat

VARIABLES
  \* of the gateway
  table, table_index, num_clients, frame_duration_us, active_slot_idx,
  new_clients_rb, tx_ring_buffer, air, quiet,
  \* of the robots
  registration_flag, rx_flag, client_table, tx_timer, rx_timer, silence,
  client_tx, radio, said,
  \* on the air
  to_hear,   \* for each robot the places in air of the frames of this slot
             \*   that are meant for it and that it has not got yet
  uplink,    \* the robots whose keep-alive the gateway has not got yet
  \* history
  in_step,   \* has the robot been told of the frame as it is now?
  restarts, gateway_restarts

server_vars == <<table, table_index, num_clients, frame_duration_us,
                 active_slot_idx, new_clients_rb, tx_ring_buffer, air, quiet>>
client_vars == <<registration_flag, rx_flag, client_table, tx_timer, rx_timer,
                 silence, client_tx, radio, said>>
resets == <<restarts, gateway_restarts>>
vars == <<server_vars, client_vars, to_hear, uplink, in_step, resets>>

Server == INSTANCE TdmaServer WITH Packets <- {}, TxCap <- 1

Client == INSTANCE TdmaClient WITH
  table <- client_table, tx_ring_buffer <- client_tx,
  Packets <- {}, TxCap <- 1,
  DefaultFrame <- ClientFrame, DefaultTxStart <- ClientTxStart,
  DefaultTxDuration <- ClientTxDuration,
  AnnouncedTables <- {}, AnnouncedFrames <- {}, AppTables <- {}

Init ==
  /\ Server!Init
  /\ Client!Init
  /\ to_hear = [c \in Clients |-> {}]
  /\ uplink = {}
  /\ in_step = [c \in Clients |-> FALSE]
  /\ restarts = 0 /\ gateway_restarts = 0

-----------------------------------------------------------------------------
Slots(us) == us \div Server!TIME_SLOT_DURATION_US
\* Whole slots from now until the slot that begins after us microseconds.
SlotsUntil(us) == Slots(us + Server!TIME_SLOT_DURATION_US - 1)

Quiet == \A c \in Clients : to_hear[c] = {}

\* What the gateway sends that is addressed to robot c or to all.
Concerns(f, c) == f.type = "sync" \/ (f.type = "table" /\ f.dst = c)

\* The next slot begins when all that this one holds has happened.
NextSlot ==
  /\ Quiet /\ uplink = {}
  /\ Server!TimerTdmaInterrupt
  /\ Client!Tick
  /\ to_hear' = [c \in Clients |->
                   {k \in DOMAIN air' : Concerns(air'[k], c)}]
  /\ UNCHANGED <<uplink, in_step, resets>>

MutantStepFromFrame(f) == SlotsUntil(f.frame_period)

\* How far from here the table packet says the next frame is.
NextPeriod(f) == SlotsUntil(f.next_period_start)

\* db_protocol_tdma_table_update_to_buffer and back, in slots.
TableIn(f) ==
  [frame_duration |-> Slots(f.frame_period),
   rx_start |-> 0, rx_duration |-> Slots(f.rx_duration),
   tx_start |-> Slots(f.tx_start), tx_duration |-> 1]

TellClient(c, f) ==
  IF f.type = "sync"
  THEN Client!SyncFrame(c, Slots(f.frame_period))
  ELSE Client!UpdateTable(c, TableIn(f), NextPeriod(f))

\* The frame of place k in the air has reached, or missed, robot c.
Passes(c, k) ==
  /\ k \in to_hear[c]
  /\ \A j \in to_hear[c] : k <= j
  /\ to_hear' = [to_hear EXCEPT ![c] = @ \ {k}]

Hear(c) ==
  /\ \E k \in to_hear[c] : Passes(c, k) /\ TellClient(c, air[k])
  /\ in_step' = [in_step EXCEPT ![c] = TRUE]
  /\ UNCHANGED <<server_vars, uplink, resets>>

\* The packet is lost, or is a sync that an unregistered robot ignores.
Miss(c) ==
  /\ \E k \in to_hear[c] : Passes(c, k)
  /\ UNCHANGED <<server_vars, client_vars, uplink, in_step, resets>>

TimerTx(c) ==
  /\ Client!TimerTxInterrupt(c)
  /\ uplink' = IF said'[c] # <<>> THEN uplink \cup {c} ELSE uplink
  /\ UNCHANGED <<server_vars, to_hear, in_step, resets>>

TimerRx(c) ==
  /\ Client!TimerRxInterrupt(c)
  /\ UNCHANGED <<server_vars, to_hear, uplink, in_step, resets>>

\* A longer frame puts everybody out of step.
Receive(c) ==
  /\ c \in uplink /\ Quiet
  /\ Server!TdmaServerCallback(c)
  /\ uplink' = uplink \ {c}
  /\ in_step' = IF frame_duration_us' = frame_duration_us THEN in_step
                ELSE [d \in Clients |-> FALSE]
  /\ UNCHANGED <<client_vars, to_hear, resets>>

\* What the gateway has not received in this slot is lost.
Collide ==
  /\ uplink # {} /\ Quiet
  /\ uplink' = {}
  /\ UNCHANGED <<server_vars, client_vars, to_hear, in_step, resets>>

Restart(c) ==
  /\ c \in MayReset
  /\ restarts + gateway_restarts < MaxResets
  /\ restarts' = restarts + 1
  /\ Client!Restart(c)
  /\ in_step' = [in_step EXCEPT ![c] = FALSE]
  /\ UNCHANGED <<server_vars, to_hear, uplink, gateway_restarts>>

\* db_tdma_server_init again, after a reset: nobody is registered any more.
GatewayRestart ==
  /\ Gateway \in MayReset
  /\ restarts + gateway_restarts < MaxResets
  /\ gateway_restarts' = gateway_restarts + 1
  /\ table' = [i \in {0} |->
                 Server!Entry(Gateway, 0, Server!DEFAULT_FRAME_DURATION_US)]
  /\ table_index' = 0 /\ num_clients' = 0
  /\ frame_duration_us' = Server!DEFAULT_FRAME_DURATION_US
  /\ active_slot_idx' = 0
  /\ new_clients_rb' = <<>> /\ tx_ring_buffer' = <<>>
  /\ air' = <<>> /\ quiet' = 0
  /\ to_hear' = [c \in Clients |-> {}]
  /\ in_step' = [c \in Clients |-> FALSE]
  /\ UNCHANGED <<client_vars, uplink, restarts>>

Next ==
  \/ NextSlot
  \/ \E c \in Clients :
       Hear(c) \/ Miss(c) \/ TimerTx(c) \/ TimerRx(c) \/ Receive(c) \/ Restart(c)
  \/ Collide
  \/ GatewayRestart

Spec == Init /\ [][Next]_vars

(***************************************************************************)
(* Slots follow one another, interrupts are taken, packets end: the timers *)
(* are periodic and no handler waits for ever.                             *)
(***************************************************************************)
TimelySpec ==
  /\ Spec
  /\ WF_vars(NextSlot)
  /\ \A c \in Clients :
       /\ WF_vars(TimerTx(c)) /\ WF_vars(TimerRx(c))
       /\ WF_vars(Hear(c) \/ Miss(c)) /\ WF_vars(Receive(c) \/ Collide)

\* Nobody else speaks in this slot.
Alone(c) == uplink = {c} /\ \A d \in Clients \ {c} : tx_timer[d] # 0

\* Two chances: that of a packet sent alone and out of its slot to arrive,
\* and that of the last robot that asks in a slot to draw a certain delay,
\* which does not end with another robot's.
ReceiveAlone(c) ==
  Alone(c) /\ Receive(c) /\ Server!ClientOf(active_slot_idx) # c
DrawApart(c, delay) ==
  /\ TimerTx(c) /\ Client!TimerTxUnregistered(c, delay)
  /\ \A d \in Clients \ {c} :
       /\ tx_timer[d] # delay
       /\ tx_timer[d] = 0 => registration_flag[d] = "REGISTERED"

(***************************************************************************)
(* A packet sent again and again is not lost every time, unless it always  *)
(* overlaps another; and of the delays that robots draw again and again,   *)
(* each on its own, none is missing, and they are not the same every time  *)
(* unless they cannot differ.                                              *)
(***************************************************************************)
FairSpec ==
  /\ TimelySpec
  /\ \A c \in Clients :
       /\ SF_vars(Hear(c)) /\ SF_vars(ReceiveAlone(c))
       /\ \A delay \in RetrySlots : SF_vars(DrawApart(c, delay))

-----------------------------------------------------------------------------
(* Properties. *)

FrameSlots == Slots(frame_duration_us)
IsRegistered(c) == registration_flag[c] = "REGISTERED"

(***************************************************************************)
(* A robot that believes it is registered is, and speaks in the slot the   *)
(* gateway has for it (_server_register_new_client, tdma_client_callback): *)
(* as long as the gateway is not reset.                                    *)
(***************************************************************************)
SlotAgreement ==
  gateway_restarts = 0 => \A c \in Clients : IsRegistered(c) =>
    Server!ClientOf(client_table[c].tx_start) = c

(***************************************************************************)
(* A robot in step knows the frame's length, and its timer will fire in    *)
(* its own slot, this frame or later: the delays that tdma_client_callback *)
(* computes from a sync frame and from next_period_start, and the periodic *)
(* ones of timer_tx_interrupt, all meet the walk of timer_tdma_interrupt.  *)
(***************************************************************************)
InStepKeepsTime ==
  gateway_restarts = 0 => \A c \in Clients : in_step[c] =>
    /\ client_table[c].frame_duration = FrameSlots
    /\ (active_slot_idx + tx_timer[c]) % FrameSlots = client_table[c].tx_start

\* What a slot is for: of the robots in step, one at most speaks in it.
NobodyElseSpeaks ==
  gateway_restarts = 0 => \A c, d \in Clients :
    in_step[c] /\ in_step[d] /\ tx_timer[c] = 0 /\ tx_timer[d] = 0 => c = d

(***************************************************************************)
(* Registration and resynchronisation work over a lossy channel: in the    *)
(* end all robots are in step, for ever.  A robot that was reset asks      *)
(* although it still has a slot, and is not answered when it happens to    *)
(* ask in that slot (tdma_server_callback, :594): it does not do so every  *)
(* time.                                                                   *)
(***************************************************************************)
Settles == <>[](\A c \in Clients : in_step[c])

(***************************************************************************)
(* "if no packet has been sent for a while, send a keep_alive ping to      *)
(* maintain the connection" (tdma_client_default.c:459): no robot is       *)
(* silent for ever.                                                        *)
(***************************************************************************)
SpeaksAgain == \A c \in Clients : []<>(c \in uplink)

(***************************************************************************)
(* What is left of it when the gateway may be reset: only a robot whose    *)
(* slot is beyond the end of the new gateway's frame is silenced, by sync  *)
(* frames that set its timer again before it fires.                        *)
(***************************************************************************)
BeyondFrame(c) == IsRegistered(c) /\ client_table[c].tx_start >= FrameSlots
SilentOnlyBeyondFrame ==
  \A c \in Clients : []<>(c \in uplink) \/ <>[]BeyondFrame(c)

=============================================================================
