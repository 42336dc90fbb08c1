----------------------------- MODULE TdmaServer -----------------------------
(***************************************************************************)
(* The gateway's side of the TDMA protocol                                 *)
(* (drv/tdma_server/tdma_server_default.c).                                *)
(*                                                                         *)
(* The gateway cuts time into slots of TIME_SLOT_DURATION_US and walks its *)
(* table of slots: slots whose number is a multiple of SlotsPerGateway are *)
(* its own, the others go to the clients in the order their first packet   *)
(* arrived.  Clients are told of their slot in a later gateway slot.       *)
(*                                                                         *)
(* An action is one interrupt handler (radio callback, slot timer) or one  *)
(* call of the API, run to completion.  On the nRF5340 network core, where *)
(* the driver runs, both handlers have the same priority and cannot        *)
(* interrupt each other; RingRace studies what interrupting a call does.   *)
(***************************************************************************)
EXTENDS Integers, FiniteSets, TxDrain

CONSTANTS
  Clients,          \* ids of the devices that may send to the gateway
  Gateway,          \* the gateway's own id
  NoClient,         \* id in an entry of the table never written (0)
  Packets,          \* what the application may queue: records with a len
  SlotsPerGateway,  \* MAX_GATEWAY_TX_DELAY_US / TIME_SLOT_DURATION_US
  DefaultSlots,     \* DEFAULT_FRAME_DURATION_US / TIME_SLOT_DURATION_US
  TableSize,        \* entries of the table array
  NewClientCap,     \* TDMA_NEW_CLIENT_BUFFER_SIZE
  TxCap             \* TDMA_RING_BUFFER_SIZE

ASSUME IdsAssumption ==
  /\ Gateway # NoClient
  /\ Gateway \notin Clients
  /\ NoClient \notin Clients
ASSUME PacketsAssumption == \A p \in Packets : p.len \in 0 .. 255
ASSUME SlotsAssumption ==
  /\ SlotsPerGateway \in Nat \ {0, 1}
  /\ DefaultSlots \in 1 .. SlotsPerGateway
ASSUME CapsAssumption ==
  /\ TableSize \in Nat \ {0}
  /\ NewClientCap \in Nat \ {0}
  /\ TxCap \in Nat \ {0}

TIME_SLOT_DURATION_US == 2500
TX_DEADTIME_US        == 100
DEFAULT_FRAME_DURATION_US == DefaultSlots * TIME_SLOT_DURATION_US

VARIABLES
  table,              \* the entries written so far, from 0 to table_index
  table_index,        \* last slot given to anybody
  num_clients,        \* clients in the table
  frame_duration_us,  \* length of the frame announced to the clients
  active_slot_idx,    \* slot being walked
  new_clients_rb,     \* ids to answer, oldest first
  tx_ring_buffer,     \* packets to send, oldest first
  air,                \* what the last step transmitted, in order
  quiet               \* history: slots begun since the gateway's last one

rings == <<new_clients_rb, tx_ring_buffer>>
slots == <<table, table_index, num_clients, frame_duration_us>>
vars  == <<slots, active_slot_idx, rings, air, quiet>>

-----------------------------------------------------------------------------
(* The table. *)

\* An entry: rx_start is always 0 and tx_duration always one slot.
Entry(client, idx, frame) ==
  [client |-> client,
   rx_duration |-> frame,
   tx_start |-> idx * TIME_SLOT_DURATION_US]

\* The client of a slot; slots of the array not given yet are all zero.
ClientOf(idx) == IF idx <= table_index THEN table[idx].client ELSE NoClient

\* _server_find_client: the first slot of a client, -1 if it has none
MutantLastNotSearched(client) ==
  \E i \in 0 .. table_index - 1 : table[i].client = client
Registered(client) == \E i \in 0 .. table_index : table[i].client = client
MutantLastSlotGiven(client) == table_index
SlotOf(client) ==
  CHOOSE i \in 0 .. table_index :
    /\ table[i].client = client
    /\ \A j \in 0 .. i - 1 : table[j].client # client

MutantFrameOneShort(slotCount) ==
  IF (slotCount - 1) * TIME_SLOT_DURATION_US > DEFAULT_FRAME_DURATION_US
  THEN (slotCount - 1) * TIME_SLOT_DURATION_US
  ELSE DEFAULT_FRAME_DURATION_US

FrameFor(slotCount) ==
  IF slotCount * TIME_SLOT_DURATION_US > DEFAULT_FRAME_DURATION_US
  THEN slotCount * TIME_SLOT_DURATION_US
  ELSE DEFAULT_FRAME_DURATION_US

MutantLastOverwritten(owners) ==
  LET last  == table_index + Len(owners) - 1
      frame == FrameFor(last + 1)
  IN  /\ table' = [i \in 0 .. last |->
                     IF i < table_index THEN table[i]
                     ELSE Entry(owners[i - table_index + 1], i, frame)]
      /\ table_index' = last
      /\ frame_duration_us' = frame

\* Writes the next entries of the table; every one has the new frame.
AppendSlots(owners) ==
  LET last  == table_index + Len(owners)
      frame == FrameFor(last + 1)
  IN  /\ table' = [i \in 0 .. last |->
                     IF i <= table_index THEN table[i]
                     ELSE Entry(owners[i - table_index], i, frame)]
      /\ table_index' = last
      /\ frame_duration_us' = frame

MutantGatewayDueLate == table_index % SlotsPerGateway = 0
MutantGatewayNeverDue == FALSE

GatewayDue == (table_index + 1) % SlotsPerGateway = 0

(***************************************************************************)
(* _server_register_new_client: the next slot, unless that one is the      *)
(* gateway's, which then takes it and leaves the client the one after.     *)
(***************************************************************************)
RegisterNewClient(client) ==
  /\ AppendSlots(IF GatewayDue
                 THEN <<Gateway, client>>
                 ELSE <<client>>)
  /\ num_clients' = num_clients + 1

Queue(client) ==
  new_clients_rb' = PutInto(new_clients_rb, client, NewClientCap)

-----------------------------------------------------------------------------
Init ==
  /\ table = [i \in {0} |-> Entry(Gateway, 0, DEFAULT_FRAME_DURATION_US)]
  /\ table_index = 0
  /\ num_clients = 0
  /\ frame_duration_us = DEFAULT_FRAME_DURATION_US
  /\ active_slot_idx = 0
  /\ new_clients_rb = <<>>
  /\ tx_ring_buffer = <<>>
  /\ air = <<>>
  /\ quiet = 0

(***************************************************************************)
(* tdma_server_callback, for a packet of the right version addressed to    *)
(* the gateway (any other changes nothing).  What kind of packet it is     *)
(* makes no difference here: all but keep-alives then go up to the         *)
(* application, whether or not the sender is registered or in its slot.    *)
(***************************************************************************)
ReceiveFromStranger(client) ==
  /\ ~Registered(client)
  /\ RegisterNewClient(client)
  /\ Queue(client)
  /\ air' = <<>>
  /\ UNCHANGED <<active_slot_idx, tx_ring_buffer, quiet>>

ReceiveFromClient(client) ==
  /\ Registered(client)
  /\ IF \/ ClientOf(active_slot_idx) = client
        \/ IdExists(new_clients_rb, client, NewClientCap)
     THEN UNCHANGED new_clients_rb
     ELSE Queue(client)
  /\ air' = <<>>
  /\ UNCHANGED <<slots, active_slot_idx, tx_ring_buffer, quiet>>

TdmaServerCallback(client) ==
  ReceiveFromStranger(client) \/ ReceiveFromClient(client)

-----------------------------------------------------------------------------
(* Slot timer. *)

\* Slots walked before starting again at slot 0.
LastSlot ==
  IF frame_duration_us > DEFAULT_FRAME_DURATION_US
  THEN table_index + 1 ELSE DefaultSlots

\* The packets of _tx_sync_frame and _tx_registration_messages.  The latter
\* carries rx_duration in 16 bits, and the time left until the next frame,
\* read when elapsed microseconds of the slot idx have passed.
SyncFrame == [type |-> "sync", frame_period |-> frame_duration_us]
SyncTime == TxTime(HeaderBytes + SyncFrameBytes)

TableUpdate(client, idx, elapsed) ==
  LET entry == table[SlotOf(client)]
  IN  [type |-> "table", dst |-> client,
       frame_period |-> frame_duration_us,
       rx_duration |-> entry.rx_duration % 65536,
       tx_start |-> entry.tx_start,
       next_period_start |->
         frame_duration_us - (idx * TIME_SLOT_DURATION_US + elapsed)]
UpdateTime == TxTime(HeaderBytes + TableBytes)

DataPacket(p) == [type |-> "data", packet |-> p]

\* The gateway's slot: first the ids waiting for an answer, in at most half
\* of what is left of the slot, then the application's packets.
GatewaySlot(idx, first, elapsed) ==
  \E r \in 0 .. Len(new_clients_rb), m \in 0 .. Len(tx_ring_buffer) :
    LET ids   == [k \in 1 .. Len(new_clients_rb) |-> HeaderBytes + TableBytes]
        lens  == [k \in 1 .. Len(tx_ring_buffer) |-> tx_ring_buffer[k].len]
        after == elapsed + r * UpdateTime
    IN  /\ SendsExactly(ids, r, elapsed,
             (TIME_SLOT_DURATION_US - elapsed) \div 2 - TX_DEADTIME_US)
        /\ SendsExactly(lens, m, after,
             TIME_SLOT_DURATION_US - after - TX_DEADTIME_US)
        /\ new_clients_rb' = PutBack(new_clients_rb, r)
        /\ tx_ring_buffer' = PutBack(tx_ring_buffer, m)
        /\ air' = first
             \o [k \in 1 .. r |-> TableUpdate(new_clients_rb[k], idx,
                                    elapsed + (k - 1) * UpdateTime)]
             \o [k \in 1 .. m |-> DataPacket(tx_ring_buffer[k])]

TimerTdmaInterrupt ==
  LET idx     == (active_slot_idx + 1) % LastSlot
      first   == IF idx = 0 THEN <<SyncFrame>> ELSE <<>>
      elapsed == IF idx = 0 THEN SyncTime ELSE 0
  IN  /\ active_slot_idx' = idx
      /\ IF ClientOf(idx) = Gateway
         THEN GatewaySlot(idx, first, elapsed) /\ quiet' = 0
         ELSE air' = first /\ quiet' = quiet + 1 /\ UNCHANGED rings
      /\ UNCHANGED slots

-----------------------------------------------------------------------------
(* API. *)

Tx(p) ==
  /\ tx_ring_buffer' = PutInto(tx_ring_buffer, p, TxCap)
  /\ air' = <<>>
  /\ UNCHANGED <<slots, active_slot_idx, new_clients_rb, quiet>>

(***************************************************************************)
(* db_tdma_server_flush: its 50 ms are counted from the start of the slot, *)
(* which the timer keeps moving, so that every packet fits.                *)
(***************************************************************************)
Flush ==
  /\ tx_ring_buffer' = <<>>
  /\ air' = [k \in 1 .. Len(tx_ring_buffer) |-> DataPacket(tx_ring_buffer[k])]
  /\ UNCHANGED <<slots, active_slot_idx, new_clients_rb, quiet>>

Empty ==
  /\ tx_ring_buffer' = <<>>
  /\ air' = <<>>
  /\ UNCHANGED <<slots, active_slot_idx, new_clients_rb, quiet>>

Next ==
  \/ \E client \in Clients : TdmaServerCallback(client)
  \/ TimerTdmaInterrupt
  \/ \E p \in Packets : Tx(p)
  \/ Flush
  \/ Empty

Spec == Init /\ [][Next]_vars

-----------------------------------------------------------------------------
(* Properties. *)

Ids == Clients \cup {Gateway}

\* Every variable has the type and range of its C field's intended use.
TypeOK ==
  /\ table_index \in Nat
  /\ table \in [0 .. table_index ->
                  [client : Ids, rx_duration : Nat, tx_start : Nat]]
  /\ num_clients \in Nat
  /\ frame_duration_us \in Nat
  /\ active_slot_idx \in Nat
  /\ new_clients_rb \in Seq(Clients) /\ Len(new_clients_rb) <= NewClientCap
  /\ tx_ring_buffer \in Seq(Packets) /\ Len(tx_ring_buffer) <= TxCap
  /\ quiet \in Nat

(***************************************************************************)
(* A slot is the gateway's exactly when its number is a multiple of        *)
(* SlotsPerGateway, starts at its number times the slot time, and no       *)
(* client has two slots.  num_clients counts the slots that are not the    *)
(* gateway's.  (_server_register_new_client)                               *)
(***************************************************************************)
SlotOwnership ==
  /\ \A i \in 0 .. table_index :
       /\ table[i].client = Gateway <=> i % SlotsPerGateway = 0
       /\ table[i].tx_start = i * TIME_SLOT_DURATION_US
  /\ \A i, j \in 0 .. table_index :
       table[i].client = table[j].client /\ table[i].client # Gateway => i = j
  /\ num_clients = table_index - table_index \div SlotsPerGateway

(***************************************************************************)
(* The frame announced in sync and table packets is the time the timer     *)
(* takes to come back to slot 0, the slot being walked is inside it, and   *)
(* so is every slot given to somebody, even when a registration changes    *)
(* the table in the middle of a frame.                                     *)
(***************************************************************************)
FrameMatchesWalk ==
  /\ frame_duration_us = LastSlot * TIME_SLOT_DURATION_US
  /\ active_slot_idx < LastSlot
  /\ table_index < LastSlot

(***************************************************************************)
(* "Max amount of microseconds that can elapse between gateway             *)
(* transmissions" (tdma_server.h:26): whatever registers and when, of any  *)
(* SlotsPerGateway slots in a row one is the gateway's.                    *)
(***************************************************************************)
GatewayGap == quiet < SlotsPerGateway

(***************************************************************************)
(* The table is an array of TableSize entries, part of them the gateway's. *)
(* As long as there are fewer clients than entries that are not the        *)
(* gateway's, registration stays inside it.                                *)
(***************************************************************************)
TableInBounds ==
  num_clients < TableSize - TableSize \div SlotsPerGateway
    => table_index < TableSize

(***************************************************************************)
(* Who waits for an answer has a slot: _tx_registration_messages indexes   *)
(* the table with what _server_find_client returns, unchecked.             *)
(***************************************************************************)
QueuedAreRegistered == \A c \in Waiting(new_clients_rb) : Registered(c)

(***************************************************************************)
(* "Check that you don't already have a a reminder queued up for this      *)
(* client" (tdma_server_default.c:596): nobody waits twice.                *)
(***************************************************************************)
NoDuplicateReminder ==
  \A i, j \in 1 .. Len(new_clients_rb) :
    new_clients_rb[i] = new_clients_rb[j] => i = j

\* It holds when the ring has more cells than there are clients.
NoDuplicateIfRoom ==
  Cardinality(Clients) < NewClientCap => NoDuplicateReminder

(***************************************************************************)
(* The timer goes through the slots one by one and starts again only after *)
(* the last one given: a registration in the middle of a frame makes       *)
(* nobody lose a turn.                                                     *)
(***************************************************************************)
NoSlotSkipped ==
  [][active_slot_idx' # active_slot_idx =>
       \/ active_slot_idx' = active_slot_idx + 1
       \/ active_slot_idx' = 0 /\ active_slot_idx >= table_index]_vars

\* A slot once given is never given to another or moved.
SlotsNeverMove ==
  [][/\ table_index' >= table_index
     /\ frame_duration_us' >= frame_duration_us
     /\ \A i \in 0 .. table_index : table'[i] = table[i]]_vars

(***************************************************************************)
(* With more cells than clients, an id leaves the list of those who wait   *)
(* only when its table packet has been sent.                               *)
(***************************************************************************)
TableSentTo(c) == \E k \in DOMAIN air : air[k].type = "table" /\ air[k].dst = c
NoWaiterDropped ==
  [][Cardinality(Clients) < NewClientCap =>
       \A c \in Waiting(new_clients_rb) :
         c \in Waiting(new_clients_rb') \/ TableSentTo(c)']_vars

(***************************************************************************)
(* "Put it in the list of clients to transmit to in your next turn"        *)
(* (tdma_server_default.c:587): in a slot of the gateway, if anybody       *)
(* waits, somebody is answered.                                            *)
(***************************************************************************)
GatewayTurn == active_slot_idx' # active_slot_idx /\ quiet' = 0
TurnsAnswerSomebody ==
  [][GatewayTurn /\ new_clients_rb # <<>>
       => \E c \in Waiting(new_clients_rb) : TableSentTo(c)']_vars

(***************************************************************************)
(* What the timer sends is over before the dead time that ends the slot.   *)
(***************************************************************************)
FrameBytes(f) ==
  CASE f.type = "sync"  -> HeaderBytes + SyncFrameBytes
    [] f.type = "table" -> HeaderBytes + TableBytes
    [] f.type = "data"  -> f.packet.len
AirInSlot ==
  AirTime([k \in DOMAIN air |-> FrameBytes(air[k])], Len(air))
    < TIME_SLOT_DURATION_US - TX_DEADTIME_US
TimerStaysInSlot == [][active_slot_idx' # active_slot_idx => AirInSlot']_vars

(***************************************************************************)
(* "Max number of clients that can register with this server"              *)
(* (tdma_server.h:24), which is also the size of the table.                *)
(***************************************************************************)
MaxClientsFit == num_clients <= TableSize => table_index < TableSize

=============================================================================
