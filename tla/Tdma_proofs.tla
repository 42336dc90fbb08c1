----------------------------- MODULE Tdma_proofs -----------------------------
(***************************************************************************)
(* Proofs about the gateway and its robots together, for any number of     *)
(* robots the frame has room for, any loss of packets and any resets of    *)
(* robots.  The gateway's part is that of TdmaServer_proofs.               *)
(***************************************************************************)
EXTENDS Tdma, FiniteSetTheorems, TLAPS

SP == INSTANCE TdmaServer_proofs WITH Packets <- {}, TxCap <- 1

-----------------------------------------------------------------------------
(* The gateway's side of a step. *)

(***************************************************************************)
(* TdmaServer_proofs repeats the definitions of TdmaServer: they mean the  *)
(* same here.                                                              *)
(***************************************************************************)
LEMMA SameTimes ==
  /\ Server!TIME_SLOT_DURATION_US = SP!TIME_SLOT_DURATION_US
  /\ Server!TX_DEADTIME_US = SP!TX_DEADTIME_US
  /\ Server!SyncTime = SP!SyncTime /\ Server!UpdateTime = SP!UpdateTime
  /\ Server!HeaderBytes + Server!TableBytes = SP!HeaderBytes + SP!TableBytes
  /\ \A b : Server!TxTime(b) = SP!TxTime(b)
  BY DEF Server!SyncTime, SP!SyncTime, Server!UpdateTime, SP!UpdateTime,
         Server!TxTime, SP!TxTime,
         Server!RADIO_TX_RAMP_UP_TIME, SP!RADIO_TX_RAMP_UP_TIME,
         Server!HeaderBytes, SP!HeaderBytes, Server!TableBytes, SP!TableBytes,
         Server!SyncFrameBytes, SP!SyncFrameBytes,
         Server!TIME_SLOT_DURATION_US, SP!TIME_SLOT_DURATION_US,
         Server!TX_DEADTIME_US, SP!TX_DEADTIME_US

LEMMA SameAirTime ==
  ASSUME NEW len, NEW n
  PROVE  Server!AirTime(len, n) = SP!AirTime(len, n)
  BY SameTimes DEF Server!AirTime, SP!AirTime

LEMMA SameSends ==
  ASSUME NEW len, NEW n, NEW elapsed, NEW budget
  PROVE  Server!SendsExactly(len, n, elapsed, budget)
           <=> SP!SendsExactly(len, n, elapsed, budget)
  BY SameAirTime, Zenon DEF Server!SendsExactly, SP!SendsExactly

LEMMA SameUpdate ==
  ASSUME NEW c, NEW idx, NEW elapsed
  PROVE  Server!TableUpdate(c, idx, elapsed) = SP!TableUpdate(c, idx, elapsed)
  BY SameTimes DEF Server!TableUpdate, SP!TableUpdate, Server!SlotOf, SP!SlotOf

LEMMA SameGatewaySlot ==
  ASSUME NEW idx, NEW first, NEW elapsed, Server!GatewaySlot(idx, first, elapsed)
  PROVE  SP!GatewaySlot(idx, first, elapsed)
  BY SameTimes, SameSends, SameUpdate
     DEF Server!GatewaySlot, SP!GatewaySlot, Server!PutBack, SP!PutBack,
         Server!DataPacket, SP!DataPacket

LEMMA SlotOfGateway ==
  ASSUME NextSlot
  PROVE  SP!TimerTdmaInterrupt
  <1>1. Server!TimerTdmaInterrupt
    BY DEF NextSlot
  <1>2. /\ Server!LastSlot = SP!LastSlot /\ Server!SyncFrame = SP!SyncFrame
        /\ Server!SyncTime = SP!SyncTime
    BY SameTimes
       DEF Server!LastSlot, SP!LastSlot, Server!SyncFrame, SP!SyncFrame,
           Server!DEFAULT_FRAME_DURATION_US, SP!DEFAULT_FRAME_DURATION_US
  <1>3. \A idx : Server!ClientOf(idx) = SP!ClientOf(idx)
    BY DEF Server!ClientOf, SP!ClientOf
  <1>4. PICK idx, first, elapsed :
          /\ idx = (active_slot_idx + 1) % SP!LastSlot
          /\ first = (IF idx = 0 THEN <<SP!SyncFrame>> ELSE <<>>)
          /\ elapsed = (IF idx = 0 THEN SP!SyncTime ELSE 0)
    OBVIOUS
  <1>5. /\ active_slot_idx' = idx
        /\ IF Server!ClientOf(idx) = Gateway
           THEN Server!GatewaySlot(idx, first, elapsed) /\ quiet' = 0
           ELSE air' = first /\ quiet' = quiet + 1 /\ UNCHANGED Server!rings
        /\ UNCHANGED Server!slots
    BY <1>1, <1>2, <1>4, Zenon DEF Server!TimerTdmaInterrupt
  <1>6. /\ SP!ClientOf(idx) = Gateway =>
             SP!GatewaySlot(idx, first, elapsed) /\ quiet' = 0
        /\ SP!ClientOf(idx) # Gateway =>
             air' = first /\ quiet' = quiet + 1 /\ UNCHANGED SP!rings
        /\ UNCHANGED SP!slots
    <2>1. /\ Server!ClientOf(idx) = SP!ClientOf(idx)
          /\ Server!slots = SP!slots /\ Server!slots' = SP!slots'
          /\ Server!rings = SP!rings /\ Server!rings' = SP!rings'
      BY <1>3 DEF Server!slots, SP!slots, Server!rings, SP!rings
    <2>2. Server!GatewaySlot(idx, first, elapsed)
            => SP!GatewaySlot(idx, first, elapsed)
      BY SameGatewaySlot
    <2> QED BY <1>5, <2>1, <2>2, Zenon
  <1>7. active_slot_idx' = idx
    BY <1>5
  <1> QED BY <1>4, <1>6, <1>7, Zenon DEF SP!TimerTdmaInterrupt

LEMMA SameRegistration ==
  ASSUME NEW c, Server!RegisterNewClient(c)
  PROVE  SP!RegisterNewClient(c)
  <1>1. /\ Server!GatewayDue = SP!GatewayDue
        /\ \A n : Server!FrameFor(n) = SP!FrameFor(n)
        /\ \A d, i, f : Server!Entry(d, i, f) = SP!Entry(d, i, f)
    BY DEF Server!GatewayDue, SP!GatewayDue, Server!FrameFor, SP!FrameFor,
           Server!Entry, SP!Entry,
           Server!DEFAULT_FRAME_DURATION_US, SP!DEFAULT_FRAME_DURATION_US,
           Server!TIME_SLOT_DURATION_US, SP!TIME_SLOT_DURATION_US
  <1>2. ASSUME NEW owners, Server!AppendSlots(owners)
        PROVE  SP!AppendSlots(owners)
    BY <1>1, <1>2 DEF Server!AppendSlots, SP!AppendSlots
  <1>3. PICK owners :
          owners = IF SP!GatewayDue THEN <<Gateway, c>> ELSE <<c>>
    OBVIOUS
  <1>4. Server!AppendSlots(owners) /\ num_clients' = num_clients + 1
    BY <1>1, <1>3, Zenon DEF Server!RegisterNewClient
  <1>5. SP!AppendSlots(owners)
    BY <1>2, <1>4
  <1> QED BY <1>3, <1>4, <1>5, Zenon DEF SP!RegisterNewClient

LEMMA SameCallback ==
  ASSUME NEW c, Server!TdmaServerCallback(c)
  PROVE  SP!TdmaServerCallback(c)
  <1>1. /\ Server!Registered(c) <=> SP!Registered(c)
        /\ Server!ClientOf(active_slot_idx) = SP!ClientOf(active_slot_idx)
        /\ UNCHANGED Server!slots => UNCHANGED SP!slots
    BY DEF Server!Registered, SP!Registered, Server!ClientOf, SP!ClientOf,
           Server!slots, SP!slots
  <1>2. \A q, n : Server!IdExists(q, c, n) <=> SP!IdExists(q, c, n)
    BY DEF Server!IdExists, SP!IdExists, Server!Waiting, SP!Waiting
  <1>3. Server!Queue(c) <=> SP!Queue(c)
    BY DEF Server!Queue, SP!Queue, Server!PutInto, SP!PutInto
  <1>4. CASE Server!ReceiveFromStranger(c)
    <2>1. SP!RegisterNewClient(c)
      BY <1>4, SameRegistration DEF Server!ReceiveFromStranger
    <2>2. SP!ReceiveFromStranger(c)
      BY <1>1, <1>3, <1>4, <2>1, Zenon
         DEF Server!ReceiveFromStranger, SP!ReceiveFromStranger
    <2> QED BY <2>2 DEF SP!TdmaServerCallback
  <1>5. CASE Server!ReceiveFromClient(c)
    <2>1. SP!ReceiveFromClient(c)
      BY <1>1, <1>2, <1>3, <1>5
         DEF Server!ReceiveFromClient, SP!ReceiveFromClient
    <2> QED BY <2>1 DEF SP!TdmaServerCallback
  <1> QED BY <1>4, <1>5 DEF Server!TdmaServerCallback

LEMMA ServerNext ==
  ASSUME [Next]_vars, gateway_restarts \in Nat, gateway_restarts' = 0
  PROVE  [SP!Next]_(SP!vars)
  <1>1. ASSUME NEW c \in Clients, Receive(c)
        PROVE  SP!Next
    <2>1. Server!TdmaServerCallback(c)
      BY <1>1 DEF Receive
    <2>2. SP!TdmaServerCallback(c)
      BY <2>1, SameCallback
    <2> QED BY <2>2 DEF SP!Next
  <1>2. CASE NextSlot
    BY <1>2, SlotOfGateway DEF SP!Next
  <1>3. CASE UNCHANGED server_vars
    BY <1>3 DEF server_vars, SP!vars, SP!slots, SP!rings
  <1>4. ~GatewayRestart
    BY DEF GatewayRestart
  <1> QED BY <1>1, <1>2, <1>3, <1>4
          DEF Next, vars, Hear, Miss, TimerTx, TimerRx, Collide, Restart

LEMMA ServerAssumptions ==
  /\ SP!IdsAssumption /\ SP!PacketsAssumption /\ SP!SlotsAssumption
  /\ SP!CapsAssumption /\ SP!ByteUsAssumption
  BY RatesAssumption, IdsAssumption, SlotsAssumption, CapsAssumption
     DEF RatesAssumption, IdsAssumption, SlotsAssumption, CapsAssumption,
         SP!IdsAssumption, SP!PacketsAssumption, SP!SlotsAssumption,
         SP!CapsAssumption, SP!ByteUsAssumption

LEMMA SameCount ==
  /\ SP!IsFiniteSet(Clients)
  /\ Cardinality(Clients) = SP!Cardinality(Clients)
  BY FrameFits
     DEF FrameFits, IsFiniteSet, SP!IsFiniteSet, Cardinality, SP!Cardinality

\* The invariants of the gateway, whatever the robots and the medium do.
LEMMA ServerStays ==
  ASSUME [Next]_vars, gateway_restarts \in Nat, gateway_restarts' = 0,
         SP!ServerInv
  PROVE  SP!ServerInv'
  <1>1. [SP!Next]_(SP!vars)
    BY ServerNext
  <1> QED BY <1>1, SameCount, ServerAssumptions, SP!ServerStep

-----------------------------------------------------------------------------
(* What the robots know. *)

IsTable(t) ==
  /\ {"frame_duration", "rx_duration", "tx_start"} \subseteq DOMAIN t
  /\ t.frame_duration \in Nat
RobotTypes ==
  /\ registration_flag \in [Clients -> {"UNREGISTERED", "REGISTERED"}]
  /\ DOMAIN client_table = Clients
  /\ \A c \in Clients : IsTable(client_table[c])
  /\ tx_timer \in [Clients -> Nat]
  /\ in_step \in [Clients -> BOOLEAN]

\* What has still to be heard is in the air, and meant for who hears it.
HeardIsSent ==
  /\ DOMAIN to_hear = Clients
  /\ \A c \in Clients :
       to_hear[c] \subseteq {k \in DOMAIN air : Concerns(air[k], c)}

\* A registered robot has a slot of the table.
SlotHeld(c) ==
  /\ client_table[c].tx_start \in 0 .. table_index
  /\ table[client_table[c].tx_start].client = c
SlotsHeld == \A c \in Clients : IsRegistered(c) => SlotHeld(c)

\* A robot in step is registered, and counts to its slot.
CountsToSlot(c) ==
  /\ IsRegistered(c)
  /\ client_table[c].frame_duration = FrameSlots
  /\ (active_slot_idx + tx_timer[c]) % FrameSlots = client_table[c].tx_start
StepsKept == \A c \in Clients : in_step[c] => CountsToSlot(c)

(***************************************************************************)
(* The inductive invariant: what the gateway's table says, what the air    *)
(* still carries of it, and what each robot has made of it.                *)
(***************************************************************************)
RobotsInv == RobotTypes /\ HeardIsSent /\ SlotsHeld /\ StepsKept
NetworkInv ==
  /\ gateway_restarts \in Nat
  /\ gateway_restarts = 0 => SP!ServerInv /\ RobotsInv

-----------------------------------------------------------------------------
(* The frame in slots. *)

LEMMA WholeSlots ==
  ASSUME NEW n \in Nat
  PROVE  Slots(n * 2500) = n
  BY DEF Slots, Server!TIME_SLOT_DURATION_US

LEMMA FrameFacts ==
  ASSUME SP!ServerInv
  PROVE  /\ FrameSlots = SP!LastSlot
         /\ FrameSlots \in Nat \ {0} /\ FrameSlots < MaxFrame
         /\ active_slot_idx \in 0 .. FrameSlots - 1
         /\ table_index \in 0 .. FrameSlots - 1
         /\ frame_duration_us = FrameSlots * 2500
  <1>1. SP!TypeOK /\ SP!SlotOwnership /\ SP!FrameMatchesWalk /\ SP!Counted
    BY DEF SP!ServerInv
  <1>2. SP!LastSlot \in Nat \ {0}
    BY <1>1, ServerAssumptions, SP!LastSlotType
  <1>3. frame_duration_us = SP!LastSlot * 2500
    BY <1>1 DEF SP!FrameMatchesWalk, SP!TIME_SLOT_DURATION_US
  <1>4. FrameSlots = SP!LastSlot
    BY <1>2, <1>3, WholeSlots DEF FrameSlots
  <1>5. /\ active_slot_idx \in Nat /\ active_slot_idx < SP!LastSlot
        /\ table_index \in Nat /\ table_index < SP!LastSlot
    BY <1>1 DEF SP!TypeOK, SP!FrameMatchesWalk
  <1>6. SP!LastSlot < MaxFrame
    <2>1. /\ SP!IsFiniteSet(Clients) /\ DefaultSlots < MaxFrame
          /\ SP!Cardinality(Clients)
               < (MaxFrame - 1) - (MaxFrame - 1) \div SlotsPerGateway
          /\ MaxFrame \in Nat
      BY SameCount, FrameFits, ClientConstants DEF FrameFits, ClientConstants
    <2> QED BY <1>1, <2>1, ServerAssumptions, SP!FrameBound
  <1> QED BY <1>2, <1>3, <1>4, <1>5, <1>6

\* The first slot is the gateway's.
LEMMA FirstSlot ==
  ASSUME SP!ServerInv
  PROVE  table[0].client = Gateway
  <1>1. 0 \in 0 .. table_index /\ 0 % SlotsPerGateway = 0
    BY SlotsAssumption DEF SlotsAssumption, SP!ServerInv, SP!TypeOK
  <1> QED BY <1>1 DEF SP!ServerInv, SP!SlotOwnership

\* What a robot reads in a frame, in slots.
LEMMA SyncRead ==
  ASSUME SP!ServerInv, NEW k \in DOMAIN air, NEW f, f = air[k],
         f.type = "sync"
  PROVE  active_slot_idx = 0 /\ Slots(f.frame_period) = FrameSlots
  BY DEF SP!ServerInv, SP!AirTruthful, SP!Truthful, SP!TruthOfSync, FrameSlots

LEMMA SlotsRoundUp ==
  ASSUME NEW n \in Nat, NEW a \in Nat, a <= n, NEW p \in Int,
         n * 2500 - a * 2500 - p \in 0 .. 2499
  PROVE  (p + 2500 - 1) \div 2500 = n - a
  OBVIOUS

LEMMA TableRead ==
  ASSUME SP!ServerInv, NEW k \in DOMAIN air, NEW f, f = air[k],
         f.type = "table"
  PROVE  /\ f.dst \in Clients
         /\ TableIn(f).frame_duration = FrameSlots
         /\ TableIn(f).tx_start \in 0 .. table_index
         /\ table[TableIn(f).tx_start].client = f.dst
         /\ NextPeriod(f) = FrameSlots - active_slot_idx
  <1>1. SP!TruthOfTable(f)
    BY DEF SP!ServerInv, SP!AirTruthful, SP!Truthful
  <1>2. /\ TableIn(f).frame_duration = FrameSlots
        /\ TableIn(f).tx_start = SP!Begun(f.tx_start)
    BY <1>1 DEF SP!TruthOfTable, TableIn, FrameSlots, Slots, SP!Begun,
                Server!TIME_SLOT_DURATION_US, SP!TIME_SLOT_DURATION_US
  <1>3. NextPeriod(f) = FrameSlots - active_slot_idx
    <2>1. PICK n \in Nat, a \in Nat :
            /\ n = FrameSlots /\ a = active_slot_idx /\ a <= n
            /\ frame_duration_us = n * 2500
      BY FrameFacts
    <2>2. PICK p \in Int : p = f.next_period_start
      BY <1>1 DEF SP!TruthOfTable
    <2>3. n * 2500 - a * 2500 - p \in 0 .. 2499
      <3> DEFINE l == SP!Late(f, frame_duration_us, active_slot_idx)
      <3>1. l \in 0 .. SP!TIME_SLOT_DURATION_US - 1
        BY <1>1 DEF SP!TruthOfTable
      <3>2. l = frame_duration_us - active_slot_idx * 2500 - f.next_period_start
        BY DEF SP!Late, SP!TIME_SLOT_DURATION_US
      <3> HIDE DEF l
      <3>3. l \in 0 .. 2499
        BY <3>1 DEF SP!TIME_SLOT_DURATION_US
      <3>4. l = n * 2500 - a * 2500 - p
        BY <2>1, <2>2, <3>2
      <3> QED BY <3>3, <3>4
    <2>4. NextPeriod(f) = (p + 2500 - 1) \div 2500
      BY <2>2 DEF NextPeriod, SlotsUntil, Slots, Server!TIME_SLOT_DURATION_US
    <2>5. (p + 2500 - 1) \div 2500 = n - a
      BY <2>1, <2>3, SlotsRoundUp
    <2> QED BY <2>1, <2>4, <2>5
  <1> QED BY <1>1, <1>2, <1>3 DEF SP!TruthOfTable

-----------------------------------------------------------------------------
(* Slots pass. *)

LEMMA NoMultiple ==
  ASSUME NEW n \in Nat \ {0}, NEW k \in Int, NEW y \in Int,
         y = n * k, y < n, y > -n
  PROVE  k = 0
  <1>1. CASE k >= 1
     <2>1. n * k >= n
       BY <1>1
     <2> QED BY <2>1
  <1>2. CASE k <= -1
     <2>1. n * k <= -n
       BY <1>2
     <2> QED BY <2>1
  <1> QED BY <1>1, <1>2

LEMMA Around ==
  ASSUME NEW x \in Nat, NEW n \in Nat \ {0}
  PROVE  (x + n) % n = x % n
  <1>1. PICK q \in Int, r \in 0 .. n - 1 : x % n = r /\ x = n * q + r
    <2>1. x % n \in 0 .. n - 1 /\ x \div n \in Int /\ x = n * (x \div n) + (x % n)
      OBVIOUS
    <2> QED BY <2>1
  <1>2. PICK p \in Int, s \in 0 .. n - 1 : (x + n) % n = s /\ x + n = n * p + s
    <2>1. PICK y \in Nat : y = x + n 
      OBVIOUS
    <2>2. y % n \in 0 .. n - 1 /\ y \div n \in Int /\ y = n * (y \div n) + (y % n)
      OBVIOUS
    <2> QED BY <2>1, <2>2
  <1>3. PICK k \in Int : k = p - q - 1
    OBVIOUS
  <1>4. n * k = r - s
    BY <1>1, <1>2, <1>3
  <1>5. k = 0
    BY <1>4, NoMultiple
  <1> QED BY <1>1, <1>2, <1>4, <1>5

\* The walk goes on by one, and the timer with it.
LEMMA TogetherByOne ==
  ASSUME NEW n \in Nat \ {0}, NEW a \in 0 .. n - 1, NEW t \in Nat \ {0},
         NEW b, b = IF a + 1 = n THEN 0 ELSE a + 1
  PROVE  (b + (t - 1)) % n = (a + t) % n
  <1>1. CASE a + 1 = n
    <2>1. PICK x \in Nat : x = t - 1
      OBVIOUS
    <2>2. a + t = x + n /\ b + (t - 1) = x
      BY <1>1, <2>1
    <2> QED BY <2>1, <2>2, Around
  <1>2. CASE a + 1 # n
    <2>1. b + (t - 1) = a + t
      BY <1>2
    <2> QED BY <2>1
  <1> QED BY <1>1, <1>2

LEMMA SlotHeldStays ==
  ASSUME SP!ServerInv, [SP!Next]_(SP!vars),
         NEW c \in Clients, SlotHeld(c),
         client_table'[c].tx_start = client_table[c].tx_start
  PROVE  SlotHeld(c)'
  <1>1. /\ table_index' >= table_index /\ table_index' \in Nat
        /\ \A i \in 0 .. table_index : table'[i] = table[i]
    BY ServerAssumptions, SP!TableGrows DEF SP!ServerInv
  <1>2. table_index \in Nat
    BY DEF SP!ServerInv, SP!TypeOK
  <1>3. PICK i \in 0 .. table_index :
          i = client_table[c].tx_start /\ table[i].client = c
    BY DEF SlotHeld
  <1>4. i \in 0 .. table_index' /\ table'[i].client = c
    BY <1>1, <1>2, <1>3
  <1> QED BY <1>3, <1>4 DEF SlotHeld

LEMMA NextSlotKeeps ==
  ASSUME SP!ServerInv, RobotsInv, NextSlot,
         [SP!Next]_(SP!vars), SP!TimerTdmaInterrupt
  PROVE  RobotsInv'
  <1>1. /\ UNCHANGED <<registration_flag, client_table, in_step>>
        /\ frame_duration_us' = frame_duration_us
        /\ to_hear' = [c \in Clients |->
                          {k \in DOMAIN air' : Concerns(air'[k], c)}]
    BY DEF NextSlot, Client!Tick, SP!TimerTdmaInterrupt, SP!slots
  <1>2. ASSUME NEW c \in Clients
        PROVE  /\ tx_timer[c] \in Nat \ {0}
               /\ tx_timer'[c] \in Nat /\ tx_timer'[c] = tx_timer[c] - 1
    BY DEF NextSlot, Client!Tick, Client!Elapse, Client!NoTimer,
           RobotsInv, RobotTypes
  <1>3. DOMAIN tx_timer' = Clients /\ tx_timer' = [c \in Clients |-> tx_timer'[c]]
    BY DEF NextSlot, Client!Tick
  <1>4. RobotTypes'
    BY <1>1, <1>2, <1>3 DEF RobotsInv, RobotTypes
  <1>5. HeardIsSent'
    BY <1>1 DEF HeardIsSent, Concerns
  <1>6. SlotsHeld'
    BY <1>1, SlotHeldStays DEF RobotsInv, SlotsHeld, IsRegistered
  <1>7. StepsKept'
    <2> SUFFICES ASSUME NEW c \in Clients, in_step'[c]
                 PROVE  CountsToSlot(c)'
      BY DEF StepsKept
    <2>1. CountsToSlot(c)
      BY <1>1 DEF RobotsInv, StepsKept
    <2>2. PICK n \in Nat \ {0} : n = FrameSlots
      BY FrameFacts
    <2>3. FrameSlots' = n
      BY <1>1, <2>2 DEF FrameSlots, Slots, Server!TIME_SLOT_DURATION_US
    <2>4. PICK a \in 0 .. n - 1 : a = active_slot_idx
      BY <2>2, FrameFacts
    <2>5. PICK t \in Nat \ {0} : t = tx_timer[c] /\ tx_timer'[c] = t - 1
      BY <1>2
    <2>6. active_slot_idx' = IF a + 1 = n THEN 0 ELSE a + 1
      <3>1. SP!LastSlot = n
        BY <2>2, FrameFacts
      <3> QED BY <2>4, <3>1, ServerAssumptions, SP!TimerIndexLemma
              DEF SP!ServerInv
    <2>7. (active_slot_idx' + (t - 1)) % n = (a + t) % n
      BY <2>4, <2>5, <2>6, TogetherByOne
    <2>8. /\ (a + t) % n = client_table[c].tx_start
          /\ client_table[c].frame_duration = n /\ IsRegistered(c)
      BY <2>1, <2>2, <2>4, <2>5 DEF CountsToSlot
    <2>9. (active_slot_idx' + tx_timer'[c]) % n = client_table'[c].tx_start
      BY <1>1, <2>5, <2>7, <2>8
    <2> QED BY <1>1, <2>3, <2>8, <2>9 DEF CountsToSlot, IsRegistered
  <1> QED BY <1>4, <1>5, <1>6, <1>7 DEF RobotsInv

-----------------------------------------------------------------------------
(* Robots hear, speak and are reset. *)

\* What a step does not touch stays as it was.
LEMMA Untouched ==
  ASSUME UNCHANGED <<table, table_index, frame_duration_us, active_slot_idx>>,
         NEW d \in Clients,
         registration_flag'[d] = registration_flag[d],
         client_table'[d] = client_table[d]
  PROVE  /\ SlotHeld(d) => SlotHeld(d)'
         /\ IsRegistered(d)' <=> IsRegistered(d)
         /\ CountsToSlot(d) /\ tx_timer'[d] = tx_timer[d] => CountsToSlot(d)'
         /\ FrameSlots' = FrameSlots
  BY DEF SlotHeld, IsRegistered, CountsToSlot, FrameSlots, Slots,
         Server!TIME_SLOT_DURATION_US

LEMMA PassesKeeps ==
  ASSUME HeardIsSent, UNCHANGED air, NEW c \in Clients, NEW k, Passes(c, k)
  PROVE  HeardIsSent' /\ k \in DOMAIN air /\ Concerns(air[k], c)
  BY DEF HeardIsSent, Passes, Concerns

LEMMA HearSync ==
  ASSUME SP!ServerInv, RobotsInv, NEW c \in Clients,
         NEW k \in DOMAIN air, NEW f, f = air[k], f.type = "sync",
         Client!SyncFrame(c, Slots(f.frame_period)), UNCHANGED server_vars
  PROVE  /\ CountsToSlot(c)' /\ SlotHeld(c)'
         /\ tx_timer' = [tx_timer EXCEPT ![c] = tx_timer'[c]]
         /\ tx_timer'[c] \in Nat
         /\ registration_flag' = [registration_flag EXCEPT ![c] = "REGISTERED"]
         /\ client_table' = [client_table EXCEPT ![c] = client_table'[c]]
         /\ IsTable(client_table'[c])
  <1>1. PICK n \in Nat \ {0} : n = FrameSlots /\ n < MaxFrame /\ table_index < n
    BY FrameFacts, ClientConstants DEF ClientConstants
  <1>2. active_slot_idx = 0 /\ Slots(f.frame_period) = n
    BY <1>1, SyncRead
  <1>3. IsRegistered(c) /\ SlotHeld(c)
    BY DEF Client!SyncFrame, IsRegistered, RobotsInv, SlotsHeld
  <1>4. PICK s \in 0 .. table_index :
          s = client_table[c].tx_start /\ table[s].client = c
    BY <1>3 DEF SlotHeld
  <1>5. s \in Nat \ {0} /\ s < n
    <2>1. c # Gateway
      BY IdsAssumption DEF IdsAssumption
    <2> QED BY <1>1, <1>4, <2>1, FirstSlot DEF SP!ServerInv, SP!TypeOK
  <1>6. /\ tx_timer' = [tx_timer EXCEPT ![c] = s]
        /\ registration_flag' = registration_flag
        /\ registration_flag[c] = "REGISTERED"
    BY <1>4, <1>5 DEF Client!SyncFrame, Client!AfterSync
  <1>7. /\ DOMAIN client_table = Clients /\ DOMAIN tx_timer = Clients
        /\ DOMAIN registration_flag = Clients
        /\ {"frame_duration", "rx_duration", "tx_start"}
             \subseteq DOMAIN client_table[c]
    BY DEF RobotsInv, RobotTypes, IsTable
  <1>8. client_table' = [client_table EXCEPT ![c] =
          [client_table[c] EXCEPT !.frame_duration = n, !.rx_duration = n]]
    <2>1. n \in 1 .. MaxFrame - 1
      BY <1>1, ClientConstants DEF ClientConstants
    <2>2. Client!Synced(client_table[c], n) =
            [client_table[c] EXCEPT !.frame_duration = n, !.rx_duration = n]
      BY <2>1 DEF Client!Synced
    <2>3. client_table' =
            [client_table EXCEPT ![c] = Client!Synced(client_table[c], n)]
      BY <1>2 DEF Client!SyncFrame
    <2> QED BY <2>2, <2>3
  <1>9. /\ client_table'[c].tx_start = s
        /\ client_table'[c].frame_duration = n
        /\ IsTable(client_table'[c])
    BY <1>4, <1>7, <1>8 DEF IsTable
  <1>10. UNCHANGED <<table, table_index, frame_duration_us, active_slot_idx>>
    BY DEF server_vars
  <1>11. FrameSlots' = n
    BY <1>1, <1>10 DEF FrameSlots, Slots, Server!TIME_SLOT_DURATION_US
  <1>12. (0 + s) % n = s
    BY <1>5
  <1>13. tx_timer'[c] = s /\ registration_flag'[c] = "REGISTERED"
    BY <1>6, <1>7
  <1>14. CountsToSlot(c)'
    BY <1>2, <1>9, <1>10, <1>11, <1>12, <1>13 DEF CountsToSlot, IsRegistered
  <1>15. SlotHeld(c)'
    BY <1>4, <1>9, <1>10 DEF SlotHeld
  <1>16. registration_flag' = [registration_flag EXCEPT ![c] = "REGISTERED"]
    <2>1. registration_flag \in [Clients -> {"UNREGISTERED", "REGISTERED"}]
      BY DEF RobotsInv, RobotTypes
    <2> QED BY <1>6, <2>1
  <1> QED BY <1>5, <1>6, <1>7, <1>8, <1>9, <1>13, <1>14, <1>15, <1>16

LEMMA HearTable ==
  ASSUME SP!ServerInv, RobotsInv, NEW c \in Clients,
         NEW k \in DOMAIN air, NEW f, f = air[k], f.type = "table", f.dst = c,
         Client!UpdateTable(c, TableIn(f), NextPeriod(f)), UNCHANGED server_vars
  PROVE  /\ CountsToSlot(c)' /\ SlotHeld(c)'
         /\ tx_timer' = [tx_timer EXCEPT ![c] = tx_timer'[c]]
         /\ tx_timer'[c] \in Nat
         /\ registration_flag' = [registration_flag EXCEPT ![c] = "REGISTERED"]
         /\ client_table' = [client_table EXCEPT ![c] = client_table'[c]]
         /\ IsTable(client_table'[c])
  <1>1. PICK n \in Nat \ {0} : n = FrameSlots /\ table_index < n
    BY FrameFacts
  <1>2. PICK a \in 0 .. n - 1 : a = active_slot_idx
    BY <1>1, FrameFacts
  <1>3. PICK s \in 0 .. table_index :
          /\ s = TableIn(f).tx_start /\ table[s].client = c
          /\ TableIn(f).frame_duration = n /\ NextPeriod(f) = n - a
    BY <1>1, <1>2, TableRead
  <1>4. s \in Nat /\ s < n
    BY <1>1 DEF SP!ServerInv, SP!TypeOK
  <1>5. /\ DOMAIN client_table = Clients /\ DOMAIN tx_timer = Clients
        /\ DOMAIN registration_flag = Clients
    BY DEF RobotsInv, RobotTypes
  <1>6. /\ tx_timer' = [tx_timer EXCEPT ![c] = (n - a) + s]
        /\ registration_flag' = [registration_flag EXCEPT ![c] = "REGISTERED"]
        /\ client_table' = [client_table EXCEPT ![c] = TableIn(f)]
    BY <1>3 DEF Client!UpdateTable
  <1>7. /\ client_table'[c].tx_start = s
        /\ client_table'[c].frame_duration = n
        /\ IsTable(client_table'[c])
    <2>1. client_table'[c] = TableIn(f)
      BY <1>5, <1>6
    <2>2. IsTable(TableIn(f))
      <3>1. TableIn(f).frame_duration \in Nat
        BY <1>3
      <3> QED BY <3>1 DEF TableIn, IsTable
    <2> QED BY <1>3, <2>1, <2>2
  <1>8. UNCHANGED <<table, table_index, frame_duration_us, active_slot_idx>>
    BY DEF server_vars
  <1>9. FrameSlots' = n
    BY <1>1, <1>8 DEF FrameSlots, Slots, Server!TIME_SLOT_DURATION_US
  <1>10. PICK t \in Nat : t = (n - a) + s /\ a + t = s + n
    BY <1>4
  <1>11. (a + t) % n = s
    <2>1. (s + n) % n = s % n
      BY <1>4, Around
    <2>2. s % n = s
      BY <1>4
    <2> QED BY <1>10, <2>1, <2>2
  <1>12. tx_timer'[c] = t /\ registration_flag'[c] = "REGISTERED"
    BY <1>5, <1>6, <1>10
  <1>13. CountsToSlot(c)'
    BY <1>2, <1>7, <1>8, <1>9, <1>11, <1>12 DEF CountsToSlot, IsRegistered
  <1>14. SlotHeld(c)'
    BY <1>3, <1>7, <1>8 DEF SlotHeld
  <1> QED BY <1>5, <1>6, <1>7, <1>10, <1>12, <1>13, <1>14

LEMMA HearKeeps ==
  ASSUME SP!ServerInv, RobotsInv, NEW c \in Clients, Hear(c)
  PROVE  RobotsInv'
  <1>1. PICK k \in to_hear[c] : Passes(c, k) /\ TellClient(c, air[k])
    BY DEF Hear
  <1>2. UNCHANGED server_vars /\ in_step' = [in_step EXCEPT ![c] = TRUE]
    BY DEF Hear
  <1>3. HeardIsSent' /\ k \in DOMAIN air /\ Concerns(air[k], c)
    BY <1>1, <1>2, PassesKeeps DEF server_vars, RobotsInv
  <1>4. PICK f : f = air[k]
    OBVIOUS
  <1>5. /\ CountsToSlot(c)' /\ SlotHeld(c)'
        /\ tx_timer' = [tx_timer EXCEPT ![c] = tx_timer'[c]]
        /\ tx_timer'[c] \in Nat
        /\ registration_flag' = [registration_flag EXCEPT ![c] = "REGISTERED"]
        /\ client_table' = [client_table EXCEPT ![c] = client_table'[c]]
        /\ IsTable(client_table'[c])
    <2>1. CASE f.type = "sync"
      <3>1. Client!SyncFrame(c, Slots(f.frame_period))
        BY <1>1, <1>4, <2>1 DEF TellClient
      <3> QED BY <1>2, <1>3, <1>4, <2>1, <3>1, HearSync
    <2>2. CASE f.type # "sync"
      <3>1. /\ Client!UpdateTable(c, TableIn(f), NextPeriod(f))
            /\ f.type = "table" /\ f.dst = c
        BY <1>1, <1>3, <1>4, <2>2 DEF TellClient, Concerns
      <3> QED BY <1>2, <1>3, <1>4, <3>1, HearTable
    <2> QED BY <2>1, <2>2
  <1>6. RobotTypes'
    BY <1>2, <1>5 DEF RobotsInv, RobotTypes
  <1>7. UNCHANGED <<table, table_index, frame_duration_us, active_slot_idx>>
    BY <1>2 DEF server_vars
  <1>8. ASSUME NEW d \in Clients, d # c
        PROVE  /\ registration_flag'[d] = registration_flag[d]
               /\ client_table'[d] = client_table[d]
               /\ tx_timer'[d] = tx_timer[d] /\ in_step'[d] = in_step[d]
    BY <1>2, <1>5, <1>8 DEF RobotsInv, RobotTypes
  <1>9. SlotsHeld'
    BY <1>5, <1>7, <1>8, Untouched DEF RobotsInv, SlotsHeld
  <1>10. StepsKept'
    BY <1>5, <1>7, <1>8, Untouched DEF RobotsInv, StepsKept
  <1> QED BY <1>3, <1>6, <1>9, <1>10 DEF RobotsInv

\* A robot sends: its next turn is one frame away.
LEMMA TimerTxKeeps ==
  ASSUME SP!ServerInv, RobotsInv, NEW c \in Clients, TimerTx(c)
  PROVE  RobotsInv'
  <1>1. /\ UNCHANGED <<table, table_index, frame_duration_us, active_slot_idx, air>>
        /\ UNCHANGED <<registration_flag, client_table, to_hear, in_step>>
        /\ tx_timer[c] = 0
    BY DEF TimerTx, server_vars, Client!TimerTxInterrupt,
           Client!TimerTxRegistered, Client!TimerTxUnregistered
  <1>2. PICK t : /\ tx_timer' = [tx_timer EXCEPT ![c] = t]
                 /\ \/ registration_flag[c] = "REGISTERED"
                       /\ t = client_table[c].frame_duration
                    \/ registration_flag[c] = "UNREGISTERED" /\ t \in RetrySlots
    BY DEF TimerTx, Client!TimerTxInterrupt, Client!Rearmed,
           Client!TimerTxRegistered, Client!TimerTxUnregistered
  <1>3. PICK n \in Nat \ {0} : n = FrameSlots /\ active_slot_idx \in 0 .. n - 1
    BY FrameFacts
  <1>4. t \in Nat
    BY <1>2, ClientConstants DEF ClientConstants, RobotsInv, RobotTypes, IsTable
  <1>5. tx_timer' \in [Clients -> Nat] /\ tx_timer'[c] = t
    BY <1>2, <1>4 DEF RobotsInv, RobotTypes
  <1>6. RobotTypes' /\ HeardIsSent'
    BY <1>1, <1>5 DEF RobotsInv, RobotTypes, HeardIsSent, Concerns
  <1>7. SlotsHeld'
    BY <1>1, Untouched DEF RobotsInv, SlotsHeld
  <1>8. StepsKept'
    <2> SUFFICES ASSUME NEW d \in Clients, in_step[d]
                 PROVE  CountsToSlot(d)'
      BY <1>1 DEF StepsKept
    <2>1. CountsToSlot(d)
      BY DEF RobotsInv, StepsKept
    <2>2. CASE d # c
      <3>1. tx_timer'[d] = tx_timer[d]
        BY <1>2, <2>2 DEF RobotsInv, RobotTypes
      <3> QED BY <1>1, <2>1, <3>1, Untouched
    <2>3. CASE d = c
      <3>1. PICK a \in 0 .. n - 1 : a = active_slot_idx
        BY <1>3
      <3>2. /\ t = n /\ (a + 0) % n = client_table[c].tx_start
            /\ IsRegistered(c) /\ client_table[c].frame_duration = n
        BY <1>1, <1>2, <1>3, <2>1, <2>3, <3>1 DEF CountsToSlot, IsRegistered
      <3>3. (a + t) % n = client_table[c].tx_start
        <4>1. a + 0 = a /\ a \in Nat
          BY <3>1
        <4> QED BY <3>2, <4>1, Around
      <3>4. FrameSlots' = n /\ IsRegistered(c)' /\ active_slot_idx' = a
        BY <1>1, <1>3, <3>1, <3>2, Untouched
      <3> QED BY <1>1, <1>5, <2>3, <3>2, <3>3, <3>4 DEF CountsToSlot
    <2> QED BY <2>2, <2>3
  <1> QED BY <1>6, <1>7, <1>8 DEF RobotsInv

\* Steps that change nothing a robot counts with.
LEMMA IdleKeeps ==
  ASSUME RobotsInv, HeardIsSent',
         UNCHANGED <<table, table_index, frame_duration_us, active_slot_idx>>,
         UNCHANGED <<registration_flag, client_table, tx_timer, in_step>>
  PROVE  RobotsInv'
  <1>1. RobotTypes'
    BY DEF RobotsInv, RobotTypes
  <1>2. SlotsHeld'
    BY Untouched DEF RobotsInv, SlotsHeld
  <1>3. StepsKept'
    BY Untouched DEF RobotsInv, StepsKept
  <1> QED BY <1>1, <1>2, <1>3 DEF RobotsInv

LEMMA RestartKeeps ==
  ASSUME RobotsInv, NEW c \in Clients, Restart(c)
  PROVE  RobotsInv'
  <1>1. /\ UNCHANGED <<table, table_index, frame_duration_us, active_slot_idx, air>>
        /\ to_hear' = to_hear /\ in_step' = [in_step EXCEPT ![c] = FALSE]
    BY DEF Restart, server_vars
  <1>2. /\ registration_flag' = [registration_flag EXCEPT ![c] = "UNREGISTERED"]
        /\ client_table' = [client_table EXCEPT ![c] = Client!DefaultTable]
        /\ tx_timer' = [tx_timer EXCEPT ![c] = ClientTxStart]
    BY DEF Restart, Client!Restart
  <1>3. IsTable(Client!DefaultTable) /\ ClientTxStart \in Nat
    BY ClientConstants DEF ClientConstants, Client!DefaultTable, IsTable
  <1>4. RobotTypes'
    BY <1>1, <1>2, <1>3 DEF RobotsInv, RobotTypes
  <1>5. HeardIsSent'
    BY <1>1 DEF RobotsInv, HeardIsSent, Concerns
  <1>6. ~ IsRegistered(c)' /\ ~ in_step'[c]
    BY <1>1, <1>2 DEF RobotsInv, RobotTypes, IsRegistered
  <1>7. ASSUME NEW d \in Clients, d # c
        PROVE  /\ registration_flag'[d] = registration_flag[d]
               /\ client_table'[d] = client_table[d]
               /\ tx_timer'[d] = tx_timer[d] /\ in_step'[d] = in_step[d]
    BY <1>1, <1>2, <1>7 DEF RobotsInv, RobotTypes
  <1>8. SlotsHeld'
    BY <1>1, <1>6, <1>7, Untouched DEF RobotsInv, SlotsHeld
  <1>9. StepsKept'
    BY <1>1, <1>6, <1>7, Untouched DEF RobotsInv, StepsKept
  <1> QED BY <1>4, <1>5, <1>8, <1>9 DEF RobotsInv

\* The gateway receives: either the frame stays, or nobody is in step.
LEMMA ReceiveKeeps ==
  ASSUME SP!ServerInv, RobotsInv, [SP!Next]_(SP!vars),
         NEW c \in Clients, Receive(c)
  PROVE  RobotsInv'
  <1>1. /\ UNCHANGED <<registration_flag, client_table, tx_timer, to_hear>>
        /\ \A d \in Clients : to_hear[d] = {}
        /\ in_step' = IF frame_duration_us' = frame_duration_us THEN in_step
                      ELSE [d \in Clients |-> FALSE]
    BY DEF Receive, client_vars, Quiet
  <1>2. active_slot_idx' = active_slot_idx
    BY DEF Receive, Server!TdmaServerCallback, Server!ReceiveFromStranger,
           Server!ReceiveFromClient
  <1>3. RobotTypes'
    BY <1>1 DEF RobotsInv, RobotTypes
  <1>4. HeardIsSent'
    BY <1>1 DEF RobotsInv, HeardIsSent
  <1>5. SlotsHeld'
    BY <1>1, SlotHeldStays DEF RobotsInv, SlotsHeld, IsRegistered
  <1>6. StepsKept'
    <2>1. CASE frame_duration_us' = frame_duration_us
      BY <1>1, <1>2, <2>1
         DEF RobotsInv, StepsKept, CountsToSlot, IsRegistered, FrameSlots,
             Slots, Server!TIME_SLOT_DURATION_US
    <2>2. CASE frame_duration_us' # frame_duration_us
      BY <1>1, <2>2 DEF StepsKept
    <2> QED BY <2>1, <2>2
  <1> QED BY <1>3, <1>4, <1>5, <1>6 DEF RobotsInv

-----------------------------------------------------------------------------
(* The invariant. *)

LEMMA NetworkInit == Init => NetworkInv
  <1> SUFFICES ASSUME Init PROVE NetworkInv
    OBVIOUS
  <1>1. SP!ServerInv
    <2>1. SP!Init
      BY DEF Init, Server!Init, SP!Init, Server!Entry, SP!Entry,
             Server!DEFAULT_FRAME_DURATION_US, SP!DEFAULT_FRAME_DURATION_US,
             Server!TIME_SLOT_DURATION_US, SP!TIME_SLOT_DURATION_US
    <2> QED BY <2>1, ServerAssumptions, SP!ServerInit
  <1>2. RobotTypes
    <2>1. IsTable(Client!DefaultTable) /\ ClientTxStart \in Nat
      BY ClientConstants DEF ClientConstants, Client!DefaultTable, IsTable
    <2> QED BY <2>1 DEF Init, Client!Init, RobotTypes
  <1>3. HeardIsSent /\ SlotsHeld /\ StepsKept
    BY DEF Init, Client!Init, HeardIsSent, SlotsHeld, StepsKept, IsRegistered
  <1> QED BY <1>1, <1>2, <1>3 DEF Init, NetworkInv, RobotsInv

LEMMA NetworkStep == NetworkInv /\ [Next]_vars => NetworkInv'
  <1> SUFFICES ASSUME NetworkInv, [Next]_vars
               PROVE  NetworkInv'
    OBVIOUS
  <1>1. CASE GatewayRestart
    <2>1. gateway_restarts' \in Nat /\ gateway_restarts' # 0
      BY <1>1 DEF GatewayRestart, NetworkInv
    <2> QED BY <2>1 DEF NetworkInv
  <1>2. CASE ~ GatewayRestart
    <2>1. gateway_restarts' = gateway_restarts
      BY <1>2 DEF Next, vars, resets, NextSlot, Hear, Miss, TimerTx, TimerRx,
                  Receive, Collide, Restart
    <2>2. CASE gateway_restarts # 0
      BY <2>1, <2>2 DEF NetworkInv
    <2>3. CASE gateway_restarts = 0
      <3>1. SP!ServerInv /\ RobotsInv
        BY <2>3 DEF NetworkInv
      <3>2. [SP!Next]_(SP!vars) /\ SP!ServerInv'
        BY <2>1, <2>3, <3>1, ServerNext, ServerStays DEF NetworkInv
      <3>3. ASSUME NextSlot PROVE RobotsInv'
        <4>1. SP!TimerTdmaInterrupt
          BY <3>3, SlotOfGateway
        <4>2. SP!ServerInv /\ RobotsInv /\ [SP!Next]_(SP!vars)
          BY <3>1, <3>2
        <4> QED BY <3>3, <4>1, <4>2, NextSlotKeeps
      <3>4. ASSUME Collide \/ \E c \in Clients : Miss(c) \/ TimerRx(c)
            PROVE  RobotsInv'
        <4>1. /\ UNCHANGED <<table, table_index, frame_duration_us,
                              active_slot_idx, air>>
              /\ UNCHANGED <<registration_flag, client_table, tx_timer, in_step>>
          BY <3>4 DEF Miss, TimerRx, Collide, server_vars, client_vars,
                      Client!TimerRxInterrupt
        <4>2. HeardIsSent'
          <5>1. ASSUME NEW c \in Clients, Miss(c) PROVE HeardIsSent'
            BY <3>1, <4>1, <5>1, PassesKeeps DEF Miss, RobotsInv
          <5>2. CASE to_hear' = to_hear
            BY <3>1, <4>1, <5>2 DEF RobotsInv, HeardIsSent, Concerns
          <5> QED BY <3>4, <5>1, <5>2 DEF TimerRx, Collide
        <4> QED BY <3>1, <4>1, <4>2, IdleKeeps
      <3>5. ASSUME UNCHANGED vars PROVE RobotsInv'
        <4>1. HeardIsSent'
          BY <3>1, <3>5 DEF vars, server_vars, RobotsInv, HeardIsSent, Concerns
        <4>2. /\ UNCHANGED <<table, table_index, frame_duration_us,
                              active_slot_idx>>
              /\ UNCHANGED <<registration_flag, client_table, tx_timer, in_step>>
          BY <3>5 DEF vars, server_vars, client_vars
        <4>3. RobotsInv
          BY <3>1
        <4> QED BY <4>1, <4>2, <4>3, IdleKeeps
      <3>6. ASSUME NEW c \in Clients,
                   Hear(c) \/ TimerTx(c) \/ Receive(c) \/ Restart(c)
            PROVE  RobotsInv'
        <4>1. CASE Hear(c)
          BY <3>1, <4>1, HearKeeps
        <4>2. CASE TimerTx(c)
          BY <3>1, <4>2, TimerTxKeeps
        <4>3. CASE Receive(c)
          BY <3>1, <3>2, <4>3, ReceiveKeeps, Zenon
        <4>4. CASE Restart(c)
          BY <3>1, <4>4, RestartKeeps
        <4> QED BY <3>6, <4>1, <4>2, <4>3, <4>4
      <3>7. RobotsInv'
        BY <1>2, <3>3, <3>4, <3>5, <3>6 DEF Next
      <3> QED BY <2>1, <3>2, <3>7 DEF NetworkInv
    <2> QED BY <2>2, <2>3
  <1> QED BY <1>1, <1>2

THEOREM NetworkInvariant == Spec => []NetworkInv
  BY NetworkInit, NetworkStep, PTL DEF Spec

(***************************************************************************)
(* As long as the gateway is not reset, a robot that believes it is        *)
(* registered holds the slot it believes it has.                           *)
(***************************************************************************)
THEOREM SlotsAgreed == Spec => []SlotAgreement
  <1>1. NetworkInv => SlotAgreement
    BY DEF NetworkInv, RobotsInv, SlotsHeld, SlotHeld, SlotAgreement,
           Server!ClientOf, SP!ServerInv, SP!TypeOK
  <1> QED BY <1>1, NetworkInvariant, PTL

(***************************************************************************)
(* A robot that has heard of the frame as it is counts to its slot,        *)
(* whatever was lost and whoever was reset before.                         *)
(***************************************************************************)
THEOREM TimeKept == Spec => []InStepKeepsTime
  <1>1. NetworkInv => InStepKeepsTime
    BY DEF NetworkInv, RobotsInv, StepsKept, CountsToSlot, InStepKeepsTime
  <1> QED BY <1>1, NetworkInvariant, PTL

\* Of the robots in step, one at most speaks in a slot.
THEOREM OneSpeaks == Spec => []NobodyElseSpeaks
  <1>1. NetworkInv => NobodyElseSpeaks
    <2> SUFFICES ASSUME NetworkInv, gateway_restarts = 0,
                        NEW c \in Clients, NEW d \in Clients,
                        in_step[c], in_step[d], tx_timer[c] = 0, tx_timer[d] = 0
                 PROVE  c = d
      BY DEF NobodyElseSpeaks
    <2>1. CountsToSlot(c) /\ CountsToSlot(d)
      BY DEF NetworkInv, RobotsInv, StepsKept
    <2>2. client_table[c].tx_start = client_table[d].tx_start
      BY <2>1 DEF CountsToSlot
    <2>3. SlotHeld(c) /\ SlotHeld(d)
      BY <2>1 DEF NetworkInv, RobotsInv, SlotsHeld, CountsToSlot
    <2> QED BY <2>2, <2>3 DEF SlotHeld
  <1> QED BY <1>1, NetworkInvariant, PTL

=============================================================================
