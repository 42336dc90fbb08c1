------------------------- MODULE TdmaServer_proofs -------------------------
(***************************************************************************)
(* Proofs about the server for any number of clients, any table and ring   *)
(* sizes, any time on air, and any distance between the gateway's slots.   *)
(***************************************************************************)
EXTENDS TdmaServer, TxDrain_proofs, FiniteSetTheorems, TLAPS

-----------------------------------------------------------------------------
(* Arithmetic of slot numbers. *)

LEMMA DivMod ==
  ASSUME NEW n \in Nat, NEW p \in Nat \ {0}
  PROVE  /\ n \div p \in Nat
         /\ n % p \in 0 .. p - 1
         /\ n = p * (n \div p) + (n % p)
  OBVIOUS

\* The quotient and the remainder of the next number.
LEMMA NextDivMod ==
  ASSUME NEW n \in Nat, NEW p \in Nat \ {0}
  PROVE  /\ (n + 1) % p = 0 => (n + 1) \div p = n \div p + 1
         /\ (n + 1) % p # 0 => /\ (n + 1) \div p = n \div p
                               /\ (n + 1) % p = (n % p) + 1
  OBVIOUS

LEMMA NextNumber ==
  ASSUME NEW a \in Nat, NEW b \in Nat, b > a
  PROVE  \E n \in Nat : n = b + 1 /\ n > a + 1
  OBVIOUS

LEMMA SmallMod ==
  ASSUME NEW n \in Nat, NEW p \in Nat \ {0}, n < p
  PROVE  n % p = n
  OBVIOUS

\* Numbers that are not multiples of p up to n: they grow with n.
LEMMA NonMultiplesMonotone ==
  ASSUME NEW a \in Nat, NEW b \in Nat, NEW p \in Nat \ {0}, b <= a
  PROVE  b - b \div p <= a - a \div p
  OBVIOUS

-----------------------------------------------------------------------------
(* Type correctness. *)

LEMMA FrameForType ==
  ASSUME NEW n \in Nat
  PROVE  /\ FrameFor(n) \in Nat
         /\ FrameFor(n) >= DEFAULT_FRAME_DURATION_US
         /\ n > DefaultSlots => FrameFor(n) = n * TIME_SLOT_DURATION_US
         /\ n <= DefaultSlots => FrameFor(n) = DEFAULT_FRAME_DURATION_US
  BY SlotsAssumption
     DEF FrameFor, DEFAULT_FRAME_DURATION_US, TIME_SLOT_DURATION_US

\* What AppendSlots does to the table, in one place.
LEMMA AppendLemma ==
  ASSUME TypeOK, NEW owners \in Seq(Ids), owners # <<>>, AppendSlots(owners)
  PROVE  /\ table_index' = table_index + Len(owners)
         /\ table_index' \in Nat
         /\ table' \in [0 .. table_index' ->
                          [client : Ids, rx_duration : Nat, tx_start : Nat]]
         /\ \A i \in 0 .. table_index : table'[i] = table[i]
         /\ \A i \in table_index + 1 .. table_index' :
              /\ table'[i].client = owners[i - table_index]
              /\ table'[i].tx_start = i * TIME_SLOT_DURATION_US
         /\ frame_duration_us' = FrameFor(table_index' + 1)
         /\ frame_duration_us' \in Nat
  <1> DEFINE last  == table_index + Len(owners)
             frame == FrameFor(last + 1)
  <1>1. last \in Nat /\ table_index \in Nat /\ last > table_index
    BY DEF TypeOK
  <1>2. frame \in Nat
    <2>1. last + 1 \in Nat
      BY <1>1
    <2> HIDE DEF last
    <2> QED BY <2>1, FrameForType
  <1>3. /\ table' = [i \in 0 .. last |->
                       IF i <= table_index THEN table[i]
                       ELSE Entry(owners[i - table_index], i, frame)]
        /\ table_index' = last
        /\ frame_duration_us' = frame
    BY DEF AppendSlots
  <1> HIDE DEF last, frame
  <1>4. ASSUME NEW i \in table_index + 1 .. last
        PROVE  /\ table'[i] = Entry(owners[i - table_index], i, frame)
               /\ owners[i - table_index] \in Ids
               /\ Entry(owners[i - table_index], i, frame) \in
                    [client : Ids, rx_duration : Nat, tx_start : Nat]
    <2>1. table'[i] = Entry(owners[i - table_index], i, frame)
      BY <1>1, <1>3
    <2>2. i - table_index \in 1 .. Len(owners)
      BY <1>1 DEF last
    <2>3. owners[i - table_index] \in Ids
      BY <2>2
    <2> QED BY <2>1, <2>3, <1>1, <1>2 DEF Entry, TIME_SLOT_DURATION_US
  <1>5. ASSUME NEW i \in 0 .. table_index
        PROVE  /\ table'[i] = table[i]
               /\ table[i] \in [client : Ids, rx_duration : Nat, tx_start : Nat]
    BY <1>1, <1>3 DEF TypeOK
  <1>6. table' \in [0 .. last -> [client : Ids, rx_duration : Nat, tx_start : Nat]]
    <2>1. ASSUME NEW i \in 0 .. last
          PROVE  table'[i] \in [client : Ids, rx_duration : Nat, tx_start : Nat]
      <3>1. i \in 0 .. table_index \/ i \in table_index + 1 .. last
        BY <1>1
      <3>2. CASE i \in 0 .. table_index
        BY <3>2, <1>5, Zenon
      <3>3. CASE i \in table_index + 1 .. last
        BY <3>3, <1>4, Zenon
      <3> QED BY <3>1, <3>2, <3>3, Zenon
    <2> QED BY <2>1, <1>3
  <1>7. \A i \in table_index + 1 .. last :
          /\ table'[i].client = owners[i - table_index]
          /\ table'[i].tx_start = i * TIME_SLOT_DURATION_US
    <2> SUFFICES ASSUME NEW i \in table_index + 1 .. last
                 PROVE  /\ table'[i].client = owners[i - table_index]
                        /\ table'[i].tx_start = i * TIME_SLOT_DURATION_US
      OBVIOUS
    <2>1. table'[i] = Entry(owners[i - table_index], i, frame)
      BY <1>4
    <2> QED BY <2>1 DEF Entry
  <1> QED BY <1>1, <1>2, <1>3, <1>5, <1>6, <1>7 DEF last, frame

LEMMA RegisterLemma ==
  ASSUME TypeOK, NEW client \in Clients, RegisterNewClient(client)
  PROVE  \E owners \in Seq(Ids) :
           /\ owners # <<>>
           /\ AppendSlots(owners)
           /\ owners = IF GatewayDue THEN <<Gateway, client>> ELSE <<client>>
  <1>1. Gateway \in Ids /\ client \in Ids
    BY DEF Ids
  <1> DEFINE owners == IF GatewayDue THEN <<Gateway, client>> ELSE <<client>>
  <1>2. owners \in Seq(Ids) /\ owners # <<>>
    BY <1>1
  <1>3. AppendSlots(owners)
    BY DEF RegisterNewClient
  <1> HIDE DEF owners
  <1>4. owners = IF GatewayDue THEN <<Gateway, client>> ELSE <<client>>
    BY DEF owners
  <1> QED BY <1>2, <1>3, <1>4, Zenon

LEMMA LastSlotType ==
  ASSUME TypeOK
  PROVE  LastSlot \in Nat \ {0}
  BY SlotsAssumption DEF TypeOK, LastSlot

LEMMA TypeStep == TypeOK /\ [Next]_vars => TypeOK'
  <1> SUFFICES ASSUME TypeOK, [Next]_vars PROVE TypeOK'
    OBVIOUS
  <1> USE DEF TypeOK
  <1>1. ASSUME NEW client \in Clients,
               ReceiveFromStranger(client)
        PROVE  TypeOK'
    <2>1. RegisterNewClient(client) /\ Queue(client)
      BY <1>1 DEF ReceiveFromStranger
    <2>2. PICK owners \in Seq(Ids) : owners # <<>> /\ AppendSlots(owners)
      BY <2>1, RegisterLemma
    <2>3. /\ table_index' \in Nat
          /\ table' \in [0 .. table_index' ->
                           [client : Ids, rx_duration : Nat, tx_start : Nat]]
          /\ frame_duration_us' \in Nat
      BY <2>2, AppendLemma
    <2>4. num_clients' \in Nat
      BY <2>1 DEF RegisterNewClient
    <2>5. new_clients_rb' \in Seq(Clients) /\ Len(new_clients_rb') <= NewClientCap
      BY <2>1, PutIntoType, CapsAssumption DEF Queue
    <2> QED BY <1>1, <2>3, <2>4, <2>5 DEF ReceiveFromStranger
  <1>2. ASSUME NEW client \in Clients,
               ReceiveFromClient(client)
        PROVE  TypeOK'
    <2>1. new_clients_rb' \in Seq(Clients) /\ Len(new_clients_rb') <= NewClientCap
      <3>1. CASE UNCHANGED new_clients_rb
        BY <3>1
      <3>2. CASE Queue(client)
        BY <3>2, PutIntoType, CapsAssumption DEF Queue
      <3> QED BY <1>2, <3>1, <3>2 DEF ReceiveFromClient
    <2> QED BY <1>2, <2>1 DEF ReceiveFromClient, slots
  <1>3. CASE TimerTdmaInterrupt
    <2>1. active_slot_idx' \in Nat
      <3>1. active_slot_idx' = (active_slot_idx + 1) % LastSlot
        BY <1>3 DEF TimerTdmaInterrupt
      <3>2. active_slot_idx + 1 \in Nat /\ LastSlot \in Nat \ {0}
        BY LastSlotType
      <3> HIDE DEF TypeOK
      <3> QED BY <3>1, <3>2, DivMod
    <2>2. /\ new_clients_rb' \in Seq(Clients) /\ Len(new_clients_rb') <= NewClientCap
          /\ tx_ring_buffer' \in Seq(Packets) /\ Len(tx_ring_buffer') <= TxCap
      <3>1. ASSUME NEW r \in 0 .. Len(new_clients_rb),
                   NEW m \in 0 .. Len(tx_ring_buffer),
                   new_clients_rb' = PutBack(new_clients_rb, r),
                   tx_ring_buffer' = PutBack(tx_ring_buffer, m)
            PROVE  /\ new_clients_rb' \in Seq(Clients)
                   /\ Len(new_clients_rb') <= NewClientCap
                   /\ tx_ring_buffer' \in Seq(Packets)
                   /\ Len(tx_ring_buffer') <= TxCap
        <4>1. /\ PutBack(new_clients_rb, r) \in Seq(Clients)
              /\ Len(PutBack(new_clients_rb, r)) <= Len(new_clients_rb)
          BY PutBackType
        <4>2. /\ PutBack(tx_ring_buffer, m) \in Seq(Packets)
              /\ Len(PutBack(tx_ring_buffer, m)) <= Len(tx_ring_buffer)
          BY PutBackType
        <4> QED BY <3>1, <4>1, <4>2, CapsAssumption
      <3>2. CASE UNCHANGED rings
        BY <3>2 DEF rings
      <3> QED BY <1>3, <3>1, <3>2 DEF TimerTdmaInterrupt, GatewaySlot
    <2>3. quiet' \in Nat /\ UNCHANGED slots
      BY <1>3 DEF TimerTdmaInterrupt
    <2> QED BY <2>1, <2>2, <2>3 DEF slots
  <1>4. ASSUME NEW p \in Packets, Tx(p)
        PROVE  TypeOK'
    <2>1. tx_ring_buffer' \in Seq(Packets) /\ Len(tx_ring_buffer') <= TxCap
      BY <1>4, PutIntoType, CapsAssumption DEF Tx
    <2> QED BY <1>4, <2>1 DEF Tx, slots
  <1>5. CASE Flush
    BY <1>5, CapsAssumption DEF Flush, slots
  <1>6. CASE Empty
    BY <1>6, CapsAssumption DEF Empty, slots
  <1>7. CASE UNCHANGED vars
    BY <1>7 DEF vars, slots, rings
  <1> QED BY <1>1, <1>2, <1>3, <1>4, <1>5, <1>6, <1>7
          DEF Next, TdmaServerCallback

\* Every field keeps the type and range its C declaration intends.
THEOREM Typing == Spec => []TypeOK
  <1>1. Init => TypeOK
    BY CapsAssumption, SlotsAssumption
       DEF Init, TypeOK, Entry, Ids, DEFAULT_FRAME_DURATION_US,
           TIME_SLOT_DURATION_US
  <1> QED BY <1>1, TypeStep, PTL DEF Spec

-----------------------------------------------------------------------------
(* Who owns the slots. *)

\* The two ways a client registers, slot by slot.
LEMMA StrangerLemma ==
  ASSUME TypeOK, SlotOwnership, NEW client \in Clients,
         ReceiveFromStranger(client)
  PROVE  /\ \A i \in 0 .. table_index :
              table'[i] = table[i] /\ table[i].client # client
         /\ table_index' = IF GatewayDue THEN table_index + 2 ELSE table_index + 1
         /\ table'[table_index'].client = client
         /\ GatewayDue => table'[table_index + 1].client = Gateway
         /\ \A i \in table_index + 1 .. table_index' :
              table'[i].tx_start = i * TIME_SLOT_DURATION_US
         /\ frame_duration_us' = FrameFor(table_index' + 1)
         /\ num_clients' = num_clients + 1
  <1>1. PICK owners \in Seq(Ids) :
          /\ owners # <<>>
          /\ AppendSlots(owners)
          /\ owners = IF GatewayDue THEN <<Gateway, client>> ELSE <<client>>
    BY RegisterLemma DEF ReceiveFromStranger
  <1>2. /\ table_index' = table_index + Len(owners)
        /\ \A i \in 0 .. table_index : table'[i] = table[i]
        /\ \A i \in table_index + 1 .. table_index' :
             /\ table'[i].client = owners[i - table_index]
             /\ table'[i].tx_start = i * TIME_SLOT_DURATION_US
        /\ frame_duration_us' = FrameFor(table_index' + 1)
    BY <1>1, AppendLemma
  <1>3. \A i \in 0 .. table_index : table[i].client # client
    BY DEF ReceiveFromStranger, Registered
  <1>4. num_clients' = num_clients + 1
    BY DEF ReceiveFromStranger, RegisterNewClient
  <1>5. table_index \in Nat
    BY DEF TypeOK
  <1>6. CASE GatewayDue
    <2>1. owners = <<Gateway, client>>
      BY <1>1, <1>6
    <2>2. table_index' = table_index + 2
      BY <1>2, <2>1
    <2>3. /\ table_index + 1 \in table_index + 1 .. table_index'
          /\ table_index + 2 \in table_index + 1 .. table_index'
          /\ (table_index + 1) - table_index = 1
          /\ (table_index + 2) - table_index = 2
      BY <2>2, <1>5
    <2>4. /\ table'[table_index + 1].client = owners[1]
          /\ table'[table_index + 2].client = owners[2]
      BY <1>2, <2>3
    <2> QED BY <1>2, <1>3, <1>4, <1>6, <2>1, <2>2, <2>4
  <1>7. CASE ~GatewayDue
    <2>1. owners = <<client>>
      BY <1>1, <1>7
    <2>2. table_index' = table_index + 1
      BY <1>2, <2>1
    <2>3. /\ table_index + 1 \in table_index + 1 .. table_index'
          /\ (table_index + 1) - table_index = 1
      BY <2>2, <1>5
    <2>4. table'[table_index + 1].client = owners[1]
      BY <1>2, <2>3
    <2> QED BY <1>2, <1>3, <1>4, <1>7, <2>1, <2>2, <2>4
  <1> QED BY <1>6, <1>7

\* Every other step leaves the table alone.
LEMMA OtherStepsLemma ==
  ASSUME [Next]_vars,
         ~ \E client \in Clients : ReceiveFromStranger(client)
  PROVE  UNCHANGED slots
  <1>1. ASSUME NEW client \in Clients,
               TdmaServerCallback(client)
        PROVE  UNCHANGED slots
    BY <1>1 DEF TdmaServerCallback, ReceiveFromClient
  <1>2. CASE TimerTdmaInterrupt
    BY <1>2 DEF TimerTdmaInterrupt
  <1>3. ASSUME NEW p \in Packets, Tx(p) PROVE UNCHANGED slots
    BY <1>3 DEF Tx
  <1>4. CASE Flush
    BY <1>4 DEF Flush
  <1>5. CASE Empty
    BY <1>5 DEF Empty
  <1>6. CASE UNCHANGED vars
    BY <1>6 DEF vars
  <1> QED BY <1>1, <1>2, <1>3, <1>4, <1>5, <1>6 DEF Next

LEMMA DueLemma ==
  ASSUME TypeOK
  PROVE  LET p == SlotsPerGateway
             t == table_index
         IN  /\ GatewayDue => /\ (t + 1) % p = 0 /\ (t + 2) % p # 0
                              /\ (t + 2) \div p = t \div p + 1
             /\ ~GatewayDue => (t + 1) % p # 0 /\ (t + 1) \div p = t \div p
  <1>1. /\ table_index \in Nat
        /\ SlotsPerGateway \in Nat \ {0} /\ SlotsPerGateway >= 2
    BY SlotsAssumption DEF TypeOK
  <1>2. CASE GatewayDue
    <2>1. PICK n \in Nat : n = table_index + 1
      BY <1>1
    <2>2. n % SlotsPerGateway = 0 /\ n \div SlotsPerGateway = table_index \div SlotsPerGateway + 1
      BY <1>1, <1>2, <2>1, NextDivMod DEF GatewayDue
    <2>3. (n + 1) % SlotsPerGateway # 0
      BY <1>1, <2>2
    <2>4. (n + 1) \div SlotsPerGateway = n \div SlotsPerGateway
      BY <1>1, <2>3, NextDivMod
    <2>5. n + 1 = table_index + 2
      BY <2>1, <1>1
    <2> QED BY <1>2, <2>1, <2>2, <2>3, <2>4, <2>5
  <1>3. CASE ~GatewayDue
    BY <1>1, <1>3, NextDivMod DEF GatewayDue
  <1> QED BY <1>2, <1>3

LEMMA OwnershipStep == TypeOK /\ SlotOwnership /\ [Next]_vars => SlotOwnership'
  <1> SUFFICES ASSUME TypeOK, SlotOwnership, [Next]_vars
               PROVE  SlotOwnership'
    OBVIOUS
  <1>1. ASSUME NEW client \in Clients,
               ReceiveFromStranger(client)
        PROVE  SlotOwnership'
    <2>1. /\ \A i \in 0 .. table_index :
               table'[i] = table[i] /\ table[i].client # client
          /\ table_index' = IF GatewayDue THEN table_index + 2 ELSE table_index + 1
          /\ table'[table_index'].client = client
          /\ GatewayDue => table'[table_index + 1].client = Gateway
          /\ \A i \in table_index + 1 .. table_index' :
               table'[i].tx_start = i * TIME_SLOT_DURATION_US
          /\ num_clients' = num_clients + 1
      BY <1>1, StrangerLemma
    <2>2. table_index \in Nat /\ num_clients \in Nat
      BY DEF TypeOK
    <2>3. \A i \in 0 .. table_index' :
            \/ i \in 0 .. table_index
            \/ i = table_index' /\ i > table_index
            \/ i = table_index + 1 /\ GatewayDue
      BY <2>1, <2>2
    <2>4. table'[table_index'].client # Gateway /\ table_index' % SlotsPerGateway # 0
      BY <2>1, <2>2, DueLemma, IdsAssumption
    <2>5. GatewayDue => (table_index + 1) % SlotsPerGateway = 0
      BY DueLemma
    <2>6. ASSUME NEW i \in 0 .. table_index'
          PROVE  /\ table'[i].client = Gateway <=> i % SlotsPerGateway = 0
                 /\ table'[i].tx_start = i * TIME_SLOT_DURATION_US
      <3>1. CASE i \in 0 .. table_index
        BY <3>1, <2>1 DEF SlotOwnership
      <3>2. CASE i = table_index' /\ i > table_index
        BY <3>2, <2>1, <2>2, <2>4
      <3>3. CASE i = table_index + 1 /\ GatewayDue
        BY <3>3, <2>1, <2>2, <2>5
      <3> QED BY <2>3, <3>1, <3>2, <3>3
    <2>7. ASSUME NEW i \in 0 .. table_index', NEW j \in 0 .. table_index',
                 table'[i].client = table'[j].client, table'[i].client # Gateway
          PROVE  i = j
      <3>1. i # table_index + 1 \/ ~GatewayDue
        BY <2>1, <2>7
      <3>2. j # table_index + 1 \/ ~GatewayDue
        BY <2>1, <2>7
      <3>3. CASE i \in 0 .. table_index /\ j \in 0 .. table_index
        BY <3>3, <2>1, <2>7 DEF SlotOwnership
      <3>4. CASE i = table_index' /\ j = table_index'
        BY <3>4
      <3>5. CASE i \in 0 .. table_index /\ j = table_index'
        BY <3>5, <2>1, <2>7
      <3>6. CASE i = table_index' /\ j \in 0 .. table_index
        BY <3>6, <2>1, <2>7
      <3> QED BY <2>3, <3>1, <3>2, <3>3, <3>4, <3>5, <3>6
    <2>8. num_clients' = table_index' - table_index' \div SlotsPerGateway
      <3>1. num_clients = table_index - table_index \div SlotsPerGateway
        BY DEF SlotOwnership
      <3>2. table_index \div SlotsPerGateway \in Nat
        BY <2>2, SlotsAssumption, DivMod
      <3> QED BY <2>1, <2>2, <3>1, <3>2, DueLemma
    <2> QED BY <2>6, <2>7, <2>8 DEF SlotOwnership
  <1>2. CASE UNCHANGED slots
    BY <1>2 DEF SlotOwnership, slots
  <1> QED BY <1>1, <1>2, OtherStepsLemma

\* Slots are given to one client each, the gateway's at their distance.
THEOREM Ownership == Spec => []SlotOwnership
  <1>1. Init => SlotOwnership
    <2> SUFFICES ASSUME Init PROVE SlotOwnership
      OBVIOUS
    <2>1. 0 % SlotsPerGateway = 0 /\ 0 \div SlotsPerGateway = 0
      BY SlotsAssumption
    <2> QED BY <2>1 DEF Init, SlotOwnership, Entry, TIME_SLOT_DURATION_US
  <1> QED BY <1>1, Typing, OwnershipStep, PTL DEF Spec

\* Registration stays inside the table as long as the clients are fewer
\* than the entries that are not the gateway's.
THEOREM InBounds == Spec => []TableInBounds
  <1>1. TypeOK /\ SlotOwnership => TableInBounds
    <2> SUFFICES ASSUME TypeOK, SlotOwnership,
                        num_clients < TableSize - TableSize \div SlotsPerGateway
                 PROVE  table_index < TableSize
      BY DEF TableInBounds
    <2>1. /\ table_index \in Nat /\ TableSize \in Nat
          /\ SlotsPerGateway \in Nat \ {0}
          /\ num_clients = table_index - table_index \div SlotsPerGateway
      BY CapsAssumption, SlotsAssumption DEF TypeOK, SlotOwnership
    <2>2. /\ table_index \div SlotsPerGateway \in Nat
          /\ TableSize \div SlotsPerGateway \in Nat
      BY <2>1, DivMod
    <2>3. CASE TableSize <= table_index
      <3>1. TableSize - TableSize \div SlotsPerGateway
              <= table_index - table_index \div SlotsPerGateway
        BY <2>1, <2>3, NonMultiplesMonotone
      <3> QED BY <2>1, <2>2, <3>1
    <2> QED BY <2>1, <2>3
  <1> QED BY <1>1, Typing, Ownership, PTL

-----------------------------------------------------------------------------
(* The frame and the walk. *)

LEMMA LastSlotLemma ==
  ASSUME TypeOK, FrameMatchesWalk
  PROVE  /\ LastSlot \in Nat /\ LastSlot > table_index
         /\ LastSlot >= DefaultSlots
         /\ LastSlot > table_index + 1 => LastSlot = DefaultSlots
  BY SlotsAssumption
     DEF TypeOK, FrameMatchesWalk, LastSlot, DEFAULT_FRAME_DURATION_US,
         TIME_SLOT_DURATION_US

\* After a registration the walk has as many slots as the new frame.
LEMMA NewFrameLemma ==
  ASSUME NEW t \in Nat, NEW f, f = FrameFor(t + 1)
  PROVE  LET last == IF f > DEFAULT_FRAME_DURATION_US THEN t + 1 ELSE DefaultSlots
         IN  /\ f = last * TIME_SLOT_DURATION_US
             /\ t < last /\ last >= DefaultSlots
  BY SlotsAssumption
     DEF FrameFor, DEFAULT_FRAME_DURATION_US, TIME_SLOT_DURATION_US

LEMMA TimerIndexLemma ==
  ASSUME TypeOK, FrameMatchesWalk, TimerTdmaInterrupt
  PROVE  /\ active_slot_idx' < LastSlot /\ active_slot_idx' \in Nat
         /\ active_slot_idx' = IF active_slot_idx + 1 = LastSlot
                               THEN 0 ELSE active_slot_idx + 1
  <1>1. /\ active_slot_idx \in Nat /\ LastSlot \in Nat \ {0}
        /\ active_slot_idx + 1 <= LastSlot
    BY LastSlotLemma, LastSlotType DEF TypeOK, FrameMatchesWalk
  <1>2. active_slot_idx' = (active_slot_idx + 1) % LastSlot
    BY DEF TimerTdmaInterrupt
  <1>3. CASE active_slot_idx + 1 = LastSlot
    BY <1>1, <1>2, <1>3
  <1>4. CASE active_slot_idx + 1 < LastSlot
    <2>1. (active_slot_idx + 1) % LastSlot = active_slot_idx + 1
      BY <1>1, <1>4, SmallMod
    <2> QED BY <2>1, <1>1, <1>2, <1>4
  <1> QED BY <1>1, <1>3, <1>4

\* Steps that are neither a registration nor the timer.
LEMMA QuietStepsLemma ==
  ASSUME [Next]_vars, ~TimerTdmaInterrupt
  PROVE  UNCHANGED <<active_slot_idx, quiet>>
  <1>1. ASSUME NEW client \in Clients,
               TdmaServerCallback(client)
        PROVE  UNCHANGED <<active_slot_idx, quiet>>
    BY <1>1 DEF TdmaServerCallback, ReceiveFromClient, ReceiveFromStranger
  <1>2. ASSUME NEW p \in Packets, Tx(p)
        PROVE  UNCHANGED <<active_slot_idx, quiet>>
    BY <1>2 DEF Tx
  <1>3. CASE Flush
    BY <1>3 DEF Flush
  <1>4. CASE Empty
    BY <1>4 DEF Empty
  <1>5. CASE UNCHANGED vars
    BY <1>5 DEF vars
  <1> QED BY <1>1, <1>2, <1>3, <1>4, <1>5 DEF Next

LEMMA FrameStep ==
  TypeOK /\ SlotOwnership /\ FrameMatchesWalk /\ [Next]_vars => FrameMatchesWalk'
  <1> SUFFICES ASSUME TypeOK, SlotOwnership, FrameMatchesWalk, [Next]_vars
               PROVE  FrameMatchesWalk'
    OBVIOUS
  <1>1. ASSUME NEW client \in Clients,
               ReceiveFromStranger(client)
        PROVE  FrameMatchesWalk'
    <2>1. /\ table_index' \in Nat /\ table_index' > table_index
          /\ frame_duration_us' = FrameFor(table_index' + 1)
      <3>1. /\ table_index' = IF GatewayDue THEN table_index + 2 ELSE table_index + 1
            /\ frame_duration_us' = FrameFor(table_index' + 1)
        BY <1>1, StrangerLemma, Zenon
      <3>2. table_index \in Nat
        BY DEF TypeOK
      <3> QED BY <3>1, <3>2
    <2>2. /\ frame_duration_us' = LastSlot' * TIME_SLOT_DURATION_US
          /\ table_index' < LastSlot' /\ LastSlot' >= DefaultSlots
          /\ LastSlot' \in {table_index' + 1, DefaultSlots}
      <3>1. LastSlot' = IF frame_duration_us' > DEFAULT_FRAME_DURATION_US
                        THEN table_index' + 1 ELSE DefaultSlots
        BY DEF LastSlot, DEFAULT_FRAME_DURATION_US, TIME_SLOT_DURATION_US
      <3>2. PICK t \in Nat : t = table_index'
        BY <2>1
      <3>3. PICK f : f = frame_duration_us' /\ f = FrameFor(t + 1)
        BY <2>1, <3>2
      <3> QED BY <3>1, <3>2, <3>3, NewFrameLemma
    <2>3. active_slot_idx' < LastSlot /\ active_slot_idx' \in Nat
      BY <1>1 DEF ReceiveFromStranger, FrameMatchesWalk, TypeOK
    <2>4. LastSlot' \in Nat /\ LastSlot' >= LastSlot
      <3>1. /\ LastSlot \in Nat
            /\ LastSlot > table_index + 1 => LastSlot = DefaultSlots
            /\ table_index \in Nat
        BY LastSlotLemma DEF TypeOK
      <3> QED BY <2>1, <2>2, <3>1, SlotsAssumption
    <2> QED BY <2>2, <2>3, <2>4, LastSlotLemma DEF FrameMatchesWalk
  <1>2. CASE TimerTdmaInterrupt
    <2>1. UNCHANGED slots /\ active_slot_idx' < LastSlot
      BY <1>2, TimerIndexLemma DEF TimerTdmaInterrupt
    <2>2. LastSlot' = LastSlot
      BY <2>1 DEF slots, LastSlot
    <2> QED BY <2>1, <2>2 DEF FrameMatchesWalk, slots
  <1>3. CASE UNCHANGED <<slots, active_slot_idx>>
    BY <1>3 DEF FrameMatchesWalk, slots, LastSlot
  <1> QED BY <1>1, <1>2, <1>3, OtherStepsLemma, QuietStepsLemma

\* What is announced as the frame is the time the walk takes.
THEOREM FrameIsWalk == Spec => []FrameMatchesWalk
  <1>1. Init => FrameMatchesWalk
    BY SlotsAssumption
       DEF Init, FrameMatchesWalk, LastSlot, DEFAULT_FRAME_DURATION_US,
           TIME_SLOT_DURATION_US
  <1> QED BY <1>1, Typing, Ownership, FrameStep, PTL DEF Spec

\* Nobody loses a turn: the timer visits slot after slot.
THEOREM EverySlotWalked == Spec => NoSlotSkipped
  <1>1. TypeOK /\ FrameMatchesWalk /\ [Next]_vars
          => [active_slot_idx' # active_slot_idx =>
                \/ active_slot_idx' = active_slot_idx + 1
                \/ active_slot_idx' = 0 /\ active_slot_idx >= table_index]_vars
    <2> SUFFICES ASSUME TypeOK, FrameMatchesWalk, [Next]_vars,
                        active_slot_idx' # active_slot_idx
                 PROVE  \/ active_slot_idx' = active_slot_idx + 1
                        \/ active_slot_idx' = 0 /\ active_slot_idx >= table_index
      OBVIOUS
    <2>1. TimerTdmaInterrupt
      BY QuietStepsLemma
    <2>2. /\ active_slot_idx \in Nat /\ table_index \in Nat
          /\ LastSlot \in Nat /\ LastSlot > table_index
      BY LastSlotLemma DEF TypeOK
    <2> QED BY <2>1, <2>2, TimerIndexLemma
  <1> QED BY <1>1, Typing, FrameIsWalk, PTL DEF Spec, NoSlotSkipped

-----------------------------------------------------------------------------
(* The gateway's turns. *)

\* The gateway owns exactly the walked slots whose number is a multiple of
\* SlotsPerGateway; slots not given to anybody are too few to hide one.
LEMMA WalkedGatewayLemma ==
  ASSUME TypeOK, SlotOwnership, FrameMatchesWalk,
         NEW idx \in Nat, idx < LastSlot
  PROVE  ClientOf(idx) = Gateway <=> idx % SlotsPerGateway = 0
  <1>1. CASE idx <= table_index
    <2>1. idx \in 0 .. table_index
      BY <1>1 DEF TypeOK
    <2> QED BY <1>1, <2>1 DEF SlotOwnership, ClientOf
  <1>2. CASE idx > table_index
    <2>1. ClientOf(idx) = NoClient
      BY <1>2 DEF ClientOf, TypeOK
    <2>2. 0 < idx /\ idx < SlotsPerGateway
      BY <1>2, LastSlotLemma, SlotsAssumption DEF TypeOK
    <2>3. idx % SlotsPerGateway = idx
      BY <2>2, SlotsAssumption, SmallMod
    <2> QED BY <2>1, <2>2, <2>3, IdsAssumption
  <1> QED BY <1>1, <1>2 DEF TypeOK

\* The slots since the gateway's last are counted by the slot's number.
QuietInv == quiet = active_slot_idx % SlotsPerGateway

LEMMA QuietStep ==
  /\ TypeOK /\ SlotOwnership /\ FrameMatchesWalk
  /\ QuietInv /\ [Next]_vars
  => QuietInv'
  <1> SUFFICES ASSUME TypeOK, SlotOwnership, FrameMatchesWalk, QuietInv,
                      [Next]_vars
               PROVE  QuietInv'
    OBVIOUS
  <1>1. CASE TimerTdmaInterrupt
    <2>1. /\ active_slot_idx' < LastSlot /\ active_slot_idx' \in Nat
          /\ \/ active_slot_idx' = active_slot_idx + 1
             \/ active_slot_idx' = 0
      BY <1>1, TimerIndexLemma
    <2>2. quiet' = IF ClientOf(active_slot_idx') = Gateway THEN 0 ELSE quiet + 1
      BY <1>1 DEF TimerTdmaInterrupt
    <2>3. ClientOf(active_slot_idx') = Gateway
            <=> active_slot_idx' % SlotsPerGateway = 0
      BY <2>1, WalkedGatewayLemma
    <2>4. CASE active_slot_idx' % SlotsPerGateway = 0
      BY <2>2, <2>3, <2>4 DEF QuietInv
    <2>5. CASE active_slot_idx' % SlotsPerGateway # 0
      <3>1. active_slot_idx' = active_slot_idx + 1
        <4>1. 0 % SlotsPerGateway = 0
          BY SlotsAssumption, SmallMod
        <4> QED BY <2>1, <2>5, <4>1
      <3>2. active_slot_idx' % SlotsPerGateway
              = (active_slot_idx % SlotsPerGateway) + 1
        BY <2>5, <3>1, NextDivMod, SlotsAssumption DEF TypeOK
      <3> QED BY <2>2, <2>3, <2>5, <3>2 DEF QuietInv
    <2> QED BY <2>4, <2>5
  <1>2. CASE UNCHANGED <<active_slot_idx, quiet>>
    BY <1>2 DEF QuietInv
  <1> QED BY <1>1, <1>2, QuietStepsLemma

\* At most SlotsPerGateway slots from one turn of the gateway to the next.
THEOREM GatewayIsHeard == Spec => []GatewayGap
  <1>1. Init => QuietInv
    BY SlotsAssumption DEF Init, QuietInv
  <1>2. TypeOK /\ QuietInv => GatewayGap
    BY SlotsAssumption, DivMod DEF TypeOK, QuietInv, GatewayGap
  <1> QED BY <1>1, <1>2, Typing, Ownership, FrameIsWalk, QuietStep, PTL DEF Spec

-----------------------------------------------------------------------------
(* What a registration leaves alone, and who waits. *)

\* A slot once given stays where it is, with its owner.
THEOREM SlotsStay == Spec => SlotsNeverMove
  <1> DEFINE Stay == /\ table_index' >= table_index
                     /\ frame_duration_us' >= frame_duration_us
                     /\ \A i \in 0 .. table_index : table'[i] = table[i]
  <1>1. TypeOK /\ SlotOwnership /\ FrameMatchesWalk /\ [Next]_vars => [Stay]_vars
    <2> SUFFICES ASSUME TypeOK, SlotOwnership, FrameMatchesWalk, [Next]_vars
                 PROVE  Stay
      OBVIOUS
    <2>1. ASSUME NEW client \in Clients,
                 ReceiveFromStranger(client)
          PROVE  Stay
      <3>1. /\ table_index \in Nat
            /\ \A i \in 0 .. table_index : table'[i] = table[i]
            /\ table_index' \in Nat /\ table_index' > table_index
            /\ frame_duration_us' = FrameFor(table_index' + 1)
        <4>1. /\ \A i \in 0 .. table_index : table'[i] = table[i]
              /\ table_index' = IF GatewayDue THEN table_index + 2 ELSE table_index + 1
              /\ frame_duration_us' = FrameFor(table_index' + 1)
          BY <2>1, StrangerLemma, Zenon
        <4>2. table_index \in Nat
          BY DEF TypeOK
        <4> QED BY <4>1, <4>2
      <3> HIDE DEF Stay
      <3>2. PICK n \in Nat : n = table_index' + 1 /\ n > table_index + 1
        <4>0. table_index \in Nat /\ table_index' \in Nat /\ table_index' > table_index
          BY <3>1
        <4> QED BY <4>0, NextNumber
      <3>3. /\ FrameFor(n) \in Nat
            /\ FrameFor(n) >= DEFAULT_FRAME_DURATION_US
            /\ n > DefaultSlots => FrameFor(n) = n * TIME_SLOT_DURATION_US
        BY FrameForType
      <3>4. frame_duration_us' = FrameFor(n) /\ n > table_index + 1
        BY <3>1, <3>2, Zenon
      <3>5. /\ LastSlot \in Nat
            /\ frame_duration_us = LastSlot * TIME_SLOT_DURATION_US
            /\ LastSlot > table_index + 1 => LastSlot = DefaultSlots
        BY LastSlotLemma DEF FrameMatchesWalk
      <3>6. frame_duration_us <= FrameFor(n)
        BY <3>1, <3>3, <3>4, <3>5, SlotsAssumption
           DEF DEFAULT_FRAME_DURATION_US, TIME_SLOT_DURATION_US
      <3> QED BY <3>1, <3>4, <3>6 DEF Stay
    <2>2. CASE UNCHANGED slots
      BY <2>2 DEF slots, TypeOK
    <2> QED BY <2>1, <2>2, OtherStepsLemma
  <1> QED BY <1>1, Typing, Ownership, FrameIsWalk, PTL DEF Spec, SlotsNeverMove

LEMMA QueuedStep ==
  TypeOK /\ SlotOwnership /\ QueuedAreRegistered /\ [Next]_vars
    => QueuedAreRegistered'
  <1> SUFFICES ASSUME TypeOK, SlotOwnership, QueuedAreRegistered, [Next]_vars,
                      NEW c \in Waiting(new_clients_rb')
               PROVE  Registered(c)'
    BY DEF QueuedAreRegistered
  <1>0. table_index \in Nat /\ new_clients_rb \in Seq(Clients)
        /\ Len(new_clients_rb) <= NewClientCap
    BY DEF TypeOK
  \* The table only grows, so who was registered still is.
  <1>1. ASSUME NEW client \in Clients,
               ReceiveFromStranger(client)
        PROVE  Registered(c)'
    <2>1. /\ \A i \in 0 .. table_index : table'[i] = table[i]
          /\ table_index' \in Nat /\ table_index' > table_index
          /\ table'[table_index'].client = client
      BY <1>0, <1>1, StrangerLemma
    <2>2. c \in Waiting(new_clients_rb) \cup {client}
      BY <1>0, <1>1, PutIntoType, CapsAssumption DEF ReceiveFromStranger, Queue
    <2>3. CASE c = client
      BY <2>1, <2>3 DEF Registered
    <2>4. CASE c \in Waiting(new_clients_rb)
      <3>1. PICK i \in 0 .. table_index : table[i].client = c
        BY <2>4 DEF QueuedAreRegistered, Registered
      <3> QED BY <1>0, <2>1, <3>1 DEF Registered
    <2> QED BY <2>2, <2>3, <2>4
  <1>2. ASSUME UNCHANGED slots, Registered(c) PROVE Registered(c)'
    BY <1>2 DEF slots, Registered
  <1>3. ASSUME NEW client \in Clients,
               ReceiveFromClient(client)
        PROVE  Registered(c)'
    <2>1. c \in Waiting(new_clients_rb) \cup {client}
      BY <1>0, <1>3, PutIntoType, CapsAssumption DEF ReceiveFromClient, Queue
    <2>2. Registered(c)
      BY <1>3, <2>1 DEF ReceiveFromClient, QueuedAreRegistered
    <2> QED BY <1>2, <1>3, <2>2 DEF ReceiveFromClient
  <1>4. CASE TimerTdmaInterrupt
    <2>1. c \in Waiting(new_clients_rb)
      <3>1. ASSUME NEW r \in 0 .. Len(new_clients_rb),
                   new_clients_rb' = PutBack(new_clients_rb, r)
            PROVE  c \in Waiting(new_clients_rb)
        BY <1>0, <3>1, PutBackType
      <3>2. CASE UNCHANGED rings
        BY <3>2 DEF rings
      <3> QED BY <1>4, <3>1, <3>2 DEF TimerTdmaInterrupt, GatewaySlot
    <2> QED BY <1>2, <1>4, <2>1 DEF TimerTdmaInterrupt, QueuedAreRegistered
  <1>5. CASE UNCHANGED <<slots, new_clients_rb>>
    BY <1>2, <1>5 DEF QueuedAreRegistered
  <1> QED BY <1>1, <1>3, <1>4, <1>5
          DEF Next, TdmaServerCallback, Tx, Flush, Empty, vars, rings

\* _tx_registration_messages never indexes the table with "not found".
THEOREM WaitersAreRegistered == Spec => []QueuedAreRegistered
  <1>1. Init => QueuedAreRegistered
    BY DEF Init, QueuedAreRegistered, Waiting
  <1> QED BY <1>1, Typing, Ownership, QueuedStep, PTL DEF Spec
-----------------------------------------------------------------------------
(* Nobody waits twice, and nobody is forgotten, when the ring has more     *)
(* cells than there are clients: as nobody waits twice, the ring is never  *)
(* full, so the search sees all of it and adding overwrites nothing.       *)

LEMMA RoomLemma ==
  ASSUME IsFiniteSet(Clients), Cardinality(Clients) < NewClientCap,
         TypeOK, NoRepeats(new_clients_rb)
  PROVE  Len(new_clients_rb) < NewClientCap
  <1> DEFINE n == Len(new_clients_rb)
  <1>1. /\ n \in Nat /\ new_clients_rb \in [1 .. n -> Clients]
        /\ NewClientCap \in Nat
    BY CapsAssumption DEF TypeOK
  <1>2. Cardinality(Clients) \in Nat
    BY FS_CardinalityType
  <1>3. \A i, j \in 1 .. n : new_clients_rb[i] = new_clients_rb[j] => i = j
    BY DEF NoRepeats
  <1> HIDE DEF n
  <1>4. IsFiniteSet(1 .. n) /\ Cardinality(1 .. n) = n
    BY <1>1, FS_Interval
  <1>5. ~ (Cardinality(Clients) < Cardinality(1 .. n))
    <2> SUFFICES ASSUME Cardinality(Clients) < Cardinality(1 .. n) PROVE FALSE
      OBVIOUS
    <2>1. \E i, j \in 1 .. n : i # j /\ new_clients_rb[i] = new_clients_rb[j]
      BY <1>1, <1>4, FS_PigeonHole
    <2> QED BY <1>3, <2>1
  <1> QED BY <1>1, <1>2, <1>4, <1>5 DEF n

\* What the gateway's timer puts in the air: the sync frame that begins a
\* frame, and in the gateway's slots answers and packets.
Idx     == (active_slot_idx + 1) % LastSlot
First   == IF Idx = 0 THEN <<SyncFrame>> ELSE <<>>
Elapsed == IF Idx = 0 THEN SyncTime ELSE 0
Answers(r) == [k \in 1 .. r |-> TableUpdate(new_clients_rb[k], Idx,
                                           Elapsed + (k - 1) * UpdateTime)]
DataPackets(m) == [k \in 1 .. m |-> DataPacket(tx_ring_buffer[k])]

\* The lengths of what waits, in the order the loops take it.
AnswerLens == [k \in 1 .. Len(new_clients_rb) |-> HeaderBytes + TableBytes]
PacketLens == [k \in 1 .. Len(tx_ring_buffer) |-> tx_ring_buffer[k].len]

GatewayTakes(r, m) ==
  /\ SendsExactly(AnswerLens, r, Elapsed,
       (TIME_SLOT_DURATION_US - Elapsed) \div 2 - TX_DEADTIME_US)
  /\ SendsExactly(PacketLens, m, Elapsed + r * UpdateTime,
       TIME_SLOT_DURATION_US - (Elapsed + r * UpdateTime) - TX_DEADTIME_US)
  /\ new_clients_rb' = PutBack(new_clients_rb, r)
  /\ air' = Joined(First, Answers(r), DataPackets(m))

LEMMA TurnLemma ==
  ASSUME TimerTdmaInterrupt
  PROVE  /\ active_slot_idx' = Idx
         /\ \/ /\ ClientOf(Idx) = Gateway
               /\ \E r \in 0 .. Len(new_clients_rb),
                     m \in 0 .. Len(tx_ring_buffer) : GatewayTakes(r, m)
            \/ /\ ClientOf(Idx) # Gateway
               /\ quiet' = quiet + 1 /\ UNCHANGED rings /\ air' = First
  BY DEF TimerTdmaInterrupt, GatewaySlot, GatewayTakes, Idx, First, Elapsed,
         Answers, DataPackets, AnswerLens, PacketLens, Joined

\* Frame by frame.
Frames(r, m) == (IF Idx = 0 THEN {SyncFrame} ELSE {})
                  \cup {Answers(r)[k] : k \in 1 .. r}
                  \cup {DataPackets(m)[k] : k \in 1 .. m}

LEMMA TurnFrames ==
  ASSUME NEW r \in Nat, NEW m \in Nat
  PROVE  /\ First \in Seq(Frames(r, m))
         /\ Answers(r) \in Seq(Frames(r, m)) /\ Len(Answers(r)) = r
         /\ DataPackets(m) \in Seq(Frames(r, m)) /\ Len(DataPackets(m)) = m
  <1> DEFINE S == Frames(r, m)
  <1>1. Answers(r) \in Seq(S) /\ Len(Answers(r)) = r
    <2>1. \A k \in 1 .. r : Answers(r)[k] \in S
      BY DEF Frames
    <2> HIDE DEF S
    <2> QED BY <2>1 DEF Answers
  <1>2. DataPackets(m) \in Seq(S) /\ Len(DataPackets(m)) = m
    <2>1. \A k \in 1 .. m : DataPackets(m)[k] \in S
      BY DEF Frames
    <2> HIDE DEF S
    <2> QED BY <2>1 DEF DataPackets
  <1>3. First \in Seq(S)
    <2>1. Idx = 0 => SyncFrame \in S
      BY DEF Frames
    <2> HIDE DEF S
    <2>2. CASE Idx = 0
      BY <2>1, <2>2 DEF First
    <2>3. CASE Idx # 0
      BY <2>3 DEF First
    <2> QED BY <2>2, <2>3
  <1> QED BY <1>1, <1>2, <1>3

LEMMA AnswerCell ==
  ASSUME NEW r \in Nat, NEW k \in 1 .. r
  PROVE  Answers(r)[k] = TableUpdate(new_clients_rb[k], Idx,
                                     Elapsed + (k - 1) * UpdateTime)
  BY DEF Answers

\* Where each of them is in what was sent.
LEMMA TurnCells ==
  ASSUME NEW r \in Nat, NEW m \in Nat, GatewayTakes(r, m)
  PROVE  /\ air' \in Seq(Frames(r, m))
         /\ JoinedAt(air', First, Answers(r), DataPackets(m))
         /\ Len(First) \in Nat /\ Len(Answers(r)) = r /\ Len(DataPackets(m)) = m
  <1>1. /\ First \in Seq(Frames(r, m))
        /\ Answers(r) \in Seq(Frames(r, m)) /\ Len(Answers(r)) = r
        /\ DataPackets(m) \in Seq(Frames(r, m)) /\ Len(DataPackets(m)) = m
    BY TurnFrames
  <1>2. air' = Joined(First, Answers(r), DataPackets(m))
    BY DEF GatewayTakes
  <1>3. /\ air' \in Seq(Frames(r, m))
        /\ JoinedAt(air', First, Answers(r), DataPackets(m))
    BY <1>1, <1>2, JoinedCells
  <1> QED BY <1>1, <1>3

LEMMA AnswersSent ==
  ASSUME NEW r \in Nat, NEW m \in Nat, GatewayTakes(r, m),
         NEW k \in 1 .. r, NEW c, c = new_clients_rb[k]
  PROVE  TableSentTo(c)'
  <1>1. PICK j : j = Len(First) + k
    OBVIOUS
  <1>2. j \in DOMAIN air' /\ air'[j] = Answers(r)[k]
    <2>1. /\ air' \in Seq(Frames(r, m))
          /\ JoinedAt(air', First, Answers(r), DataPackets(m))
          /\ Len(First) \in Nat /\ Len(Answers(r)) = r
          /\ Len(DataPackets(m)) = m
      BY TurnCells
    <2>2. Len(air') = Len(First) + r + m
      BY <2>1 DEF JoinedAt
    <2>3. air'[j] = Answers(r)[k]
      BY <1>1, <2>1 DEF JoinedAt
    <2>4. DOMAIN air' = 1 .. Len(air')
      BY <2>1
    <2> QED BY <1>1, <2>1, <2>2, <2>3, <2>4
  <1>3. Answers(r)[k] = TableUpdate(c, Idx, Elapsed + (k - 1) * UpdateTime)
    BY AnswerCell
  <1>4. Answers(r)[k].type = "table" /\ Answers(r)[k].dst = c
    BY <1>3 DEF TableUpdate
  <1> QED BY <1>2, <1>4 DEF TableSentTo

\* A step adds an id that is not there, sends some and puts back the rest,
\* or leaves the ring alone.
LEMMA WaitersStep ==
  ASSUME IsFiniteSet(Clients), Cardinality(Clients) < NewClientCap,
         TypeOK, QueuedAreRegistered, NoRepeats(new_clients_rb), [Next]_vars
  PROVE  \/ \E client \in Clients :
              /\ client \notin Waiting(new_clients_rb)
              /\ new_clients_rb' = Append(new_clients_rb, client)
         \/ \E r \in 0 .. Len(new_clients_rb) :
              /\ TimerTdmaInterrupt
              /\ new_clients_rb' = PutBack(new_clients_rb, r)
              /\ \A c \in {new_clients_rb[k] : k \in 1 .. r} : TableSentTo(c)'
         \/ UNCHANGED new_clients_rb
  <1>0. Len(new_clients_rb) < NewClientCap /\ new_clients_rb \in Seq(Clients)
    BY RoomLemma DEF TypeOK
  <1>1. ASSUME NEW client \in Clients, Queue(client)
        PROVE  new_clients_rb' = Append(new_clients_rb, client)
    BY <1>0, <1>1 DEF Queue, PutInto
  <1>2. ASSUME NEW client \in Clients, ReceiveFromStranger(client)
        PROVE  /\ client \notin Waiting(new_clients_rb)
               /\ new_clients_rb' = Append(new_clients_rb, client)
    BY <1>1, <1>2 DEF ReceiveFromStranger, QueuedAreRegistered
  <1>3. ASSUME NEW client \in Clients, ReceiveFromClient(client),
               ~UNCHANGED new_clients_rb
        PROVE  /\ client \notin Waiting(new_clients_rb)
               /\ new_clients_rb' = Append(new_clients_rb, client)
    <2>1. Queue(client) /\ ~IdExists(new_clients_rb, client, NewClientCap)
      BY <1>3 DEF ReceiveFromClient
    <2> QED BY <1>0, <1>1, <2>1 DEF IdExists
  <1>4. ASSUME TimerTdmaInterrupt, ~UNCHANGED new_clients_rb
        PROVE  \E r \in 0 .. Len(new_clients_rb) :
                 /\ new_clients_rb' = PutBack(new_clients_rb, r)
                 /\ \A c \in {new_clients_rb[k] : k \in 1 .. r} : TableSentTo(c)'
    <2>1. PICK r \in 0 .. Len(new_clients_rb), m \in 0 .. Len(tx_ring_buffer) :
            GatewayTakes(r, m)
      BY <1>4, TurnLemma DEF rings
    <2>2. r \in Nat /\ m \in Nat
      BY <1>0 DEF TypeOK
    <2>3. ASSUME NEW c \in {new_clients_rb[k] : k \in 1 .. r}
          PROVE  TableSentTo(c)'
      <3>1. PICK k \in 1 .. r : c = new_clients_rb[k]
        OBVIOUS
      <3> QED BY <2>1, <2>2, <3>1, AnswersSent
    <2> QED BY <2>1, <2>3 DEF GatewayTakes
  <1>5. CASE UNCHANGED new_clients_rb
    BY <1>5
  <1>6. CASE ~UNCHANGED new_clients_rb
    BY <1>2, <1>3, <1>4, <1>6
       DEF Next, TdmaServerCallback, Tx, Flush, Empty, vars, rings
  <1> QED BY <1>5, <1>6

LEMMA NoRepeatsStep ==
  ASSUME IsFiniteSet(Clients), Cardinality(Clients) < NewClientCap,
         TypeOK, QueuedAreRegistered, NoRepeats(new_clients_rb), [Next]_vars
  PROVE  /\ NoRepeats(new_clients_rb')
         /\ \A c \in Waiting(new_clients_rb) :
              c \in Waiting(new_clients_rb') \/ TableSentTo(c)'
  <1>0. new_clients_rb \in Seq(Clients)
    BY DEF TypeOK
  <1>1. ASSUME NEW client \in Clients, client \notin Waiting(new_clients_rb),
               new_clients_rb' = Append(new_clients_rb, client)
        PROVE  /\ NoRepeats(new_clients_rb')
               /\ Waiting(new_clients_rb) \subseteq Waiting(new_clients_rb')
    BY <1>0, <1>1, AppendNew, Zenon
  <1>2. ASSUME NEW r \in 0 .. Len(new_clients_rb),
               new_clients_rb' = PutBack(new_clients_rb, r),
               \A c \in {new_clients_rb[k] : k \in 1 .. r} : TableSentTo(c)'
        PROVE  /\ NoRepeats(new_clients_rb')
               /\ \A c \in Waiting(new_clients_rb) :
                    c \in Waiting(new_clients_rb') \/ TableSentTo(c)'
    <2>1. /\ NoRepeats(new_clients_rb')
          /\ \A k \in r + 1 .. Len(new_clients_rb) :
               new_clients_rb[k] \in Waiting(new_clients_rb')
      BY <1>0, <1>2, PutBackKeeps, Zenon
    <2>2. ASSUME NEW c \in Waiting(new_clients_rb)
          PROVE  c \in Waiting(new_clients_rb') \/ TableSentTo(c)'
      <3>1. PICK k \in 1 .. Len(new_clients_rb) : c = new_clients_rb[k]
        BY DEF Waiting
      <3>2. k \in 1 .. r \/ k \in r + 1 .. Len(new_clients_rb)
        BY <1>0
      <3> QED BY <1>2, <2>1, <3>1, <3>2, Zenon
    <2> QED BY <2>1, <2>2
  <1>3. ASSUME UNCHANGED new_clients_rb
        PROVE  /\ NoRepeats(new_clients_rb')
               /\ Waiting(new_clients_rb) \subseteq Waiting(new_clients_rb')
    BY <1>3
  <1> QED BY <1>1, <1>2, <1>3, WaitersStep, Zenon

(***************************************************************************)
(* _client_rb_id_exists keeps a client from waiting twice, however many    *)
(* clients there are, if the ring has more cells than that.                *)
(***************************************************************************)
THEOREM NobodyWaitsTwice ==
  IsFiniteSet(Clients) => (Spec => []NoDuplicateIfRoom)
  <1> SUFFICES ASSUME IsFiniteSet(Clients)
               PROVE  Spec => []NoDuplicateIfRoom
    OBVIOUS
  <1>1. Init => NoDuplicateIfRoom
    BY DEF Init, NoDuplicateIfRoom, NoDuplicateReminder
  <1>2. TypeOK /\ QueuedAreRegistered /\ NoDuplicateIfRoom /\ [Next]_vars
          => NoDuplicateIfRoom'
    BY NoRepeatsStep DEF NoDuplicateIfRoom, NoDuplicateReminder, NoRepeats
  <1> QED BY <1>1, <1>2, Typing, WaitersAreRegistered, PTL DEF Spec

(***************************************************************************)
(* With the same room, the gateway answers everybody it has put in the     *)
(* ring: the loop of _client_rb_tx_queue loses nobody to the slot's end.   *)
(***************************************************************************)
THEOREM WaitersAreAnswered ==
  IsFiniteSet(Clients) => (Spec => NoWaiterDropped)
  <1> SUFFICES ASSUME IsFiniteSet(Clients)
               PROVE  Spec => NoWaiterDropped
    OBVIOUS
  <1>1. TypeOK /\ QueuedAreRegistered /\ NoDuplicateIfRoom /\ [Next]_vars
          => [Cardinality(Clients) < NewClientCap =>
                \A c \in Waiting(new_clients_rb) :
                  c \in Waiting(new_clients_rb') \/ TableSentTo(c)']_vars
    BY NoRepeatsStep DEF NoDuplicateIfRoom, NoDuplicateReminder, NoRepeats
  <1> QED BY <1>1, Typing, WaitersAreRegistered, NobodyWaitsTwice,
             PTL DEF Spec, NoWaiterDropped

-----------------------------------------------------------------------------
(* Time on air in the gateway's slot. *)

LEMMA SlotTimes ==
  /\ SyncTime = 140 + 22 * ByteUs /\ SyncTime \in Nat
  /\ UpdateTime = 140 + 38 * ByteUs /\ UpdateTime \in Nat
  /\ UpdateTime = TxTime(HeaderBytes + TableBytes)
  /\ Elapsed \in {0, SyncTime} /\ Elapsed \in Nat
  BY ByteUsAssumption
     DEF SyncTime, UpdateTime, Elapsed, TxTime, RADIO_TX_RAMP_UP_TIME,
         HeaderBytes, SyncFrameBytes, TableBytes

LEMMA AnswersTime ==
  ASSUME TypeOK, NEW r \in 0 .. Len(new_clients_rb)
  PROVE  AirTime(AnswerLens, r) = r * UpdateTime
  <1>1. r \in Nat /\ HeaderBytes + TableBytes \in Nat
    BY DEF TypeOK, HeaderBytes, TableBytes
  <1>2. \A k \in 1 .. r : AnswerLens[k] = HeaderBytes + TableBytes
    BY DEF TypeOK, AnswerLens
  <1>3. PICK b \in Nat : b = HeaderBytes + TableBytes
    BY <1>1
  <1>4. AirTime(AnswerLens, r) = r * TxTime(b)
    BY <1>1, <1>2, <1>3, AirTimeEqual
  <1> QED BY <1>3, <1>4, SlotTimes

LEMMA LessTimes ==
  ASSUME NEW a \in Nat, NEW b \in Nat, NEW u \in Nat, a <= b
  PROVE  a * u <= b * u /\ a * u \in Nat /\ b * u \in Nat
  OBVIOUS

\* The answers are over in the first half of the slot.
LEMMA AnswersInTime ==
  ASSUME TypeOK, NEW r \in 1 .. Len(new_clients_rb), NEW m, GatewayTakes(r, m)
  PROVE  /\ Elapsed + r * UpdateTime \in Nat
         /\ Elapsed + r * UpdateTime
              < (TIME_SLOT_DURATION_US - Elapsed) \div 2 - TX_DEADTIME_US
         /\ \A k \in 1 .. r : Elapsed + (k - 1) * UpdateTime
                               \in 0 .. TIME_SLOT_DURATION_US - 1
  <1>1. PICK e \in Nat, u \in Nat : e = Elapsed /\ u = UpdateTime
    BY SlotTimes
  <1>2. r \in Nat /\ r \in 1 .. r /\ r \in 0 .. Len(new_clients_rb)
    BY DEF TypeOK
  <1>3. e + r * u < (2500 - e) \div 2 - 100
    <2>1. Elapsed + AirTime(AnswerLens, r)
            < (TIME_SLOT_DURATION_US - Elapsed) \div 2 - TX_DEADTIME_US
      BY <1>2 DEF GatewayTakes, SendsExactly
    <2> QED BY <1>1, <1>2, <2>1, AnswersTime
            DEF TIME_SLOT_DURATION_US, TX_DEADTIME_US
  <1>4. r * u \in Nat
    BY <1>2
  <1>5. e + r * u < 2500
    BY <1>3, <1>4
  <1>6. ASSUME NEW k \in 1 .. r
        PROVE  e + (k - 1) * u \in 0 .. 2499
    <2>1. k - 1 \in Nat /\ k - 1 <= r
      BY <1>2
    <2>2. PICK j \in Nat : j = k - 1 /\ j <= r
      BY <2>1
    <2>3. j * u <= r * u /\ j * u \in Nat
      BY <1>2, <2>2, LessTimes
    <2> QED BY <1>4, <1>5, <2>2, <2>3
  <1> QED BY <1>1, <1>3, <1>4, <1>6 DEF TIME_SLOT_DURATION_US, TX_DEADTIME_US

(***************************************************************************)
(* At 1 Mbit/s and 2 Mbit/s (8 and 4 microseconds a byte) a table update   *)
(* fits in the gateway's half of its slot even after a sync frame, so the  *)
(* loop of _client_rb_tx_queue sends at least one.                         *)
(***************************************************************************)
THEOREM TurnsAnswer == ByteUs <= 8 => (Spec => TurnsAnswerSomebody)
  <1>0. SUFFICES ASSUME ByteUs <= 8
                 PROVE  Spec => TurnsAnswerSomebody
    OBVIOUS
  <1> DEFINE Answered == \E c \in Waiting(new_clients_rb) : TableSentTo(c)'
  <1>1. ASSUME TypeOK, [Next]_vars, GatewayTurn,
               new_clients_rb # <<>>
        PROVE  Answered
    <2>1. TimerTdmaInterrupt
      BY <1>1, QuietStepsLemma DEF GatewayTurn
    <2>2. quiet' # quiet + 1
      BY <1>1 DEF GatewayTurn, TypeOK
    <2>3. PICK r \in 0 .. Len(new_clients_rb), m \in 0 .. Len(tx_ring_buffer) :
            GatewayTakes(r, m)
      BY <2>1, <2>2, TurnLemma
    <2>4. /\ new_clients_rb \in Seq(Clients) /\ Len(new_clients_rb) \in Nat
          /\ Len(new_clients_rb) > 0 /\ r \in Nat /\ m \in Nat
      BY <1>1 DEF TypeOK
    <2>5. r # 0
      <3> SUFFICES ASSUME r = 0 PROVE FALSE
        OBVIOUS
      <3>1. r < Len(AnswerLens) /\ 1 \in 0 .. Len(new_clients_rb)
        BY <2>4 DEF AnswerLens
      <3>2. Elapsed + AirTime(AnswerLens, 1)
              >= (TIME_SLOT_DURATION_US - Elapsed) \div 2 - TX_DEADTIME_US
        BY <2>3, <3>1 DEF GatewayTakes, SendsExactly
      <3>3. AirTime(AnswerLens, 1) = 1 * UpdateTime
        BY <1>1, <3>1, AnswersTime
      <3>4. Elapsed + UpdateTime >= (2500 - Elapsed) \div 2 - 100
        BY <3>2, <3>3, SlotTimes DEF TIME_SLOT_DURATION_US, TX_DEADTIME_US
      <3> QED BY <1>0, <3>4, SlotTimes, ByteUsAssumption
    <2>6. PICK c : c = new_clients_rb[1]
      OBVIOUS
    <2>7. c \in Waiting(new_clients_rb) /\ 1 \in 1 .. r
      BY <2>4, <2>5, <2>6 DEF Waiting
    <2>8. TableSentTo(c)'
      BY <2>3, <2>4, <2>6, <2>7, AnswersSent
    <2> QED BY <2>7, <2>8
  <1>2. TypeOK /\ [Next]_vars
          => [GatewayTurn /\ new_clients_rb # <<>> =>
                \E c \in Waiting(new_clients_rb) : TableSentTo(c)']_vars
    BY <1>1
  <1> QED BY <1>2, Typing, PTL DEF Spec, TurnsAnswerSomebody

\* The turns of the gateway that are too short for a table update: all of
\* them at 125 kbit/s (64 microseconds a byte), and those that begin a frame
\* at 500 kbit/s (16).
StarvedTurn == ByteUs >= 27 \/ (ByteUs >= 12 /\ active_slot_idx' = 0)

LEMMA NothingFits ==
  ASSUME TypeOK, NEW r \in 0 .. Len(new_clients_rb), NEW m, GatewayTakes(r, m),
         ByteUs >= 27 \/ (ByteUs >= 12 /\ Idx = 0)
  PROVE  r = 0
  <1> SUFFICES ASSUME r # 0 PROVE FALSE
    OBVIOUS
  <1>1. 1 \in 1 .. r /\ 1 \in 0 .. Len(new_clients_rb)
    BY DEF TypeOK
  <1>2. Elapsed + AirTime(AnswerLens, 1)
          < (TIME_SLOT_DURATION_US - Elapsed) \div 2 - TX_DEADTIME_US
    BY <1>1 DEF GatewayTakes, SendsExactly
  <1>3. AirTime(AnswerLens, 1) = 1 * UpdateTime
    BY <1>1, AnswersTime
  <1>4. PICK e \in Nat, u \in Nat : e = Elapsed /\ u = UpdateTime
    BY SlotTimes
  <1>5. e + u < (2500 - e) \div 2 - 100
    BY <1>2, <1>3, <1>4 DEF TIME_SLOT_DURATION_US, TX_DEADTIME_US
  <1>6. Idx = 0 => e = 140 + 22 * ByteUs
    BY <1>4, SlotTimes DEF Elapsed
  <1>7. u = 140 + 38 * ByteUs /\ ByteUs \in Nat
    BY <1>4, SlotTimes, ByteUsAssumption
  <1> QED BY <1>4, <1>5, <1>6, <1>7

LEMMA NoAnswerSent ==
  ASSUME NEW m \in Nat, GatewayTakes(0, m), NEW c
  PROVE  ~TableSentTo(c)'
  <1>1. air' \in Seq(Frames(0, m))
    BY TurnCells
  <1>2. \A f \in Frames(0, m) : f.type # "table"
    <2>1. \A k \in 1 .. m : DataPackets(m)[k].type = "data"
      BY DEF DataPackets, DataPacket
    <2>2. Answers(0) = <<>> /\ 1 .. 0 = {}
      BY DEF Answers
    <2> QED BY <2>1, <2>2 DEF Frames, SyncFrame
  <1>3. \A k \in DOMAIN air' : air'[k] \in Frames(0, m)
    BY <1>1
  <1> QED BY <1>2, <1>3 DEF TableSentTo

(***************************************************************************)
(* The slower modes of the radio: at 125 kbit/s no step of the gateway     *)
(* sends a table update, so that no robot is ever registered, and at 500   *)
(* kbit/s none is sent in the turns that begin a frame, so that none is    *)
(* while the gateway has no other slot.                                    *)
(***************************************************************************)
THEOREM SlowModesStarve ==
  Spec => [][StarvedTurn => \A c \in Clients : ~TableSentTo(c)']_vars
  <1>1. ASSUME TypeOK, [Next]_vars, vars' # vars, StarvedTurn, NEW c \in Clients
        PROVE  ~TableSentTo(c)'
    <2>1. CASE TimerTdmaInterrupt
      <3>1. active_slot_idx' = Idx
        BY <2>1, TurnLemma
      <3>2. CASE \E r \in 0 .. Len(new_clients_rb),
                    m \in 0 .. Len(tx_ring_buffer) : GatewayTakes(r, m)
        <4>1. PICK r \in 0 .. Len(new_clients_rb),
                   m \in 0 .. Len(tx_ring_buffer) : GatewayTakes(r, m)
          BY <3>2
        <4>2. ByteUs >= 27 \/ (ByteUs >= 12 /\ Idx = 0)
          BY <1>1, <3>1 DEF StarvedTurn
        <4>3. r = 0
          BY <1>1, <4>1, <4>2, NothingFits
        <4>4. m \in Nat /\ GatewayTakes(0, m)
          BY <1>1, <4>1, <4>3 DEF TypeOK
        <4> QED BY <4>4, NoAnswerSent
      <3>3. CASE air' = First
        BY <3>3 DEF First, SyncFrame, TableSentTo
      <3> QED BY <2>1, <3>2, <3>3, TurnLemma
    <2>2. CASE air' = <<>>
      BY <2>2 DEF TableSentTo
    <2>3. CASE Flush
      BY <2>3 DEF Flush, DataPacket, TableSentTo
    <2> QED
      BY <1>1, <2>1, <2>2, <2>3
      DEF Next, TdmaServerCallback, ReceiveFromStranger, ReceiveFromClient,
          Tx, Empty
  <1>2. TypeOK /\ [Next]_vars
          => [StarvedTurn => \A c \in Clients : ~TableSentTo(c)']_vars
    BY <1>1
  <1> QED BY <1>2, Typing, PTL DEF Spec

\* The lengths of what was sent, part by part.
AirLens(sent) == [k \in DOMAIN sent |-> FrameBytes(sent[k])]

LEMMA FirstTime ==
  ASSUME NEW len, First = <<SyncFrame>> => len[1] = HeaderBytes + SyncFrameBytes
  PROVE  AirTime(len, Len(First)) = Elapsed
  <1>1. /\ AirTime(len, 0) = 0
        /\ AirTime(len, 0 + 1) = AirTime(len, 0) + TxTime(len[0 + 1])
    BY AirTimeStep
  <1>2. CASE Idx = 0
    <2>1. First = <<SyncFrame>> /\ Len(First) = 1 /\ Elapsed = SyncTime
      BY <1>2 DEF First, Elapsed
    <2>2. AirTime(len, 1) = TxTime(len[1]) /\ TxTime(len[1]) = SyncTime
      BY <1>1, <2>1, SlotTimes DEF SyncTime
    <2> QED BY <2>1, <2>2
  <1>3. CASE Idx # 0
    <2>1. Len(First) = 0 /\ Elapsed = 0
      BY <1>3 DEF First, Elapsed
    <2> QED BY <1>1, <2>1
  <1> QED BY <1>2, <1>3

LEMMA TurnTime ==
  ASSUME TypeOK,
         NEW r \in 0 .. Len(new_clients_rb), NEW m \in 0 .. Len(tx_ring_buffer),
         GatewayTakes(r, m)
  PROVE  /\ AirTime(AirLens(air'), Len(air'))
              = Elapsed + r * UpdateTime + AirTime(PacketLens, m)
         /\ AirTime(PacketLens, m) \in Nat
  <1>0. r \in Nat /\ m \in Nat
    BY DEF TypeOK
  <1>1. /\ air' \in Seq(Frames(r, m))
        /\ JoinedAt(air', First, Answers(r), DataPackets(m))
        /\ Len(First) \in Nat /\ Len(Answers(r)) = r
        /\ Len(DataPackets(m)) = m
    BY <1>0, TurnCells
  <1>2. PICK sent, i : sent = air' /\ i = Len(First) /\ i \in Nat
    BY <1>1
  <1>3. /\ Len(sent) = i + r + m /\ DOMAIN sent = 1 .. i + r + m
        /\ \A k \in 1 .. i : sent[k] = First[k]
        /\ \A k \in 1 .. r : sent[i + k] = Answers(r)[k]
        /\ \A k \in 1 .. m : sent[i + r + k] = DataPackets(m)[k]
    <2>1. Len(sent) = i + r + m /\ \A k \in 1 .. i : sent[k] = First[k]
      BY <1>1, <1>2 DEF JoinedAt
    <2>2. \A k \in 1 .. r : sent[i + k] = Answers(r)[k]
      BY <1>1, <1>2 DEF JoinedAt
    <2>3. \A k \in 1 .. m : sent[i + r + k] = DataPackets(m)[k]
      BY <1>1, <1>2 DEF JoinedAt
    <2>4. DOMAIN sent = 1 .. Len(sent)
      BY <1>1, <1>2
    <2> QED BY <2>1, <2>2, <2>3, <2>4
  <1>4. PICK len : len = AirLens(sent)
    OBVIOUS
  <1>5. \A k \in 1 .. i + r + m : len[k] = FrameBytes(sent[k])
    BY <1>3, <1>4 DEF AirLens
  <1>6. AirTime(len, i) = Elapsed
    <2>1. ASSUME First = <<SyncFrame>>
          PROVE  len[1] = HeaderBytes + SyncFrameBytes
      <3>1. i = 1 /\ First[1] = SyncFrame
        BY <1>2, <2>1
      <3>2. 1 \in 1 .. i /\ 1 \in 1 .. i + r + m
        BY <1>0, <3>1
      <3>3. sent[1] = SyncFrame /\ len[1] = FrameBytes(sent[1])
        BY <1>3, <1>5, <3>1, <3>2
      <3> QED BY <3>3 DEF SyncFrame, FrameBytes
    <2> QED BY <1>2, <2>1, FirstTime
  <1>7. \A k \in 1 .. r : len[i + k] = HeaderBytes + TableBytes
    <2> SUFFICES ASSUME NEW k \in 1 .. r
                 PROVE  len[i + k] = HeaderBytes + TableBytes
      OBVIOUS
    <2>1. sent[i + k] = Answers(r)[k]
      BY <1>3
    <2>0. i + k \in 1 .. i + r + m
      <3>1. i \in Nat /\ m \in Nat /\ r \in Nat
        BY <1>0, <1>2
      <3> QED BY <3>1
    <2>2. Answers(r)[k].type = "table"
      <3>1. Answers(r)[k] = TableUpdate(new_clients_rb[k], Idx,
                                        Elapsed + (k - 1) * UpdateTime)
        BY <1>0, AnswerCell
      <3> QED BY <3>1 DEF TableUpdate
    <2>3. len[i + k] = FrameBytes(Answers(r)[k])
      BY <1>5, <2>0, <2>1
    <2> QED BY <2>2, <2>3 DEF FrameBytes
  <1>8. \A k \in 1 .. m : /\ len[i + r + k] = PacketLens[k]
                          /\ PacketLens[k] \in Nat
    <2> SUFFICES ASSUME NEW k \in 1 .. m
                 PROVE  /\ len[i + r + k] = PacketLens[k]
                        /\ PacketLens[k] \in Nat
      OBVIOUS
    <2>0. i + r + k \in 1 .. i + r + m
      <3>1. i \in Nat /\ m \in Nat /\ r \in Nat
        BY <1>0, <1>2
      <3> QED BY <3>1
    <2>1. sent[i + r + k] = DataPackets(m)[k]
      BY <1>3
    <2>2. DataPackets(m)[k] = DataPacket(tx_ring_buffer[k])
      BY DEF DataPackets
    <2>3. len[i + r + k] = tx_ring_buffer[k].len
      <3>1. len[i + r + k] = FrameBytes(DataPacket(tx_ring_buffer[k]))
        BY <1>5, <2>0, <2>1, <2>2
      <3> QED BY <3>1 DEF FrameBytes, DataPacket
    <2>4. /\ k \in 1 .. Len(tx_ring_buffer)
          /\ tx_ring_buffer[k] \in Packets
      BY <1>0 DEF TypeOK
    <2>5. PacketLens[k] = tx_ring_buffer[k].len
      BY <2>4 DEF PacketLens
    <2>6. tx_ring_buffer[k].len \in Nat
      <3>1. PICK p \in Packets : p = tx_ring_buffer[k]
        BY <2>4
      <3>2. p.len \in 0 .. 255
        BY PacketsAssumption DEF PacketsAssumption
      <3>3. \A x \in 0 .. 255 : x \in Nat
        OBVIOUS
      <3> QED BY <3>1, <3>2, <3>3, Zenon
    <2> QED BY <2>3, <2>5, <2>6
  <1>9. \A k \in 1 .. i : len[k] \in Nat
    <2> SUFFICES ASSUME NEW k \in 1 .. i PROVE len[k] \in Nat
      OBVIOUS
    <2>1. First = <<SyncFrame>> /\ k = 1
      BY <1>2 DEF First
    <2>2. sent[k] = SyncFrame /\ len[k] = FrameBytes(sent[k])
      BY <1>0, <1>2, <1>3, <1>5, <2>1
    <2> QED BY <2>2 DEF SyncFrame, FrameBytes, HeaderBytes, SyncFrameBytes
  <1>10. AirTime(len, i + r) = Elapsed + r * UpdateTime
    <2>1. /\ \A k \in 1 .. r : AnswerLens[k] = HeaderBytes + TableBytes
          /\ HeaderBytes + TableBytes \in Nat
      BY DEF TypeOK, AnswerLens, HeaderBytes, TableBytes
    <2>2. Follow(len, i, AnswerLens, r) /\ Lengths(len, i)
      BY <1>7, <1>9, <2>1 DEF Follow, Lengths
    <2>3. AirTime(len, i + r) = AirTime(len, i) + AirTime(AnswerLens, r)
      BY <1>0, <1>2, <2>2, AirTimeAfter
    <2> QED BY <1>6, <2>3, AnswersTime
  <1>11. \A k \in 1 .. i + r : len[k] \in Nat
    <2>1. ASSUME NEW k \in 1 .. i + r, k > i PROVE len[k] \in Nat
      <3>1. PICK j \in 1 .. r : k = i + j
        <4>1. k - i \in 1 .. r /\ k = i + (k - i)
          BY <1>0, <1>2, <2>1
        <4> QED BY <4>1
      <3>2. len[i + j] = HeaderBytes + TableBytes
        BY <1>7
      <3> QED BY <3>1, <3>2 DEF HeaderBytes, TableBytes
    <2>2. ASSUME NEW k \in 1 .. i + r PROVE k > i \/ k \in 1 .. i
      BY <1>0, <1>2
    <2> QED BY <1>9, <2>1, <2>2
  <1>12. AirTime(len, (i + r) + m) = AirTime(len, i + r) + AirTime(PacketLens, m)
    <2>1. PICK n \in Nat : n = i + r
      BY <1>0, <1>2
    <2>2. Follow(len, n, PacketLens, m) /\ Lengths(len, n)
      BY <1>8, <1>11, <2>1 DEF Follow, Lengths
    <2>3. AirTime(len, n + m) = AirTime(len, n) + AirTime(PacketLens, m)
      BY <1>0, <2>2, AirTimeAfter
    <2> QED BY <2>1, <2>3
  <1>13. AirTime(PacketLens, m) \in Nat
    BY <1>0, <1>8, AirTimeNat
  <1> QED BY <1>2, <1>3, <1>4, <1>10, <1>12, <1>13

(***************************************************************************)
(* Whatever waits, however many microseconds a byte takes up to the 64 of  *)
(* the slowest radio mode, and in whichever slot, the timer is done before *)
(* the dead time.                                                          *)
(***************************************************************************)
THEOREM StaysInSlot == ByteUs <= 64 => (Spec => TimerStaysInSlot)
  <1>0. SUFFICES ASSUME ByteUs <= 64
                 PROVE  Spec => TimerStaysInSlot
    OBVIOUS
  <1>1. Elapsed < 2400 /\ Elapsed \in Nat
    BY <1>0, SlotTimes, ByteUsAssumption
  <1>2. ASSUME TypeOK, [Next]_vars, active_slot_idx' # active_slot_idx
        PROVE  AirInSlot'
    <2>1. TimerTdmaInterrupt
      BY <1>2, QuietStepsLemma
    <2>2. SUFFICES AirTime(AirLens(air'), Len(air')) < 2400
      BY DEF AirInSlot, AirLens, TIME_SLOT_DURATION_US, TX_DEADTIME_US
    <2>3. ASSUME NEW r \in 0 .. Len(new_clients_rb),
                 NEW m \in 0 .. Len(tx_ring_buffer), GatewayTakes(r, m)
          PROVE  AirTime(AirLens(air'), Len(air')) < 2400
      <3>1. PICK a \in Nat, p \in Nat :
              /\ a = Elapsed + r * UpdateTime
              /\ p = AirTime(PacketLens, m)
              /\ AirTime(AirLens(air'), Len(air')) = a + p
        <4>1. r \in Nat /\ UpdateTime \in Nat
          BY <1>2, SlotTimes DEF TypeOK
        <4>2. r * UpdateTime \in Nat
          BY <4>1, LessTimes
        <4> QED BY <1>1, <1>2, <2>3, <4>2, TurnTime
      <3>2. a < 2400
        <4>1. CASE r = 0
          BY <1>1, <3>1, <4>1, SlotTimes
        <4>2. CASE r # 0
          <5>1. r \in 1 .. Len(new_clients_rb)
            BY <1>2, <4>2 DEF TypeOK
          <5>2. a < (2500 - Elapsed) \div 2 - 100
            BY <1>2, <2>3, <3>1, <5>1, AnswersInTime
               DEF TIME_SLOT_DURATION_US, TX_DEADTIME_US
          <5> QED BY <1>1, <5>2
        <4> QED BY <4>1, <4>2
      <3>3. CASE m = 0
        <4>1. p = 0
          BY <3>1, <3>3, AirTimeStep
        <4> QED BY <3>1, <3>2, <4>1
      <3>4. CASE m # 0
        <4>1. m \in 1 .. m
          BY <1>2, <3>4 DEF TypeOK
        <4>2. a + AirTime(PacketLens, m) < 2500 - a - 100
          BY <2>3, <3>1, <4>1
             DEF GatewayTakes, SendsExactly, TIME_SLOT_DURATION_US,
                 TX_DEADTIME_US
        <4> QED BY <3>1, <4>2
      <3> QED BY <3>3, <3>4
    <2>4. CASE air' = First
      <3>1. PICK sent : sent = air' /\ sent = First
        BY <2>4
      <3>2. First = <<SyncFrame>> => AirLens(sent)[1] = HeaderBytes + SyncFrameBytes
        BY <3>1 DEF AirLens, SyncFrame, FrameBytes
      <3>3. AirTime(AirLens(sent), Len(sent)) = Elapsed
        BY <3>1, <3>2, FirstTime
      <3> QED BY <1>1, <3>1, <3>3
    <2> QED BY <2>1, <2>3, <2>4, TurnLemma
  <1>3. TypeOK /\ [Next]_vars
          => [active_slot_idx' # active_slot_idx => AirInSlot']_vars
    BY <1>2
  <1> QED BY <1>3, Typing, PTL DEF Spec, TimerStaysInSlot

-----------------------------------------------------------------------------
(* What the robots are told. *)

(***************************************************************************)
(* A frame in the air tells the state of the table as it is: a sync frame  *)
(* is sent in slot 0, a table update gives its client's slot, and the time *)
(* to the next frame counted from this slot.                               *)
(***************************************************************************)
TruthOfSync(f) == active_slot_idx = 0 /\ f.frame_period = frame_duration_us
Begun(us) == us \div TIME_SLOT_DURATION_US
Late(f, frame, idx) == frame - idx * TIME_SLOT_DURATION_US - f.next_period_start
TruthOfTable(f) ==
  /\ f.dst \in Clients /\ f.frame_period = frame_duration_us
  /\ Begun(f.tx_start) \in 0 .. table_index
  /\ table[Begun(f.tx_start)].client = f.dst
  /\ f.next_period_start \in Int
  /\ Late(f, frame_duration_us, active_slot_idx)
       \in 0 .. TIME_SLOT_DURATION_US - 1
Truthful(f) == /\ f.type = "sync" => TruthOfSync(f)
               /\ f.type = "table" => TruthOfTable(f)
AirTruthful == \A k \in DOMAIN air : Truthful(air[k])

\* _server_find_client finds the client's only slot.
LEMMA FindClient ==
  ASSUME TypeOK, SlotOwnership, NEW c \in Clients, Registered(c)
  PROVE  SlotOf(c) \in 0 .. table_index /\ table[SlotOf(c)].client = c
  <1>1. PICK i \in 0 .. table_index : table[i].client = c
    BY DEF Registered
  <1>2. \A j \in 0 .. i - 1 : table[j].client # c
    <2> SUFFICES ASSUME NEW j \in 0 .. i - 1, table[j].client = c
                 PROVE  FALSE
      OBVIOUS
    <2>1. j \in 0 .. table_index /\ j # i
      BY DEF TypeOK
    <2>2. c # Gateway
      BY IdsAssumption
    <2> QED BY <1>1, <2>1, <2>2 DEF SlotOwnership
  <1> QED BY <1>1, <1>2 DEF SlotOf

LEMMA AnswerTruthful ==
  ASSUME TypeOK, SlotOwnership, QueuedAreRegistered,
         active_slot_idx' = Idx, UNCHANGED slots,
         NEW r \in 1 .. Len(new_clients_rb), NEW m, GatewayTakes(r, m),
         NEW k \in 1 .. r, NEW f, f = Answers(r)[k]
  PROVE  Truthful(f)'
  <1>1. PICK c : c = new_clients_rb[k]
    OBVIOUS
  <1>2. c \in Clients /\ Registered(c)
    <2>1. k \in 1 .. Len(new_clients_rb) /\ r \in Nat
      BY DEF TypeOK
    <2>2. c \in Clients /\ c \in Waiting(new_clients_rb)
      BY <1>1, <2>1 DEF TypeOK, Waiting
    <2> QED BY <2>2 DEF QueuedAreRegistered
  <1>3. PICK i \in 0 .. table_index : i = SlotOf(c) /\ table[i].client = c
    BY <1>2, FindClient
  <1>4. PICK e \in 0 .. TIME_SLOT_DURATION_US - 1 :
          e = Elapsed + (k - 1) * UpdateTime
    BY AnswersInTime
  <1>5. f = TableUpdate(c, Idx, e)
    BY <1>1, <1>4, AnswerCell DEF TypeOK
  <1>6. /\ f.type = "table" /\ f.dst = c /\ f.frame_period = frame_duration_us
        /\ f.tx_start = table[i].tx_start
        /\ f.next_period_start =
             frame_duration_us - (Idx * TIME_SLOT_DURATION_US + e)
    BY <1>3, <1>5 DEF TableUpdate
  <1>7. /\ table' = table /\ table_index' = table_index
        /\ frame_duration_us' = frame_duration_us
    BY DEF slots
  <1>8. Begun(f.tx_start) = i
    BY <1>6 DEF SlotOwnership, Begun, TIME_SLOT_DURATION_US
  <1>9. /\ f.next_period_start \in Int
        /\ Late(f, frame_duration_us, Idx) \in 0 .. TIME_SLOT_DURATION_US - 1
    <2>1. Idx \in Nat /\ frame_duration_us \in Nat
      <3>1. active_slot_idx + 1 \in Nat /\ LastSlot \in Nat \ {0}
        BY LastSlotType DEF TypeOK
      <3> QED BY <3>1, DivMod DEF Idx, TypeOK
    <2>2. PICK n, w, p :
            /\ n \in Nat /\ w \in Nat
            /\ n = Idx /\ w = frame_duration_us
            /\ p = f.next_period_start /\ p = w - (n * 2500 + e)
      BY <1>6, <2>1 DEF TIME_SLOT_DURATION_US
    <2>3. w - n * 2500 - p = e
      BY <2>2 DEF TIME_SLOT_DURATION_US
    <2>4. Late(f, w, n) = w - n * 2500 - p
      BY <2>2 DEF Late, TIME_SLOT_DURATION_US
    <2>5. Late(f, w, n) \in 0 .. TIME_SLOT_DURATION_US - 1
      BY <2>3, <2>4
    <2>6. p \in Int
      BY <2>2 DEF TIME_SLOT_DURATION_US
    <2> QED BY <2>2, <2>5, <2>6
  <1>10. TruthOfTable(f)'
    <2>1. Begun(f.tx_start)' = i
      BY <1>8 DEF Begun, TIME_SLOT_DURATION_US
    <2>2. Late(f, frame_duration_us', active_slot_idx')
            \in 0 .. TIME_SLOT_DURATION_US - 1
      BY <1>7, <1>9
    <2> QED BY <1>2, <1>3, <1>6, <1>7, <1>9, <2>1, <2>2 DEF TruthOfTable
  <1> QED BY <1>6, <1>10 DEF Truthful

LEMMA TruthStep ==
  /\ TypeOK /\ SlotOwnership /\ FrameMatchesWalk /\ QueuedAreRegistered
  /\ AirTruthful /\ [Next]_vars
  => AirTruthful'
  <1> SUFFICES ASSUME TypeOK, SlotOwnership, QueuedAreRegistered,
                      AirTruthful, [Next]_vars
               PROVE  AirTruthful'
    OBVIOUS
  <1>1. CASE TimerTdmaInterrupt
    <2>1. active_slot_idx' = Idx /\ UNCHANGED slots
      BY <1>1, TurnLemma DEF TimerTdmaInterrupt
    <2>2. ASSUME Idx = 0 PROVE Truthful(SyncFrame)'
      <3>1. active_slot_idx' = 0 /\ frame_duration_us' = frame_duration_us
        BY <2>1, <2>2 DEF slots
      <3> QED BY <3>1 DEF Truthful, TruthOfSync, SyncFrame
    <2>3. ASSUME NEW r \in 0 .. Len(new_clients_rb),
                 NEW m \in 0 .. Len(tx_ring_buffer), GatewayTakes(r, m),
                 NEW f \in Frames(r, m)
          PROVE  Truthful(f)'
      <3>1. CASE f = SyncFrame /\ Idx = 0
        <4>1. active_slot_idx' = 0 /\ frame_duration_us' = frame_duration_us
          BY <2>1, <3>1 DEF slots
        <4> QED BY <3>1, <4>1 DEF Truthful, TruthOfSync, SyncFrame
      <3>2. ASSUME NEW k \in 1 .. r, f = Answers(r)[k] PROVE Truthful(f)'
        <4>1. r \in 1 .. Len(new_clients_rb)
          BY DEF TypeOK
        <4> QED BY <2>1, <2>3, <3>2, <4>1, AnswerTruthful
      <3>3. ASSUME NEW k \in 1 .. m, f = DataPackets(m)[k] PROVE Truthful(f)'
        BY <3>3 DEF DataPackets, DataPacket, Truthful
      <3> QED BY <3>1, <3>2, <3>3, <2>3 DEF Frames
    <2>4. ASSUME NEW r \in 0 .. Len(new_clients_rb),
                 NEW m \in 0 .. Len(tx_ring_buffer), GatewayTakes(r, m)
          PROVE  AirTruthful'
      <3>1. r \in Nat /\ m \in Nat
        BY DEF TypeOK
      <3>2. air' \in Seq(Frames(r, m))
        BY <2>4, <3>1, TurnCells
      <3>3. ASSUME NEW k \in DOMAIN air' PROVE air'[k] \in Frames(r, m)
        BY <3>2
      <3> QED BY <2>3, <2>4, <3>3 DEF AirTruthful
    <2>5. CASE air' = First
      <3>1. ASSUME NEW k \in DOMAIN air'
            PROVE  air'[k] = SyncFrame /\ Idx = 0
        BY <2>5 DEF First
      <3>2. ASSUME NEW f, f = SyncFrame, Idx = 0 PROVE Truthful(f)'
        <4>1. active_slot_idx' = 0 /\ frame_duration_us' = frame_duration_us
          BY <2>1, <3>2 DEF slots
        <4> QED BY <3>2, <4>1 DEF Truthful, TruthOfSync, SyncFrame
      <3> QED BY <3>1, <3>2 DEF AirTruthful
    <2> QED BY <1>1, <2>4, <2>5, TurnLemma
  <1>2. CASE air' = <<>>
    BY <1>2 DEF AirTruthful
  <1>3. CASE Flush
    <2>1. ASSUME NEW k \in DOMAIN air' PROVE air'[k].type = "data"
      BY <1>3, <2>1 DEF Flush, DataPacket
    <2> QED BY <2>1 DEF AirTruthful, Truthful
  <1>4. CASE UNCHANGED vars
    BY <1>4 DEF vars, slots, AirTruthful, Truthful, TruthOfSync, TruthOfTable
  <1> QED BY <1>1, <1>2, <1>3, <1>4
          DEF Next, TdmaServerCallback, ReceiveFromStranger, ReceiveFromClient,
              Tx, Empty

-----------------------------------------------------------------------------
(* How far the frame can grow: with the number of clients. *)

Counted == num_clients = Cardinality({c \in Clients : Registered(c)})

LEMMA CountStep ==
  IsFiniteSet(Clients) =>
    (TypeOK /\ SlotOwnership /\ Counted /\ [Next]_vars => Counted')
  <1> SUFFICES ASSUME IsFiniteSet(Clients), TypeOK, SlotOwnership, Counted,
                      [Next]_vars
               PROVE  Counted'
    OBVIOUS
  <1> DEFINE Known == {c \in Clients : Registered(c)}
  <1>1. ASSUME NEW client \in Clients, ReceiveFromStranger(client)
        PROVE  Counted'
    <2>1. /\ \A i \in 0 .. table_index :
               table'[i] = table[i] /\ table[i].client # client
          /\ table_index' = IF GatewayDue THEN table_index + 2 ELSE table_index + 1
          /\ table'[table_index'].client = client
          /\ GatewayDue => table'[table_index + 1].client = Gateway
          /\ num_clients' = num_clients + 1
      BY <1>1, StrangerLemma, Zenon
    <2>2. table_index \in Nat
      BY DEF TypeOK
    <2>3. ASSUME NEW c \in Clients
          PROVE  Registered(c)' <=> Registered(c) \/ c = client
      <3>1. ASSUME NEW i \in 0 .. table_index', table'[i].client = c
            PROVE  Registered(c) \/ c = client
        <4>1. \/ i \in 0 .. table_index
              \/ i = table_index'
              \/ GatewayDue /\ i = table_index + 1
          BY <2>1, <2>2
        <4>2. CASE i \in 0 .. table_index
          BY <2>1, <3>1, <4>2 DEF Registered
        <4>3. CASE i = table_index'
          BY <2>1, <3>1, <4>3
        <4>4. CASE GatewayDue /\ i = table_index + 1
          BY <2>1, <3>1, <4>4, IdsAssumption
        <4> QED BY <4>1, <4>2, <4>3, <4>4
      <3>2. ASSUME Registered(c) PROVE Registered(c)'
        <4>1. PICK i \in 0 .. table_index : table[i].client = c
          BY <3>2 DEF Registered
        <4>2. i \in 0 .. table_index' /\ table'[i].client = c
          BY <2>1, <2>2, <4>1
        <4> QED BY <4>2 DEF Registered
      <3>3. ASSUME c = client PROVE Registered(c)'
        <4>1. table_index' \in 0 .. table_index'
          BY <2>1, <2>2
        <4> QED BY <2>1, <3>3, <4>1 DEF Registered
      <3> QED BY <3>1, <3>2, <3>3 DEF Registered
    <2>4. {c \in Clients : Registered(c)'} = Known \cup {client}
      BY <2>3
    <2>5. client \notin Known
      BY <1>1 DEF ReceiveFromStranger
    <2>6. IsFiniteSet(Known)
      BY FS_Subset
    <2>7. Cardinality(Known \cup {client}) = Cardinality(Known) + 1
      <3> HIDE DEF Known
      <3> QED BY <2>5, <2>6, FS_AddElement
    <2>8. num_clients' = Cardinality(Known \cup {client})
      BY <2>1, <2>7 DEF Counted
    <2> QED BY <2>4, <2>8 DEF Counted
  <1>2. CASE UNCHANGED slots
    <2>1. \A c \in Clients : Registered(c)' <=> Registered(c)
      BY <1>2 DEF slots, Registered
    <2>2. {c \in Clients : Registered(c)'} = Known
      BY <2>1
    <2> QED BY <1>2, <2>2 DEF slots, Counted
  <1> QED BY <1>1, <1>2, OtherStepsLemma

LEMMA FrameBound ==
  ASSUME IsFiniteSet(Clients), TypeOK, SlotOwnership, FrameMatchesWalk, Counted,
         NEW n \in Nat, DefaultSlots < n,
         Cardinality(Clients) < (n - 1) - (n - 1) \div SlotsPerGateway
  PROVE  LastSlot < n
  <1> DEFINE Known == {c \in Clients : Registered(c)}
  <1>1. /\ num_clients <= Cardinality(Clients)
        /\ num_clients \in Nat /\ Cardinality(Clients) \in Nat
    <2>1. /\ Cardinality(Known) <= Cardinality(Clients)
          /\ Cardinality(Known) \in Nat /\ Cardinality(Clients) \in Nat
      BY FS_Subset, FS_CardinalityType
    <2> QED BY <2>1 DEF Counted
  <1>2. /\ table_index \in Nat /\ SlotsPerGateway \in Nat \ {0}
        /\ num_clients = table_index - table_index \div SlotsPerGateway
    BY SlotsAssumption DEF TypeOK, SlotOwnership
  <1>3. PICK last \in Nat : last = n - 1
    BY SlotsAssumption
  <1>4. ~ (last <= table_index)
    <2> SUFFICES ASSUME last <= table_index PROVE FALSE
      OBVIOUS
    <2>1. last - last \div SlotsPerGateway
            <= table_index - table_index \div SlotsPerGateway
      BY <1>2, NonMultiplesMonotone
    <2>2. last \div SlotsPerGateway \in Nat
      BY <1>2, DivMod
    <2> QED BY <1>1, <1>2, <1>3, <2>1, <2>2
  <1>5. table_index + 1 < n
    BY <1>2, <1>3, <1>4
  <1> QED BY <1>5, LastSlotLemma, SlotsAssumption DEF LastSlot

\* All of it together, as the network needs it.
ServerInv ==
  /\ TypeOK /\ SlotOwnership /\ FrameMatchesWalk /\ QueuedAreRegistered
  /\ AirTruthful /\ Counted

LEMMA ServerInit == Init => ServerInv
  <1> SUFFICES ASSUME Init PROVE ServerInv
    OBVIOUS
  <1>1. TypeOK
    BY CapsAssumption, SlotsAssumption
       DEF Init, TypeOK, Entry, Ids, DEFAULT_FRAME_DURATION_US,
           TIME_SLOT_DURATION_US
  <1>2. SlotOwnership
    <2>1. 0 % SlotsPerGateway = 0 /\ 0 \div SlotsPerGateway = 0
      BY SlotsAssumption
    <2> QED BY <2>1 DEF Init, SlotOwnership, Entry, TIME_SLOT_DURATION_US
  <1>3. FrameMatchesWalk
    BY SlotsAssumption
       DEF Init, FrameMatchesWalk, LastSlot, DEFAULT_FRAME_DURATION_US,
           TIME_SLOT_DURATION_US
  <1>4. QueuedAreRegistered /\ AirTruthful
    BY DEF Init, QueuedAreRegistered, Waiting, AirTruthful
  <1>5. Counted
    <2>1. \A c \in Clients : ~ Registered(c)
      BY IdsAssumption DEF Init, Registered, Entry
    <2>2. {c \in Clients : Registered(c)} = {}
      BY <2>1
    <2> QED BY <2>2, FS_EmptySet DEF Init, Counted
  <1> QED BY <1>1, <1>2, <1>3, <1>4, <1>5 DEF ServerInv

\* The slots given so far stay.
LEMMA TableGrows ==
  ASSUME TypeOK, SlotOwnership, [Next]_vars
  PROVE  /\ table_index' >= table_index /\ table_index' \in Nat
         /\ \A i \in 0 .. table_index : table'[i] = table[i]
  <1>1. table_index \in Nat
    BY DEF TypeOK
  <1>2. ASSUME NEW client \in Clients, ReceiveFromStranger(client)
        PROVE  /\ table_index' >= table_index /\ table_index' \in Nat
               /\ \A i \in 0 .. table_index : table'[i] = table[i]
    BY <1>1, <1>2, StrangerLemma
  <1>3. CASE UNCHANGED slots
    BY <1>1, <1>3 DEF slots
  <1> QED BY <1>2, <1>3, OtherStepsLemma

LEMMA ServerStep ==
  IsFiniteSet(Clients) => (ServerInv /\ [Next]_vars => ServerInv')
  BY TypeStep, OwnershipStep, FrameStep, QueuedStep, TruthStep, CountStep
     DEF ServerInv

=============================================================================
