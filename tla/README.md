# Models and proofs of the DotBot TDMA network

This directory holds TLA+ models of the firmware in `dotbot-libs/`, the TLC
configurations that check them and TLAPS proofs of the results that matter
most. Paths below are relative to the root of the repository unless they
begin with `drv/` or `bsp/`, which stand for `dotbot-libs/drv/` and
`dotbot-libs/bsp/`.

## 1. The system

DotBots are small robots with an nRF radio. A **gateway**, connected to a
computer, talks to tens of them on one radio channel. So that they do not
speak at the same time, the gateway runs a TDMA server: it cuts time into
slots of 2.5 ms, gives a slot to every robot it hears and tells each robot
which one; the robots run a TDMA client that waits for its slot, transmits
what the application queued, and otherwise listens.

| part | source | state | operations |
|---|---|---|---|
| packet and id queues | `drv/tdma_server`, `drv/tdma_client` | ring: buffer, write and read index, count | add (overwrites when full), get, init, search |
| TDMA server | `drv/tdma_server/tdma_server_default.c` | slot table, table index, clients, frame length, slot being walked, ids to answer, packets to send | radio callback (register, remind, pass up), slot timer (sync frame, table updates, packets), tx, flush, empty |
| TDMA client | `drv/tdma_client/tdma_client_default.c` | registered?, rx flag, own table, two timers, time of the last packet, packets to send, radio on? | radio callback (table update, sync frame, data), tx timer, rx timer, tx, flush, empty, set_table |
| radio | `bsp/nrf/radio_default.c` | RX / TX / BUSY state, one packet buffer, the peripheral's events and shortcuts | init, tx (blocking), rx, disable, interrupt |
| timers | `bsp/nrf/timer_hf.c`, `bsp/nrf/timer.c` | compare channels, callbacks, delay flag (32-bit microseconds, 24-bit ticks) | now, one-shot, periodic, delay, interrupt |
| packet formats | `drv/protocol` | none | headers, TDMA payloads, application commands |
| inter-core calls | `nRF/System/nRF5340_xxAA_Application_cpu.c`, `drv/*/*_nrf5340_app.c`, `bsp/ipc.h` | shared memory, request and acknowledge flags, mutex | network call, interrupt, forwarding of the driver APIs |
| HDLC framing | `drv/hdlc/hdlc.c` | receiver state, buffer, checksum | receive byte, decode, encode |
| lighthouse localisation | `bsp/nrf/lh2_default.c` | ring of SPI captures, two sweep slots | start, stop, reset, SPI interrupt, process, select sweep |
| quadrature decoder | `bsp/nrf/qdec.c` | overflow counters beside the peripheral's accumulator | read, read and clear, overflow interrupt |
| motion | `drv/move`, `drv/motors` | powers, encoder counts | straight, rotate |
| PID | `drv/pid` | gains, limits, mode | update, set mode, set gains |
| flash | `bsp/nrf/nvmc.c`, `bsp/nrf/partition.c`, `drv/log_flash` | write pointer, partition table | erase, write, log |
| remote-controlled robot | `02testbed_dotbot_rcrobot`, `00std_dotbot_rcrobot`, `00std_nrf5340-dk_rcremote` | time of the last command, motors on? | command, timeout check |

The server and the client use the radio and the timer of the core they run
on; both the radio's and the timer's interrupt call into them, and so does
the application. On the network core of the nRF5340 the two interrupts have
the same priority, so that handlers do not interrupt each other; the
application's calls can be interrupted anywhere. Server and client interact
only through packets: `KEEP_ALIVE` (also the request for a slot),
`TDMA_UPDATE_TABLE` (the answer) and `TDMA_SYNC_FRAME` (start and length of
the frame). Nothing is acknowledged, nobody's registration ever expires. On a
robot with two cores the application reaches the drivers through shared
memory: it writes a request, signals, and polls until the network core has
acknowledged; packets come back under a hardware mutex.

What is hard here: registrations that change the table in the middle of a
frame; robots that keep time from an older and shorter frame; lost packets
and collisions with no acknowledgement; queues that overwrite; the budget of
microseconds in a slot, that depends on the radio mode; the main loop and
the interrupts on one ring, one radio, one timer and one encoder; two cores
that share words and flags; counters that go round; a reset of the gateway or
of a robot; and in the client a receive window and timers re-armed from
several places. `PROJECT.json` lists each of these at the line where it bites
("hazards"), with the properties that watch it.

## 2. Modules

| module | models | checked by |
|---|---|---|
| `RingOps` | the ring buffer as operators on a record with the fields of the C struct | `programs`, `ring_race_lost` |
| `Fifo` | abstract: a queue that forgets its oldest element when full | `programs` |
| `RingBuffer` | the ring driven by any calls, run to completion; implements `Fifo` | `programs` |
| `RingRace` | the client's transmit ring, one memory access at a time, with the timer interrupt in between | `ring_race_lost` |
| `TxDrain` | the loops that empty a queue into a slot, and the rings as the sequences of their contents | through the next two |
| `TdmaServer`, `MCTdmaServer` | the gateway | `server`, `server_table_full` |
| `TdmaClient`, `MCTdmaClient` | the robots, each on its own, with an environment that sends any legal packet | `client` |
| `Tdma`, `MCTdma` | `TdmaServer` and `TdmaClient` composed over a lossy medium, with resets | `network`, `network_*` |
| `Ipc` | calls to the network core and packets from it, access by access | `programs`, `ipc_ack` |
| `Radio` | the radio driver and its peripheral, access by access | `programs`, `radio_deaf` |
| `Timers` | delay and alarm of the timer drivers, with the interrupt, access by access | `programs`, `timer_one_shot` |
| `RcRobot` | commands and timeout of the remote-controlled robot | `programs` |
| `Hdlc` | encode, receive and decode over a serial line that loses bytes | `programs` |
| `Lh2` | captures, ring and sorting of sweeps of the lighthouse driver | `programs`, `lighthouse_torn` |
| `Qdec` | the encoder's accumulator, its interrupt and reads of the total | `programs` |
| `Programs` | those that share no state, side by side | `programs` |

Proofs are in modules of their own: `RingBuffer_proofs`, `TxDrain_proofs`,
`TdmaServer_proofs`, `TdmaClient_proofs`, `Tdma_proofs`, `Qdec_proofs`,
`Clocks_proofs` (of `Timers`, `RcRobot` and `Lh2`, which live on counters that
go round) and `Links_proofs` (of `Radio`, `Ipc` and `Hdlc`).

`RingBuffer` shows that `add`, `get` and the search of a ring do to its
contents what `PutInto`, `PutBack` and `IdExists` of `TxDrain` do to a
sequence, so the larger models hold the contents of the rings as sequences.

`Programs` is not a claim that the drivers interact: each of its modules runs
on a board of its own (`program` says which), and the others stay in their
initial state. It lets one run ask the questions of eight small state
machines. The drivers that do interact are composed in `Tdma`.

### State and actions

* **Server.** `table`, `table_index`, `num_clients`, `frame_duration_us`,
  `active_slot_idx`, `new_clients_rb`, `tx_ring_buffer` are the fields of
  `_tdma_vars`. `air` is what the last step transmitted and `quiet` a history
  variable: slots since the gateway's last one. `ReceiveFromStranger` and
  `ReceiveFromClient` are the two branches of `tdma_server_callback`,
  `TimerTdmaInterrupt` is `timer_tdma_interrupt` with `_tx_sync_frame`,
  `_tx_registration_messages` and `_message_rb_tx_queue`; `Tx`, `Flush`,
  `Empty` are the API. The loops that send until the slot is full are one
  step: `SendsExactly` says where they stop, counting in microseconds.
* **Client.** One entry per robot in each variable. Timers count slots down
  to their interrupt; `UpdateTable` and `SyncFrame` are the cases of
  `tdma_client_callback`, `TimerTxRegistered`, `TimerTxUnregistered` the
  branches of `timer_tx_interrupt`, `ListenForGood`, `BeginRx`, `EndRx` those
  of `timer_rx_interrupt`. `Restart` is `db_tdma_client_init` again.
  `silence` is the time since `last_tx_packet_timestamp`.
* **Network.** `NextSlot` is the gateway's slot timer and one slot of every
  robot's timers. In a slot each robot hears or misses (`Hear`, `Miss`) the
  frames for it, timers fire (`TimerTx`, `TimerRx`) and the gateway receives
  or misses what was sent (`Receive`, `Collide`). A robot misses a frame when
  it is lost, fails its CRC, or the robot was itself transmitting. `to_hear`
  are the places in `air` of the frames that concern a robot (`Concerns`) and
  that it has yet to get, in order (`Passes`). Of the packets of one slot the
  gateway may receive any, one after the other, and `Collide` loses the rest.
  The actions of the two modules are used as they are, through `INSTANCE`.
  `in_step` is history: has the robot been told of the frame as it is now?
* **Ring under interrupts.** `pc` is the next memory access of the running
  call; `AddLoad`/`AddCount` and `GetLoad`/`GetCount` are the two halves of
  `count++` and `count--`; `empty` writes its two fields one by one.
* **Ipc.** Three threads of control on two cores: the call in the
  application's main loop (`main_pc`), the network core's main loop
  (`net_pc`) and on each core the interrupt that copies a packet (`irq_pc`),
  which stops that core's main loop. The network core's firmware is not in
  the repository: its actions do what the application core relies on.
  `fulfilled` and `resent` are history.
* **Radio.** `radio_pc` is the next access of the running call; `RxAddress`
  and `AllDisabled` are the peripheral, which goes on meanwhile; `RadioIrq` is
  the handler. `Preempt` says whether it may run inside a call. `heard` is
  history: a packet that came in while nobody called.
* **Timers.** A counter, `cc` and `event` of two channels, the accesses of the
  main loop (`loop_pc`) and the handler's (`isr_pc`). The main loop delays
  (`DelayCapture`, `DelayArm`, `DelayRun`) or sets the alarm (`AlarmEnable`,
  `AlarmCapture`, `AlarmArm`), with interrupts and ticks between any two
  accesses; a callback or a higher interrupt sets it in one step (`SetAlarm`).
  `peripheral` chooses between TIMER and RTC, which differ in when an event is
  set. `alarm_left` and `left` are history: what remains of the times asked
  for.
* **RcRobot.** The check is two steps, the decision and the stop, with
  commands in between.
* **Hdlc.** `line` is the frame being sent; `RxByte` is `db_hdlc_rx_byte`, one
  action per branch; `LoseByte` is the line.
* **Lh2.** `Sweep` is the rotor passing the robot, `Lh2Isr` the SPI
  interrupt, which nothing masks; taking a capture out of the ring is four
  steps, and the compiler may keep `read_index` and `count` in a register from
  one to the next or load them again (`read_reg`, `count_reg`, `Reload`), as
  neither is volatile: the increment of the one and the decrement of the other
  may overwrite what the interrupt wrote. A sweep is its name, so that it can
  be told later what a slot really holds; `mixed` is history, the slots whose
  bits were sorted by the time of another capture.
* **Qdec.** `QdecSample` and `DoubleTransition` are the peripheral, `QdecIsr`
  and `ClearAcc` the two halves of `qdec_isr`; a read is two accesses, in
  either order, since C leaves the order of the operands open.

## 3. What the runs check

Passing runs:

* `server` (4 robots, table of 5, queue of 2 packets, a gateway slot every
  3): ownership of the slots, registration inside the table, agreement of the
  announced frame with the walk of the timer, the promised distance between
  gateway slots, no robot forgotten or queued twice while the queue of ids is
  larger than the number of robots, somebody answered in every gateway turn,
  and transmissions that end inside the slot.
* `client` (1 robot at 125 kbit/s, with short and long packets, and with
  tables of a gateway and of an application that listens part of the time):
  tables from the gateway never switch the receiver off, even while the receive
  duration is that of an older frame; whenever the receiver is off a timer is
  armed that looks at it again within a frame, although a sync frame may set
  that timer 71 minutes ahead (the underflow at `tdma_client_default.c:405`),
  and it is on again infinitely often; a registered robot transmits again and
  again, unless its turns come upon a packet too long for the slot again and
  again; a flush leaves something only where its 50 ms have no room for all
  that waited; a robot without a slot asks again and again.
* `network` (2 robots, one reset of a robot or of the gateway): a robot that
  believes it is registered has the slot it uses; a robot in step has its
  timer due in its own slot; two robots in step never share a slot; after a
  reset of the gateway a robot falls silent for ever only if its slot lies
  beyond the new frame.
* `network_live` (2 robots, one of which may be reset while the gateway has a
  slot for it): registration and resynchronisation end, with all in step, even
  if packets that overlap are lost every time. The gateway does not answer a
  robot that asks in its own slot (`tdma_server_default.c:594`), so that a
  robot with a fixed retry delay could ask there for ever, or together with
  another: the mutant of this run does.
* `programs`, one board at a time:
  the ring implements the overwriting FIFO, its three fields agree, and its
  search finds what waits in a ring that is not full;
  inter-core calls return, and only when fulfilled, the callback reads whole
  packets, and the last of a burst reaches it;
  the radio listens when it says so and hands over what it heard, when the
  handler cannot interrupt a call;
  a delay wakes and an alarm that is set stays set;
  the robot that hears nothing stops;
  frames get through the serial line again after a lost byte;
  the two sweeps reported are two sweeps, where their bits and times belong
  together;
  the encoder's total misses no step.

Several of these hold only with an exception, because the code fails in it.
Where the exception can be read off the state, the property names it there,
and the run reaches both sides: a packet too long for its turn
(`KeepsTheConnection`), more than 50 ms of packets (`FlushSendsAll`), a slot
beyond the frame (`SilentOnlyBeyondFrame`), a full ring
(`SearchSeesUnlessFull`), a command in the last ticks before the tick counter
goes round (`NeverRunsAway`). The others are history variables, set by the step
that goes wrong. None of these properties says that the code is right in the
excepted case; the property without the exception is violated, by a run below
or by a configuration that is kept beside them:

| exception | of | violated without it |
|---|---|---|
| `resent`: a request was sent twice | `ReturnsFulfilled` | `AckIsOfLatest`, run `ipc_ack` |
| `mixed`: bits of one capture, time of another | `SweepsApart` | `BitsKeepTheirTime`, run `lighthouse_torn` |
| `crossed`: an alarm set in the middle of its old expiry | `AlarmKept` | `NeverEarly`, `TimersEarly.cfg` |
| `late`: a delay over before it was armed | `DelayWakes` | `DelayIsBounded`, `TimersDelay.cfg` |
| `torn`: a read of the encoder cut in two | `ReadsEveryStep` | `ReadsWholeTotal`, `QdecTorn.cfg` |
| the wrap of the tick counter | `NeverRunsAway` | `StopsWhenSilent`, `RobotWrap.cfg` |
| `misled`: the encoder's interrupt finds another state than that of the overflow | `ReadsEveryStep` | described below |
| `outdated`: a sweep compared with one too old for the blanket 20 ms, with a later one, or captured at time 0 | `SweepsApart` | described below |

Runs in which TLC finds the violation the code allows:

* `server_table_full`: the table has as many entries as the header promises
  clients, but one entry in `SlotsPerGateway` is the gateway's: the array is
  overrun by registrations (with the real sizes, by the 88th client).
* `network_gateway_restart`: the gateway reboots into a frame shorter than a
  robot's `tx_start`; every sync frame re-arms the robot's timer before it
  expires, and the robot never speaks, so is never told of its new slot.
* `ring_race_lost`: the transmit timer interrupts `empty` between its writes
  of `read_index` and `count`; the indices of the empty ring disagree
  afterwards, and the next packet never leaves. `count++` in `tx` and
  `count--` in a flush race with the timer in the same way.
* `radio_deaf`: `disable` leaves its event standing; where the radio's
  interrupt can interrupt `rx`, the handler takes that event for one of the
  call, and the driver says RX with the receiver off.
* `timer_one_shot`: a one-shot alarm stays armed with its interrupt off; once
  the counter has gone round, any other channel's interrupt finds its event
  and calls the callback again.
* `lighthouse_torn`: the SPI interrupt moves the read index of a full ring
  between the copies of a capture's bits and of its time.
* `ipc_ack`: the caller reads `net_ack` and then `req`; if the request is
  fulfilled and deleted in between it looks lost and is sent again, and the
  second acknowledgement lets the next call return before it is fulfilled.
  This is so whichever of the two the network core writes first.

Configurations of further violations, each of one property, to run with the
module of the same name (`TdmaServerLongRange` with `MCTdmaServer`, `RobotWrap`
with `RcRobot`, the two of `Timers` with that):

* `TdmaServerLongRange.cfg`: at 125 kbit/s no table update fits the gateway's
  turn and nobody is registered, although the header lists the mode
  (`drv/tdma_server.h:62`). This is proved (`SlowModesStarve`, section 4), with
  what is left of it at 500 kbit/s.
* `TimersEarly.cfg`: `set_oneshot` enables the interrupt before it writes CC
  and leaves a pending event standing (`timer_hf.c:150`); the callback is called
  for the old expiry, whose INTENCLR switches the new alarm off.
* `TimersDelay.cfg`: an interrupt between the capture and the write of CC
  (`timer_hf.c:165`) that lasts longer than the delay leaves CC behind the
  counter, and the delay lasts a turn of it, 71 minutes.
* `RobotWrap.cfg`: a last command within `TIMEOUT_CHECK_TICKS` of the wrap of
  the 24-bit counter (every 512 s) is obeyed for ever. `bsp/timer.h:48` promises
  the number of ticks since initialisation, with which it would not be.
* `QdecTorn.cfg`: `qdec_isr` between the two operands of `db_qdec_read`
  (`qdec.c:77`) counts an overflow twice or not at all.

Met while modelling, and not kept as runs of their own:

* Server. The search for a waiting id fails in a full ring
  (`tdma_server_default.c:424`), so that with more robots waiting than cells
  one is queued twice and another forgotten; the properties of `server` say
  "while the queue is larger than the number of robots". A packet that does
  not fit is put back behind newer ones (`:339`). Packets of robots out of
  their slot, or just registered, are passed to the application as well
  (`:611`), where the comment at `:561-566` keeps it for those in their slot.
* Client. In the modes slower than 1 Mbit/s a long packet never fits a slot. It
  stays in the queue, each turn in which it is the oldest sends nothing and
  moves the time of the last transmission all the same
  (`tdma_client_default.c:305`), and the keep-alive that is to "maintain the
  connection" (`:459`) is not sent. A flush has 50 ms, room for three packets of
  255 bytes at 125 kbit/s, where the header says that all pending packets are
  sent (`drv/tdma_client.h:86`). Both are the exceptions of properties of
  `client`. The receive timer is set to `rx_start` less the air time of the
  sync frame, which underflows for the gateway's tables, where a comment
  promises a look once per frame (`:182`); `OffIsTimed` shows that no receiver
  that is off waits for it. `timer_rx_interrupt` never flips `rx_flag`
  (`tdma_client_default.c:496-506`): an idle period does not end by itself,
  and `HearsAgain` holds because each turn to transmit turns the receiver on.
* Radio. A transmission of the main loop (a flush) waits for DISABLED
  (`radio_default.c:250`); the slot timer may interrupt it, send packets and
  clear that event, and the main loop waits on.
* Timers. `now` captures into the channel a delay waits on
  (`timer_hf.c:127`).
* HDLC. The `ERROR` of a wrong checksum is overwritten by `READY`
  (`hdlc.c:94`), and the sender's checksum is over the payload where the
  receiver's is over the escaped bytes, so no frame is ever refused. A frame
  too short for a checksum makes the returned length wrap (`:135`), and the
  encoder's index is 8 bits wide (`:145`). A flag right after a flag is taken
  as data; a frame that is too long makes the receiver take its end for a
  beginning.
* Lighthouse. The age of slot 0 decides for both slots (`lh2_default.c:1776`),
  a time of 0 stands for an empty slot, and a stop is undone by the interrupt
  of a capture under way.
* Encoder. `qdec_isr` tells the direction by the latest sample and empties
  what it finds: taken a sample late, after the wheel turned round or (after
  an underflow) stopped, it is wrong by up to 2047 steps, until the next
  clear. The 16th double transition and every one after it raise the same
  event (ACCDBL is never emptied) and add 1023. A step that moves while
  `qdec_isr` is between its two halves is lost. And the peripheral drops the
  step that ran over.
* Remote control. `00std_dotbot_rcrobot` has no timeout and obeys its last
  command for ever (`00std_dotbot_rcrobot.c:116`).

### Bounds

Times are scaled down and keep their order: slot < frame < retry delay <
default frame of a robot without a table; `MaxFrame` is the bound that a sync
frame must respect, `WrapSlots` stands for 2^32 microseconds. Microseconds
inside a slot have the real values. In `network` a gateway slot every two
slots makes the second registration grow the frame from two slots to four and
put the first robot out of step; a third robot would repeat it. `server` has
more robots than non-gateway entries and more packets than cells, so that the
table overruns and the queue overwrites; its robots are interchangeable, and
the run says so (`SYMMETRY`; it has no liveness property). `MaxResets` bounds
the resets: after one, the code is in no state that a second finds different.
`MayReset` says who is reset: anybody in `network`, in `network_live` one of the
two robots, which are alike (the gateway's reset does have a robot that never
settles: `network_gateway_restart`). In `network_live` `RetrySlots` has two
delays, so that robots can draw apart; with one they overlap for ever and
`Settles` fails; and `MaxDelayWithoutTx` is 3 slots, which keeps the search for
cycles small. `client` has the rate and the ring (4 packets of 20 or 255 bytes)
at which a long packet does not fit a slot, three fit a flush and four do not.
`silence` is counted up to the value past which the code makes no difference.

In `programs`: a ring of size 3 distinguishes the three positions of the
indices (apart, equal and empty, equal and full) with a wrap between.
`IpcPackets` 3 tells a packet from the one before and after it. The timers'
counter goes round every 4 ticks with times of 2, so that every phase between
counter, expiry and wrap occurs; the robot's every 16, several timeouts of 3
and checks of 2. `BufferSize` 6 has room for a frame of one escaped byte and a
checksum and one byte more, and is too small for the payload of three. The
rotor turns in 7 with sweeps 3 apart and a blanket period of 8, as the real
ones are a little shorter than 20 ms; two turns make a wrap of the timer, and
a slot is too old after 7. `AccTop` 1 gives the accumulator room for the four
values -2 to 1, `DoublesTop` 1 for one double transition; `MaxOverflows` 2
bounds the times it runs over between two clears, so that both directions
meet. `MaxSweeps` 7 ends the time of the lighthouse after three and a half
turns, more than a wrap of its timer. `Preempt` is false here and true in
`radio_deaf`. Of the other runs only `lighthouse_torn` limits the length of the
behaviours, in the same way.

### Fairness

`TimelySpec` has weak fairness of the timers and of the reception or loss of
a packet: hardware timers fire, and no handler waits for ever. `FairSpec`
adds what the liveness of any unacknowledged protocol needs. A frame of the
gateway that is sent again and again is not lost every time (strong fairness
of `Hear`). A robot's packet is not lost every time, either, if it is on the
air alone, and not in its sender's own slot, again and again (`ReceiveAlone`):
nothing is assumed of packets that overlap, which may be lost every time, nor
of requests in a slot where the gateway does not answer them. And the random delays of
`_get_random_delay_us` are independent: of a robot that again and again draws
one as the last in its slot, each delay that ends with no other robot's comes
up again and again (`DrawApart`). With one fixed delay the last is
never possible, two robots that ask together collide for ever, and `Settles`
fails: that is its mutant.

`IpcFairness`: both cores run. It is strong for the main loops and for the
copies under the mutex, because interrupts may stop a main loop and the other
core may hold the mutex again and again, though not whenever one looks:
packets do not come so fast that a core does nothing but take them. A call
starts and a packet comes in without fairness. On the other boards of
`programs` nothing of it is ever enabled.

## 4. Proofs

Proved with TLAPS, for every value of the constants that the named assumptions
allow. Every invariant and every one-step property of the passing runs is
stated by a theorem; some have a hypothesis, given here.

* **The ring** (`RingBuffer_proofs`): `Typing`, `IndexInvariant`,
  `SearchSafety` and `RingRefinesFifo`. The inductive invariant is `TypeOK /\
  IndexInv`; the refinement shows that `Contents` of the ring after `add`,
  `get`, `init` is the queue after `Put`, `Take`, `Clear`, which needs lemmas
  about indices modulo `Size`.
* **What the users of the queues need** (`TxDrain_proofs`, lemmas only): the
  sequences of what waits, and the time on the air of a run of packets. That
  time is a sum over the queue, so `AirTimeNat`, `AirTimeBound` and
  `AirTimeAfter` are by induction.
* **The gateway** (`TdmaServer_proofs`): types, ownership of slots, bounds,
  frame and walk, no slot skipped (`EverySlotWalked`, which no run needs to
  repeat), distance of gateway slots, slots never move, waiters are
  registered, nobody waits twice and nobody is forgotten, somebody is
  answered, nothing overruns its slot. `TypeOK`, `SlotOwnership` and
  `FrameMatchesWalk` are inductive one on the other: `StrangerLemma` says what
  a registration does to the table, and `NextDivMod` and its companions how
  the number of gateway slots grows with the index. `GatewayGap` is
  strengthened to `QuietInv` (the slots since the gateway's last turn are the
  remainder of the slot being walked). `InBounds` follows from ownership by
  counting the multiples of `SlotsPerGateway`.
  `NobodyWaitsTwice` and `WaitersAreAnswered` are for a finite set of clients
  smaller than the ring: as nobody waits twice the ring is never full (a
  pigeonhole argument, `RoomLemma`), so `id_exists` sees all of it and adding
  overwrites nothing, which keeps anybody from waiting twice.
  `TurnsAnswer` is for 8 microseconds a byte or fewer (1 and 2 Mbit/s): the
  slower modes of the radio do not have the property. `SlowModesStarve` says
  what they do: at 64 microseconds a byte (125 kbit/s) no step of the gateway
  ever sends a table update, and at 16 (500 kbit/s) no turn that begins a frame
  does, which are all its turns until the table has a second gateway slot. `StaysInSlot` is for 64
  or fewer, which is all of them: the times at which the two loops of a slot
  stop leave room for the longest packet before the dead time.
* **The robots** (`TdmaClient_proofs`): types; `OffIsAlwaysTimed`, if no
  table listens for longer than its frame or pauses for `MaxFrame`
  (`WindowFits`; the gateway's listen all of it), which is kept by sync frames
  as well (`WindowsFit`), so that the pause that ends in an interrupt never
  underflows;
  `AlwaysOnMode`, whose invariant `WindowIsApps` says that a window shorter
  than the frame while `rx_flag` is `RX_ON` can only be the application's, and
  which assumes that the frames announced are of a length the code accepts
  (below `MaxFrame`, 500 ms: a robot does not take over a longer one).
  `StampsAreReal` has no hypothesis: for any packets, tables and rates the
  time of the last packet is set when something is sent, and otherwise only by
  a turn or a flush whose first packet is too long for it (`TooLong`).
  `LongPacketsSilence` shows that this case is real: nothing is sent, and the
  clock of the keep-alive starts again. `FlushesSendAll` has no hypothesis
  either: a loop that stops early has met a packet that would end too late,
  and with the ones behind it even later (`AirTimeGrows`).
* **The network** (`Tdma_proofs`): `SlotsAgreed`, `TimeKept` and `OneSpeaks`,
  for any number of robots that fit a frame, any losses and any resets of
  robots (these three say nothing after a reset of the gateway, whose table
  is then a new one). `NetworkInvariant` is the invariant they need. Its
  first half is the gateway's: every step of the network is one of
  `TdmaServer` or leaves its variables alone (`ServerNext`), so
  `SP!ServerInv` and its proof are taken over as they are. Its second half,
  `RobotsInv`, ties each robot to the gateway: what it has yet to hear is in
  the air and concerns it (`HeardIsSent`), which with what a turn of the
  gateway puts in the air makes every table heard one of the table's slots
  (`SlotsHeld`); and a robot in step counts down to its slot (`StepsKept`,
  which adds that it is registered to the property of the run). The hard
  steps are the gateway's turn, where the walk wraps when the timers count
  down; hearing a sync frame, where `SlotsUntil` must land on the slot on
  either side of the walk; and a registration, which changes the frame and
  takes everybody out of step.
* **The timers** (`Clocks_proofs`): `DelaysWake` and `AlarmsAreKept`, for
  both peripherals and a counter of any width. For the first, a delay that
  waits has its compare register ahead of the counter by no more than what is
  left of it, or its event standing (`Captured`, `Armed`); for the second, an
  alarm that nothing crossed is either enabled and due, or in the hands of the
  handler (`AlarmInHand`). `RtcCallsOnce` is the other side of
  `timer_one_shot`: on an RTC, which sets no event of a channel whose interrupt
  is off, a one-shot callback is called once.
* **The robot that stops** (`Clocks_proofs`): `StopsInTime`. While the counter
  cannot go round it tells the time since the last packet, and each check
  leaves the motors on for one more period at most (`StopInv`).
* **The lighthouse** (`Clocks_proofs`): `SlotsAreSorted`, with the interrupt
  anywhere, for two sweeps of a turn that are further apart, on both sides,
  than twice the threshold
  (`WellApart`; the threshold is 1 ms, and sweeps are a third or two thirds of
  a turn of 20 ms apart). The exceptions are those of the property, `mixed` and
  `outdated`. The invariant puts every time on the rotor: a
  capture's time, modulo the period, is the angle of its sweep (`OnTime`),
  whatever went round in between. A difference of two times is then a number
  of turns and an offset, a few turns of drift of the blanket 20 ms stay below
  the threshold unless the slot is `outdated`, and `SelectApart` shows that
  the slot chosen never leaves two slots with one sweep. Sorting goes by the
  times alone, so that an interrupt that gives bits another capture's time
  leaves the times sorted and spoils only what is said of their slot.
* **The radio** (`Links_proofs`): `ReceiverListens` and `PacketsReachHandler`,
  both for a handler that waits for the end of a call (`~Preempt`). `CallInv`
  says what each access of each call finds in the peripheral, `HeardInv` where
  a packet is on its way.
* **Inter-core calls** (`Links_proofs`): the mutex is held by exactly the core
  in its section, from which `PacketsArriveWhole` and `NewestIsAnnounced`
  follow by what each access finds; and `CallsReturnFulfilled`.
* **HDLC** (`Links_proofs`): `FramesArrive`, with no hypothesis: for any
  payloads, checksums and size of the buffer. First, decoding undoes encoding
  (`DecodeEncode`, by induction over the bytes: an escaped byte is two, and
  decoding takes them as a pair). Then `HdlcInv`, by how many
  frames in a row the line has left whole (`intact`): between frames the
  receiver is idle or has an empty buffer, before the first flag of a frame
  that counts it will take the flag for a beginning (`OpeningInv`), and from
  there on the buffer and the rest of the line are together what was encoded
  (`RunningInv`).
* **The encoder** (`Qdec_proofs`): `EveryStepIsRead`, for any accumulator and
  any number of overflows. `OverflowStands` (the interrupt will find what ran
  over) keeps `TotalIsCounted`, and that keeps a read under way half right
  (`ReadIsHalfDone`).

The assumptions are those named in the modules: ids are distinct, sizes are
positive, the gateway slot distance is at least two and the default frame no
longer than that distance; the timeout and one check are shorter than the
counter; the robots are so few that their frame stays below the 500 ms a robot
accepts (`FrameFits`); the rotor turns in less than the blanket period. They
hold for the values in the headers and programs, and TLC evaluates them in the
runs.

Sums over a queue and the encoding of a payload are defined by folds. The
library's induction rules take the induction hypothesis as an operator, which
these provers cannot instantiate; the inductions are made instead over the set
of numbers that fail, whose least member is a contradiction
(`LeastNumber`, `NatInductionSet`).

Only model-checked, because it needs fairness: `KeepsTheConnection`,
`HearsAgain`, `AsksUntilRegistered`, `SilentOnlyBeyondFrame`, `Settles`,
`CallsReturn`. And the runs that end in a violation.

Two attempts at a proof corrected the models. `Hdlc` decoded with a `CASE`
whose arms overlapped (an escape in front of an escape), which TLC takes in
order and TLA+ leaves open: the arms are now disjoint. `Lh2` allowed a blanket
period equal to the rotor's, for which its age limit divides by zero.

## 5. Limits, and what is not modelled

* The clients' offsets below one slot (ramp-up, the air time of the sync
  frame) appear only where they matter to control: `AfterSync` (a start of 0
  underflows) and the budget of a slot. That a table update is not corrected
  for its own air time (`tdma_client_default.c:389`, about 0.4 ms late until
  the next sync frame) is below the resolution of the model. Nor does the
  client model show an expiry that waits while its timer is armed again, which
  `Timers` has (`crossed`).
* Clocks do not drift. Application packets carry a length and no content.
* `Radio` runs one call at a time; `Timers` has one delay and one alarm.
* `Lh2` has one base station, whose period divides the timer's range, so that
  the model does not show a slot left alone for exactly a turn of the timer
  (71 minutes), which the code takes for a fresh one (`lh2_default.c:1776`); the
  demodulation, the search in the LFSR sequence and the geometry are
  arithmetic on bits and are left out, their outcome being any of the three
  the code distinguishes.
* `Hdlc` compares bytes only with the two that are escaped; the checksum has
  no effect on the code (above).
* The peripherals (radio, timers, encoder) and the firmware of the network
  core are modelled from how the code uses them.
* Motion: loops on floating-point distances against motors and wheels. They
  end on the right wheel's count alone (`move.c:116`), and the corrections add
  to 8-bit powers without limits.
* PID: floating-point arithmetic; setting a mode again scales the gains again
  (`pid.c:114`).
* Flash: straight-line writes. The log's test for the end adds words to a byte
  address and leaves out `DB_FLASH_OFFSET` (`log_flash.c:51`), its header takes
  more than the one word it advances by when the enumeration is four bytes
  wide (`:47`), the assertion on alignment in `nvmc.c:59` is inverted, and a
  partition table is rewritten without a copy (`partition.c:47`), but nothing
  in the repository reads it back.
* Peripheral drivers, sensors, LEDs, the external flash, cryptography,
  compression, bootloaders and lesson programs: register-level sequences, pure
  functions of third parties, or a few lines without state.

## 6. What is left

Proofs: a refinement of the network to a schedule that says no more than who
may speak when, and what remains of `SlotAgreement` after a reset of the
gateway. Models: a client in microseconds on top of `Timers`, for the offsets
below one slot; a true clock beside the timer of `Lh2`.
