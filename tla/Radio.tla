------------------------------- MODULE Radio -------------------------------
(***************************************************************************)
(* The radio driver (bsp/nrf/radio_default.c) and the peripheral it        *)
(* drives, register access by register access: the drivers call it from    *)
(* the main loop or from the slot timer's interrupt, and while a call is   *)
(* under way the peripheral goes on and, with Preempt, its own interrupt   *)
(* is taken.  Without Preempt the handler waits for the end of the call,   *)
(* as it does when the caller's interrupt has the same priority.           *)
(***************************************************************************)
EXTENDS FiniteSets

CONSTANT Preempt

ASSUME PreemptAssumption == Preempt \in BOOLEAN

VARIABLES
  radio_hw,      \* "off", "rx", "receiving", "tx" or "disabling"
  ev_address,    \* EVENTS_ADDRESS
  ev_disabled,   \* EVENTS_DISABLED
  inten,         \* are both enabled as interrupts?
  rxen_short,    \* SHORTS: does DISABLED start the receiver again?
  radio_state,   \* radio_vars.state, a set of "RX" and "BUSY" (IDLE is {})
  radio_pc,      \* the next access of the running call, or "idle"
  heard          \* history: the packet on the air, "begun" or "whole", if it
                 \*   began while no call and no event was pending

hardware == <<radio_hw, ev_address, ev_disabled>>
setup == <<inten, rxen_short>>
radio_vars == <<hardware, setup, radio_state, radio_pc, heard>>

\* db_radio_init
RadioInit ==
  /\ radio_hw = "off" /\ ev_address = FALSE /\ ev_disabled = FALSE
  /\ inten = FALSE /\ rxen_short = FALSE
  /\ radio_state = {} /\ radio_pc = "idle" /\ heard = "nothing"

-----------------------------------------------------------------------------
(* The peripheral: a packet comes in, and any ending ends in DISABLED.     *)

RxAddress ==
  /\ radio_hw = "rx" /\ radio_hw' = "receiving"
  /\ ev_address' = TRUE
  /\ heard' = IF radio_pc = "idle" /\ ~ev_disabled THEN "begun" ELSE "nothing"
  /\ UNCHANGED <<ev_disabled, setup, radio_state, radio_pc>>

AllDisabled ==
  /\ radio_hw \in {"receiving", "tx", "disabling"}
  /\ radio_hw' = IF rxen_short THEN "rx" ELSE "off"
  /\ ev_disabled' = TRUE
  /\ ev_address' = (ev_address \/ radio_hw = "tx")
  /\ heard' = IF heard = "begun" THEN "whole" ELSE heard
  /\ UNCHANGED <<setup, radio_state, radio_pc>>

-----------------------------------------------------------------------------
(* Calls. *)

RadioGoto(from, to) == radio_pc = from /\ radio_pc' = to

MutantRx ==
  /\ RadioGoto("idle", "rx_test")
  /\ inten' = TRUE
  /\ heard' = "nothing"
  /\ UNCHANGED <<hardware, rxen_short, radio_state>>

\* db_radio_rx
Rx ==
  /\ RadioGoto("idle", "rx_test")
  /\ rxen_short' = TRUE /\ inten' = TRUE
  /\ heard' = "nothing"
  /\ UNCHANGED <<hardware, radio_state>>

RxTest ==
  /\ RadioGoto("rx_test", IF radio_state = {} THEN "rx_start" ELSE "set_state")
  /\ UNCHANGED <<hardware, setup, radio_state, heard>>

\* Nothing can happen in between: the radio is off.
RxStart ==
  /\ RadioGoto("rx_start", "set_state")
  /\ ev_disabled' = FALSE
  /\ radio_hw' = "rx"
  /\ UNCHANGED <<ev_address, setup, radio_state, heard>>

SetState ==
  /\ RadioGoto("set_state", "idle")
  /\ radio_state' = {"RX"}
  /\ UNCHANGED <<hardware, setup, heard>>

\* db_radio_tx, which every driver calls after db_radio_disable
Tx ==
  /\ radio_state = {} /\ radio_hw = "off"
  /\ RadioGoto("idle", "tx_wait")
  /\ rxen_short' = TRUE
  /\ ev_disabled' = FALSE
  /\ radio_hw' = "tx"
  /\ UNCHANGED <<ev_address, inten, radio_state, heard>>

MutantTxSent ==
  /\ ev_disabled
  /\ RadioGoto("tx_wait", "set_state")
  /\ ev_address' = FALSE /\ ev_disabled' = FALSE
  /\ UNCHANGED <<radio_hw, setup, radio_state, heard>>

TxSent ==
  /\ ev_disabled
  /\ RadioGoto("tx_wait", "set_state")
  /\ ev_address' = FALSE /\ ev_disabled' = FALSE
  /\ inten' = TRUE
  /\ UNCHANGED <<radio_hw, rxen_short, radio_state, heard>>

\* db_radio_disable, whose last event is left standing
Disable ==
  /\ RadioGoto("idle", "disable_wait")
  /\ inten' = FALSE /\ rxen_short' = FALSE
  /\ ev_disabled' = FALSE
  /\ radio_hw' = "disabling"
  /\ heard' = "nothing"
  /\ UNCHANGED <<ev_address, radio_state>>

Disabled ==
  /\ ev_disabled
  /\ RadioGoto("disable_wait", "idle")
  /\ radio_state' = {}
  /\ UNCHANGED <<hardware, setup, heard>>

-----------------------------------------------------------------------------
Pending == inten /\ (ev_address \/ ev_disabled)

\* radio_vars.state once ADDRESS has been looked at
WithAddress == IF ev_address THEN radio_state \cup {"BUSY"} ELSE radio_state

\* RADIO_IRQHandler: a packet is handed over when DISABLED finds the state
\* BUSY and RX.
RadioIrq ==
  /\ Pending /\ (Preempt \/ radio_pc = "idle")
  /\ ev_address' = FALSE /\ ev_disabled' = FALSE
  /\ radio_state' = IF ev_disabled THEN {"RX"} ELSE WithAddress
  /\ heard' = IF ev_disabled THEN "nothing" ELSE heard
  /\ UNCHANGED <<radio_hw, setup, radio_pc>>

RadioNext ==
  \/ RxAddress \/ AllDisabled
  \/ Rx \/ RxTest \/ RxStart \/ SetState
  \/ Tx \/ TxSent \/ Disable \/ Disabled
  \/ RadioIrq

RadioSpec == RadioInit /\ [][RadioNext]_radio_vars

-----------------------------------------------------------------------------
(***************************************************************************)
(* db_radio_rx "Starts Receiving packets through the Radio" (radio.h:104): *)
(* once the driver says that it listens, and no interrupt is left to be    *)
(* taken, the receiver is on.                                              *)
(***************************************************************************)
RxListens ==
  radio_state # {} /\ radio_pc = "idle" /\ ~Pending
    => radio_hw \in {"rx", "receiving"}

(***************************************************************************)
(* A packet that comes in while nobody calls the driver reaches the        *)
(* callback, whatever was called before: two events, taken together or     *)
(* apart, are told from those of a packet sent or of a receiver stopped.   *)
(***************************************************************************)
PacketsHandedOver ==
  heard = "whole" =>
    inten /\ ev_disabled /\ WithAddress = {"RX", "BUSY"}

=============================================================================
