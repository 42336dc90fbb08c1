------------------------------ MODULE RingRace ------------------------------
(***************************************************************************)
(* The transmit ring of the TDMA client at the grain of its memory         *)
(* accesses.  The application calls tx, flush and empty of the driver      *)
(* while the slot timer's interrupt empties the same ring; nothing masks   *)
(* the interrupt, so that it can run between any two accesses of a call.   *)
(* The interrupt itself runs to completion.                                *)
(*                                                                         *)
(* Packets are numbered in the order they are given to the driver.         *)
(***************************************************************************)
EXTENDS RingOps, Integers, FiniteSets

VARIABLES
  rb,      \* the ring; its count is a uint8_t
  pc,      \* next access of the running call, "idle" between calls
  reg,     \* the count the running call has loaded
  packet,  \* the packet the running flush has taken
  next,    \* number of the next packet
  sent,    \* history: packets put on the air
  lost     \* history: packets overwritten by tx or erased by empty

vars == <<rb, pc, reg, packet, next, sent, lost>>
history == <<next, sent, lost>>

Init ==
  /\ rb = EmptyRing
  /\ pc = "idle" /\ reg = 0 /\ packet = NoData
  /\ next = 1 /\ sent = <<>> /\ lost = {}

Elements(q) == {q[k] : k \in 1 .. Len(q)}

Goto(from, to) == pc = from /\ pc' = to

-----------------------------------------------------------------------------
(* db_tdma_client_tx: _message_rb_add. *)

Tx ==
  /\ next \in Data
  /\ Goto("idle", "add_cell")
  /\ UNCHANGED <<rb, reg, packet, history>>

AddCell ==
  /\ Goto("add_cell", "add_index")
  /\ rb' = [rb EXCEPT !.buffer[rb.write_index] = next]
  /\ next' = next + 1
  /\ lost' = IF rb.count < Size THEN lost
             ELSE lost \cup {rb.buffer[rb.write_index]}
  /\ UNCHANGED <<reg, packet, sent>>

AddIndex ==
  /\ Goto("add_index", "add_load")
  /\ rb' = [rb EXCEPT !.write_index = Advance(rb.write_index)]
  /\ UNCHANGED <<reg, packet, history>>

AddLoad ==
  /\ pc = "add_load"
  /\ reg' = rb.count
  /\ pc' = IF rb.count < Size THEN "add_count" ELSE "add_overwrite"
  /\ UNCHANGED <<rb, packet, history>>

AddCount ==
  /\ Goto("add_count", "idle")
  /\ rb' = [rb EXCEPT !.count = reg + 1]
  /\ UNCHANGED <<reg, packet, history>>

AddOverwrite ==
  /\ Goto("add_overwrite", "idle")
  /\ rb' = [rb EXCEPT !.read_index = Advance(rb.read_index)]
  /\ UNCHANGED <<reg, packet, history>>

-----------------------------------------------------------------------------
(* db_tdma_client_flush: the loop of _message_rb_tx_queue, with so much    *)
(* time that every packet fits, around _message_rb_get.                    *)

Flush ==
  /\ Goto("idle", "flush_test")
  /\ UNCHANGED <<rb, reg, packet, history>>

FlushTest ==
  /\ pc = "flush_test"
  /\ pc' = IF rb.count > 0 THEN "get_copy" ELSE "idle"
  /\ UNCHANGED <<rb, reg, packet, history>>

GetCopy ==
  /\ Goto("get_copy", "get_index")
  /\ packet' = rb.buffer[rb.read_index]
  /\ UNCHANGED <<rb, reg, history>>

GetIndex ==
  /\ Goto("get_index", "get_load")
  /\ rb' = [rb EXCEPT !.read_index = Advance(rb.read_index)]
  /\ UNCHANGED <<reg, packet, history>>

GetLoad ==
  /\ Goto("get_load", "get_count")
  /\ reg' = rb.count
  /\ UNCHANGED <<rb, packet, history>>

GetCount ==
  /\ Goto("get_count", "flush_send")
  /\ rb' = [rb EXCEPT !.count = (reg - 1) % 256]
  /\ UNCHANGED <<reg, packet, history>>

FlushSend ==
  /\ Goto("flush_send", "flush_test")
  /\ sent' = Append(sent, packet)
  /\ UNCHANGED <<rb, reg, packet, next, lost>>

-----------------------------------------------------------------------------
(* db_tdma_client_empty: _message_rb_init. *)

Empty ==
  /\ Goto("idle", "init_write")
  /\ UNCHANGED <<rb, reg, packet, history>>

InitWrite ==
  /\ Goto("init_write", "init_read")
  /\ rb' = [rb EXCEPT !.write_index = 0]
  /\ lost' = lost \cup Elements(Contents(rb))
  /\ UNCHANGED <<reg, packet, next, sent>>

InitRead ==
  /\ Goto("init_read", "init_count")
  /\ rb' = [rb EXCEPT !.read_index = 0]
  /\ UNCHANGED <<reg, packet, history>>

InitCount ==
  /\ Goto("init_count", "idle")
  /\ rb' = [rb EXCEPT !.count = 0]
  /\ UNCHANGED <<reg, packet, history>>

-----------------------------------------------------------------------------
(* timer_tx_interrupt of a registered client, in a slot long enough for    *)
(* all that waits.                                                         *)
TimerTxInterrupt ==
  /\ rb.count > 0
  /\ sent' = sent \o Contents(rb)
  /\ rb' = [rb EXCEPT !.read_index = (rb.read_index + rb.count) % Size,
                      !.count = 0]
  /\ UNCHANGED <<pc, reg, packet, next, lost>>

Next ==
  \/ Tx \/ AddCell \/ AddIndex \/ AddLoad \/ AddCount \/ AddOverwrite
  \/ Flush \/ FlushTest
  \/ GetCopy \/ GetIndex \/ GetLoad \/ GetCount \/ FlushSend
  \/ Empty \/ InitWrite \/ InitRead \/ InitCount
  \/ TimerTxInterrupt

Spec == Init /\ [][Next]_vars

-----------------------------------------------------------------------------
(***************************************************************************)
(* Between calls every packet is accounted for: it is on the air, or waits *)
(* in the ring, or was overwritten by a later one or erased by empty.      *)
(***************************************************************************)
NothingLost ==
  pc = "idle" =>
    1 .. next - 1 \subseteq Elements(sent) \cup Elements(Contents(rb)) \cup lost

=============================================================================
