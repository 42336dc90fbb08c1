---------------------------- MODULE MCTdmaClient ----------------------------
(* Instances of TdmaClient for TLC.  The times are scaled down, keeping    *)
(* their order: slot < frame < retry delay < default frame.                *)
EXTENDS TdmaClient

CONSTANT c1

Packet(id, len) == [id |-> id, len |-> len]
\* At 125 kbit/s: one fits a slot, and of the other three fit a flush.
ShortAndLong == {Packet(1, 20), Packet(2, 255)}

Table(frame, rx_duration, tx_start) ==
  [frame_duration |-> frame, rx_start |-> 0, rx_duration |-> rx_duration,
   tx_start |-> tx_start, tx_duration |-> 1]

\* Tables of the gateway: the second was made when the frame was shorter.
GatewayTables == {Table(2, 2, 1), Table(3, 2, 1), Table(3, 3, 2)}
\* Tables of an application that listens for part of the frame, or all of it.
PartTimeTables == {Table(3, 1, 1), Table(3, 3, 1)}
=============================================================================
