-------------------------------- MODULE Hdlc --------------------------------
(***************************************************************************)
(* HDLC framing over a serial line (drv/hdlc/hdlc.c): frames are encoded,  *)
(* sent byte by byte over a line that may lose bytes, received by          *)
(* db_hdlc_rx_byte and decoded as soon as it says READY.                   *)
(*                                                                         *)
(* Of a byte only what the code compares it with matters.  The two bytes   *)
(* of the checksum are any of Checksums: the receiver computes one over    *)
(* the bytes of the line and the sender over those of the payload, but     *)
(* rx_byte overwrites the ERROR of a wrong one with READY at once, so that *)
(* nothing depends on it.                                                  *)
(***************************************************************************)
EXTENDS Integers, SequencesExt

CONSTANTS
  Payloads,     \* what is sent: sequences of bytes
  Checksums,    \* pairs of bytes
  BufferSize    \* DB_HDLC_BUFFER_SIZE

ASSUME HdlcConstants ==
  /\ BufferSize \in Nat \ {0}
  /\ \A bytes \in Payloads \cup Checksums : bytes \in Seq(STRING)
  /\ \A sum \in Checksums : Len(sum) = 2

VARIABLES
  hdlc_state, buffer,  \* of _hdlc_vars; buffer_pos is the buffer's length
  line,                \* the bytes of the running frame not yet sent
  sending, decoded,    \* its payload, and what decode returned since it began
  intact               \* history: whole frames in a row (*)

\* (*) the running one included, counted up to 3: frames that lost no byte
\* and leave room in the buffer for one more.

hdlc_vars == <<hdlc_state, buffer, line, sending, decoded, intact>>

HdlcInit ==
  /\ hdlc_state = "IDLE" /\ buffer = <<>>
  /\ line = <<>> /\ sending = <<>> /\ decoded = <<>>
  /\ intact = 3

MutantStuff(byte) ==
  IF byte = "FLAG" THEN <<"ESCAPE", "FLAG_ESCAPED">> ELSE <<byte>>

Stuff(byte) ==
  CASE byte = "FLAG"   -> <<"ESCAPE", "FLAG_ESCAPED">>
    [] byte = "ESCAPE" -> <<"ESCAPE", "ESCAPE_ESCAPED">>
    [] OTHER           -> <<byte>>

\* db_hdlc_encode, without the flags
Encode(bytes) == FlattenSeq([k \in 1 .. Len(bytes) |-> Stuff(bytes[k])])

\* What byte k of the frame adds to the output of db_hdlc_decode.
Unstuff(frame, k) ==
  LET plain == k = 1 \/ frame[k - 1] # "ESCAPE"
  IN  CASE frame[k] = "ESCAPE" -> <<>>
        [] frame[k] # "ESCAPE" /\ plain -> <<frame[k]>>
        [] frame[k] = "ESCAPE_ESCAPED" /\ ~plain -> <<"ESCAPE">>
        [] frame[k] = "FLAG_ESCAPED" /\ ~plain   -> <<"FLAG">>
        [] OTHER -> <<>>

\* The output and its length are returned without the checksum.  (A frame
\* too short for one makes the length wrap around: <<>> here.)
Decode(frame) ==
  LET output == FlattenSeq([k \in 1 .. Len(frame) |-> Unstuff(frame, k)])
  IN  SubSeq(output, 1, Len(output) - 2)

Send(payload, sum) ==
  /\ line = <<>>
  /\ LET frame == Encode(payload \o sum)
     IN  /\ line' = <<"FLAG">> \o frame \o <<"FLAG">>
         /\ intact' = IF Len(frame) >= BufferSize - 1 THEN 0
                      ELSE IF intact < 3 THEN intact + 1 ELSE 3
  /\ sending' = payload /\ decoded' = <<>>
  /\ UNCHANGED <<hdlc_state, buffer>>

-----------------------------------------------------------------------------
(* db_hdlc_rx_byte. *)

BeginFrame(byte) ==
  /\ hdlc_state # "RECEIVING" /\ byte = "FLAG"
  /\ hdlc_state' = "RECEIVING" /\ buffer' = <<>>
  /\ UNCHANGED decoded

\* READY, with a right checksum or a wrong one, and decoded: IDLE again
EndFrame(byte) ==
  /\ hdlc_state = "RECEIVING" /\ byte = "FLAG" /\ buffer # <<>>
  /\ hdlc_state' = "IDLE"
  /\ decoded' = Decode(buffer)
  /\ UNCHANGED buffer

\* A flag right after a flag is data, too.
InFrame(byte) ==
  /\ hdlc_state = "RECEIVING" /\ (byte # "FLAG" \/ buffer = <<>>)
  /\ IF Len(buffer) >= BufferSize - 1
     THEN hdlc_state' = "ERROR" /\ UNCHANGED buffer
     ELSE buffer' = Append(buffer, byte) /\ UNCHANGED hdlc_state
  /\ UNCHANGED decoded

Ignored(byte) ==
  /\ hdlc_state # "RECEIVING" /\ byte # "FLAG"
  /\ UNCHANGED <<hdlc_state, buffer, decoded>>

RxByte ==
  /\ line # <<>> /\ line' = Tail(line)
  /\ LET byte == Head(line)
     IN  BeginFrame(byte) \/ EndFrame(byte) \/ InFrame(byte) \/ Ignored(byte)
  /\ UNCHANGED <<sending, intact>>

LoseByte ==
  /\ line # <<>> /\ line' = Tail(line)
  /\ intact' = 0
  /\ UNCHANGED <<hdlc_state, buffer, sending, decoded>>

HdlcNext ==
  \/ \E payload \in Payloads, sum \in Checksums : Send(payload, sum)
  \/ RxByte \/ LoseByte

HdlcSpec == HdlcInit /\ [][HdlcNext]_hdlc_vars

(***************************************************************************)
(* What db_hdlc_encode makes of a payload, db_hdlc_rx_byte and             *)
(* db_hdlc_decode give back whatever bytes it holds, and two whole frames  *)
(* after a lost byte they do so again: the first may be taken for the gap  *)
(* between frames, and the second be read with the flag before it, for     *)
(* which there must be room.  A longer frame makes the receiver take its   *)
(* end for a beginning.                                                    *)
(***************************************************************************)
FramesGetThrough == line = <<>> /\ intact = 3 => decoded = sending

=============================================================================
