------------------------------ MODULE TxDrain ------------------------------
(***************************************************************************)
(* The loops that empty a transmit ring into a time slot:                  *)
(* _message_rb_tx_queue and _client_rb_tx_queue of the server and          *)
(* _message_rb_tx_queue of the client.  Each takes the oldest element,     *)
(* compares the time it would end with the time allowed, transmits it      *)
(* (which takes that time: db_radio_tx waits for the end of the packet),   *)
(* and on the first element that does not fit adds it again and leaves.    *)
(* Adding again puts the element BEHIND everything that was waiting.       *)
(*                                                                         *)
(* The operators say where the loop stops instead of iterating it.         *)
(***************************************************************************)
EXTENDS Naturals, Sequences

CONSTANT ByteUs   \* time on air of one byte: 8, 4, 64 or 16 microseconds

ASSUME ByteUsAssumption == ByteUs \in Nat \ {0}

RADIO_TX_RAMP_UP_TIME == 140
HeaderBytes    == 18   \* sizeof(protocol_header_t)
TableBytes     == 20   \* sizeof(protocol_tdma_table_t)
SyncFrameBytes == 4    \* sizeof(protocol_sync_frame_t)

TxTime(bytes) == RADIO_TX_RAMP_UP_TIME + bytes * ByteUs

\* Time to send the first n packets of lengths len[1], len[2], ...
AirTime(len, n) ==
  LET time[k \in 0 .. n] == IF k = 0 THEN 0 ELSE time[k - 1] + TxTime(len[k])
  IN  time[n]

\* (Definitions whose name begins with Mutant are bugs that the properties
\* are shown to detect; no specification uses them.)
MutantElapsedTwice(len, n, elapsed, budget) ==
  /\ \A k \in 1 .. n : 2 * elapsed + AirTime(len, k) < budget
  /\ n < Len(len) => 2 * elapsed + AirTime(len, n + 1) >= budget

MutantClockReadOnce(len, n, elapsed, budget) ==
  /\ \A k \in 1 .. n : elapsed + TxTime(len[k]) < budget
  /\ n < Len(len) => elapsed + TxTime(len[n + 1]) >= budget

MutantSendsOne(len, n, elapsed, budget) ==
  n = IF Len(len) > 0 /\ elapsed + AirTime(len, 1) < budget THEN 1 ELSE 0

(***************************************************************************)
(* The loop, entered elapsed microseconds after the reference time, sends  *)
(* exactly the first n packets: each of them would end before budget, and  *)
(* the next one, if there is one, would not.                               *)
(***************************************************************************)
SendsExactly(len, n, elapsed, budget) ==
  /\ \A k \in 1 .. n : elapsed + AirTime(len, k) < budget
  /\ n < Len(len) => elapsed + AirTime(len, n + 1) >= budget

MutantNotPutBack(q, n) == SubSeq(q, n + 2, Len(q))

\* What is left in the ring after n packets were sent.
PutBack(q, n) ==
  IF n = Len(q) THEN <<>>
  ELSE Append(SubSeq(q, n + 2, Len(q)), q[n + 1])

(***************************************************************************)
(* The rings themselves, as the sequences of their contents: RingBuffer    *)
(* proves that add, get and the search of the ring do this to them.        *)
(***************************************************************************)
MutantPutUnbounded(q, x, size) == Append(q, x)

PutInto(q, x, size) ==
  IF Len(q) < size THEN Append(q, x) ELSE Append(Tail(q), x)

Waiting(q) == {q[k] : k \in 1 .. Len(q)}

MutantNeverFound(q, x, size) == FALSE
MutantAlwaysFound(q, x, size) == TRUE

\* The search stops at once when read and write index are equal: a full
\* ring looks empty to it.
IdExists(q, x, size) == Len(q) < size /\ x \in Waiting(q)

=============================================================================
