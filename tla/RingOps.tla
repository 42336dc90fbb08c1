------------------------------ MODULE RingOps ------------------------------
(***************************************************************************)
(* The ring buffer that the TDMA drivers use three times: for the packets  *)
(* the server and the client wait to send (tdma_ring_buffer_t and          *)
(* tdma_client_ring_buffer_t) and for the ids the server waits to answer   *)
(* (new_client_ring_buffer_t).  The three copies differ only in their size *)
(* and in what a cell holds.  A ring is a record with the fields of the C  *)
(* struct; the operators are what the C functions do to it.                *)
(***************************************************************************)
EXTENDS Naturals, Sequences

CONSTANTS
  Size,    \* number of cells of the buffer
  Data,    \* what a cell can hold
  NoData   \* a cell never written, and the result of a get that fails

ASSUME SizeAssumption == Size \in Nat \ {0}
ASSUME NoDataAssumption == NoData \notin Data

Cells == 0 .. Size - 1

Ring ==
  [buffer : [Cells -> Data \cup {NoData}],
   write_index : Cells,
   read_index : Cells,
   count : 0 .. Size]

\* The static zero-initialised buffer; indices and count are then reset.
EmptyRing ==
  [buffer |-> [i \in Cells |-> NoData],
   write_index |-> 0, read_index |-> 0, count |-> 0]

\* (Here and below, a definition whose name begins with Mutant is a bug
\* that the properties are shown to detect; no specification uses it.)
MutantAdvanceNoWrap(i) == i + 1

Advance(i) == (i + 1) % Size

\* init forgets the cells without erasing them
RbReset(rb) ==
  [buffer |-> rb.buffer, write_index |-> 0, read_index |-> 0, count |-> 0]

MutantAddKeepsRead(rb, x) ==
  [buffer |-> [rb.buffer EXCEPT ![rb.write_index] = x],
   write_index |-> Advance(rb.write_index),
   read_index |-> rb.read_index,
   count |-> IF rb.count < Size THEN rb.count + 1 ELSE rb.count]

\* add: when the ring is full the oldest element is overwritten
RbAdd(rb, x) ==
  [buffer |-> [rb.buffer EXCEPT ![rb.write_index] = x],
   write_index |-> Advance(rb.write_index),
   read_index |-> IF rb.count < Size THEN rb.read_index
                                     ELSE Advance(rb.read_index),
   count |-> IF rb.count < Size THEN rb.count + 1 ELSE rb.count]

\* get, on a ring that is not empty: the element returned and the ring left
MutantNewest(rb) == rb.buffer[(rb.write_index + Size - 1) % Size]

RbOldest(rb) == rb.buffer[rb.read_index]
RbDrop(rb) ==
  [buffer |-> rb.buffer, write_index |-> rb.write_index,
   read_index |-> Advance(rb.read_index), count |-> rb.count - 1]

(***************************************************************************)
(* The search of _client_rb_id_exists walks from read_index until it meets *)
(* write_index.  The indices it visits, as offsets from read_index:        *)
(***************************************************************************)
MutantScanToWrite(rb) ==
  IF rb.read_index <= rb.write_index
  THEN rb.write_index - rb.read_index + 1
  ELSE Size - rb.read_index + rb.write_index + 1

ScanLength(rb) ==
  IF rb.read_index <= rb.write_index
  THEN rb.write_index - rb.read_index
  ELSE Size - rb.read_index + rb.write_index

RbIdExists(rb, x) ==
  /\ rb.count # 0
  /\ \E k \in 0 .. ScanLength(rb) - 1 :
        rb.buffer[(rb.read_index + k) % Size] = x

(***************************************************************************)
(* What the ring stands for: the elements still to be read, oldest first.  *)
(***************************************************************************)
Contents(rb) ==
  [k \in 1 .. rb.count |-> rb.buffer[(rb.read_index + k - 1) % Size]]

=============================================================================
