----------------------------- MODULE RingBuffer -----------------------------
(***************************************************************************)
(* One ring buffer driven by add, get and init in any order, each run to   *)
(* completion (RingRace takes them apart into their memory accesses).      *)
(***************************************************************************)
EXTENDS RingOps

VARIABLES
  rb,   \* the ring
  got   \* out parameter of the last get, NoData when get returned false

vars == <<rb, got>>

Init == rb = EmptyRing /\ got = NoData

Add(x) == rb' = RbAdd(rb, x) /\ UNCHANGED got

Get ==
  \/ /\ rb.count # 0
     /\ got' = RbOldest(rb)
     /\ rb' = RbDrop(rb)
  \/ /\ rb.count = 0
     /\ got' = NoData
     /\ UNCHANGED rb

Reset == rb' = RbReset(rb) /\ UNCHANGED got

Next == (\E x \in Data : Add(x)) \/ Get \/ Reset

Spec == Init /\ [][Next]_vars

-----------------------------------------------------------------------------
(* The fields stay in the ranges of their C types' intended use. *)
TypeOK == rb \in Ring /\ got \in Data \cup {NoData}

(***************************************************************************)
(* The three fields are redundant: the write index is count cells after    *)
(* the read index, and every cell between them has been written.  This is  *)
(* what lets get and add use the count to tell a full ring from an empty   *)
(* one.                                                                    *)
(***************************************************************************)
IndexInv ==
  /\ rb.write_index = (rb.read_index + rb.count) % Size
  /\ \A k \in 0 .. rb.count - 1 :
        rb.buffer[(rb.read_index + k) % Size] \in Data

\* The ring implements the overwriting queue: add, get and init are Put,
\* Take (or TakeNothing) and Clear of the contents.
Abstract == INSTANCE Fifo WITH Cap <- Size, queue <- Contents(rb)
RefinesFifo == Abstract!Spec

(***************************************************************************)
(* _client_rb_id_exists is "true if ID was found, false otherwise"         *)
(* (tdma_server_default.c:165).  What it finds: the ids that wait in a     *)
(* ring that is not full, and no id when the ring is full.                 *)
(***************************************************************************)
SearchSeesUnlessFull ==
  \A x \in Data :
    LET waiting == \E k \in DOMAIN Contents(rb) : Contents(rb)[k] = x
    IN  RbIdExists(rb, x) <=> waiting /\ rb.count < Size

=============================================================================
