-------------------------------- MODULE Fifo --------------------------------
(***************************************************************************)
(* What the ring buffers promise: a first-in first-out queue of at most    *)
(* Cap elements, whose Put on a full queue discards the oldest element.    *)
(***************************************************************************)
EXTENDS Naturals, Sequences

CONSTANTS Cap, Data, NoData

VARIABLES
  queue,  \* the waiting elements, oldest first
  got     \* what the last Take returned, NoData if it found nothing

vars == <<queue, got>>

PutInto(q, x) == IF Len(q) < Cap THEN Append(q, x) ELSE Append(Tail(q), x)

Init == queue = <<>> /\ got = NoData

Put(x) == queue' = PutInto(queue, x) /\ UNCHANGED got

Take ==
  /\ queue # <<>>
  /\ got' = Head(queue)
  /\ queue' = Tail(queue)

TakeNothing == queue = <<>> /\ got' = NoData /\ UNCHANGED queue

Clear == queue' = <<>> /\ UNCHANGED got

Next == (\E x \in Data : Put(x)) \/ Take \/ TakeNothing \/ Clear

Spec == Init /\ [][Next]_vars

=============================================================================
