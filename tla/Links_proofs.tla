--------------------------- MODULE Links_proofs ---------------------------
(***************************************************************************)
(* Proofs about what carries packets: the radio driver, the calls and      *)
(* packets between the two cores of a chip whose radio is on the other     *)
(* core, and the framing of a serial line that loses bytes.                *)
(***************************************************************************)
EXTENDS Radio, Ipc, Hdlc, SequenceTheorems, WellFoundedInduction, TLAPS

-----------------------------------------------------------------------------
(* What the radio driver keeps as long as its handler waits for the end of *)
(* a call, proved from what each access of a call finds.  Without that     *)
(* assumption it does not hold: db_radio_rx after db_radio_disable.        *)

Listening == radio_hw \in {"rx", "receiving"}

\* What each access finds; radio_pc is the one that comes next.
CallInv ==
  /\ radio_pc = "idle" /\ radio_state = {} => ~inten /\ radio_hw = "off"
  /\ radio_pc = "idle" /\ radio_state # {} => inten /\ rxen_short /\ Listening
  /\ radio_pc = "rx_test" =>
       /\ inten /\ rxen_short
       /\ IF radio_state = {} THEN radio_hw = "off" ELSE Listening
  /\ radio_pc = "rx_start" =>
       inten /\ rxen_short /\ radio_state = {} /\ radio_hw = "off"
  /\ radio_pc = "set_state" => inten /\ rxen_short /\ Listening
  /\ radio_pc = "tx_wait" =>
       /\ rxen_short /\ (radio_hw = "tx" \/ Listening)
       /\ ev_disabled => Listening
  /\ radio_pc = "disable_wait" =>
       /\ ~inten /\ ~rxen_short /\ radio_hw \in {"disabling", "off"}
       /\ ev_disabled => radio_hw = "off"

\* A packet that began while the driver was left alone.
HeardInv ==
  /\ heard \in {"nothing", "begun", "whole"}
  /\ radio_state \subseteq {"RX", "BUSY"}
  /\ radio_state # {} => "RX" \in radio_state
  /\ heard # "nothing" =>
       radio_pc = "idle" /\ radio_state # {} /\ (ev_address \/ "BUSY" \in radio_state)
  /\ heard = "begun" => ~ev_disabled /\ radio_hw = "receiving"
  /\ heard = "whole" => ev_disabled

RadioInv ==
  /\ radio_hw \in {"off", "rx", "receiving", "tx", "disabling"}
  /\ radio_pc \in {"idle", "rx_test", "rx_start", "set_state", "tx_wait",
                   "disable_wait"}
  /\ inten \in BOOLEAN /\ rxen_short \in BOOLEAN
  /\ ev_address \in BOOLEAN /\ ev_disabled \in BOOLEAN
  /\ CallInv /\ HeardInv

LEMMA RadioInvInit == RadioInit => RadioInv
  BY DEF RadioInit, RadioInv, CallInv, HeardInv, Listening

LEMMA RadioInvStep ==
  ~Preempt /\ RadioInv /\ [RadioNext]_radio_vars => RadioInv'
<1> SUFFICES ASSUME ~Preempt, RadioInv, [RadioNext]_radio_vars
             PROVE  RadioInv'
  OBVIOUS
<1> USE DEF RadioInv, CallInv, HeardInv, Listening, hardware, setup, RadioGoto
<1>1. CASE RxAddress
  BY <1>1 DEF RxAddress
<1>2. CASE AllDisabled
  BY <1>2 DEF AllDisabled
<1>3. CASE Rx
  BY <1>3 DEF Rx
<1>4. CASE RxTest
  BY <1>4 DEF RxTest
<1>5. CASE RxStart
  BY <1>5 DEF RxStart
<1>6. CASE SetState
  BY <1>6 DEF SetState
<1>7. CASE Tx
  BY <1>7 DEF Tx
<1>8. CASE TxSent
  BY <1>8 DEF TxSent
<1>9. CASE Disable
  BY <1>9 DEF Disable
<1>10. CASE Disabled
  BY <1>10 DEF Disabled
<1>11. CASE RadioIrq
  <2>1. radio_pc = "idle" /\ radio_state # {}
    BY <1>11 DEF RadioIrq, Pending
  <2>2. radio_state' # {} /\ "RX" \in radio_state'
    BY <1>11, <2>1 DEF RadioIrq, WithAddress
  <2>. QED  BY <1>11, <2>1, <2>2 DEF RadioIrq, WithAddress
<1>12. CASE UNCHANGED radio_vars
  BY <1>12 DEF radio_vars
<1>. QED
  BY <1>1, <1>2, <1>3, <1>4, <1>5, <1>6, <1>7, <1>8, <1>9, <1>10, <1>11, <1>12
  DEF RadioNext

(***************************************************************************)
(* With a handler that waits for calls to end, the receiver is on whenever *)
(* the driver's state says so.                                             *)
(***************************************************************************)
THEOREM ReceiverListens == ~Preempt => (RadioSpec => []RxListens)
<1> SUFFICES ASSUME ~Preempt PROVE RadioSpec => []RxListens
  OBVIOUS
<1>1. RadioInv /\ [RadioNext]_radio_vars => RadioInv'
  BY RadioInvStep
<1>2. RadioInv => RxListens
  BY DEF RadioInv, CallInv, Listening, RxListens
<1>. QED  BY <1>1, <1>2, RadioInvInit, PTL DEF RadioSpec

(***************************************************************************)
(* And a packet that comes in whole while nobody calls the driver is       *)
(* waiting, both events told apart, for the handler to pass it on.         *)
(***************************************************************************)
THEOREM PacketsReachHandler == ~Preempt => (RadioSpec => []PacketsHandedOver)
<1> SUFFICES ASSUME ~Preempt PROVE RadioSpec => []PacketsHandedOver
  OBVIOUS
<1>1. RadioInv /\ [RadioNext]_radio_vars => RadioInv'
  BY RadioInvStep
<1>2. RadioInv => PacketsHandedOver
  BY DEF RadioInv, CallInv, HeardInv, PacketsHandedOver, WithAddress
<1>. QED  BY <1>1, <1>2, RadioInvInit, PTL DEF RadioSpec

-----------------------------------------------------------------------------
(* The calls and packets between the two cores, however many packets there *)
(* are, by induction over the accesses to the shared memory.               *)

USE DEF Copying

\* The network core's copy of its newest packet and the application's copy
\* of that one, access by access.
CopyInv ==
  /\ irq_pc["net"] = "buffer" => rx_pdu.length = newest
  /\ irq_pc["net"] # "buffer" => rx_pdu.length = rx_pdu.buffer
  /\ irq_pc["net"] \in {"idle", "unlock", "announce"} => rx_pdu.buffer = newest
  /\ irq_pc["app"] = "buffer" => copied.length = rx_pdu.length
  /\ CallbackReadsWhole
  /\ NewestReachesCallback

\* Where a request is, as long as none has been sent again needlessly.
RequestInv ==
  \/ resent
  \/ /\ main_pc \in {"idle", "request"} => req = "NONE" \/ net_pc = "delete"
     /\ main_pc = "idle" => ~net_ack
     /\ main_pc = "return" => net_ack
     /\ net_pc = "ack" => req = "REQUEST" /\ fulfilled
     /\ net_ack => /\ fulfilled
                   /\ net_pc = "delete" \/ (req = "NONE" /\ net_pc = "idle")

-----------------------------------------------------------------------------
LEMMA IpcTypeOKInit == IpcInit => IpcTypeOK
<1> SUFFICES ASSUME IpcInit PROVE IpcTypeOK
  OBVIOUS
<1>1. NoPdu \in Pdu /\ newest \in 0 .. IpcPackets - 1
  BY IpcAssumption DEF IpcAssumption, IpcInit, NoPdu, Pdu
<1>2. /\ irq_pc \in [{"app", "net"} -> Copying \cup {"idle", "lock", "announce"}]
      /\ \A core \in {"app", "net"} : mutex = core <=> irq_pc[core] \in Copying
  BY DEF IpcInit
<1>. QED  BY <1>1, <1>2 DEF IpcInit, IpcTypeOK

LEMMA IpcTypeOKStep == IpcTypeOK /\ [IpcNext]_ipc_vars => IpcTypeOK'
<1> SUFFICES ASSUME IpcTypeOK, [IpcNext]_ipc_vars
             PROVE  IpcTypeOK'
  OBVIOUS
<1> USE IpcAssumption DEF IpcAssumption, IpcTypeOK
<1>1. CASE Call \/ Proceed
  BY <1>1 DEF Call, Proceed, PutRequest, Signal, PollAck, TestRequest, Return,
     MainGoto, packet_vars
<1>2. CASE NetMain
  BY <1>2 DEF NetMain, NetTake, NetAck, NetDelete, NetGoto, packet_vars
<1>3. CASE NetReceive
  <2>1. newest' \in 0 .. IpcPackets - 1
    BY <1>3 DEF NetReceive
  <2>. QED  BY <1>3, <2>1 DEF NetReceive, IrqGoto, request_vars
<1>4. CASE TakeInterrupt
  BY <1>4 DEF TakeInterrupt, IrqGoto, request_vars
<1>7. CASE Announce
  BY <1>7 DEF Announce, IrqGoto, request_vars
<1>5. ASSUME NEW core \in {"app", "net"}, CopyPacket(core)
      PROVE  IpcTypeOK'
  <2>1. CASE MutexLock(core)
    BY <2>1 DEF MutexLock, IrqGoto, request_vars
  <2>2. CASE CopyLength(core)
    BY <2>2 DEF CopyLength, CopyField, IrqGoto, request_vars, Pdu
  <2>3. CASE CopyBuffer(core)
    BY <2>3 DEF CopyBuffer, CopyField, IrqGoto, request_vars, Pdu
  <2>4. CASE MutexUnlock(core)
    BY <2>4 DEF MutexUnlock, IrqGoto, request_vars
  <2>. QED  BY <1>5, <2>1, <2>2, <2>3, <2>4 DEF CopyPacket
<1>6. CASE UNCHANGED ipc_vars
  BY <1>6 DEF ipc_vars, request_vars, packet_vars
<1>. QED  BY <1>1, <1>2, <1>3, <1>4, <1>5, <1>6, <1>7 DEF IpcNext

(***************************************************************************)
(* The mutex of ipc_shared_data is held by the core that is in the section *)
(* it protects, and by that one only.                                      *)
(***************************************************************************)
THEOREM MutexIsHeld == IpcSpec => []IpcTypeOK
  BY IpcTypeOKInit, IpcTypeOKStep, PTL DEF IpcSpec

-----------------------------------------------------------------------------
LEMMA CopyInvInit == IpcInit => CopyInv
  BY DEF IpcInit, CopyInv, CallbackReadsWhole, NewestReachesCallback, NoPdu

LEMMA CopyInvStep ==
  IpcTypeOK /\ CopyInv /\ [IpcNext]_ipc_vars => CopyInv'
<1> SUFFICES ASSUME IpcTypeOK, CopyInv, [IpcNext]_ipc_vars
             PROVE  CopyInv'
  OBVIOUS
<1> USE DEF IpcTypeOK, CopyInv, CallbackReadsWhole, NewestReachesCallback, Pdu
<1>1. CASE Call \/ Proceed
  BY <1>1 DEF Call, Proceed, PutRequest, Signal, PollAck, TestRequest, Return,
     MainGoto, packet_vars
<1>2. CASE NetMain
  BY <1>2 DEF NetMain, NetTake, NetAck, NetDelete, NetGoto, packet_vars
<1>3. CASE NetReceive
  BY <1>3 DEF NetReceive, IrqGoto
<1>4. CASE TakeInterrupt \/ Announce
  BY <1>4 DEF TakeInterrupt, Announce, IrqGoto
<1>5. ASSUME NEW core \in {"app", "net"}, CopyPacket(core)
      PROVE  CopyInv'
  <2>1. CASE MutexLock(core)
    BY <2>1 DEF MutexLock, IrqGoto
  <2>2. CASE CopyLength(core)
    BY <2>2 DEF CopyLength, CopyField, IrqGoto
  <2>3. CASE CopyBuffer(core)
    BY <2>3 DEF CopyBuffer, CopyField, IrqGoto
  <2>4. CASE MutexUnlock(core)
    BY <2>4 DEF MutexUnlock, IrqGoto
  <2>. QED  BY <1>5, <2>1, <2>2, <2>3, <2>4 DEF CopyPacket
<1>6. CASE UNCHANGED ipc_vars
  BY <1>6 DEF ipc_vars, packet_vars
<1>. QED  BY <1>1, <1>2, <1>3, <1>4, <1>5, <1>6 DEF IpcNext

\* Every packet the callback is given is one whole packet.
THEOREM PacketsArriveWhole == IpcSpec => []CallbackReadsWhole
<1>1. CopyInv => CallbackReadsWhole
  BY DEF CopyInv
<1>. QED  BY <1>1, IpcTypeOKInit, IpcTypeOKStep, CopyInvInit, CopyInvStep, PTL
     DEF IpcSpec

\* The last packet of a burst is on its way to the callback until it has been
\* given: no event that announces it is lost.
THEOREM NewestIsAnnounced == IpcSpec => []NewestReachesCallback
<1>1. CopyInv => NewestReachesCallback
  BY DEF CopyInv
<1>. QED  BY <1>1, IpcTypeOKInit, IpcTypeOKStep, CopyInvInit, CopyInvStep, PTL
     DEF IpcSpec

-----------------------------------------------------------------------------
LEMMA RequestInvInit == IpcInit => RequestInv
  BY DEF IpcInit, RequestInv

LEMMA RequestInvStep ==
  IpcTypeOK /\ RequestInv /\ [IpcNext]_ipc_vars => RequestInv'
<1> SUFFICES ASSUME IpcTypeOK, RequestInv, [IpcNext]_ipc_vars
             PROVE  RequestInv'
  OBVIOUS
<1> USE DEF IpcTypeOK, RequestInv
<1>1. CASE Call \/ Proceed
  BY <1>1 DEF Call, Proceed, PutRequest, Signal, PollAck, TestRequest, Return,
     MainGoto
<1>2. CASE NetMain
  BY <1>2 DEF NetMain, NetTake, NetAck, NetDelete, NetGoto
<1>3. CASE UNCHANGED request_vars
  BY <1>3 DEF request_vars
<1>4. NetReceive \/ TakeInterrupt \/ Announce
        \/ (\E core \in {"app", "net"} : CopyPacket(core))
      => UNCHANGED request_vars
  BY DEF NetReceive, TakeInterrupt, Announce, CopyPacket, MutexLock, CopyLength,
     CopyBuffer, MutexUnlock, IrqGoto
<1>. QED  BY <1>1, <1>2, <1>3, <1>4 DEF IpcNext, ipc_vars

(***************************************************************************)
(* db_ipc_network_call returns with its request fulfilled unless one was   *)
(* sent again because net_ack and req were read one after the other.       *)
(***************************************************************************)
THEOREM CallsReturnFulfilled == IpcSpec => []ReturnsFulfilled
<1>1. RequestInv => ReturnsFulfilled
  BY DEF RequestInv, ReturnsFulfilled
<1>. QED  BY <1>1, IpcTypeOKInit, IpcTypeOKStep, RequestInvInit, RequestInvStep,
     PTL DEF IpcSpec

-----------------------------------------------------------------------------
(* The serial line.  An escaped payload comes out again by induction over  *)
(* its bytes; FlattenSeq is recursive, so that first what it joins and     *)
(* what one more sequence adds to it follow by induction from its          *)
(* equations.                                                              *)

LEMMA LeastNumber ==
  ASSUME NEW S, S \subseteq Nat, S # {}
  PROVE  \E n \in S : \A m \in S : n <= m
  <1>1. PICK n \in S : \A m \in S : ~ (<<m, n>> \in OpToRel(<, Nat))
    BY NatLessThanWellFounded, WFMin, Zenon
  <1>2. \A m \in S : ~ (m < n)
    BY <1>1 DEF OpToRel
  <1> QED BY <1>2

LEMMA NatInductionSet ==
  ASSUME NEW S, 0 \in S, \A n \in Nat : n \in S => n + 1 \in S
  PROVE  \A n \in Nat : n \in S
  <1> SUFFICES ASSUME Nat \ S # {} PROVE FALSE
    OBVIOUS
  <1>1. PICK n \in Nat \ S : \A m \in Nat \ S : n <= m
    BY LeastNumber
  <1>2. n # 0 /\ n - 1 \in Nat /\ n - 1 \in S
    BY <1>1
  <1> QED BY <1>2

\* f joins the first n of some sequences, one after the other.
Joins(f, seqs, n) ==
  f[1] = seqs[1] /\ \A k \in 1 .. n : k # 1 => f[k] = f[k - 1] \o seqs[k]

LEMMA JoinExists ==
  ASSUME NEW seqs, NEW n \in Nat
  PROVE  \E f : f = [i \in 1 .. n |-> IF i = 1 THEN seqs[i] ELSE f[i - 1] \o seqs[i]]
  <1> DEFINE Has == {m \in Nat : \E f :
                f = [i \in 1 .. m |-> IF i = 1 THEN seqs[i] ELSE f[i - 1] \o seqs[i]]}
  <1>1. 0 \in Has
    <2>1. PICK f : f = [i \in 1 .. 0 |-> seqs[i]]
      OBVIOUS
    <2>2. f = [i \in 1 .. 0 |-> IF i = 1 THEN seqs[i] ELSE f[i - 1] \o seqs[i]]
      BY <2>1
    <2> QED BY <2>2
  <1>2. ASSUME NEW m \in Nat, m \in Has PROVE m + 1 \in Has
    <2>1. PICK f : f = [i \in 1 .. m |-> IF i = 1 THEN seqs[i] ELSE f[i - 1] \o seqs[i]]
      BY <1>2
    <2>2. PICK g : g = [i \in 1 .. m + 1 |->
                          IF i = 1 THEN seqs[i]
                          ELSE IF i = m + 1 THEN f[m] \o seqs[i] ELSE f[i]]
      OBVIOUS
    <2>3. \A i \in 1 .. m : g[i] = f[i]
      BY <2>1, <2>2
    <2>4. ASSUME NEW i \in 1 .. m + 1
          PROVE  g[i] = IF i = 1 THEN seqs[i] ELSE g[i - 1] \o seqs[i]
      <3>1. CASE i = 1
        BY <2>2, <3>1
      <3>2. CASE i # 1 /\ i = m + 1
        <4>1. m \in 1 .. m /\ i - 1 = m
          BY <3>2
        <4> QED BY <2>2, <2>3, <3>2, <4>1
      <3>3. CASE i # 1 /\ i # m + 1
        <4>1. i \in 1 .. m /\ i - 1 \in 1 .. m
          BY <3>3
        <4>2. f[i] = f[i - 1] \o seqs[i]
          BY <2>1, <3>3, <4>1
        <4> QED BY <2>3, <3>3, <4>1, <4>2
      <3> QED BY <3>1, <3>2, <3>3
    <2>5. g = [i \in 1 .. m + 1 |-> g[i]]
      BY <2>2
    <2>6. g = [i \in 1 .. m + 1 |-> IF i = 1 THEN seqs[i] ELSE g[i - 1] \o seqs[i]]
      BY <2>4, <2>5
    <2>7. \E h : h = [i \in 1 .. m + 1 |-> IF i = 1 THEN seqs[i] ELSE h[i - 1] \o seqs[i]]
      BY <2>6
    <2>8. m + 1 \in Nat
      OBVIOUS
    <2> QED BY <2>7, <2>8, Zenon
  <1> HIDE DEF Has
  <1>3. n \in Has
    BY <1>1, <1>2, NatInductionSet
  <1> QED BY <1>3 DEF Has

LEMMA JoinUnique ==
  ASSUME NEW seqs, NEW others, NEW n \in Nat, NEW f, NEW g, n >= 1,
         Joins(f, seqs, n), Joins(g, others, n),
         \A k \in 1 .. n : seqs[k] = others[k]
  PROVE  f[n] = g[n]
  <1> DEFINE Same == {m \in Nat : m >= 1 /\ m <= n => f[m] = g[m]}
  <1>1. 0 \in Same
    OBVIOUS
  <1>2. ASSUME NEW m \in Nat, m \in Same PROVE m + 1 \in Same
    <2> SUFFICES ASSUME m + 1 <= n PROVE f[m + 1] = g[m + 1]
      OBVIOUS
    <2>1. CASE m = 0
      BY <2>1 DEF Joins
    <2>2. CASE m # 0
      <3>1. f[m] = g[m] /\ seqs[m + 1] = others[m + 1]
        BY <1>2, <2>2
      <3>2. /\ f[m + 1] = f[(m + 1) - 1] \o seqs[m + 1]
            /\ g[m + 1] = g[(m + 1) - 1] \o others[m + 1]
        <4>1. m + 1 \in 1 .. n /\ m + 1 # 1
          BY <2>2
        <4> QED BY <4>1 DEF Joins
      <3>3. (m + 1) - 1 = m
        OBVIOUS
      <3> QED BY <3>1, <3>2, <3>3
    <2> QED BY <2>1, <2>2
  <1> HIDE DEF Same
  <1>3. n \in Same
    BY <1>1, <1>2, NatInductionSet
  <1> QED BY <1>3 DEF Same

LEMMA FlattenJoins ==
  ASSUME NEW seqs, Len(seqs) \in Nat, Len(seqs) # 0
  PROVE  \E f : FlattenSeq(seqs) = f[Len(seqs)] /\ Joins(f, seqs, Len(seqs))
  <1> DEFINE n == Len(seqs)
             Eq(f) == f = [i \in 1 .. n |-> IF i = 1 THEN seqs[i] ELSE f[i - 1] \o seqs[i]]
             f == CHOOSE flatten : Eq(flatten)
  <1>1. FlattenSeq(seqs) = f[n]
    BY DEF FlattenSeq
  <1>2. Eq(f)
    <2>1. PICK g : Eq(g)
      <3> HIDE DEF n
      <3>1. n \in Nat
        BY DEF n
      <3> QED BY <3>1, JoinExists
    <2> HIDE DEF Eq
    <2> QED BY <2>1
  <1> HIDE DEF f
  <1>3. n >= 1 /\ n \in Nat
    OBVIOUS
  <1> HIDE DEF n
  <1>4. \A i \in 1 .. n : f[i] = IF i = 1 THEN seqs[i] ELSE f[i - 1] \o seqs[i]
    BY <1>2
  <1>5. f[1] = seqs[1]
    BY <1>3, <1>4
  <1>6. ASSUME NEW k \in 1 .. n, k # 1 PROVE f[k] = f[k - 1] \o seqs[k]
    BY <1>4, <1>6
  <1>7. Joins(f, seqs, n)
    BY <1>5, <1>6 DEF Joins
  <1> QED BY <1>1, <1>7 DEF n

\* Joining one more, from the definition that joins them all.
LEMMA FlattenStep ==
  ASSUME NEW S, NEW seqs \in Seq(Seq(S)), NEW x \in Seq(S), FlattenSeq(seqs) \in Seq(S)
  PROVE  FlattenSeq(<<>>) = <<>> /\ FlattenSeq(Append(seqs, x)) = FlattenSeq(seqs) \o x
  <1> DEFINE more == Append(seqs, x)
             n == Len(seqs)
  <1>0. FlattenSeq(<<>>) = <<>>
    BY DEF FlattenSeq
  <1>1. /\ n \in Nat /\ Len(more) = n + 1 /\ more[n + 1] = x
        /\ \A k \in 1 .. n : more[k] = seqs[k]
    OBVIOUS
  <1> HIDE DEF more, n
  <1>2. PICK g : FlattenSeq(more) = g[n + 1] /\ Joins(g, more, n + 1)
    BY <1>1, FlattenJoins
  <1>3. CASE n = 0
    <2>1. seqs = <<>>
      BY <1>3 DEF n
    <2>2. FlattenSeq(more) = x
      BY <1>1, <1>2, <1>3 DEF Joins
    <2> QED BY <1>0, <2>1, <2>2 DEF more
  <1>4. CASE n # 0
    <2>1. PICK f : FlattenSeq(seqs) = f[n] /\ Joins(f, seqs, n)
      BY <1>1, <1>4, FlattenJoins DEF n
    <2>2. Joins(g, more, n)
      <3>1. \A k \in 1 .. n : k \in 1 .. n + 1
        BY <1>1
      <3> QED BY <1>2, <3>1 DEF Joins
    <2>3. f[n] = g[n]
      <3>1. n \in Nat /\ n >= 1
        BY <1>1, <1>4
      <3>2. \A k \in 1 .. n : seqs[k] = more[k]
        BY <1>1
      <3> QED BY <2>1, <2>2, <3>1, <3>2, JoinUnique
    <2>4. g[n + 1] = g[(n + 1) - 1] \o more[n + 1]
      <3>1. n + 1 \in 1 .. n + 1 /\ n + 1 # 1
        BY <1>1, <1>4
      <3> QED BY <1>2, <3>1 DEF Joins
    <2>5. (n + 1) - 1 = n
      BY <1>1
    <2> QED BY <1>0, <1>1, <1>2, <2>1, <2>3, <2>4, <2>5 DEF more
  <1> QED BY <1>3, <1>4

\* (The provers do not know that the four are strings.)
Bytes == STRING \cup {"FLAG", "ESCAPE", "FLAG_ESCAPED", "ESCAPE_ESCAPED"}

LEMMA TheBytes ==
  /\ "FLAG" \in Bytes /\ "ESCAPE" \in Bytes
  /\ "FLAG_ESCAPED" \in Bytes /\ "ESCAPE_ESCAPED" \in Bytes
  BY DEF Bytes

LEMMA StuffBytes ==
  ASSUME NEW b \in Bytes
  PROVE  Stuff(b) \in Seq(Bytes)
  <1>1. CASE b = "FLAG"
    BY <1>1, TheBytes DEF Stuff
  <1>2. CASE b = "ESCAPE"
    BY <1>2, TheBytes DEF Stuff
  <1>3. CASE b # "FLAG" /\ b # "ESCAPE"
    BY <1>3 DEF Stuff
  <1> QED BY <1>1, <1>2, <1>3

\* One more byte is encoded.
LEMMA EncodeStep ==
  ASSUME NEW bytes \in Seq(Bytes), NEW x \in Bytes, Encode(bytes) \in Seq(Bytes)
  PROVE  /\ Encode(<<>>) = <<>>
         /\ Encode(Append(bytes, x)) = Encode(bytes) \o Stuff(x)
  <1> DEFINE n == Len(bytes)
             stuffed == [k \in 1 .. n |-> Stuff(bytes[k])]
             more == [k \in 1 .. n + 1 |-> Stuff(Append(bytes, x)[k])]
  <1>1. \A b \in Bytes : Stuff(b) \in Seq(Bytes)
    BY StuffBytes
  <1>2. n \in Nat /\ Len(Append(bytes, x)) = n + 1
        /\ \A k \in 1 .. n : Append(bytes, x)[k] = bytes[k]
    OBVIOUS
  <1>3. stuffed \in Seq(Seq(Bytes)) /\ Len(stuffed) = n
    <2>1. \A k \in 1 .. n : Stuff(bytes[k]) \in Seq(Bytes)
      BY <1>1
    <2> QED BY <1>2, <2>1
  <1>4. more = Append(stuffed, Stuff(x))
    OBVIOUS
  <1>5. Encode(bytes) = FlattenSeq(stuffed) /\ Encode(Append(bytes, x)) = FlattenSeq(more)
    BY <1>2 DEF Encode
  <1>6. Encode(<<>>) = FlattenSeq(<<>>)
    BY DEF Encode
  <1> HIDE DEF stuffed, more
  <1> QED BY <1>1, <1>3, <1>4, <1>5, <1>6, FlattenStep

\* What db_hdlc_decode writes for a frame, the checksum included.
Output(frame) == FlattenSeq([k \in 1 .. Len(frame) |-> Unstuff(frame, k)])

LEMMA UnstuffBytes ==
  ASSUME NEW frame \in Seq(Bytes), NEW k \in 1 .. Len(frame)
  PROVE  Unstuff(frame, k) \in Seq(Bytes)
  <1>1. frame[k] \in Bytes
    OBVIOUS
  <1> QED BY <1>1, TheBytes DEF Unstuff

\* What a byte adds depends on it and the byte before it alone.
LEMMA OutputStep ==
  ASSUME NEW frame \in Seq(Bytes), NEW x \in Bytes, Output(frame) \in Seq(Bytes)
  PROVE  /\ Output(<<>>) = <<>>
         /\ Output(Append(frame, x))
              = Output(frame) \o Unstuff(Append(frame, x), Len(frame) + 1)
  <1> DEFINE n == Len(frame)
             longer == Append(frame, x)
             parts == [k \in 1 .. n |-> Unstuff(frame, k)]
             more == [k \in 1 .. n + 1 |-> Unstuff(longer, k)]
  <1>1. n \in Nat /\ Len(longer) = n + 1 /\ longer \in Seq(Bytes)
        /\ \A k \in 1 .. n : longer[k] = frame[k]
    OBVIOUS
  <1>2. \A k \in 1 .. n : Unstuff(frame, k) \in Seq(Bytes)
    BY UnstuffBytes
  <1>3. parts \in Seq(Seq(Bytes)) /\ Len(parts) = n
    BY <1>1, <1>2
  <1>4. Unstuff(longer, n + 1) \in Seq(Bytes)
    <2>1. n + 1 \in 1 .. Len(longer)
      BY <1>1
    <2> QED BY <1>1, <2>1, UnstuffBytes
  <1>5. \A k \in 1 .. n : Unstuff(longer, k) = Unstuff(frame, k)
    <2>1. TAKE k \in 1 .. n
    <2>2. longer[k] = frame[k] /\ (k # 1 => longer[k - 1] = frame[k - 1])
      BY <1>1
    <2> HIDE DEF longer
    <2> QED BY <2>2 DEF Unstuff
  <1>6. more = Append(parts, Unstuff(longer, n + 1))
    <2>1. \A k \in 1 .. n : more[k] = parts[k]
      BY <1>1, <1>5
    <2>2. more[n + 1] = Unstuff(longer, n + 1)
      BY <1>1
    <2>3. \A k \in 1 .. n + 1 : k \in 1 .. n \/ k = n + 1
      BY <1>1
    <2>4. more = [k \in 1 .. n + 1 |-> more[k]]
      OBVIOUS
    <2> HIDE DEF more, parts, longer, n
    <2>5. Len(Append(parts, Unstuff(longer, n + 1))) = n + 1
          /\ \A k \in 1 .. n : Append(parts, Unstuff(longer, n + 1))[k] = parts[k]
          /\ Append(parts, Unstuff(longer, n + 1))[n + 1] = Unstuff(longer, n + 1)
          /\ Append(parts, Unstuff(longer, n + 1)) \in Seq(Seq(Bytes))
      BY <1>1, <1>3, <1>4
    <2>6. \A k \in 1 .. n + 1 : more[k] = Append(parts, Unstuff(longer, n + 1))[k]
      BY <2>1, <2>2, <2>3, <2>5
    <2>7. Append(parts, Unstuff(longer, n + 1))
            = [k \in 1 .. n + 1 |-> Append(parts, Unstuff(longer, n + 1))[k]]
      BY <2>5
    <2> QED BY <2>4, <2>6, <2>7
  <1>7. Output(frame) = FlattenSeq(parts) /\ Output(longer) = FlattenSeq(more)
    BY <1>1 DEF Output
  <1>8. Output(<<>>) = FlattenSeq(<<>>)
    BY DEF Output
  <1> HIDE DEF parts, more
  <1> QED BY <1>3, <1>4, <1>6, <1>7, <1>8, FlattenStep

\* An encoding that is decoded to what was encoded, and does not end in the
\* middle of an escaped byte.
RoundTrip(bytes, frame) ==
  /\ frame \in Seq(Bytes) /\ Output(frame) = bytes
  /\ Len(frame) >= Len(bytes)
  /\ \A k \in 1 .. Len(frame) : frame[k] # "FLAG"
  /\ frame # <<>> => frame[Len(frame)] # "ESCAPE"

LEMMA RoundTripStep ==
  ASSUME NEW bytes \in Seq(Bytes), NEW x \in Bytes, NEW frame, RoundTrip(bytes, frame)
  PROVE  RoundTrip(Append(bytes, x), frame \o Stuff(x))
  <1>1. /\ frame \in Seq(Bytes) /\ Output(frame) = bytes
        /\ Len(frame) >= Len(bytes)
        /\ \A k \in 1 .. Len(frame) : frame[k] # "FLAG"
        /\ frame # <<>> => frame[Len(frame)] # "ESCAPE"
    BY DEF RoundTrip
  <1>2. ASSUME NEW y \in Bytes
        PROVE  Unstuff(Append(frame, y), Len(frame) + 1)
                 = IF y = "ESCAPE" THEN <<>> ELSE <<y>>
    <2> DEFINE longer == Append(frame, y)
    <2>1. longer \in Seq(Bytes)
      BY <1>1
    <2>2. PICK n \in Nat : n = Len(frame)
      BY <1>1
    <2>3. longer[n + 1] = y /\ (n # 0 => longer[n] # "ESCAPE")
      BY <1>1, <2>1, <2>2
    <2> HIDE DEF longer
    <2>4. n + 1 = 1 \/ longer[(n + 1) - 1] # "ESCAPE"
      <3>1. (n + 1) - 1 = n
        OBVIOUS
      <3> QED BY <2>3, <3>1
    <2>5. CASE y = "ESCAPE"
      BY <2>2, <2>3, <2>5 DEF Unstuff, longer
    <2>6. CASE y # "ESCAPE"
      <3>1. Unstuff(longer, n + 1) = <<y>>
        BY <2>3, <2>4, <2>6 DEF Unstuff
      <3> QED BY <2>2, <2>6, <3>1 DEF longer
    <2> QED BY <2>5, <2>6
  <1>3. ASSUME NEW y \in Bytes, y # "ESCAPE"
        PROVE  Output(Append(frame, y)) = Append(bytes, y)
    <2>1. Output(Append(frame, y)) = bytes \o <<y>>
      BY <1>1, <1>2, <1>3, OutputStep
    <2> QED BY <2>1
  <1>4. CASE x # "FLAG" /\ x # "ESCAPE"
    <2>1. Stuff(x) = <<x>> /\ frame \o <<x>> = Append(frame, x)
      BY <1>1, <1>4 DEF Stuff
    <2>2. Output(Append(frame, x)) = Append(bytes, x)
      BY <1>3, <1>4
    <2>3. /\ Append(frame, x) \in Seq(Bytes) /\ Len(Append(frame, x)) = Len(frame) + 1
          /\ Append(frame, x)[Len(frame) + 1] = x
          /\ \A k \in 1 .. Len(frame) : Append(frame, x)[k] = frame[k]
      BY <1>1
    <2>4. \A k \in 1 .. Len(frame) + 1 : k \in 1 .. Len(frame) \/ k = Len(frame) + 1
      BY <1>1
    <2>5. \A k \in 1 .. Len(Append(frame, x)) : Append(frame, x)[k] # "FLAG"
      BY <1>1, <1>4, <2>3, <2>4
    <2>6. Len(Append(frame, x)) >= Len(Append(bytes, x))
      BY <1>1, <2>3
    <2> HIDE DEF Output
    <2> QED BY <1>4, <2>1, <2>2, <2>3, <2>5, <2>6 DEF RoundTrip
  <1>5. ASSUME NEW code \in {"FLAG_ESCAPED", "ESCAPE_ESCAPED"},
               Stuff(x) = <<"ESCAPE", code>>,
               x = IF code = "FLAG_ESCAPED" THEN "FLAG" ELSE "ESCAPE"
        PROVE  RoundTrip(Append(bytes, x), frame \o Stuff(x))
    <2>0. Append(frame, "ESCAPE") \in Seq(Bytes)
      BY <1>1, TheBytes
    <2>1. PICK half \in Seq(Bytes) : half = Append(frame, "ESCAPE")
      BY <2>0
    <2>c. code \in Bytes
      BY TheBytes
    <2>2. PICK whole \in Seq(Bytes) : whole = Append(half, code)
      BY <2>c, AppendProperties
    <2>3. frame \o Stuff(x) = whole
      BY <1>1, <1>5, <2>1, <2>2
    <2>4. Output(half) = bytes
      <3>1. Output(half) = bytes \o <<>>
        BY <1>1, <1>2, <2>1, OutputStep, TheBytes
      <3> QED BY <3>1
    <2>5. Unstuff(whole, Len(half) + 1) = <<x>>
      <3>1. PICK n \in Nat : n = Len(half) /\ n # 0
        BY <1>1, <2>1
      <3>2. whole[n + 1] = code /\ whole[n] = "ESCAPE" /\ (n + 1) - 1 = n /\ n + 1 # 1
        BY <1>1, <2>1, <2>2, <3>1
      <3>3. Unstuff(whole, n + 1) = <<x>>
        BY <1>5, <3>2 DEF Unstuff
      <3> QED BY <3>1, <3>3
    <2>6. Output(whole) = Append(bytes, x)
      <3>1. code \in Bytes
        BY TheBytes
      <3>2. Output(whole) = bytes \o <<x>>
        BY <2>2, <2>4, <2>5, <3>1, OutputStep
      <3> QED BY <3>2
    <2>7. /\ Len(whole) = Len(frame) + 2
          /\ whole[Len(whole)] # "ESCAPE"
          /\ \A k \in 1 .. Len(whole) : whole[k] # "FLAG"
      BY <1>1, <2>1, <2>2
    <2> QED BY <1>1, <2>3, <2>6, <2>7 DEF RoundTrip
  <1>6. CASE x = "FLAG"
    BY <1>5, <1>6 DEF Stuff
  <1>7. CASE x = "ESCAPE"
    BY <1>5, <1>7 DEF Stuff
  <1> QED BY <1>4, <1>6, <1>7

LEMMA EncodedRoundTrip ==
  ASSUME NEW bytes \in Seq(Bytes)
  PROVE  RoundTrip(bytes, Encode(bytes))
  <1> DEFINE Prefix(m) == SubSeq(bytes, 1, m)
             Fine == {m \in Nat : m <= Len(bytes) =>
                        RoundTrip(Prefix(m), Encode(Prefix(m)))}
  <1>1. 0 \in Fine
    <2>1. Prefix(0) = <<>>
      OBVIOUS
    <2>2. Encode(<<>>) = <<>> /\ Output(<<>>) = <<>>
      BY DEF Encode, Output, FlattenSeq
    <2>3. <<>> \in Seq(Bytes) /\ Len(<<>>) = 0
      OBVIOUS
    <2> HIDE DEF Prefix
    <2>4. RoundTrip(<<>>, <<>>)
      BY <2>2, <2>3 DEF RoundTrip
    <2> QED BY <2>1, <2>2, <2>4
  <1>2. ASSUME NEW m \in Nat, m \in Fine PROVE m + 1 \in Fine
    <2> SUFFICES ASSUME m + 1 <= Len(bytes)
                 PROVE  RoundTrip(Prefix(m + 1), Encode(Prefix(m + 1)))
      OBVIOUS
    <2>1. RoundTrip(Prefix(m), Encode(Prefix(m)))
      BY <1>2
    <2>2. Prefix(m) \in Seq(Bytes) /\ bytes[m + 1] \in Bytes
      OBVIOUS
    <2>3. Prefix(m + 1) = Append(Prefix(m), bytes[m + 1])
      OBVIOUS
    <2> HIDE DEF Prefix
    <2>4. Encode(Prefix(m)) \in Seq(Bytes)
      BY <2>1 DEF RoundTrip
    <2>5. Encode(Prefix(m + 1)) = Encode(Prefix(m)) \o Stuff(bytes[m + 1])
      BY <2>2, <2>3, <2>4, EncodeStep
    <2> QED BY <2>1, <2>2, <2>3, <2>5, RoundTripStep
  <1>3. Prefix(Len(bytes)) = bytes /\ Len(bytes) \in Nat
    OBVIOUS
  <1> HIDE DEF Fine
  <1>4. Len(bytes) \in Fine
    BY <1>1, <1>2, <1>3, NatInductionSet
  <1>5. RoundTrip(Prefix(Len(bytes)), Encode(Prefix(Len(bytes))))
    BY <1>3, <1>4 DEF Fine
  <1> HIDE DEF Prefix
  <1> QED BY <1>3, <1>5

\* A frame is never empty, holds no flag and is decoded to its payload.
Carries(frame, payload) ==
  /\ frame \in Seq(Bytes) /\ frame # <<>>
  /\ \A k \in 1 .. Len(frame) : frame[k] # "FLAG"
  /\ Decode(frame) = payload

LEMMA DecodeEncode ==
  ASSUME NEW payload \in Seq(Bytes), NEW sum \in Seq(Bytes), Len(sum) = 2
  PROVE  Carries(Encode(payload \o sum), payload)
  <1>0. payload \o sum \in Seq(Bytes) /\ Len(payload \o sum) = Len(payload) + Len(sum)
    BY ConcatProperties
  <1>1. /\ payload \o sum \in Seq(Bytes)
        /\ Len(payload \o sum) = Len(payload) + 2 /\ Len(payload) \in Nat
    BY <1>0, LenProperties
  <1>2. PICK frame : frame = Encode(payload \o sum)
    OBVIOUS
  <1>3. RoundTrip(payload \o sum, frame)
    BY <1>1, <1>2, EncodedRoundTrip
  <1>4. frame # <<>>
    BY <1>1, <1>3 DEF RoundTrip
  <1>5. Decode(frame) = SubSeq(payload \o sum, 1, Len(payload \o sum) - 2)
    BY <1>3 DEF RoundTrip, Decode, Output
  <1>6. SubSeq(payload \o sum, 1, Len(payload \o sum) - 2) = payload
    BY <1>1
  <1> QED BY <1>2, <1>3, <1>4, <1>5, <1>6 DEF Carries, RoundTrip

\* What of the running frame is still to come before its last flag.
Rest == SubSeq(line, 1, Len(line) - 1)

Opening == Len(line) > 1 /\ line[1] = "FLAG"

HdlcTypes ==
  /\ hdlc_state \in {"IDLE", "RECEIVING", "ERROR"}
  /\ buffer \in Seq(Bytes) /\ line \in Seq(Bytes)
  /\ intact \in 0 .. 3

\* The receiver between two whole frames.
BetweenInv ==
  line = <<>> =>
    /\ hdlc_state = "IDLE" \/ (hdlc_state = "RECEIVING" /\ buffer = <<>>)
    /\ intact >= 2 => hdlc_state = "IDLE"
    /\ intact = 3 => decoded = sending

\* Before a frame's first flag,
OpeningInv ==
  Opening =>
    /\ Len(line) >= 3 /\ Len(line) - 2 < BufferSize - 1
    /\ Carries(SubSeq(line, 2, Len(line) - 1), sending)
    /\ intact >= 2 =>
         hdlc_state = "IDLE" \/ (hdlc_state = "RECEIVING" /\ buffer = <<>>)
    /\ intact = 3 => hdlc_state = "IDLE"

\* and from there to its last one.
RunningInv ==
  line # <<>> /\ ~Opening =>
    /\ \A k \in 1 .. Len(Rest) : Rest[k] # "FLAG"
    /\ \/ /\ hdlc_state = "RECEIVING"
          /\ Len(buffer) + Len(Rest) \in 1 .. BufferSize - 1
       \/ hdlc_state = "IDLE" /\ intact = 1
    /\ intact = 3 => Decode(buffer \o Rest) = sending

LastFlag == line # <<>> => line[Len(line)] = "FLAG"

HdlcInv ==
  /\ HdlcTypes
  /\ intact # 0 => LastFlag /\ BetweenInv /\ OpeningInv /\ RunningInv

LEMMA HdlcInvInit == HdlcInit => HdlcInv
  <1> SUFFICES ASSUME HdlcInit PROVE HdlcInv
    OBVIOUS
  <1>1. HdlcTypes
    BY DEF HdlcInit, HdlcTypes
  <1>2. LastFlag /\ BetweenInv /\ OpeningInv /\ RunningInv
    BY DEF HdlcInit, LastFlag, BetweenInv, OpeningInv, RunningInv, Opening
  <1> QED BY <1>1, <1>2 DEF HdlcInv

LEMMA SendKeeps ==
  ASSUME HdlcInv, NEW payload \in Payloads, NEW sum \in Checksums, Send(payload, sum)
  PROVE  HdlcInv'
  <1>1. payload \in Seq(Bytes) /\ sum \in Seq(Bytes) /\ Len(sum) = 2
    <2>1. payload \in Seq(STRING) /\ sum \in Seq(STRING) /\ Len(sum) = 2
      BY HdlcConstants DEF HdlcConstants
    <2>2. STRING \subseteq Bytes
      BY DEF Bytes
    <2> QED BY <2>1, <2>2, SeqMonotonic
  <1>2. PICK frame \in Seq(Bytes) : /\ frame = Encode(payload \o sum)
                                    /\ Carries(frame, payload)
    BY <1>1, DecodeEncode DEF Carries
  <1>3. /\ line' = <<"FLAG">> \o frame \o <<"FLAG">>
        /\ intact' = IF Len(frame) >= BufferSize - 1 THEN 0
                     ELSE IF intact < 3 THEN intact + 1 ELSE 3
        /\ line = <<>> /\ sending' = payload
        /\ UNCHANGED <<hdlc_state, buffer>>
    BY <1>2 DEF Send
  <1>4. /\ line' \in Seq(Bytes) /\ Len(line') = Len(frame) + 2
        /\ Len(frame) \in Nat /\ Len(frame) # 0
        /\ line'[1] = "FLAG" /\ line'[Len(line')] = "FLAG"
        /\ \A k \in 1 .. Len(frame) : line'[k + 1] = frame[k]
    BY <1>2, <1>3, TheBytes DEF Carries
  <1>5. SubSeq(line', 2, Len(line') - 1) = frame
    BY <1>4
  <1>6. HdlcTypes'
    BY <1>3, <1>4 DEF HdlcInv, HdlcTypes
  <1>7. ASSUME intact' # 0
        PROVE  LastFlag' /\ BetweenInv' /\ OpeningInv' /\ RunningInv'
    <2>1. Opening' /\ line' # <<>> /\ LastFlag'
      BY <1>4 DEF Opening, LastFlag
    <2>2. Len(frame) < BufferSize - 1 /\ intact' = IF intact < 3 THEN intact + 1 ELSE 3
      BY <1>3, <1>4, <1>7, HdlcConstants DEF HdlcConstants
    <2>3. intact' >= 2 => intact # 0 /\ BetweenInv
      BY <2>2 DEF HdlcInv, HdlcTypes
    <2>4. intact' >= 2 => hdlc_state = "IDLE" \/ (hdlc_state = "RECEIVING" /\ buffer = <<>>)
      BY <1>3, <2>3 DEF BetweenInv
    <2>5. intact' = 3 => hdlc_state = "IDLE"
      BY <1>3, <2>2, <2>3 DEF BetweenInv, HdlcInv, HdlcTypes
    <2>6. OpeningInv'
      <3>1. Len(line') >= 3 /\ Len(line') - 2 < BufferSize - 1
        BY <1>4, <2>2
      <3>2. Carries(SubSeq(line', 2, Len(line') - 1), sending')
        BY <1>2, <1>3, <1>5
      <3>3. (intact' >= 2 =>
               hdlc_state' = "IDLE" \/ (hdlc_state' = "RECEIVING" /\ buffer' = <<>>))
            /\ (intact' = 3 => hdlc_state' = "IDLE")
        BY <1>3, <2>4, <2>5
      <3> QED BY <3>1, <3>2, <3>3 DEF OpeningInv, Carries, Decode, Unstuff
    <2> QED BY <2>1, <2>6 DEF BetweenInv, RunningInv
  <1> QED BY <1>6, <1>7 DEF HdlcInv

\* The bytes of the line one by one.
LEMMA LineGoesOn ==
  ASSUME line \in Seq(Bytes), line # <<>>, line' = Tail(line)
  PROVE  /\ line' \in Seq(Bytes) /\ Len(line') = Len(line) - 1
         /\ Head(line) = line[1] /\ line[1] \in Bytes
         /\ \A k \in 1 .. Len(line') : line'[k] = line[k + 1]
         /\ Len(Rest) = Len(line) - 1 /\ Rest \in Seq(Bytes)
         /\ \A k \in 1 .. Len(Rest) : Rest[k] = line[k]
         /\ Rest' = SubSeq(line, 2, Len(line) - 1)
  <1>1. /\ line' \in Seq(Bytes) /\ Len(line') = Len(line) - 1
        /\ Head(line) = line[1] /\ line[1] \in Bytes
        /\ \A k \in 1 .. Len(line') : line'[k] = line[k + 1]
    OBVIOUS
  <1>2. /\ Len(Rest) = Len(line) - 1 /\ Rest \in Seq(Bytes)
        /\ \A k \in 1 .. Len(Rest) : Rest[k] = line[k]
    <2>1. PICK n \in Nat : n = Len(line) - 1
      OBVIOUS
    <2>2. /\ SubSeq(line, 1, n) \in Seq(Bytes) /\ Len(SubSeq(line, 1, n)) = n
          /\ \A k \in 1 .. n : SubSeq(line, 1, n)[k] = line[k]
      BY <2>1
    <2> QED BY <2>1, <2>2 DEF Rest
  <1>3. Rest' = SubSeq(line, 2, Len(line) - 1)
    BY DEF Rest
  <1> QED BY <1>1, <1>2, <1>3

LEMMA MoveByte ==
  ASSUME NEW s \in Seq(Bytes), NEW t \in Seq(Bytes), t # <<>>
  PROVE  Append(s, t[1]) \o SubSeq(t, 2, Len(t)) = s \o t
  <1>1. PICK m \in Nat, n \in Nat : m = Len(s) /\ n = Len(t) /\ n # 0
    OBVIOUS
  <1>t. t[1] \in Bytes
    BY <1>1
  <1>a. Append(s, t[1]) \in Seq(Bytes) /\ Len(Append(s, t[1])) = m + 1
    BY <1>1, <1>t, AppendProperties
  <1>2. PICK u \in Seq(Bytes) : u = Append(s, t[1]) /\ Len(u) = m + 1
    BY <1>a
  <1>3. /\ SubSeq(t, 2, n) \in Seq(Bytes) /\ Len(SubSeq(t, 2, n)) = n - 1
        /\ \A k \in 1 .. n - 1 : SubSeq(t, 2, n)[k] = t[k + 1]
    BY <1>1
  <1>4. PICK v \in Seq(Bytes) : /\ v = SubSeq(t, 2, n) /\ Len(v) = n - 1
                                /\ \A k \in 1 .. n - 1 : v[k] = t[k + 1]
    BY <1>3
  <1>5. /\ \A k \in 1 .. m : u[k] = s[k]
        /\ u[m + 1] = t[1]
    BY <1>1, <1>2, <1>t
  <1>6. /\ u \o v \in Seq(Bytes) /\ Len(u \o v) = m + n
        /\ s \o t \in Seq(Bytes) /\ Len(s \o t) = m + n
    <2>1. u \o v \in Seq(Bytes) /\ Len(u \o v) = (m + 1) + (n - 1)
      <3>1. u \o v \in Seq(Bytes) /\ Len(u \o v) = Len(u) + Len(v)
        BY ConcatProperties
      <3> QED BY <1>2, <1>4, <3>1
    <2>2. s \o t \in Seq(Bytes) /\ Len(s \o t) = m + n
      BY <1>1, ConcatProperties
    <2>3. (m + 1) + (n - 1) = m + n
      OBVIOUS
    <2> QED BY <2>1, <2>2, <2>3
  <1>e. /\ \A k \in 1 .. m + n : (u \o v)[k] = IF k <= m + 1 THEN u[k] ELSE v[k - (m + 1)]
        /\ \A k \in 1 .. m + n : (s \o t)[k] = IF k <= m THEN s[k] ELSE t[k - m]
    <2>1. \A k \in 1 .. Len(u) + Len(v) :
            (u \o v)[k] = IF k <= Len(u) THEN u[k] ELSE v[k - Len(u)]
      BY ConcatProperties
    <2>2. \A k \in 1 .. Len(s) + Len(t) :
            (s \o t)[k] = IF k <= Len(s) THEN s[k] ELSE t[k - Len(s)]
      BY ConcatProperties
    <2>3. (m + 1) + (n - 1) = m + n
      OBVIOUS
    <2> QED BY <1>1, <1>2, <1>4, <2>1, <2>2, <2>3
  <1>7. ASSUME NEW k \in 1 .. m + n
        PROVE  (u \o v)[k] = (s \o t)[k]
    <2>0. /\ (u \o v)[k] = IF k <= m + 1 THEN u[k] ELSE v[k - (m + 1)]
          /\ (s \o t)[k] = IF k <= m THEN s[k] ELSE t[k - m]
      BY <1>e
    <2>1. CASE k <= m
      BY <1>5, <2>0, <2>1
    <2>2. CASE k = m + 1
      <3>1. k - m = 1
        BY <2>2
      <3> QED BY <1>5, <2>0, <2>2, <3>1
    <2>3. CASE k > m + 1
      <3>1. k - (m + 1) \in 1 .. n - 1 /\ (k - (m + 1)) + 1 = k - m
        BY <1>1, <2>3
      <3>2. v[k - (m + 1)] = t[(k - (m + 1)) + 1]
        BY <1>4, <3>1
      <3> QED BY <2>0, <2>3, <3>1, <3>2
    <2>4. k <= m \/ k = m + 1 \/ k > m + 1
      BY <1>1
    <2> QED BY <2>1, <2>2, <2>3, <2>4
  <1>8. u \o v = s \o t
    BY <1>6, <1>7, SeqEqual
  <1> QED BY <1>1, <1>2, <1>4, <1>8

LEMMA RxByteKeeps ==
  ASSUME HdlcInv, RxByte
  PROVE  HdlcInv'
  <1> DEFINE byte == Head(line)
  <1>1. /\ line # <<>> /\ line' = Tail(line) /\ UNCHANGED <<sending, intact>>
        /\ BeginFrame(byte) \/ EndFrame(byte) \/ InFrame(byte) \/ Ignored(byte)
    BY DEF RxByte
  <1>2. HdlcTypes
    BY DEF HdlcInv
  <1>3. /\ line' \in Seq(Bytes) /\ Len(line') = Len(line) - 1
        /\ byte = line[1] /\ line[1] \in Bytes
        /\ \A k \in 1 .. Len(line') : line'[k] = line[k + 1]
        /\ Len(Rest) = Len(line) - 1 /\ Rest \in Seq(Bytes)
        /\ \A k \in 1 .. Len(Rest) : Rest[k] = line[k]
        /\ Rest' = SubSeq(line, 2, Len(line) - 1)
    BY <1>1, <1>2, LineGoesOn DEF HdlcTypes
  <1> HIDE DEF byte
  <1>4. HdlcTypes'
    <2>1. buffer' \in Seq(Bytes)
      <3>1. buffer' = <<>> \/ buffer' = buffer \/ buffer' = Append(buffer, byte)
        BY <1>1 DEF BeginFrame, EndFrame, InFrame, Ignored
      <3>2. buffer \in Seq(Bytes) /\ byte \in Bytes
        BY <1>2, <1>3 DEF HdlcTypes
      <3>3. <<>> \in Seq(Bytes) /\ Append(buffer, byte) \in Seq(Bytes)
        BY <3>2
      <3> QED BY <3>1, <3>2, <3>3
    <2> QED BY <1>1, <1>2, <1>3, <2>1
            DEF HdlcTypes, BeginFrame, EndFrame, InFrame, Ignored
  <1>5. ASSUME intact' # 0
        PROVE  LastFlag' /\ BetweenInv' /\ OpeningInv' /\ RunningInv'
    <2>1. LastFlag /\ BetweenInv /\ OpeningInv /\ RunningInv /\ intact # 0
      BY <1>1, <1>5 DEF HdlcInv
    <2>n. Len(line) \in Nat /\ Len(line) # 0 /\ BufferSize \in Nat
      BY <1>1, <1>2, HdlcConstants DEF HdlcTypes, HdlcConstants
    <2>2. LastFlag'
      <3>1. SUFFICES ASSUME line' # <<>> PROVE line'[Len(line')] = "FLAG"
        BY DEF LastFlag
      <3>2. Len(line') \in 1 .. Len(line') /\ Len(line') + 1 = Len(line)
        BY <1>3, <2>n, <3>1
      <3> QED BY <1>1, <1>3, <2>1, <3>2 DEF LastFlag
    \* The first flag.
    <2>3. CASE Opening
      <3>1. /\ Len(line) >= 3 /\ Len(line) - 2 < BufferSize - 1
            /\ Carries(Rest', sending)
            /\ intact >= 2 =>
                 hdlc_state = "IDLE" \/ (hdlc_state = "RECEIVING" /\ buffer = <<>>)
            /\ intact = 3 => hdlc_state = "IDLE"
            /\ byte = "FLAG"
        BY <1>3, <2>1, <2>3 DEF OpeningInv, Opening
      <3>2. /\ Rest' \in Seq(Bytes) /\ Len(Rest') = Len(line) - 2
            /\ \A k \in 1 .. Len(Rest') : Rest'[k] # "FLAG"
            /\ Rest'[1] = line'[1] /\ Decode(Rest') = sending
        BY <1>3, <3>1 DEF Carries
      <3>3. ~Opening' /\ line' # <<>>
        BY <1>3, <2>n, <3>1, <3>2 DEF Opening
      <3>4. CASE BeginFrame(byte)
        <4>1. hdlc_state' = "RECEIVING" /\ buffer' = <<>>
          BY <3>4 DEF BeginFrame
        <4>2. buffer' \o Rest' = Rest' /\ Len(buffer') = 0
          BY <3>2, <4>1
        <4>3. RunningInv'
          BY <1>1, <2>n, <3>1, <3>2, <4>1, <4>2 DEF RunningInv
        <4> QED BY <2>2, <3>3, <4>3 DEF BetweenInv, OpeningInv
      <3>5. CASE EndFrame(byte)
        <4>1. hdlc_state' = "IDLE" /\ hdlc_state = "RECEIVING" /\ buffer # <<>>
          BY <3>5 DEF EndFrame
        <4>2. intact = 1
          BY <1>2, <2>1, <3>1, <4>1 DEF HdlcTypes
        <4>3. RunningInv'
          BY <1>1, <3>2, <4>1, <4>2 DEF RunningInv
        <4> QED BY <2>2, <3>3, <4>3 DEF BetweenInv, OpeningInv
      <3>6. CASE InFrame(byte)
        <4>1. hdlc_state = "RECEIVING" /\ buffer = <<>> /\ intact # 3
          BY <3>1, <3>6 DEF InFrame
        <4>2. hdlc_state' = "RECEIVING" /\ buffer' = Append(buffer, byte)
          BY <2>n, <3>1, <3>6, <4>1 DEF InFrame
        <4>3. Len(buffer') = 1
          BY <4>1, <4>2
        <4>4. RunningInv'
          BY <1>1, <2>n, <3>1, <3>2, <4>1, <4>2, <4>3 DEF RunningInv
        <4> QED BY <2>2, <3>3, <4>4 DEF BetweenInv, OpeningInv
      <3>7. ~Ignored(byte)
        BY <3>1 DEF Ignored
      <3> QED BY <1>1, <3>4, <3>5, <3>6, <3>7
    \* The last flag.
    <2>4. CASE ~Opening /\ Len(line) = 1
      <3>1. byte = "FLAG" /\ line' = <<>> /\ Rest = <<>> /\ Len(Rest) = 0
        BY <1>1, <1>3, <2>1, <2>4 DEF LastFlag
      <3>2. /\ \/ hdlc_state = "RECEIVING" /\ buffer # <<>>
               \/ hdlc_state = "IDLE" /\ intact = 1
            /\ intact = 3 => Decode(buffer) = sending
        <4>1. Len(buffer) = 0 => buffer = <<>>
          BY <1>2 DEF HdlcTypes
        <4>2. buffer \o Rest = buffer
          BY <1>2, <3>1 DEF HdlcTypes
        <4>3. buffer = <<>> => Len(buffer) + Len(Rest) = 0
          BY <3>1
        <4> QED BY <1>1, <2>1, <2>4, <2>n, <4>2, <4>3 DEF RunningInv
      <3>3. BetweenInv'
        <4>1. CASE hdlc_state = "RECEIVING" /\ buffer # <<>>
          <5>1. hdlc_state' = "IDLE" /\ decoded' = Decode(buffer)
            BY <1>1, <3>1, <4>1 DEF BeginFrame, EndFrame, InFrame, Ignored
          <5> QED BY <1>1, <3>2, <5>1 DEF BetweenInv
        <4>2. CASE hdlc_state = "IDLE" /\ intact = 1
          <5>1. hdlc_state' = "RECEIVING" /\ buffer' = <<>>
            BY <1>1, <3>1, <4>2 DEF BeginFrame, EndFrame, InFrame, Ignored
          <5> QED BY <1>1, <4>2, <5>1 DEF BetweenInv
        <4> QED BY <3>2, <4>1, <4>2
      <3> QED BY <2>2, <3>1, <3>3 DEF OpeningInv, RunningInv, Opening
    \* A byte in between.
    <2>5. CASE ~Opening /\ Len(line) # 1
      <3>1. Len(Rest) >= 1 /\ byte = Rest[1] /\ byte # "FLAG" /\ byte \in Bytes
        BY <1>1, <1>3, <2>1, <2>5, <2>n DEF RunningInv
      <3>2. Rest' = SubSeq(Rest, 2, Len(Rest)) /\ Len(Rest') = Len(Rest) - 1
        BY <1>2, <1>3, <2>n, <3>1 DEF Rest, HdlcTypes
      <3>3. \A k \in 1 .. Len(Rest') : Rest'[k] # "FLAG"
        <4>1. \A k \in 1 .. Len(Rest) : Rest[k] # "FLAG"
          BY <1>1, <2>1, <2>5 DEF RunningInv
        <4>2. ASSUME NEW k \in 1 .. Len(Rest') PROVE Rest'[k] # "FLAG"
          <5>1. PICK n \in Nat : n = Len(Rest) /\ n >= 1 /\ Len(Rest') = n - 1
            BY <1>3, <3>1, <3>2
          <5>2. k + 1 \in 1 .. n /\ SubSeq(Rest, 2, n)[k] = Rest[k + 1]
            BY <1>3, <5>1
          <5> QED BY <3>2, <4>1, <5>1, <5>2
        <4> QED BY <4>2
      <3>4. ~Opening' /\ line' # <<>>
        <4>1. Len(line') > 1 => Rest'[1] = line'[1] /\ Len(Rest') >= 1
          BY <1>3, <2>n, <3>1, <3>2
        <4>2. line' # <<>>
          BY <1>3, <2>n, <3>1
        <4> QED BY <3>3, <4>1, <4>2 DEF Opening
      <3>5. RunningInv'
        <4>1. CASE /\ hdlc_state = "RECEIVING"
                   /\ Len(buffer) + Len(Rest) \in 1 .. BufferSize - 1
          <5>1. Len(buffer) < BufferSize - 1 /\ Len(buffer) \in Nat
            BY <1>2, <2>n, <3>1, <4>1 DEF HdlcTypes
          <5>2. hdlc_state' = "RECEIVING" /\ buffer' = Append(buffer, byte)
            BY <1>1, <2>n, <3>1, <4>1, <5>1 DEF BeginFrame, EndFrame, InFrame,
               Ignored
          <5>3. buffer' \o Rest' = buffer \o Rest
            <6>1. buffer \in Seq(Bytes) /\ Rest \in Seq(Bytes) /\ Rest # <<>>
              BY <1>2, <1>3, <3>1 DEF HdlcTypes
            <6>2. Append(buffer, Rest[1]) \o SubSeq(Rest, 2, Len(Rest)) = buffer \o Rest
              BY <6>1, MoveByte
            <6> QED BY <3>1, <3>2, <5>2, <6>2
          <5>4. Len(buffer') = Len(buffer) + 1
            BY <1>2, <3>1, <5>2 DEF HdlcTypes
          <5>5. Len(buffer') + Len(Rest') = Len(buffer) + Len(Rest)
            <6>1. Len(Rest) \in Int
              BY <1>3
            <6>2. PICK a \in Int, b \in Int : a = Len(buffer) /\ b = Len(Rest)
              BY <5>1, <6>1
            <6>3. Len(buffer') = a + 1 /\ Len(Rest') = b - 1
              BY <3>2, <5>4, <6>2
            <6> QED BY <6>2, <6>3
          <5>6. intact = 3 => Decode(buffer \o Rest) = sending
            BY <1>1, <2>1, <2>5 DEF RunningInv
          <5> QED BY <1>1, <3>3, <4>1, <5>2, <5>3, <5>5, <5>6 DEF RunningInv
        <4>2. CASE hdlc_state = "IDLE" /\ intact = 1
          <5>1. hdlc_state' = "IDLE"
            BY <1>1, <3>1, <4>2 DEF BeginFrame, EndFrame, InFrame, Ignored
          <5> QED BY <1>1, <3>3, <4>2, <5>1 DEF RunningInv
        <4> QED BY <1>1, <2>1, <2>5, <4>1, <4>2 DEF RunningInv
      <3> QED BY <2>2, <3>4, <3>5 DEF BetweenInv, OpeningInv
    <2> QED BY <2>3, <2>4, <2>5
  <1> QED BY <1>4, <1>5 DEF HdlcInv

LEMMA HdlcInvStep == HdlcInv /\ [HdlcNext]_hdlc_vars => HdlcInv'
  <1> SUFFICES ASSUME HdlcInv, [HdlcNext]_hdlc_vars PROVE HdlcInv'
    OBVIOUS
  <1>1. CASE LoseByte
    <2>1. line' \in Seq(Bytes) /\ intact' = 0
      BY <1>1 DEF LoseByte, HdlcInv, HdlcTypes
    <2> QED BY <1>1, <2>1 DEF LoseByte, HdlcInv, HdlcTypes
  <1>2. CASE UNCHANGED hdlc_vars
    BY <1>2 DEF hdlc_vars, HdlcInv, HdlcTypes, LastFlag, BetweenInv, OpeningInv,
       RunningInv, Opening, Rest
  <1> QED BY <1>1, <1>2, SendKeeps, RxByteKeeps DEF HdlcNext

(***************************************************************************)
(* Whatever bytes are sent, and however many of them the line has lost, a  *)
(* frame that arrives whole after two others is decoded to its payload.    *)
(***************************************************************************)
THEOREM FramesArrive == HdlcSpec => []FramesGetThrough
  <1>1. HdlcInv => FramesGetThrough
    BY DEF HdlcInv, BetweenInv, FramesGetThrough
  <1> QED BY <1>1, HdlcInvInit, HdlcInvStep, PTL DEF HdlcSpec

=============================================================================
