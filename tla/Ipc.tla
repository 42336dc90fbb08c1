-------------------------------- MODULE Ipc --------------------------------
(***************************************************************************)
(* Calls from the application core of an nRF5340 to its network core       *)
(* (db_ipc_network_call), which runs the TDMA and radio drivers, and the   *)
(* packets the network core hands back (IPC_IRQHandler of                  *)
(* tdma_client_nrf5340_app.c and its twins for the server and the radio).  *)
(* The two cores share ipc_shared_data, a word at a time, and a hardware   *)
(* mutex; each signals the other with an event that is a flag, not a       *)
(* counter.                                                                *)
(*                                                                         *)
(* The firmware of the network core is not in the repository: its actions  *)
(* do what the application core relies on - take a request on its event,   *)
(* fulfil it, raise net_ack, delete the request - and store packets under  *)
(* the mutex.  Its radio interrupts its main loop, as IPC_IRQHandler       *)
(* interrupts the main loop of the application; no callback in the         *)
(* repository calls a driver.                                              *)
(***************************************************************************)
EXTENDS Integers

CONSTANT IpcPackets   \* how many packets in a row can be told apart

ASSUME IpcAssumption == IpcPackets \in Nat /\ IpcPackets > 1

VARIABLES
  req, net_ack, rx_pdu,  \* of ipc_shared_data
  mutex,                 \* who holds it: "nobody", "app" or "net"
  req_event, rx_event,   \* DB_IPC_CHAN_REQ and DB_IPC_CHAN_RADIO_RX
  main_pc,               \* of the call in the main loop, or "idle"
  net_pc,                \* of the network core's main loop
  irq_pc,                \* of IPC_IRQHandler and of the network core's radio
                         \*   interrupt: irq_pc["app"] and irq_pc["net"]
  copied,                \* what the callback has read of rx_pdu
  newest,                \* the last packet the network core received
  \* history
  fulfilled,             \* was the request of the running call fulfilled?
  resent                 \* was one sent again that had been fulfilled?

request_vars == <<req, net_ack, req_event, main_pc, net_pc, fulfilled, resent>>
packet_vars == <<rx_pdu, mutex, rx_event, irq_pc, copied, newest>>
ipc_vars == <<request_vars, packet_vars>>

NoPdu == [length |-> 0, buffer |-> 0]

IpcInit ==
  /\ req = "NONE" /\ net_ack = FALSE /\ req_event = FALSE
  /\ main_pc = "idle" /\ net_pc = "idle"
  /\ fulfilled = FALSE /\ resent = FALSE
  /\ rx_pdu = NoPdu /\ copied = NoPdu /\ newest = 0
  /\ mutex = "nobody" /\ rx_event = FALSE
  /\ irq_pc = [core \in {"app", "net"} |-> "idle"]

-----------------------------------------------------------------------------
(* db_ipc_network_call, in the main loop: between two of its accesses the  *)
(* interrupt and the other core may do anything.                           *)

MainGoto(from, to) ==
  /\ irq_pc["app"] = "idle"
  /\ main_pc = from /\ main_pc' = to
  /\ UNCHANGED <<net_pc, packet_vars>>

\* The arguments are written first; whoever serves the request reads them.
Call ==
  /\ MainGoto("idle", "request")
  /\ fulfilled' = FALSE
  /\ UNCHANGED <<req, net_ack, req_event, resent>>

PutRequest ==
  /\ MainGoto("request", "signal")
  /\ req' = "REQUEST"
  /\ resent' = (resent \/ fulfilled)
  /\ UNCHANGED <<net_ack, req_event, fulfilled>>

Signal ==
  /\ MainGoto("signal", "poll")
  /\ req_event' = TRUE
  /\ UNCHANGED <<req, net_ack, fulfilled, resent>>

PollAck ==
  /\ MainGoto("poll", IF net_ack THEN "return" ELSE "test")
  /\ UNCHANGED <<req, net_ack, req_event, fulfilled, resent>>

MutantTestRequest ==
  /\ MainGoto("test", "poll")
  /\ UNCHANGED <<req, net_ack, req_event, fulfilled, resent>>

\* "Something went wrong": the request is gone and there was no net_ack.
TestRequest ==
  /\ MainGoto("test", IF req = "NONE" THEN "request" ELSE "poll")
  /\ UNCHANGED <<req, net_ack, req_event, fulfilled, resent>>

MutantReturn ==
  /\ MainGoto("return", "idle")
  /\ UNCHANGED <<req, net_ack, req_event, fulfilled, resent>>

Return ==
  /\ MainGoto("return", "idle")
  /\ net_ack' = FALSE
  /\ UNCHANGED <<req, req_event, fulfilled, resent>>

\* A call under way, up to its return.
Proceed == PutRequest \/ Signal \/ PollAck \/ TestRequest \/ Return

-----------------------------------------------------------------------------
(* The network core's main loop. *)

NetGoto(from, to) ==
  /\ irq_pc["net"] = "idle"
  /\ net_pc = from /\ net_pc' = to
  /\ UNCHANGED <<main_pc, resent, packet_vars>>

NetTake ==
  /\ req_event /\ req_event' = FALSE
  /\ NetGoto("idle", IF req = "NONE" THEN "idle" ELSE "ack")
  /\ fulfilled' = (fulfilled \/ req # "NONE")
  /\ UNCHANGED <<req, net_ack>>

NetAck ==
  /\ NetGoto("ack", "delete")
  /\ net_ack' = TRUE
  /\ UNCHANGED <<req, req_event, fulfilled>>

NetDelete ==
  /\ NetGoto("delete", "idle")
  /\ req' = "NONE"
  /\ UNCHANGED <<net_ack, req_event, fulfilled>>

NetMain == NetTake \/ NetAck \/ NetDelete

-----------------------------------------------------------------------------
(* Packets, from the network core's radio interrupt to the callback that   *)
(* IPC_IRQHandler gives rx_pdu to.  Both copy under the mutex, and a copy  *)
(* is not atomic.                                                          *)

IrqGoto(core, from, to) ==
  /\ irq_pc[core] = from /\ irq_pc' = [irq_pc EXCEPT ![core] = to]
  /\ UNCHANGED request_vars

NetReceive ==
  /\ IrqGoto("net", "idle", "lock")
  /\ newest' = (newest + 1) % IpcPackets
  /\ UNCHANGED <<rx_pdu, mutex, rx_event, copied>>

TakeInterrupt ==
  /\ IrqGoto("app", "idle", "lock")
  /\ rx_event /\ rx_event' = FALSE
  /\ UNCHANGED <<rx_pdu, mutex, copied, newest>>

MutantMutexLock(core) ==
  /\ IrqGoto(core, "lock", "length")
  /\ mutex' = core
  /\ UNCHANGED <<rx_pdu, rx_event, copied, newest>>

MutexLock(core) ==
  /\ IrqGoto(core, "lock", "length")
  /\ mutex = "nobody" /\ mutex' = core
  /\ UNCHANGED <<rx_pdu, rx_event, copied, newest>>

\* The network core stores its newest packet, the application reads it.
CopyField(core, field) ==
  /\ IF core = "net"
     THEN rx_pdu' = [rx_pdu EXCEPT ![field] = newest] /\ UNCHANGED copied
     ELSE copied' = [copied EXCEPT ![field] = rx_pdu[field]] /\ UNCHANGED rx_pdu
  /\ UNCHANGED <<mutex, rx_event, newest>>

CopyLength(core) ==
  IrqGoto(core, "length", "buffer") /\ CopyField(core, "length")

CopyBuffer(core) ==
  IrqGoto(core, "buffer", "unlock") /\ CopyField(core, "buffer")

MutexUnlock(core) ==
  /\ IrqGoto(core, "unlock", IF core = "net" THEN "announce" ELSE "idle")
  /\ mutex' = "nobody"
  /\ UNCHANGED <<rx_pdu, rx_event, copied, newest>>

Announce ==
  /\ IrqGoto("net", "announce", "idle")
  /\ rx_event' = TRUE
  /\ UNCHANGED <<rx_pdu, mutex, copied, newest>>

MutantClearAfter(core) ==
  \/ MutexLock(core) \/ CopyLength(core) \/ CopyBuffer(core)
  \/ core = "net" /\ MutexUnlock(core)
  \/ /\ IrqGoto("app", "unlock", "clear") /\ mutex' = "nobody"
     /\ UNCHANGED <<rx_pdu, rx_event, copied, newest>>
  \/ /\ IrqGoto("app", "clear", "idle") /\ rx_event' = FALSE
     /\ UNCHANGED <<rx_pdu, mutex, copied, newest>>

CopyPacket(core) ==
  MutexLock(core) \/ CopyLength(core) \/ CopyBuffer(core) \/ MutexUnlock(core)

IpcNext ==
  \/ Call \/ Proceed \/ NetMain
  \/ NetReceive \/ TakeInterrupt \/ Announce
  \/ \E core \in {"app", "net"} : CopyPacket(core)

IpcSpec == IpcInit /\ [][IpcNext]_ipc_vars

\* Packets do not come so fast that a core does nothing but take them.
IpcFairness ==
  /\ SF_ipc_vars(Proceed) /\ SF_ipc_vars(NetMain)
  /\ WF_ipc_vars(TakeInterrupt) /\ WF_ipc_vars(Announce)
  /\ SF_ipc_vars(CopyPacket("app")) /\ SF_ipc_vars(CopyPacket("net"))

-----------------------------------------------------------------------------
(* Properties. *)

Pdu == [length : 0 .. IpcPackets - 1, buffer : 0 .. IpcPackets - 1]
Copying == {"length", "buffer", "unlock"}

\* Every variable has its type, and the mutex is held by who is in the
\* section it protects.
IpcTypeOK ==
  /\ req \in {"NONE", "REQUEST"} /\ net_ack \in BOOLEAN /\ req_event \in BOOLEAN
  /\ main_pc \in {"idle", "request", "signal", "poll", "test", "return"}
  /\ net_pc \in {"idle", "ack", "delete"}
  /\ fulfilled \in BOOLEAN /\ resent \in BOOLEAN
  /\ rx_pdu \in Pdu /\ copied \in Pdu /\ newest \in 0 .. IpcPackets - 1
  /\ mutex \in {"nobody", "app", "net"} /\ rx_event \in BOOLEAN
  /\ irq_pc \in [{"app", "net"} -> Copying \cup {"idle", "lock", "announce"}]
  /\ \A core \in {"app", "net"} : mutex = core <=> irq_pc[core] \in Copying

(***************************************************************************)
(* The callback never sees half of one packet and half of another          *)
(* (mutex_lock and mutex_unlock around it): the length it is given belongs *)
(* to the bytes it reads.                                                  *)
(***************************************************************************)
CallbackReadsWhole == irq_pc["app"] = "unlock" => copied.length = copied.buffer

(***************************************************************************)
(* The handler clears its event before it reads: a packet stored in the    *)
(* meantime is announced again, and the last packet of any burst reaches   *)
(* the callback, although the event does not count.                        *)
(***************************************************************************)
NewestReachesCallback ==
  copied.buffer # newest =>
    \/ rx_event \/ irq_pc["net"] # "idle"
    \/ irq_pc["app"] \in {"lock", "length", "buffer"}

(***************************************************************************)
(* net_ack: "Network core acked the latest request" (ipc.h:108), and the   *)
(* caller goes on to read the answer.  One thing defeats it: net_ack and   *)
(* req are read one after the other, so that a request just fulfilled      *)
(* looks deleted, is sent again, and its second net_ack is left for a      *)
(* later call to find.                                                     *)
(***************************************************************************)
ReturnsFulfilled == main_pc = "return" => fulfilled \/ resent

(***************************************************************************)
(* The comment as it stands: the net_ack a call finds (nRF5340_xxAA_       *)
(* Application_cpu.c:86) acknowledges the latest request, not an older one.*)
(***************************************************************************)
AckIsOfLatest == main_pc = "return" => fulfilled

(***************************************************************************)
(* db_ipc_network_call always returns, whichever access of the two cores   *)
(* comes first: a request that vanished is sent again, and a handler that  *)
(* waits for the mutex is not waited for.                                  *)
(***************************************************************************)
CallsReturn == main_pc # "idle" ~> main_pc = "idle"

=============================================================================
