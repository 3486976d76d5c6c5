------------------------------ MODULE PacketRings ------------------------------
(***************************************************************************)
(* sock-raw-mmap-packet-ip: a client that sends frames through a ring      *)
(* shared with the kernel (PACKET_TX_RING), and a server that takes frames *)
(* from one (PACKET_RX_RING).  A frame's tp_status says whether it belongs *)
(* to the kernel or to the program.  The kernel works through either ring  *)
(* in order; the client fills it in order, the server scans it from the    *)
(* start and hands all frames back whenever it finds nothing.              *)
(***************************************************************************)
EXTENDS Naturals, Sequences

CONSTANTS
  CONF_RING_FRAMES,  \* 2 in both programs; a power of two
  PrPackets,         \* bound: calls of process_tx() that fill a frame
  PrSendFaults,      \* bound: calls of send() that fail
  PrSignals          \* bound: signals that interrupt poll() other than SIGINT

ASSUME PrAssumption == CONF_RING_FRAMES \in Nat \ {0}

VARIABLES
  txRing,        \* frame -> [st, pkt], st is "available", "request" or "sending"
  ring_offset,   \* the client's next frame
  prTxHead,      \* the frame the kernel sends next
  prTx,          \* the client: "wait", "send", "between" or "ended"
  prSent,        \* the number of the last packet put into the ring
  keepalive,
  prWire,        \* packets the kernel has transmitted, in order
  prBudget,      \* [faults, signals] left
  rxRing,        \* frame -> [st, pkt], st is "kernel" or "user"
  prRxHead,      \* the frame the kernel fills next
  prRx,          \* the server: [pc, i], pc is "scan", "view" or "flush"
  needs_flush,
  prShown        \* the packets the server has shown, in order

prTxVars == <<txRing, ring_offset, prTxHead, prTx, prSent, keepalive, prWire, prBudget>>
prRxVars == <<rxRing, prRxHead, prRx, needs_flush, prShown>>
prVars == <<prTxVars, prRxVars>>

Frames == 0 .. CONF_RING_FRAMES - 1
Next_(i) == (i + 1) % CONF_RING_FRAMES

PrInit ==
  /\ txRing = [f \in Frames |-> [st |-> "available", pkt |-> 0]]
  /\ ring_offset = 0 /\ prTxHead = 0 /\ prTx = "wait" /\ prSent = 0 /\ keepalive = TRUE
  /\ prWire = <<>> /\ prBudget = [faults |-> PrSendFaults, signals |-> PrSignals]
  /\ rxRing = [f \in Frames |-> [st |-> "kernel", pkt |-> 0]]
  /\ prRxHead = 0 /\ prRx = [pc |-> "scan", i |-> 0] /\ needs_flush = FALSE /\ prShown = <<>>

-----------------------------------------------------------------------------
(* process_tx(): wait until the frame at ring_offset is free, then fill it *)
FillFrame ==
  /\ prTx = "wait" /\ txRing[ring_offset].st = "available" /\ prSent < PrPackets
  /\ txRing' = [txRing EXCEPT ![ring_offset] = [st |-> "request", pkt |-> prSent + 1]]
  /\ ring_offset' = Next_(ring_offset) /\ prSent' = prSent + 1 /\ prTx' = "send"
  /\ UNCHANGED <<prTxHead, keepalive, prWire, prBudget, prRxVars>>

(* A signal interrupts poll(): process_tx() returns and nothing was filled *)
PollInterrupted_Skips ==
  /\ prTx = "wait" /\ txRing[ring_offset].st # "available" /\ prBudget.signals > 0
  /\ prBudget' = [prBudget EXCEPT !.signals = @ - 1] /\ prTx' = "between"
  /\ ring_offset' = Next_(ring_offset)
  /\ UNCHANGED <<txRing, prTxHead, prSent, keepalive, prWire, prRxVars>>

PollInterrupted ==
  /\ prTx = "wait" /\ txRing[ring_offset].st # "available" /\ prBudget.signals > 0
  /\ prBudget' = [prBudget EXCEPT !.signals = @ - 1] /\ prTx' = "between"
  /\ UNCHANGED <<txRing, ring_offset, prTxHead, prSent, keepalive, prWire, prRxVars>>

(* send() has the kernel look at the ring, or fails and leaves the frame in it *)
SendFails ==
  /\ prTx = "send" /\ prBudget.faults > 0
  /\ prBudget' = [prBudget EXCEPT !.faults = @ - 1] /\ prTx' = "between"
  /\ UNCHANGED <<txRing, ring_offset, prTxHead, prSent, keepalive, prWire, prRxVars>>

(* The kernel sends every frame that is ready, from its own position on *)
PrTransmit ==
  /\ prTx = "send"
  /\ IF txRing[prTxHead].st = "request"
     THEN /\ prWire' = Append(prWire, txRing[prTxHead].pkt)
          /\ txRing' = [txRing EXCEPT ![prTxHead].st = "sending"] /\ prTxHead' = Next_(prTxHead)
          /\ UNCHANGED prTx
     ELSE prTx' = "between" /\ UNCHANGED <<prWire, txRing, prTxHead>>
  /\ UNCHANGED <<ring_offset, prSent, keepalive, prBudget, prRxVars>>

(* The device is done with the frame *)
TxComplete ==
  /\ \E f \in Frames : /\ txRing[f].st = "sending"
                        /\ txRing' = [txRing EXCEPT ![f].st = "available"]
  /\ UNCHANGED <<ring_offset, prTxHead, prTx, prSent, keepalive, prWire, prBudget, prRxVars>>

(* The loop of do_req() *)
do_req ==
  /\ prTx = "between" /\ prTx' = IF keepalive THEN "wait" ELSE "ended"
  /\ UNCHANGED <<txRing, ring_offset, prTxHead, prSent, keepalive, prWire, prBudget, prRxVars>>

stop_function ==
  /\ keepalive /\ keepalive' = FALSE
  /\ prTx' = IF prTx = "wait" /\ txRing[ring_offset].st # "available" THEN "between" ELSE prTx
  /\ UNCHANGED <<txRing, ring_offset, prTxHead, prSent, prWire, prBudget, prRxVars>>

-----------------------------------------------------------------------------
(* A packet reaches the server's host; without a free frame it is dropped, as on the wire *)
Arrive ==
  /\ prWire # <<>> /\ prWire' = Tail(prWire)
  /\ \/ /\ rxRing[prRxHead].st = "kernel"
        /\ rxRing' = [rxRing EXCEPT ![prRxHead] = [st |-> "user", pkt |-> Head(prWire)]]
        /\ prRxHead' = Next_(prRxHead)
     \/ UNCHANGED <<rxRing, prRxHead>>
  /\ UNCHANGED <<txRing, ring_offset, prTxHead, prTx, prSent, keepalive, prBudget, prRx, needs_flush, prShown>>

(* process_rx(): the first frame that belongs to the program *)
process_rx ==
  /\ prRx.pc = "scan"
  /\ prRx' = CASE prRx.i = CONF_RING_FRAMES -> [pc |-> IF needs_flush THEN "flush" ELSE "scan", i |-> 0]
               [] prRx.i < CONF_RING_FRAMES /\ rxRing[prRx.i].st = "user" -> [prRx EXCEPT !.pc = "view"]
               [] OTHER -> [prRx EXCEPT !.i = @ + 1]
  /\ UNCHANGED <<rxRing, prRxHead, needs_flush, prShown, prTxVars>>

(* view_ip_packet(), then the frame goes back to the kernel *)
process_rx_release_Next ==
  /\ prRx.pc = "view"
  /\ prShown' = Append(prShown, rxRing[prRx.i].pkt)
  /\ rxRing' = [rxRing EXCEPT ![Next_(prRx.i)].st = "kernel"]
  /\ prRx' = [pc |-> "scan", i |-> 0] /\ needs_flush' = TRUE
  /\ UNCHANGED <<prRxHead, prTxVars>>

process_rx_release ==
  /\ prRx.pc = "view"
  /\ prShown' = Append(prShown, rxRing[prRx.i].pkt)
  /\ rxRing' = [rxRing EXCEPT ![prRx.i].st = "kernel"]
  /\ prRx' = [pc |-> "scan", i |-> 0] /\ needs_flush' = TRUE
  /\ UNCHANGED <<prRxHead, prTxVars>>

(* Frame by frame; what the kernel has filled in the meantime is lost *)
rx_flush ==
  /\ prRx.pc = "flush"
  /\ rxRing' = [rxRing EXCEPT ![prRx.i].st = "kernel"]
  /\ prRx' = IF prRx.i + 1 = CONF_RING_FRAMES THEN [pc |-> "scan", i |-> 0] ELSE [prRx EXCEPT !.i = @ + 1]
  /\ UNCHANGED <<prRxHead, needs_flush, prShown, prTxVars>>

PrClient == FillFrame \/ PrTransmit \/ do_req
PrServer == process_rx \/ process_rx_release \/ rx_flush

PrNext == PrClient \/ PollInterrupted \/ SendFails \/ TxComplete \/ stop_function \/ Arrive \/ PrServer

PrFairness == WF_prVars(PrClient) /\ WF_prVars(TxComplete) /\ WF_prVars(PrServer)
PrSpec == PrInit /\ [][PrNext]_prVars /\ PrFairness

-----------------------------------------------------------------------------
(***************************************************************************)
(* The server shows no packet twice, although it scans from the start each *)
(* time, in whatever order frames are filled, taken and flushed.           *)
(***************************************************************************)
PrShownOnce == \A i, k \in 1 .. Len(prShown) : i # k => prShown[i] # prShown[k]

(***************************************************************************)
(* The client never overwrites a frame that the kernel still has to send:  *)
(* a frame it has asked to be sent keeps its packet until it is available. *)
(***************************************************************************)
PrNoOverwrite ==
  [][\A f \in Frames : txRing[f].st # "available" => txRing'[f].pkt = txRing[f].pkt]_prVars

(***************************************************************************)
(* As long as fewer sends fail than the ring has frames, each packet that  *)
(* was put into the ring is transmitted, or the user ends the client, or   *)
(* it was the last one: interrupted and failed calls do not put the client *)
(* and the kernel out of step.                                             *)
(***************************************************************************)
PrTransmitted ==
  \A f \in Frames :
    (txRing[f].st = "request" /\ prSent < PrPackets) ~> (txRing[f].st = "available" \/ prTx = "ended")

(* The client's half of the ring contract: no frame changes under the kernel, and all
   that was put into the ring leaves it. *)
PrSentIntact == PrNoOverwrite /\ PrTransmitted
==============================================================================
