------------------------------- MODULE DummyEth -------------------------------
(***************************************************************************)
(* The dummy Ethernet driver (keth-if/kernel/core.c) in NAPI mode: two     *)
(* devices, each the far end of the other's wire.                          *)
(*                                                                         *)
(* Three kinds of code run, each on a CPU until it is done: dummeth_xmit of *)
(* a device, its NAPI poll, and its transmit watchdog.  A section under     *)
(* priv->lock is one step; what is read and written outside the lock (the   *)
(* status word, rx_int_enabled, the queue state, pkt->next) is a step of    *)
(* its own.  With one CPU the three never interleave, with two they do.     *)
(*                                                                         *)
(* Packets are nodes of singly linked lists.  Headers, checksums and the    *)
(* copying of data are left out, and so is the regular interrupt handler.   *)
(***************************************************************************)
EXTENDS Integers, FiniteSets

CONSTANTS
  PoolSize,      \* pool_size
  Budget,        \* the weight given to netif_napi_add_weight
  Lockup,        \* lockup, 0 for never
  NCpus,
  Senders,       \* the devices the network stack sends on
  MaxTimeouts,   \* bound on the calls of dummeth_tx_timeout
  NULL

ASSUME DummyEthAssumption ==
  /\ {PoolSize, Budget, NCpus} \subseteq Nat \ {0}
  /\ {Lockup, MaxTimeouts} \subseteq Nat
  /\ Senders \subseteq {0, 1}

Devs == {0, 1}
twin(d) == 1 - d

\* A packet is a piece of memory with a fixed pkt->dev.  Freed memory is used again.
Packets == Devs \X (1 .. (PoolSize * (MaxTimeouts + 1)))
Contexts == {"xmit", "poll", "timeout"} \X Devs

ASSUME NullAssumption == NULL \notin Devs \cup Packets

VARIABLES
  ppool, rx_queue,    \* the heads of the two lists of each device
  next,               \* pkt->next
  allocated,          \* the packets that are not freed
  status,             \* priv->status, a set of interrupt bits
  rx_int_enabled,
  skb,                \* priv->skb is set
  tx_packets,         \* stats.tx_packets, modulo Lockup
  leaked,             \* priv->lock was never released
  up,                 \* the interface is up
  stopped,            \* the transmit queue is stopped
  napi,               \* the state of priv->napi
  pc,                 \* where each context is
  pkt,                \* its packet
  load,               \* the status word it read
  n,                  \* npackets of a poll
  under,              \* the poll whose netif_receive_skb called this dummeth_xmit
  timeouts            \* calls of dummeth_tx_timeout so far

lists == <<ppool, rx_queue, next, allocated>>
irq == <<status, rx_int_enabled, skb, tx_packets, napi>>
local == <<pc, pkt, load, n, under>>
vars == <<lists, irq, leaked, up, stopped, local, timeouts>>

goto(c, where) ==
  /\ pc' = [pc EXCEPT ![c] = where]
  /\ under' = [under EXCEPT ![c[2]] = IF c[1] = "xmit" /\ where = "idle" THEN NULL ELSE @]

\* The contexts that have a CPU of their own.
Running == {c \in Contexts : pc[c] # "idle" /\ ~(c[1] = "xmit" /\ under[c[2]] # NULL)}

\* The members of a list.
Chain(head) ==
  LET from[k \in 0 .. Cardinality(Packets)] ==
        [p \in Packets \cup {NULL} |->
           IF p = NULL \/ k = 0 THEN {} ELSE {p} \cup from[k - 1][next[p]]]
  IN  from[Cardinality(Packets)][head]

TypeOK ==
  /\ ppool \in [Devs -> Packets \cup {NULL}]
  /\ rx_queue \in [Devs -> Packets \cup {NULL}]
  /\ next \in [Packets -> Packets \cup {NULL}]
  /\ allocated \subseteq Packets
  /\ status \in [Devs -> SUBSET {"RX_INTR", "TX_INTR"}]
  /\ napi \in [Devs -> {"off", "idle", "sched", "missed"}]
  /\ n \in [Devs -> 0 .. Budget]
  /\ Cardinality(Running) <= NCpus

\* The packets kmalloc returns to dummeth_setup_pool, linked one to the next.
FirstFree(d, used) ==
  LET ids == {i \in 1 .. (PoolSize * (MaxTimeouts + 1)) : <<d, i>> \notin used}
  IN  {<<d, i>> : i \in {j \in ids : Cardinality({k \in ids : k <= j}) <= PoolSize}}
Below(p, S) ==
  LET lower == {q \in S : q[2] < p[2]}
  IN  IF lower = {} THEN NULL ELSE CHOOSE q \in lower : \A r \in lower : r[2] <= q[2]
Top(S) == CHOOSE p \in S : \A q \in S : q[2] <= p[2]

\* dummeth_init_module and dummeth_setup; isUp says whether dummeth_open was called too.
InitWith(isUp) ==
  /\ LET pool == [d \in Devs |-> FirstFree(d, {})]
     IN  /\ allocated = pool[0] \cup pool[1]
         /\ ppool = [d \in Devs |-> Top(pool[d])]
         /\ next = [p \in Packets |->
                      IF p \in pool[p[1]] THEN Below(p, pool[p[1]]) ELSE NULL]
  /\ rx_queue = [d \in Devs |-> NULL]
  /\ status = [d \in Devs |-> {}]
  /\ rx_int_enabled = [d \in Devs |-> TRUE]
  /\ skb = [d \in Devs |-> FALSE]
  /\ tx_packets = [d \in Devs |-> 0]
  /\ leaked = [d \in Devs |-> FALSE]
  /\ up = [d \in Devs |-> isUp]
  /\ stopped = [d \in Devs |-> ~isUp]
  /\ napi = [d \in Devs |-> IF isUp THEN "idle" ELSE "off"]
  /\ pc = [c \in Contexts |-> "idle"]
  /\ pkt = [c \in Contexts |-> NULL]
  /\ load = [c \in Contexts |-> {}]
  /\ n = [d \in Devs |-> 0]
  /\ under = [d \in Devs |-> NULL]
  /\ timeouts = 0

------------------------------------------------------------------------------
\* dummeth_open: napi_enable, netif_start_queue.
dummeth_open(d) ==
  /\ ~up[d] /\ napi[d] = "off"
  /\ up' = [up EXCEPT ![d] = TRUE]
  /\ napi' = [napi EXCEPT ![d] = "idle"]
  /\ stopped' = [stopped EXCEPT ![d] = FALSE]
  /\ UNCHANGED <<lists, status, rx_int_enabled, skb, tx_packets, leaked, local, timeouts>>

\* The network stack waits for dummeth_xmit and the watchdog before it calls
\* dummeth_stop, and napi_disable waits for the poll.
dummeth_stop(d) ==
  /\ up[d] /\ napi[d] = "idle"
  /\ pc[<<"xmit", d>>] = "idle" /\ pc[<<"timeout", d>>] = "idle"
  /\ up' = [up EXCEPT ![d] = FALSE]
  /\ napi' = [napi EXCEPT ![d] = "off"]
  /\ stopped' = [stopped EXCEPT ![d] = TRUE]
  /\ UNCHANGED <<lists, status, rx_int_enabled, skb, tx_packets, leaked, local, timeouts>>

\* napi_schedule: a poll that is running is told that it missed something; a
\* disabled one is not scheduled.
napi_schedule(d) ==
  napi' = [napi EXCEPT ![d] =
             IF @ = "idle" THEN "sched" ELSE IF @ = "sched" THEN "missed" ELSE @]

\* Mutant: the interrupts are turned off and no poll is scheduled.
dummeth_napi_interrupt_NoSchedule(d) ==
  /\ ~leaked[d]
  /\ status' = [status EXCEPT ![d] = {}]
  /\ IF "RX_INTR" \in status[d]
     THEN rx_int_enabled' = [rx_int_enabled EXCEPT ![d] = FALSE] /\ UNCHANGED napi
     ELSE UNCHANGED <<rx_int_enabled, napi>>
  /\ IF "TX_INTR" \in status[d]
     THEN /\ tx_packets' = [tx_packets EXCEPT ![d] =
                              IF Lockup = 0 THEN 0 ELSE (@ + 1) % Lockup]
          /\ skb' = [skb EXCEPT ![d] = FALSE]
     ELSE UNCHANGED <<tx_packets, skb>>

\* Under priv->lock; the status word was set by the caller.
dummeth_napi_interrupt(d) ==
  /\ ~leaked[d]
  /\ status' = [status EXCEPT ![d] = {}]
  /\ IF "RX_INTR" \in status[d]
     THEN rx_int_enabled' = [rx_int_enabled EXCEPT ![d] = FALSE] /\ napi_schedule(d)
     ELSE UNCHANGED <<rx_int_enabled, napi>>
  /\ IF "TX_INTR" \in status[d]
     THEN /\ tx_packets' = [tx_packets EXCEPT ![d] =
                              IF Lockup = 0 THEN 0 ELSE (@ + 1) % Lockup]
          /\ skb' = [skb EXCEPT ![d] = FALSE]
     ELSE UNCHANGED <<tx_packets, skb>>

------------------------------------------------------------------------------
\* dummeth_xmit: called by the stack while the queue runs, never twice at a time.
\* The stack may answer a packet while a poll hands it over.
dummeth_xmit(d) ==
  LET c == <<"xmit", d>>
  IN  /\ pc[c] = "idle" /\ pc[<<"timeout", d>>] = "idle"
      /\ d \in Senders /\ up[d] /\ ~stopped[d]
      /\ \E p \in Devs \cup {NULL} :
           /\ IF p = NULL THEN Cardinality(Running) < NCpus
                          ELSE pc[<<"poll", p>>] = "release" /\ p # under[twin(d)]
           /\ under' = [under EXCEPT ![d] = p]
      /\ skb' = [skb EXCEPT ![d] = TRUE]
      /\ pc' = [pc EXCEPT ![c] = "get"]
      /\ UNCHANGED <<lists, status, rx_int_enabled, tx_packets, napi, leaked, up, stopped,
                     pkt, load, n, timeouts>>

\* Mutant: the queue keeps running when the last packet is taken.
dummeth_get_tx_buffer_NoStop(d) ==
  LET c == <<"xmit", d>>
  IN  /\ pc[c] = "get" /\ ~leaked[d]
      /\ \/ /\ ppool[d] = NULL
            /\ leaked' = [leaked EXCEPT ![d] = TRUE]
            /\ goto(c, "idle")
            /\ UNCHANGED <<ppool, pkt>>
         \/ /\ ppool[d] # NULL
            /\ pkt' = [pkt EXCEPT ![c] = ppool[d]]
            /\ ppool' = [ppool EXCEPT ![d] = next[ppool[d]]]
            /\ goto(c, "enqueue")
            /\ UNCHANGED leaked
      /\ UNCHANGED <<stopped, rx_queue, next, allocated, irq, up, load, n, timeouts>>

\* Without a packet the function returns with the lock held, and dummeth_hw_tx
\* returns too.
dummeth_get_tx_buffer(d) ==
  LET c == <<"xmit", d>>
  IN  /\ pc[c] = "get" /\ ~leaked[d]
      /\ \/ /\ ppool[d] = NULL
            /\ leaked' = [leaked EXCEPT ![d] = TRUE]
            /\ goto(c, "idle")
            /\ UNCHANGED <<ppool, pkt, stopped>>
         \/ /\ ppool[d] # NULL
            /\ pkt' = [pkt EXCEPT ![c] = ppool[d]]
            /\ ppool' = [ppool EXCEPT ![d] = next[ppool[d]]]
            /\ stopped' = [stopped EXCEPT ![d] = @ \/ next[ppool[d]] = NULL]
            /\ goto(c, "enqueue")
            /\ UNCHANGED leaked
      /\ UNCHANGED <<rx_queue, next, allocated, irq, up, load, n, timeouts>>

dummeth_enqueue_buf(d) ==
  LET c == <<"xmit", d>>
      dest == twin(d)
  IN  /\ pc[c] = "enqueue" /\ ~leaked[dest]
      /\ next' = [next EXCEPT ![pkt[c]] = rx_queue[dest]]
      /\ rx_queue' = [rx_queue EXCEPT ![dest] = pkt[c]]
      /\ pkt' = [pkt EXCEPT ![c] = NULL]
      /\ goto(c, "rx")
      /\ UNCHANGED <<ppool, allocated, irq, leaked, up, stopped, load, n, timeouts>>

\* priv->status |= bit, a read and a write without the lock.
ReadStatus(c, d, here, there) ==
  /\ pc[c] = here
  /\ load' = [load EXCEPT ![c] = status[d]]
  /\ goto(c, there)
  /\ UNCHANGED <<lists, irq, leaked, up, stopped, pkt, n, timeouts>>

WriteStatus(c, d, bit, here, there) ==
  /\ pc[c] = here
  /\ status' = [status EXCEPT ![d] = load[c] \cup {bit}]
  /\ load' = [load EXCEPT ![c] = {}]
  /\ goto(c, there)
  /\ UNCHANGED <<lists, rx_int_enabled, skb, tx_packets, napi, leaked, up, stopped, pkt, n,
                 timeouts>>

Interrupt(c, d, here, there) ==
  /\ pc[c] = here
  /\ dummeth_napi_interrupt(d)
  /\ goto(c, there)
  /\ UNCHANGED <<lists, leaked, up, stopped, pkt, load, n, timeouts>>

\* if (priv->rx_int_enabled)
TestRxInt(d) ==
  LET c == <<"xmit", d>>
  IN  /\ pc[c] = "rx"
      /\ goto(c, IF rx_int_enabled[twin(d)] THEN "rx_read" ELSE "tx_read")
      /\ UNCHANGED <<lists, irq, leaked, up, stopped, pkt, load, n, timeouts>>

\* With lockup set, every Lockup-th transmit interrupt is not raised.
TestLockup(d) ==
  LET c == <<"xmit", d>>
      dropped == Lockup # 0 /\ (tx_packets[d] + 1) % Lockup = 0
  IN  /\ pc[c] = "lockup"
      /\ stopped' = [stopped EXCEPT ![d] = @ \/ dropped]
      /\ goto(c, IF dropped THEN "idle" ELSE "tx_irq")
      /\ UNCHANGED <<lists, irq, leaked, up, pkt, load, n, timeouts>>

dummeth_hw_tx(d) ==
  LET c == <<"xmit", d>>
  IN  \/ dummeth_get_tx_buffer(d)
      \/ dummeth_enqueue_buf(d)
      \/ TestRxInt(d)
      \/ ReadStatus(c, twin(d), "rx_read", "rx_write")
      \/ WriteStatus(c, twin(d), "RX_INTR", "rx_write", "rx_irq")
      \/ Interrupt(c, twin(d), "rx_irq", "tx_read")
      \/ ReadStatus(c, d, "tx_read", "tx_write")
      \/ WriteStatus(c, d, "TX_INTR", "tx_write", "lockup")
      \/ TestLockup(d)
      \/ Interrupt(c, d, "tx_irq", "idle")

------------------------------------------------------------------------------
PollStart(d) ==
  LET c == <<"poll", d>>
  IN  /\ pc[c] = "idle" /\ napi[d] \in {"sched", "missed"} /\ Cardinality(Running) < NCpus
      /\ goto(c, "loop")
      /\ UNCHANGED <<lists, irq, leaked, up, stopped, pkt, load, n, timeouts>>

PollLoop(d) ==
  LET c == <<"poll", d>>
  IN  /\ pc[c] = "loop"
      /\ \/ /\ n[d] < Budget /\ rx_queue[d] # NULL
            /\ goto(c, "dequeue")
            /\ UNCHANGED n
         \/ /\ n[d] < Budget /\ rx_queue[d] = NULL
            /\ goto(c, "complete")
            /\ UNCHANGED n
         \/ /\ n[d] = Budget
            /\ goto(c, "idle")
            /\ n' = [n EXCEPT ![d] = 0]
      /\ UNCHANGED <<lists, irq, leaked, up, stopped, pkt, load, timeouts>>

\* The packet is copied to the stack, or dropped for want of memory, and then
\* released to the device it came from.
dummeth_dequeue_buf(d) ==
  LET c == <<"poll", d>>
  IN  /\ pc[c] = "dequeue" /\ ~leaked[d]
      /\ pkt' = [pkt EXCEPT ![c] = rx_queue[d]]
      /\ rx_queue' = [rx_queue EXCEPT ![d] = next[rx_queue[d]]]
      /\ n' = [n EXCEPT ![d] = @ + 1]
      /\ goto(c, "release")
      /\ UNCHANGED <<ppool, next, allocated, irq, leaked, up, stopped, load, timeouts>>

dummeth_release_buffer(d) ==
  LET c == <<"poll", d>>
      owner == pkt[c][1]
  IN  /\ pc[c] = "release" /\ ~leaked[owner] /\ \A e \in Devs : under[e] # d
      /\ next' = [next EXCEPT ![pkt[c]] = ppool[owner]]
      /\ ppool' = [ppool EXCEPT ![owner] = pkt[c]]
      /\ goto(c, "test")
      /\ UNCHANGED <<rx_queue, allocated, irq, leaked, up, stopped, pkt, load, n, timeouts>>

\* Mutant: the queue is left stopped.
TestQueue_NoWake(d) ==
  LET c == <<"poll", d>>
  IN  /\ pc[c] = "test"
      /\ goto(c, "loop")
      /\ pkt' = [pkt EXCEPT ![c] = NULL]
      /\ UNCHANGED <<lists, irq, leaked, up, stopped, load, n, timeouts>>

\* The rest of dummeth_release_buffer, after the unlock.
TestQueue(d) ==
  LET c == <<"poll", d>>
      wake == stopped[pkt[c][1]] /\ next[pkt[c]] = NULL
  IN  /\ pc[c] = "test"
      /\ goto(c, IF wake THEN "wake" ELSE "loop")
      /\ pkt' = [pkt EXCEPT ![c] = IF wake THEN @ ELSE NULL]
      /\ UNCHANGED <<lists, irq, leaked, up, stopped, load, n, timeouts>>

WakeQueue(d) ==
  LET c == <<"poll", d>>
  IN  /\ pc[c] = "wake"
      /\ stopped' = [stopped EXCEPT ![pkt[c][1]] = FALSE]
      /\ pkt' = [pkt EXCEPT ![c] = NULL]
      /\ goto(c, "loop")
      /\ UNCHANGED <<lists, irq, leaked, up, load, n, timeouts>>

\* napi_complete_done under priv->lock; it refuses when something was missed.
PollComplete(d) ==
  LET c == <<"poll", d>>
  IN  /\ pc[c] = "complete" /\ ~leaked[d]
      /\ napi' = [napi EXCEPT ![d] = IF @ = "missed" THEN "sched" ELSE "idle"]
      /\ rx_int_enabled' = [rx_int_enabled EXCEPT ![d] = @ \/ napi[d] = "sched"]
      /\ n' = [n EXCEPT ![d] = 0]
      /\ goto(c, "idle")
      /\ UNCHANGED <<lists, status, skb, tx_packets, leaked, up, stopped, pkt, load, timeouts>>

dummeth_poll(d) ==
  \/ PollLoop(d) \/ dummeth_dequeue_buf(d) \/ dummeth_release_buffer(d)
  \/ TestQueue(d) \/ WakeQueue(d) \/ PollComplete(d)

------------------------------------------------------------------------------
\* The watchdog of a stopped queue.  It never runs together with dummeth_xmit of
\* the same device.
TimeoutStart(d) ==
  LET c == <<"timeout", d>>
  IN  /\ pc[c] = "idle" /\ pc[<<"xmit", d>>] = "idle"
      /\ up[d] /\ stopped[d] /\ Cardinality(Running) < NCpus
      /\ timeouts < MaxTimeouts
      /\ timeouts' = timeouts + 1
      /\ goto(c, "tx_read")
      /\ UNCHANGED <<lists, irq, leaked, up, stopped, pkt, load, n>>

\* Mutant: the packets of the new pool are linked behind the old pool.
ResetPool_Kept(d) ==
  LET c == <<"timeout", d>>
      fresh == FirstFree(d, allocated \ Chain(ppool[d]))
  IN  /\ pc[c] = "pool" /\ ~leaked[d]
      /\ allocated' = allocated \cup fresh
      /\ next' = [p \in Packets |-> IF p \in fresh THEN Below(p, fresh) ELSE next[p]]
      /\ goto(c, "wake")
      /\ UNCHANGED <<ppool, rx_queue, irq, leaked, up, stopped, pkt, load, n, timeouts>>

\* dummeth_teardown_pool and dummeth_setup_pool under priv->lock.  Packets in
\* flight stay allocated.
ResetPool(d) ==
  LET c == <<"timeout", d>>
      kept == allocated \ Chain(ppool[d])
      fresh == FirstFree(d, kept)
  IN  /\ pc[c] = "pool" /\ ~leaked[d]
      /\ allocated' = kept \cup fresh
      /\ next' = [p \in Packets |-> IF p \in fresh THEN Below(p, fresh) ELSE next[p]]
      /\ ppool' = [ppool EXCEPT ![d] = Top(fresh)]
      /\ goto(c, "wake")
      /\ UNCHANGED <<rx_queue, irq, leaked, up, stopped, pkt, load, n, timeouts>>

TimeoutEnd(d) ==
  LET c == <<"timeout", d>>
  IN  /\ pc[c] = "wake"
      /\ stopped' = [stopped EXCEPT ![d] = FALSE]
      /\ goto(c, "idle")
      /\ UNCHANGED <<lists, irq, leaked, up, pkt, load, n, timeouts>>

dummeth_tx_timeout(d) ==
  LET c == <<"timeout", d>>
  IN  \/ ReadStatus(c, d, "tx_read", "tx_write")
      \/ WriteStatus(c, d, "TX_INTR", "tx_write", "tx_irq")
      \/ Interrupt(c, d, "tx_irq", "pool")
      \/ ResetPool(d)
      \/ TimeoutEnd(d)

------------------------------------------------------------------------------
Traffic ==
  \E d \in Devs : \/ dummeth_xmit(d) \/ dummeth_hw_tx(d)
                  \/ PollStart(d) \/ dummeth_poll(d)
                  \/ TimeoutStart(d) \/ dummeth_tx_timeout(d)

Next == Traffic \/ \E d \in Devs : dummeth_open(d) \/ dummeth_stop(d)

Spec == InitWith(FALSE) /\ [][Next]_vars

\* Code that has started runs on, and a poll that is scheduled gets a CPU even if
\* packets keep coming: pending soft interrupts run before the next packet is sent.
Fairness ==
  \A d \in Devs : /\ WF_vars(dummeth_hw_tx(d))
                  /\ WF_vars(dummeth_poll(d))
                  /\ WF_vars(dummeth_tx_timeout(d))
                  /\ SF_vars(PollStart(d))

FairSpec == Spec /\ Fairness

\* Both devices are brought up before the first packet, and stay up.
UpSpec == InitWith(TRUE) /\ [][Traffic]_vars
FairUpSpec == UpSpec /\ Fairness

------------------------------------------------------------------------------
Places(p) ==
  {<<"pool", d>> : d \in {e \in Devs : p \in Chain(ppool[e])}}
    \cup {<<"rx", d>> : d \in {e \in Devs : p \in Chain(rx_queue[e])}}
    \cup {c \in Contexts : pkt[c] = p /\ pc[c] \in {"enqueue", "release"}}

(***************************************************************************)
(* A packet that is allocated is in exactly one place: the pool of its      *)
(* device, the receive queue of the twin, or the hands of the one context   *)
(* that moves it; freed memory is in none.  The lists share pkt->next, are  *)
(* changed by three contexts on two CPUs, and the watchdog frees one of     *)
(* them while packets are in flight ("FIXME - in-flight packets ?").        *)
(***************************************************************************)
PacketsInOnePlace ==
  /\ \A p \in Packets : Cardinality(Places(p)) = IF p \in allocated THEN 1 ELSE 0
  /\ \A d \in Devs : /\ \A p \in Chain(ppool[d]) : p[1] = d
                     /\ \A p \in Chain(rx_queue[d]) : p[1] = twin(d)

(***************************************************************************)
(* While both devices are up, receive interrupts are off only when a poll   *)
(* is scheduled or running that will turn them on again, whatever races on  *)
(* the status word.                                                        *)
(***************************************************************************)
IntsOffOnlyWhilePolling ==
  \A d \in Devs : ~rx_int_enabled[d] => napi[d] \in {"sched", "missed"}

(***************************************************************************)
(* dummeth_get_tx_buffer returns with priv->lock held when the pool is      *)
(* empty.  On one CPU that never happens: the queue is stopped with the     *)
(* last packet and woken only when one is back.                             *)
(***************************************************************************)
LockReleased == \A d \in Devs : ~leaked[d]

(***************************************************************************)
(* On one CPU the skb handed to dummeth_xmit is freed by the time it        *)
(* returns, so the next call does not overwrite priv->skb.                  *)
(***************************************************************************)
SkbFreed == \A d \in Devs : skb[d] => pc[<<"xmit", d>>] # "idle"

(***************************************************************************)
(* "This interface loops back the packet to the other dummeth interface":   *)
(* a device that is up with a packet on its receive queue polls it, unless  *)
(* it is brought down.                                                      *)
(***************************************************************************)
LoopedBack ==
  \A d \in Devs : (up[d] /\ rx_queue[d] # NULL) ~> (pc[<<"poll", d>>] = "dequeue" \/ ~up[d])

(***************************************************************************)
(* A transmit queue stopped for want of packets runs again once the twin's  *)
(* poll gives one back; the watchdog is not needed.                         *)
(***************************************************************************)
QueueResumes == \A d \in Devs : stopped[d] ~> ~stopped[d]

\* Three contexts on two CPUs move packets between lists that share pkt->next:
\* everything keeps its type, and no packet is lost or in two places.
SmpInv == TypeOK /\ PacketsInOnePlace

\* What one CPU guarantees although status and pkt->next are used outside the lock.
OneCpuInv == LockReleased /\ SkbFreed

\* On one CPU every packet sent is taken from the twin's queue, and a stopped
\* queue is woken, without the watchdog's help.
OneCpuProgress == LoopedBack /\ QueueResumes
=============================================================================
