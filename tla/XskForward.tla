------------------------------ MODULE XskForward ------------------------------
(***************************************************************************)
(* The AF_XDP forwarder (ebpf-xdp/xsk): main, its ports, its threads, and   *)
(* the kernel at the other end of the rings.                               *)
(*                                                                         *)
(* main opens the ports one after the other, starts the threads, and on a  *)
(* signal stops them, joins them and frees the ports.  A thread polls its   *)
(* ports, takes a packet from a receive ring, refills the fill ring from    *)
(* the cache of the port, sends the packet on the next port of its group,   *)
(* and gives the buffers on that port's completion ring back to the pool.   *)
(* Bursts are of one packet (MAX_BURST_RX, MAX_BURST_TX).                   *)
(*                                                                         *)
(* The cache of a port is the cache of BufferPool with the same name.  The  *)
(* threads share nothing but the pool, so a step ends where the pool or a   *)
(* ring the kernel shares is touched.                                      *)
(***************************************************************************)
EXTENDS BufferPool, Sequences

CONSTANTS
  NPorts, NThreads,               \* the -i and -c arguments
  fill_size, tx_size, comp_size,  \* the sizes of the rings
  NoBuffer

\* parse_args: at least one port and one thread, evenly distributed.
ASSUME ForwardAssumption ==
  /\ NPorts \in Nat \ {0} /\ NThreads \in Nat \ {0}
  /\ NPorts % NThreads = 0
  /\ Caches = 0 .. (NPorts - 1)
  /\ {fill_size, tx_size, comp_size} \subseteq Nat \ {0}
  /\ NoBuffer \notin Buffers

Threads == 0 .. (NThreads - 1)
n_ports_per_thread == NPorts \div NThreads

\* ports_rx of a thread, and the port that a packet received on p leaves by.
ports_rx(t) == {p \in Caches : p \div n_ports_per_thread = t}
ports_tx(p) ==
  LET base == (p \div n_ports_per_thread) * n_ports_per_thread
  IN  base + ((p - base + 1) % n_ports_per_thread)

VARIABLES
  main,        \* where main is
  at,          \* its loop variable
  staged,      \* addresses port_init wrote and did not submit yet
  opened,      \* the ports that have a socket
  umem_fq, rxq, txq, umem_cq,   \* the rings of each port, oldest entry first
  pc,          \* where each thread is
  ready,       \* ports whose revents say POLLIN and that are still to come
  port,        \* the port being served
  pkt,         \* the address in the burst
  cursor,      \* completions given back of those peeked
  peeked,      \* completions peeked
  quit         \* thread_data[t].quit

mainVars == <<main, at, staged, opened>>
rings == <<umem_fq, rxq, txq, umem_cq>>
threadVars == <<pc, ready, port, pkt, cursor, peeked>>
vars == <<poolVars, mainVars, rings, threadVars, quit>>

ForwardTypeOK ==
  /\ TypeOK
  /\ at \in 0 .. NPorts
  /\ opened \subseteq live
  /\ \A p \in Caches :
       /\ Len(umem_fq[p]) <= fill_size /\ Len(rxq[p]) <= fill_size
       /\ Len(txq[p]) <= tx_size /\ Len(umem_cq[p]) <= comp_size
  /\ \A t \in Threads :
       /\ port[t] \in Caches /\ ready[t] \subseteq ports_rx(t)
       /\ pkt[t] \in Buffers \cup {NoBuffer}
       /\ 0 <= cursor[t] /\ cursor[t] <= peeked[t] /\ peeked[t] <= comp_size

Init ==
  /\ PoolInit
  /\ main = "bcache" /\ at = 0 /\ staged = <<>> /\ opened = {}
  /\ umem_fq = [p \in Caches |-> <<>>]
  /\ rxq = [p \in Caches |-> <<>>]
  /\ txq = [p \in Caches |-> <<>>]
  /\ umem_cq = [p \in Caches |-> <<>>]
  /\ pc = [t \in Threads |-> "none"]
  /\ ready = [t \in Threads |-> {}]
  /\ port = [t \in Threads |-> 0]
  /\ pkt = [t \in Threads |-> NoBuffer]
  /\ cursor = [t \in Threads |-> 0]
  /\ peeked = [t \in Threads |-> 0]
  /\ quit = [t \in Threads |-> FALSE]

------------------------------------------------------------------------------
\* port_init(at), up to the pool calls that decide whether it fails.
OpenCache ==
  /\ main = "bcache" /\ at < NPorts
  /\ bcache_init(at)
  /\ main' = "check"
  /\ UNCHANGED <<at, staged, opened, rings, threadVars, quit>>

CheckCache ==
  /\ main = "check"
  /\ BuffersPerSlab >= fill_size
  /\ bcache_cons_check_ret(at, fill_size) >= fill_size
  /\ bcache_cons_check(at)
  /\ main' = "socket"
  /\ UNCHANGED <<at, staged, opened, rings, threadVars, quit>>

OpenSocket ==
  /\ main = "socket"
  /\ opened' = opened \cup {at}
  /\ main' = "xskmap"
  /\ UNCHANGED <<poolVars, at, staged, rings, threadVars, quit>>

UpdateXskmap ==
  /\ main = "xskmap"
  /\ main' = "fill"
  /\ UNCHANGED <<poolVars, at, staged, opened, rings, threadVars, quit>>

\* One address of the initial fill.
StageFill ==
  /\ main = "fill" /\ Len(staged) < fill_size
  /\ bcache_cons(at)
  /\ staged' = Append(staged, bcache_cons_ret(at))
  /\ UNCHANGED <<main, at, opened, rings, threadVars, quit>>

SubmitFill ==
  /\ main = "fill" /\ Len(staged) = fill_size
  /\ umem_fq' = [umem_fq EXCEPT ![at] = staged]
  /\ staged' = <<>> /\ at' = at + 1 /\ main' = "bcache"
  /\ UNCHANGED <<poolVars, opened, rxq, txq, umem_cq, threadVars, quit>>

\* An error return of port_init before the xskmap update (a failed library call,
\* no reserved slab, no full slab, slabs smaller than the ring), after which main
\* returns.
PortInitFails ==
  /\ main \in {"bcache", "check", "socket"} /\ at < NPorts
  /\ IF at \in live THEN bcache_free(at) ELSE UNCHANGED poolVars
  /\ main' = "failed"
  /\ UNCHANGED <<at, staged, opened, rings, threadVars, quit>>

\* When the xskmap update fails the port is not freed.
XskmapFails ==
  /\ main = "xskmap"
  /\ main' = "failed"
  /\ UNCHANGED <<poolVars, at, staged, opened, rings, threadVars, quit>>

StartThreads ==
  /\ main = "bcache" /\ at = NPorts
  /\ main' = "running"
  /\ pc' = [t \in Threads |-> "loop"]
  /\ UNCHANGED <<poolVars, at, staged, opened, rings, ready, port, pkt, cursor, peeked, quit>>

\* A signal ends the statistics loop.
Signal ==
  /\ main = "running"
  /\ main' = "quit" /\ at' = 0
  /\ UNCHANGED <<poolVars, staged, opened, rings, threadVars, quit>>

SetQuit ==
  /\ main = "quit" /\ at < NThreads
  /\ quit' = [quit EXCEPT ![at] = TRUE]
  /\ at' = at + 1
  /\ UNCHANGED <<poolVars, main, staged, opened, rings, threadVars>>

\* Mutant: the ports are freed without waiting for the threads.
JoinThreads_NoWait ==
  /\ main = "quit" /\ at = NThreads
  /\ main' = "free" /\ at' = 0
  /\ UNCHANGED <<poolVars, staged, opened, rings, threadVars, quit>>

\* pthread_join of every thread.
JoinThreads ==
  /\ main = "quit" /\ at = NThreads
  /\ \A t \in Threads : pc[t] = "exit"
  /\ main' = "free" /\ at' = 0
  /\ UNCHANGED <<poolVars, staged, opened, rings, threadVars, quit>>

\* The buffers in the rings of the port are dropped with the socket.
port_free ==
  /\ main = "free" /\ at < NPorts
  /\ bcache_free(at)
  /\ opened' = opened \ {at}
  /\ at' = at + 1
  /\ UNCHANGED <<main, staged, rings, threadVars, quit>>

bpool_free ==
  /\ main = "free" /\ at = NPorts
  /\ main' = "done"
  /\ UNCHANGED <<poolVars, at, staged, opened, rings, threadVars, quit>>

Main ==
  \/ OpenCache \/ CheckCache \/ OpenSocket \/ UpdateXskmap \/ StageFill \/ SubmitFill
  \/ PortInitFails \/ XskmapFails
  \/ StartThreads \/ Signal \/ SetQuit \/ JoinThreads \/ port_free \/ bpool_free

------------------------------------------------------------------------------
goto(t, where) == pc' = [pc EXCEPT ![t] = where]

LoopTop(t) ==
  /\ pc[t] = "loop"
  /\ goto(t, IF quit[t] THEN "exit" ELSE "poll")
  /\ UNCHANGED <<poolVars, mainVars, rings, ready, port, pkt, cursor, peeked, quit>>

\* poll(pollfds, n_ports_rx, -1) blocks until a receive ring has a packet, and
\* reports every ring that has one.
Poll(t) ==
  /\ pc[t] = "poll"
  /\ ready' = [ready EXCEPT ![t] = {p \in ports_rx(t) : rxq[p] # <<>>}]
  /\ ready'[t] # {}
  /\ goto(t, "port")
  /\ UNCHANGED <<poolVars, mainVars, rings, port, pkt, cursor, peeked, quit>>

\* Mutant: only the first ready port is served before polling again.
NextPort_FirstOnly(t) ==
  /\ pc[t] = "port"
  /\ \/ /\ ready[t] = {}
        /\ goto(t, "loop")
        /\ UNCHANGED <<ready, port>>
     \/ \E p \in ready[t] :
          /\ \A q \in ready[t] : p <= q
          /\ port' = [port EXCEPT ![t] = p]
          /\ ready' = [ready EXCEPT ![t] = {}]
          /\ goto(t, "rx")
  /\ UNCHANGED <<poolVars, mainVars, rings, pkt, cursor, peeked, quit>>

\* The loop over the revents of this poll, in the order of the ports.
NextPort(t) ==
  /\ pc[t] = "port"
  /\ \/ /\ ready[t] = {}
        /\ goto(t, "loop")
        /\ UNCHANGED <<ready, port>>
     \/ \E p \in ready[t] :
          /\ \A q \in ready[t] : p <= q
          /\ port' = [port EXCEPT ![t] = p]
          /\ ready' = [ready EXCEPT ![t] = @ \ {p}]
          /\ goto(t, "rx")
  /\ UNCHANGED <<poolVars, mainVars, rings, pkt, cursor, peeked, quit>>

\* Mutant: an empty consumer slab is never traded.
CheckBuffers_NoTrade(t) ==
  /\ pc[t] = "rx"
  /\ goto(t, IF n_buffers_cons[port[t]] = 0 THEN "port" ELSE "peek")
  /\ UNCHANGED <<poolVars, mainVars, rings, ready, port, pkt, cursor, peeked, quit>>

\* port_rx_burst: a packet is only taken when the cache has a buffer to put on
\* the fill ring in its place.
CheckBuffers(t) ==
  LET p == port[t]
  IN  /\ pc[t] = "rx"
      /\ bcache_cons_check(p)
      /\ goto(t, IF bcache_cons_check_ret(p, 1) = 0 THEN "port" ELSE "peek")
      /\ UNCHANGED <<mainVars, rings, ready, port, pkt, cursor, peeked, quit>>

TakePacket(t) ==
  LET p == port[t]
  IN  /\ pc[t] = "peek"
      /\ rxq[p] # <<>>
      /\ pkt' = [pkt EXCEPT ![t] = Head(rxq[p])]
      /\ rxq' = [rxq EXCEPT ![p] = Tail(@)]
      /\ goto(t, "fq")
      /\ UNCHANGED <<poolVars, mainVars, umem_fq, txq, umem_cq, ready, port, cursor, peeked, quit>>

\* The reserve loop of port_rx_burst, then one address and the submit.
Replenish(t) ==
  LET p == port[t]
  IN  /\ pc[t] = "fq"
      /\ Len(umem_fq[p]) < fill_size
      /\ bcache_cons(p)
      /\ umem_fq' = [umem_fq EXCEPT ![p] = Append(@, bcache_cons_ret(p))]
      /\ goto(t, "txq")
      /\ UNCHANGED <<mainVars, rxq, txq, umem_cq, ready, port, pkt, cursor, peeked, quit>>

\* The reserve loop of port_tx_burst, then the descriptor and the submit.
SendPacket(t) ==
  LET q == ports_tx(port[t])
  IN  /\ pc[t] = "txq"
      /\ Len(txq[q]) < tx_size
      /\ txq' = [txq EXCEPT ![q] = Append(@, pkt[t])]
      /\ pkt' = [pkt EXCEPT ![t] = NoBuffer]
      /\ goto(t, "cq")
      /\ UNCHANGED <<poolVars, mainVars, umem_fq, rxq, umem_cq, ready, port, cursor, peeked, quit>>

PeekCompletions(t) ==
  LET n == Len(umem_cq[ports_tx(port[t])])
  IN  /\ pc[t] = "cq"
      /\ peeked' = [peeked EXCEPT ![t] = n]
      /\ goto(t, IF n = 0 THEN "port" ELSE "drain")
      /\ UNCHANGED <<poolVars, mainVars, rings, ready, port, pkt, cursor, quit>>

\* One completion goes back to the cache of the port that sent it.
GiveBack(t) ==
  LET q == ports_tx(port[t])
  IN  /\ pc[t] = "drain" /\ cursor[t] < peeked[t]
      /\ bcache_prod(q, umem_cq[q][cursor[t] + 1])
      /\ cursor' = [cursor EXCEPT ![t] = @ + 1]
      /\ UNCHANGED <<mainVars, rings, pc, ready, port, pkt, peeked, quit>>

\* Mutant: the completions given back stay on the ring.
ReleaseCompletions_Kept(t) ==
  /\ pc[t] = "drain" /\ cursor[t] = peeked[t]
  /\ cursor' = [cursor EXCEPT ![t] = 0]
  /\ peeked' = [peeked EXCEPT ![t] = 0]
  /\ goto(t, "port")
  /\ UNCHANGED <<poolVars, mainVars, rings, ready, port, pkt, quit>>

ReleaseCompletions(t) ==
  LET q == ports_tx(port[t])
  IN  /\ pc[t] = "drain" /\ cursor[t] = peeked[t]
      /\ umem_cq' = [umem_cq EXCEPT ![q] = SubSeq(@, peeked[t] + 1, Len(@))]
      /\ cursor' = [cursor EXCEPT ![t] = 0]
      /\ peeked' = [peeked EXCEPT ![t] = 0]
      /\ goto(t, "port")
      /\ UNCHANGED <<poolVars, mainVars, umem_fq, rxq, txq, ready, port, pkt, quit>>

Thread(t) ==
  \/ LoopTop(t) \/ Poll(t) \/ NextPort(t) \/ CheckBuffers(t) \/ TakePacket(t)
  \/ Replenish(t) \/ SendPacket(t) \/ PeekCompletions(t) \/ GiveBack(t)
  \/ ReleaseCompletions(t)

------------------------------------------------------------------------------
\* The kernel receives a packet into the next buffer of the fill ring.  Without
\* one the packet is dropped.
Receive(p) ==
  /\ p \in opened /\ umem_fq[p] # <<>> /\ main \notin {"failed", "done"}
  /\ rxq' = [rxq EXCEPT ![p] = Append(@, Head(umem_fq[p]))]
  /\ umem_fq' = [umem_fq EXCEPT ![p] = Tail(@)]
  /\ UNCHANGED <<poolVars, mainVars, txq, umem_cq, threadVars, quit>>

\* The kernel sends a packet, and completes its buffer if the ring has room.
Transmit(p) ==
  /\ p \in opened /\ txq[p] # <<>> /\ main \notin {"failed", "done"}
  /\ Len(umem_cq[p]) < comp_size
  /\ umem_cq' = [umem_cq EXCEPT ![p] = Append(@, Head(txq[p]))]
  /\ txq' = [txq EXCEPT ![p] = Tail(@)]
  /\ UNCHANGED <<poolVars, mainVars, umem_fq, rxq, threadVars, quit>>

Terminated == main \in {"failed", "done"} /\ UNCHANGED vars

Next ==
  \/ Main
  \/ \E t \in Threads : Thread(t)
  \/ \E p \in Caches : Receive(p) \/ Transmit(p)
  \/ Terminated

Spec == Init /\ [][Next]_vars

\* Threads are scheduled, and the kernel sends what is on a transmit ring: the
\* code kicks it with sendto after every submit that needs it.  Packets need not
\* arrive.
Fairness ==
  /\ \A t \in Threads : WF_vars(Thread(t))
  /\ \A p \in Caches : WF_vars(Transmit(p))
FairSpec == Spec /\ Fairness

------------------------------------------------------------------------------
\* Completion i of port p was given back by the thread that peeked it, which has not
\* released it yet.
Back(p, i) == \E t \in Threads : pc[t] = "drain" /\ ports_tx(port[t]) = p /\ i <= cursor[t]

\* The entries of a ring of every port.
RingSpots(k, ring) == UNION {{<<k, p, i>> : i \in 1 .. Len(ring[p])} : p \in Caches}

\* All places outside the pool where there is a buffer: the rings, the burst of a
\* thread, and what port_init has staged.
Spots ==
  {<<"staged", 0, i>> : i \in 1 .. Len(staged)}
    \cup RingSpots("fq", umem_fq) \cup RingSpots("rx", rxq) \cup RingSpots("tx", txq)
    \cup {x \in RingSpots("cq", umem_cq) : ~Back(x[2], x[3])}
    \cup {<<"pkt", t, 0>> : t \in {u \in Threads : pkt[u] # NoBuffer}}

BufferAt(x) ==
  IF x[1] = "staged" THEN staged[x[3]]
  ELSE IF x[1] = "fq" THEN umem_fq[x[2]][x[3]]
  ELSE IF x[1] = "rx" THEN rxq[x[2]][x[3]]
  ELSE IF x[1] = "tx" THEN txq[x[2]][x[3]]
  ELSE IF x[1] = "cq" THEN umem_cq[x[2]][x[3]]
  ELSE pkt[x[2]]

\* The buffers the pool has handed out are exactly those in a ring, in a burst
\* or staged, each once: no ring holds a buffer that a cache may hand out again,
\* and none is dropped on the way (af_rxtx.c:378-404, 424-448).
RingsHoldWhatIsOut ==
  /\ {BufferAt(x) : x \in Spots} = out
  /\ \A x, y \in Spots : BufferAt(x) = BufferAt(y) => x = y

\* Every packet taken is replaced on the fill ring before the next is taken
\* (af_rxtx.c:356-358, 383-404): once a port is filled, its fill ring, its receive
\* ring and a burst on its way hold fill_size buffers, so the reserve loop of
\* port_rx_burst never has to wait.
FillRingReplenished ==
  \A p \in Caches :
    LET pending == Cardinality({t \in Threads : pc[t] = "fq" /\ port[t] = p})
        filled == p \in opened /\ (main \in {"bcache", "check", "socket", "xskmap", "fill"} => p < at)
    IN  filled /\ main # "failed" => Len(umem_fq[p]) + Len(rxq[p]) + pending = fill_size

\* Completions are collected only after a send (af_rxtx.c:437-450), and the kernel
\* sends only if it can complete: a thread in the reserve loop of port_tx_burst
\* never waits on a kernel that waits for it.
SendNeverBlocksOnCompletions ==
  \A t \in Threads :
    LET q == ports_tx(port[t])
    IN  pc[t] = "txq" /\ Len(txq[q]) = tx_size => Len(umem_cq[q]) < comp_size

\* The revents of a poll stay true while the loop goes through them
\* (af_rxtx.c:538-567): only the thread itself takes packets from its ports.
ReadyStaysReady ==
  \A t \in Threads :
    /\ \A p \in ready[t] : rxq[p] # <<>>
    /\ pc[t] \in {"rx", "peek"} => rxq[port[t]] # <<>>

\* main frees a port only after every thread has returned (main.c:270-277).
NoUseAfterFree ==
  \A t \in Threads : pc[t] \notin {"none", "exit"} => ports_rx(t) \subseteq opened \cap live

\* While the process runs, every packet that was received is sent: given a pool
\* with a slab to spare, a thread never returns from port_rx_burst empty-handed
\* for ever (af_rxtx.c:356-358), and no reserve loop spins for ever.
PacketsForwarded ==
  \A p \in Caches, b \in Buffers :
    main = "running" /\ (\E i \in DOMAIN rxq[p] : rxq[p][i] = b)
      ~> (main # "running" \/ \E i \in DOMAIN umem_cq[ports_tx(p)] : umem_cq[ports_tx(p)][i] = b)

\* With fill_size 1, every port is served again and again as long as the pool is
\* large enough: traffic in one direction, or buffers parked in the producer slab
\* of a port that rarely sends, does not stop another port.
PortsServed ==
  \A p \in Caches :
    main = "running" /\ rxq[p] # <<>> ~> (main # "running" \/ rxq[p] = <<>>)

\* What the threads rely on at every moment, from start-up to the end of main: the
\* buffers outside the pool are each in one ring, no reserve loop of a burst waits
\* for its own thread, a reported port is ready, and no port is freed under a thread.
ForwardInv ==
  /\ ForwardTypeOK
  /\ RingsHoldWhatIsOut
  /\ FillRingReplenished
  /\ SendNeverBlocksOnCompletions
  /\ ReadyStaysReady
  /\ NoUseAfterFree
==============================================================================
