-------------------------- MODULE XskForward_lemmas --------------------------
(*****************************************************************************)
(* Where the buffers of the forwarder are, and that main, the threads and    *)
(* the kernel keep them apart, for every number of ports and threads and     *)
(* every size of pool, slabs and rings.                                      *)
(*                                                                           *)
(* What has to be known is who may touch a cache: main while it opens and    *)
(* frees ports, and then the one thread whose ports they are.  And what      *)
(* port_tx_burst gives back was handed out before, which takes that no       *)
(* buffer is in two places on its way through the rings.                     *)
(*****************************************************************************)
EXTENDS XskForward, TLAPS

Serving == {"rx", "peek", "fq", "txq", "cq", "drain"}
Pcs == {"none", "loop", "poll", "port", "exit"} \cup Serving
Opening == {"check", "socket", "xskmap", "fill"}

FwTypes ==
  /\ at \in Nat /\ staged \in Seq(Buffers)
  /\ umem_fq \in [Caches -> Seq(Buffers)] /\ rxq \in [Caches -> Seq(Buffers)]
  /\ txq \in [Caches -> Seq(Buffers)] /\ umem_cq \in [Caches -> Seq(Buffers)]
  /\ pc \in [Threads -> Pcs] /\ ready \in [Threads -> SUBSET Caches]
  /\ port \in [Threads -> Caches] /\ pkt \in [Threads -> Buffers \cup {NoBuffer}]
  /\ cursor \in [Threads -> Nat] /\ peeked \in [Threads -> Nat]

(* which caches exist, and that threads run only while all do *)
FwMain ==
  /\ main \in {"bcache", "running", "quit", "free", "failed", "done"} \cup Opening
  /\ main = "bcache" => at <= NPorts /\ live = 0 .. (at - 1)
  /\ main \in Opening => at < NPorts /\ live = 0 .. at
  /\ main \in Opening \ {"check"} => n_buffers_cons[at] + Len(staged) >= fill_size
  /\ main # "fill" => staged = <<>>
  /\ main \in {"running", "quit"} => live = Caches
  /\ main = "free" => live = at .. (NPorts - 1)
  /\ main \notin {"running", "quit"} => \A t \in Threads : pc[t] \in {"none", "exit"}

(* a thread serves its own ports, and has looked before it takes *)
ThreadOK(t) ==
  /\ ready[t] \subseteq ports_rx(t)
  /\ pc[t] \in Serving => port[t] \in ports_rx(t)
  /\ pc[t] \in {"peek", "fq"} => n_buffers_cons[port[t]] # 0
  /\ pc[t] \in {"fq", "txq"} => pkt[t] # NoBuffer
  /\ pc[t] # "drain" => cursor[t] = 0
  /\ pc[t] = "drain" => cursor[t] <= peeked[t] /\ peeked[t] <= Len(umem_cq[ports_tx(port[t])])
FwThreads == \A t \in Threads : ThreadOK(t)

(* there is a spot: entry i of a ring of port p, a burst *)
IsSpot(k, p, i) ==
  \/ k = "staged" /\ p = 0 /\ i \in 1 .. Len(staged)
  \/ k = "fq" /\ p \in Caches /\ i \in 1 .. Len(umem_fq[p])
  \/ k = "rx" /\ p \in Caches /\ i \in 1 .. Len(rxq[p])
  \/ k = "tx" /\ p \in Caches /\ i \in 1 .. Len(txq[p])
  \/ k = "cq" /\ p \in Caches /\ i \in 1 .. Len(umem_cq[p]) /\ ~Back(p, i)
  \/ k = "pkt" /\ p \in Threads /\ i = 0 /\ pkt[p] # NoBuffer

(* no buffer is at two spots, and what is at a spot was handed out *)
FwOnce ==
  /\ \A x \in Spots : BufferAt(x) \in out
  /\ \A x, y \in Spots : BufferAt(x) = BufferAt(y) => x = y

FwInv == PoolInv /\ FwTypes /\ FwMain /\ FwThreads /\ FwOnce

-----------------------------------------------------------------------------
(* Who serves which port *)

(* A quotient, by its remainder. *)
LEMMA Quotient ==
  ASSUME NEW k \in Nat \ {0}, NEW p \in Nat, NEW t \in Nat, t * k <= p, p < t * k + k
  PROVE  p \div k = t
OBVIOUS

(* The port that packets leave by belongs to the thread that received them. *)
LEMMA TxPort ==
  ASSUME NEW p \in Caches
  PROVE  ports_tx(p) \in Caches /\ ports_tx(p) \div n_ports_per_thread = p \div n_ports_per_thread
<1> DEFINE k == n_ports_per_thread
           t == p \div k
           r == (p - t * k + 1) % k
<1>1. k \in Nat \ {0} /\ NPorts = NThreads * k
  BY ForwardAssumption DEF n_ports_per_thread
<1>2. p \in Nat /\ p < NPorts
  BY ForwardAssumption
<1>3. t \in Nat /\ t * k <= p /\ p < t * k + k /\ t * k \in Nat
  BY <1>1, <1>2
<1>4. r \in 0 .. k - 1
  BY <1>1, <1>2, <1>3
<1>5. ports_tx(p) = t * k + r
  BY Zenon DEF ports_tx
<1>6. t < NThreads
  <2>1. SUFFICES ASSUME t >= NThreads PROVE FALSE
    BY <1>3, ForwardAssumption
  <2>2. t * k >= NThreads * k
    BY <1>1, <1>3, <2>1, ForwardAssumption
  <2> QED BY <1>1, <1>2, <1>3, <2>2
<1>7. t * k + k <= NPorts
  <2>1. (t + 1) * k <= NThreads * k
    BY <1>1, <1>3, <1>6, ForwardAssumption
  <2>2. (t + 1) * k = t * k + k
    BY <1>1, <1>3
  <2> QED BY <1>1, <2>1, <2>2, Zenon
<1>8. ports_tx(p) \in Caches
  BY <1>1, <1>3, <1>4, <1>5, <1>7, ForwardAssumption
<1>9. (t * k + r) \div k = t
  <2>1. t * k + r \in Nat /\ t * k <= t * k + r /\ t * k + r < t * k + k
    BY <1>1, <1>3, <1>4
  <2> HIDE DEF t, r, k
  <2> QED BY <1>1, <1>3, <2>1, Quotient, Zenon
<1> QED BY <1>5, <1>8, <1>9, Zenon

(* Two threads share neither a port they receive on nor one they send on. *)
LEMMA OwnPorts ==
  ASSUME NEW t \in Threads, NEW u \in Threads, t # u, NEW p \in ports_rx(t), NEW q \in ports_rx(u)
  PROVE  p # q /\ ports_tx(p) # ports_tx(q) /\ p \in Caches /\ ports_tx(p) \in Caches
BY TxPort, Zenon DEF ports_rx

-----------------------------------------------------------------------------
(* Rings as sequences *)

(* The length of a queue is a number. *)
LEMMA LenOf == ASSUME NEW S, NEW s \in Seq(S) PROVE Len(s) \in Nat
OBVIOUS

(* What is left of a queue when its first entry is taken. *)
LEMMA TailOf ==
  ASSUME NEW S, NEW s \in Seq(S), s # <<>>
  PROVE  /\ Len(s) \in Nat \ {0} /\ Tail(s) \in Seq(S) /\ Len(Tail(s)) = Len(s) - 1
         /\ \A k \in 1 .. Len(s) - 1 : Tail(s)[k] = s[k + 1]
         /\ Head(s) = s[1] /\ s[1] \in S
OBVIOUS

(* A queue with one entry more. *)
LEMMA AppendTo ==
  ASSUME NEW S, NEW s \in Seq(S), NEW e \in S
  PROVE  /\ Append(s, e) \in Seq(S) /\ Len(s) \in Nat /\ Len(Append(s, e)) = Len(s) + 1
         /\ Append(s, e)[Len(s) + 1] = e
         /\ \A k \in 1 .. Len(s) : Append(s, e)[k] = s[k]
OBVIOUS

(* A queue without its first n entries. *)
LEMMA DropFirst ==
  ASSUME NEW S, NEW s \in Seq(S), NEW n \in 0 .. Len(s)
  PROVE  /\ SubSeq(s, n + 1, Len(s)) \in Seq(S) /\ Len(s) \in Nat
         /\ Len(SubSeq(s, n + 1, Len(s))) = Len(s) - n
         /\ \A k \in 1 .. Len(s) - n : SubSeq(s, n + 1, Len(s))[k] = s[k + n]
OBVIOUS

-----------------------------------------------------------------------------
(* Buffers on the move *)

(* An entry of a ring is at a number up to the length of the ring. *)
LEMMA RingForm ==
  ASSUME NEW k, NEW ring
  PROVE  /\ \A x \in RingSpots(k, ring) : x = <<k, x[2], x[3]>> /\ x[1] = k /\ x[2] \in Caches
                                          /\ x[3] \in 1 .. Len(ring[x[2]]) /\ x[3] \in Nat
         /\ \A p \in Caches : \A i \in 1 .. Len(ring[p]) : <<k, p, i>> \in RingSpots(k, ring)
BY DEF RingSpots

(* What is in Spots, before and after a step. *)
LEMMA SpotForm ==
  /\ \A x \in Spots : x = <<x[1], x[2], x[3]>> /\ x[2] \in Nat /\ x[3] \in Nat /\ IsSpot(x[1], x[2], x[3])
  /\ \A x \in Spots' : x = <<x[1], x[2], x[3]>> /\ x[2] \in Nat /\ x[3] \in Nat /\ IsSpot(x[1], x[2], x[3])'
<1>0. Caches \subseteq Nat /\ Threads \subseteq Nat
  BY ForwardAssumption DEF Threads
<1>1. ASSUME NEW x \in Spots
      PROVE  x = <<x[1], x[2], x[3]>> /\ x[2] \in Nat /\ x[3] \in Nat /\ IsSpot(x[1], x[2], x[3])
  <2>1. CASE x \in {<<"staged", 0, i>> : i \in 1 .. Len(staged)}
    BY <2>1 DEF IsSpot
  <2>2. CASE x \in RingSpots("fq", umem_fq) \/ x \in RingSpots("rx", rxq) \/ x \in RingSpots("tx", txq)
    BY <1>0, <2>2, RingForm DEF IsSpot
  <2>3. CASE x \in RingSpots("cq", umem_cq) /\ ~Back(x[2], x[3])
    BY <1>0, <2>3, RingForm, Zenon DEF IsSpot
  <2>4. CASE x \in {<<"pkt", t, 0>> : t \in {u \in Threads : pkt[u] # NoBuffer}}
    BY <1>0, <2>4 DEF IsSpot
  <2> QED BY <2>1, <2>2, <2>3, <2>4, Zenon DEF Spots
<1>2. ASSUME NEW x \in Spots'
      PROVE  x = <<x[1], x[2], x[3]>> /\ x[2] \in Nat /\ x[3] \in Nat /\ IsSpot(x[1], x[2], x[3])'
  <2>1. CASE x \in {<<"staged", 0, i>> : i \in 1 .. Len(staged')}
    BY <2>1 DEF IsSpot
  <2>2. CASE x \in RingSpots("fq", umem_fq') \/ x \in RingSpots("rx", rxq') \/ x \in RingSpots("tx", txq')
    BY <1>0, <2>2, RingForm DEF IsSpot
  <2>3. CASE x \in RingSpots("cq", umem_cq') /\ ~Back(x[2], x[3])'
    BY <1>0, <2>3, RingForm DEF IsSpot
  <2>4. CASE x \in {<<"pkt", t, 0>> : t \in {u \in Threads : pkt'[u] # NoBuffer}}
    BY <1>0, <2>4 DEF IsSpot
  <2>5. RingSpots("fq", umem_fq)' = RingSpots("fq", umem_fq') /\ RingSpots("rx", rxq)' = RingSpots("rx", rxq')
        /\ RingSpots("tx", txq)' = RingSpots("tx", txq') /\ RingSpots("cq", umem_cq)' = RingSpots("cq", umem_cq')
    BY Zenon DEF RingSpots
  <2> QED BY <2>1, <2>2, <2>3, <2>4, <2>5, Zenon DEF Spots
<1> QED BY <1>1, <1>2, Zenon

(* Where a buffer is, there is a spot. *)
LEMMA SpotThere ==
  ASSUME NEW k, NEW p, NEW i
  PROVE  /\ IsSpot(k, p, i) => <<k, p, i>> \in Spots
         /\ IsSpot(k, p, i)' => <<k, p, i>> \in Spots'
<1>1. ASSUME IsSpot(k, p, i) PROVE <<k, p, i>> \in Spots
  <2>1. CASE k = "staged" /\ p = 0 /\ i \in 1 .. Len(staged)
    BY <2>1, Zenon DEF Spots
  <2>2. CASE k = "fq" /\ p \in Caches /\ i \in 1 .. Len(umem_fq[p])
    BY <2>2, RingForm, Zenon DEF Spots
  <2>3. CASE k = "rx" /\ p \in Caches /\ i \in 1 .. Len(rxq[p])
    BY <2>3, RingForm, Zenon DEF Spots
  <2>4. CASE k = "tx" /\ p \in Caches /\ i \in 1 .. Len(txq[p])
    BY <2>4, RingForm, Zenon DEF Spots
  <2>5. CASE k = "cq" /\ p \in Caches /\ i \in 1 .. Len(umem_cq[p]) /\ ~Back(p, i)
    BY <2>5, RingForm, Zenon DEF Spots
  <2>6. CASE k = "pkt" /\ p \in Threads /\ i = 0 /\ pkt[p] # NoBuffer
    BY <2>6, Zenon DEF Spots
  <2> QED BY <1>1, <2>1, <2>2, <2>3, <2>4, <2>5, <2>6, Zenon DEF IsSpot
<1>2. ASSUME IsSpot(k, p, i)' PROVE <<k, p, i>> \in Spots'
  <2>0. RingSpots("fq", umem_fq)' = RingSpots("fq", umem_fq') /\ RingSpots("rx", rxq)' = RingSpots("rx", rxq')
        /\ RingSpots("tx", txq)' = RingSpots("tx", txq') /\ RingSpots("cq", umem_cq)' = RingSpots("cq", umem_cq')
    BY Zenon DEF RingSpots
  <2>1. CASE k = "staged" /\ p = 0 /\ i \in 1 .. Len(staged')
    BY <2>1, Zenon DEF Spots
  <2>2. CASE k = "fq" /\ p \in Caches /\ i \in 1 .. Len(umem_fq'[p])
    BY <2>0, <2>2, RingForm, Zenon DEF Spots
  <2>3. CASE k = "rx" /\ p \in Caches /\ i \in 1 .. Len(rxq'[p])
    BY <2>0, <2>3, RingForm, Zenon DEF Spots
  <2>4. CASE k = "tx" /\ p \in Caches /\ i \in 1 .. Len(txq'[p])
    BY <2>0, <2>4, RingForm, Zenon DEF Spots
  <2>5. CASE k = "cq" /\ p \in Caches /\ i \in 1 .. Len(umem_cq'[p]) /\ ~Back(p, i)'
    BY <2>0, <2>5, RingForm, Zenon DEF Spots
  <2>6. CASE k = "pkt" /\ p \in Threads /\ i = 0 /\ pkt'[p] # NoBuffer
    BY <2>6, Zenon DEF Spots
  <2> QED BY <1>2, <2>1, <2>2, <2>3, <2>4, <2>5, <2>6, Zenon DEF IsSpot
<1> QED BY <1>1, <1>2, Zenon

(* The spots are those before if the entries are. *)
LEMMA SameSpots ==
  ASSUME \A k, p, i : IsSpot(k, p, i)' <=> IsSpot(k, p, i)
  PROVE  Spots' = Spots
<1>1. ASSUME NEW x \in Spots PROVE x \in Spots'
  <2>1. x = <<x[1], x[2], x[3]>> /\ IsSpot(x[1], x[2], x[3])'
    BY SpotForm, Zenon
  <2> QED BY <2>1, SpotThere, Zenon
<1>2. ASSUME NEW x \in Spots' PROVE x \in Spots
  <2>1. x = <<x[1], x[2], x[3]>> /\ IsSpot(x[1], x[2], x[3])
    BY SpotForm, Zenon
  <2> QED BY <2>1, SpotThere, Zenon
<1> QED BY <1>1, <1>2, Zenon

(* Nothing moves, or something disappears. *)
LEMMA Unmoved ==
  ASSUME FwOnce, out \subseteq out', \A x \in Spots' : x \in Spots /\ BufferAt(x)' = BufferAt(x)
  PROVE  FwOnce'
<1>1. \A x \in Spots' : BufferAt(x)' \in out'
  BY Zenon DEF FwOnce
<1>2. ASSUME NEW x \in Spots', NEW y \in Spots', BufferAt(x)' = BufferAt(y)' PROVE x = y
  BY <1>2, Zenon DEF FwOnce
<1> QED BY <1>1, <1>2, Zenon DEF FwOnce

(* Everything is where m says it was, and no two things were at the same spot. *)
LEMMA Moved ==
  ASSUME FwOnce, out' = out, NEW m,
         \A x \in Spots' : m[x] \in Spots /\ BufferAt(x)' = BufferAt(m[x]),
         \A x, y \in Spots' : m[x] = m[y] => x = y
  PROVE  FwOnce'
<1>1. \A x \in Spots' : BufferAt(x)' \in out'
  BY Zenon DEF FwOnce
<1>2. ASSUME NEW x \in Spots', NEW y \in Spots', BufferAt(x)' = BufferAt(y)' PROVE x = y
  BY <1>2, Zenon DEF FwOnce
<1> QED BY <1>1, <1>2, Zenon DEF FwOnce

(* One buffer moves from spot a to spot b. *)
LEMMA OneMoved ==
  ASSUME FwOnce, out' = out, NEW a \in Spots, NEW b, BufferAt(b)' = BufferAt(a),
         \A x \in Spots' : x # b => x \in Spots /\ x # a /\ BufferAt(x)' = BufferAt(x)
  PROVE  FwOnce'
<1>1. \A x \in Spots' : BufferAt(x)' \in out'
  BY DEF FwOnce
<1>2. ASSUME NEW x \in Spots', NEW y \in Spots', BufferAt(x)' = BufferAt(y)' PROVE x = y
  BY <1>2, Zenon DEF FwOnce
<1> QED BY <1>1, <1>2, Zenon DEF FwOnce

(* The first entry of ring k of port p moves to spot d, and the others move up. *)
LEMMA HeadMoves ==
  ASSUME FwOnce, out' = out, NEW k, NEW p, NEW d, d[1] # k,
         <<k, p, 1>> \in Spots, BufferAt(d)' = BufferAt(<<k, p, 1>>),
         \A x \in Spots' : x[1] = k /\ x[2] = p =>
            /\ x[3] # 0 /\ <<k, p, x[3] + 1>> \in Spots /\ BufferAt(x)' = BufferAt(<<k, p, x[3] + 1>>),
         \A x \in Spots' : ~(x[1] = k /\ x[2] = p) /\ x # d => x \in Spots /\ BufferAt(x)' = BufferAt(x)
  PROVE  FwOnce'
<1> DEFINE Was(x) == IF x[1] = k /\ x[2] = p THEN <<k, p, x[3] + 1>>
                     ELSE IF x = d THEN <<k, p, 1>> ELSE x
           m == [x \in Spots' |-> Was(x)]
<1>1. ASSUME NEW x \in Spots' PROVE Was(x) \in Spots /\ BufferAt(x)' = BufferAt(Was(x))
  BY Zenon
<1>2. ASSUME NEW x \in Spots', NEW y \in Spots', Was(x) = Was(y) PROVE x = y
  <2>0. x = <<x[1], x[2], x[3]>> /\ y = <<y[1], y[2], y[3]>> /\ x[3] \in Nat /\ y[3] \in Nat
    BY SpotForm, Zenon
  <2>1. CASE x[1] = k /\ x[2] = p
    <3>1. Was(x) = <<k, p, x[3] + 1>> /\ x[3] # 0
      BY <2>1, Zenon
    <3>2. CASE y[1] = k /\ y[2] = p
      <4>1. x[3] + 1 = y[3] + 1
        BY <1>2, <3>1, <3>2
      <4>2. x[3] = y[3]
        BY <2>0, <4>1
      <4> QED BY <2>0, <2>1, <3>2, <4>2, Zenon
    <3>3. CASE ~(y[1] = k /\ y[2] = p) /\ y = d
      <4>1. x[3] + 1 = 1
        BY <1>2, <3>1, <3>3
      <4> QED BY <2>0, <3>1, <4>1
    <3>4. CASE ~(y[1] = k /\ y[2] = p) /\ y # d
      BY <1>2, <3>1, <3>4
    <3> QED BY <3>2, <3>3, <3>4, Zenon
  <2>2. CASE y[1] = k /\ y[2] = p
    <3>1. Was(y) = <<k, p, y[3] + 1>> /\ y[3] # 0
      BY <2>2, Zenon
    <3>2. CASE ~(x[1] = k /\ x[2] = p) /\ x = d
      <4>1. y[3] + 1 = 1
        BY <1>2, <3>1, <3>2
      <4> QED BY <2>0, <3>1, <4>1
    <3>3. CASE ~(x[1] = k /\ x[2] = p) /\ x # d
      BY <1>2, <3>1, <3>3
    <3> QED BY <2>1, <3>2, <3>3, Zenon
  <2>3. CASE ~(x[1] = k /\ x[2] = p) /\ ~(y[1] = k /\ y[2] = p)
    BY <1>2, <2>3
  <2> QED BY <2>1, <2>2, <2>3, Zenon
<1>3. /\ \A x \in Spots' : m[x] \in Spots /\ BufferAt(x)' = BufferAt(m[x])
      /\ \A x, y \in Spots' : m[x] = m[y] => x = y
  BY <1>1, <1>2, Zenon
<1> HIDE DEF m
<1> QED BY <1>3, Moved, Zenon

(* A buffer that was not out appears at spot b. *)
LEMMA Appears ==
  ASSUME FwOnce, NEW b, BufferAt(b)' \notin out, out' = out \cup {BufferAt(b)'},
         \A x \in Spots' : x # b => x \in Spots /\ BufferAt(x)' = BufferAt(x)
  PROVE  FwOnce'
<1>1. \A x \in Spots' : BufferAt(x)' \in out'
  BY Zenon DEF FwOnce
<1>2. ASSUME NEW x \in Spots', NEW y \in Spots', BufferAt(x)' = BufferAt(y)' PROVE x = y
  BY <1>2 DEF FwOnce
<1> QED BY <1>1, <1>2, Zenon DEF FwOnce

(* The buffer at spot a goes back to the pool. *)
LEMMA Disappears ==
  ASSUME FwOnce, NEW a \in Spots, out' = out \ {BufferAt(a)},
         \A x \in Spots' : x \in Spots /\ x # a /\ BufferAt(x)' = BufferAt(x)
  PROVE  FwOnce'
<1>1. \A x \in Spots' : BufferAt(x)' \in out'
  BY DEF FwOnce
<1>2. ASSUME NEW x \in Spots', NEW y \in Spots', BufferAt(x)' = BufferAt(y)' PROVE x = y
  BY <1>2, Zenon DEF FwOnce
<1> QED BY <1>1, <1>2, Zenon DEF FwOnce

-----------------------------------------------------------------------------
(* The forwarder keeps the contract of the pool *)

(* A running thread finds every cache alive. *)
LEMMA Running ==
  ASSUME FwMain, NEW t \in Threads, pc[t] \notin {"none", "exit"}
  PROVE  main \in {"running", "quit"} /\ live = Caches
BY Zenon DEF FwMain

(* The completion a thread is about to give back is one of the buffers out there. *)
LEMMA NextBack ==
  ASSUME FwInv, NEW t \in Threads, pc[t] = "drain", cursor[t] < peeked[t]
  PROVE  LET q == ports_tx(port[t])
         IN  /\ q \in Caches /\ <<"cq", q, cursor[t] + 1>> \in Spots
             /\ umem_cq[q][cursor[t] + 1] \in out
             /\ BufferAt(<<"cq", q, cursor[t] + 1>>) = umem_cq[q][cursor[t] + 1]
<1> DEFINE q == ports_tx(port[t])
<1>1. port[t] \in ports_rx(t) /\ port[t] \in Caches /\ q \in Caches
  <2>1. port[t] \in ports_rx(t)
    BY Zenon DEF FwInv, FwThreads, ThreadOK, Serving
  <2>2. port[t] \in Caches
    BY <2>1, Zenon DEF ports_rx
  <2> QED BY <2>1, <2>2, TxPort, Zenon
<1>2. /\ cursor[t] \in Nat /\ peeked[t] \in Nat /\ peeked[t] <= Len(umem_cq[q])
      /\ umem_cq[q] \in Seq(Buffers)
  BY <1>1, Zenon DEF FwInv, FwThreads, ThreadOK, FwTypes
<1>3. Len(umem_cq[q]) \in Nat
  BY <1>2, LenOf, Zenon
<1>4. cursor[t] + 1 \in 1 .. Len(umem_cq[q])
  BY <1>2, <1>3
<1>5. ~Back(q, cursor[t] + 1)
  <2> SUFFICES ASSUME NEW u \in Threads, pc[u] = "drain", ports_tx(port[u]) = q, cursor[t] + 1 <= cursor[u]
               PROVE  FALSE
    BY Zenon DEF Back
  <2>1. CASE u = t
    BY <1>2, <2>1
  <2>2. CASE u # t
    <3>1. port[u] \in ports_rx(u)
      BY Zenon DEF FwInv, FwThreads, ThreadOK, Serving
    <3> QED BY <1>1, <2>2, <3>1, OwnPorts, Zenon
  <2> QED BY <2>1, <2>2, Zenon
<1>6. IsSpot("cq", q, cursor[t] + 1)
  BY <1>1, <1>4, <1>5, Zenon DEF IsSpot
<1>7. <<"cq", q, cursor[t] + 1>> \in Spots
  BY <1>6, SpotThere, Zenon
<1>8. BufferAt(<<"cq", q, cursor[t] + 1>>) = umem_cq[q][cursor[t] + 1]
  BY Zenon DEF BufferAt
<1>9. BufferAt(<<"cq", q, cursor[t] + 1>>) \in out
  BY <1>7, Zenon DEF FwInv, FwOnce
<1> QED BY <1>1, <1>7, <1>8, <1>9, Zenon

(* Every step of the forwarder is a call of the pool, made in turn, or leaves the
   pool alone (af_rxtx.c:296-324, 356-401, 442-449). *)
LEMMA Calls == FwInv /\ [Next]_vars => [PoolNext]_poolVars
<1> SUFFICES ASSUME FwInv, [Next]_vars PROVE [PoolNext]_poolVars
  BY Zenon
<1>1. CASE Main
  <2>1. CASE OpenCache
    <3>1. at \in Caches \ live
      BY <2>1, ForwardAssumption DEF OpenCache, FwInv, FwTypes, FwMain
    <3> QED BY <2>1, <3>1, Zenon DEF OpenCache, PoolNext
  <2>2. CASE CheckCache
    <3>1. at \in live
      BY <2>2, ForwardAssumption DEF CheckCache, FwInv, FwTypes, FwMain, Opening
    <3> QED BY <2>2, <3>1, Zenon DEF CheckCache, PoolNext
  <2>3. CASE StageFill
    <3>1. at \in live
      BY <2>3, ForwardAssumption DEF StageFill, FwInv, FwTypes, FwMain, Opening
    <3>2. n_buffers_cons[at] # 0
      <4>1. Len(staged) \in Nat
        BY LenOf, Zenon DEF FwInv, FwTypes
      <4>2. n_buffers_cons[at] + Len(staged) >= fill_size /\ Len(staged) < fill_size
        BY <2>3, Zenon DEF StageFill, FwInv, FwMain, Opening
      <4> QED BY <4>1, <4>2, ForwardAssumption
    <3> QED BY <2>3, <3>1, <3>2, Zenon DEF StageFill, PoolNext
  <2>4. CASE PortInitFails
    BY <2>4, Zenon DEF PortInitFails, PoolNext
  <2>5. CASE port_free
    <3>1. at \in live
      BY <2>5, ForwardAssumption DEF port_free, FwInv, FwTypes, FwMain
    <3> QED BY <2>5, <3>1, Zenon DEF port_free, PoolNext
  <2>6. CASE \/ OpenSocket \/ UpdateXskmap \/ SubmitFill \/ XskmapFails \/ StartThreads \/ Signal
             \/ SetQuit \/ JoinThreads \/ bpool_free
    BY <2>6, Zenon DEF OpenSocket, UpdateXskmap, SubmitFill, XskmapFails, StartThreads, Signal, SetQuit,
                JoinThreads, bpool_free
  <2> QED BY <1>1, <2>1, <2>2, <2>3, <2>4, <2>5, <2>6, Zenon DEF Main
<1>2. ASSUME NEW t \in Threads, Thread(t) PROVE [PoolNext]_poolVars
  <2>1. CASE CheckBuffers(t)
    <3>1. port[t] \in live
      BY <2>1, Running, Zenon DEF CheckBuffers, FwInv, FwTypes
    <3> QED BY <2>1, <3>1, Zenon DEF CheckBuffers, PoolNext
  <2>2. CASE Replenish(t)
    <3>1. port[t] \in live
      BY <2>2, Running, Zenon DEF Replenish, FwInv, FwTypes
    <3>2. n_buffers_cons[port[t]] # 0
      BY <2>2, Zenon DEF Replenish, FwInv, FwThreads, ThreadOK
    <3> QED BY <2>2, <3>1, <3>2, Zenon DEF Replenish, PoolNext
  <2>3. CASE GiveBack(t)
    <3>1. pc[t] = "drain" /\ cursor[t] < peeked[t]
      BY <2>3, Zenon DEF GiveBack
    <3>2. ports_tx(port[t]) \in live /\ umem_cq[ports_tx(port[t])][cursor[t] + 1] \in out
      BY <3>1, NextBack, Running, Zenon DEF FwInv
    <3> QED BY <2>3, <3>2, Zenon DEF GiveBack, PoolNext
  <2>4. CASE \/ LoopTop(t) \/ Poll(t) \/ NextPort(t) \/ TakePacket(t) \/ SendPacket(t)
             \/ PeekCompletions(t) \/ ReleaseCompletions(t)
    BY <2>4, Zenon DEF LoopTop, Poll, NextPort, TakePacket, SendPacket, PeekCompletions, ReleaseCompletions
  <2> QED BY <1>2, <2>1, <2>2, <2>3, <2>4, Zenon DEF Thread
<1>3. ASSUME NEW p \in Caches, Receive(p) \/ Transmit(p) PROVE [PoolNext]_poolVars
  BY <1>3, Zenon DEF Receive, Transmit
<1>4. CASE Terminated \/ UNCHANGED vars
  BY <1>4, Zenon DEF Terminated, vars
<1> QED BY <1>1, <1>2, <1>3, <1>4, Zenon DEF Next

-----------------------------------------------------------------------------
(* main keeps the invariant *)

(* A step that moves no buffer outside the pool. *)
LEMMA StillOnce ==
  ASSUME FwOnce, out \subseteq out', UNCHANGED <<staged, rings, threadVars>>
  PROVE  FwOnce'
<1>1. \A p, i : Back(p, i)' <=> Back(p, i)
  BY Zenon DEF Back, threadVars
<1>2. \A k, p, i : IsSpot(k, p, i)' <=> IsSpot(k, p, i)
  BY <1>1 DEF IsSpot, rings, threadVars
<1>3. Spots' = Spots
  BY <1>2, SameSpots, Zenon
<1>4. \A x : BufferAt(x)' = BufferAt(x)
  BY Zenon DEF BufferAt, rings, threadVars
<1> QED BY <1>3, <1>4, Unmoved, Zenon

(* While no thread runs, the counts of the caches are nobody's business. *)
LEMMA NoThreads ==
  ASSUME FwThreads, UNCHANGED <<rings, threadVars>>,
         (\A t \in Threads : pc[t] \in {"none", "exit"}) \/ UNCHANGED n_buffers_cons
  PROVE  FwThreads'
<1> SUFFICES ASSUME NEW t \in Threads PROVE ThreadOK(t)'
  BY Zenon DEF FwThreads
<1>1. ThreadOK(t)
  BY Zenon DEF FwThreads
<1> QED BY <1>1, Zenon DEF ThreadOK, rings, threadVars

(* bcache_init in port_init: the caches alive are those up to the port being opened. *)
LEMMA OpenCacheInv == ASSUME FwInv, PoolInv', OpenCache PROVE FwInv'
<1> USE DEF FwInv, OpenCache
<1>1. FwTypes'
  BY Zenon DEF FwTypes, rings, threadVars
<1>2. FwMain'
  <2>1. live' = live \cup {at} /\ live = 0 .. (at - 1) /\ at \in Nat /\ at < NPorts
    BY Zenon DEF bcache_init, FwMain, FwTypes
  <2>2. live' = 0 .. at
    BY <2>1
  <2> QED BY <2>1, <2>2, Zenon DEF FwMain, Opening, threadVars
<1>3. FwThreads'
  <2>1. \A t \in Threads : pc[t] \in {"none", "exit"}
    BY Zenon DEF FwMain
  <2> QED BY <2>1, NoThreads, Zenon
<1>4. FwOnce'
  BY StillOnce, Zenon DEF bcache_init
<1> QED BY <1>1, <1>2, <1>3, <1>4, Zenon

(* The check of port_init leaves enough buffers for the whole fill ring. *)
LEMMA CheckCacheInv == ASSUME FwInv, PoolInv', CheckCache PROVE FwInv'
<1> USE DEF FwInv, CheckCache
<1>1. FwTypes'
  BY Zenon DEF FwTypes, rings, threadVars
<1>2. FwMain'
  <2>1. live' = live /\ live = 0 .. at /\ at \in Nat /\ at < NPorts /\ staged = <<>> /\ at \in Caches
    BY ForwardAssumption DEF bcache_cons_check, TradeConsumerSlab, poolVars, FwMain, FwTypes, Opening
  <2>2. n_buffers_cons'[at] >= fill_size
    <3>1. n_buffers_cons \in [Caches -> 0 .. BuffersPerSlab]
      BY Zenon DEF PoolInv, TypeOK
    <3>2. CASE n_buffers_cons[at] = 0 /\ n_slabs_available # 0
      <4>1. n_buffers_cons'[at] = BuffersPerSlab
        BY <2>1, <3>1, <3>2, Zenon DEF bcache_cons_check, TradeConsumerSlab
      <4> QED BY <4>1, Zenon
    <3>3. CASE n_buffers_cons[at] # 0
      <4>1. n_buffers_cons' = n_buffers_cons
        BY <3>3, Zenon DEF bcache_cons_check, poolVars, consSide
      <4>2. n_buffers_cons[at] >= fill_size
        BY <2>1, <3>1, <3>3, ForwardAssumption, PoolAssumption DEF bcache_cons_check_ret
      <4> QED BY <4>1, <4>2, Zenon
    <3>4. CASE n_buffers_cons[at] = 0 /\ n_slabs_available = 0
      BY <3>4, ForwardAssumption DEF bcache_cons_check_ret
    <3> QED BY <3>2, <3>3, <3>4, Zenon
  <2>3. Len(staged') = 0 /\ n_buffers_cons'[at'] + Len(staged') >= fill_size
    <3>1. n_buffers_cons'[at] \in Nat
      BY <2>1, PoolAssumption DEF PoolInv, TypeOK
    <3>2. Len(staged') = 0
      BY <2>1, Zenon
    <3> QED BY <2>2, <3>1, <3>2, ForwardAssumption
  <2> QED BY <2>1, <2>3, Zenon DEF FwMain, Opening, threadVars
<1>3. FwThreads'
  <2>1. \A t \in Threads : pc[t] \in {"none", "exit"}
    BY Zenon DEF FwMain
  <2> QED BY <2>1, NoThreads, Zenon
<1>4. FwOnce'
  BY StillOnce, Zenon DEF bcache_cons_check, TradeConsumerSlab, poolVars
<1> QED BY <1>1, <1>2, <1>3, <1>4, Zenon

(* The steps of main that touch neither the pool nor a ring. *)
LEMMA QuietMainInv ==
  ASSUME FwInv, PoolInv',
         \/ OpenSocket \/ UpdateXskmap \/ XskmapFails \/ Signal \/ SetQuit \/ JoinThreads \/ bpool_free
  PROVE  FwInv'
<1>1. /\ UNCHANGED <<poolVars, staged, rings, threadVars>>
      /\ at' \in {at, 0, at + 1}
  BY Zenon DEF OpenSocket, UpdateXskmap, XskmapFails, Signal, SetQuit, JoinThreads, bpool_free
<1>2. UNCHANGED <<live, n_buffers_cons, out, pc>>
  BY <1>1, Zenon DEF poolVars, consSide, threadVars
<1>3. FwTypes'
  BY <1>1 DEF FwInv, FwTypes, rings, threadVars
<1>4. FwMain'
  <2>0. FwMain /\ at \in Nat /\ staged' = staged
    BY <1>1, Zenon DEF FwInv, FwTypes
  <2>1. CASE OpenSocket
    BY <1>2, <2>0, <2>1, Zenon DEF FwMain, Opening, OpenSocket
  <2>2. CASE UpdateXskmap
    BY <1>2, <2>0, <2>2, Zenon DEF FwMain, Opening, UpdateXskmap
  <2>3. CASE XskmapFails
    BY <1>2, <2>0, <2>3, Zenon DEF FwMain, Opening, XskmapFails
  <2>4. CASE Signal
    BY <1>2, <2>0, <2>4, Zenon DEF FwMain, Opening, Signal
  <2>5. CASE SetQuit
    BY <1>2, <2>0, <2>5, Zenon DEF FwMain, Opening, SetQuit
  <2>6. CASE JoinThreads
    BY <1>2, <2>0, <2>6, ForwardAssumption, Zenon DEF FwMain, Opening, JoinThreads
  <2>7. CASE bpool_free
    BY <1>2, <2>0, <2>7, Zenon DEF FwMain, Opening, bpool_free
  <2> QED BY <2>1, <2>2, <2>3, <2>4, <2>5, <2>6, <2>7, Zenon
<1>5. FwThreads'
  BY <1>1, <1>2, NoThreads, Zenon DEF FwInv
<1>6. FwOnce'
  BY <1>1, <1>2, StillOnce, Zenon DEF FwInv
<1> QED BY <1>3, <1>4, <1>5, <1>6, Zenon DEF FwInv

(* The threads start when every cache is alive, and start with nothing given back. *)
LEMMA StartThreadsInv == ASSUME FwInv, PoolInv', StartThreads PROVE FwInv'
<1> USE DEF FwInv, StartThreads
<1>1. UNCHANGED <<live, n_buffers_cons, out, staged, rings, ready, port, pkt, cursor, peeked, at>>
  BY Zenon DEF poolVars, consSide
<1>2. FwTypes'
  BY <1>1, Zenon DEF FwTypes, rings, Pcs
<1>3. FwMain'
  BY <1>1, ForwardAssumption, Zenon DEF FwMain, Opening
<1>4. \A t \in Threads : pc[t] \in {"none", "exit"} /\ pc'[t] = "loop"
  BY Zenon DEF FwMain
<1>5. FwThreads'
  <2> SUFFICES ASSUME NEW t \in Threads PROVE ThreadOK(t)'
    BY Zenon DEF FwThreads
  <2>1. ThreadOK(t)
    BY Zenon DEF FwThreads
  <2> QED BY <1>1, <1>4, <2>1, Zenon DEF ThreadOK, Serving
<1>6. FwOnce'
  <2>1. \A p, i : ~Back(p, i) /\ ~Back(p, i)'
    BY <1>4, Zenon DEF Back
  <2>2. \A k, p, i : IsSpot(k, p, i)' <=> IsSpot(k, p, i)
    BY <1>1, <2>1 DEF IsSpot, rings
  <2>3. Spots' = Spots
    BY <2>2, SameSpots, Zenon
  <2>4. \A x : BufferAt(x)' = BufferAt(x)
    BY <1>1, Zenon DEF BufferAt, rings
  <2> QED BY <1>1, <2>3, <2>4, Unmoved, Zenon
<1> QED BY <1>2, <1>3, <1>5, <1>6, Zenon

(* Both ways to free a cache. *)
LEMMA FreeInv == ASSUME FwInv, PoolInv', PortInitFails \/ port_free PROVE FwInv'
<1>1. UNCHANGED <<staged, rings, threadVars, out>> /\ at' \in {at, at + 1}
  BY Zenon DEF PortInitFails, port_free, bcache_free, poolVars
<1>2. FwTypes'
  BY <1>1 DEF FwInv, FwTypes, rings, threadVars
<1>3. \A t \in Threads : pc[t] \in {"none", "exit"}
  BY Zenon DEF FwInv, FwMain, PortInitFails, port_free
<1>4. FwMain'
  <2>0. FwMain /\ at \in Nat /\ staged' = staged /\ pc' = pc
    BY <1>1, Zenon DEF FwInv, FwTypes, threadVars
  <2>1. CASE PortInitFails
    BY <1>3, <2>0, <2>1, Zenon DEF FwMain, Opening, PortInitFails
  <2>2. CASE port_free
    <3>1. live = at .. (NPorts - 1) /\ at' = at + 1 /\ live' = live \ {at} /\ main' = "free" /\ staged = <<>>
      BY <2>0, <2>2, Zenon DEF FwMain, port_free, bcache_free
    <3>2. live' = (at + 1) .. (NPorts - 1)
      BY <2>0, <3>1, ForwardAssumption
    <3> QED BY <1>3, <2>0, <3>1, <3>2, Zenon DEF FwMain, Opening
  <2> QED BY <2>1, <2>2, Zenon
<1>5. FwThreads'
  BY <1>1, <1>3, NoThreads, Zenon DEF FwInv
<1>6. FwOnce'
  BY <1>1, StillOnce, Zenon DEF FwInv
<1> QED BY <1>2, <1>4, <1>5, <1>6, Zenon DEF FwInv

(* What bcache_cons hands out was nowhere outside the pool. *)
LEMMA Taken ==
  ASSUME PoolInv, NEW c \in live, n_buffers_cons[c] # 0
  PROVE  bcache_cons_ret(c) \in Buffers /\ bcache_cons_ret(c) \notin out
<1> DEFINE n == n_buffers_cons[c] - 1
           q == <<<<"cons", c>>, n>>
<1>1. /\ n_buffers_cons[c] \in 0 .. BuffersPerSlab /\ slab_cons[c] \in Slabs
      /\ cells \in [Slabs -> [Cells -> Buffers]]
  BY Zenon DEF PoolInv, TypeOK
<1>2. n \in Cells
  BY <1>1, PoolAssumption DEF Cells
<1>3. <<"cons", c>> \in Places
  BY Zenon DEF Places
<1>4. FilledAt(<<"cons", c>>) = n_buffers_cons[c] /\ SlabAt(<<"cons", c>>) = slab_cons[c]
  BY Zenon DEF FilledAt, SlabAt
<1>5. n < n_buffers_cons[c]
  BY <1>1, PoolAssumption
<1>6. q \in LiveCells
  BY <1>2, <1>3, <1>4, <1>5, Zenon DEF LiveCells
<1>7. BufferIn(q) = bcache_cons_ret(c)
  BY <1>4, Zenon DEF BufferIn, bcache_cons_ret
<1>8. BufferIn(q) \notin out
  BY <1>6, Zenon DEF PoolInv, BuffersNotShared
<1>9. bcache_cons_ret(c) \in Buffers
  BY <1>1, <1>2, Zenon DEF bcache_cons_ret
<1> QED BY <1>7, <1>8, <1>9, Zenon

(* The next address of the initial fill comes out of the pool. *)
LEMMA StageFillInv == ASSUME FwInv, PoolInv', StageFill PROVE FwInv'
<1> DEFINE b == bcache_cons_ret(at)
<1>0. PICK d : d = <<"staged", 0, Len(staged) + 1>>
  BY Zenon
<1>1. /\ at \in live /\ at \in Caches /\ at \in Nat /\ n_buffers_cons[at] \in Nat
      /\ staged \in Seq(Buffers) /\ main = "fill"
  BY ForwardAssumption, PoolAssumption DEF StageFill, FwInv, FwTypes, FwMain, Opening, PoolInv, TypeOK
<1>2. Len(staged) \in Nat
  BY <1>1, LenOf, Zenon
<1>3. n_buffers_cons[at] + Len(staged) >= fill_size /\ Len(staged) < fill_size
  BY Zenon DEF StageFill, FwInv, FwMain, Opening
<1>4. n_buffers_cons[at] # 0
  BY <1>1, <1>2, <1>3, ForwardAssumption
<1>5. b \in Buffers /\ b \notin out
  BY <1>1, <1>4, Taken, Zenon DEF FwInv
<1>6. /\ staged' = Append(staged, b) /\ out' = out \cup {b} /\ UNCHANGED <<main, at, live, rings, threadVars>>
      /\ n_buffers_cons' = [n_buffers_cons EXCEPT ![at] = @ - 1]
  BY Zenon DEF StageFill, bcache_cons
<1> HIDE DEF b
<1>7. /\ staged' \in Seq(Buffers) /\ Len(staged') = Len(staged) + 1 /\ staged'[Len(staged) + 1] = b
      /\ \A i \in 1 .. Len(staged) : staged'[i] = staged[i]
  BY <1>1, <1>5, <1>6, AppendTo
<1>8. FwTypes'
  BY <1>6, <1>7, Zenon DEF FwInv, FwTypes, rings, threadVars
<1>9. FwMain'
  <2>1. n_buffers_cons'[at] = n_buffers_cons[at] - 1
    BY <1>1, <1>6, Zenon DEF FwInv, PoolInv, TypeOK
  <2>2. n_buffers_cons'[at] + Len(staged') >= fill_size
    BY <1>1, <1>2, <1>3, <1>7, <2>1, ForwardAssumption
  <2> QED BY <1>1, <1>6, <2>2, Zenon DEF FwInv, FwMain, Opening, threadVars
<1>10. FwThreads'
  <2>1. \A t \in Threads : pc[t] \in {"none", "exit"}
    BY <1>1, Zenon DEF FwInv, FwMain
  <2> QED BY <1>6, <2>1, NoThreads, Zenon DEF FwInv
<1>11. FwOnce'
  <2>1. \A p, i : Back(p, i)' <=> Back(p, i)
    BY <1>6, Zenon DEF Back, threadVars
  <2>2. ASSUME NEW x \in Spots', x # d PROVE x \in Spots /\ BufferAt(x)' = BufferAt(x)
    <3>1. x = <<x[1], x[2], x[3]>> /\ IsSpot(x[1], x[2], x[3])' /\ x[3] \in Nat
      BY SpotForm, Zenon
    <3>2. CASE x[1] = "staged"
      <4>1. x[2] = 0 /\ x[3] \in 1 .. Len(staged')
        BY <3>1, <3>2, Zenon DEF IsSpot
      <4>2. x[3] # Len(staged) + 1
        BY <1>0, <2>2, <3>1, <3>2, <4>1, Zenon
      <4>3. x[3] \in 1 .. Len(staged)
        BY <1>2, <1>7, <4>1, <4>2
      <4>4. IsSpot(x[1], x[2], x[3])
        BY <3>2, <4>1, <4>3, Zenon DEF IsSpot
      <4>5. BufferAt(x)' = BufferAt(x)
        BY <1>7, <3>2, <4>3, Zenon DEF BufferAt
      <4> QED BY <3>1, <4>4, <4>5, SpotThere, Zenon
    <3>3. CASE x[1] # "staged"
      <4>1. IsSpot(x[1], x[2], x[3])
        BY <1>6, <2>1, <3>1, <3>3, Zenon DEF IsSpot, rings, threadVars
      <4>2. BufferAt(x)' = BufferAt(x)
        BY <1>6, <3>3, Zenon DEF BufferAt, rings, threadVars
      <4> QED BY <3>1, <4>1, <4>2, SpotThere, Zenon
    <3> QED BY <3>2, <3>3, Zenon
  <2>3. BufferAt(d)' = b
    BY <1>0, <1>2, <1>7, Zenon DEF BufferAt
  <2> QED BY <1>5, <1>6, <2>2, <2>3, Appears, Zenon DEF FwInv
<1> QED BY <1>8, <1>9, <1>10, <1>11, Zenon DEF FwInv

(* The submit of port_init moves what was staged to the fill ring. *)
LEMMA SubmitFillInv == ASSUME FwInv, PoolInv', SubmitFill PROVE FwInv'
<1> DEFINE m == [x \in Spots' |-> IF x[1] = "fq" /\ x[2] = at THEN <<"staged", 0, x[3]>> ELSE x]
<1>1. /\ main = "fill" /\ at \in Nat /\ at \in Caches /\ at < NPorts /\ live = 0 .. at
      /\ staged \in Seq(Buffers) /\ umem_fq \in [Caches -> Seq(Buffers)]
  BY ForwardAssumption DEF SubmitFill, FwInv, FwTypes, FwMain, Opening
<1>2. /\ umem_fq' = [umem_fq EXCEPT ![at] = staged] /\ staged' = <<>> /\ at' = at + 1 /\ main' = "bcache"
      /\ UNCHANGED <<live, n_buffers_cons, out, rxq, txq, umem_cq, threadVars>>
  BY Zenon DEF SubmitFill, poolVars, consSide
<1>3. \A t \in Threads : pc[t] \in {"none", "exit"}
  BY <1>1, Zenon DEF FwInv, FwMain
<1>4. FwTypes'
  BY <1>1, <1>2 DEF FwInv, FwTypes, threadVars
<1>5. FwMain'
  <2>1. live' = 0 .. (at' - 1) /\ at' <= NPorts
    BY <1>1, <1>2, ForwardAssumption
  <2> QED BY <1>2, <1>3, <2>1, Zenon DEF FwMain, Opening, threadVars
<1>6. FwThreads'
  <2> SUFFICES ASSUME NEW t \in Threads PROVE ThreadOK(t)'
    BY Zenon DEF FwThreads
  <2>1. ThreadOK(t)
    BY Zenon DEF FwInv, FwThreads
  <2> QED BY <1>2, <2>1, Zenon DEF ThreadOK, threadVars
<1>7. FwOnce'
  <2>1. \A p, i : Back(p, i)' <=> Back(p, i)
    BY <1>2, Zenon DEF Back, threadVars
  <2>2. ASSUME NEW x \in Spots' PROVE m[x] \in Spots /\ BufferAt(x)' = BufferAt(m[x]) /\ x[1] # "staged"
    <3>1. x = <<x[1], x[2], x[3]>> /\ IsSpot(x[1], x[2], x[3])' /\ x[3] \in Nat
      BY SpotForm, Zenon
    <3>2. x[1] # "staged"
      <4>1. Len(staged') = 0
        BY <1>2, Zenon
      <4> QED BY <3>1, <4>1 DEF IsSpot
    <3>3. CASE x[1] = "fq" /\ x[2] = at
      <4>1. umem_fq'[at] = staged
        BY <1>1, <1>2, Zenon
      <4>2. x[3] \in 1 .. Len(staged)
        BY <3>1, <3>3, <4>1, Zenon DEF IsSpot
      <4>3. IsSpot("staged", 0, x[3])
        BY <4>2, Zenon DEF IsSpot
      <4>4. BufferAt(x)' = staged[x[3]] /\ BufferAt(<<"staged", 0, x[3]>>) = staged[x[3]]
        BY <3>3, <4>1, Zenon DEF BufferAt
      <4>5. m[x] = <<"staged", 0, x[3]>>
        BY <3>3, Zenon
      <4> HIDE DEF m
      <4> QED BY <3>2, <4>3, <4>4, <4>5, SpotThere, Zenon
    <3>4. CASE ~(x[1] = "fq" /\ x[2] = at)
      <4>1. x[1] = "fq" /\ x[2] \in Caches => umem_fq'[x[2]] = umem_fq[x[2]]
        BY <1>1, <1>2, <3>4, Zenon
      <4>2. IsSpot(x[1], x[2], x[3])
        BY <1>2, <2>1, <3>1, <3>2, <4>1, Zenon DEF IsSpot, threadVars
      <4>3. BufferAt(x)' = BufferAt(x)
        BY <1>2, <3>1, <3>2, <4>1 DEF BufferAt, threadVars, IsSpot
      <4>4. m[x] = x
        BY <3>4, Zenon
      <4> HIDE DEF m
      <4> QED BY <3>1, <3>2, <4>2, <4>3, <4>4, SpotThere, Zenon
    <3> QED BY <3>3, <3>4, Zenon
  <2>3. ASSUME NEW x \in Spots', NEW y \in Spots', m[x] = m[y] PROVE x = y
    <3>1. /\ x = <<x[1], x[2], x[3]>> /\ x[1] # "staged"
          /\ y = <<y[1], y[2], y[3]>> /\ y[1] # "staged"
      BY <2>2, SpotForm, Zenon
    <3> QED BY <2>3, <3>1
  <2> HIDE DEF m
  <2> QED BY <1>2, <2>2, <2>3, Moved, Zenon DEF FwInv
<1> QED BY <1>4, <1>5, <1>6, <1>7, Zenon DEF FwInv

-----------------------------------------------------------------------------
(* The threads keep the invariant *)

(* main waits while a thread runs. *)
LEMMA MainWaits ==
  ASSUME FwMain, NEW t \in Threads, pc[t] \notin {"none", "exit"}, UNCHANGED <<mainVars, live>>
  PROVE  FwMain'
<1>1. main \in {"running", "quit"} /\ UNCHANGED <<main, at, staged, live>>
  BY Running, Zenon DEF mainVars
<1> QED BY <1>1, Zenon DEF FwMain, Opening

(* What thread t does is nothing to thread u, whose ports are others. *)
LEMMA OtherThread ==
  ASSUME FwThreads, NEW t \in Threads, NEW u \in Threads, u # t, port[t] \in ports_rx(t),
         /\ ready'[u] = ready[u] /\ pc'[u] = pc[u] /\ port'[u] = port[u]
         /\ pkt'[u] = pkt[u] /\ cursor'[u] = cursor[u] /\ peeked'[u] = peeked[u],
         \A p \in Caches : p # port[t] => n_buffers_cons'[p] = n_buffers_cons[p],
         \A p \in Caches : p # ports_tx(port[t]) => umem_cq'[p] = umem_cq[p]
  PROVE  ThreadOK(u)'
<1>1. ThreadOK(u)
  BY Zenon DEF FwThreads
<1>2. CASE pc[u] \notin Serving
  BY <1>1, <1>2, Zenon DEF ThreadOK, Serving
<1>3. CASE pc[u] \in Serving
  <2>1. port[u] \in ports_rx(u)
    BY <1>1, <1>3, Zenon DEF ThreadOK
  <2>2. /\ port[u] # port[t] /\ ports_tx(port[u]) # ports_tx(port[t])
        /\ port[u] \in Caches /\ ports_tx(port[u]) \in Caches
    BY <2>1, OwnPorts
  <2>3. /\ n_buffers_cons'[port[u]] = n_buffers_cons[port[u]]
        /\ umem_cq'[ports_tx(port[u])] = umem_cq[ports_tx(port[u])]
    BY <2>2, Zenon
  <2>4. ports_tx(port[u])' = ports_tx(port[u])
    BY Zenon DEF ports_tx
  <2> QED BY <1>1, <2>3, <2>4, Zenon DEF ThreadOK
<1> QED BY <1>2, <1>3, Zenon

(* The same when thread t has no port yet, or touches neither a cache nor the
   completions. *)
LEMMA QuietOther ==
  ASSUME FwThreads, NEW u \in Threads, UNCHANGED <<n_buffers_cons, umem_cq>>,
         /\ ready'[u] = ready[u] /\ pc'[u] = pc[u] /\ port'[u] = port[u]
         /\ pkt'[u] = pkt[u] /\ cursor'[u] = cursor[u] /\ peeked'[u] = peeked[u]
  PROVE  ThreadOK(u)'
<1>1. ThreadOK(u)
  BY Zenon DEF FwThreads
<1>2. ports_tx(port[u])' = ports_tx(port[u])
  BY Zenon DEF ports_tx
<1> QED BY <1>1, <1>2, Zenon DEF ThreadOK

(* A thread that has given nothing back leaves the completions as they were. *)
LEMMA BackKept ==
  ASSUME FwTypes, NEW t \in Threads, cursor[t] = 0, cursor'[t] = 0, NEW p, NEW i \in Nat \ {0},
         \A u \in Threads : u # t => pc'[u] = pc[u] /\ port'[u] = port[u] /\ cursor'[u] = cursor[u]
  PROVE  Back(p, i)' <=> Back(p, i)
<1>1. ~(i <= 0)
  OBVIOUS
<1>2. ASSUME NEW u \in Threads, u # t
      PROVE  (pc[u] = "drain" /\ ports_tx(port[u]) = p /\ i <= cursor[u])' <=>
             (pc[u] = "drain" /\ ports_tx(port[u]) = p /\ i <= cursor[u])
  BY <1>2, Zenon DEF ports_tx
<1>3. ASSUME Back(p, i) PROVE Back(p, i)'
  <2>1. PICK u \in Threads : pc[u] = "drain" /\ ports_tx(port[u]) = p /\ i <= cursor[u]
    BY <1>3, Zenon DEF Back
  <2>2. u # t
    BY <1>1, <2>1, Zenon
  <2> QED BY <1>2, <2>1, <2>2, Zenon DEF Back
<1>4. ASSUME Back(p, i)' PROVE Back(p, i)
  <2>1. PICK u \in Threads : (pc[u] = "drain" /\ ports_tx(port[u]) = p /\ i <= cursor[u])'
    BY <1>4, Zenon DEF Back
  <2>2. u # t
    BY <1>1, <2>1, Zenon
  <2> QED BY <1>2, <2>1, <2>2, Zenon DEF Back
<1> QED BY <1>3, <1>4, Zenon

(* a step of thread t changes what is its own *)
OnlyThread(t) ==
  /\ pc' \in [Threads -> Pcs] /\ ready' \in [Threads -> SUBSET Caches]
  /\ port' \in [Threads -> Caches] /\ pkt' \in [Threads -> Buffers \cup {NoBuffer}]
  /\ cursor' \in [Threads -> Nat] /\ peeked' \in [Threads -> Nat]
  /\ \A u \in Threads : u # t =>
        /\ ready'[u] = ready[u] /\ pc'[u] = pc[u] /\ port'[u] = port[u]
        /\ pkt'[u] = pkt[u] /\ cursor'[u] = cursor[u] /\ peeked'[u] = peeked[u]

(* A step of a thread that moves no packet and no completion. *)
LEMMA QuietStep ==
  ASSUME FwInv, PoolInv', NEW t \in Threads, OnlyThread(t), ThreadOK(t)',
         pc[t] \notin {"none", "exit", "drain"}, UNCHANGED <<mainVars, rings, pkt, cursor, live, out>>,
         \/ UNCHANGED n_buffers_cons
         \/ /\ port[t] \in ports_rx(t)
            /\ \A p \in Caches : p # port[t] => n_buffers_cons'[p] = n_buffers_cons[p]
  PROVE  FwInv'
<1>1. FwTypes'
  BY Zenon DEF FwInv, FwTypes, OnlyThread, mainVars, rings
<1>2. FwMain'
  BY MainWaits, Zenon DEF FwInv
<1>3. FwThreads'
  <2> SUFFICES ASSUME NEW u \in Threads, u # t PROVE ThreadOK(u)'
    BY Zenon DEF FwThreads
  <2>1. /\ ready'[u] = ready[u] /\ pc'[u] = pc[u] /\ port'[u] = port[u]
        /\ pkt'[u] = pkt[u] /\ cursor'[u] = cursor[u] /\ peeked'[u] = peeked[u]
    BY Zenon DEF OnlyThread
  <2>2. umem_cq' = umem_cq /\ FwThreads
    BY Zenon DEF rings, FwInv
  <2>3. CASE UNCHANGED n_buffers_cons
    BY <2>1, <2>2, <2>3, QuietOther, Zenon
  <2>4. CASE /\ port[t] \in ports_rx(t)
             /\ \A p \in Caches : p # port[t] => n_buffers_cons'[p] = n_buffers_cons[p]
    BY <2>1, <2>2, <2>4, OtherThread, ZenonT(30)
  <2> QED BY <2>3, <2>4, Zenon
<1>4. FwOnce'
  <2>1. cursor[t] = 0 /\ cursor'[t] = 0
    BY Zenon DEF FwInv, FwThreads, ThreadOK
  <2>2. \A p : \A i \in Nat \ {0} : Back(p, i)' <=> Back(p, i)
    BY <2>1, BackKept, Zenon DEF FwInv, OnlyThread
  <2>3. ASSUME NEW x \in Spots' PROVE x \in Spots /\ BufferAt(x)' = BufferAt(x)
    <3>1. x = <<x[1], x[2], x[3]>> /\ IsSpot(x[1], x[2], x[3])' /\ x[3] \in Nat
      BY SpotForm, Zenon
    <3>2. IsSpot(x[1], x[2], x[3])
      BY <2>2, <3>1, SMTT(30) DEF IsSpot, rings, mainVars
    <3>3. BufferAt(x)' = BufferAt(x)
      BY ZenonT(30) DEF BufferAt, rings, mainVars
    <3> QED BY <3>1, <3>2, <3>3, SpotThere
  <2> QED BY <2>3, Unmoved, Zenon DEF FwInv
<1> QED BY <1>1, <1>2, <1>3, <1>4, Zenon DEF FwInv

(* The test of quit at the top of a thread's loop. *)
LEMMA LoopTopInv == ASSUME FwInv, PoolInv', NEW t \in Threads, LoopTop(t) PROVE FwInv'
<1> DEFINE where == IF quit[t] THEN "exit" ELSE "poll"
<1>1. /\ pc[t] = "loop" /\ pc' = [pc EXCEPT ![t] = where]
      /\ UNCHANGED <<poolVars, mainVars, rings, ready, port, pkt, cursor, peeked>>
  BY Zenon DEF LoopTop, goto
<1>2. where \in {"exit", "poll"}
  BY Zenon
<1> HIDE DEF where
<1>3. UNCHANGED <<live, out, n_buffers_cons>>
  BY <1>1, Zenon DEF poolVars, consSide
<1>4. OnlyThread(t) /\ pc'[t] = where
  BY <1>1, <1>2, Zenon DEF OnlyThread, FwInv, FwTypes, Pcs
<1>5. ThreadOK(t)
  BY Zenon DEF FwInv, FwThreads
<1>6. ThreadOK(t)'
  BY <1>1, <1>2, <1>3, <1>4, <1>5, Zenon DEF ThreadOK, Serving
<1> QED BY <1>1, <1>3, <1>4, <1>6, QuietStep, ZenonT(30)

(* poll reports ports of the thread only. *)
LEMMA PollInv == ASSUME FwInv, PoolInv', NEW t \in Threads, Poll(t) PROVE FwInv'
<1>1. /\ pc[t] = "poll" /\ pc' = [pc EXCEPT ![t] = "port"]
      /\ ready' = [ready EXCEPT ![t] = {p \in ports_rx(t) : rxq[p] # <<>>}]
      /\ UNCHANGED <<poolVars, mainVars, rings, port, pkt, cursor, peeked>>
  BY Zenon DEF Poll, goto
<1>2. UNCHANGED <<live, out, n_buffers_cons>>
  BY <1>1, Zenon DEF poolVars, consSide
<1>3. OnlyThread(t) /\ pc'[t] = "port" /\ ready'[t] \subseteq ports_rx(t)
  BY <1>1, Zenon DEF OnlyThread, FwInv, FwTypes, Pcs, ports_rx
<1>4. ThreadOK(t)
  BY Zenon DEF FwInv, FwThreads
<1>5. cursor'[t] = 0
  BY <1>1, <1>4, Zenon DEF ThreadOK
<1>6. ports_rx(t)' = ports_rx(t)
  BY Zenon DEF ports_rx
<1>7. ThreadOK(t)'
  BY <1>3, <1>5, <1>6, ZenonT(30) DEF ThreadOK, Serving
<1> QED BY <1>1, <1>2, <1>3, <1>7, QuietStep, ZenonT(30)

(* The loop over the reported ports. *)
LEMMA NextPortInv == ASSUME FwInv, PoolInv', NEW t \in Threads, NextPort(t) PROVE FwInv'
<1>1. pc[t] = "port" /\ UNCHANGED <<poolVars, mainVars, rings, pkt, cursor, peeked>>
  BY Zenon DEF NextPort
<1>2. UNCHANGED <<live, out, n_buffers_cons>>
  BY <1>1, Zenon DEF poolVars, consSide
<1>3. ThreadOK(t)
  BY Zenon DEF FwInv, FwThreads
<1>4. CASE goto(t, "loop") /\ UNCHANGED <<ready, port>>
  <2>1. OnlyThread(t) /\ pc'[t] = "loop"
    BY <1>1, <1>4, Zenon DEF OnlyThread, FwInv, FwTypes, Pcs, goto
  <2>2. ThreadOK(t)'
    BY <1>1, <1>2, <1>3, <1>4, <2>1, Zenon DEF ThreadOK, Serving
  <2> QED BY <1>1, <1>2, <2>1, <2>2, QuietStep, Zenon
<1>5. ASSUME NEW p \in ready[t], port' = [port EXCEPT ![t] = p],
             ready' = [ready EXCEPT ![t] = @ \ {p}], goto(t, "rx")
      PROVE  FwInv'
  <2>1. p \in ports_rx(t) /\ p \in Caches
    BY <1>3, Zenon DEF ThreadOK, ports_rx
  <2>2. OnlyThread(t) /\ pc'[t] = "rx" /\ port'[t] = p /\ ready'[t] \subseteq ready[t]
    BY <1>1, <1>5, <2>1, Zenon DEF OnlyThread, FwInv, FwTypes, Pcs, Serving, goto
  <2>3. ThreadOK(t)'
    BY <1>1, <1>2, <1>3, <2>1, <2>2, Zenon DEF ThreadOK, Serving
  <2> QED BY <1>1, <1>2, <2>2, <2>3, QuietStep, Zenon
<1> QED BY <1>4, <1>5, Zenon DEF NextPort

(* A thread goes on to take a packet only if its cache has a buffer. *)
LEMMA CheckBuffersInv == ASSUME FwInv, PoolInv', NEW t \in Threads, CheckBuffers(t) PROVE FwInv'
<1> DEFINE p == port[t]
           where == IF bcache_cons_check_ret(p, 1) = 0 THEN "port" ELSE "peek"
<1>1. /\ pc[t] = "rx" /\ pc' = [pc EXCEPT ![t] = where] /\ bcache_cons_check(p)
      /\ UNCHANGED <<mainVars, rings, ready, port, pkt, cursor, peeked>>
  BY Zenon DEF CheckBuffers, goto
<1>2. ThreadOK(t) /\ p \in ports_rx(t) /\ p \in Caches /\ n_buffers_cons \in [Caches -> 0 .. BuffersPerSlab]
  BY <1>1, Zenon DEF FwInv, FwThreads, ThreadOK, Serving, ports_rx, PoolInv, TypeOK
<1>3. /\ UNCHANGED <<live, out>>
      /\ \A r \in Caches : r # p => n_buffers_cons'[r] = n_buffers_cons[r]
      /\ where = "peek" => n_buffers_cons'[p] # 0
  <2>1. CASE n_buffers_cons[p] = 0 /\ n_slabs_available # 0
    <3>1. UNCHANGED <<live, out>> /\ n_buffers_cons' = [n_buffers_cons EXCEPT ![p] = BuffersPerSlab]
      BY <1>1, <2>1, Zenon DEF bcache_cons_check, TradeConsumerSlab
    <3> QED BY <1>2, <3>1, PoolAssumption, Zenon
  <2>2. CASE n_buffers_cons[p] # 0 \/ n_slabs_available = 0
    <3>1. UNCHANGED <<live, out, n_buffers_cons>>
      BY <1>1, <2>2, Zenon DEF bcache_cons_check, poolVars, consSide
    <3>2. where = "peek" => n_buffers_cons[p] # 0
      BY <2>2, Zenon DEF bcache_cons_check_ret
    <3> QED BY <3>1, <3>2, Zenon
  <2> QED BY <2>1, <2>2, Zenon
<1>4. where \in {"port", "peek"}
  BY Zenon
<1> HIDE DEF where
<1>5. OnlyThread(t) /\ pc'[t] = where
  BY <1>1, <1>4, Zenon DEF OnlyThread, FwInv, FwTypes, Pcs, Serving
<1>6. ThreadOK(t)'
  BY <1>1, <1>2, <1>3, <1>4, <1>5, Zenon DEF ThreadOK, Serving
<1> QED BY <1>1, <1>2, <1>3, <1>5, <1>6, QuietStep, Zenon

(* The completions peeked are on the ring. *)
LEMMA PeekCompletionsInv == ASSUME FwInv, PoolInv', NEW t \in Threads, PeekCompletions(t) PROVE FwInv'
<1> DEFINE q == ports_tx(port[t])
           n == Len(umem_cq[q])
           where == IF n = 0 THEN "port" ELSE "drain"
<1>1. /\ pc[t] = "cq" /\ pc' = [pc EXCEPT ![t] = where] /\ peeked' = [peeked EXCEPT ![t] = n]
      /\ UNCHANGED <<poolVars, mainVars, rings, ready, port, pkt, cursor>>
  BY Zenon DEF PeekCompletions, goto
<1>2. ThreadOK(t) /\ port[t] \in ports_rx(t) /\ port[t] \in Caches
  BY <1>1, Zenon DEF FwInv, FwThreads, ThreadOK, Serving, ports_rx
<1>3. q \in Caches /\ q' = q /\ n' = n
  BY <1>1, <1>2, TxPort, Zenon DEF ports_tx, rings
<1>4. n \in Nat
  <2>1. umem_cq[q] \in Seq(Buffers)
    BY <1>3, Zenon DEF FwInv, FwTypes
  <2> QED BY <2>1, LenOf, Zenon
<1>5. UNCHANGED <<live, out, n_buffers_cons>>
  BY <1>1, Zenon DEF poolVars, consSide
<1>6. where \in {"port", "drain"}
  BY Zenon
<1>7. OnlyThread(t) /\ pc'[t] = where /\ peeked'[t] = n
  <2> HIDE DEF where, n
  <2> QED BY <1>1, <1>4, <1>6, Zenon DEF OnlyThread, FwInv, FwTypes, Pcs, Serving
<1>8. cursor'[t] = 0 /\ peeked'[t] <= n'
  BY <1>1, <1>2, <1>3, <1>4, <1>7, SMTT(30) DEF ThreadOK
<1>9. ThreadOK(t)'
  <2> HIDE DEF where
  <2> QED BY <1>1, <1>2, <1>4, <1>5, <1>6, <1>7, <1>8 DEF ThreadOK, Serving
<1> QED BY <1>1, <1>5, <1>7, <1>9, QuietStep, Zenon

(* A step of a thread that serves a port: all but where the buffers are. *)
LEMMA ServingStep ==
  ASSUME FwInv, NEW t \in Threads, pc[t] \in Serving, OnlyThread(t), ThreadOK(t)', UNCHANGED <<mainVars, live>>,
         umem_fq' \in [Caches -> Seq(Buffers)], rxq' \in [Caches -> Seq(Buffers)],
         txq' \in [Caches -> Seq(Buffers)], umem_cq' \in [Caches -> Seq(Buffers)],
         \A p \in Caches : p # port[t] => n_buffers_cons'[p] = n_buffers_cons[p],
         \A p \in Caches : p # ports_tx(port[t]) => umem_cq'[p] = umem_cq[p]
  PROVE  FwTypes' /\ FwMain' /\ FwThreads'
<1>1. FwTypes'
  BY Zenon DEF FwInv, FwTypes, OnlyThread, mainVars
<1>2. FwMain'
  BY MainWaits, Zenon DEF FwInv, Serving
<1>3. FwThreads'
  <2> SUFFICES ASSUME NEW u \in Threads, u # t PROVE ThreadOK(u)'
    BY Zenon DEF FwThreads
  <2>1. /\ ready'[u] = ready[u] /\ pc'[u] = pc[u] /\ port'[u] = port[u]
        /\ pkt'[u] = pkt[u] /\ cursor'[u] = cursor[u] /\ peeked'[u] = peeked[u]
    BY Zenon DEF OnlyThread
  <2>2. port[t] \in ports_rx(t) /\ FwThreads
    BY Zenon DEF FwInv, FwThreads, ThreadOK
  <2> QED BY <2>1, <2>2, OtherThread, Zenon
<1> QED BY <1>1, <1>2, <1>3, Zenon

(* The packet moves from the receive ring to the burst. *)
LEMMA TakePacketInv == ASSUME FwInv, PoolInv', NEW t \in Threads, TakePacket(t) PROVE FwInv'
<1>0. PICK p : p = port[t]
  BY Zenon
<1>1. /\ pc[t] = "peek" /\ rxq[p] # <<>> /\ pkt' = [pkt EXCEPT ![t] = Head(rxq[p])]
      /\ rxq' = [rxq EXCEPT ![p] = Tail(@)] /\ pc' = [pc EXCEPT ![t] = "fq"]
      /\ UNCHANGED <<mainVars, umem_fq, txq, umem_cq, ready, port, cursor, peeked, live, n_buffers_cons, out>>
  BY <1>0, Zenon DEF TakePacket, goto, poolVars, consSide
<1>2. ThreadOK(t) /\ p \in Caches /\ rxq \in [Caches -> Seq(Buffers)] /\ rxq[p] \in Seq(Buffers)
  BY <1>0, Zenon DEF FwInv, FwThreads, FwTypes
<1>3. /\ Len(rxq[p]) \in Nat \ {0} /\ Tail(rxq[p]) \in Seq(Buffers) /\ Len(Tail(rxq[p])) = Len(rxq[p]) - 1
      /\ \A k \in 1 .. Len(rxq[p]) - 1 : Tail(rxq[p])[k] = rxq[p][k + 1]
      /\ Head(rxq[p]) = rxq[p][1] /\ rxq[p][1] \in Buffers
  BY <1>1, <1>2, TailOf, Zenon
<1>4. rxq' \in [Caches -> Seq(Buffers)] /\ rxq'[p] = Tail(rxq[p]) /\ \A r \in Caches : r # p => rxq'[r] = rxq[r]
  BY <1>1, <1>2, <1>3, Zenon
<1>5. OnlyThread(t) /\ pc'[t] = "fq" /\ pkt'[t] = rxq[p][1]
  BY <1>1, <1>3, Zenon DEF OnlyThread, FwInv, FwTypes, Pcs, Serving
<1>6. ThreadOK(t)'
  BY <1>1, <1>2, <1>3, <1>5, ForwardAssumption, Zenon DEF ThreadOK, Serving
<1>7. FwTypes' /\ FwMain' /\ FwThreads'
  <2>1. /\ umem_fq' \in [Caches -> Seq(Buffers)] /\ txq' \in [Caches -> Seq(Buffers)]
        /\ umem_cq' \in [Caches -> Seq(Buffers)]
    BY <1>1, Zenon DEF FwInv, FwTypes
  <2> QED BY <1>1, <1>4, <1>5, <1>6, <2>1, ServingStep, Zenon DEF Serving
<1>8. FwOnce'
  <2>1. cursor[t] = 0 /\ cursor'[t] = 0
    BY <1>1, <1>2, Zenon DEF ThreadOK
  <2>2. \A r : \A i \in Nat \ {0} : Back(r, i)' <=> Back(r, i)
    BY <1>5, <2>1, BackKept, Zenon DEF FwInv, OnlyThread
  <2>3. <<"rx", p, 1>> \in Spots
    <3>1. IsSpot("rx", p, 1)
      BY <1>2, <1>3 DEF IsSpot
    <3> QED BY <3>1, SpotThere, Zenon
  <2>4. BufferAt(<<"pkt", t, 0>>)' = BufferAt(<<"rx", p, 1>>)
    BY <1>5, Zenon DEF BufferAt
  <2>5. ASSUME NEW x \in Spots', x[1] = "rx", x[2] = p
        PROVE  /\ x[3] # 0 /\ <<"rx", p, x[3] + 1>> \in Spots
               /\ BufferAt(x)' = BufferAt(<<"rx", p, x[3] + 1>>)
    <3>1. IsSpot(x[1], x[2], x[3])'
      BY SpotForm, Zenon
    <3>2. x[3] \in 1 .. Len(rxq'[p])
      BY <2>5, <3>1, Zenon DEF IsSpot
    <3>3. x[3] \in 1 .. Len(rxq[p]) - 1 /\ x[3] + 1 \in 1 .. Len(rxq[p]) /\ x[3] # 0
      BY <1>3, <1>4, <3>2
    <3>4. IsSpot("rx", p, x[3] + 1)
      BY <1>2, <3>3, Zenon DEF IsSpot
    <3>5. BufferAt(x)' = rxq'[p][x[3]] /\ BufferAt(<<"rx", p, x[3] + 1>>) = rxq[p][x[3] + 1]
      BY <2>5, Zenon DEF BufferAt
    <3> QED BY <1>3, <1>4, <3>3, <3>4, <3>5, SpotThere, Zenon
  <2>6. ASSUME NEW x \in Spots', ~(x[1] = "rx" /\ x[2] = p), x # <<"pkt", t, 0>>
        PROVE  x \in Spots /\ BufferAt(x)' = BufferAt(x)
    <3>1. x = <<x[1], x[2], x[3]>> /\ IsSpot(x[1], x[2], x[3])' /\ x[3] \in Nat
      BY SpotForm, Zenon
    <3>2. x[1] = "rx" => x[2] \in Caches /\ rxq'[x[2]] = rxq[x[2]]
      BY <1>4, <2>6, <3>1, Zenon DEF IsSpot
    <3>3. x[1] = "pkt" => x[2] \in Threads /\ pkt'[x[2]] = pkt[x[2]]
      <4>1. x[1] = "pkt" => x[2] \in Threads /\ x[3] = 0
        BY <3>1, Zenon DEF IsSpot
      <4>2. x[1] = "pkt" => x[2] # t
        BY <2>6, <3>1, <4>1, Zenon
      <4> QED BY <1>5, <4>1, <4>2, Zenon DEF OnlyThread
    <3>4. IsSpot(x[1], x[2], x[3])
      BY <1>1, <2>2, <3>1, <3>2, <3>3, SMTT(30) DEF IsSpot, mainVars
    <3>5. BufferAt(x)' = BufferAt(x)
      <4>1. x[1] \in {"staged", "fq", "rx", "tx", "cq", "pkt"}
        BY <3>4, Zenon DEF IsSpot
      <4>2. UNCHANGED <<staged, umem_fq, txq, umem_cq>>
        BY <1>1, Zenon DEF mainVars
      <4> QED BY <3>2, <3>3, <4>1, <4>2, Zenon DEF BufferAt
    <3> QED BY <3>1, <3>4, <3>5, SpotThere, Zenon
  <2>7. out' = out /\ FwOnce /\ <<"pkt", t, 0>>[1] # "rx"
    BY <1>1, Zenon DEF FwInv
  <2> QED BY <2>3, <2>4, <2>5, <2>6, <2>7, HeadMoves
<1> QED BY <1>7, <1>8, Zenon DEF FwInv

(* A buffer from the cache takes its place on the fill ring. *)
LEMMA ReplenishInv == ASSUME FwInv, PoolInv', NEW t \in Threads, Replenish(t) PROVE FwInv'
<1>0. PICK p, b, d : p = port[t] /\ b = bcache_cons_ret(p) /\ d = <<"fq", p, Len(umem_fq[p]) + 1>>
  BY Zenon
<1>1. /\ pc[t] = "fq" /\ umem_fq' = [umem_fq EXCEPT ![p] = Append(@, b)] /\ pc' = [pc EXCEPT ![t] = "txq"]
      /\ out' = out \cup {b} /\ n_buffers_cons' = [n_buffers_cons EXCEPT ![p] = @ - 1]
      /\ UNCHANGED <<mainVars, rxq, txq, umem_cq, ready, port, pkt, cursor, peeked, live>>
  BY <1>0, Zenon DEF Replenish, goto, bcache_cons
<1>2. /\ ThreadOK(t) /\ p \in Caches /\ umem_fq \in [Caches -> Seq(Buffers)] /\ umem_fq[p] \in Seq(Buffers)
      /\ p \in live /\ n_buffers_cons[p] # 0
  BY <1>0, <1>1, Running, Zenon DEF FwInv, FwThreads, FwTypes, ThreadOK
<1>3. b \in Buffers /\ b \notin out
  BY <1>0, <1>2, Taken, Zenon DEF FwInv
<1>4. /\ Append(umem_fq[p], b) \in Seq(Buffers) /\ Len(umem_fq[p]) \in Nat
      /\ Len(Append(umem_fq[p], b)) = Len(umem_fq[p]) + 1 /\ Append(umem_fq[p], b)[Len(umem_fq[p]) + 1] = b
      /\ \A k \in 1 .. Len(umem_fq[p]) : Append(umem_fq[p], b)[k] = umem_fq[p][k]
  <2>1. umem_fq[p] \in Seq(Buffers) /\ b \in Buffers
    BY <1>2, <1>3, Zenon
  <2> QED BY <2>1, AppendTo
<1>5. /\ umem_fq' \in [Caches -> Seq(Buffers)] /\ umem_fq'[p] = Append(umem_fq[p], b)
      /\ \A r \in Caches : r # p => umem_fq'[r] = umem_fq[r]
  BY <1>1, <1>2, <1>4, Zenon
<1>6. OnlyThread(t) /\ pc'[t] = "txq"
  BY <1>1, Zenon DEF OnlyThread, FwInv, FwTypes, Pcs, Serving
<1>7. ThreadOK(t)'
  BY <1>1, <1>2, <1>6, Zenon DEF ThreadOK, Serving
<1>8. FwTypes' /\ FwMain' /\ FwThreads'
  <2>1. /\ rxq' \in [Caches -> Seq(Buffers)] /\ txq' \in [Caches -> Seq(Buffers)]
        /\ umem_cq' \in [Caches -> Seq(Buffers)]
    BY <1>1, Zenon DEF FwInv, FwTypes
  <2>2. \A r \in Caches : r # port[t] => n_buffers_cons'[r] = n_buffers_cons[r]
    BY <1>0, <1>1, Zenon DEF FwInv, PoolInv, TypeOK
  <2> QED BY <1>1, <1>5, <1>6, <1>7, <2>1, <2>2, ServingStep, Zenon DEF Serving
<1>9. FwOnce'
  <2>1. cursor[t] = 0 /\ cursor'[t] = 0
    BY <1>1, <1>2, Zenon DEF ThreadOK
  <2>2. \A r : \A i \in Nat \ {0} : Back(r, i)' <=> Back(r, i)
    BY <1>6, <2>1, BackKept, Zenon DEF FwInv, OnlyThread
  <2>3. BufferAt(d)' = b
    BY <1>0, <1>4, <1>5, Zenon DEF BufferAt
  <2>4. ASSUME NEW x \in Spots', x # d PROVE x \in Spots /\ BufferAt(x)' = BufferAt(x)
    <3>1. x = <<x[1], x[2], x[3]>> /\ IsSpot(x[1], x[2], x[3])' /\ x[3] \in Nat
      BY SpotForm, Zenon
    <3>2. CASE x[1] = "fq" /\ x[2] = p
      <4>1. x[3] \in 1 .. Len(umem_fq[p]) + 1
        BY <1>4, <1>5, <3>1, <3>2, Zenon DEF IsSpot
      <4>2. x[3] # Len(umem_fq[p]) + 1
        BY <1>0, <2>4, <3>1, <3>2, Zenon
      <4>3. x[3] \in 1 .. Len(umem_fq[p])
        BY <1>4, <4>1, <4>2
      <4>4. IsSpot(x[1], x[2], x[3])
        BY <1>2, <3>2, <4>3, Zenon DEF IsSpot
      <4>5. BufferAt(x)' = BufferAt(x)
        <5>1. BufferAt(x)' = umem_fq'[p][x[3]] /\ BufferAt(x) = umem_fq[p][x[3]]
          BY <3>2, Zenon DEF BufferAt
        <5> QED BY <1>4, <1>5, <4>3, <5>1, Zenon
      <4> QED BY <3>1, <4>4, <4>5, SpotThere, Zenon
    <3>3. CASE ~(x[1] = "fq" /\ x[2] = p)
      <4>1. x[1] = "fq" => x[2] \in Caches /\ umem_fq'[x[2]] = umem_fq[x[2]]
        BY <1>5, <3>1, <3>3, Zenon DEF IsSpot
      <4>0. UNCHANGED <<staged, rxq, txq, umem_cq, pkt>>
        BY <1>1, Zenon DEF mainVars
      <4>2. IsSpot(x[1], x[2], x[3])
        BY <2>2, <3>1, <4>0, <4>1, SMTT(30) DEF IsSpot
      <4>3. BufferAt(x)' = BufferAt(x)
        BY <4>0, <4>1, Zenon DEF BufferAt
      <4> QED BY <3>1, <4>2, <4>3, SpotThere, Zenon
    <3> QED BY <3>2, <3>3, Zenon
  <2> QED BY <1>1, <1>3, <2>3, <2>4, Appears, Zenon DEF FwInv
<1> QED BY <1>8, <1>9, Zenon DEF FwInv

(* The packet moves from the burst to the transmit ring. *)
LEMMA SendPacketInv == ASSUME FwInv, PoolInv', NEW t \in Threads, SendPacket(t) PROVE FwInv'
<1>0. PICK q, b, d : q = ports_tx(port[t]) /\ b = pkt[t] /\ d = <<"tx", q, Len(txq[q]) + 1>>
  BY Zenon
<1>1. /\ pc[t] = "txq" /\ txq' = [txq EXCEPT ![q] = Append(@, b)] /\ pkt' = [pkt EXCEPT ![t] = NoBuffer]
      /\ pc' = [pc EXCEPT ![t] = "cq"]
      /\ UNCHANGED <<mainVars, umem_fq, rxq, umem_cq, ready, port, cursor, peeked, live, n_buffers_cons, out>>
  BY <1>0, Zenon DEF SendPacket, goto, poolVars, consSide
<1>2. ThreadOK(t) /\ q \in Caches /\ b \in Buffers /\ txq \in [Caches -> Seq(Buffers)] /\ txq[q] \in Seq(Buffers)
  <2>1. ThreadOK(t) /\ port[t] \in Caches /\ pkt[t] \in Buffers \cup {NoBuffer}
    BY Zenon DEF FwInv, FwThreads, FwTypes
  <2>2. q \in Caches
    BY <1>0, <2>1, TxPort, Zenon
  <2>3. b \in Buffers
    BY <1>0, <1>1, <2>1, Zenon DEF ThreadOK
  <2> QED BY <2>1, <2>2, <2>3, Zenon DEF FwInv, FwTypes
<1>3. /\ Append(txq[q], b) \in Seq(Buffers) /\ Len(txq[q]) \in Nat
      /\ Len(Append(txq[q], b)) = Len(txq[q]) + 1 /\ Append(txq[q], b)[Len(txq[q]) + 1] = b
      /\ \A k \in 1 .. Len(txq[q]) : Append(txq[q], b)[k] = txq[q][k]
  BY <1>2, AppendTo
<1>4. /\ txq' \in [Caches -> Seq(Buffers)] /\ txq'[q] = Append(txq[q], b)
      /\ \A r \in Caches : r # q => txq'[r] = txq[r]
  BY <1>1, <1>2, <1>3, Zenon
<1>5. OnlyThread(t) /\ pc'[t] = "cq" /\ pkt'[t] = NoBuffer
  BY <1>1, Zenon DEF OnlyThread, FwInv, FwTypes, Pcs, Serving
<1>6. ThreadOK(t)'
  BY <1>1, <1>2, <1>5, Zenon DEF ThreadOK, Serving
<1>7. FwTypes' /\ FwMain' /\ FwThreads'
  <2>1. /\ rxq' \in [Caches -> Seq(Buffers)] /\ umem_fq' \in [Caches -> Seq(Buffers)]
        /\ umem_cq' \in [Caches -> Seq(Buffers)]
    BY <1>1, Zenon DEF FwInv, FwTypes
  <2> QED BY <1>1, <1>4, <1>5, <1>6, <2>1, ServingStep, Zenon DEF Serving
<1>8. FwOnce'
  <2>1. cursor[t] = 0 /\ cursor'[t] = 0
    BY <1>1, <1>2, Zenon DEF ThreadOK
  <2>2. \A r : \A i \in Nat \ {0} : Back(r, i)' <=> Back(r, i)
    BY <1>5, <2>1, BackKept, Zenon DEF FwInv, OnlyThread
  <2>3. <<"pkt", t, 0>> \in Spots /\ BufferAt(<<"pkt", t, 0>>) = b
    <3>1. IsSpot("pkt", t, 0)
      BY <1>0, <1>2, ForwardAssumption, Zenon DEF IsSpot
    <3>2. BufferAt(<<"pkt", t, 0>>) = b
      BY <1>0, Zenon DEF BufferAt
    <3> QED BY <3>1, <3>2, SpotThere, Zenon
  <2>4. BufferAt(d)' = b
    BY <1>0, <1>3, <1>4, Zenon DEF BufferAt
  <2>5. ASSUME NEW x \in Spots', x # d PROVE x \in Spots /\ x # <<"pkt", t, 0>> /\ BufferAt(x)' = BufferAt(x)
    <3>1. x = <<x[1], x[2], x[3]>> /\ IsSpot(x[1], x[2], x[3])' /\ x[3] \in Nat
      BY SpotForm, Zenon
    <3>2. CASE x[1] = "tx" /\ x[2] = q
      <4>1. x[3] \in 1 .. Len(txq[q]) + 1
        BY <1>3, <1>4, <3>1, <3>2, Zenon DEF IsSpot
      <4>2. x[3] # Len(txq[q]) + 1
        BY <1>0, <2>5, <3>1, <3>2, Zenon
      <4>3. x[3] \in 1 .. Len(txq[q])
        BY <1>3, <4>1, <4>2
      <4>4. IsSpot(x[1], x[2], x[3])
        BY <1>2, <3>2, <4>3, Zenon DEF IsSpot
      <4>5. BufferAt(x)' = BufferAt(x)
        BY <1>3, <1>4, <3>2, <4>3, Zenon DEF BufferAt
      <4> QED BY <3>1, <3>2, <4>4, <4>5, SpotThere
    <3>3. CASE ~(x[1] = "tx" /\ x[2] = q)
      <4>1. x[1] = "tx" => x[2] \in Caches /\ txq'[x[2]] = txq[x[2]]
        BY <1>4, <3>1, <3>3, Zenon DEF IsSpot
      <4>2. x[1] = "pkt" => x[2] \in Threads /\ x[2] # t /\ pkt'[x[2]] = pkt[x[2]]
        <5>1. x[1] = "pkt" => x[2] \in Threads /\ pkt'[x[2]] # NoBuffer
          BY <3>1, Zenon DEF IsSpot
        <5>2. x[1] = "pkt" => x[2] # t
          BY <1>5, <5>1, Zenon
        <5> QED BY <1>5, <5>1, <5>2, Zenon DEF OnlyThread
      <4>3. UNCHANGED <<staged, rxq, umem_fq, umem_cq>>
        BY <1>1, Zenon DEF mainVars
      <4>4. IsSpot(x[1], x[2], x[3])
        BY <2>2, <3>1, <4>1, <4>2, <4>3, SMTT(30) DEF IsSpot
      <4>5. x[1] \in {"staged", "fq", "rx", "tx", "cq", "pkt"}
        BY <4>4, Zenon DEF IsSpot
      <4>6. BufferAt(x)' = BufferAt(x)
        BY <4>1, <4>2, <4>3, <4>5, ZenonT(30) DEF BufferAt
      <4>7. x # <<"pkt", t, 0>>
        BY <4>2
      <4> QED BY <3>1, <4>4, <4>6, <4>7, SpotThere, Zenon
    <3> QED BY <3>2, <3>3, Zenon
  <2> QED BY <1>1, <2>3, <2>4, <2>5, OneMoved, Zenon DEF FwInv
<1> QED BY <1>7, <1>8, Zenon DEF FwInv

(* What a thread gives back is no longer out, and its cache can hand out what it could. *)
LEMMA Given ==
  ASSUME NEW c, NEW b, bcache_prod(c, b)
  PROVE  UNCHANGED <<live, n_buffers_cons>> /\ out' = out \ {b}
<1>1. CASE StoreInProducerSlab(c, b)
  BY <1>1, Zenon DEF StoreInProducerSlab, consSide
<1>2. CASE TradeProducerSlab(c, b)
  BY <1>2, Zenon DEF TradeProducerSlab, consSide
<1> QED BY <1>1, <1>2, Zenon DEF bcache_prod

(* One completion more given back. *)
LEMMA BackGrows ==
  ASSUME NEW t \in Threads, NEW c \in Nat, pc[t] = "drain", cursor \in [Threads -> Nat], cursor[t] <= c,
         cursor' = [cursor EXCEPT ![t] = c], UNCHANGED <<pc, port>>
  PROVE  (\A r : \A i \in Nat : Back(r, i) => Back(r, i)') /\ Back(ports_tx(port[t]), c)'
<1>0. \A u \in Threads : ports_tx(port[u])' = ports_tx(port[u])
  BY Zenon DEF ports_tx
<1>1. ASSUME NEW r, NEW i \in Nat, Back(r, i) PROVE Back(r, i)'
  <2>1. PICK u \in Threads : pc[u] = "drain" /\ ports_tx(port[u]) = r /\ i <= cursor[u]
    BY <1>1, Zenon DEF Back
  <2>2. i <= cursor'[u]
    BY <2>1
  <2> QED BY <1>0, <2>1, <2>2, Zenon DEF Back
<1>2. c <= cursor'[t]
  OBVIOUS
<1>3. Back(ports_tx(port[t]), c)'
  BY <1>0, <1>2, Zenon DEF Back
<1> QED BY <1>1, <1>3, Zenon

(* The next completion goes back to the pool. *)
LEMMA GiveBackInv == ASSUME FwInv, PoolInv', NEW t \in Threads, GiveBack(t) PROVE FwInv'
<1>0. PICK q, c, a : q = ports_tx(port[t]) /\ c = cursor[t] + 1 /\ a = <<"cq", q, c>>
  BY Zenon
<1>1. /\ pc[t] = "drain" /\ cursor[t] < peeked[t] /\ cursor' = [cursor EXCEPT ![t] = c]
      /\ UNCHANGED <<mainVars, rings, pc, ready, port, pkt, peeked, live, n_buffers_cons>>
      /\ out' = out \ {umem_cq[q][c]}
  <2>1. /\ pc[t] = "drain" /\ cursor[t] < peeked[t] /\ cursor' = [cursor EXCEPT ![t] = c]
        /\ UNCHANGED <<mainVars, rings, pc, ready, port, pkt, peeked>> /\ bcache_prod(q, umem_cq[q][c])
    BY <1>0, Zenon DEF GiveBack
  <2>2. UNCHANGED <<live, n_buffers_cons>> /\ out' = out \ {umem_cq[q][c]}
    BY <2>1, Given, Zenon
  <2> QED BY <2>1, <2>2, Zenon
<1>2. q \in Caches /\ a \in Spots /\ BufferAt(a) = umem_cq[q][c]
  BY <1>0, <1>1, NextBack, Zenon
<1>3. /\ ThreadOK(t) /\ cursor[t] \in Nat /\ peeked[t] \in Nat
      /\ cursor \in [Threads -> Nat]
  BY Zenon DEF FwInv, FwTypes, FwThreads
<1>4. c \in Nat /\ c <= peeked[t] /\ cursor[t] <= c
  <2>1. ASSUME NEW i \in Nat, NEW j \in Nat, i < j PROVE i + 1 \in Nat /\ i + 1 <= j /\ i <= i + 1
    BY <2>1
  <2> QED BY <1>0, <1>1, <1>3, <2>1, Zenon
<1>5. OnlyThread(t) /\ cursor'[t] = c
  BY <1>1, <1>3, <1>4, Zenon DEF OnlyThread, FwInv, FwTypes
<1>6. ThreadOK(t)'
  <2>1. ports_tx(port[t])' = ports_tx(port[t])
    BY <1>1, Zenon DEF ports_tx
  <2> QED BY <1>1, <1>3, <1>4, <1>5, <2>1, Zenon DEF ThreadOK, Serving, rings
<1>7. FwTypes' /\ FwMain' /\ FwThreads'
  <2>1. /\ rxq' \in [Caches -> Seq(Buffers)] /\ umem_fq' \in [Caches -> Seq(Buffers)]
        /\ umem_cq' \in [Caches -> Seq(Buffers)] /\ txq' \in [Caches -> Seq(Buffers)] /\ umem_cq' = umem_cq
    BY <1>1, Zenon DEF FwInv, FwTypes, rings
  <2> QED BY <1>1, <1>5, <1>6, <2>1, ServingStep, Zenon DEF Serving
<1>8. FwOnce'
  <2>1. \A r : \A i \in Nat : Back(r, i) => Back(r, i)'
    BY <1>1, <1>3, <1>4, BackGrows, Zenon
  <2>2. Back(q, c)'
    BY <1>0, <1>1, <1>3, <1>4, BackGrows, Zenon
  <2>3. ASSUME NEW x \in Spots' PROVE x \in Spots /\ x # a /\ BufferAt(x)' = BufferAt(x)
    <3>1. x = <<x[1], x[2], x[3]>> /\ IsSpot(x[1], x[2], x[3])' /\ x[3] \in Nat
      BY SpotForm, Zenon
    <3>2. UNCHANGED <<staged, rxq, umem_fq, umem_cq, txq, pkt>>
      BY <1>1, Zenon DEF mainVars, rings
    <3>3. x[1] = "cq" => ~Back(x[2], x[3])'
      BY <3>1, Zenon DEF IsSpot
    <3>4. IsSpot(x[1], x[2], x[3])
      BY <2>1, <3>1, <3>2, <3>3, Zenon DEF IsSpot
    <3>5. BufferAt(x)' = BufferAt(x)
      BY <3>2, Zenon DEF BufferAt
    <3>6. x # a
      <4> SUFFICES ASSUME x = a PROVE FALSE
        BY Zenon
      <4>1. x[1] = "cq" /\ x[2] = q /\ x[3] = c
        BY <1>0, Zenon
      <4> QED BY <2>2, <3>3, <4>1, Zenon
    <3> QED BY <3>1, <3>4, <3>5, <3>6, SpotThere, Zenon
  <2> QED BY <1>1, <1>2, <2>3, Disappears, Zenon DEF FwInv
<1> QED BY <1>7, <1>8, Zenon DEF FwInv

(* The completions given back leave the ring. *)
LEMMA ReleaseCompletionsInv == ASSUME FwInv, PoolInv', NEW t \in Threads, ReleaseCompletions(t) PROVE FwInv'
<1>0. PICK q, n : q = ports_tx(port[t]) /\ n = peeked[t]
  BY Zenon
<1> DEFINE m == [x \in Spots' |-> IF x[1] = "cq" /\ x[2] = q THEN <<"cq", q, x[3] + n>> ELSE x]
<1>1. /\ pc[t] = "drain" /\ cursor[t] = n /\ umem_cq' = [umem_cq EXCEPT ![q] = SubSeq(@, n + 1, Len(@))]
      /\ cursor' = [cursor EXCEPT ![t] = 0] /\ peeked' = [peeked EXCEPT ![t] = 0] /\ pc' = [pc EXCEPT ![t] = "port"]
      /\ UNCHANGED <<mainVars, umem_fq, rxq, txq, ready, port, pkt, live, n_buffers_cons, out>>
  BY <1>0, Zenon DEF ReleaseCompletions, goto, poolVars, consSide
<1>2. /\ ThreadOK(t) /\ port[t] \in ports_rx(t) /\ port[t] \in Caches /\ q \in Caches /\ n \in Nat
      /\ umem_cq \in [Caches -> Seq(Buffers)] /\ umem_cq[q] \in Seq(Buffers) /\ n <= Len(umem_cq[q])
  <2>1. ThreadOK(t) /\ n \in Nat /\ umem_cq \in [Caches -> Seq(Buffers)]
    BY <1>0, Zenon DEF FwInv, FwThreads, FwTypes
  <2>2. port[t] \in ports_rx(t) /\ n <= Len(umem_cq[q])
    BY <1>0, <1>1, <2>1, Zenon DEF ThreadOK, Serving
  <2>3. port[t] \in Caches
    BY <2>2, Zenon DEF ports_rx
  <2>4. q \in Caches
    BY <1>0, <2>3, TxPort, Zenon
  <2> QED BY <2>1, <2>2, <2>3, <2>4, Zenon
<1>3. /\ SubSeq(umem_cq[q], n + 1, Len(umem_cq[q])) \in Seq(Buffers) /\ Len(umem_cq[q]) \in Nat
      /\ Len(SubSeq(umem_cq[q], n + 1, Len(umem_cq[q]))) = Len(umem_cq[q]) - n
      /\ \A k \in 1 .. Len(umem_cq[q]) - n : SubSeq(umem_cq[q], n + 1, Len(umem_cq[q]))[k] = umem_cq[q][k + n]
  <2>1. n \in 0 .. Len(umem_cq[q])
    BY <1>2, LenOf, SMTT(30)
  <2> QED BY <1>2, <2>1, DropFirst, Zenon
<1>4. /\ umem_cq' \in [Caches -> Seq(Buffers)] /\ Len(umem_cq'[q]) = Len(umem_cq[q]) - n
      /\ \A k \in 1 .. Len(umem_cq[q]) - n : umem_cq'[q][k] = umem_cq[q][k + n]
      /\ \A r \in Caches : r # q => umem_cq'[r] = umem_cq[r]
  BY <1>1, <1>2, <1>3, Zenon
<1>5. OnlyThread(t) /\ pc'[t] = "port" /\ cursor'[t] = 0
  BY <1>1, Zenon DEF OnlyThread, FwInv, FwTypes, Pcs
<1>6. ThreadOK(t)'
  BY <1>1, <1>2, <1>5, Zenon DEF ThreadOK, Serving
<1>7. FwTypes' /\ FwMain' /\ FwThreads'
  <2>1. /\ rxq' \in [Caches -> Seq(Buffers)] /\ umem_fq' \in [Caches -> Seq(Buffers)]
        /\ txq' \in [Caches -> Seq(Buffers)]
    BY <1>1, Zenon DEF FwInv, FwTypes
  <2> QED BY <1>0, <1>1, <1>4, <1>5, <1>6, <2>1, ServingStep, Zenon DEF Serving
<1>8. FwOnce'
  <2>1. ASSUME NEW r, r # q, NEW i, Back(r, i) PROVE Back(r, i)'
    <3>1. PICK u \in Threads : pc[u] = "drain" /\ ports_tx(port[u]) = r /\ i <= cursor[u]
      BY <2>1, Zenon DEF Back
    <3>2. u # t
      BY <1>0, <2>1, <3>1, Zenon
    <3>3. (pc[u] = "drain" /\ ports_tx(port[u]) = r /\ i <= cursor[u])'
      BY <1>5, <3>1, <3>2, Zenon DEF OnlyThread, ports_tx
    <3> QED BY <3>3, Zenon DEF Back
  <2>2. ASSUME NEW i \in Nat \ {0} PROVE ~Back(q, i + n)
    <3> SUFFICES ASSUME NEW u \in Threads, pc[u] = "drain", ports_tx(port[u]) = q, i + n <= cursor[u]
                 PROVE  FALSE
      BY Zenon DEF Back
    <3>1. CASE u = t
      BY <1>1, <1>2, <3>1, SMTT(30)
    <3>2. CASE u # t
      <4>1. port[u] \in ports_rx(u)
        BY Zenon DEF FwInv, FwThreads, ThreadOK, Serving
      <4> QED BY <1>0, <1>2, <3>2, <4>1, OwnPorts, Zenon
    <3> QED BY <3>1, <3>2, Zenon
  <2>3. ASSUME NEW x \in Spots' PROVE m[x] \in Spots /\ BufferAt(x)' = BufferAt(m[x])
    <3>1. x = <<x[1], x[2], x[3]>> /\ IsSpot(x[1], x[2], x[3])' /\ x[3] \in Nat
      BY SpotForm, Zenon
    <3>2. CASE x[1] = "cq" /\ x[2] = q
      <4>1. x[3] \in 1 .. Len(umem_cq'[q])
        BY <3>1, <3>2, Zenon DEF IsSpot
      <4>2. /\ x[3] \in 1 .. Len(umem_cq[q]) - n /\ x[3] \in Nat \ {0}
            /\ x[3] + n \in 1 .. Len(umem_cq[q])
        BY <1>2, <1>3, <1>4, <4>1, SMTT(30)
      <4>3. IsSpot("cq", q, x[3] + n)
        BY <1>2, <2>2, <4>2, Zenon DEF IsSpot
      <4>4. BufferAt(x)' = umem_cq'[q][x[3]] /\ BufferAt(<<"cq", q, x[3] + n>>) = umem_cq[q][x[3] + n]
        BY <3>2, Zenon DEF BufferAt
      <4>5. m[x] = <<"cq", q, x[3] + n>>
        BY <3>2, Zenon
      <4> HIDE DEF m
      <4> QED BY <1>4, <4>2, <4>3, <4>4, <4>5, SpotThere
    <3>3. CASE ~(x[1] = "cq" /\ x[2] = q)
      <4>1. x[1] = "cq" => x[2] \in Caches /\ umem_cq'[x[2]] = umem_cq[x[2]] /\ x[2] # q
        BY <1>4, <3>1, <3>3, Zenon DEF IsSpot
      <4>2. UNCHANGED <<staged, rxq, umem_fq, txq, pkt>>
        BY <1>1, Zenon DEF mainVars
      <4>3. x[1] = "cq" => ~Back(x[2], x[3])
        <5>1. x[1] = "cq" => ~Back(x[2], x[3])'
          BY <3>1, Zenon DEF IsSpot
        <5> QED BY <2>1, <4>1, <5>1, Zenon
      <4>4. IsSpot(x[1], x[2], x[3])
        BY <3>1, <4>1, <4>2, <4>3, Zenon DEF IsSpot
      <4>5. BufferAt(x)' = BufferAt(x)
        BY <4>1, <4>2, Zenon DEF BufferAt
      <4>6. m[x] = x
        BY <3>3, Zenon
      <4> HIDE DEF m
      <4> QED BY <3>1, <4>4, <4>5, <4>6, SpotThere, Zenon
    <3> QED BY <3>2, <3>3, Zenon
  <2>4. ASSUME NEW x \in Spots', NEW y \in Spots', m[x] = m[y] PROVE x = y
    <3>1. x = <<x[1], x[2], x[3]>> /\ y = <<y[1], y[2], y[3]>> /\ x[3] \in Nat /\ y[3] \in Nat
      BY SpotForm, Zenon
    <3>2. CASE x[1] = "cq" /\ x[2] = q /\ y[1] = "cq" /\ y[2] = q
      <4>1. x[3] + n = y[3] + n
        BY <2>4, <3>2, Zenon
      <4>2. x[3] = y[3]
        BY <1>2, <3>1, <4>1
      <4> QED BY <3>1, <3>2, <4>2, Zenon
    <3>3. CASE ~(x[1] = "cq" /\ x[2] = q) \/ ~(y[1] = "cq" /\ y[2] = q)
      BY <2>4, <3>3
    <3> QED BY <3>2, <3>3, Zenon
  <2>5. out' = out /\ FwOnce
    BY <1>1, Zenon DEF FwInv
  <2> HIDE DEF m
  <2> QED BY <2>3, <2>4, <2>5, Moved, Zenon
<1> QED BY <1>7, <1>8, Zenon DEF FwInv

-----------------------------------------------------------------------------
(* The kernel keeps the invariant *)

(* The kernel moves a buffer from the fill ring to the receive ring. *)
LEMMA ReceiveInv == ASSUME FwInv, PoolInv', NEW p \in Caches, Receive(p) PROVE FwInv'
<1>0. PICK b, d : b = Head(umem_fq[p]) /\ d = <<"rx", p, Len(rxq[p]) + 1>>
  BY Zenon
<1>1. /\ umem_fq[p] # <<>> /\ rxq' = [rxq EXCEPT ![p] = Append(@, b)] /\ umem_fq' = [umem_fq EXCEPT ![p] = Tail(@)]
      /\ UNCHANGED <<main, at, staged, txq, umem_cq, threadVars, live, n_buffers_cons, out>>
  BY <1>0, Zenon DEF Receive, poolVars, consSide, mainVars
<1>2. /\ umem_fq \in [Caches -> Seq(Buffers)] /\ umem_fq[p] \in Seq(Buffers)
      /\ rxq \in [Caches -> Seq(Buffers)] /\ rxq[p] \in Seq(Buffers)
  BY Zenon DEF FwInv, FwTypes
<1>3. /\ Len(umem_fq[p]) \in Nat \ {0} /\ Tail(umem_fq[p]) \in Seq(Buffers)
      /\ Len(Tail(umem_fq[p])) = Len(umem_fq[p]) - 1
      /\ \A k \in 1 .. Len(umem_fq[p]) - 1 : Tail(umem_fq[p])[k] = umem_fq[p][k + 1]
      /\ b = umem_fq[p][1] /\ b \in Buffers
  BY <1>0, <1>1, <1>2, TailOf, Zenon
<1>4. /\ Append(rxq[p], b) \in Seq(Buffers) /\ Len(rxq[p]) \in Nat
      /\ Len(Append(rxq[p], b)) = Len(rxq[p]) + 1 /\ Append(rxq[p], b)[Len(rxq[p]) + 1] = b
      /\ \A k \in 1 .. Len(rxq[p]) : Append(rxq[p], b)[k] = rxq[p][k]
  <2>1. rxq[p] \in Seq(Buffers) /\ b \in Buffers
    BY <1>2, <1>3, Zenon
  <2> QED BY <2>1, AppendTo
<1>5. /\ umem_fq' \in [Caches -> Seq(Buffers)] /\ umem_fq'[p] = Tail(umem_fq[p])
      /\ \A r \in Caches : r # p => umem_fq'[r] = umem_fq[r]
      /\ rxq' \in [Caches -> Seq(Buffers)] /\ rxq'[p] = Append(rxq[p], b)
      /\ \A r \in Caches : r # p => rxq'[r] = rxq[r]
  BY <1>1, <1>2, <1>3, <1>4, Zenon
<1>6. FwTypes'
  BY <1>1, <1>5, Zenon DEF FwInv, FwTypes, threadVars
<1>7. FwMain'
  BY <1>1, Zenon DEF FwInv, FwMain, threadVars
<1>8. FwThreads'
  BY <1>1, QuietOther, Zenon DEF FwInv, FwThreads, threadVars
<1>9. FwOnce'
  <2>1. \A r, i : Back(r, i)' <=> Back(r, i)
    BY <1>1, Zenon DEF Back, threadVars
  <2>2. <<"fq", p, 1>> \in Spots /\ BufferAt(<<"fq", p, 1>>) = b
    <3>1. IsSpot("fq", p, 1)
      BY <1>3 DEF IsSpot
    <3> QED BY <1>3, <3>1, SpotThere, Zenon DEF BufferAt
  <2>3. BufferAt(d)' = b /\ d[1] # "fq"
    BY <1>0, <1>4, <1>5, Zenon DEF BufferAt
  <2>4. ASSUME NEW x \in Spots', x[1] = "fq", x[2] = p
        PROVE  /\ x[3] # 0 /\ <<"fq", p, x[3] + 1>> \in Spots
               /\ BufferAt(x)' = BufferAt(<<"fq", p, x[3] + 1>>)
    <3>1. IsSpot(x[1], x[2], x[3])'
      BY SpotForm, Zenon
    <3>2. x[3] \in 1 .. Len(umem_fq'[p])
      BY <2>4, <3>1, Zenon DEF IsSpot
    <3>3. x[3] \in 1 .. Len(umem_fq[p]) - 1 /\ x[3] + 1 \in 1 .. Len(umem_fq[p]) /\ x[3] # 0
      <4>1. Len(umem_fq[p]) \in Nat /\ x[3] \in 1 .. Len(umem_fq[p]) - 1
        BY <1>3, <1>5, <3>2, Zenon
      <4> QED BY <4>1
    <3>4. IsSpot("fq", p, x[3] + 1)
      BY <3>3, Zenon DEF IsSpot
    <3>5. BufferAt(x)' = umem_fq'[p][x[3]] /\ BufferAt(<<"fq", p, x[3] + 1>>) = umem_fq[p][x[3] + 1]
      BY <2>4, Zenon DEF BufferAt
    <3> QED BY <1>3, <1>5, <3>3, <3>4, <3>5, SpotThere, Zenon
  <2>5. ASSUME NEW x \in Spots', ~(x[1] = "fq" /\ x[2] = p), x # d
        PROVE  x \in Spots /\ BufferAt(x)' = BufferAt(x)
    <3>1. x = <<x[1], x[2], x[3]>> /\ IsSpot(x[1], x[2], x[3])' /\ x[3] \in Nat
      BY SpotForm, Zenon
    <3>2. CASE x[1] = "rx" /\ x[2] = p
      <4>1. x[3] \in 1 .. Len(rxq[p]) + 1
        BY <1>4, <1>5, <3>1, <3>2, Zenon DEF IsSpot
      <4>2. x[3] # Len(rxq[p]) + 1
        BY <1>0, <2>5, <3>1, <3>2, Zenon
      <4>3. x[3] \in 1 .. Len(rxq[p])
        BY <1>4, <4>1, <4>2
      <4>4. IsSpot(x[1], x[2], x[3])
        BY <3>2, <4>3, Zenon DEF IsSpot
      <4>5. BufferAt(x)' = BufferAt(x)
        BY <1>4, <1>5, <3>2, <4>3, Zenon DEF BufferAt
      <4> QED BY <3>1, <4>4, <4>5, SpotThere, Zenon
    <3>3. CASE ~(x[1] = "rx" /\ x[2] = p)
      <4>1. /\ x[1] = "fq" => x[2] \in Caches /\ umem_fq'[x[2]] = umem_fq[x[2]]
            /\ x[1] = "rx" => x[2] \in Caches /\ rxq'[x[2]] = rxq[x[2]]
        BY <1>5, <2>5, <3>1, <3>3, Zenon DEF IsSpot
      <4>2. UNCHANGED <<staged, txq, umem_cq, pkt>>
        BY <1>1, Zenon DEF threadVars
      <4>3. IsSpot(x[1], x[2], x[3])
        BY <2>1, <3>1, <4>1, <4>2, Zenon DEF IsSpot
      <4>4. BufferAt(x)' = BufferAt(x)
        BY <4>1, <4>2, Zenon DEF BufferAt
      <4> QED BY <3>1, <4>3, <4>4, SpotThere, Zenon
    <3> QED BY <3>2, <3>3, Zenon
  <2>6. out' = out /\ FwOnce
    BY <1>1, Zenon DEF FwInv
  <2> QED BY <2>2, <2>3, <2>4, <2>5, <2>6, HeadMoves, SMTT(30)
<1> QED BY <1>6, <1>7, <1>8, <1>9, Zenon DEF FwInv

(* The kernel moves a buffer from the transmit ring to the completion ring. *)
LEMMA TransmitInv == ASSUME FwInv, PoolInv', NEW p \in Caches, Transmit(p) PROVE FwInv'
<1>0. PICK b, d : b = Head(txq[p]) /\ d = <<"cq", p, Len(umem_cq[p]) + 1>>
  BY Zenon
<1>1. /\ txq[p] # <<>> /\ umem_cq' = [umem_cq EXCEPT ![p] = Append(@, b)] /\ txq' = [txq EXCEPT ![p] = Tail(@)]
      /\ UNCHANGED <<main, at, staged, umem_fq, rxq, threadVars, live, n_buffers_cons, out>>
  BY <1>0, Zenon DEF Transmit, poolVars, consSide, mainVars
<1>2. /\ txq \in [Caches -> Seq(Buffers)] /\ txq[p] \in Seq(Buffers)
      /\ umem_cq \in [Caches -> Seq(Buffers)] /\ umem_cq[p] \in Seq(Buffers)
  BY Zenon DEF FwInv, FwTypes
<1>3. /\ Len(txq[p]) \in Nat \ {0} /\ Tail(txq[p]) \in Seq(Buffers)
      /\ Len(Tail(txq[p])) = Len(txq[p]) - 1
      /\ \A k \in 1 .. Len(txq[p]) - 1 : Tail(txq[p])[k] = txq[p][k + 1]
      /\ b = txq[p][1] /\ b \in Buffers
  BY <1>0, <1>1, <1>2, TailOf, Zenon
<1>4. /\ Append(umem_cq[p], b) \in Seq(Buffers) /\ Len(umem_cq[p]) \in Nat
      /\ Len(Append(umem_cq[p], b)) = Len(umem_cq[p]) + 1 /\ Append(umem_cq[p], b)[Len(umem_cq[p]) + 1] = b
      /\ \A k \in 1 .. Len(umem_cq[p]) : Append(umem_cq[p], b)[k] = umem_cq[p][k]
  BY <1>2, <1>3, AppendTo
<1>5. /\ txq' \in [Caches -> Seq(Buffers)] /\ txq'[p] = Tail(txq[p])
      /\ \A r \in Caches : r # p => txq'[r] = txq[r]
      /\ umem_cq' \in [Caches -> Seq(Buffers)] /\ umem_cq'[p] = Append(umem_cq[p], b)
      /\ \A r \in Caches : r # p => umem_cq'[r] = umem_cq[r]
  BY <1>1, <1>2, <1>3, <1>4, Zenon
<1>6. FwTypes'
  BY <1>1, <1>5, Zenon DEF FwInv, FwTypes, threadVars
<1>7. FwMain'
  BY <1>1, Zenon DEF FwInv, FwMain, threadVars
<1>8. FwThreads'
  <2> SUFFICES ASSUME NEW u \in Threads PROVE ThreadOK(u)'
    BY Zenon DEF FwThreads
  <2>1. ThreadOK(u) /\ peeked[u] \in Nat /\ port[u] \in Caches
    BY Zenon DEF FwInv, FwThreads, FwTypes
  <2>2. ports_tx(port[u]) \in Caches /\ ports_tx(port[u])' = ports_tx(port[u])
    BY <1>1, <2>1, TxPort, Zenon DEF ports_tx, threadVars
  <2>3. \A r \in Caches : Len(umem_cq[r]) \in Nat /\ Len(umem_cq'[r]) \in Nat /\ Len(umem_cq[r]) <= Len(umem_cq'[r])
    <3> SUFFICES ASSUME NEW r \in Caches
                 PROVE  Len(umem_cq[r]) \in Nat /\ Len(umem_cq'[r]) \in Nat /\ Len(umem_cq[r]) <= Len(umem_cq'[r])
      BY Zenon
    <3>1. CASE r = p
      BY <1>4, <1>5, <3>1, SMTT(30)
    <3>2. CASE r # p
      <4>1. umem_cq[r] \in Seq(Buffers) /\ umem_cq'[r] = umem_cq[r]
        BY <1>2, <1>5, <3>2, Zenon
      <4>2. Len(umem_cq[r]) \in Nat
        BY <4>1, LenOf, Zenon
      <4> QED BY <4>1, <4>2
    <3> QED BY <3>1, <3>2, Zenon
  <2>4. peeked[u] <= Len(umem_cq[ports_tx(port[u])]) => peeked[u] <= Len(umem_cq'[ports_tx(port[u])])
    BY <2>1, <2>2, <2>3, SMTT(30)
  <2> QED BY <1>1, <2>1, <2>2, <2>4, Zenon DEF ThreadOK, threadVars
<1>9. FwOnce'
  <2>1. \A r, i : Back(r, i)' <=> Back(r, i)
    BY <1>1, Zenon DEF Back, threadVars
  <2>2. <<"tx", p, 1>> \in Spots /\ BufferAt(<<"tx", p, 1>>) = b
    <3>1. IsSpot("tx", p, 1)
      BY <1>3, SMTT(30) DEF IsSpot
    <3> QED BY <1>3, <3>1, SpotThere, Zenon DEF BufferAt
  <2>3. BufferAt(d)' = b /\ d[1] # "tx"
    BY <1>0, <1>4, <1>5, Zenon DEF BufferAt
  <2>4. ASSUME NEW x \in Spots', x[1] = "tx", x[2] = p
        PROVE  /\ x[3] # 0 /\ <<"tx", p, x[3] + 1>> \in Spots
               /\ BufferAt(x)' = BufferAt(<<"tx", p, x[3] + 1>>)
    <3>1. IsSpot(x[1], x[2], x[3])'
      BY SpotForm, Zenon
    <3>2. x[3] \in 1 .. Len(txq'[p])
      BY <2>4, <3>1, Zenon DEF IsSpot
    <3>3. x[3] \in 1 .. Len(txq[p]) - 1 /\ x[3] + 1 \in 1 .. Len(txq[p]) /\ x[3] # 0
      <4>1. Len(txq[p]) \in Nat /\ x[3] \in 1 .. Len(txq[p]) - 1
        BY <1>3, <1>5, <3>2, Zenon
      <4> QED BY <4>1
    <3>4. IsSpot("tx", p, x[3] + 1)
      BY <3>3, Zenon DEF IsSpot
    <3>5. BufferAt(x)' = txq'[p][x[3]] /\ BufferAt(<<"tx", p, x[3] + 1>>) = txq[p][x[3] + 1]
      BY <2>4, Zenon DEF BufferAt
    <3> QED BY <1>3, <1>5, <3>3, <3>4, <3>5, SpotThere, Zenon
  <2>5. ASSUME NEW x \in Spots', ~(x[1] = "tx" /\ x[2] = p), x # d
        PROVE  x \in Spots /\ BufferAt(x)' = BufferAt(x)
    <3>1. x = <<x[1], x[2], x[3]>> /\ IsSpot(x[1], x[2], x[3])' /\ x[3] \in Nat
      BY SpotForm, Zenon
    <3>2. CASE x[1] = "cq" /\ x[2] = p
      <4>1. x[3] \in 1 .. Len(umem_cq[p]) + 1
        BY <1>4, <1>5, <3>1, <3>2, Zenon DEF IsSpot
      <4>2. x[3] # Len(umem_cq[p]) + 1
        BY <1>0, <2>5, <3>1, <3>2, Zenon
      <4>3. x[3] \in 1 .. Len(umem_cq[p])
        BY <1>4, <4>1, <4>2
      <4>4. IsSpot(x[1], x[2], x[3])
        BY <2>1, <3>1, <3>2, <4>3, Zenon DEF IsSpot
      <4>5. BufferAt(x)' = BufferAt(x)
        BY <1>4, <1>5, <3>2, <4>3, Zenon DEF BufferAt
      <4> QED BY <3>1, <4>4, <4>5, SpotThere, Zenon
    <3>3. CASE ~(x[1] = "cq" /\ x[2] = p)
      <4>1. /\ x[1] = "tx" => x[2] \in Caches /\ txq'[x[2]] = txq[x[2]]
            /\ x[1] = "cq" => x[2] \in Caches /\ umem_cq'[x[2]] = umem_cq[x[2]]
        BY <1>5, <2>5, <3>1, <3>3, Zenon DEF IsSpot
      <4>2. UNCHANGED <<staged, umem_fq, rxq, pkt>>
        BY <1>1, Zenon DEF threadVars
      <4>3. IsSpot(x[1], x[2], x[3])
        BY <2>1, <3>1, <4>1, <4>2, Zenon DEF IsSpot
      <4>4. BufferAt(x)' = BufferAt(x)
        BY <4>1, <4>2, Zenon DEF BufferAt
      <4> QED BY <3>1, <4>3, <4>4, SpotThere, Zenon
    <3> QED BY <3>2, <3>3, Zenon
  <2>6. out' = out /\ FwOnce
    BY <1>1, Zenon DEF FwInv
  <2> QED BY <2>2, <2>3, <2>4, <2>5, <2>6, HeadMoves, SMTT(30)
<1> QED BY <1>6, <1>7, <1>8, <1>9, Zenon DEF FwInv

-----------------------------------------------------------------------------
(* The invariant *)

(* The invariant that holds from start-up on. *)
LEMMA FwStart == Init /\ PoolInv => FwInv
<1> SUFFICES ASSUME Init, PoolInv PROVE FwInv
  BY Zenon
<1>1. PoolInit
  BY Zenon DEF Init
<1>3. FwTypes
  BY ForwardAssumption DEF Init, FwTypes, Pcs
<1>4. FwMain
  <2>1. live = {} /\ at = 0 /\ 0 .. (0 - 1) = {}
    BY <1>1 DEF Init, PoolInit
  <2> QED BY <2>1, ForwardAssumption DEF Init, FwMain, Opening
<1>5. FwThreads
  BY Zenon DEF Init, FwThreads, ThreadOK, Serving
<1>6. Spots = {}
  BY SpotForm DEF Init, IsSpot
<1>7. FwOnce
  BY <1>6, Zenon DEF FwOnce
<1> QED BY <1>3, <1>4, <1>5, <1>7, Zenon DEF FwInv

(* Every step keeps it, given that the pool keeps its own. *)
LEMMA FwStep == FwInv /\ [Next]_vars /\ PoolInv' => FwInv'
<1> SUFFICES ASSUME FwInv, [Next]_vars, PoolInv' PROVE FwInv'
  BY Zenon
<1>1. CASE Main
  BY <1>1, OpenCacheInv, CheckCacheInv, QuietMainInv, StartThreadsInv, FreeInv, StageFillInv,
     SubmitFillInv, Zenon DEF Main
<1>2. ASSUME NEW t \in Threads, Thread(t) PROVE FwInv'
  BY <1>2, LoopTopInv, PollInv, NextPortInv, CheckBuffersInv, TakePacketInv, ReplenishInv,
     SendPacketInv, PeekCompletionsInv, GiveBackInv, ReleaseCompletionsInv, Zenon DEF Thread
<1>3. ASSUME NEW p \in Caches, Receive(p) \/ Transmit(p) PROVE FwInv'
  BY <1>3, ReceiveInv, TransmitInv, Zenon
<1>4. CASE Terminated \/ UNCHANGED vars
  <2>1. UNCHANGED <<poolVars, mainVars, rings, threadVars>>
    BY <1>4, Zenon DEF Terminated, vars
  <2>2. UNCHANGED <<live, n_buffers_cons, out, main, at, staged>>
    BY <2>1, Zenon DEF poolVars, consSide, mainVars
  <2>3. FwTypes'
    BY <2>1, <2>2, Zenon DEF FwInv, FwTypes, rings, threadVars
  <2>4. FwMain'
    BY <2>1, <2>2, Zenon DEF FwInv, FwMain, threadVars
  <2>5. FwThreads'
    BY <2>1, <2>2, NoThreads, Zenon DEF FwInv
  <2>6. FwOnce'
    BY <2>1, <2>2, StillOnce, Zenon DEF FwInv
  <2> QED BY <2>3, <2>4, <2>5, <2>6, Zenon DEF FwInv
<1> QED BY <1>1, <1>2, <1>3, <1>4, Zenon DEF Next
==============================================================================
