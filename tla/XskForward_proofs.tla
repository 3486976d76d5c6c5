-------------------------- MODULE XskForward_proofs --------------------------
(***************************************************************************)
(* The forwarder implements the contract of the buffer pool, for every      *)
(* number of ports and threads and every size of pool, slabs and rings: no  *)
(* thread and no step of main calls a cache operation out of turn.  So the  *)
(* theorems about the pool hold of the program.                             *)
(*                                                                         *)
(* What the threads rely on (ForwardInv) takes more than the buffers: how   *)
(* many are on their way through the rings of a port, that a port reported  *)
(* ready is its thread's alone, and that no buffer which is out is dropped. *)
(***************************************************************************)
EXTENDS XskForward_lemmas, BufferPool_proofs

-----------------------------------------------------------------------------
(* The rings *)

(* main has filled the ring of port p *)
PortFilled(p) == main \in {"running", "quit", "free", "done"} \/ p < at

(* a packet was taken from port p and its place on the fill ring is empty *)
Pending(p) == IF \E t \in Threads : pc[t] = "fq" /\ port[t] = p THEN 1 ELSE 0

(* the ports that are open *)
FwOpened ==
  /\ main \in {"bcache", "check", "socket"} => opened = 0 .. (at - 1)
  /\ main \in {"xskmap", "fill"} => opened = 0 .. at
  /\ main \in {"running", "quit"} => opened = Caches
  /\ main = "free" => opened = at .. (NPorts - 1)
  /\ main = "failed" => opened \subseteq live
  /\ main = "done" => opened = {}
  /\ at \in 0 .. NPorts
  /\ main = "quit" => at <= NThreads

(* what the receiving side of a port holds *)
FwFill == \A p \in Caches : Len(umem_fq[p]) + Len(rxq[p]) + Pending(p) = IF PortFilled(p) THEN fill_size ELSE 0

(* what the sending side holds: as much as the transmit ring, but for the packet just
   sent and the completions just peeked *)
SentOK(p) ==
  /\ Len(txq[p]) <= tx_size /\ Len(umem_cq[p]) <= comp_size
  /\ \/ Len(txq[p]) + Len(umem_cq[p]) <= tx_size
     \/ \E t \in Threads : /\ ports_tx(port[t]) = p
                           /\ \/ pc[t] = "cq" /\ Len(txq[p]) + Len(umem_cq[p]) <= tx_size + 1
                              \/ pc[t] = "drain" /\ Len(txq[p]) + Len(umem_cq[p]) <= tx_size + peeked[t]
FwSent == \A p \in Caches : SentOK(p)

(* a port that was reported has a packet until the thread takes it *)
ReadyOK(t) ==
  /\ \A p \in ready[t] : rxq[p] # <<>>
  /\ pc[t] \in {"rx", "peek"} => rxq[port[t]] # <<>>
  /\ pc[t] \in Serving => port[t] \notin ready[t]
  /\ pc[t] \notin {"fq", "txq"} => pkt[t] = NoBuffer
  /\ pc[t] # "drain" => peeked[t] = 0
FwReady == \A t \in Threads : ReadyOK(t)

(* buffer b is somewhere outside the pool *)
In(s, b) == \E i \in 1 .. Len(s) : s[i] = b
InRing(ring, b) == \E p \in Caches : In(ring[p], b)
InCompletions(b) == \E p \in Caches : \E i \in 1 .. Len(umem_cq[p]) : umem_cq[p][i] = b /\ ~Back(p, i)
InBurst(b) == \E t \in Threads : pkt[t] # NoBuffer /\ pkt[t] = b
Held(b) == In(staged, b) \/ InRing(umem_fq, b) \/ InRing(rxq, b) \/ InRing(txq, b) \/ InCompletions(b) \/ InBurst(b)
FwHeld == \A b \in out : Held(b)

FwRings == FwOpened /\ FwFill /\ FwSent /\ FwReady /\ FwHeld

(* ring r when e is put at the end for port p, and when the first is taken *)
Added(r, p, e) == [r EXCEPT ![p] = Append(@, e)]
Dropped(r, p) == [r EXCEPT ![p] = Tail(@)]

(* One more entry in the ring of port p. *)
LEMMA PutIn ==
  ASSUME NEW r \in [Caches -> Seq(Buffers)], NEW p \in Caches, NEW e \in Buffers
  PROVE  /\ Len(Added(r, p, e)[p]) = Len(r[p]) + 1 /\ Len(r[p]) \in Nat /\ Added(r, p, e)[p] # <<>>
         /\ \A q \in Caches : q # p => Added(r, p, e)[q] = r[q]
         /\ \A b : InRing(r, b) \/ b = e => InRing(Added(r, p, e), b)
<1>0. PICK s : s = Added(r, p, e)
  BY Zenon
<1>1. r[p] \in Seq(Buffers) /\ s[p] = Append(r[p], e) /\ \A q \in Caches : q # p => s[q] = r[q]
  BY <1>0, Zenon DEF Added
<1>2. /\ Len(r[p]) \in Nat /\ Len(s[p]) = Len(r[p]) + 1 /\ s[p][Len(r[p]) + 1] = e
      /\ \A k \in 1 .. Len(r[p]) : s[p][k] = r[p][k]
  BY <1>1, AppendTo
<1>3. s[p] # <<>>
  <2>1. Len(s[p]) # 0
    BY <1>2
  <2> QED BY <2>1
<1>4. ASSUME NEW b, In(r[p], b) \/ b = e PROVE In(s[p], b)
  BY <1>2, <1>4 DEF In
<1>5. ASSUME NEW b, InRing(r, b) \/ b = e PROVE InRing(s, b)
  BY <1>1, <1>4, <1>5, Zenon DEF InRing
<1> QED BY <1>0, <1>1, <1>2, <1>3, <1>5, Zenon

(* The first entry of the ring of port p is taken. *)
LEMMA TakeOff ==
  ASSUME NEW r \in [Caches -> Seq(Buffers)], NEW p \in Caches, r[p] # <<>>
  PROVE  /\ Len(Dropped(r, p)[p]) = Len(r[p]) - 1 /\ Len(r[p]) \in Nat \ {0} /\ Head(r[p]) \in Buffers
         /\ \A q \in Caches : q # p => Dropped(r, p)[q] = r[q]
         /\ \A b : InRing(r, b) => InRing(Dropped(r, p), b) \/ b = Head(r[p])
<1>0. PICK s : s = Dropped(r, p)
  BY Zenon
<1>1. r[p] \in Seq(Buffers) /\ s[p] = Tail(r[p]) /\ \A q \in Caches : q # p => s[q] = r[q]
  BY <1>0, Zenon DEF Dropped
<1>2. /\ Len(r[p]) \in Nat \ {0} /\ Len(s[p]) = Len(r[p]) - 1 /\ Head(r[p]) = r[p][1] /\ r[p][1] \in Buffers
      /\ \A k \in 1 .. Len(r[p]) - 1 : s[p][k] = r[p][k + 1]
  BY <1>1, TailOf
<1>3. ASSUME NEW b, In(r[p], b), b # Head(r[p]) PROVE In(s[p], b)
  <2>1. PICK i \in 1 .. Len(r[p]) : r[p][i] = b
    BY <1>3, Zenon DEF In
  <2>2. i # 1
    BY <1>2, <1>3, <2>1, Zenon
  <2>3. i - 1 \in 1 .. Len(r[p]) - 1 /\ (i - 1) + 1 = i
    BY <1>2, <2>2
  <2>4. s[p][i - 1] = r[p][i]
    BY <1>2, <2>3, Zenon
  <2> QED BY <1>2, <2>1, <2>3, <2>4, Zenon DEF In
<1>4. ASSUME NEW b, InRing(r, b) PROVE InRing(s, b) \/ b = Head(r[p])
  BY <1>1, <1>3, <1>4, Zenon DEF InRing
<1> QED BY <1>0, <1>1, <1>2, <1>4, Zenon

-----------------------------------------------------------------------------
(* What a step leaves alone *)

(* thread t alone moves *)
OtherSame(t) ==
  \A u \in Threads : u # t => /\ ready'[u] = ready[u] /\ pc'[u] = pc[u] /\ port'[u] = port[u]
                              /\ pkt'[u] = pkt[u] /\ cursor'[u] = cursor[u] /\ peeked'[u] = peeked[u]

(* A step of a thread changes its own variables and none of main. *)
LEMMA ThreadSame ==
  ASSUME FwTypes, NEW t \in Threads, Thread(t)
  PROVE  OtherSame(t) /\ UNCHANGED mainVars
<1>0. /\ pc \in [Threads -> Pcs] /\ ready \in [Threads -> SUBSET Caches] /\ port \in [Threads -> Caches]
      /\ pkt \in [Threads -> Buffers \cup {NoBuffer}]
      /\ cursor \in [Threads -> Nat] /\ peeked \in [Threads -> Nat]
  BY Zenon DEF FwTypes
<1>1. CASE LoopTop(t) \/ Poll(t) \/ CheckBuffers(t)
  BY <1>0, <1>1, Zenon DEF LoopTop, Poll, CheckBuffers, goto, OtherSame
<1>2. CASE NextPort(t)
  BY <1>0, <1>2, Zenon DEF NextPort, goto, OtherSame
<1>3. CASE TakePacket(t) \/ Replenish(t) \/ SendPacket(t)
  BY <1>0, <1>3, Zenon DEF TakePacket, Replenish, SendPacket, goto, OtherSame
<1>4. CASE PeekCompletions(t) \/ GiveBack(t) \/ ReleaseCompletions(t)
  BY <1>0, <1>4, Zenon DEF PeekCompletions, GiveBack, ReleaseCompletions, goto, OtherSame
<1> QED BY <1>1, <1>2, <1>3, <1>4, Zenon DEF Thread

(* No place on a fill ring becomes empty or is filled. *)
LEMMA PendingKept ==
  ASSUME NEW t \in Threads, OtherSame(t), pc[t] # "fq", pc'[t] # "fq"
  PROVE  \A p : Pending(p)' = Pending(p)
<1> SUFFICES ASSUME NEW p PROVE (\E u \in Threads : pc'[u] = "fq" /\ port'[u] = p) <=>
                                 (\E u \in Threads : pc[u] = "fq" /\ port[u] = p)
  BY Zenon DEF Pending
<1> QED BY Zenon DEF OtherSame

(* The receiving side is left alone. *)
LEMMA FillKept ==
  ASSUME FwFill, UNCHANGED <<umem_fq, rxq>>, \A p : Pending(p)' = Pending(p),
         \A p \in Caches : PortFilled(p)' <=> PortFilled(p)
  PROVE  FwFill'
BY Zenon DEF FwFill

(* The sending side of port p is left alone. *)
LEMMA SentKept ==
  ASSUME NEW t \in Threads, OtherSame(t), NEW p \in Caches, SentOK(p),
         txq'[p] = txq[p], umem_cq'[p] = umem_cq[p], pc[t] \notin {"cq", "drain"} \/ ports_tx(port[t]) # p
  PROVE  SentOK(p)'
<1>1. CASE Len(txq[p]) + Len(umem_cq[p]) <= tx_size
  BY <1>1, Zenon DEF SentOK
<1>2. ASSUME NEW u \in Threads, ports_tx(port[u]) = p,
             \/ pc[u] = "cq" /\ Len(txq[p]) + Len(umem_cq[p]) <= tx_size + 1
             \/ pc[u] = "drain" /\ Len(txq[p]) + Len(umem_cq[p]) <= tx_size + peeked[u]
      PROVE  SentOK(p)'
  <2>1. u # t
    BY <1>2, Zenon
  <2>2. pc'[u] = pc[u] /\ peeked'[u] = peeked[u] /\ ports_tx(port[u])' = p
    BY <1>2, <2>1, Zenon DEF OtherSame, ports_tx
  <2> QED BY <1>2, <2>2, Zenon DEF SentOK
<1> QED BY <1>1, <1>2, Zenon DEF SentOK

(* A thread that does not move finds its ports ready still. *)
LEMMA ReadyOther ==
  ASSUME FwThreads, FwReady, NEW u \in Threads,
         ready'[u] = ready[u] /\ pc'[u] = pc[u] /\ port'[u] = port[u] /\ pkt'[u] = pkt[u] /\ peeked'[u] = peeked[u],
         \A p \in ports_rx(u) : rxq[p] # <<>> => rxq'[p] # <<>>
  PROVE  ReadyOK(u)'
<1>1. ThreadOK(u) /\ ReadyOK(u)
  BY Zenon DEF FwThreads, FwReady
<1>2. ready[u] \subseteq ports_rx(u) /\ (pc[u] \in Serving => port[u] \in ports_rx(u))
  BY <1>1, Zenon DEF ThreadOK
<1> QED BY <1>1, <1>2, Zenon DEF ReadyOK, Serving

(* No buffer moves outside the pool. *)
LEMMA HeldKept ==
  ASSUME FwHeld, UNCHANGED <<staged, rings, pkt>>, out' \subseteq out,
         \A p : \A i \in Nat \ {0} : Back(p, i)' <=> Back(p, i)
  PROVE  FwHeld'
<1> SUFFICES ASSUME NEW b \in out PROVE Held(b)'
  BY Zenon DEF FwHeld
<1>1. UNCHANGED <<staged, umem_fq, rxq, txq, umem_cq>>
  BY Zenon DEF rings
<1>2. InCompletions(b) => InCompletions(b)'
  BY <1>1 DEF InCompletions
<1>3. In(staged, b)' = In(staged, b) /\ InRing(umem_fq, b)' = InRing(umem_fq, b)
      /\ InRing(rxq, b)' = InRing(rxq, b) /\ InRing(txq, b)' = InRing(txq, b) /\ InBurst(b)' = InBurst(b)
  BY <1>1, Zenon DEF In, InRing, InBurst
<1> QED BY <1>2, <1>3, Zenon DEF FwHeld, Held

(* The ports stay open. *)
LEMMA OpenedKept == ASSUME FwOpened, UNCHANGED <<mainVars, live>> PROVE FwOpened'
BY Zenon DEF FwOpened, mainVars

(* A step of a thread between two bursts. *)
LEMMA QuietRings ==
  ASSUME FwInv, FwRings, NEW t \in Threads, OtherSame(t), pc[t] \notin {"fq", "cq", "drain"}, pc'[t] # "fq",
         UNCHANGED <<mainVars, rings, pkt, cursor, live, out>>, ReadyOK(t)'
  PROVE  FwRings'
<1>0. UNCHANGED <<main, at, staged, opened, umem_fq, rxq, txq, umem_cq>>
  BY Zenon DEF mainVars, rings
<1>1. FwOpened'
  BY OpenedKept, Zenon DEF FwRings
<1>2. FwFill'
  <2>1. \A p : Pending(p)' = Pending(p)
    BY PendingKept, Zenon
  <2> QED BY <1>0, <2>1, FillKept, Zenon DEF FwRings, PortFilled
<1>3. FwSent'
  BY <1>0, SentKept, Zenon DEF FwRings, FwSent
<1>4. FwReady'
  <2> SUFFICES ASSUME NEW u \in Threads, u # t PROVE ReadyOK(u)'
    BY Zenon DEF FwReady
  <2> QED BY <1>0, ReadyOther, Zenon DEF FwInv, FwRings, OtherSame
<1>5. FwHeld'
  <2>1. cursor[t] = 0 /\ cursor'[t] = 0
    BY Zenon DEF FwInv, FwThreads, ThreadOK
  <2>2. \A p : \A i \in Nat \ {0} : Back(p, i)' <=> Back(p, i)
    BY <2>1, BackKept, Zenon DEF FwInv, OtherSame
  <2> QED BY <1>0, <2>2, HeldKept, Zenon DEF FwRings
<1> QED BY <1>1, <1>2, <1>3, <1>4, <1>5, Zenon DEF FwRings

-----------------------------------------------------------------------------
(* The threads *)

(* The top of the loop, poll(), the loop over the ports and the look into the cache. *)
LEMMA LoopRings ==
  ASSUME FwInv, FwRings, NEW t \in Threads, LoopTop(t) \/ Poll(t) \/ NextPort(t) \/ CheckBuffers(t)
  PROVE  FwRings'
<1>0. /\ pc \in [Threads -> Pcs] /\ ready \in [Threads -> SUBSET Caches] /\ port \in [Threads -> Caches]
      /\ pkt \in [Threads -> Buffers \cup {NoBuffer}] /\ peeked \in [Threads -> Nat]
      /\ ThreadOK(t) /\ ReadyOK(t)
  BY Zenon DEF FwInv, FwTypes, FwThreads, FwRings, FwReady
<1>1. OtherSame(t) /\ UNCHANGED mainVars
  BY ThreadSame, Zenon DEF FwInv, Thread
<1>2. CASE LoopTop(t)
  <2>1. /\ pc[t] = "loop" /\ pc'[t] \in {"exit", "poll"}
        /\ UNCHANGED <<poolVars, rings, ready, port, pkt, cursor, peeked>>
    BY <1>0, <1>2, Zenon DEF LoopTop, goto
  <2>2. UNCHANGED <<rxq, live, out>>
    BY <2>1, Zenon DEF rings, poolVars
  <2>3. ReadyOK(t)'
    BY <1>0, <2>1, <2>2, Zenon DEF ReadyOK, Serving
  <2> QED BY <1>1, <2>1, <2>2, <2>3, QuietRings, Zenon
<1>3. CASE Poll(t)
  <2>1. /\ pc[t] = "poll" /\ pc'[t] = "port" /\ ready'[t] = {p \in ports_rx(t) : rxq[p] # <<>>}
        /\ UNCHANGED <<poolVars, rings, port, pkt, cursor, peeked>>
    BY <1>0, <1>3, Zenon DEF Poll, goto
  <2>2. UNCHANGED <<rxq, live, out>>
    BY <2>1, Zenon DEF rings, poolVars
  <2>3. ReadyOK(t)'
    BY <1>0, <2>1, <2>2, Zenon DEF ReadyOK, Serving
  <2> QED BY <1>1, <2>1, <2>2, <2>3, QuietRings, Zenon
<1>4. CASE NextPort(t)
  <2>1. pc[t] = "port" /\ UNCHANGED <<poolVars, rings, pkt, cursor, peeked>>
    BY <1>4, Zenon DEF NextPort
  <2>2. \/ pc'[t] = "loop" /\ UNCHANGED <<ready, port>>
        \/ \E p \in ready[t] : port'[t] = p /\ ready'[t] = ready[t] \ {p} /\ pc'[t] = "rx"
    BY <1>0, <1>4, Zenon DEF NextPort, goto
  <2>3. UNCHANGED <<rxq, live, out>>
    BY <2>1, Zenon DEF rings, poolVars
  <2>4. ReadyOK(t)'
    BY <1>0, <2>1, <2>2, <2>3, Zenon DEF ReadyOK, Serving
  <2> QED BY <1>1, <2>1, <2>2, <2>3, <2>4, QuietRings, Zenon
<1>5. CASE CheckBuffers(t)
  <2>1. /\ pc[t] = "rx" /\ pc'[t] \in {"port", "peek"} /\ bcache_cons_check(port[t])
        /\ UNCHANGED <<rings, ready, port, pkt, cursor, peeked>>
    BY <1>0, <1>5, Zenon DEF CheckBuffers, goto
  <2>2. UNCHANGED <<rxq, live, out>>
    BY <2>1, Zenon DEF rings, bcache_cons_check, TradeConsumerSlab, poolVars
  <2>3. ReadyOK(t)'
    BY <1>0, <2>1, <2>2, Zenon DEF ReadyOK, Serving
  <2> QED BY <1>1, <2>1, <2>2, <2>3, QuietRings, Zenon
<1> QED BY <1>2, <1>3, <1>4, <1>5, Zenon

(* Another thread serves other ports. *)
LEMMA OtherPort ==
  ASSUME FwInv, NEW t \in Threads, NEW u \in Threads, u # t, pc[t] \in Serving
  PROVE  /\ port[t] \in ports_rx(t) /\ port[t] \in Caches /\ ports_tx(port[t]) \in Caches
         /\ port[t] \notin ports_rx(u)
         /\ pc[u] \in Serving => port[u] # port[t] /\ ports_tx(port[u]) # ports_tx(port[t])
<1>1. port[t] \in ports_rx(t) /\ (pc[u] \in Serving => port[u] \in ports_rx(u))
  BY Zenon DEF FwInv, FwThreads, ThreadOK
<1>2. port[t] \in Caches /\ ports_tx(port[t]) \in Caches
  BY <1>1, TxPort, Zenon DEF ports_rx
<1> QED BY <1>1, <1>2, OwnPorts, Zenon

(* The port a thread serves and the one it sends on. *)
LEMMA OwnPort ==
  ASSUME FwInv, NEW t \in Threads, pc[t] \in Serving
  PROVE  /\ port[t] \in ports_rx(t) /\ port[t] \in Caches /\ ports_tx(port[t]) \in Caches
<1>1. port[t] \in ports_rx(t)
  BY Zenon DEF FwInv, FwThreads, ThreadOK
<1> QED BY <1>1, TxPort, Zenon DEF ports_rx

(* The packet that is taken leaves a place on the fill ring. *)
LEMMA TakePacketRings == ASSUME FwInv, FwRings, NEW t \in Threads, TakePacket(t) PROVE FwRings'
<1>0. PICK p : p = port[t]
  BY Zenon
<1>1. /\ pc[t] = "peek" /\ rxq[p] # <<>> /\ pkt' = [pkt EXCEPT ![t] = Head(rxq[p])]
      /\ rxq' = [rxq EXCEPT ![p] = Tail(@)] /\ pc' = [pc EXCEPT ![t] = "fq"]
      /\ UNCHANGED <<mainVars, umem_fq, txq, umem_cq, ready, port, cursor, peeked, live, out>>
  BY <1>0, Zenon DEF TakePacket, goto, poolVars
<1>2. /\ rxq \in [Caches -> Seq(Buffers)] /\ umem_fq \in [Caches -> Seq(Buffers)]
      /\ pc \in [Threads -> Pcs] /\ pkt \in [Threads -> Buffers \cup {NoBuffer}]
      /\ ThreadOK(t) /\ ReadyOK(t)
  BY Zenon DEF FwInv, FwTypes, FwThreads, FwRings, FwReady
<1>3. p \in ports_rx(t) /\ p \in Caches
  BY <1>0, <1>1, OwnPort, Zenon DEF Serving
<1>4. OtherSame(t) /\ pc'[t] = "fq" /\ pkt'[t] = Head(rxq[p])
  BY <1>1, <1>2, ThreadSame, Zenon DEF FwInv, Thread
<1>5. /\ Len(rxq'[p]) = Len(rxq[p]) - 1 /\ Len(rxq[p]) \in Nat \ {0} /\ Head(rxq[p]) \in Buffers
      /\ \A q \in Caches : q # p => rxq'[q] = rxq[q]
      /\ \A b : InRing(rxq, b) => InRing(rxq', b) \/ b = Head(rxq[p])
  <2>1. rxq' = Dropped(rxq, p)
    BY <1>1, Zenon DEF Dropped
  <2> QED BY <1>1, <1>2, <1>3, <2>1, TakeOff, Zenon
<1>6. \A u \in Threads : u # t /\ pc[u] \in Serving => port[u] # p
  BY <1>0, <1>1, OtherPort, Zenon DEF Serving
<1>7. UNCHANGED <<main, at, staged, opened>>
  BY <1>1, Zenon DEF mainVars
<1>8. FwOpened'
  BY <1>1, OpenedKept, Zenon DEF FwRings
<1>9. FwFill'
  <2>1. \A q \in Caches : q # p => Pending(q)' = Pending(q)
    BY <1>0, <1>1, <1>4 DEF Pending, OtherSame
  <2>2. Pending(p) = 0
    BY <1>1, <1>6, Zenon DEF Pending, Serving
  <2>3. Pending(p)' = 1
    BY <1>0, <1>1, <1>4, Zenon DEF Pending
  <2>4. \A q \in Caches : PortFilled(q)' <=> PortFilled(q)
    BY <1>7, Zenon DEF PortFilled
  <2>5. ASSUME NEW q \in Caches PROVE Len(umem_fq'[q]) + Len(rxq'[q]) + Pending(q)' = Len(umem_fq[q]) + Len(rxq[q]) + Pending(q)
    <3>1. Len(umem_fq[p]) \in Nat /\ umem_fq' = umem_fq
      BY <1>1, <1>2, <1>3, LenOf, Zenon
    <3>2. CASE q = p
      <4>1. Len(rxq'[q]) = Len(rxq[q]) - 1 /\ Len(rxq[q]) \in Nat \ {0} /\ Pending(q) = 0 /\ Pending(q)' = 1
        BY <1>5, <2>2, <2>3, <3>2, Zenon
      <4> QED BY <3>1, <3>2, <4>1
    <3>3. CASE q # p
      BY <1>5, <2>1, <3>1, <3>3, Zenon
    <3> QED BY <3>2, <3>3, Zenon
  <2> QED BY <2>4, <2>5, Zenon DEF FwRings, FwFill
<1>10. FwSent'
  BY <1>1, <1>4, SentKept, Zenon DEF FwRings, FwSent
<1>11. FwReady'
  <2>1. ASSUME NEW u \in Threads, u # t PROVE ReadyOK(u)'
    <3>1. \A q \in ports_rx(u) : rxq[q] # <<>> => rxq'[q] # <<>>
      <4>1. p \notin ports_rx(u) /\ ports_rx(u) \subseteq Caches
        BY <1>0, <1>1, <2>1, OtherPort, Zenon DEF Serving, ports_rx
      <4> QED BY <1>5, <4>1, Zenon
    <3> QED BY <1>4, <2>1, <3>1, ReadyOther, Zenon DEF FwInv, FwRings, OtherSame
  <2>2. ReadyOK(t)'
    <3>1. p \notin ready[t] /\ ready[t] \subseteq Caches
      BY <1>0, <1>1, <1>2, Zenon DEF ReadyOK, Serving, ThreadOK, ports_rx
    <3> QED BY <1>0, <1>1, <1>2, <1>4, <1>5, <3>1, SMTT(30) DEF ReadyOK, Serving
  <2> QED BY <2>1, <2>2, Zenon DEF FwReady
<1>12. FwHeld'
  <2> SUFFICES ASSUME NEW b \in out PROVE Held(b)'
    BY <1>1, Zenon DEF FwHeld
  <2>1. cursor[t] = 0 /\ cursor'[t] = 0
    BY <1>1, <1>2, Zenon DEF ThreadOK
  <2>2. \A q : \A i \in Nat \ {0} : Back(q, i)' <=> Back(q, i)
    BY <1>4, <2>1, BackKept, Zenon DEF FwInv, OtherSame
  <2>3. InCompletions(b) => InCompletions(b)'
    BY <1>1, <2>2 DEF InCompletions
  <2>4. InBurst(b) \/ b = Head(rxq[p]) => InBurst(b)'
    <3>1. pkt[t] = NoBuffer /\ Head(rxq[p]) # NoBuffer
      BY <1>1, <1>2, <1>5, ForwardAssumption, Zenon DEF ReadyOK
    <3> QED BY <1>4, <3>1, Zenon DEF InBurst, OtherSame
  <2>5. In(staged, b)' = In(staged, b) /\ InRing(umem_fq, b)' = InRing(umem_fq, b)
        /\ InRing(txq, b)' = InRing(txq, b) /\ InRing(rxq, b)' = InRing(rxq', b)
    BY <1>1, <1>7, Zenon DEF In, InRing
  <2> QED BY <1>5, <2>3, <2>4, <2>5, Zenon DEF FwRings, FwHeld, Held
<1> QED BY <1>8, <1>9, <1>10, <1>11, <1>12, Zenon DEF FwRings

(* A buffer moves along the receiving side of port p. *)
LEMMA FillMoves ==
  ASSUME FwFill, NEW p \in Caches, \A q \in Caches : PortFilled(q)' <=> PortFilled(q),
         \A q \in Caches : q # p => umem_fq'[q] = umem_fq[q] /\ rxq'[q] = rxq[q] /\ Pending(q)' = Pending(q),
         Len(umem_fq'[p]) + Len(rxq'[p]) + Pending(p)' = Len(umem_fq[p]) + Len(rxq[p]) + Pending(p)
  PROVE  FwFill'
<1> SUFFICES ASSUME NEW q \in Caches
             PROVE  Len(umem_fq'[q]) + Len(rxq'[q]) + Pending(q)' = IF PortFilled(q)' THEN fill_size ELSE 0
  BY Zenon DEF FwFill
<1>1. Len(umem_fq'[q]) + Len(rxq'[q]) + Pending(q)' = Len(umem_fq[q]) + Len(rxq[q]) + Pending(q)
  BY Zenon
<1> QED BY <1>1, Zenon DEF FwFill

(* A buffer of the cache takes the place of the packet. *)
LEMMA ReplenishRings == ASSUME FwInv, FwRings, NEW t \in Threads, Replenish(t) PROVE FwRings'
<1>0. PICK p, b : p = port[t] /\ b = bcache_cons_ret(p)
  BY Zenon
<1>1. /\ pc[t] = "fq" /\ umem_fq' = [umem_fq EXCEPT ![p] = Append(@, b)] /\ pc' = [pc EXCEPT ![t] = "txq"]
      /\ out' = out \cup {b}
      /\ UNCHANGED <<mainVars, rxq, txq, umem_cq, ready, port, pkt, cursor, peeked, live>>
  BY <1>0, Zenon DEF Replenish, goto, bcache_cons
<1>2. /\ rxq \in [Caches -> Seq(Buffers)] /\ umem_fq \in [Caches -> Seq(Buffers)]
      /\ pc \in [Threads -> Pcs] /\ ThreadOK(t) /\ ReadyOK(t)
  BY Zenon DEF FwInv, FwTypes, FwThreads, FwRings, FwReady
<1>3. p \in Caches /\ p \in live /\ n_buffers_cons[p] # 0
  BY <1>0, <1>1, <1>2, OwnPort, Running, Zenon DEF FwInv, ThreadOK, Serving
<1>4. b \in Buffers
  BY <1>0, <1>3, Taken, Zenon DEF FwInv
<1>5. OtherSame(t) /\ pc'[t] = "txq"
  BY <1>1, <1>2, ThreadSame, Zenon DEF FwInv, Thread
<1>6. /\ Len(umem_fq'[p]) = Len(umem_fq[p]) + 1 /\ Len(umem_fq[p]) \in Nat
      /\ \A q \in Caches : q # p => umem_fq'[q] = umem_fq[q]
      /\ \A a : InRing(umem_fq, a) \/ a = b => InRing(umem_fq', a)
  <2>1. umem_fq' = Added(umem_fq, p, b)
    BY <1>1, Zenon DEF Added
  <2> QED BY <1>2, <1>3, <1>4, <2>1, PutIn, SMTT(30)
<1>7. \A u \in Threads : u # t /\ pc[u] \in Serving => port[u] # p
  BY <1>0, <1>1, OtherPort, Zenon DEF Serving
<1>8. UNCHANGED <<main, at, staged, opened>>
  BY <1>1, Zenon DEF mainVars
<1>9. FwOpened'
  BY <1>1, OpenedKept, Zenon DEF FwRings
<1>10. FwFill'
  <2>1. \A q \in Caches : q # p => Pending(q)' = Pending(q)
    BY <1>0, <1>1, <1>5 DEF Pending, OtherSame
  <2>2. Pending(p) = 1
    BY <1>0, <1>1, Zenon DEF Pending
  <2>3. Pending(p)' = 0
    <3> SUFFICES ASSUME NEW u \in Threads, pc'[u] = "fq", port'[u] = p PROVE FALSE
      BY Zenon DEF Pending
    <3> QED BY <1>5, <1>7, Zenon DEF OtherSame, Serving
  <2>4. \A q \in Caches : PortFilled(q)' <=> PortFilled(q)
    BY <1>8, Zenon DEF PortFilled
  <2>5. Len(rxq[p]) \in Nat /\ rxq' = rxq
    BY <1>1, <1>2, <1>3, LenOf, Zenon
  <2>6. Len(umem_fq'[p]) + Len(rxq'[p]) + Pending(p)' = Len(umem_fq[p]) + Len(rxq[p]) + Pending(p)
    <3>1. Len(umem_fq'[p]) = Len(umem_fq[p]) + 1 /\ Len(umem_fq[p]) \in Nat /\ Len(rxq'[p]) = Len(rxq[p])
      BY <1>6, <2>5, Zenon
    <3>2. ASSUME NEW i \in Nat, NEW j \in Nat PROVE (i + 1) + j + 0 = i + j + 1
      OBVIOUS
    <3> QED BY <2>2, <2>3, <2>5, <3>1, <3>2, Zenon
  <2> QED BY <1>3, <1>6, <2>1, <2>4, <2>5, <2>6, FillMoves, Zenon DEF FwRings
<1>11. FwSent'
  BY <1>1, <1>5, SentKept, SMTT(30) DEF FwRings, FwSent
<1>12. FwReady'
  <2>1. ASSUME NEW u \in Threads, u # t PROVE ReadyOK(u)'
    BY <1>1, <1>5, <2>1, ReadyOther, Zenon DEF FwInv, FwRings, OtherSame
  <2>2. ReadyOK(t)'
    BY <1>1, <1>2, <1>5, Zenon DEF ReadyOK, Serving
  <2> QED BY <2>1, <2>2, Zenon DEF FwReady
<1>13. FwHeld'
  <2> SUFFICES ASSUME NEW a \in out' PROVE Held(a)'
    BY Zenon DEF FwHeld
  <2>1. cursor[t] = 0 /\ cursor'[t] = 0
    BY <1>1, <1>2, Zenon DEF ThreadOK
  <2>2. \A q : \A i \in Nat \ {0} : Back(q, i)' <=> Back(q, i)
    BY <1>5, <2>1, BackKept, Zenon DEF FwInv, OtherSame
  <2>3. InCompletions(a) => InCompletions(a)'
    BY <1>1, <2>2 DEF InCompletions
  <2>4. In(staged, a)' = In(staged, a) /\ InRing(rxq, a)' = InRing(rxq, a)
        /\ InRing(txq, a)' = InRing(txq, a) /\ InBurst(a)' = InBurst(a) /\ InRing(umem_fq, a)' = InRing(umem_fq', a)
    BY <1>1, <1>8, Zenon DEF In, InRing, InBurst
  <2>5. a \in out \/ a = b
    BY <1>1
  <2> QED BY <1>6, <2>3, <2>4, <2>5, Zenon DEF FwRings, FwHeld, Held
<1> QED BY <1>9, <1>10, <1>11, <1>12, <1>13, Zenon DEF FwRings

(* The packet goes on the transmit ring, which may then hold one buffer more than the
   completions already there leave room for. *)
LEMMA SendPacketRings == ASSUME FwInv, FwRings, NEW t \in Threads, SendPacket(t) PROVE FwRings'
<1>0. PICK q, b : q = ports_tx(port[t]) /\ b = pkt[t]
  BY Zenon
<1>1. /\ pc[t] = "txq" /\ Len(txq[q]) < tx_size /\ txq' = [txq EXCEPT ![q] = Append(@, b)]
      /\ pkt' = [pkt EXCEPT ![t] = NoBuffer] /\ pc' = [pc EXCEPT ![t] = "cq"]
      /\ UNCHANGED <<mainVars, umem_fq, rxq, umem_cq, ready, port, cursor, peeked, live, out>>
  BY <1>0, Zenon DEF SendPacket, goto, poolVars
<1>2. /\ txq \in [Caches -> Seq(Buffers)] /\ umem_cq \in [Caches -> Seq(Buffers)]
      /\ pc \in [Threads -> Pcs] /\ pkt \in [Threads -> Buffers \cup {NoBuffer}] /\ ThreadOK(t) /\ ReadyOK(t)
  BY Zenon DEF FwInv, FwTypes, FwThreads, FwRings, FwReady
<1>3. q \in Caches
  BY <1>0, <1>1, OwnPort, Zenon DEF Serving
<1>4. b \in Buffers
  BY <1>0, <1>1, <1>2, Zenon DEF ThreadOK
<1>5. OtherSame(t) /\ pc'[t] = "cq" /\ pkt'[t] = NoBuffer
  BY <1>1, <1>2, ThreadSame, Zenon DEF FwInv, Thread
<1>6. /\ Len(txq'[q]) = Len(txq[q]) + 1 /\ Len(txq[q]) \in Nat
      /\ \A r \in Caches : r # q => txq'[r] = txq[r]
      /\ \A a : InRing(txq, a) \/ a = b => InRing(txq', a)
  <2>1. txq' = Added(txq, q, b)
    BY <1>1, Zenon DEF Added
  <2>2. txq \in [Caches -> Seq(Buffers)]
    BY <1>2, Zenon
  <2> QED BY <1>3, <1>4, <2>1, <2>2, PutIn
<1>7. \A u \in Threads : u # t /\ pc[u] \in Serving => ports_tx(port[u]) # q
  BY <1>0, <1>1, OtherPort, Zenon DEF Serving
<1>8. UNCHANGED <<main, at, staged, opened>>
  BY <1>1, Zenon DEF mainVars
<1>9. FwOpened'
  BY <1>1, OpenedKept, Zenon DEF FwRings
<1>10. FwFill'
  <2>1. \A p : Pending(p)' = Pending(p)
    BY <1>1, <1>5, PendingKept, Zenon
  <2>2. \A p \in Caches : PortFilled(p)' <=> PortFilled(p)
    BY <1>8, Zenon DEF PortFilled
  <2> QED BY <1>1, <2>1, <2>2, FillKept, Zenon DEF FwRings
<1>11. FwSent'
  <2>1. ASSUME NEW r \in Caches, r # q PROVE SentOK(r)'
    <3>1. pc[t] \notin {"cq", "drain"} /\ txq'[r] = txq[r] /\ umem_cq'[r] = umem_cq[r] /\ SentOK(r)
      BY <1>1, <1>6, <2>1, Zenon DEF FwRings, FwSent
    <3> QED BY <1>5, <3>1, SentKept, Zenon
  <2>2. SentOK(q)'
    <3>1. SentOK(q) /\ Len(umem_cq[q]) \in Nat /\ tx_size \in Nat
      BY <1>2, <1>3, LenOf, ForwardAssumption, Zenon DEF FwRings, FwSent
    <3>2. Len(txq[q]) + Len(umem_cq[q]) <= tx_size
      BY <1>1, <1>7, <3>1, Zenon DEF SentOK, Serving
    <3>3. Len(txq'[q]) + Len(umem_cq'[q]) <= tx_size + 1 /\ Len(txq'[q]) <= tx_size
      <4>1. Len(txq'[q]) = Len(txq[q]) + 1 /\ Len(txq[q]) \in Nat /\ umem_cq' = umem_cq /\ Len(txq[q]) < tx_size
        BY <1>1, <1>6, Zenon
      <4>2. Len(umem_cq[q]) \in Nat /\ tx_size \in Nat
        BY <3>1, Zenon
      <4>3. ASSUME NEW i \in Nat, NEW j \in Nat, NEW k \in Nat, i + j <= k, i < k PROVE (i + 1) + j <= k + 1 /\ i + 1 <= k
        BY <4>3
      <4> QED BY <3>2, <4>1, <4>2, <4>3, Zenon
    <3>4. ports_tx(port[t])' = q
      BY <1>0, <1>1, Zenon DEF ports_tx
    <3>5. Len(umem_cq'[q]) <= comp_size
      BY <1>1, <3>1, SMTT(30) DEF SentOK
    <3> QED BY <1>5, <3>3, <3>4, <3>5, Zenon DEF SentOK
  <2> QED BY <2>1, <2>2, Zenon DEF FwSent
<1>12. FwReady'
  <2>1. ASSUME NEW u \in Threads, u # t PROVE ReadyOK(u)'
    BY <1>1, <1>5, <2>1, ReadyOther, Zenon DEF FwInv, FwRings, OtherSame
  <2>2. ReadyOK(t)'
    BY <1>1, <1>2, <1>5, Zenon DEF ReadyOK, Serving
  <2> QED BY <2>1, <2>2, Zenon DEF FwReady
<1>13. FwHeld'
  <2> SUFFICES ASSUME NEW a \in out PROVE Held(a)'
    BY <1>1, Zenon DEF FwHeld
  <2>1. cursor[t] = 0 /\ cursor'[t] = 0
    BY <1>1, <1>2, Zenon DEF ThreadOK
  <2>2. \A r : \A i \in Nat \ {0} : Back(r, i)' <=> Back(r, i)
    BY <1>5, <2>1, BackKept, Zenon DEF FwInv, OtherSame
  <2>3. InCompletions(a) => InCompletions(a)'
    BY <1>1, <2>2 DEF InCompletions
  <2>4. In(staged, a)' = In(staged, a) /\ InRing(rxq, a)' = InRing(rxq, a)
        /\ InRing(umem_fq, a)' = InRing(umem_fq, a) /\ InRing(txq, a)' = InRing(txq', a)
    BY <1>1, <1>8, Zenon DEF In, InRing
  <2>5. InBurst(a) => InBurst(a)' \/ a = b
    BY <1>0, <1>5 DEF InBurst, OtherSame
  <2> QED BY <1>6, <2>3, <2>4, <2>5, Zenon DEF FwRings, FwHeld, Held
<1> QED BY <1>9, <1>10, <1>11, <1>12, <1>13, Zenon DEF FwRings

(* The completions are peeked: all that are there. *)
LEMMA PeekCompletionsRings == ASSUME FwInv, FwRings, NEW t \in Threads, PeekCompletions(t) PROVE FwRings'
<1>0. PICK q, n : q = ports_tx(port[t]) /\ n = Len(umem_cq[q])
  BY Zenon
<1>1. /\ pc[t] = "cq" /\ peeked' = [peeked EXCEPT ![t] = n]
      /\ pc' = [pc EXCEPT ![t] = IF n = 0 THEN "port" ELSE "drain"]
      /\ UNCHANGED <<mainVars, rings, ready, port, pkt, cursor, live, out>>
  BY <1>0, Zenon DEF PeekCompletions, goto, poolVars
<1>2. /\ pc \in [Threads -> Pcs] /\ peeked \in [Threads -> Nat] /\ ThreadOK(t) /\ ReadyOK(t)
      /\ txq \in [Caches -> Seq(Buffers)] /\ umem_cq \in [Caches -> Seq(Buffers)]
  BY Zenon DEF FwInv, FwTypes, FwThreads, FwRings, FwReady
<1>3. q \in Caches
  BY <1>0, <1>1, OwnPort, Zenon DEF Serving
<1>4. OtherSame(t) /\ pc'[t] = (IF n = 0 THEN "port" ELSE "drain") /\ peeked'[t] = n
  BY <1>1, <1>2, ThreadSame, Zenon DEF FwInv, Thread
<1>5. UNCHANGED <<main, at, staged, opened, umem_fq, rxq, txq, umem_cq>>
  BY <1>1, Zenon DEF mainVars, rings
<1>6. FwOpened'
  BY <1>1, OpenedKept, Zenon DEF FwRings
<1>7. FwFill'
  <2>1. \A p : Pending(p)' = Pending(p)
    BY <1>1, <1>4, PendingKept
  <2>2. \A p \in Caches : PortFilled(p)' <=> PortFilled(p)
    BY <1>5, Zenon DEF PortFilled
  <2> QED BY <1>5, <2>1, <2>2, FillKept, Zenon DEF FwRings
<1>8. FwSent'
  <2>1. ASSUME NEW r \in Caches, r # q PROVE SentOK(r)'
    <3>1. ports_tx(port[t]) # r /\ txq'[r] = txq[r] /\ umem_cq'[r] = umem_cq[r] /\ SentOK(r)
      BY <1>0, <1>5, <2>1, Zenon DEF FwRings, FwSent
    <3> QED BY <1>4, <3>1, SentKept, Zenon
  <2>2. SentOK(q)'
    <3>1. SentOK(q) /\ n \in Nat /\ tx_size \in Nat /\ Len(txq[q]) \in Nat
      BY <1>0, <1>2, <1>3, LenOf, ForwardAssumption, Zenon DEF FwRings, FwSent
    <3>2. Len(txq'[q]) = Len(txq[q]) /\ Len(txq[q]) <= tx_size /\ Len(umem_cq'[q]) = n /\ n <= comp_size
      BY <1>0, <1>5, <3>1, Zenon DEF SentOK
    <3>3. ports_tx(port[t])' = q
      BY <1>0, <1>1, Zenon DEF ports_tx
    <3>4. ASSUME NEW i \in Nat, NEW j \in Nat, NEW k \in Nat, i <= k PROVE (j = 0 => i + j <= k) /\ i + j <= k + j
      BY <3>4
    <3>5. CASE n = 0
      BY <3>1, <3>2, <3>4, <3>5, Zenon DEF SentOK
    <3>6. CASE n # 0
      BY <1>4, <3>1, <3>2, <3>3, <3>4, <3>6, Zenon DEF SentOK
    <3> QED BY <3>5, <3>6, Zenon
  <2> QED BY <2>1, <2>2, Zenon DEF FwSent
<1>9. FwReady'
  <2>1. ASSUME NEW u \in Threads, u # t PROVE ReadyOK(u)'
    BY <1>4, <1>5, <2>1, ReadyOther, ZenonT(30) DEF FwInv, FwRings, OtherSame
  <2>2. ReadyOK(t)'
    BY <1>1, <1>2, <1>4, <1>5, Zenon DEF ReadyOK, Serving
  <2> QED BY <2>1, <2>2, Zenon DEF FwReady
<1>10. FwHeld'
  <2>1. cursor[t] = 0 /\ cursor'[t] = 0
    BY <1>1, <1>2, Zenon DEF ThreadOK
  <2>2. \A r : \A i \in Nat \ {0} : Back(r, i)' <=> Back(r, i)
    BY <1>4, <2>1, BackKept, Zenon DEF FwInv, OtherSame
  <2> QED BY <1>1, <1>5, <2>2, HeldKept, Zenon DEF FwRings
<1> QED BY <1>6, <1>7, <1>8, <1>9, <1>10, Zenon DEF FwRings

(* The buffer given back is out no more, and no other is dropped. *)
LEMMA GiveBackRings == ASSUME FwInv, FwRings, NEW t \in Threads, GiveBack(t) PROVE FwRings'
<1>0. PICK q, c : q = ports_tx(port[t]) /\ c = cursor[t] + 1
  BY Zenon
<1>1. /\ pc[t] = "drain" /\ cursor' = [cursor EXCEPT ![t] = c]
      /\ UNCHANGED <<mainVars, rings, pc, ready, port, pkt, peeked, live>>
      /\ out' = out \ {umem_cq[q][c]}
  <2>1. /\ pc[t] = "drain" /\ cursor' = [cursor EXCEPT ![t] = c]
        /\ UNCHANGED <<mainVars, rings, pc, ready, port, pkt, peeked>> /\ bcache_prod(q, umem_cq[q][c])
    BY <1>0, Zenon DEF GiveBack
  <2>2. UNCHANGED live /\ out' = out \ {umem_cq[q][c]}
    BY <2>1, Given, Zenon
  <2> QED BY <2>1, <2>2, Zenon
<1>2. cursor \in [Threads -> Nat] /\ OtherSame(t)
  BY ThreadSame, Zenon DEF FwInv, FwTypes, Thread
<1>3. UNCHANGED <<main, at, staged, opened, umem_fq, rxq, txq, umem_cq>>
  BY <1>1, Zenon DEF mainVars, rings
<1>4. FwOpened'
  BY <1>1, OpenedKept, SMTT(30) DEF FwRings
<1>5. FwFill'
  <2>1. \A p : Pending(p)' = Pending(p)
    BY <1>1, Zenon DEF Pending
  <2>2. \A p \in Caches : PortFilled(p)' <=> PortFilled(p)
    BY <1>3, Zenon DEF PortFilled
  <2> QED BY <1>3, <2>1, <2>2, FillKept, Zenon DEF FwRings
<1>6. FwSent'
  <2>1. \A u \in Threads : ports_tx(port[u])' = ports_tx(port[u])
    BY <1>1, Zenon DEF ports_tx
  <2> QED BY <1>1, <1>3, <2>1, Zenon DEF FwRings, FwSent, SentOK
<1>7. FwReady'
  BY <1>1, <1>3, Zenon DEF FwRings, FwReady, ReadyOK
<1>8. FwHeld'
  <2> SUFFICES ASSUME NEW a \in out, a # umem_cq[q][c] PROVE Held(a)'
    BY <1>1, Zenon DEF FwHeld
  <2>1. ASSUME NEW p, NEW i \in Nat, ~Back(p, i), Back(p, i)' PROVE p = q /\ i = c
    <3>1. PICK u \in Threads : (pc[u] = "drain" /\ ports_tx(port[u]) = p /\ i <= cursor[u])'
      BY <2>1, Zenon DEF Back
    <3>2. pc[u] = "drain" /\ ports_tx(port[u]) = p /\ i <= cursor'[u]
      BY <1>1, <3>1, Zenon DEF ports_tx
    <3>3. ~(i <= cursor[u])
      BY <2>1, <3>2, Zenon DEF Back
    <3>4. u = t
      BY <1>2, <3>2, <3>3, Zenon DEF OtherSame
    <3>5. cursor'[t] = c /\ cursor[t] \in Nat
      BY <1>1, <1>2, Zenon
    <3>6. i = c
      BY <1>0, <3>2, <3>3, <3>4, <3>5, SMTT(30)
    <3> QED BY <1>0, <3>2, <3>4, <3>6, Zenon
  <2>2. InCompletions(a) => InCompletions(a)'
    <3> SUFFICES ASSUME NEW p \in Caches, NEW i \in 1 .. Len(umem_cq[p]), umem_cq[p][i] = a, ~Back(p, i)
                 PROVE  InCompletions(a)'
      BY Zenon DEF InCompletions
    <3>1. ~Back(p, i)'
      BY <2>1
    <3> QED BY <1>3, <3>1, Zenon DEF InCompletions
  <2>3. In(staged, a)' = In(staged, a) /\ InRing(rxq, a)' = InRing(rxq, a) /\ InRing(umem_fq, a)' = InRing(umem_fq, a)
        /\ InRing(txq, a)' = InRing(txq, a) /\ InBurst(a)' = InBurst(a)
    BY <1>1, <1>3, SMTT(30) DEF In, InRing, InBurst
  <2> QED BY <2>2, <2>3, Zenon DEF FwRings, FwHeld, Held
<1> QED BY <1>4, <1>5, <1>6, <1>7, <1>8, Zenon DEF FwRings

(* The completions given back leave the ring, and the next send has room. *)
LEMMA ReleaseCompletionsRings == ASSUME FwInv, FwRings, NEW t \in Threads, ReleaseCompletions(t) PROVE FwRings'
<1>0. PICK q, n : q = ports_tx(port[t]) /\ n = peeked[t]
  BY Zenon
<1>1. /\ pc[t] = "drain" /\ cursor[t] = n /\ umem_cq' = [umem_cq EXCEPT ![q] = SubSeq(@, n + 1, Len(@))]
      /\ cursor' = [cursor EXCEPT ![t] = 0] /\ peeked' = [peeked EXCEPT ![t] = 0] /\ pc' = [pc EXCEPT ![t] = "port"]
      /\ UNCHANGED <<mainVars, umem_fq, rxq, txq, ready, port, pkt, live, out>>
  BY <1>0, Zenon DEF ReleaseCompletions, goto, poolVars
<1>2. /\ pc \in [Threads -> Pcs] /\ peeked \in [Threads -> Nat] /\ cursor \in [Threads -> Nat]
      /\ ThreadOK(t) /\ ReadyOK(t) /\ n \in Nat
      /\ txq \in [Caches -> Seq(Buffers)] /\ umem_cq \in [Caches -> Seq(Buffers)]
  BY <1>0, Zenon DEF FwInv, FwTypes, FwThreads, FwRings, FwReady
<1>3. q \in Caches /\ umem_cq[q] \in Seq(Buffers) /\ n <= Len(umem_cq[q])
  BY <1>0, <1>1, <1>2, OwnPort, Zenon DEF Serving, ThreadOK
<1>4. /\ SubSeq(umem_cq[q], n + 1, Len(umem_cq[q])) \in Seq(Buffers) /\ Len(umem_cq[q]) \in Nat
      /\ Len(SubSeq(umem_cq[q], n + 1, Len(umem_cq[q]))) = Len(umem_cq[q]) - n
      /\ \A k \in 1 .. Len(umem_cq[q]) - n : SubSeq(umem_cq[q], n + 1, Len(umem_cq[q]))[k] = umem_cq[q][k + n]
  <2>1. n \in 0 .. Len(umem_cq[q])
    BY <1>2, <1>3, LenOf, SMTT(30)
  <2> QED BY <1>3, <2>1, DropFirst, Zenon
<1>5. /\ Len(umem_cq[q]) \in Nat /\ Len(umem_cq'[q]) = Len(umem_cq[q]) - n
      /\ \A k \in 1 .. Len(umem_cq[q]) - n : umem_cq'[q][k] = umem_cq[q][k + n]
      /\ \A r \in Caches : r # q => umem_cq'[r] = umem_cq[r]
  BY <1>1, <1>2, <1>3, <1>4, Zenon
<1>6. OtherSame(t) /\ pc'[t] = "port" /\ peeked'[t] = 0 /\ cursor'[t] = 0
  BY <1>1, <1>2, ThreadSame, Zenon DEF FwInv, Thread
<1>7. UNCHANGED <<main, at, staged, opened>>
  BY <1>1, Zenon DEF mainVars
<1>8. FwOpened'
  BY <1>1, OpenedKept, Zenon DEF FwRings
<1>9. FwFill'
  <2>1. \A p : Pending(p)' = Pending(p)
    BY <1>1, <1>6, PendingKept, SMTT(30)
  <2>2. \A p \in Caches : PortFilled(p)' <=> PortFilled(p)
    BY <1>7, Zenon DEF PortFilled
  <2> QED BY <1>1, <2>1, <2>2, FillKept, Zenon DEF FwRings
<1>10. \A u \in Threads : u # t /\ pc[u] \in Serving => ports_tx(port[u]) # q
  BY <1>0, <1>1, OtherPort, SMTT(30) DEF Serving
<1>11. FwSent'
  <2>1. ASSUME NEW r \in Caches, r # q PROVE SentOK(r)'
    <3>1. ports_tx(port[t]) # r /\ txq'[r] = txq[r] /\ umem_cq'[r] = umem_cq[r] /\ SentOK(r)
      BY <1>0, <1>1, <1>5, <2>1, Zenon DEF FwRings, FwSent
    <3> QED BY <1>6, <3>1, SentKept, Zenon
  <2>2. SentOK(q)'
    <3>1. SentOK(q) /\ tx_size \in Nat /\ comp_size \in Nat /\ Len(txq[q]) \in Nat
      BY <1>2, <1>3, LenOf, ForwardAssumption, Zenon DEF FwRings, FwSent
    <3>2. Len(txq'[q]) = Len(txq[q]) /\ Len(txq[q]) <= tx_size /\ Len(umem_cq[q]) <= comp_size
      BY <1>1, <3>1, Zenon DEF SentOK
    <3>3. Len(txq[q]) + Len(umem_cq[q]) <= tx_size \/ Len(txq[q]) + Len(umem_cq[q]) <= tx_size + n
      BY <1>0, <1>1, <1>10, <3>1, Zenon DEF SentOK, Serving
    <3>4. ASSUME NEW i \in Nat, NEW j \in Nat, NEW k \in Nat, NEW m \in Nat, n <= j, j <= m,
                 i + j <= k \/ i + j <= k + n
          PROVE  i + (j - n) <= k /\ j - n <= m
      BY <1>2, <3>4
    <3>5. Len(txq'[q]) + Len(umem_cq'[q]) <= tx_size /\ Len(umem_cq'[q]) <= comp_size /\ Len(txq'[q]) <= tx_size
      <4>1. Len(umem_cq[q]) \in Nat /\ Len(umem_cq'[q]) = Len(umem_cq[q]) - n
        BY <1>5, Zenon
      <4>2. n <= Len(umem_cq[q]) /\ Len(txq[q]) \in Nat /\ tx_size \in Nat /\ comp_size \in Nat
        BY <1>3, <3>1, Zenon
      <4>3. Len(txq[q]) + (Len(umem_cq[q]) - n) <= tx_size /\ Len(umem_cq[q]) - n <= comp_size
        BY <3>2, <3>3, <3>4, <4>1, <4>2, Zenon
      <4> QED BY <3>2, <4>1, <4>3, Zenon
    <3> QED BY <3>5, Zenon DEF SentOK
  <2> QED BY <2>1, <2>2, Zenon DEF FwSent
<1>12. FwReady'
  <2>1. ASSUME NEW u \in Threads, u # t PROVE ReadyOK(u)'
    BY <1>1, <1>6, <2>1, ReadyOther, Zenon DEF FwInv, FwRings, OtherSame
  <2>2. ReadyOK(t)'
    BY <1>1, <1>2, <1>6, Zenon DEF ReadyOK, Serving
  <2> QED BY <2>1, <2>2, Zenon DEF FwReady
<1>13. FwHeld'
  <2> SUFFICES ASSUME NEW a \in out PROVE Held(a)'
    BY <1>1, Zenon DEF FwHeld
  <2>1. ASSUME NEW p, NEW i, Back(p, i)' PROVE p # q /\ Back(p, i)
    <3>1. PICK u \in Threads : (pc[u] = "drain" /\ ports_tx(port[u]) = p /\ i <= cursor[u])'
      BY <2>1, Zenon DEF Back
    <3>2. u # t
      BY <1>6, <3>1, Zenon
    <3>3. pc[u] = "drain" /\ ports_tx(port[u]) = p /\ i <= cursor[u]
      BY <1>1, <1>6, <3>1, <3>2, Zenon DEF OtherSame, ports_tx
    <3> QED BY <1>10, <3>2, <3>3, Zenon DEF Serving, Back
  <2>2. ASSUME NEW p \in Caches, NEW i \in 1 .. Len(umem_cq[p]), umem_cq[p][i] = a, ~Back(p, i)
        PROVE  InCompletions(a)'
    <3>1. CASE p # q
      BY <1>5, <2>1, <2>2, <3>1, Zenon DEF InCompletions
    <3>2. CASE p = q
      <4>1. ~(i <= n)
        BY <1>0, <1>1, <2>2, <3>2, Zenon DEF Back
      <4>2. i \in Nat /\ i <= Len(umem_cq[q])
        BY <3>2
      <4>3. i - n \in 1 .. Len(umem_cq[q]) - n /\ (i - n) + n = i
        BY <1>2, <1>5, <4>1, <4>2, SMTT(30)
      <4>4. umem_cq'[q][i - n] = a /\ i - n \in 1 .. Len(umem_cq'[q]) /\ ~Back(q, i - n)'
        BY <1>5, <2>1, <2>2, <3>2, <4>3, SMTT(30)
      <4> QED BY <1>3, <4>4, Zenon DEF InCompletions
    <3> QED BY <3>1, <3>2, Zenon
  <2>3. InCompletions(a) => InCompletions(a)'
    BY <2>2, Zenon DEF InCompletions
  <2>4. In(staged, a)' = In(staged, a) /\ InRing(rxq, a)' = InRing(rxq, a) /\ InRing(umem_fq, a)' = InRing(umem_fq, a)
        /\ InRing(txq, a)' = InRing(txq, a) /\ InBurst(a)' = InBurst(a)
    BY <1>1, <1>7, Zenon DEF In, InRing, InBurst
  <2> QED BY <2>3, <2>4, Zenon DEF FwRings, FwHeld, Held
<1> QED BY <1>8, <1>9, <1>11, <1>12, <1>13, Zenon DEF FwRings

-----------------------------------------------------------------------------
(* The contract of the pool *)

(* The forwarder implements the contract of the pool (af_rxtx.c:285-449, main.c:195-277):
   whatever the interleaving of main, the threads and the kernel, a cache is initialised
   once and freed once, bcache_cons follows a check that found a buffer, and bcache_prod
   gets a buffer that was handed out. *)
THEOREM Implements == Spec => PoolSpec
<1>1. Init => FwInv /\ PoolInit
  BY FwStart, Initially, Zenon DEF Init
<1>2. FwInv /\ [Next]_vars => FwInv' /\ [PoolNext]_poolVars
  BY FwStep, Calls, Step, Zenon DEF FwInv
<1> QED BY <1>1, <1>2, PTL DEF Spec, PoolSpec

(* What is proved of the pool holds in the running forwarder: no slab and no buffer has
   two owners, whichever thread runs next (af_rxtx.c:131-258). *)
THEOREM ForwarderKeepsPool == Spec => []PoolInv
BY Implements, Invariance, PTL

-----------------------------------------------------------------------------
(* The kernel *)

(* A packet arrives in a buffer of the fill ring. *)
LEMMA ReceiveRings == ASSUME FwInv, FwRings, NEW p \in Caches, Receive(p) PROVE FwRings'
<1>0. PICK b : b = Head(umem_fq[p])
  BY Zenon
<1>1. /\ umem_fq[p] # <<>> /\ rxq' = [rxq EXCEPT ![p] = Append(@, b)] /\ umem_fq' = [umem_fq EXCEPT ![p] = Tail(@)]
      /\ UNCHANGED <<mainVars, txq, umem_cq, threadVars, live, out>>
  BY <1>0, Zenon DEF Receive, poolVars
<1>2. rxq \in [Caches -> Seq(Buffers)] /\ umem_fq \in [Caches -> Seq(Buffers)]
  BY Zenon DEF FwInv, FwTypes
<1>3. /\ Len(umem_fq'[p]) = Len(umem_fq[p]) - 1 /\ Len(umem_fq[p]) \in Nat \ {0} /\ b \in Buffers
      /\ \A q \in Caches : q # p => umem_fq'[q] = umem_fq[q]
      /\ \A a : InRing(umem_fq, a) => InRing(umem_fq', a) \/ a = b
  <2>1. umem_fq' = Dropped(umem_fq, p)
    BY <1>1, Zenon DEF Dropped
  <2> QED BY <1>0, <1>1, <1>2, <2>1, TakeOff, Zenon
<1>4. /\ Len(rxq'[p]) = Len(rxq[p]) + 1 /\ Len(rxq[p]) \in Nat /\ rxq'[p] # <<>>
      /\ \A q \in Caches : q # p => rxq'[q] = rxq[q]
      /\ \A a : InRing(rxq, a) \/ a = b => InRing(rxq', a)
  <2>1. rxq' = Added(rxq, p, b)
    BY <1>1, Zenon DEF Added
  <2>2. rxq \in [Caches -> Seq(Buffers)] /\ b \in Buffers
    BY <1>2, <1>3, Zenon
  <2> QED BY <2>1, <2>2, PutIn
<1>5. UNCHANGED <<main, at, staged, opened, pc, ready, port, pkt, cursor, peeked>>
  BY <1>1, Zenon DEF mainVars, threadVars
<1>6. FwOpened'
  BY <1>1, OpenedKept, Zenon DEF FwRings
<1>7. FwFill'
  <2>1. \A q : Pending(q)' = Pending(q)
    BY <1>5, Zenon DEF Pending
  <2>2. \A q \in Caches : PortFilled(q)' <=> PortFilled(q)
    BY <1>5, Zenon DEF PortFilled
  <2>3. Len(umem_fq'[p]) + Len(rxq'[p]) + Pending(p)' = Len(umem_fq[p]) + Len(rxq[p]) + Pending(p)
    <3>1. /\ Len(umem_fq'[p]) = Len(umem_fq[p]) - 1 /\ Len(umem_fq[p]) \in Nat \ {0}
          /\ Len(rxq'[p]) = Len(rxq[p]) + 1 /\ Len(rxq[p]) \in Nat
      BY <1>3, <1>4, Zenon
    <3>2. ASSUME NEW i \in Nat \ {0}, NEW j \in Nat PROVE (i - 1) + (j + 1) = i + j
      BY SMTT(30)
    <3> QED BY <2>1, <3>1, <3>2, Zenon
  <2> QED BY <1>3, <1>4, <2>1, <2>2, <2>3, FillMoves, Zenon DEF FwRings
<1>8. FwSent'
  <2>1. \A u \in Threads : ports_tx(port[u])' = ports_tx(port[u])
    BY <1>5, Zenon DEF ports_tx
  <2> QED BY <1>1, <1>5, <2>1, Zenon DEF FwRings, FwSent, SentOK
<1>9. FwReady'
  <2> SUFFICES ASSUME NEW u \in Threads PROVE ReadyOK(u)'
    BY Zenon DEF FwReady
  <2>1. \A q \in ports_rx(u) : rxq[q] # <<>> => rxq'[q] # <<>>
    BY <1>4, Zenon DEF ports_rx
  <2> QED BY <1>5, <2>1, ReadyOther, Zenon DEF FwInv, FwRings
<1>10. FwHeld'
  <2> SUFFICES ASSUME NEW a \in out PROVE Held(a)'
    BY <1>1, Zenon DEF FwHeld
  <2>1. \A q, i : Back(q, i)' <=> Back(q, i)
    BY <1>5, Zenon DEF Back
  <2>2. InCompletions(a) => InCompletions(a)'
    BY <1>1, <2>1, Zenon DEF InCompletions
  <2>3. In(staged, a)' = In(staged, a) /\ InRing(umem_fq, a)' = InRing(umem_fq', a) /\ InRing(rxq, a)' = InRing(rxq', a)
        /\ InRing(txq, a)' = InRing(txq, a) /\ InBurst(a)' = InBurst(a)
    BY <1>1, <1>5, SMTT(30) DEF In, InRing, InBurst
  <2> QED BY <1>3, <1>4, <2>2, <2>3, Zenon DEF FwRings, FwHeld, Held
<1> QED BY <1>6, <1>7, <1>8, <1>9, <1>10, Zenon DEF FwRings

(* A packet is sent and its buffer completed: behind those a thread is giving back. *)
LEMMA TransmitRings == ASSUME FwInv, FwRings, NEW p \in Caches, Transmit(p) PROVE FwRings'
<1>0. PICK b : b = Head(txq[p])
  BY Zenon
<1>1. /\ txq[p] # <<>> /\ umem_cq' = [umem_cq EXCEPT ![p] = Append(@, b)] /\ txq' = [txq EXCEPT ![p] = Tail(@)]
      /\ Len(umem_cq[p]) < comp_size
      /\ UNCHANGED <<mainVars, umem_fq, rxq, threadVars, live, out>>
  BY <1>0, Zenon DEF Transmit, poolVars
<1>2. txq \in [Caches -> Seq(Buffers)] /\ umem_cq \in [Caches -> Seq(Buffers)]
  BY Zenon DEF FwInv, FwTypes
<1>3. /\ Len(txq'[p]) = Len(txq[p]) - 1 /\ Len(txq[p]) \in Nat \ {0} /\ b \in Buffers
      /\ \A q \in Caches : q # p => txq'[q] = txq[q]
      /\ \A a : InRing(txq, a) => InRing(txq', a) \/ a = b
  <2>1. txq' = Dropped(txq, p)
    BY <1>1, Zenon DEF Dropped
  <2> QED BY <1>0, <1>1, <1>2, <2>1, TakeOff, Zenon
<1>4. /\ Append(umem_cq[p], b) \in Seq(Buffers) /\ Len(umem_cq[p]) \in Nat
      /\ Len(Append(umem_cq[p], b)) = Len(umem_cq[p]) + 1 /\ Append(umem_cq[p], b)[Len(umem_cq[p]) + 1] = b
      /\ \A k \in 1 .. Len(umem_cq[p]) : Append(umem_cq[p], b)[k] = umem_cq[p][k]
  BY <1>2, <1>3, AppendTo, SMTT(30)
<1>5. /\ Len(umem_cq[p]) \in Nat /\ Len(umem_cq'[p]) = Len(umem_cq[p]) + 1
      /\ umem_cq'[p][Len(umem_cq[p]) + 1] = b /\ \A k \in 1 .. Len(umem_cq[p]) : umem_cq'[p][k] = umem_cq[p][k]
      /\ \A r \in Caches : r # p => umem_cq'[r] = umem_cq[r]
  BY <1>1, <1>2, <1>4, Zenon
<1>6. UNCHANGED <<main, at, staged, opened, pc, ready, port, pkt, cursor, peeked>>
  BY <1>1, Zenon DEF mainVars, threadVars
<1>7. FwOpened'
  BY <1>1, OpenedKept, Zenon DEF FwRings
<1>8. FwFill'
  <2>1. \A q : Pending(q)' = Pending(q)
    BY <1>6, Zenon DEF Pending
  <2>2. \A q \in Caches : PortFilled(q)' <=> PortFilled(q)
    BY <1>6, Zenon DEF PortFilled
  <2> QED BY <1>1, <2>1, <2>2, FillKept DEF FwRings
<1>9. FwSent'
  <2>0. \A u \in Threads : ports_tx(port[u])' = ports_tx(port[u])
    BY <1>6, Zenon DEF ports_tx
  <2>1. ASSUME NEW r \in Caches, r # p PROVE SentOK(r)'
    BY <1>3, <1>5, <1>6, <2>0, <2>1, ZenonT(30) DEF FwRings, FwSent, SentOK
  <2>2. SentOK(p)'
    <3>1. Len(txq'[p]) + Len(umem_cq'[p]) = Len(txq[p]) + Len(umem_cq[p])
      <4>1. /\ Len(txq'[p]) = Len(txq[p]) - 1 /\ Len(txq[p]) \in Nat \ {0}
            /\ Len(umem_cq'[p]) = Len(umem_cq[p]) + 1 /\ Len(umem_cq[p]) \in Nat
        BY <1>3, <1>5
      <4>2. ASSUME NEW i \in Nat \ {0}, NEW j \in Nat PROVE (i - 1) + (j + 1) = i + j
        OBVIOUS
      <4> QED BY <4>1, <4>2, Zenon
    <3>2. Len(txq'[p]) <= tx_size /\ Len(umem_cq'[p]) <= comp_size
      <4>1. /\ Len(txq'[p]) = Len(txq[p]) - 1 /\ Len(txq[p]) \in Nat \ {0} /\ Len(txq[p]) <= tx_size
            /\ Len(umem_cq'[p]) = Len(umem_cq[p]) + 1 /\ Len(umem_cq[p]) \in Nat /\ Len(umem_cq[p]) < comp_size
        BY <1>1, <1>3, <1>5, Zenon DEF FwRings, FwSent, SentOK
      <4>2. ASSUME NEW i \in Nat \ {0}, NEW j \in Nat, i <= tx_size, j < comp_size PROVE i - 1 <= tx_size /\ j + 1 <= comp_size
        BY <4>2, ForwardAssumption
      <4> QED BY <4>1, <4>2, Zenon
    <3>3. SentOK(p)
      BY Zenon DEF FwRings, FwSent
    <3> QED BY <1>6, <2>0, <3>1, <3>2, <3>3, Zenon DEF SentOK
  <2> QED BY <2>1, <2>2, Zenon DEF FwSent
<1>10. FwReady'
  BY <1>1, <1>6, Zenon DEF FwRings, FwReady, ReadyOK
<1>11. FwHeld'
  <2> SUFFICES ASSUME NEW a \in out PROVE Held(a)'
    BY <1>1, Zenon DEF FwHeld
  <2>1. \A q, i : Back(q, i)' <=> Back(q, i)
    BY <1>6, Zenon DEF Back, ports_tx
  <2>2. InCompletions(a) => InCompletions(a)'
    <3> SUFFICES ASSUME NEW q \in Caches, NEW i \in 1 .. Len(umem_cq[q]), umem_cq[q][i] = a, ~Back(q, i)
                 PROVE  InCompletions(a)'
      BY Zenon DEF InCompletions
    <3>1. i \in 1 .. Len(umem_cq'[q]) /\ umem_cq'[q][i] = a
      <4>1. CASE q = p
        <5>1. i \in 1 .. Len(umem_cq[p]) + 1
          BY <1>5, <4>1
        <5> QED BY <1>5, <4>1, <5>1, Zenon
      <4>2. CASE q # p
        BY <1>5, <4>2, Zenon
      <4> QED BY <4>1, <4>2, Zenon
    <3> QED BY <2>1, <3>1, Zenon DEF InCompletions
  <2>3. InCompletions(b)'
    <3>1. ~Back(p, Len(umem_cq[p]) + 1)
      <4> SUFFICES ASSUME NEW u \in Threads, pc[u] = "drain", ports_tx(port[u]) = p, Len(umem_cq[p]) + 1 <= cursor[u]
                   PROVE  FALSE
        BY Zenon DEF Back
      <4>1. cursor[u] \in Nat /\ peeked[u] \in Nat /\ cursor[u] <= peeked[u] /\ peeked[u] <= Len(umem_cq[p])
        BY Zenon DEF FwInv, FwTypes, FwThreads, ThreadOK
      <4> QED BY <1>5, <4>1
    <3>2. Len(umem_cq[p]) + 1 \in 1 .. Len(umem_cq'[p])
      BY <1>5, SMTT(30)
    <3> QED BY <1>5, <2>1, <3>1, <3>2, Zenon DEF InCompletions
  <2>4. In(staged, a)' = In(staged, a) /\ InRing(umem_fq, a)' = InRing(umem_fq, a) /\ InRing(rxq, a)' = InRing(rxq, a)
        /\ InRing(txq, a)' = InRing(txq', a) /\ InBurst(a)' = InBurst(a)
    BY <1>1, <1>6, Zenon DEF In, InRing, InBurst
  <2> QED BY <1>3, <2>2, <2>3, <2>4, Zenon DEF FwRings, FwHeld, Held
<1> QED BY <1>7, <1>8, <1>9, <1>10, <1>11, Zenon DEF FwRings

-----------------------------------------------------------------------------
(* main *)

(* main moves no buffer outside the pool, and no thread. *)
LEMMA MainRings ==
  ASSUME FwRings, UNCHANGED <<staged, rings, threadVars, out>>, \A p \in Caches : PortFilled(p)' <=> PortFilled(p), FwOpened'
  PROVE  FwRings'
<1>1. UNCHANGED <<umem_fq, rxq, txq, umem_cq, pc, ready, port, pkt, cursor, peeked>>
  BY Zenon DEF rings, threadVars
<1>2. FwFill'
  <2>1. \A p : Pending(p)' = Pending(p)
    BY <1>1, ZenonT(30) DEF Pending
  <2> QED BY <1>1, <2>1, FillKept, Zenon DEF FwRings
<1>3. FwSent'
  <2>1. \A u \in Threads : ports_tx(port[u])' = ports_tx(port[u])
    BY <1>1, Zenon DEF ports_tx
  <2> QED BY <1>1, <2>1, ZenonT(30) DEF FwRings, FwSent, SentOK
<1>4. FwReady'
  BY <1>1, Zenon DEF FwRings, FwReady, ReadyOK
<1>5. FwHeld'
  <2>1. \A p, i : Back(p, i)' <=> Back(p, i)
    BY <1>1, Zenon DEF Back, ports_tx
  <2> QED BY <1>1, <2>1, HeldKept, Zenon DEF FwRings
<1> QED BY <1>2, <1>3, <1>4, <1>5, Zenon DEF FwRings

(* There are as many ports as threads, or more. *)
LEMMA PortsEnough == NThreads <= NPorts
<1>1. NPorts \in Nat \ {0} /\ NThreads \in Nat \ {0} /\ NPorts % NThreads = 0
  BY ForwardAssumption, Zenon
<1>2. NPorts < NThreads => NPorts % NThreads = NPorts
  BY <1>1
<1> QED BY <1>1, <1>2

(* port_init up to the fill ring, its error returns, and the end of main. *)
LEMMA QuietMainRings ==
  ASSUME FwInv, FwRings,
         \/ OpenCache \/ CheckCache \/ OpenSocket \/ UpdateXskmap \/ PortInitFails \/ XskmapFails
         \/ Signal \/ SetQuit \/ JoinThreads \/ port_free \/ bpool_free
  PROVE  FwRings'
<1>0. /\ FwMain /\ FwOpened /\ at \in Nat /\ NPorts \in Nat /\ NThreads \in Nat /\ NThreads <= NPorts
      /\ Caches = 0 .. (NPorts - 1)
  BY ForwardAssumption, PortsEnough, Zenon DEF FwInv, FwTypes, FwRings
<1>1. CASE OpenCache
  <2>1. /\ main = "bcache" /\ main' = "check" /\ UNCHANGED <<at, staged, opened, rings, threadVars, out>>
    BY <1>1, Zenon DEF OpenCache, bcache_init
  <2>2. FwOpened' /\ \A p \in Caches : PortFilled(p)' <=> PortFilled(p)
    BY <1>0, <2>1, Zenon DEF FwOpened, PortFilled
  <2> QED BY <2>1, <2>2, MainRings, Zenon
<1>2. CASE CheckCache
  <2>1. /\ main = "check" /\ main' = "socket" /\ UNCHANGED <<at, staged, opened, rings, threadVars, out>>
    BY <1>2, Zenon DEF CheckCache, bcache_cons_check, TradeConsumerSlab, poolVars
  <2>2. FwOpened' /\ \A p \in Caches : PortFilled(p)' <=> PortFilled(p)
    BY <1>0, <2>1, Zenon DEF FwOpened, PortFilled
  <2> QED BY <2>1, <2>2, MainRings, Zenon
<1>3. CASE OpenSocket \/ UpdateXskmap
  <2>1. /\ UNCHANGED <<at, staged, rings, threadVars, out>>
        /\ \/ main = "socket" /\ main' = "xskmap" /\ opened' = opened \cup {at}
           \/ main = "xskmap" /\ main' = "fill" /\ opened' = opened
    BY <1>3, Zenon DEF OpenSocket, UpdateXskmap, poolVars
  <2>2. FwOpened' /\ \A p \in Caches : PortFilled(p)' <=> PortFilled(p)
    <3>1. CASE main = "socket" /\ main' = "xskmap" /\ opened' = opened \cup {at}
      <4>1. opened = 0 .. (at - 1)
        BY <1>0, <3>1, Zenon DEF FwOpened
      <4>2. opened' = 0 .. at
        BY <1>0, <3>1, <4>1
      <4> QED BY <1>0, <2>1, <3>1, <4>2, Zenon DEF FwOpened, PortFilled
    <3>2. CASE main = "xskmap" /\ main' = "fill" /\ opened' = opened
      BY <1>0, <2>1, <3>2, Zenon DEF FwOpened, PortFilled
    <3> QED BY <2>1, <3>1, <3>2, Zenon
  <2> QED BY <2>1, <2>2, MainRings, Zenon
<1>4. CASE PortInitFails \/ XskmapFails
  <2>1. /\ UNCHANGED <<at, staged, opened, rings, threadVars, out>> /\ main' = "failed"
        /\ \/ main \in {"bcache", "check", "socket"} /\ live' = live \ {at}
           \/ main = "xskmap" /\ live' = live
    BY <1>4, Zenon DEF PortInitFails, XskmapFails, bcache_free, poolVars
  <2>2. opened' \subseteq live'
    BY <1>0, <2>1 DEF FwMain, FwOpened, Opening
  <2>3. FwOpened' /\ \A p \in Caches : PortFilled(p)' <=> PortFilled(p)
    <3>1. main \notin {"running", "quit", "free", "done"}
      BY <2>1, Zenon
    <3> QED BY <1>0, <2>1, <2>2, <3>1, Zenon DEF FwOpened, PortFilled
  <2> QED BY <2>1, <2>3, MainRings, Zenon
<1>5. CASE Signal \/ SetQuit \/ JoinThreads
  <2>1. /\ UNCHANGED <<staged, opened, rings, threadVars, out>>
        /\ \/ main = "running" /\ main' = "quit" /\ at' = 0
           \/ main = "quit" /\ main' = "quit" /\ at < NThreads /\ at' = at + 1
           \/ main = "quit" /\ main' = "free" /\ at' = 0
    BY <1>5, Zenon DEF Signal, SetQuit, JoinThreads, poolVars
  <2>2. FwOpened' /\ \A p \in Caches : PortFilled(p)' <=> PortFilled(p)
    BY <1>0, <2>1 DEF FwOpened, PortFilled
  <2> QED BY <2>1, <2>2, MainRings, Zenon
<1>6. CASE port_free \/ bpool_free
  <2>1. /\ UNCHANGED <<staged, rings, threadVars, out>> /\ main = "free"
        /\ \/ at < NPorts /\ opened' = opened \ {at} /\ at' = at + 1 /\ main' = main
           \/ at = NPorts /\ UNCHANGED <<at, opened>> /\ main' = "done"
    BY <1>6, Zenon DEF port_free, bpool_free, bcache_free, poolVars
  <2>2. FwOpened' /\ \A p \in Caches : PortFilled(p)' <=> PortFilled(p)
    <3>1. CASE at < NPorts /\ opened' = opened \ {at} /\ at' = at + 1 /\ main' = main
      <4>1. opened = at .. (NPorts - 1)
        BY <1>0, <2>1, Zenon DEF FwOpened
      <4>2. opened' = (at + 1) .. (NPorts - 1)
        BY <1>0, <3>1, <4>1
      <4> QED BY <1>0, <2>1, <3>1, <4>2 DEF FwOpened, PortFilled
    <3>2. CASE at = NPorts /\ UNCHANGED <<at, opened>> /\ main' = "done"
      <4>1. opened = {}
        BY <1>0, <2>1, <3>2 DEF FwOpened
      <4> QED BY <1>0, <2>1, <3>2, <4>1, Zenon DEF FwOpened, PortFilled
    <3> QED BY <2>1, <3>1, <3>2, Zenon
  <2> QED BY <2>1, <2>2, MainRings, Zenon
<1> QED BY <1>1, <1>2, <1>3, <1>4, <1>5, <1>6, SMTT(30)

(* The threads start when every port is filled. *)
LEMMA StartThreadsRings == ASSUME FwInv, FwRings, StartThreads PROVE FwRings'
<1>1. /\ main = "bcache" /\ at = NPorts /\ main' = "running" /\ pc' = [t \in Threads |-> "loop"]
      /\ UNCHANGED <<at, staged, opened, umem_fq, rxq, txq, umem_cq, ready, port, pkt, cursor, peeked, live, out>>
  BY Zenon DEF StartThreads, rings, poolVars
<1>2. \A t \in Threads : pc[t] \in {"none", "exit"} /\ pc'[t] = "loop"
  BY <1>1, Zenon DEF FwInv, FwMain
<1>3. FwOpened'
  BY <1>1, ForwardAssumption, Zenon DEF FwRings, FwOpened
<1>4. FwFill'
  <2>1. \A p : Pending(p)' = Pending(p)
    BY <1>2, Zenon DEF Pending
  <2>2. \A p \in Caches : PortFilled(p)' <=> PortFilled(p)
    BY <1>1, ForwardAssumption, SMTT(30) DEF PortFilled
  <2> QED BY <1>1, <2>1, <2>2, FillKept, Zenon DEF FwRings
<1>5. FwSent'
  BY <1>1, <1>2, Zenon DEF FwRings, FwSent, SentOK
<1>6. FwReady'
  <2> SUFFICES ASSUME NEW t \in Threads PROVE ReadyOK(t)'
    BY Zenon DEF FwReady
  <2>1. ReadyOK(t)
    BY Zenon DEF FwRings, FwReady
  <2> QED BY <1>1, <1>2, <2>1, Zenon DEF ReadyOK, Serving
<1>7. FwHeld'
  <2>1. \A p, i : ~Back(p, i) /\ ~Back(p, i)'
    BY <1>2 DEF Back
  <2> QED BY <1>1, <2>1, HeldKept, Zenon DEF FwRings, rings
<1> QED BY <1>3, <1>4, <1>5, <1>6, <1>7, Zenon DEF FwRings

(* The fill ring of a port is empty until its addresses are submitted. *)
LEMMA StageFillRings == ASSUME FwInv, FwRings, StageFill PROVE FwRings'
<1>0. PICK b : b = bcache_cons_ret(at)
  BY Zenon
<1>1. /\ main = "fill" /\ staged' = Append(staged, b) /\ out' = out \cup {b} /\ Len(staged) < fill_size
      /\ UNCHANGED <<main, at, opened, umem_fq, rxq, txq, umem_cq, pc, ready, port, pkt, cursor, peeked, live>>
  BY <1>0, Zenon DEF StageFill, bcache_cons, rings, threadVars
<1>2. /\ at \in live /\ n_buffers_cons[at] \in Nat /\ staged \in Seq(Buffers)
      /\ n_buffers_cons[at] + Len(staged) >= fill_size
  BY <1>1, ForwardAssumption, PoolAssumption, SMTT(30) DEF FwInv, FwTypes, FwMain, Opening, PoolInv, TypeOK
<1>3. n_buffers_cons[at] # 0
  <2>1. Len(staged) \in Nat /\ fill_size \in Nat
    BY <1>2, LenOf, ForwardAssumption, Zenon
  <2> QED BY <1>1, <1>2, <2>1
<1>4. b \in Buffers
  BY <1>0, <1>2, <1>3, Taken, Zenon DEF FwInv
<1>5. ASSUME NEW a, In(staged, a) \/ a = b PROVE In(staged', a)
  <2>1. /\ Len(staged) \in Nat /\ Len(staged') = Len(staged) + 1 /\ staged'[Len(staged) + 1] = b
        /\ \A k \in 1 .. Len(staged) : staged'[k] = staged[k]
    BY <1>1, <1>2, <1>4, AppendTo, SMTT(30)
  <2> QED BY <1>5, <2>1, SMTT(30) DEF In
<1>6. FwOpened'
  BY <1>1, Zenon DEF FwRings, FwOpened
<1>7. FwFill'
  <2>1. \A p : Pending(p)' = Pending(p)
    BY <1>1, Zenon DEF Pending
  <2>2. \A p \in Caches : PortFilled(p)' <=> PortFilled(p)
    BY <1>1, Zenon DEF PortFilled
  <2> QED BY <1>1, <2>1, <2>2, FillKept, Zenon DEF FwRings
<1>8. FwSent'
  <2>1. \A u \in Threads : ports_tx(port[u])' = ports_tx(port[u])
    BY <1>1, Zenon DEF ports_tx
  <2> QED BY <1>1, <2>1, Zenon DEF FwRings, FwSent, SentOK
<1>9. FwReady'
  BY <1>1, Zenon DEF FwRings, FwReady, ReadyOK
<1>10. FwHeld'
  <2> SUFFICES ASSUME NEW a \in out' PROVE Held(a)'
    BY Zenon DEF FwHeld
  <2>1. \A p, i : Back(p, i)' <=> Back(p, i)
    BY <1>1, Zenon DEF Back, ports_tx
  <2>2. InCompletions(a) => InCompletions(a)'
    BY <1>1, <2>1, Zenon DEF InCompletions
  <2>3. In(staged, a)' = In(staged', a) /\ InRing(rxq, a)' = InRing(rxq, a) /\ InRing(umem_fq, a)' = InRing(umem_fq, a)
        /\ InRing(txq, a)' = InRing(txq, a) /\ InBurst(a)' = InBurst(a)
    BY <1>1, Zenon DEF In, InRing, InBurst
  <2>4. a \in out \/ a = b
    BY <1>1
  <2> QED BY <1>5, <2>2, <2>3, <2>4, Zenon DEF FwRings, FwHeld, Held
<1> QED BY <1>6, <1>7, <1>8, <1>9, <1>10, Zenon DEF FwRings

(* The addresses staged become the fill ring of the port. *)
LEMMA SubmitFillRings == ASSUME FwInv, FwRings, SubmitFill PROVE FwRings'
<1>0. PICK p : p = at
  BY Zenon
<1>1. /\ main = "fill" /\ Len(staged) = fill_size /\ umem_fq' = [umem_fq EXCEPT ![p] = staged]
      /\ staged' = <<>> /\ at' = p + 1 /\ main' = "bcache"
      /\ UNCHANGED <<opened, rxq, txq, umem_cq, pc, ready, port, pkt, cursor, peeked, live, out>>
  BY <1>0, Zenon DEF SubmitFill, threadVars, poolVars
<1>2. /\ p \in Caches /\ p \in Nat /\ p < NPorts /\ NPorts \in Nat /\ fill_size \in Nat \ {0}
      /\ umem_fq \in [Caches -> Seq(Buffers)] /\ rxq \in [Caches -> Seq(Buffers)]
      /\ \A t \in Threads : pc[t] \in {"none", "exit"}
  BY <1>0, <1>1, ForwardAssumption, SMTT(30) DEF FwInv, FwTypes, FwMain, Opening
<1>3. umem_fq'[p] = staged /\ \A q \in Caches : q # p => umem_fq'[q] = umem_fq[q]
  BY <1>1, <1>2, Zenon
<1>4. \A q : Pending(q) = 0 /\ Pending(q)' = 0
  BY <1>1, <1>2, Zenon DEF Pending
<1>5. Len(umem_fq[p]) = 0 /\ Len(rxq[p]) = 0
  <2>1. Len(umem_fq[p]) + Len(rxq[p]) + Pending(p) = 0
    BY <1>0, <1>1, <1>2 DEF FwRings, FwFill, PortFilled
  <2>2. Len(umem_fq[p]) \in Nat /\ Len(rxq[p]) \in Nat
    BY <1>2, LenOf, Zenon
  <2>3. ASSUME NEW i \in Nat, NEW j \in Nat, i + j + 0 = 0 PROVE i = 0 /\ j = 0
    BY <2>3
  <2> QED BY <1>4, <2>1, <2>2, <2>3, Zenon
<1>6. FwOpened'
  BY <1>0, <1>1, <1>2 DEF FwRings, FwOpened
<1>7. FwFill'
  <2>1. ASSUME NEW q \in Caches, q # p
        PROVE  Len(umem_fq'[q]) + Len(rxq'[q]) + Pending(q)' = IF PortFilled(q)' THEN fill_size ELSE 0
    <3>1. PortFilled(q)' <=> PortFilled(q)
      <4>1. q \in Nat
        BY ForwardAssumption
      <4> QED BY <1>0, <1>1, <1>2, <2>1, <4>1 DEF PortFilled
    <3>2. umem_fq'[q] = umem_fq[q] /\ rxq'[q] = rxq[q] /\ Pending(q)' = Pending(q)
      BY <1>1, <1>3, <1>4, <2>1, Zenon
    <3> QED BY <3>1, <3>2, Zenon DEF FwRings, FwFill
  <2>2. Len(umem_fq'[p]) + Len(rxq'[p]) + Pending(p)' = fill_size
    <3>1. Len(umem_fq'[p]) = fill_size /\ Len(rxq'[p]) = 0 /\ Pending(p)' = 0
      BY <1>1, <1>3, <1>4, <1>5, Zenon
    <3>2. fill_size + 0 + 0 = fill_size
      BY <1>2
    <3> QED BY <3>1, <3>2, Zenon
  <2>3. PortFilled(p)'
    BY <1>1, <1>2, SMTT(30) DEF PortFilled
  <2> QED BY <2>1, <2>2, <2>3, Zenon DEF FwFill
<1>8. FwSent'
  <2>1. \A u \in Threads : ports_tx(port[u])' = ports_tx(port[u])
    BY <1>1, Zenon DEF ports_tx
  <2> QED BY <1>1, <2>1, Zenon DEF FwRings, FwSent, SentOK
<1>9. FwReady'
  BY <1>1, Zenon DEF FwRings, FwReady, ReadyOK
<1>10. FwHeld'
  <2> SUFFICES ASSUME NEW a \in out PROVE Held(a)'
    BY <1>1, Zenon DEF FwHeld
  <2>1. \A q, i : Back(q, i)' <=> Back(q, i)
    BY <1>1, Zenon DEF Back, ports_tx
  <2>2. InCompletions(a) => InCompletions(a)'
    BY <1>1, <2>1, Zenon DEF InCompletions
  <2>3. InRing(rxq, a)' = InRing(rxq, a) /\ InRing(txq, a)' = InRing(txq, a) /\ InBurst(a)' = InBurst(a)
    BY <1>1, Zenon DEF In, InRing, InBurst
  <2>4. In(staged, a) => InRing(umem_fq, a)'
    BY <1>2, <1>3, Zenon DEF InRing, In
  <2>5. InRing(umem_fq, a) => InRing(umem_fq, a)'
    <3> SUFFICES ASSUME NEW q \in Caches, NEW i \in 1 .. Len(umem_fq[q]), umem_fq[q][i] = a PROVE InRing(umem_fq, a)'
      BY Zenon DEF InRing, In
    <3>1. q # p
      BY <1>5
    <3> QED BY <1>3, <3>1, Zenon DEF InRing, In
  <2> QED BY <2>2, <2>3, <2>4, <2>5, Zenon DEF FwRings, FwHeld, Held
<1> QED BY <1>6, <1>7, <1>8, <1>9, <1>10, Zenon DEF FwRings

-----------------------------------------------------------------------------
(* The invariant of the forwarder *)

(* The rings are in order when main starts. *)
LEMMA RingsStart == Init => FwRings
<1> SUFFICES ASSUME Init PROVE FwRings
  BY Zenon
<1>1. FwOpened
  <2>1. 0 .. (0 - 1) = {}
    OBVIOUS
  <2> QED BY <2>1, ForwardAssumption DEF Init, FwOpened
<1>2. FwFill
  <2>1. ASSUME NEW p \in Caches PROVE ~PortFilled(p) /\ Pending(p) = 0 /\ Len(umem_fq[p]) = 0 /\ Len(rxq[p]) = 0
    BY ForwardAssumption DEF Init, PortFilled, Pending
  <2>2. 0 + 0 + 0 = 0
    OBVIOUS
  <2> QED BY <2>1, <2>2, Zenon DEF FwFill
<1>3. FwSent
  <2>1. ASSUME NEW p \in Caches PROVE Len(txq[p]) = 0 /\ Len(umem_cq[p]) = 0
    BY Zenon DEF Init
  <2>2. 0 <= tx_size /\ 0 <= comp_size /\ 0 + 0 <= tx_size
    BY ForwardAssumption
  <2> QED BY <2>1, <2>2, Zenon DEF FwSent, SentOK
<1>4. FwReady
  BY Zenon DEF Init, FwReady, ReadyOK, Serving
<1>5. FwHeld
  BY Zenon DEF Init, PoolInit, FwHeld
<1> QED BY <1>1, <1>2, <1>3, <1>4, <1>5, Zenon DEF FwRings

(* Every step keeps them in order. *)
LEMMA RingsStep == FwInv /\ FwRings /\ [Next]_vars => FwRings'
<1> SUFFICES ASSUME FwInv, FwRings, [Next]_vars PROVE FwRings'
  BY Zenon
<1>1. CASE Main
  BY <1>1, QuietMainRings, StartThreadsRings, StageFillRings, SubmitFillRings, Zenon DEF Main
<1>2. ASSUME NEW t \in Threads, Thread(t) PROVE FwRings'
  BY <1>2, LoopRings, TakePacketRings, ReplenishRings, SendPacketRings, PeekCompletionsRings, GiveBackRings,
     ReleaseCompletionsRings, Zenon DEF Thread
<1>3. ASSUME NEW p \in Caches, Receive(p) \/ Transmit(p) PROVE FwRings'
  BY <1>3, ReceiveRings, TransmitRings, Zenon
<1>4. CASE Terminated \/ UNCHANGED vars
  <2>1. UNCHANGED <<mainVars, rings, threadVars, live, out>>
    BY <1>4, Zenon DEF Terminated, vars, poolVars
  <2>2. UNCHANGED <<main, at, staged, opened>>
    BY <2>1, Zenon DEF mainVars
  <2>3. FwOpened' /\ \A p \in Caches : PortFilled(p)' <=> PortFilled(p)
    BY <2>1, <2>2, OpenedKept, Zenon DEF FwRings, PortFilled
  <2> QED BY <2>1, <2>2, <2>3, MainRings, Zenon
<1> QED BY <1>1, <1>2, <1>3, <1>4, Zenon DEF Next

(* A buffer that is outside the pool is at a spot. *)
LEMMA HeldAtSpot == ASSUME NEW b, Held(b) PROVE \E x \in Spots : BufferAt(x) = b
<1>1. ASSUME NEW k, NEW p, NEW i, IsSpot(k, p, i), BufferAt(<<k, p, i>>) = b PROVE \E x \in Spots : BufferAt(x) = b
  BY <1>1, SpotThere, Zenon
<1>2. CASE In(staged, b)
  <2>1. PICK i \in 1 .. Len(staged) : staged[i] = b
    BY <1>2, Zenon DEF In
  <2>2. IsSpot("staged", 0, i) /\ BufferAt(<<"staged", 0, i>>) = b
    BY <2>1, Zenon DEF IsSpot, BufferAt
  <2> QED BY <1>1, <2>2, Zenon
<1>3. CASE InRing(umem_fq, b)
  <2>1. PICK p \in Caches : \E i \in 1 .. Len(umem_fq[p]) : umem_fq[p][i] = b
    BY <1>3, Zenon DEF InRing, In
  <2>2. PICK i \in 1 .. Len(umem_fq[p]) : umem_fq[p][i] = b
    BY <2>1, Zenon
  <2>3. IsSpot("fq", p, i) /\ BufferAt(<<"fq", p, i>>) = b
    BY <2>2, Zenon DEF IsSpot, BufferAt
  <2> QED BY <1>1, <2>3, Zenon
<1>4. CASE InRing(rxq, b)
  <2>1. PICK p \in Caches : \E i \in 1 .. Len(rxq[p]) : rxq[p][i] = b
    BY <1>4, Zenon DEF InRing, In
  <2>2. PICK i \in 1 .. Len(rxq[p]) : rxq[p][i] = b
    BY <2>1, Zenon
  <2>3. IsSpot("rx", p, i) /\ BufferAt(<<"rx", p, i>>) = b
    BY <2>2, Zenon DEF IsSpot, BufferAt
  <2> QED BY <1>1, <2>3, SMTT(30)
<1>5. CASE InRing(txq, b)
  <2>1. PICK p \in Caches : \E i \in 1 .. Len(txq[p]) : txq[p][i] = b
    BY <1>5, Zenon DEF InRing, In
  <2>2. PICK i \in 1 .. Len(txq[p]) : txq[p][i] = b
    BY <2>1, Zenon
  <2>3. IsSpot("tx", p, i) /\ BufferAt(<<"tx", p, i>>) = b
    BY <2>2, Zenon DEF IsSpot, BufferAt
  <2> QED BY <1>1, <2>3, SMTT(30)
<1>6. CASE InCompletions(b)
  <2>1. PICK p \in Caches : \E i \in 1 .. Len(umem_cq[p]) : umem_cq[p][i] = b /\ ~Back(p, i)
    BY <1>6, Zenon DEF InCompletions
  <2>2. PICK i \in 1 .. Len(umem_cq[p]) : umem_cq[p][i] = b /\ ~Back(p, i)
    BY <2>1, Zenon
  <2>3. IsSpot("cq", p, i) /\ BufferAt(<<"cq", p, i>>) = b
    BY <2>2, Zenon DEF IsSpot, BufferAt
  <2> QED BY <1>1, <2>3, Zenon
<1>7. CASE InBurst(b)
  <2>1. PICK t \in Threads : pkt[t] # NoBuffer /\ pkt[t] = b
    BY <1>7, Zenon DEF InBurst
  <2>2. IsSpot("pkt", t, 0) /\ BufferAt(<<"pkt", t, 0>>) = b
    BY <2>1, Zenon DEF IsSpot, BufferAt
  <2> QED BY <1>1, <2>2, Zenon
<1> QED BY <1>2, <1>3, <1>4, <1>5, <1>6, <1>7, SMTT(30) DEF Held

(* One thread at most has a packet of port p without a place on the fill ring. *)
LEMMA PendingCounted ==
  ASSUME FwInv, NEW p \in Caches
  PROVE  Cardinality({t \in Threads : pc[t] = "fq" /\ port[t] = p}) = Pending(p)
<1>1. PICK S : S = {t \in Threads : pc[t] = "fq" /\ port[t] = p}
  BY Zenon
<1>2. CASE \E t \in Threads : pc[t] = "fq" /\ port[t] = p
  <2>1. PICK t \in Threads : pc[t] = "fq" /\ port[t] = p
    BY <1>2, Zenon
  <2>2. \A u \in Threads : pc[u] = "fq" /\ port[u] = p => u = t
    BY <2>1, OtherPort, Zenon DEF Serving
  <2>3. S = {t}
    BY <1>1, <2>1, <2>2, Zenon
  <2>4. Cardinality(S) = 1
    BY <2>3, FS_Singleton, Zenon
  <2> QED BY <1>1, <1>2, <2>4, Zenon DEF Pending
<1>3. CASE ~\E t \in Threads : pc[t] = "fq" /\ port[t] = p
  <2>1. S = {}
    BY <1>1, <1>3, Zenon
  <2>2. Cardinality(S) = 0
    BY <2>1, FS_EmptySet, Zenon
  <2> QED BY <1>1, <1>3, <2>2, Zenon DEF Pending
<1> QED BY <1>2, <1>3, Zenon

(* What the invariants say of the program. *)
LEMMA Rely == FwInv /\ FwRings => ForwardInv
<1> SUFFICES ASSUME FwInv, FwRings PROVE ForwardInv
  BY Zenon
<1>0. /\ umem_fq \in [Caches -> Seq(Buffers)] /\ rxq \in [Caches -> Seq(Buffers)]
      /\ txq \in [Caches -> Seq(Buffers)] /\ umem_cq \in [Caches -> Seq(Buffers)]
      /\ port \in [Threads -> Caches] /\ pkt \in [Threads -> Buffers \cup {NoBuffer}]
      /\ cursor \in [Threads -> Nat] /\ peeked \in [Threads -> Nat]
      /\ fill_size \in Nat \ {0} /\ tx_size \in Nat \ {0} /\ comp_size \in Nat \ {0}
  BY ForwardAssumption, Zenon DEF FwInv, FwTypes
<1>1. ForwardTypeOK
  <2>1. TypeOK /\ at \in 0 .. NPorts
    BY Zenon DEF FwInv, PoolInv, FwRings, FwOpened
  <2>2. opened \subseteq live
    <3>1. FwMain /\ FwOpened /\ at \in Nat
      BY Zenon DEF FwInv, FwTypes, FwRings
    <3>2. CASE main \in {"check", "socket"}
      <4>1. opened = 0 .. (at - 1) /\ live = 0 .. at
        BY <3>1, <3>2, Zenon DEF FwMain, Opening, FwOpened
      <4> QED BY <3>1, <4>1
    <3>3. CASE main \in {"bcache", "xskmap", "fill", "running", "quit", "free", "failed", "done"}
      BY <3>1, <3>3, Zenon DEF FwMain, Opening, FwOpened
    <3> QED BY <3>1, <3>2, <3>3, Zenon DEF FwMain, Opening
  <2>3. ASSUME NEW p \in Caches
        PROVE  /\ Len(umem_fq[p]) <= fill_size /\ Len(rxq[p]) <= fill_size
               /\ Len(txq[p]) <= tx_size /\ Len(umem_cq[p]) <= comp_size
    <3>1. Len(umem_fq[p]) \in Nat /\ Len(rxq[p]) \in Nat /\ Pending(p) \in Nat /\ fill_size \in Nat
      BY <1>0, LenOf, Zenon DEF Pending
    <3>2. Len(umem_fq[p]) + Len(rxq[p]) + Pending(p) \in {0, fill_size}
      BY ZenonT(30) DEF FwRings, FwFill
    <3>3. ASSUME NEW i \in Nat, NEW j \in Nat, NEW k \in Nat, i + j + k \in {0, fill_size} PROVE i <= fill_size /\ j <= fill_size
      BY <3>1, <3>3
    <3>4. Len(umem_fq[p]) <= fill_size /\ Len(rxq[p]) <= fill_size
      BY <3>1, <3>2, <3>3, Zenon
    <3> QED BY <3>4, Zenon DEF FwRings, FwSent, SentOK
  <2>4. ASSUME NEW t \in Threads
        PROVE  /\ port[t] \in Caches /\ ready[t] \subseteq ports_rx(t)
               /\ pkt[t] \in Buffers \cup {NoBuffer}
               /\ 0 <= cursor[t] /\ cursor[t] <= peeked[t] /\ peeked[t] <= comp_size
    <3>1. ThreadOK(t) /\ ReadyOK(t)
      BY Zenon DEF FwInv, FwThreads, FwRings, FwReady
    <3>4. /\ cursor[t] \in Nat /\ peeked[t] \in Nat /\ comp_size \in Nat
          /\ port[t] \in Caches /\ pkt[t] \in Buffers \cup {NoBuffer} /\ ready[t] \subseteq ports_rx(t)
      BY <1>0, <3>1, Zenon DEF ThreadOK
    <3>2. CASE pc[t] = "drain"
      <4>1. PICK n : n = Len(umem_cq[ports_tx(port[t])])
        BY ZenonT(30)
      <4>2. ports_tx(port[t]) \in Caches
        BY <3>1, <3>4, TxPort, Zenon
      <4>3. n \in Nat /\ n <= comp_size
        BY <1>0, <4>1, <4>2, LenOf, Zenon DEF FwRings, FwSent, SentOK
      <4>4. cursor[t] <= peeked[t] /\ peeked[t] <= n
        BY <3>1, <3>2, <4>1, Zenon DEF ThreadOK
      <4> QED BY <3>4, <4>3, <4>4
    <3>3. CASE pc[t] # "drain"
      <4>1. cursor[t] = 0 /\ peeked[t] = 0
        BY <3>1, <3>3, Zenon DEF ThreadOK, ReadyOK
      <4> QED BY <3>4, <4>1
    <3> QED BY <3>2, <3>3, Zenon
  <2> QED BY <2>1, <2>2, <2>3, <2>4, Zenon DEF ForwardTypeOK
<1>2. RingsHoldWhatIsOut
  <2>1. FwOnce
    BY Zenon DEF FwInv
  <2>2. ASSUME NEW b \in out PROVE \E x \in Spots : BufferAt(x) = b
    BY HeldAtSpot, Zenon DEF FwRings, FwHeld
  <2>3. {BufferAt(x) : x \in Spots} = out
    BY <2>1, <2>2 DEF FwOnce
  <2> QED BY <2>1, <2>3, Zenon DEF FwOnce, RingsHoldWhatIsOut
<1>3. FillRingReplenished
  <2> SUFFICES ASSUME NEW p \in Caches, main # "failed",
                      main \in {"bcache", "check", "socket", "xskmap", "fill"} => p < at
               PROVE  Len(umem_fq[p]) + Len(rxq[p]) + Cardinality({t \in Threads : pc[t] = "fq" /\ port[t] = p}) = fill_size
    BY Zenon DEF FillRingReplenished
  <2>1. PortFilled(p)
    BY Zenon DEF FwInv, FwMain, Opening, PortFilled
  <2>2. Len(umem_fq[p]) + Len(rxq[p]) + Pending(p) = fill_size
    BY <2>1, Zenon DEF FwRings, FwFill
  <2> QED BY <2>2, PendingCounted, Zenon
<1>4. SendNeverBlocksOnCompletions
  <2> SUFFICES ASSUME NEW t \in Threads, NEW q, q = ports_tx(port[t]), pc[t] = "txq", Len(txq[q]) = tx_size
               PROVE  Len(umem_cq[q]) < comp_size
    BY Zenon DEF SendNeverBlocksOnCompletions
  <2>1. q \in Caches /\ \A u \in Threads : u # t /\ pc[u] \in Serving => ports_tx(port[u]) # q
    BY OwnPort, OtherPort, Zenon DEF Serving
  <2>2. Len(umem_cq[q]) \in Nat /\ SentOK(q)
    BY <1>0, <2>1, LenOf, Zenon DEF FwRings, FwSent
  <2>3. tx_size + Len(umem_cq[q]) <= tx_size
    BY <2>1, <2>2, Zenon DEF SentOK, Serving
  <2> QED BY <1>0, <2>2, <2>3
<1>5. ReadyStaysReady
  BY Zenon DEF ReadyStaysReady, FwRings, FwReady, ReadyOK
<1>6. NoUseAfterFree
  <2> SUFFICES ASSUME NEW t \in Threads, pc[t] \notin {"none", "exit"} PROVE ports_rx(t) \subseteq opened \cap live
    BY Zenon DEF NoUseAfterFree
  <2>1. main \in {"running", "quit"} /\ live = Caches
    BY Running, Zenon DEF FwInv
  <2> QED BY <2>1, Zenon DEF FwRings, FwOpened, ports_rx
<1> QED BY <1>1, <1>2, <1>3, <1>4, <1>5, <1>6 DEF ForwardInv

(* What the threads rely on (af_rxtx.c:345-450, 538-567, main.c:195-277) holds whatever
   the number of ports and threads and the sizes of the rings: the buffers outside the
   pool are each in one ring, a burst or a completion, the fill ring has room for every
   packet taken, a full transmit ring is never stuck behind completions nobody collects,
   a reported port is ready, and no port is freed under a thread. *)
THEOREM ForwarderRight == Spec => []ForwardInv
<1>1. Init => FwInv /\ FwRings
  BY FwStart, Initially, RingsStart, Zenon DEF Init
<1>2. FwInv /\ FwRings /\ [Next]_vars => FwInv' /\ FwRings'
  BY FwStep, Calls, Step, RingsStep, Zenon DEF FwInv
<1> QED BY <1>1, <1>2, Rely, PTL DEF Spec
==============================================================================
