-------------------------- MODULE DummyEthLists_proofs --------------------------
(***************************************************************************)
(* dummeth on any number of CPUs: where its packets are.  The pool and the  *)
(* receive queue are lists through pkt->next, and the watchdog frees one    *)
(* of them while packets of the same device are in the other, or in the     *)
(* hands of a call that has taken them.                                     *)
(***************************************************************************)
EXTENDS DummyEth_proofs

-----------------------------------------------------------------------------
(* The lists *)

(* The packets in C form the list that starts at h: r numbers them so that pkt->next of
   each is the one with the next lower number *)
Ranked(h, C, nx, r) ==
  /\ h = NULL => C = {}
  /\ h # NULL => h \in C /\ \A q \in C : q # h => r[q] < r[h]
  /\ \A p \in C : nx[p] = NULL => \A q \in C : q # p => r[p] < r[q]
  /\ \A p \in C : nx[p] # NULL => /\ nx[p] \in C /\ r[nx[p]] < r[p]
                                  /\ \A q \in C : r[q] < r[p] => q = nx[p] \/ r[q] < r[nx[p]]
  /\ \A p, q \in C : p # q => r[p] # r[q]

Linked(h, C, nx) == \E r \in [Packets -> Nat] : Ranked(h, C, nx, r)

(* Taking the first packet off a list leaves a list (dummeth_get_tx_buffer,
   dummeth_dequeue_buf). *)
LEMMA Popped ==
  ASSUME NEW h, NEW C \in SUBSET Packets, NEW nx, Linked(h, C, nx), h # NULL
  PROVE  h \in C /\ Linked(nx[h], C \ {h}, nx)
<1>1. PICK r \in [Packets -> Nat] : Ranked(h, C, nx, r)
  BY Zenon DEF Linked
<1>2. h \in C
  BY <1>1, Zenon DEF Ranked
<1>3. \A p \in C : r[p] \in Nat
  BY Zenon
<1>4. Ranked(nx[h], C \ {h}, nx, r)
  <2>1. nx[h] = NULL => C \ {h} = {}
    BY <1>1, <1>2, <1>3 DEF Ranked
  <2>2. nx[h] # NULL => nx[h] \in C \ {h} /\ \A q \in C \ {h} : q # nx[h] => r[q] < r[nx[h]]
    BY <1>1, <1>2, <1>3 DEF Ranked
  <2>3. \A p \in C \ {h} : nx[p] # NULL => nx[p] # h
    BY <1>1, <1>2, <1>3 DEF Ranked
  <2> QED BY <1>1, <2>1, <2>2, <2>3, Zenon DEF Ranked
<1> QED BY <1>2, <1>4, Zenon DEF Linked

(* A packet put in front of a list makes a list (dummeth_enqueue_buf,
   dummeth_release_buffer). *)
LEMMA Pushed ==
  ASSUME NEW h, NEW C \in SUBSET Packets, NEW nx, Linked(h, C, nx), NEW x \in Packets \ C, NEW nx2,
         nx2[x] = h, \A p \in C : nx2[p] = nx[p], x # NULL
  PROVE  Linked(x, C \cup {x}, nx2)
<1>1. PICK r \in [Packets -> Nat] : Ranked(h, C, nx, r)
  BY Zenon DEF Linked
<1>2. PICK top \in Nat : \A q \in C : r[q] < top
  <2>1. CASE h = NULL
    BY <1>1, <2>1, Zenon DEF Ranked
  <2>2. CASE h # NULL
    <3>1. h \in C /\ r[h] \in Nat /\ \A q \in C : q # h => r[q] < r[h]
      BY <1>1, <2>2, Zenon DEF Ranked
    <3>2. \A q \in C : r[q] < r[h] + 1
      BY <3>1
    <3> QED BY <3>1, <3>2
  <2> QED BY <2>1, <2>2, Zenon
<1> DEFINE s == [r EXCEPT ![x] = top]
<1>3. s \in [Packets -> Nat] /\ s[x] = top /\ \A p \in C : s[p] = r[p] /\ s[p] \in Nat
  BY Zenon
<1> HIDE DEF s
<1>4. Ranked(x, C \cup {x}, nx2, s)
  <2>1. \A q \in C \cup {x} : q # x => s[q] < s[x]
    BY <1>2, <1>3, Zenon
  <2>2. nx2[x] = NULL => \A q \in C \cup {x} : q = x
    BY <1>1, Zenon DEF Ranked
  <2>3. nx2[x] # NULL => /\ nx2[x] \in C /\ s[nx2[x]] < s[x]
                         /\ \A q \in C \cup {x} : s[q] < s[x] => q = nx2[x] \/ s[q] < s[nx2[x]]
    BY <1>1, <1>2, <1>3 DEF Ranked
  <2>4. \A p \in C : nx2[p] = NULL => \A q \in C \cup {x} : q # p => s[p] < s[q]
    BY <1>1, <1>2, <1>3, Zenon DEF Ranked
  <2>5. \A p \in C : nx2[p] # NULL => /\ nx2[p] \in C /\ s[nx2[p]] < s[p]
                                      /\ \A q \in C \cup {x} : s[q] < s[p] => q = nx2[p] \/ s[q] < s[nx2[p]]
    BY <1>1, <1>2, <1>3 DEF Ranked
  <2>6. \A p, q \in C \cup {x} : p # q => s[p] # s[q]
    BY <1>1, <1>2, <1>3 DEF Ranked
  <2> QED BY <2>1, <2>2, <2>3, <2>4, <2>5, <2>6, Zenon DEF Ranked
<1> QED BY <1>3, <1>4, Zenon DEF Linked

(* A list is not disturbed by what is written to other packets. *)
LEMMA Untouched ==
  ASSUME NEW h, NEW C \in SUBSET Packets, NEW nx, Linked(h, C, nx), NEW nx2, \A p \in C : nx2[p] = nx[p]
  PROVE  Linked(h, C, nx2)
<1>1. PICK r \in [Packets -> Nat] : Ranked(h, C, nx, r)
  BY Zenon DEF Linked
<1>2. Ranked(h, C, nx2, r)
  BY <1>1, Zenon DEF Ranked
<1> QED BY <1>2, Zenon DEF Linked

(* dummeth_setup_pool makes a list of the packets it allocates. *)
LEMMA NewPool ==
  ASSUME NEW d \in Devs, NEW S \in SUBSET ({d} \X Ids), S # {}, NEW nx, \A p \in S : nx[p] = Below(p, S)
  PROVE  Linked(Top(S), S, nx)
<1> DEFINE r == [p \in Packets |-> p[2]]
<1>1. r \in [Packets -> Nat] /\ \A p \in S : r[p] = p[2] /\ r[p] \in Nat
  BY PoolNumbers, Zenon DEF Packets, Ids
<1>2. \A p, q \in S : p # q => r[p] # r[q]
  BY <1>1
<1>3. Top(S) \in S /\ \A q \in S : q[2] <= Top(S)[2]
  BY TopIn, Zenon
<1>4. ASSUME NEW p \in S
      PROVE  /\ nx[p] = NULL => \A q \in S : ~(q[2] < p[2])
             /\ nx[p] # NULL => /\ nx[p] \in S /\ nx[p][2] < p[2]
                                /\ \A q \in S : q[2] < p[2] => q[2] <= nx[p][2]
  BY BelowIn
<1> HIDE DEF r
<1>5. Top(S) # NULL
  BY <1>3, NullAssumption, Zenon DEF Packets, Ids
<1>6. Ranked(Top(S), S, nx, r)
  <2>1. \A q \in S : q # Top(S) => r[q] < r[Top(S)]
    BY <1>1, <1>2, <1>3
  <2>2. \A p \in S : nx[p] = NULL => \A q \in S : q # p => r[p] < r[q]
    BY <1>1, <1>2, <1>4
  <2>3. \A p \in S : nx[p] # NULL => /\ nx[p] \in S /\ r[nx[p]] < r[p]
                                     /\ \A q \in S : r[q] < r[p] => q = nx[p] \/ r[q] < r[nx[p]]
    BY <1>1, <1>2, <1>4
  <2> QED BY <1>2, <1>3, <1>5, <2>1, <2>2, <2>3, Zenon DEF Ranked
<1> QED BY <1>1, <1>6, Zenon DEF Linked

-----------------------------------------------------------------------------
(* Chain follows pkt->next: the function it is defined by exists *)

(* The members of the lists up to length k *)
FollowsAt(f, k, nx) ==
  f[k] = [p \in Packets \cup {NULL} |-> IF p = NULL \/ k = 0 THEN {} ELSE {p} \cup f[k - 1][nx[p]]]
Follows(f, top, nx) == f = [k \in 0 .. top |-> f[k]] /\ \A k \in 0 .. top : FollowsAt(f, k, nx)

(* Lists can be followed up to any length. *)
LEMMA Followed ==
  ASSUME NEW nx, NEW top \in Nat
  PROVE  \E f : Follows(f, top, nx)
<1> DEFINE Bad == {k \in Nat : ~\E f : Follows(f, k, nx)}
<1>1. CASE Bad = {}
  BY <1>1, Zenon
<1>2. CASE Bad # {}
  <2>1. Bad \in SUBSET Nat
    BY Zenon
  <2>2. PICK k \in Bad : \A j \in Bad : k <= j
    <3> HIDE DEF Bad
    <3> QED BY <1>2, <2>1, LeastMember, Zenon
  <2>3. CASE k = 0
    <3> DEFINE none == [p \in Packets \cup {NULL} |-> {}]
               f == [j \in 0 .. 0 |-> none]
    <3>1. f[0] = none /\ f = [j \in 0 .. 0 |-> f[j]]
      OBVIOUS
    <3>2. \A j \in 0 .. 0 : j = 0
      OBVIOUS
    <3>3. none = [p \in Packets \cup {NULL} |-> IF p = NULL \/ 0 = 0 THEN {} ELSE {p} \cup f[0 - 1][nx[p]]]
      BY Zenon
    <3> HIDE DEF f, none
    <3>4. Follows(f, 0, nx)
      BY <3>1, <3>2, <3>3, Zenon DEF Follows, FollowsAt
    <3> QED BY <2>3, <3>4, Zenon
  <2>4. CASE k # 0
    <3>1. k - 1 \in Nat /\ k - 1 \notin Bad
      BY <2>2, <2>4
    <3>2. PICK g : Follows(g, k - 1, nx)
      BY <3>1, Zenon
    <3> DEFINE last == [p \in Packets \cup {NULL} |-> IF p = NULL \/ k = 0 THEN {} ELSE {p} \cup g[k - 1][nx[p]]]
               f == [j \in 0 .. k |-> IF j = k THEN last ELSE g[j]]
    <3>3. k \in Nat /\ k \in 0 .. k /\ k - 1 \in 0 .. k /\ k - 1 # k
          /\ \A j \in 0 .. k : j # k => j \in 0 .. (k - 1) /\ j - 1 # k /\ (j # 0 => j - 1 \in 0 .. k)
      BY <2>4, <3>1
    <3>4. f = [j \in 0 .. k |-> f[j]] /\ f[k] = last /\ \A j \in 0 .. k : j # k => f[j] = g[j]
      BY <3>3, Zenon
    <3>5. FollowsAt(f, k, nx)
      <4>1. f[k - 1] = g[k - 1]
        BY <3>3, <3>4, Zenon
      <4> HIDE DEF f
      <4> QED BY <3>4, <4>1, Zenon DEF FollowsAt
    <3>6. ASSUME NEW j \in 0 .. k, j # k PROVE FollowsAt(f, j, nx)
      <4>1. FollowsAt(g, j, nx)
        BY <3>2, <3>3, <3>6, Zenon DEF Follows
      <4>2. f[j] = g[j] /\ (j # 0 => f[j - 1] = g[j - 1])
        BY <3>3, <3>4, <3>6, Zenon
      <4> HIDE DEF f
      <4>3. CASE j = 0
        BY <4>1, <4>2, <4>3, Zenon DEF FollowsAt
      <4>4. CASE j # 0
        BY <4>1, <4>2, <4>4, Zenon DEF FollowsAt
      <4> QED BY <4>3, <4>4, Zenon
    <3> HIDE DEF f
    <3>7. Follows(f, k, nx)
      BY <3>4, <3>5, <3>6, Zenon DEF Follows
    <3> QED BY <3>7, Zenon
  <2> QED BY <2>3, <2>4, Zenon
<1> QED BY <1>1, <1>2, Zenon

(* Chain is what such a function gives for the longest lists. *)
LEMMA ChainFollows ==
  ASSUME NEW top, top = Cardinality(Packets), top \in Nat
  PROVE  \E f : Follows(f, top, next) /\ \A h : Chain(h) = f[top][h]
<1> DEFINE From(f) ==
       f = [k \in 0 .. Cardinality(Packets) |->
              [p \in Packets \cup {NULL} |-> IF p = NULL \/ k = 0 THEN {} ELSE {p} \cup f[k - 1][next[p]]]]
<1>1. \A f : Follows(f, top, next) => From(f)
  BY Zenon DEF Follows, FollowsAt
<1>2. \A f : From(f) => Follows(f, top, next)
  <2> SUFFICES ASSUME NEW f, From(f) PROVE Follows(f, top, next)
    BY Zenon
  <2> DEFINE e(k) == [p \in Packets \cup {NULL} |-> IF p = NULL \/ k = 0 THEN {} ELSE {p} \cup f[k - 1][next[p]]]
  <2>1. f = [k \in 0 .. top |-> e(k)]
    BY Zenon
  <2> HIDE DEF e, From
  <2>2. f = [k \in 0 .. top |-> f[k]] /\ \A k \in 0 .. top : f[k] = e(k)
    BY <2>1, Zenon
  <2> QED BY <2>2, Zenon DEF Follows, FollowsAt, e
<1>3. \A h : Chain(h) = (CHOOSE f : From(f))[top][h]
  BY Zenon DEF Chain
<1> HIDE DEF From
<1>4. \E f : From(f)
  BY <1>1, Followed, Zenon
<1>5. From(CHOOSE f : From(f))
  BY <1>4, Zenon
<1> QED BY <1>2, <1>3, <1>5, Zenon

(* The members of a list are what Chain finds from its head. *)
LEMMA ChainIs ==
  ASSUME NEW h, NEW C \in SUBSET Packets, Linked(h, C, next)
  PROVE  Chain(h) = C
<1>1. PICK r \in [Packets -> Nat] : Ranked(h, C, next, r)
  BY Zenon DEF Linked
<1>2. IsFiniteSet(Packets) /\ Cardinality(Packets) \in Nat
  BY PacketsFinite, Zenon
<1>3. PICK f : Follows(f, Cardinality(Packets), next) /\ \A g : Chain(g) = f[Cardinality(Packets)][g]
  BY <1>2, ChainFollows, Zenon
<1> DEFINE top == Cardinality(Packets)
           Low(p) == {q \in C : r[q] <= r[p]}
           Bad == {k \in 0 .. top : \E p \in C : Cardinality(Low(p)) <= k /\ f[k][p] # Low(p)}
<1>4. \A p \in C : /\ IsFiniteSet(Low(p)) /\ Cardinality(Low(p)) \in Nat
                   /\ Cardinality(Low(p)) <= top /\ Cardinality(Low(p)) >= 1 /\ r[p] \in Nat /\ p # NULL
  <2> SUFFICES ASSUME NEW p \in C
               PROVE  /\ IsFiniteSet(Low(p)) /\ Cardinality(Low(p)) \in Nat
                      /\ Cardinality(Low(p)) <= top /\ Cardinality(Low(p)) >= 1 /\ r[p] \in Nat /\ p # NULL
    BY Zenon
  <2>1. Low(p) \in SUBSET Packets /\ p \in Low(p) /\ r[p] \in Nat
    OBVIOUS
  <2> HIDE DEF Low
  <2>2. IsFiniteSet(Low(p)) /\ Cardinality(Low(p)) \in Nat /\ Cardinality(Low(p)) <= top
    BY <1>2, <2>1, FS_Subset, FS_CardinalityType, Zenon
  <2>3. Cardinality(Low(p)) # 0
    BY <2>1, <2>2, FS_EmptySet, Zenon
  <2> QED BY <2>1, <2>2, <2>3, NullAssumption
<1>5. ASSUME NEW p \in C, next[p] # NULL
      PROVE  /\ next[p] \in C /\ Low(p) = {p} \cup Low(next[p])
             /\ Cardinality(Low(next[p])) = Cardinality(Low(p)) - 1
  <2>1. next[p] \in C /\ Low(next[p]) = Low(p) \ {p} /\ p \in Low(p)
    BY <1>1, <1>5 DEF Ranked
  <2>2. IsFiniteSet(Low(p))
    BY <1>4, Zenon
  <2> HIDE DEF Low
  <2>3. Cardinality(Low(p) \ {p}) = Cardinality(Low(p)) - 1
    BY <2>1, <2>2, FS_RemoveElement, Zenon
  <2> QED BY <2>1, <2>3, Zenon
<1>6. ASSUME NEW p \in C, next[p] = NULL PROVE Low(p) = {p}
  BY <1>1, <1>4, <1>6 DEF Ranked
<1>7. Bad = {}
  <2> SUFFICES ASSUME Bad # {} PROVE FALSE
    BY Zenon
  <2>1. PICK k \in Bad : \A j \in Bad : k <= j
    <3>1. Bad \in SUBSET Nat
      BY <1>2
    <3> HIDE DEF Bad
    <3> QED BY <3>1, LeastMember, Zenon
  <2>2. PICK p \in C : Cardinality(Low(p)) <= k /\ f[k][p] # Low(p)
    BY Zenon
  <2>3. k \in 0 .. top /\ k # 0 /\ k \in Nat /\ k - 1 \in 0 .. top /\ k - 1 \notin Bad
    <3>1. k \in 0 .. top /\ k \in Nat
      BY <1>2
    <3>2. Cardinality(Low(p)) >= 1 /\ Cardinality(Low(p)) \in Nat
      BY <1>4, Zenon
    <3> HIDE DEF Bad, Low
    <3> QED BY <1>2, <2>1, <2>2, <3>1, <3>2
  <2>4. f[k] = [q \in Packets \cup {NULL} |-> IF q = NULL \/ k = 0 THEN {} ELSE {q} \cup f[k - 1][next[q]]]
    BY <1>3, <2>3, Zenon DEF Follows, FollowsAt
  <2>5. p \in Packets /\ p # NULL /\ f[k][p] = {p} \cup f[k - 1][next[p]]
    <3>1. p \in Packets /\ p # NULL
      BY <1>4, Zenon
    <3> QED BY <2>3, <2>4, <3>1, Zenon
  <2>6. CASE next[p] = NULL
    <3>1. f[k - 1] = [q \in Packets \cup {NULL} |-> IF q = NULL \/ k - 1 = 0 THEN {} ELSE {q} \cup f[(k - 1) - 1][next[q]]]
      BY <1>3, <2>3, Zenon DEF Follows, FollowsAt
    <3>2. f[k - 1][NULL] = {}
      BY <3>1, Zenon
    <3> QED BY <1>6, <2>2, <2>5, <2>6, <3>2, Zenon
  <2>7. CASE next[p] # NULL
    <3>1. next[p] \in C /\ Low(p) = {p} \cup Low(next[p]) /\ Cardinality(Low(next[p])) = Cardinality(Low(p)) - 1
      BY <1>5, <2>7, Zenon
    <3>2. Cardinality(Low(next[p])) <= k - 1
      <4>1. Cardinality(Low(p)) \in Nat
        BY <1>4, Zenon
      <4> HIDE DEF Low, Bad
      <4> QED BY <2>2, <2>3, <3>1, <4>1
    <3>3. f[k - 1][next[p]] = Low(next[p])
      <4> HIDE DEF Low
      <4> QED BY <2>3, <3>1, <3>2, Zenon
    <3> QED BY <2>2, <2>5, <3>1, <3>3, Zenon
  <2> QED BY <2>6, <2>7, Zenon
<1>8. top \in 0 .. top /\ Chain(h) = f[top][h]
  BY <1>2, <1>3
<1>9. CASE h = NULL
  <2>1. f[top] = [q \in Packets \cup {NULL} |-> IF q = NULL \/ top = 0 THEN {} ELSE {q} \cup f[top - 1][next[q]]]
    BY <1>3, <1>8, Zenon DEF Follows, FollowsAt
  <2>2. f[top][NULL] = {}
    BY <2>1, Zenon
  <2>3. C = {}
    BY <1>1, <1>9, Zenon DEF Ranked
  <2> QED BY <1>8, <1>9, <2>2, <2>3, Zenon
<1>10. CASE h # NULL
  <2>1. h \in C /\ Low(h) = C
    <3>1. h \in C /\ r[h] \in Nat /\ \A q \in C : r[q] \in Nat /\ (q # h => r[q] < r[h])
      BY <1>1, <1>10, Zenon DEF Ranked
    <3> QED BY <3>1
  <2>2. Cardinality(Low(h)) <= top
    BY <1>4, <2>1, Zenon
  <2>3. f[top][h] = Low(h)
    <3> HIDE DEF Low
    <3> QED BY <1>7, <1>8, <2>1, <2>2, Zenon
  <2> QED BY <1>8, <2>1, <2>3, Zenon
<1> QED BY <1>9, <1>10, Zenon

-----------------------------------------------------------------------------
(* DummyEth on any number of CPUs: where the packets of a device are *)

(* a packet that dummeth_xmit of its device has taken and not yet queued *)
InXmit(d) == IF pc[<<"xmit", d>>] = "enqueue" THEN {pkt[<<"xmit", d>>]} ELSE {}

(* a packet that the twin's poll has taken and not yet released *)
InPoll(d) == IF pc[<<"poll", twin(d)>>] = "release" THEN {pkt[<<"poll", twin(d)>>]} ELSE {}

(* P is the pool of the device and Q its part of the twin's receive queue, which is all of it *)
Owned(d, P, Q) ==
  /\ Linked(ppool[d], P, next) /\ Linked(rx_queue[twin(d)], Q, next)
  /\ Mine(d) = P \cup Q \cup InXmit(d) \cup InPoll(d)
  /\ P \cap Q = {} /\ (P \cup Q) \cap (InXmit(d) \cup InPoll(d)) = {} /\ InXmit(d) \cap InPoll(d) = {}

SmpOwned == \A d \in Devs : \E P, Q \in SUBSET Packets : Owned(d, P, Q)

(* a poll that goes on has found a packet and has budget left, and a watchdog that has not
   yet made its pool finds memory for it *)
SmpReady ==
  \A d \in Devs :
    /\ pc[<<"poll", d>>] = "dequeue" => rx_queue[d] # NULL /\ n[d] < Budget
    /\ Cardinality(Mine(d)) <= PoolSize * (timeouts + 1)
    /\ pc[<<"timeout", d>>] \notin {"idle", "wake"} => Cardinality(Mine(d)) <= PoolSize * timeouts

SmpTypes ==
  /\ pc = [c \in Contexts |-> pc[c]] /\ under = [d \in Devs |-> under[d]]
  /\ pkt \in [Contexts -> Packets \cup {NULL}]
  /\ load \in [Contexts -> SUBSET {"RX_INTR", "TX_INTR"}]
  /\ timeouts \in 0 .. MaxTimeouts
  /\ \A c \in Contexts : /\ pc[c] = "enqueue" => c[1] = "xmit"
                         /\ pc[c] = "release" => c[1] = "poll"

SmpStrong == TypeOK /\ SmpTypes /\ SmpReady /\ SmpOwned

(* What a device owns is its own memory. *)
LEMMA OwnMemory ==
  ASSUME allocated \in SUBSET Packets, NEW d \in Devs
  PROVE  Mine(d) \in SUBSET Packets /\ \A p \in Mine(d) : p[1] = d /\ p # NULL
BY NullAssumption, Zenon DEF Mine

(* The packets of a device stay where they are in a step that writes neither its pool's
   head, nor the head of the twin's queue, nor pkt->next of one of them. *)
LEMMA OwnedSame ==
  ASSUME NEW d \in Devs, NEW P \in SUBSET Packets, NEW Q \in SUBSET Packets, Owned(d, P, Q),
         ppool'[d] = ppool[d], rx_queue'[twin(d)] = rx_queue[twin(d)],
         \A p \in Mine(d) : next'[p] = next[p], Mine(d)' = Mine(d),
         InXmit(d)' = InXmit(d), InPoll(d)' = InPoll(d)
  PROVE  Owned(d, P, Q)'
<1>1. Linked(ppool'[d], P, next')
  BY Untouched, Zenon DEF Owned
<1>2. Linked(rx_queue'[twin(d)], Q, next')
  BY Untouched, Zenon DEF Owned
<1> QED BY <1>1, <1>2, Zenon DEF Owned

(* A context that is running keeps its CPU or gives it back. *)
LEMMA RunsOn ==
  ASSUME SmpTypes, NEW c \in Contexts, NEW w, goto(c, w), pc[c] # "idle"
  PROVE  /\ Running' \subseteq Running
         /\ pc' = [pc EXCEPT ![c] = w] /\ under' = [d \in Devs |-> under'[d]]
<1>1. pc' = [pc EXCEPT ![c] = w] /\ \A x \in Contexts : x # c => pc'[x] = pc[x]
  BY Zenon DEF SmpTypes, goto
<1>2. pc'[c] = w
  BY Zenon DEF SmpTypes, goto
<1>3. /\ under' = [a \in Devs |-> under'[a]]
      /\ \A a \in Devs : under'[a] = IF a = c[2] /\ c[1] = "xmit" /\ w = "idle" THEN NULL ELSE under[a]
  BY ContextForm, Zenon DEF SmpTypes, goto
<1>4. ASSUME NEW x \in Contexts, x \in Running' PROVE x \in Running
  <2>1. pc'[x] # "idle" /\ ~(x[1] = "xmit" /\ under'[x[2]] # NULL)
    BY <1>4, Zenon DEF Running
  <2>2. pc[x] # "idle"
    BY <1>1, <2>1, Zenon
  <2>3. x[1] = "xmit" => under[x[2]] = NULL
    <3>1. x[2] \in Devs /\ c = <<c[1], c[2]>> /\ x = <<x[1], x[2]>>
      BY ContextForm, Zenon
    <3>2. x[1] = "xmit" /\ c[1] = "xmit" /\ w = "idle" => x[2] # c[2]
      BY <1>2, <2>1, <3>1, Zenon
    <3> QED BY <1>3, <2>1, <3>1, <3>2, Zenon
  <2> QED BY <2>2, <2>3, Zenon DEF Running
<1> QED BY <1>1, <1>3, <1>4, Zenon DEF Running

(* There are finitely many contexts. *)
LEMMA RunningFinite == IsFiniteSet(Contexts)
<1>1. IsFiniteSet({"xmit", "poll", "timeout"}) /\ IsFiniteSet(Devs)
  <2>1. IsFiniteSet({"xmit"}) /\ IsFiniteSet({0})
    BY FS_Singleton, Zenon
  <2>2. IsFiniteSet({"xmit"} \cup {"poll"}) /\ IsFiniteSet({0} \cup {1})
    BY <2>1, FS_AddElement, Zenon
  <2>3. IsFiniteSet(({"xmit"} \cup {"poll"}) \cup {"timeout"})
    BY <2>2, FS_AddElement, Zenon
  <2>4. {"xmit", "poll", "timeout"} = ({"xmit"} \cup {"poll"}) \cup {"timeout"} /\ Devs = {0} \cup {1}
    BY Zenon DEF Devs
  <2> QED BY <2>2, <2>3, <2>4, Zenon
<1> QED BY <1>1, FS_Product, Zenon DEF Contexts

(* No step takes a CPU that is not there. *)
LEMMA CpusEnough ==
  ASSUME TypeOK, NEW c, \/ Running' \subseteq Running
                        \/ Running' \subseteq Running \cup {c} /\ Cardinality(Running) < NCpus
  PROVE  Cardinality(Running)' <= NCpus
<1>1. Running \in SUBSET Contexts
  BY Zenon DEF Running
<1>2. IsFiniteSet(Running) /\ Cardinality(Running) \in Nat /\ NCpus \in Nat
  BY <1>1, RunningFinite, FS_Subset, FS_CardinalityType, DummyEthAssumption, Zenon
<1>3. CASE Running' \subseteq Running
  <2>1. Cardinality(Running') <= Cardinality(Running) /\ Cardinality(Running') \in Nat
    BY <1>2, <1>3, FS_Subset, FS_CardinalityType, Zenon
  <2>2. Cardinality(Running) <= NCpus
    BY Zenon DEF TypeOK
  <2> QED BY <1>2, <2>1, <2>2
<1>4. CASE Running' \subseteq Running \cup {c} /\ Cardinality(Running) < NCpus
  <2>1. /\ IsFiniteSet(Running \cup {c}) /\ Cardinality(Running \cup {c}) \in Nat
        /\ Cardinality(Running \cup {c}) <= Cardinality(Running) + 1
    <3>1. CASE c \in Running
      <4>1. Running \cup {c} = Running
        BY <3>1, Zenon
      <4> QED BY <1>2, <4>1
    <3>2. CASE c \notin Running
      <4>1. IsFiniteSet(Running \cup {c}) /\ Cardinality(Running \cup {c}) = Cardinality(Running) + 1
        BY <1>2, <3>2, FS_AddElement, Zenon
      <4> QED BY <1>2, <4>1
    <3> QED BY <3>1, <3>2, Zenon
  <2>2. Cardinality(Running') <= Cardinality(Running \cup {c}) /\ Cardinality(Running') \in Nat
    BY <1>4, <2>1, FS_Subset, FS_CardinalityType, Zenon
  <2> QED BY <1>2, <1>4, <2>1, <2>2
<1> QED BY <1>3, <1>4, Zenon

(* A step of one context that moves no packet: the lists stay as they are and what the
   context may hold is neither taken nor given away. *)
LEMMA SmpQuiet ==
  ASSUME SmpStrong, NEW c \in Contexts, NEW w, pc' = [pc EXCEPT ![c] = w],
         pc[c] \notin {"enqueue", "release"}, w \notin {"enqueue", "release"},
         UNCHANGED lists, under' = [d \in Devs |-> under'[d]],
         status' \in [Devs -> SUBSET {"RX_INTR", "TX_INTR"}],
         load' \in [Contexts -> SUBSET {"RX_INTR", "TX_INTR"}],
         napi' \in [Devs -> {"off", "idle", "sched", "missed"}],
         n' \in [Devs -> 0 .. Budget], \A d \in Devs : <<"poll", d>> # c => n'[d] = n[d],
         pkt' \in [Contexts -> Packets \cup {NULL}], \A x \in Contexts : x # c => pkt'[x] = pkt[x],
         Cardinality(Running)' <= NCpus,
         \/ timeouts' = timeouts
         \/ timeouts' = timeouts + 1 /\ timeouts' \in 0 .. MaxTimeouts,
         \A d \in Devs : c = <<"poll", d>> /\ w = "dequeue" => rx_queue[d] # NULL /\ n'[d] < Budget,
         c[1] = "timeout" /\ w \notin {"idle", "wake"} =>
           pc[c] \notin {"idle", "wake"} \/ timeouts' = timeouts + 1
  PROVE  SmpStrong'
<1>1. /\ pc' = [x \in Contexts |-> pc'[x]] /\ \A x \in Contexts : x # c => pc'[x] = pc[x]
      /\ pc'[c] = w
  BY Zenon DEF SmpStrong, SmpTypes
<1>2. UNCHANGED <<ppool, rx_queue, next, allocated>> /\ \A d \in Devs : Mine(d)' = Mine(d)
  BY Zenon DEF lists, Mine
<1>3. TypeOK'
  BY <1>2, Zenon DEF SmpStrong, TypeOK
<1>4. SmpTypes'
  <2>1. \A x \in Contexts : /\ pc'[x] = "enqueue" => x[1] = "xmit"
                            /\ pc'[x] = "release" => x[1] = "poll"
    BY <1>1, Zenon DEF SmpStrong, SmpTypes
  <2>2. timeouts' \in 0 .. MaxTimeouts
    BY Zenon DEF SmpStrong, SmpTypes
  <2> QED BY <1>1, <2>1, <2>2, Zenon DEF SmpTypes
<1>5. SmpOwned'
  <2> SUFFICES ASSUME NEW d \in Devs PROVE \E P, Q \in SUBSET Packets : Owned(d, P, Q)'
    BY Zenon DEF SmpOwned
  <2>1. PICK P \in SUBSET Packets, Q \in SUBSET Packets : Owned(d, P, Q)
    BY Zenon DEF SmpStrong, SmpOwned
  <2>2. <<"xmit", d>> \in Contexts /\ <<"poll", twin(d)>> \in Contexts
    BY ContextForm, Zenon
  <2>3. InXmit(d)' = InXmit(d) /\ InPoll(d)' = InPoll(d)
    BY <1>1, <2>2, Zenon DEF InXmit, InPoll
  <2>4. Owned(d, P, Q)'
    BY <1>2, <2>1, <2>3, OwnedSame, Zenon
  <2> QED BY <2>4, Zenon
<1>6. SmpReady'
  <2> SUFFICES ASSUME NEW d \in Devs
               PROVE  /\ pc'[<<"poll", d>>] = "dequeue" => rx_queue'[d] # NULL /\ n'[d] < Budget
                      /\ Cardinality(Mine(d)') <= PoolSize * (timeouts' + 1)
                      /\ pc'[<<"timeout", d>>] \notin {"idle", "wake"} => Cardinality(Mine(d)') <= PoolSize * timeouts'
    BY Zenon DEF SmpReady
  <2>0. <<"poll", d>> \in Contexts /\ <<"timeout", d>> \in Contexts /\ <<"timeout", d>>[1] = "timeout"
    BY ContextForm, Zenon
  <2>1. pc'[<<"poll", d>>] = "dequeue" => rx_queue'[d] # NULL /\ n'[d] < Budget
    BY <1>1, <1>2, <2>0, Zenon DEF SmpStrong, SmpReady
  <2>2. /\ Cardinality(Mine(d)) <= PoolSize * (timeouts + 1)
        /\ pc[<<"timeout", d>>] \notin {"idle", "wake"} => Cardinality(Mine(d)) <= PoolSize * timeouts
    BY Zenon DEF SmpStrong, SmpReady
  <2>3. /\ timeouts \in Nat /\ PoolSize \in Nat /\ Cardinality(Mine(d)) \in Nat
        /\ PoolSize * timeouts \in Nat /\ PoolSize * (timeouts + 1) = PoolSize * timeouts + PoolSize
        /\ PoolSize * ((timeouts + 1) + 1) = PoolSize * timeouts + PoolSize + PoolSize
    BY FinitelyMany, DummyEthAssumption DEF SmpStrong, SmpTypes, TypeOK
  <2>4. Cardinality(Mine(d)) <= PoolSize * (timeouts' + 1)
    BY <2>2, <2>3
  <2>5. pc'[<<"timeout", d>>] \notin {"idle", "wake"} =>
          pc[<<"timeout", d>>] \notin {"idle", "wake"} \/ timeouts' = timeouts + 1
    BY <1>1, <2>0, Zenon
  <2>6. pc'[<<"timeout", d>>] \notin {"idle", "wake"} => Cardinality(Mine(d)) <= PoolSize * timeouts'
    BY <2>2, <2>3, <2>5, Zenon
  <2> QED BY <1>2, <2>1, <2>4, <2>6, Zenon
<1> QED BY <1>3, <1>4, <1>5, <1>6, Zenon DEF SmpStrong

(* The same for a context that is in the middle of something *)
LEMMA SmpGoesOn ==
  ASSUME SmpStrong, NEW c \in Contexts, NEW w, goto(c, w),
         pc[c] \notin {"idle", "enqueue", "release"}, w \notin {"enqueue", "release"},
         UNCHANGED <<lists, timeouts>>,
         status' \in [Devs -> SUBSET {"RX_INTR", "TX_INTR"}],
         load' \in [Contexts -> SUBSET {"RX_INTR", "TX_INTR"}],
         napi' \in [Devs -> {"off", "idle", "sched", "missed"}],
         n' \in [Devs -> 0 .. Budget], \A d \in Devs : <<"poll", d>> # c => n'[d] = n[d],
         pkt' \in [Contexts -> Packets \cup {NULL}], \A x \in Contexts : x # c => pkt'[x] = pkt[x],
         \A d \in Devs : c = <<"poll", d>> /\ w = "dequeue" => rx_queue[d] # NULL /\ n'[d] < Budget,
         c[1] = "timeout" => pc[c] # "wake" \/ w = "idle"
  PROVE  SmpStrong'
<1>1. SmpTypes /\ TypeOK
  BY Zenon DEF SmpStrong
<1>2. /\ Running' \subseteq Running
      /\ pc' = [pc EXCEPT ![c] = w] /\ under' = [d \in Devs |-> under'[d]]
  BY <1>1, RunsOn, Zenon
<1>3. Cardinality(Running)' <= NCpus
  BY <1>1, <1>2, CpusEnough, Zenon
<1> QED BY <1>2, <1>3, SmpQuiet, ZenonT(30)

(* dummeth_napi_interrupt changes no more than words and NAPI's state. *)
LEMMA SmpInterrupt ==
  ASSUME SmpStrong, NEW c \in Contexts, NEW e \in Devs, NEW here, NEW there, Interrupt(c, e, here, there),
         here \notin {"idle", "enqueue", "release", "wake"}, there \notin {"dequeue", "enqueue", "release"}
  PROVE  SmpStrong'
<1>1. /\ pc[c] = here /\ goto(c, there) /\ UNCHANGED <<lists, timeouts, pkt, load, n>>
      /\ status' = [status EXCEPT ![e] = {}]
  BY Zenon DEF Interrupt, dummeth_napi_interrupt
<1>2. status' \in [Devs -> SUBSET {"RX_INTR", "TX_INTR"}]
  BY <1>1, Zenon DEF SmpStrong, TypeOK
<1>3. napi' \in [Devs -> {"off", "idle", "sched", "missed"}]
  BY Zenon DEF Interrupt, dummeth_napi_interrupt, napi_schedule, SmpStrong, TypeOK
<1>4. /\ load' \in [Contexts -> SUBSET {"RX_INTR", "TX_INTR"}] /\ n' \in [Devs -> 0 .. Budget]
      /\ pkt' \in [Contexts -> Packets \cup {NULL}]
  BY <1>1, Zenon DEF SmpStrong, TypeOK, SmpTypes
<1> QED BY <1>1, <1>2, <1>3, <1>4, SmpGoesOn, Zenon

(* Reading the status word outside the lock *)
LEMMA SmpRead ==
  ASSUME SmpStrong, NEW c \in Contexts, NEW e \in Devs, NEW here, NEW there, ReadStatus(c, e, here, there),
         here \notin {"idle", "enqueue", "release", "wake"}, there \notin {"dequeue", "enqueue", "release"}
  PROVE  SmpStrong'
<1>1. /\ pc[c] = here /\ goto(c, there) /\ UNCHANGED <<lists, timeouts, pkt, status, napi, n>>
      /\ load' = [load EXCEPT ![c] = status[e]]
  BY Zenon DEF ReadStatus, irq
<1>2. load' \in [Contexts -> SUBSET {"RX_INTR", "TX_INTR"}]
  BY <1>1, Zenon DEF SmpStrong, TypeOK, SmpTypes
<1>3. /\ status' \in [Devs -> SUBSET {"RX_INTR", "TX_INTR"}]
      /\ napi' \in [Devs -> {"off", "idle", "sched", "missed"}] /\ n' \in [Devs -> 0 .. Budget]
      /\ pkt' \in [Contexts -> Packets \cup {NULL}]
  BY <1>1, Zenon DEF SmpStrong, TypeOK, SmpTypes
<1> QED BY <1>1, <1>2, <1>3, SmpGoesOn, Zenon

(* Writing it back *)
LEMMA SmpWrite ==
  ASSUME SmpStrong, NEW c \in Contexts, NEW e \in Devs, NEW bit \in {"RX_INTR", "TX_INTR"}, NEW here, NEW there,
         WriteStatus(c, e, bit, here, there),
         here \notin {"idle", "enqueue", "release", "wake"}, there \notin {"dequeue", "enqueue", "release"}
  PROVE  SmpStrong'
<1>1. /\ pc[c] = here /\ goto(c, there) /\ UNCHANGED <<lists, timeouts, pkt, napi, n>>
      /\ load' = [load EXCEPT ![c] = {}] /\ status' = [status EXCEPT ![e] = load[c] \cup {bit}]
  BY Zenon DEF WriteStatus
<1>2. /\ load' \in [Contexts -> SUBSET {"RX_INTR", "TX_INTR"}]
      /\ load[c] \cup {bit} \in SUBSET {"RX_INTR", "TX_INTR"}
  BY <1>1, Zenon DEF SmpStrong, SmpTypes
<1>3. status' \in [Devs -> SUBSET {"RX_INTR", "TX_INTR"}]
  BY <1>1, <1>2, Zenon DEF SmpStrong, TypeOK
<1>4. /\ napi' \in [Devs -> {"off", "idle", "sched", "missed"}] /\ n' \in [Devs -> 0 .. Budget]
      /\ pkt' \in [Contexts -> Packets \cup {NULL}]
  BY <1>1, Zenon DEF SmpStrong, TypeOK, SmpTypes
<1> QED BY <1>1, <1>2, <1>3, <1>4, SmpGoesOn, Zenon

(* What a context finds unchanged when it moves a packet: everything but the lists, the
   packets in hand and its own place. *)
LEMMA SmpMoves ==
  ASSUME SmpStrong, NEW c \in Contexts, NEW w, goto(c, w), pc[c] \notin {"idle", "wake"},
         w \in {"enqueue", "rx", "release", "test"},
         w = "enqueue" => c[1] = "xmit", w = "release" => c[1] = "poll", c[1] # "timeout",
         UNCHANGED <<status, napi, load, timeouts, allocated>>,
         ppool' \in [Devs -> Packets \cup {NULL}], rx_queue' \in [Devs -> Packets \cup {NULL}],
         next' \in [Packets -> Packets \cup {NULL}], pkt' \in [Contexts -> Packets \cup {NULL}],
         n' \in [Devs -> 0 .. Budget],
         \A d \in Devs : c # <<"poll", d>> => n'[d] = n[d] /\ (rx_queue[d] # NULL => rx_queue'[d] # NULL)
  PROVE  /\ TypeOK' /\ SmpTypes' /\ SmpReady' /\ pc'[c] = w
         /\ \A x \in Contexts : x # c => pc'[x] = pc[x]
<1>1. SmpTypes /\ TypeOK
  BY Zenon DEF SmpStrong
<1>2. /\ Running' \subseteq Running
      /\ pc' = [pc EXCEPT ![c] = w] /\ under' = [d \in Devs |-> under'[d]]
  BY <1>1, RunsOn, Zenon
<1>3. Cardinality(Running)' <= NCpus
  BY <1>1, <1>2, CpusEnough, Zenon
<1>4. /\ pc' = [x \in Contexts |-> pc'[x]] /\ \A x \in Contexts : x # c => pc'[x] = pc[x]
      /\ pc'[c] = w
  BY <1>1, <1>2, Zenon DEF SmpTypes
<1>5. TypeOK'
  BY <1>1, <1>3, Zenon DEF TypeOK
<1>6. SmpTypes'
  <2>1. \A x \in Contexts : /\ pc'[x] = "enqueue" => x[1] = "xmit"
                            /\ pc'[x] = "release" => x[1] = "poll"
    BY <1>1, <1>4, Zenon DEF SmpTypes
  <2> QED BY <1>1, <1>2, <1>4, <2>1, Zenon DEF SmpTypes
<1>7. SmpReady'
  <2> SUFFICES ASSUME NEW d \in Devs
               PROVE  /\ pc'[<<"poll", d>>] = "dequeue" => rx_queue'[d] # NULL /\ n'[d] < Budget
                      /\ Cardinality(Mine(d)') <= PoolSize * (timeouts' + 1)
                      /\ pc'[<<"timeout", d>>] \notin {"idle", "wake"} => Cardinality(Mine(d)') <= PoolSize * timeouts'
    BY ZenonT(30) DEF SmpReady
  <2>1. <<"poll", d>> \in Contexts /\ <<"timeout", d>> \in Contexts /\ <<"timeout", d>> # c /\ Mine(d)' = Mine(d)
    <3>1. <<"timeout", d>>[1] = "timeout" /\ <<"poll", d>> \in Contexts /\ <<"timeout", d>> \in Contexts
      BY ContextForm, Zenon
    <3> QED BY <3>1, Zenon DEF Mine
  <2>2. pc'[<<"poll", d>>] = "dequeue" => rx_queue'[d] # NULL /\ n'[d] < Budget
    <3>1. CASE c = <<"poll", d>>
      BY <1>4, <3>1, Zenon
    <3>2. CASE c # <<"poll", d>>
      BY <1>4, <2>1, <3>2, Zenon DEF SmpStrong, SmpReady
    <3> QED BY <3>1, <3>2, Zenon
  <2> QED BY <1>4, <2>1, <2>2, Zenon DEF SmpStrong, SmpReady
<1> QED BY <1>4, <1>5, <1>6, <1>7, Zenon

(* dummeth_get_tx_buffer (core.c) takes the first packet of the pool. *)
LEMMA SmpGet == ASSUME SmpStrong, NEW d \in Devs, dummeth_get_tx_buffer(d) PROVE SmpStrong'
<1>1. PICK c \in Contexts : c = <<"xmit", d>> /\ c[1] = "xmit"
  BY ContextForm, Zenon
<1>2. TypeOK /\ SmpTypes
  BY Zenon DEF SmpStrong
<1>3. /\ pc[c] = "get" /\ UNCHANGED <<rx_queue, next, allocated, status, napi, load, n, timeouts>>
  BY <1>1, Zenon DEF dummeth_get_tx_buffer, irq
<1>4. /\ status' \in [Devs -> SUBSET {"RX_INTR", "TX_INTR"}]
      /\ load' \in [Contexts -> SUBSET {"RX_INTR", "TX_INTR"}]
      /\ napi' \in [Devs -> {"off", "idle", "sched", "missed"}] /\ n' \in [Devs -> 0 .. Budget]
      /\ rx_queue' \in [Devs -> Packets \cup {NULL}] /\ next' \in [Packets -> Packets \cup {NULL}]
  BY <1>2, <1>3, Zenon DEF TypeOK, SmpTypes
<1>5. CASE ppool[d] = NULL
  <2>1. goto(c, "idle") /\ UNCHANGED <<ppool, pkt>>
    BY <1>1, <1>5, Zenon DEF dummeth_get_tx_buffer
  <2>2. pkt' \in [Contexts -> Packets \cup {NULL}] /\ UNCHANGED lists
    BY <1>2, <1>3, <2>1, Zenon DEF SmpTypes, lists
  <2> QED BY <1>1, <1>3, <1>4, <2>1, <2>2, SmpGoesOn, Zenon
<1>6. CASE ppool[d] # NULL
  <2>1. /\ goto(c, "enqueue") /\ pkt' = [pkt EXCEPT ![c] = ppool[d]]
        /\ ppool' = [ppool EXCEPT ![d] = next[ppool[d]]]
    BY <1>1, <1>6, Zenon DEF dummeth_get_tx_buffer
  <2>2. PICK P \in SUBSET Packets, Q \in SUBSET Packets : Owned(d, P, Q)
    BY Zenon DEF SmpStrong, SmpOwned
  <2>3. ppool[d] \in P /\ Linked(next[ppool[d]], P \ {ppool[d]}, next)
    BY <1>6, <2>2, Popped, Zenon DEF Owned
  <2>4. /\ pkt' \in [Contexts -> Packets \cup {NULL}] /\ pkt'[c] = ppool[d]
        /\ \A x \in Contexts : x # c => pkt'[x] = pkt[x]
    BY <1>2, <2>1, <2>3, Zenon DEF SmpTypes
  <2>5. /\ ppool' \in [Devs -> Packets \cup {NULL}] /\ ppool'[d] = next[ppool[d]]
        /\ \A e \in Devs : e # d => ppool'[e] = ppool[e]
    BY <1>2, <2>1, <2>3, Zenon DEF TypeOK
  <2>6. /\ TypeOK' /\ SmpTypes' /\ SmpReady' /\ pc'[c] = "enqueue"
        /\ \A x \in Contexts : x # c => pc'[x] = pc[x]
    BY <1>1, <1>3, <1>4, <2>1, <2>4, <2>5, SmpMoves, Zenon
  <2>7. \A e \in Devs : Mine(e)' = Mine(e) /\ InPoll(e)' = InPoll(e) /\ (e # d => InXmit(e)' = InXmit(e))
    <3>1. \A e \in Devs : /\ <<"poll", twin(e)>> \in Contexts /\ <<"poll", twin(e)>> # c
                          /\ <<"xmit", e>> \in Contexts /\ (e # d => <<"xmit", e>> # c)
      BY <1>1, ContextForm, Zenon
    <3> QED BY <1>3, <2>4, <2>6, <3>1, Zenon DEF Mine, InPoll, InXmit
  <2>8. InXmit(d) = {} /\ InXmit(d)' = {ppool[d]}
    BY <1>1, <1>3, <2>4, <2>6, Zenon DEF InXmit
  <2>9. PICK h : h = ppool[d]
    BY Zenon
  <2>12. Owned(d, P \ {h}, Q)'
    <3>1. Linked(ppool'[d], P \ {h}, next') /\ Linked(rx_queue'[twin(d)], Q, next')
      BY <1>3, <2>2, <2>3, <2>5, <2>9, Zenon DEF Owned
    <3>2. h \in P /\ InXmit(d)' = {h} /\ InXmit(d) = {} /\ InPoll(d)' = InPoll(d) /\ Mine(d)' = Mine(d)
      BY <2>3, <2>7, <2>8, <2>9, Zenon
    <3> QED BY <2>2, <3>1, <3>2, ZenonT(30) DEF Owned
  <2>10. ASSUME NEW e \in Devs, e # d PROVE \E A, B \in SUBSET Packets : Owned(e, A, B)'
    <3>1. PICK A \in SUBSET Packets, B \in SUBSET Packets : Owned(e, A, B)
      BY Zenon DEF SmpStrong, SmpOwned
    <3> QED BY <1>3, <2>5, <2>7, <2>10, <3>1, OwnedSame, Zenon
  <2>11. SmpOwned'
    BY <2>12, <2>10, Zenon DEF SmpOwned
  <2> QED BY <2>6, <2>11, Zenon DEF SmpStrong
<1> QED BY <1>5, <1>6, Zenon

(* dummeth_enqueue_buf puts the packet in front of the twin's queue. *)
LEMMA SmpEnqueue == ASSUME SmpStrong, NEW d \in Devs, dummeth_enqueue_buf(d) PROVE SmpStrong'
<1>1. PICK c \in Contexts : c = <<"xmit", d>> /\ c[1] = "xmit"
  BY ContextForm, Zenon
<1>2. TypeOK /\ SmpTypes
  BY Zenon DEF SmpStrong
<1>0. twin(d) \in Devs
  BY ContextForm, ZenonT(30)
<1>3. /\ pc[c] = "enqueue" /\ goto(c, "rx") /\ UNCHANGED <<ppool, allocated, status, napi, load, n, timeouts>>
      /\ next' = [next EXCEPT ![pkt[c]] = rx_queue[twin(d)]]
      /\ rx_queue' = [rx_queue EXCEPT ![twin(d)] = pkt[c]]
      /\ pkt' = [pkt EXCEPT ![c] = NULL]
  BY <1>1, Zenon DEF dummeth_enqueue_buf, irq
<1>4. PICK P \in SUBSET Packets, Q \in SUBSET Packets : Owned(d, P, Q)
  BY Zenon DEF SmpStrong, SmpOwned
<1>5. InXmit(d) = {pkt[c]}
  BY <1>1, <1>3, Zenon DEF InXmit
<1>6. pkt[c] \in Mine(d) /\ pkt[c] \in Packets /\ pkt[c] # NULL /\ pkt[c][1] = d /\ pkt[c] \notin P \cup Q \cup InPoll(d)
  <2>1. pkt[c] \in Mine(d) /\ pkt[c] \notin P \cup Q \cup InPoll(d)
    BY <1>4, <1>5, Zenon DEF Owned
  <2> QED BY <1>2, <2>1, OwnMemory, Zenon DEF TypeOK
<1>7. /\ next' \in [Packets -> Packets \cup {NULL}] /\ next'[pkt[c]] = rx_queue[twin(d)]
      /\ \A p \in Packets : p # pkt[c] => next'[p] = next[p]
  BY <1>0, <1>2, <1>3, <1>6, Zenon DEF TypeOK
<1>8. /\ rx_queue' \in [Devs -> Packets \cup {NULL}] /\ rx_queue'[twin(d)] = pkt[c]
      /\ \A e \in Devs : e # twin(d) => rx_queue'[e] = rx_queue[e]
  BY <1>0, <1>2, <1>3, <1>6, Zenon DEF TypeOK
<1>9. pkt' \in [Contexts -> Packets \cup {NULL}] /\ \A x \in Contexts : x # c => pkt'[x] = pkt[x]
  BY <1>2, <1>3, Zenon DEF SmpTypes
<1>10. /\ TypeOK' /\ SmpTypes' /\ SmpReady' /\ pc'[c] = "rx"
       /\ \A x \in Contexts : x # c => pc'[x] = pc[x]
  <2>1. ppool' \in [Devs -> Packets \cup {NULL}] /\ n' \in [Devs -> 0 .. Budget]
    BY <1>2, <1>3, Zenon DEF TypeOK
  <2>2. \A e \in Devs : n'[e] = n[e] /\ (rx_queue[e] # NULL => rx_queue'[e] # NULL)
    BY <1>3, <1>6, <1>8, Zenon
  <2> QED BY <1>1, <1>3, <1>7, <1>8, <1>9, <2>1, <2>2, SmpMoves, Zenon
<1>11. \A e \in Devs : Mine(e)' = Mine(e) /\ InPoll(e)' = InPoll(e) /\ (e # d => InXmit(e)' = InXmit(e))
  <2>1. \A e \in Devs : /\ <<"poll", twin(e)>> \in Contexts /\ <<"poll", twin(e)>> # c
                        /\ <<"xmit", e>> \in Contexts /\ (e # d => <<"xmit", e>> # c)
    BY <1>1, ContextForm, Zenon
  <2> QED BY <1>3, <1>9, <1>10, <2>1, Zenon DEF Mine, InPoll, InXmit
<1>12. InXmit(d)' = {}
  BY <1>1, <1>10, Zenon DEF InXmit
<1>16. PICK x : x = pkt[c]
  BY Zenon
<1>13. Owned(d, P, Q \cup {x})'
  <2>1. Linked(rx_queue[twin(d)], Q, next) /\ Linked(ppool[d], P, next)
    BY <1>4, Zenon DEF Owned
  <2>2. Linked(pkt[c], Q \cup {pkt[c]}, next')
    BY <1>6, <1>7, <2>1, Pushed, SMTT(30)
  <2>3. Linked(ppool[d], P, next')
    BY <1>6, <1>7, <2>1, Untouched, Zenon
  <2>4. Linked(ppool'[d], P, next') /\ Linked(rx_queue'[twin(d)], Q \cup {x}, next')
    BY <1>3, <1>8, <1>16, <2>2, <2>3, ZenonT(30)
  <2>5. x \notin P \cup Q \cup InPoll(d) /\ InXmit(d) = {x} /\ InXmit(d)' = {} /\ InPoll(d)' = InPoll(d) /\ Mine(d)' = Mine(d)
    BY <1>5, <1>6, <1>11, <1>12, <1>16, Zenon
  <2> QED BY <1>4, <2>4, <2>5, SMTT(30) DEF Owned
<1>14. ASSUME NEW e \in Devs, e # d PROVE \E A, B \in SUBSET Packets : Owned(e, A, B)'
  <2>1. PICK A \in SUBSET Packets, B \in SUBSET Packets : Owned(e, A, B)
    BY Zenon DEF SmpStrong, SmpOwned
  <2>2. \A p \in Mine(e) : next'[p] = next[p]
    BY <1>2, <1>6, <1>7, <1>14, OwnMemory DEF TypeOK
  <2>3. twin(e) # twin(d) /\ twin(e) \in Devs
    BY <1>14 DEF twin, Devs
  <2> QED BY <1>3, <1>8, <1>11, <1>14, <2>1, <2>2, <2>3, OwnedSame, Zenon
<1>15. SmpOwned'
  <2>1. Q \cup {x} \in SUBSET Packets
    BY <1>6, <1>16, Zenon
  <2> QED BY <1>13, <1>14, <2>1, Zenon DEF SmpOwned
<1> QED BY <1>10, <1>15, Zenon DEF SmpStrong

(* dummeth_dequeue_buf takes the first packet of the receive queue, which PollLoop saw. *)
LEMMA SmpDequeue == ASSUME SmpStrong, NEW d \in Devs, dummeth_dequeue_buf(d) PROVE SmpStrong'
<1>1. PICK c \in Contexts : c = <<"poll", d>> /\ c[1] = "poll"
  BY ContextForm, Zenon
<1>2. TypeOK /\ SmpTypes
  BY Zenon DEF SmpStrong
<1>3. /\ pc[c] = "dequeue" /\ goto(c, "release") /\ UNCHANGED <<ppool, next, allocated, status, napi, load, timeouts>>
      /\ pkt' = [pkt EXCEPT ![c] = rx_queue[d]]
      /\ rx_queue' = [rx_queue EXCEPT ![d] = next[rx_queue[d]]]
      /\ n' = [n EXCEPT ![d] = @ + 1]
  BY <1>1, Zenon DEF dummeth_dequeue_buf, irq
<1>4. PICK o \in Devs : o = twin(d) /\ twin(o) = d /\ o # d /\ \A e \in Devs : e # o => e = d /\ twin(e) # d
  BY DEF twin, Devs
<1>5. rx_queue[d] # NULL /\ n[d] < Budget
  BY <1>1, <1>3, Zenon DEF SmpStrong, SmpReady
<1>6. PICK P \in SUBSET Packets, Q \in SUBSET Packets : Owned(o, P, Q)
  BY Zenon DEF SmpStrong, SmpOwned
<1>7. rx_queue[d] \in Q /\ Linked(next[rx_queue[d]], Q \ {rx_queue[d]}, next)
  BY <1>4, <1>5, <1>6, Popped, Zenon DEF Owned
<1>8. /\ pkt' \in [Contexts -> Packets \cup {NULL}] /\ pkt'[c] = rx_queue[d]
      /\ \A x \in Contexts : x # c => pkt'[x] = pkt[x]
  BY <1>2, <1>3, <1>7, Zenon DEF SmpTypes
<1>9. /\ rx_queue' \in [Devs -> Packets \cup {NULL}] /\ rx_queue'[d] = next[rx_queue[d]]
      /\ \A e \in Devs : e # d => rx_queue'[e] = rx_queue[e]
  BY <1>2, <1>3, <1>7, Zenon DEF TypeOK
<1>10. n' \in [Devs -> 0 .. Budget] /\ \A e \in Devs : e # d => n'[e] = n[e]
  BY <1>2, <1>3, <1>5, DummyEthAssumption, SMTT(30) DEF TypeOK
<1>11. /\ TypeOK' /\ SmpTypes' /\ SmpReady' /\ pc'[c] = "release"
       /\ \A x \in Contexts : x # c => pc'[x] = pc[x]
  <2>1. ppool' \in [Devs -> Packets \cup {NULL}] /\ next' \in [Packets -> Packets \cup {NULL}]
    BY <1>2, <1>3, Zenon DEF TypeOK
  <2>2. \A e \in Devs : c # <<"poll", e>> => n'[e] = n[e] /\ (rx_queue[e] # NULL => rx_queue'[e] # NULL)
    BY <1>1, <1>9, <1>10, Zenon
  <2> QED BY <1>1, <1>3, <1>8, <1>9, <1>10, <2>1, <2>2, SmpMoves, Zenon
<1>12. \A e \in Devs : Mine(e)' = Mine(e) /\ InXmit(e)' = InXmit(e) /\ (e # o => InPoll(e)' = InPoll(e))
  <2>1. \A e \in Devs : /\ <<"poll", twin(e)>> \in Contexts /\ (e # o => <<"poll", twin(e)>> # c)
                        /\ <<"xmit", e>> \in Contexts /\ <<"xmit", e>> # c
    BY <1>1, <1>4, ContextForm, Zenon
  <2> QED BY <1>3, <1>8, <1>11, <2>1, Zenon DEF Mine, InPoll, InXmit
<1>13. InPoll(o) = {} /\ InPoll(o)' = {rx_queue[d]}
  BY <1>1, <1>3, <1>4, <1>8, <1>11, Zenon DEF InPoll
<1>17. PICK h : h = rx_queue[d]
  BY Zenon
<1>14. Owned(o, P, Q \ {h})'
  <2>1. Linked(ppool'[o], P, next') /\ Linked(rx_queue'[twin(o)], Q \ {h}, next')
    BY <1>3, <1>4, <1>6, <1>7, <1>9, <1>17, ZenonT(30) DEF Owned
  <2>2. h \in Q /\ InPoll(o)' = {h} /\ InPoll(o) = {} /\ InXmit(o)' = InXmit(o) /\ Mine(o)' = Mine(o)
    BY <1>7, <1>12, <1>13, <1>17, ZenonT(30)
  <2> QED BY <1>6, <2>1, <2>2, SMTT(30) DEF Owned
<1>15. ASSUME NEW e \in Devs, e # o PROVE \E A, B \in SUBSET Packets : Owned(e, A, B)'
  <2>1. PICK A \in SUBSET Packets, B \in SUBSET Packets : Owned(e, A, B)
    BY Zenon DEF SmpStrong, SmpOwned
  <2>2. twin(e) \in Devs /\ twin(e) # d
    BY <1>4, <1>15, ContextForm, Zenon
  <2> QED BY <1>3, <1>9, <1>12, <1>15, <2>1, <2>2, OwnedSame, Zenon
<1>16. SmpOwned'
  BY <1>14, <1>15, Zenon DEF SmpOwned
<1> QED BY <1>11, <1>16, Zenon DEF SmpStrong

(* dummeth_release_buffer puts the packet back in front of the pool of its owner, the twin. *)
LEMMA SmpRelease == ASSUME SmpStrong, NEW d \in Devs, dummeth_release_buffer(d) PROVE SmpStrong'
<1>1. PICK c \in Contexts : c = <<"poll", d>> /\ c[1] = "poll"
  BY ContextForm, Zenon
<1>2. TypeOK /\ SmpTypes
  BY Zenon DEF SmpStrong
<1>4. PICK o \in Devs : o = twin(d) /\ twin(o) = d /\ o # d /\ \A e \in Devs : e # o => e = d /\ twin(e) # d
  BY DEF twin, Devs
<1>5. PICK P \in SUBSET Packets, Q \in SUBSET Packets : Owned(o, P, Q)
  BY Zenon DEF SmpStrong, SmpOwned
<1>6. pc[c] = "release" /\ InPoll(o) = {pkt[c]}
  BY <1>1, <1>4, Zenon DEF InPoll, dummeth_release_buffer
<1>7. pkt[c] \in Mine(o) /\ pkt[c] \in Packets /\ pkt[c] # NULL /\ pkt[c][1] = o /\ pkt[c] \notin P \cup Q \cup InXmit(o)
  <2>1. pkt[c] \in Mine(o) /\ pkt[c] \notin P \cup Q \cup InXmit(o)
    BY <1>5, <1>6, ZenonT(30) DEF Owned
  <2> QED BY <1>2, <2>1, OwnMemory, Zenon DEF TypeOK
<1>3. /\ goto(c, "test") /\ UNCHANGED <<rx_queue, allocated, status, napi, load, n, pkt, timeouts>>
      /\ next' = [next EXCEPT ![pkt[c]] = ppool[o]]
      /\ ppool' = [ppool EXCEPT ![o] = pkt[c]]
  BY <1>1, <1>7, ZenonT(30) DEF dummeth_release_buffer, irq
<1>8. /\ next' \in [Packets -> Packets \cup {NULL}] /\ next'[pkt[c]] = ppool[o]
      /\ \A p \in Packets : p # pkt[c] => next'[p] = next[p]
  BY <1>2, <1>3, <1>7, ZenonT(30) DEF TypeOK
<1>9. /\ ppool' \in [Devs -> Packets \cup {NULL}] /\ ppool'[o] = pkt[c]
      /\ \A e \in Devs : e # o => ppool'[e] = ppool[e]
  BY <1>2, <1>3, <1>7, Zenon DEF TypeOK
<1>10. /\ TypeOK' /\ SmpTypes' /\ SmpReady' /\ pc'[c] = "test"
       /\ \A x \in Contexts : x # c => pc'[x] = pc[x]
  <2>1. rx_queue' \in [Devs -> Packets \cup {NULL}] /\ n' \in [Devs -> 0 .. Budget]
        /\ pkt' \in [Contexts -> Packets \cup {NULL}]
    BY <1>2, <1>3, Zenon DEF TypeOK, SmpTypes
  <2> QED BY <1>1, <1>3, <1>6, <1>8, <1>9, <2>1, SmpMoves, Zenon
<1>11. \A e \in Devs : Mine(e)' = Mine(e) /\ InXmit(e)' = InXmit(e) /\ (e # o => InPoll(e)' = InPoll(e))
  <2>1. \A e \in Devs : /\ <<"poll", twin(e)>> \in Contexts /\ (e # o => <<"poll", twin(e)>> # c)
                        /\ <<"xmit", e>> \in Contexts /\ <<"xmit", e>> # c
    BY <1>1, <1>4, ContextForm, Zenon
  <2> QED BY <1>3, <1>10, <2>1, ZenonT(30) DEF Mine, InPoll, InXmit
<1>12. InPoll(o)' = {}
  BY <1>1, <1>4, <1>10, Zenon DEF InPoll
<1>16. PICK x : x = pkt[c]
  BY Zenon
<1>13. Owned(o, P \cup {x}, Q)'
  <2>1. Linked(rx_queue[twin(o)], Q, next) /\ Linked(ppool[o], P, next)
    BY <1>5, Zenon DEF Owned
  <2>2. Linked(pkt[c], P \cup {pkt[c]}, next')
    BY <1>7, <1>8, <2>1, Pushed, SMTT(30)
  <2>3. Linked(rx_queue[twin(o)], Q, next')
    BY <1>7, <1>8, <2>1, Untouched, SMTT(30)
  <2>4. Linked(ppool'[o], P \cup {x}, next') /\ Linked(rx_queue'[twin(o)], Q, next')
    BY <1>3, <1>9, <1>16, <2>2, <2>3, Zenon
  <2>5. x \notin P \cup Q \cup InXmit(o) /\ InPoll(o) = {x} /\ InPoll(o)' = {} /\ InXmit(o)' = InXmit(o) /\ Mine(o)' = Mine(o)
    BY <1>6, <1>7, <1>11, <1>12, <1>16, Zenon
  <2> QED BY <1>5, <2>4, <2>5, SMTT(30) DEF Owned
<1>14. ASSUME NEW e \in Devs, e # o PROVE \E A, B \in SUBSET Packets : Owned(e, A, B)'
  <2>1. PICK A \in SUBSET Packets, B \in SUBSET Packets : Owned(e, A, B)
    BY Zenon DEF SmpStrong, SmpOwned
  <2>2. \A p \in Mine(e) : next'[p] = next[p]
    BY <1>2, <1>7, <1>8, <1>14, OwnMemory DEF TypeOK
  <2> QED BY <1>3, <1>9, <1>11, <1>14, <2>1, <2>2, OwnedSame, Zenon
<1>15. SmpOwned'
  <2>1. P \cup {x} \in SUBSET Packets
    BY <1>7, <1>16, Zenon
  <2> QED BY <1>13, <1>14, <2>1, Zenon DEF SmpOwned
<1> QED BY <1>10, <1>15, Zenon DEF SmpStrong

(* dummeth_tx_timeout frees the pool, which is all that its chain reaches, and makes a new
   one of memory that is neither in the twin's queue nor in anybody's hands. *)
LEMMA SmpReset == ASSUME SmpStrong, NEW d \in Devs, ResetPool(d) PROVE SmpStrong'
<1>1. PICK c \in Contexts : c = <<"timeout", d>> /\ c[1] = "timeout"
  BY ContextForm, Zenon
<1>2. TypeOK /\ SmpTypes /\ allocated \in SUBSET Packets /\ timeouts \in 0 .. MaxTimeouts
  BY Zenon DEF SmpStrong, TypeOK, SmpTypes
<1>3. PICK P \in SUBSET Packets, Q \in SUBSET Packets : Owned(d, P, Q)
  BY Zenon DEF SmpStrong, SmpOwned
<1>4. Chain(ppool[d]) = P
  BY <1>3, ChainIs, Zenon DEF Owned
<1>5. PICK kept : kept = allocated \ P
  BY Zenon
<1>6. PICK fresh : fresh = FirstFree(d, kept)
  BY Zenon
<1>7. /\ pc[c] = "pool" /\ goto(c, "wake") /\ allocated' = kept \cup fresh
      /\ next' = [p \in Packets |-> IF p \in fresh THEN Below(p, fresh) ELSE next[p]]
      /\ ppool' = [ppool EXCEPT ![d] = Top(fresh)]
      /\ UNCHANGED <<rx_queue, status, napi, pkt, load, n, timeouts>>
  BY <1>1, <1>4, <1>5, <1>6, ZenonT(30) DEF ResetPool, irq
<1>8. /\ Cardinality(Mine(d)) <= PoolSize * timeouts
      /\ \A e \in Devs : Cardinality(Mine(e)) <= PoolSize * (timeouts + 1)
  BY <1>1, <1>7, Zenon DEF SmpStrong, SmpReady
<1>9. /\ fresh # {} /\ fresh \in SUBSET ({d} \X Ids)
      /\ Cardinality({p \in kept \cup fresh : p[1] = d}) <= PoolSize * (timeouts + 1)
  BY <1>2, <1>5, <1>6, <1>8, ResetMemory, ZenonT(30)
<1>10. {d} \X Ids \subseteq Packets
  BY Zenon DEF Packets, Ids
<1>11. fresh \in SUBSET Packets /\ fresh \cap kept = {} /\ \A p \in fresh : p[1] = d
  <2>1. \A p \in FirstFree(d, kept) : p \notin kept
    BY Zenon DEF FirstFree
  <2> QED BY <1>6, <1>9, <1>10, <2>1, Zenon
<1>12. Top(fresh) \in fresh /\ \A p \in fresh : Below(p, fresh) \in Packets \cup {NULL}
  BY <1>9, <1>11, TopIn, BelowIn, Zenon
<1>13. /\ ppool' \in [Devs -> Packets \cup {NULL}] /\ ppool'[d] = Top(fresh)
       /\ \A e \in Devs : e # d => ppool'[e] = ppool[e]
  BY <1>2, <1>7, <1>11, <1>12, Zenon DEF TypeOK
<1>14. /\ next' \in [Packets -> Packets \cup {NULL}]
       /\ \A p \in fresh : next'[p] = Below(p, fresh)
       /\ \A p \in Packets \ fresh : next'[p] = next[p]
  BY <1>2, <1>7, <1>11, <1>12, Zenon DEF TypeOK
<1>15. /\ Running' \subseteq Running
       /\ pc' = [pc EXCEPT ![c] = "wake"] /\ under' = [e \in Devs |-> under'[e]]
  BY <1>2, <1>7, RunsOn, Zenon
<1>16. Cardinality(Running)' <= NCpus
  BY <1>2, <1>15, CpusEnough, Zenon
<1>17. /\ pc' = [x \in Contexts |-> pc'[x]] /\ \A x \in Contexts : x # c => pc'[x] = pc[x]
       /\ pc'[c] = "wake"
  BY <1>2, <1>15, Zenon DEF SmpTypes
<1>18. TypeOK'
  <2>1. allocated' \in SUBSET Packets
    BY <1>2, <1>5, <1>7, <1>11, Zenon
  <2> QED BY <1>2, <1>7, <1>13, <1>14, <1>16, <2>1, Zenon DEF TypeOK
<1>19. SmpTypes'
  <2>1. \A x \in Contexts : /\ pc'[x] = "enqueue" => x[1] = "xmit"
                            /\ pc'[x] = "release" => x[1] = "poll"
    BY <1>2, <1>17, Zenon DEF SmpTypes
  <2> QED BY <1>2, <1>7, <1>15, <1>17, <2>1, Zenon DEF SmpTypes
<1>20. P \subseteq Mine(d) /\ Q \subseteq Mine(d) /\ Mine(d)' = {p \in kept \cup fresh : p[1] = d}
  BY <1>3, <1>7, Zenon DEF Owned, Mine
<1>21. /\ Mine(d)' = (Mine(d) \ P) \cup fresh
       /\ \A e \in Devs : e # d => Mine(e)' = Mine(e)
  <2>1. Mine(d)' = (Mine(d) \ P) \cup fresh
    BY <1>5, <1>11, <1>20, Zenon DEF Mine
  <2>2. ASSUME NEW e \in Devs, e # d PROVE Mine(e)' = Mine(e)
    BY <1>5, <1>7, <1>11, <1>20, <2>2, Zenon DEF Mine
  <2> QED BY <2>1, <2>2, Zenon
<1>22. SmpReady'
  <2> SUFFICES ASSUME NEW e \in Devs
               PROVE  /\ pc'[<<"poll", e>>] = "dequeue" => rx_queue'[e] # NULL /\ n'[e] < Budget
                      /\ Cardinality(Mine(e)') <= PoolSize * (timeouts' + 1)
                      /\ pc'[<<"timeout", e>>] \notin {"idle", "wake"} => Cardinality(Mine(e)') <= PoolSize * timeouts'
    BY Zenon DEF SmpReady
  <2>1. /\ <<"poll", e>> \in Contexts /\ <<"poll", e>> # c /\ <<"timeout", e>> \in Contexts
        /\ e # d => <<"timeout", e>> # c
    BY <1>1, ContextForm, Zenon
  <2>2. pc'[<<"poll", e>>] = "dequeue" => rx_queue'[e] # NULL /\ n'[e] < Budget
    BY <1>7, <1>17, <2>1, Zenon DEF SmpStrong, SmpReady
  <2>3. CASE e = d
    BY <1>1, <1>7, <1>9, <1>17, <1>20, <2>2, <2>3, Zenon
  <2>4. CASE e # d
    <3>1. Mine(e)' = Mine(e) /\ pc'[<<"timeout", e>>] = pc[<<"timeout", e>>] /\ timeouts' = timeouts
      BY <1>7, <1>17, <1>21, <2>1, <2>4, Zenon
    <3>2. pc[<<"timeout", e>>] \notin {"idle", "wake"} => Cardinality(Mine(e)) <= PoolSize * timeouts
      BY Zenon DEF SmpStrong, SmpReady
    <3> QED BY <1>8, <2>2, <3>1, <3>2, Zenon
  <2> QED BY <2>3, <2>4, Zenon
<1>23. \A e \in Devs : InXmit(e)' = InXmit(e) /\ InPoll(e)' = InPoll(e)
  <2>1. \A e \in Devs : /\ <<"poll", twin(e)>> \in Contexts /\ <<"poll", twin(e)>> # c
                        /\ <<"xmit", e>> \in Contexts /\ <<"xmit", e>> # c
    BY <1>1, ContextForm, Zenon
  <2> QED BY <1>7, <1>17, <2>1, Zenon DEF InPoll, InXmit
<1>24. Owned(d, fresh, Q)'
  <2>1. Linked(ppool'[d], fresh, next')
    BY <1>9, <1>13, <1>14, NewPool, Zenon
  <2>2. Mine(d) \ P \subseteq kept /\ Q \subseteq Mine(d) \ P /\ InXmit(d) \cup InPoll(d) \subseteq Mine(d) \ P
    BY <1>3, <1>5, ZenonT(30) DEF Owned, Mine
  <2>3. Linked(rx_queue[twin(d)], Q, next')
    <3>1. \A p \in Q : next'[p] = next[p]
      BY <1>11, <1>14, <2>2, Zenon
    <3> QED BY <1>3, <3>1, Untouched, Zenon DEF Owned
  <2>4. Linked(rx_queue'[twin(d)], Q, next')
    BY <1>7, <2>3, Zenon
  <2>5. /\ Mine(d)' = fresh \cup Q \cup InXmit(d) \cup InPoll(d)
        /\ fresh \cap Q = {} /\ fresh \cap (InXmit(d) \cup InPoll(d)) = {}
    BY <1>3, <1>11, <1>21, <2>2, ZenonT(30) DEF Owned
  <2> QED BY <1>3, <1>23, <2>1, <2>4, <2>5, Zenon DEF Owned
<1>25. ASSUME NEW e \in Devs, e # d PROVE \E A, B \in SUBSET Packets : Owned(e, A, B)'
  <2>1. PICK A \in SUBSET Packets, B \in SUBSET Packets : Owned(e, A, B)
    BY Zenon DEF SmpStrong, SmpOwned
  <2>2. \A p \in Mine(e) : next'[p] = next[p]
    BY <1>2, <1>11, <1>14, <1>25, OwnMemory
  <2> QED BY <1>7, <1>13, <1>21, <1>23, <1>25, <2>1, <2>2, OwnedSame, Zenon
<1>26. SmpOwned'
  BY <1>11, <1>24, <1>25, Zenon DEF SmpOwned
<1> QED BY <1>18, <1>19, <1>22, <1>26, Zenon DEF SmpStrong

(* A call of dummeth_xmit takes a free CPU, or runs on that of the poll which it answers. *)
LEMMA SmpXmit == ASSUME SmpStrong, NEW d \in Devs, dummeth_xmit(d) PROVE SmpStrong'
<1>1. PICK c \in Contexts : c = <<"xmit", d>> /\ c[1] = "xmit" /\ c[2] = d
  BY ContextForm, Zenon
<1>2. TypeOK /\ SmpTypes
  BY Zenon DEF SmpStrong
<1>3. PICK p \in Devs \cup {NULL} :
         /\ IF p = NULL THEN Cardinality(Running) < NCpus ELSE pc[<<"poll", p>>] = "release" /\ p # under[twin(d)]
         /\ under' = [under EXCEPT ![d] = p]
  BY Zenon DEF dummeth_xmit
<1>4. /\ pc[c] = "idle" /\ pc' = [pc EXCEPT ![c] = "get"]
      /\ UNCHANGED <<lists, status, napi, pkt, load, n, timeouts>>
  BY <1>1, Zenon DEF dummeth_xmit
<1>5. /\ under' = [e \in Devs |-> under'[e]] /\ \A e \in Devs : under'[e] = IF e = d THEN p ELSE under[e]
      /\ \A x \in Contexts : x # c => pc'[x] = pc[x]
  BY <1>2, <1>3, <1>4, Zenon DEF SmpTypes
<1>6. \A x \in Contexts : x # c /\ x \in Running' => x \in Running
  <2>1. \A x \in Contexts : x # c /\ x[1] = "xmit" => x[2] \in Devs /\ x[2] # d
    BY <1>1, ContextForm, Zenon
  <2> QED BY <1>5, <2>1, Zenon DEF Running
<1>7. Running' \subseteq Running \cup {c}
  BY <1>6, Zenon DEF Running
<1>8. p # NULL => Running' \subseteq Running
  <2>1. p # NULL => c \notin Running'
    BY <1>1, <1>5, Zenon DEF Running
  <2> QED BY <1>7, <2>1, Zenon
<1>9. Cardinality(Running)' <= NCpus
  BY <1>2, <1>3, <1>7, <1>8, CpusEnough, Zenon
<1>10. /\ status' \in [Devs -> SUBSET {"RX_INTR", "TX_INTR"}]
       /\ load' \in [Contexts -> SUBSET {"RX_INTR", "TX_INTR"}]
       /\ napi' \in [Devs -> {"off", "idle", "sched", "missed"}] /\ n' \in [Devs -> 0 .. Budget]
       /\ pkt' \in [Contexts -> Packets \cup {NULL}]
  BY <1>2, <1>4, Zenon DEF TypeOK, SmpTypes
<1>11. /\ pc[c] \notin {"enqueue", "release"} /\ \A e \in Devs : n'[e] = n[e]
       /\ \A x \in Contexts : pkt'[x] = pkt[x]
       /\ c[1] # "timeout" /\ \A e \in Devs : c # <<"poll", e>>
  BY <1>1, <1>4, Zenon
<1>12. PICK w : w = "get" /\ w \notin {"enqueue", "release"}
  OBVIOUS
<1>13. pc' = [pc EXCEPT ![c] = w] /\ UNCHANGED lists /\ timeouts' = timeouts
  BY <1>4, <1>12, Zenon
<1> QED BY <1>5, <1>9, <1>10, <1>11, <1>12, <1>13, SmpQuiet, Zenon

(* A poll or a watchdog starts on a CPU that is free. *)
LEMMA SmpStarts ==
  ASSUME SmpStrong, NEW d \in Devs, PollStart(d) \/ TimeoutStart(d)
  PROVE  SmpStrong'
<1>1. PICK c \in Contexts, w \in {"loop", "tx_read"} :
        /\ c = IF w = "loop" THEN <<"poll", d>> ELSE <<"timeout", d>>
        /\ pc[c] = "idle" /\ Cardinality(Running) < NCpus /\ goto(c, w)
        /\ IF w = "loop" THEN timeouts' = timeouts ELSE timeouts < MaxTimeouts /\ timeouts' = timeouts + 1
        /\ UNCHANGED <<lists, status, napi, pkt, load, n>>
  <2>1. CASE PollStart(d)
    BY <2>1, ContextForm, Zenon DEF PollStart, irq
  <2>2. CASE TimeoutStart(d)
    BY <2>2, ContextForm, Zenon DEF TimeoutStart, irq
  <2> QED BY <2>1, <2>2, Zenon
<1>2. TypeOK /\ SmpTypes
  BY Zenon DEF SmpStrong
<1>3. c[1] # "xmit" /\ (c[1] = "timeout" => w = "tx_read") /\ \A e \in Devs : c = <<"poll", e>> => w = "loop"
  BY <1>1, Zenon
<1>4. /\ pc' = [pc EXCEPT ![c] = w] /\ under' = [e \in Devs |-> under'[e]]
      /\ \A e \in Devs : under'[e] = under[e]
  BY <1>1, <1>2, <1>3, Zenon DEF goto, SmpTypes
<1>5. \A x \in Contexts : x # c => pc'[x] = pc[x]
  BY <1>2, <1>4, Zenon DEF SmpTypes
<1>6. Running' \subseteq Running \cup {c}
  BY <1>4, <1>5, ContextForm, Zenon DEF Running
<1>7. Cardinality(Running)' <= NCpus
  BY <1>1, <1>2, <1>6, CpusEnough, Zenon
<1>8. /\ status' \in [Devs -> SUBSET {"RX_INTR", "TX_INTR"}]
      /\ load' \in [Contexts -> SUBSET {"RX_INTR", "TX_INTR"}]
      /\ napi' \in [Devs -> {"off", "idle", "sched", "missed"}] /\ n' \in [Devs -> 0 .. Budget]
      /\ pkt' \in [Contexts -> Packets \cup {NULL}]
  BY <1>1, <1>2, Zenon DEF TypeOK, SmpTypes
<1>9. \/ timeouts' = timeouts
      \/ timeouts' = timeouts + 1 /\ timeouts' \in 0 .. MaxTimeouts
  BY <1>1, <1>2, DummyEthAssumption, SMTT(30) DEF SmpTypes
<1>10. c[1] = "timeout" => timeouts' = timeouts + 1
  BY <1>1, <1>3, Zenon
<1>11. pc[c] \notin {"enqueue", "release"} /\ w \notin {"enqueue", "release", "dequeue"}
       /\ \A e \in Devs : n'[e] = n[e]
  BY <1>1, Zenon
<1> QED BY <1>1, <1>4, <1>7, <1>8, <1>9, <1>10, <1>11, SmpQuiet, Zenon

(* The steps of dummeth_hw_tx *)
LEMMA SmpHwTx == ASSUME SmpStrong, NEW d \in Devs, dummeth_hw_tx(d) PROVE SmpStrong'
<1>1. PICK c \in Contexts : c = <<"xmit", d>> /\ c[1] = "xmit"
  BY ContextForm, Zenon
<1>2. TypeOK /\ SmpTypes /\ twin(d) \in Devs
  BY ContextForm, Zenon DEF SmpStrong
<1>3. CASE TestRxInt(d) \/ TestLockup(d)
  <2>1. PICK w \in {"rx_read", "tx_read", "idle", "tx_irq"} :
          /\ pc[c] \in {"rx", "lockup"} /\ goto(c, w)
          /\ UNCHANGED <<lists, status, napi, pkt, load, n, timeouts>>
    <3>1. CASE TestRxInt(d)
      BY <1>1, <3>1, Zenon DEF TestRxInt, irq
    <3>2. CASE TestLockup(d)
      BY <1>1, <3>2, Zenon DEF TestLockup, irq
    <3> QED BY <1>3, <3>1, <3>2, Zenon
  <2>2. /\ status' \in [Devs -> SUBSET {"RX_INTR", "TX_INTR"}]
        /\ load' \in [Contexts -> SUBSET {"RX_INTR", "TX_INTR"}]
        /\ napi' \in [Devs -> {"off", "idle", "sched", "missed"}] /\ n' \in [Devs -> 0 .. Budget]
        /\ pkt' \in [Contexts -> Packets \cup {NULL}]
    BY <1>2, <2>1, Zenon DEF TypeOK, SmpTypes
  <2>3. pc[c] \notin {"idle", "enqueue", "release"} /\ w \notin {"enqueue", "release", "dequeue"}
    BY <2>1, Zenon
  <2> QED BY <1>1, <2>1, <2>2, <2>3, SmpGoesOn, Zenon
<1>4. CASE ReadStatus(c, twin(d), "rx_read", "rx_write") \/ ReadStatus(c, d, "tx_read", "tx_write")
  BY <1>2, <1>4, SmpRead, Zenon
<1>5. CASE WriteStatus(c, twin(d), "RX_INTR", "rx_write", "rx_irq") \/ WriteStatus(c, d, "TX_INTR", "tx_write", "lockup")
  BY <1>2, <1>5, SmpWrite
<1>6. CASE Interrupt(c, twin(d), "rx_irq", "tx_read") \/ Interrupt(c, d, "tx_irq", "idle")
  BY <1>2, <1>6, SmpInterrupt, Zenon
<1> QED BY <1>1, <1>3, <1>4, <1>5, <1>6, SmpGet, SmpEnqueue, Zenon DEF dummeth_hw_tx

(* The steps of dummeth_poll *)
LEMMA SmpPoll == ASSUME SmpStrong, NEW d \in Devs, dummeth_poll(d) PROVE SmpStrong'
<1>1. PICK c \in Contexts : c = <<"poll", d>> /\ c[1] = "poll" /\ \A e \in Devs : c = <<"poll", e>> => e = d
  BY ContextForm, Zenon
<1>2. TypeOK /\ SmpTypes /\ Budget \in Nat
  BY DummyEthAssumption, Zenon DEF SmpStrong
<1>3. ASSUME PollLoop(d) \/ TestQueue(d) \/ WakeQueue(d) \/ PollComplete(d) PROVE SmpStrong'
  <2>1. PICK w \in {"dequeue", "complete", "idle", "wake", "loop"} :
          /\ pc[c] \in {"loop", "test", "wake", "complete"} /\ goto(c, w)
          /\ UNCHANGED <<lists, status, load, timeouts>>
          /\ pkt' = pkt \/ pkt' = [pkt EXCEPT ![c] = NULL] \/ pkt' = [pkt EXCEPT ![c] = pkt[c]]
          /\ n' = n \/ n' = [n EXCEPT ![d] = 0]
          /\ w = "dequeue" => rx_queue[d] # NULL /\ n' = n /\ n[d] < Budget
    <3>1. CASE PollLoop(d)
      BY <1>1, <3>1, Zenon DEF PollLoop, irq
    <3>2. CASE TestQueue(d)
      BY <1>1, <3>2, Zenon DEF TestQueue, irq
    <3>3. CASE WakeQueue(d)
      BY <1>1, <3>3, Zenon DEF WakeQueue, irq
    <3>4. CASE PollComplete(d)
      BY <1>1, <3>4, Zenon DEF PollComplete
    <3> QED BY <1>3, <3>1, <3>2, <3>3, <3>4, Zenon
  <2>2. napi' \in [Devs -> {"off", "idle", "sched", "missed"}]
    BY <1>2, <1>3, Zenon DEF TypeOK, PollLoop, TestQueue, WakeQueue, PollComplete, irq
  <2>3. /\ status' \in [Devs -> SUBSET {"RX_INTR", "TX_INTR"}]
        /\ load' \in [Contexts -> SUBSET {"RX_INTR", "TX_INTR"}]
    BY <1>2, <2>1, Zenon DEF TypeOK, SmpTypes
  <2>4. n' \in [Devs -> 0 .. Budget] /\ \A e \in Devs : e # d => n'[e] = n[e]
    BY <1>2, <2>1 DEF TypeOK
  <2>5. /\ pkt' \in [Contexts -> Packets \cup {NULL}]
        /\ \A x \in Contexts : x # c => pkt'[x] = pkt[x]
    BY <1>2, <2>1, Zenon DEF SmpTypes
  <2>6. /\ \A e \in Devs : <<"poll", e>> # c => n'[e] = n[e]
        /\ \A e \in Devs : c = <<"poll", e>> /\ w = "dequeue" => rx_queue[e] # NULL /\ n'[e] < Budget
    BY <1>1, <2>1, <2>4, Zenon
  <2>7. pc[c] \notin {"idle", "enqueue", "release"} /\ w \notin {"enqueue", "release"} /\ c[1] # "timeout"
    BY <1>1, <2>1, Zenon
  <2> QED BY <2>1, <2>2, <2>3, <2>4, <2>5, <2>6, <2>7, SmpGoesOn, Zenon
<1> QED BY <1>3, SmpDequeue, SmpRelease, Zenon DEF dummeth_poll

(* The steps of dummeth_tx_timeout *)
LEMMA SmpTimeout == ASSUME SmpStrong, NEW d \in Devs, dummeth_tx_timeout(d) PROVE SmpStrong'
<1>1. PICK c \in Contexts : c = <<"timeout", d>> /\ c[1] = "timeout"
  BY ContextForm, Zenon
<1>2. TypeOK /\ SmpTypes
  BY Zenon DEF SmpStrong
<1>3. CASE TimeoutEnd(d)
  <2>1. pc[c] = "wake" /\ goto(c, "idle") /\ UNCHANGED <<lists, status, napi, pkt, load, n, timeouts>>
    BY <1>1, <1>3, Zenon DEF TimeoutEnd, irq
  <2>2. /\ status' \in [Devs -> SUBSET {"RX_INTR", "TX_INTR"}]
        /\ load' \in [Contexts -> SUBSET {"RX_INTR", "TX_INTR"}]
        /\ napi' \in [Devs -> {"off", "idle", "sched", "missed"}] /\ n' \in [Devs -> 0 .. Budget]
        /\ pkt' \in [Contexts -> Packets \cup {NULL}]
    BY <1>2, <2>1, Zenon DEF TypeOK, SmpTypes
  <2> QED BY <1>1, <2>1, <2>2, SmpGoesOn, Zenon
<1>4. CASE ReadStatus(c, d, "tx_read", "tx_write")
  BY <1>4, SmpRead, Zenon
<1>5. CASE WriteStatus(c, d, "TX_INTR", "tx_write", "tx_irq")
  BY <1>5, SmpWrite
<1>6. CASE Interrupt(c, d, "tx_irq", "pool")
  BY <1>6, SmpInterrupt, Zenon
<1> QED BY <1>1, <1>3, <1>4, <1>5, <1>6, SmpReset, Zenon DEF dummeth_tx_timeout

(* dummeth_open and dummeth_stop touch no packet, and so does a step that changes nothing. *)
LEMMA SmpOpenStop ==
  ASSUME SmpStrong, UNCHANGED <<lists, status, local, timeouts>>,
         napi' \in [Devs -> {"off", "idle", "sched", "missed"}]
  PROVE  SmpStrong'
<1>1. UNCHANGED <<ppool, rx_queue, next, allocated, status, pc, pkt, load, n, under, timeouts>>
  BY Zenon DEF lists, local
<1>2. TypeOK'
  BY <1>1, Zenon DEF SmpStrong, TypeOK, Running
<1>3. SmpTypes'
  BY <1>1, Zenon DEF SmpStrong, SmpTypes
<1>4. SmpReady'
  BY <1>1, Zenon DEF SmpStrong, SmpReady, Mine
<1>5. SmpOwned'
  BY <1>1, Zenon DEF SmpStrong, SmpOwned, Owned, Mine, InXmit, InPoll
<1> QED BY <1>2, <1>3, <1>4, <1>5, Zenon DEF SmpStrong

(* Both devices start with a pool of their own memory and empty queues. *)
LEMMA SmpStart == InitWith(FALSE) => SmpStrong
<1> SUFFICES ASSUME InitWith(FALSE) PROVE SmpStrong
  BY Zenon
<1>1. PICK pool : pool = [d \in Devs |-> FirstFree(d, {})]
  BY Zenon
<1>2. \A d \in Devs : /\ pool[d] \in SUBSET ({d} \X Ids) /\ pool[d] # {}
                      /\ IsFiniteSet(pool[d]) /\ Cardinality(pool[d]) <= PoolSize
  <2>1. 1 \in Ids
    BY PoolNumbers DEF Ids
  <2> QED BY <1>1, <2>1, FirstFreeIn, Zenon
<1>3. \A d \in Devs : /\ Top(pool[d]) \in pool[d]
                      /\ \A p \in pool[d] : Below(p, pool[d]) \in pool[d] \cup {NULL}
  BY <1>2, TopIn, BelowIn, Zenon
<1>4. \A d \in Devs : {d} \X Ids \subseteq Packets /\ \A p \in {d} \X Ids : p[1] = d
  BY Zenon DEF Packets, Ids
<1>5. 0 \in Devs /\ 1 \in Devs /\ \A p \in Packets : p[1] \in Devs
  BY Zenon DEF Devs, Packets
<1>6. /\ allocated = pool[0] \cup pool[1] /\ ppool = [d \in Devs |-> Top(pool[d])]
      /\ next = [p \in Packets |-> IF p \in pool[p[1]] THEN Below(p, pool[p[1]]) ELSE NULL]
  <2>1. /\ allocated = FirstFree(0, {}) \cup FirstFree(1, {})
        /\ ppool = [d \in Devs |-> Top(FirstFree(d, {}))]
        /\ next = [p \in Packets |-> IF p \in FirstFree(p[1], {}) THEN Below(p, FirstFree(p[1], {})) ELSE NULL]
    BY <1>5, Zenon DEF InitWith
  <2> QED BY <1>1, <1>5, <2>1, Zenon
<1>7. /\ rx_queue = [d \in Devs |-> NULL] /\ status = [d \in Devs |-> {}] /\ napi = [d \in Devs |-> "off"]
      /\ pc = [c \in Contexts |-> "idle"] /\ pkt = [c \in Contexts |-> NULL] /\ load = [c \in Contexts |-> {}]
      /\ n = [d \in Devs |-> 0] /\ under = [d \in Devs |-> NULL] /\ timeouts = 0
  BY Zenon DEF InitWith
<1>8. TypeOK
  <2>1. allocated \subseteq Packets
    BY <1>2, <1>4, <1>5, <1>6, Zenon
  <2>2. ppool \in [Devs -> Packets \cup {NULL}]
    BY <1>2, <1>3, <1>4, <1>6, Zenon
  <2>3. next \in [Packets -> Packets \cup {NULL}]
    <3>1. \A p \in Packets : p \in pool[p[1]] => Below(p, pool[p[1]]) \in Packets \cup {NULL}
      BY <1>2, <1>3, <1>4, <1>5, Zenon
    <3> QED BY <1>6, <3>1, Zenon
  <2>4. Cardinality(Running) <= NCpus
    <3>1. Running = {}
      BY <1>7, Zenon DEF Running
    <3> QED BY <3>1, FS_EmptySet, DummyEthAssumption
  <2>5. n \in [Devs -> 0 .. Budget]
    BY <1>7, DummyEthAssumption
  <2> QED BY <1>7, <2>1, <2>2, <2>3, <2>4, <2>5, Zenon DEF TypeOK
<1>9. SmpTypes
  BY <1>7, DummyEthAssumption DEF SmpTypes
<1>10. \A d \in Devs : Mine(d) = pool[d]
  BY <1>2, <1>4, <1>5, <1>6, Zenon DEF Mine, Devs
<1>11. SmpReady
  <2>1. PoolSize * (timeouts + 1) = PoolSize
    BY <1>7, DummyEthAssumption
  <2>2. \A d \in Devs : pc[<<"poll", d>>] = "idle" /\ pc[<<"timeout", d>>] = "idle"
    BY <1>7, ContextForm, Zenon
  <2> QED BY <1>2, <1>10, <2>1, <2>2, Zenon DEF SmpReady
<1>12. SmpOwned
  <2> SUFFICES ASSUME NEW d \in Devs PROVE Owned(d, pool[d], {}) /\ pool[d] \in SUBSET Packets
    BY Zenon DEF SmpOwned
  <2>1. InXmit(d) = {} /\ InPoll(d) = {} /\ rx_queue[twin(d)] = NULL
    BY <1>7, ContextForm, Zenon DEF InXmit, InPoll
  <2>2. pool[d] \in SUBSET Packets
    BY <1>2, <1>4, Zenon
  <2>3. Linked(ppool[d], pool[d], next)
    <3>1. \A p \in pool[d] : next[p] = Below(p, pool[d])
      BY <1>2, <1>4, <1>6, Zenon
    <3> QED BY <1>2, <1>6, <3>1, NewPool, Zenon
  <2>4. Linked(NULL, {}, next)
    <3>1. [p \in Packets |-> 0] \in [Packets -> Nat]
      BY Zenon
    <3> QED BY <3>1, Zenon DEF Linked, Ranked
  <2> QED BY <1>10, <2>1, <2>2, <2>3, <2>4, Zenon DEF Owned
<1> QED BY <1>8, <1>9, <1>11, <1>12, Zenon DEF SmpStrong

(* Where the packets of each device are decides in how many places each packet is. *)
LEMMA SmpIsEnough == SmpStrong => SmpInv
<1> SUFFICES ASSUME SmpStrong PROVE PacketsInOnePlace
  BY Zenon DEF SmpInv, SmpStrong
<1>1. TypeOK /\ SmpTypes /\ allocated \in SUBSET Packets
  BY Zenon DEF SmpStrong, TypeOK
<1>2. \A d \in Devs : twin(d) \in Devs /\ twin(twin(d)) = d /\ \A e \in Devs : twin(e) = d <=> e = twin(d)
  BY SMTT(30) DEF twin, Devs
<1>3. \A d \in Devs : Owned(d, Chain(ppool[d]), Chain(rx_queue[twin(d)]))
  <2> TAKE d \in Devs
  <2>1. PICK P \in SUBSET Packets, Q \in SUBSET Packets : Owned(d, P, Q)
    BY Zenon DEF SmpStrong, SmpOwned
  <2>2. Linked(ppool[d], P, next) /\ Linked(rx_queue[twin(d)], Q, next)
    BY <2>1, Zenon DEF Owned
  <2>3. Chain(ppool[d]) = P
    BY <2>2, ChainIs, Zenon
  <2>4. Chain(rx_queue[twin(d)]) = Q
    BY <2>2, ChainIs, SMTT(30)
  <2> QED BY <2>1, <2>3, <2>4, ZenonT(30)
<1>4. \A d \in Devs : /\ \A p \in Chain(ppool[d]) : p[1] = d
                      /\ \A p \in Chain(rx_queue[d]) : p[1] = twin(d)
  <2>1. \A d \in Devs : /\ Chain(ppool[d]) \subseteq Mine(d)
                        /\ Chain(rx_queue[twin(d)]) \subseteq Mine(d)
    BY <1>3 DEF Owned
  <2>2. \A d \in Devs : Chain(rx_queue[d]) \subseteq Mine(twin(d))
    BY <1>2, <2>1, Zenon
  <2> QED BY <1>1, <1>2, <2>1, <2>2, OwnMemory, Zenon
<1>5. ASSUME NEW p \in Packets PROVE Cardinality(Places(p)) = IF p \in allocated THEN 1 ELSE 0
  <2>1. PICK d \in Devs : d = p[1]
    BY Zenon DEF Packets
  <2>2. Owned(d, Chain(ppool[d]), Chain(rx_queue[twin(d)])) /\ (p \in allocated <=> p \in Mine(d))
    BY <1>3, <2>1, Zenon DEF Mine
  <2> DEFINE A == {<<"pool", e>> : e \in {f \in Devs : p \in Chain(ppool[f])}}
             B == {<<"rx", e>> : e \in {f \in Devs : p \in Chain(rx_queue[f])}}
             D == {c \in Contexts : pkt[c] = p /\ pc[c] \in {"enqueue", "release"}}
  <2>3. A = IF p \in Chain(ppool[d]) THEN {<<"pool", d>>} ELSE {}
    <3>1. {f \in Devs : p \in Chain(ppool[f])} = IF p \in Chain(ppool[d]) THEN {d} ELSE {}
      BY <1>4, <2>1, Zenon
    <3> QED BY <3>1, Zenon
  <2>4. B = IF p \in Chain(rx_queue[twin(d)]) THEN {<<"rx", twin(d)>>} ELSE {}
    <3>1. {f \in Devs : p \in Chain(rx_queue[f])} = IF p \in Chain(rx_queue[twin(d)]) THEN {twin(d)} ELSE {}
      BY <1>2, <1>4, <2>1, Zenon
    <3> QED BY <3>1, Zenon
  <2>5. \A e \in Devs : e # d => p \notin InXmit(e) /\ p \notin InPoll(e)
    <3>1. \A e \in Devs : InXmit(e) \subseteq Mine(e) /\ InPoll(e) \subseteq Mine(e)
      BY <1>3 DEF Owned
    <3> QED BY <1>1, <2>1, <3>1, OwnMemory, Zenon
  <2>6. D = (IF p \in InXmit(d) THEN {<<"xmit", d>>} ELSE {}) \cup (IF p \in InPoll(d) THEN {<<"poll", twin(d)>>} ELSE {})
    <3>1. ASSUME NEW c \in Contexts, pkt[c] = p, pc[c] \in {"enqueue", "release"}
          PROVE  \/ c = <<"xmit", d>> /\ p \in InXmit(d)
                 \/ c = <<"poll", twin(d)>> /\ p \in InPoll(d)
      <4>1. PICK f \in Devs : c = <<c[1], f>>
        BY ContextForm, Zenon
      <4>2. CASE pc[c] = "enqueue"
        <5>1. c = <<"xmit", f>>
          BY <1>1, <4>1, <4>2, Zenon DEF SmpTypes
        <5>2. p \in InXmit(f)
          BY <3>1, <4>2, <5>1, Zenon DEF InXmit
        <5>3. f = d
          BY <2>5, <4>1, <5>2, Zenon
        <5> QED BY <5>1, <5>2, <5>3, Zenon
      <4>3. CASE pc[c] = "release"
        <5>1. c = <<"poll", f>>
          BY <1>1, <4>1, <4>3, Zenon DEF SmpTypes
        <5>2. PICK e \in Devs : twin(e) = f /\ e = twin(f)
          BY <1>2, <4>1, Zenon
        <5>3. p \in InPoll(e)
          BY <3>1, <4>3, <5>1, <5>2, Zenon DEF InPoll
        <5>4. e = d
          BY <2>5, <5>3, Zenon
        <5> QED BY <5>1, <5>2, <5>3, <5>4, Zenon
      <4> QED BY <3>1, <4>2, <4>3, Zenon
    <3>2. p \in InXmit(d) => <<"xmit", d>> \in D
      BY ContextForm, Zenon DEF InXmit
    <3>3. p \in InPoll(d) => <<"poll", twin(d)>> \in D
      BY ContextForm, ZenonT(30) DEF InPoll
    <3> QED BY <3>1, <3>2, <3>3, Zenon
  <2>7. Places(p) = A \cup B \cup D
    BY Zenon DEF Places
  <2> HIDE DEF A, B, D
  <2>8. CASE p \in allocated
    <3>1. /\ p \in Chain(ppool[d]) \cup Chain(rx_queue[twin(d)]) \cup InXmit(d) \cup InPoll(d)
          /\ p \in Chain(ppool[d]) => p \notin Chain(rx_queue[twin(d)]) \cup InXmit(d) \cup InPoll(d)
          /\ p \in Chain(rx_queue[twin(d)]) => p \notin InXmit(d) \cup InPoll(d)
          /\ p \in InXmit(d) => p \notin InPoll(d)
      BY <2>2, <2>8, Zenon DEF Owned
    <3>2. CASE p \in Chain(ppool[d])
      <4>1. \E x : Places(p) = {x}
        BY <2>3, <2>4, <2>6, <2>7, <3>1, <3>2, Zenon
      <4> QED BY <2>8, <4>1, FS_Singleton, Zenon
    <3>3. CASE p \in Chain(rx_queue[twin(d)])
      <4>1. \E x : Places(p) = {x}
        BY <2>3, <2>4, <2>6, <2>7, <3>1, <3>3, Zenon
      <4> QED BY <2>8, <4>1, FS_Singleton, Zenon
    <3>4. CASE p \in InXmit(d)
      <4>1. \E x : Places(p) = {x}
        BY <2>3, <2>4, <2>6, <2>7, <3>1, <3>4, Zenon
      <4> QED BY <2>8, <4>1, FS_Singleton, Zenon
    <3>5. CASE p \in InPoll(d)
      <4>1. \E x : Places(p) = {x}
        BY <2>3, <2>4, <2>6, <2>7, <3>1, <3>5, Zenon
      <4> QED BY <2>8, <4>1, FS_Singleton, Zenon
    <3> QED BY <2>8, <3>1, <3>2, <3>3, <3>4, <3>5, Zenon
  <2>9. CASE p \notin allocated
    <3>1. Places(p) = {}
      BY <2>2, <2>3, <2>4, <2>6, <2>7, <2>9, Zenon DEF Owned
    <3> QED BY <2>9, <3>1, FS_EmptySet, Zenon
  <2> QED BY <2>8, <2>9, Zenon
<1> QED BY <1>4, <1>5, Zenon DEF PacketsInOnePlace

(***************************************************************************)
(* On any number of CPUs, with devices going up and down, dropped           *)
(* interrupts and watchdog calls, a packet that is allocated is in exactly  *)
(* one of the pool of its device, the twin's receive queue and the hands of *)
(* one context, and freed memory is in none: the watchdog frees the pool    *)
(* while packets are in flight, and no list loses or shares a packet.       *)
(***************************************************************************)
THEOREM PacketsStayInOnePlace == Spec => []SmpInv
<1>1. SmpStrong /\ [Next]_vars => SmpStrong'
  <2> SUFFICES ASSUME SmpStrong, [Next]_vars PROVE SmpStrong'
    BY Zenon
  <2>1. CASE Traffic
    BY <2>1, SmpXmit, SmpHwTx, SmpStarts, SmpPoll, SmpTimeout, Zenon DEF Traffic
  <2>2. ASSUME NEW d \in Devs, dummeth_open(d) \/ dummeth_stop(d) PROVE SmpStrong'
    <3>1. UNCHANGED <<lists, status, local, timeouts>>
      BY <2>2, Zenon DEF dummeth_open, dummeth_stop
    <3>2. napi' \in [Devs -> {"off", "idle", "sched", "missed"}]
      BY <2>2, Zenon DEF dummeth_open, dummeth_stop, SmpStrong, TypeOK
    <3> QED BY <3>1, <3>2, SmpOpenStop, Zenon
  <2>3. CASE UNCHANGED vars
    <3>1. UNCHANGED <<lists, status, local, timeouts>> /\ napi' = napi
      BY <2>3, Zenon DEF vars, irq
    <3> QED BY <3>1, SmpOpenStop, Zenon DEF SmpStrong, TypeOK
  <2> QED BY <2>1, <2>2, <2>3, Zenon DEF Next
<1> QED BY <1>1, SmpStart, SmpIsEnough, PTL DEF Spec

=============================================================================
