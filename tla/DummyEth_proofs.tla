----------------------------- MODULE DummyEth_proofs -----------------------------
(***************************************************************************)
(* dummeth for every size of the pool, every budget and every number of     *)
(* watchdog calls: receive interrupts and polls on any number of CPUs, and  *)
(* what the driver guarantees on one.                                       *)
(***************************************************************************)
EXTENDS DummyEth, FiniteSetTheorems, WellFoundedInduction, TLAPS

(* a poll runs only while NAPI has it scheduled *)
Polling ==
  /\ rx_int_enabled \in [Devs -> BOOLEAN]
  /\ napi \in [Devs -> {"idle", "sched", "missed"}]
  /\ pc = [c \in Contexts |-> pc[c]]
  /\ \A d \in Devs : pc[<<"poll", d>>] # "idle" => napi[d] \in {"sched", "missed"}
  /\ IntsOffOnlyWhilePolling

(* A step of a context that starts no poll and leaves the interrupts and NAPI alone
   keeps polls and interrupts together. *)
LEMMA GotoPolling ==
  ASSUME NEW c \in Contexts, NEW w, Polling, pc' = [pc EXCEPT ![c] = w],
         UNCHANGED <<rx_int_enabled, napi>>, c[1] # "poll" \/ pc[c] # "idle"
  PROVE  Polling'
<1>1. /\ pc' = [x \in Contexts |-> pc'[x]]
      /\ \A d \in Devs : pc'[<<"poll", d>>] # "idle" => pc[<<"poll", d>>] # "idle"
  BY Zenon DEF Polling, Contexts
<1> QED BY <1>1, Zenon DEF Polling, IntsOffOnlyWhilePolling

(* dummeth_napi_interrupt turns receive interrupts off only if it schedules the poll. *)
LEMMA InterruptPolling ==
  ASSUME NEW c \in Contexts, NEW d \in Devs, NEW here, NEW there,
         Interrupt(c, d, here, there), Polling, c[1] # "poll"
  PROVE  Polling'
<1>1. /\ napi' \in [Devs -> {"idle", "sched", "missed"}]
      /\ \A e \in Devs : napi[e] \in {"sched", "missed"} => napi'[e] \in {"sched", "missed"}
  BY Zenon DEF Interrupt, dummeth_napi_interrupt, napi_schedule, Polling
<1>2. /\ rx_int_enabled' \in [Devs -> BOOLEAN]
      /\ \A e \in Devs : ~rx_int_enabled'[e] => ~rx_int_enabled[e] \/ napi'[e] \in {"sched", "missed"}
  BY Zenon DEF Interrupt, dummeth_napi_interrupt, napi_schedule, Polling
<1>3. /\ pc' = [x \in Contexts |-> pc'[x]]
      /\ \A e \in Devs : pc'[<<"poll", e>>] = pc[<<"poll", e>>]
  BY Zenon DEF Interrupt, goto, Polling, Contexts
<1> QED BY <1>1, <1>2, <1>3, Zenon DEF Polling, IntsOffOnlyWhilePolling

(***************************************************************************)
(* Receive interrupts are off only while a poll is scheduled, on any number *)
(* of CPUs: napi_complete_done() and dummeth_rx_ints() at the end of        *)
(* dummeth_poll undo what dummeth_napi_interrupt did, so that a packet that *)
(* comes with interrupts off is always going to be polled for.              *)
(***************************************************************************)
THEOREM PollsTurnInterruptsOn == UpSpec => []IntsOffOnlyWhilePolling
<1>1. InitWith(TRUE) => Polling
  BY DEF InitWith, Polling, IntsOffOnlyWhilePolling, Contexts, Devs
<1>2. Polling /\ [Traffic]_vars => Polling'
  <2> SUFFICES ASSUME Polling, [Traffic]_vars PROVE Polling'
    BY Zenon
  <2>0. \A d \in Devs : twin(d) \in Devs /\ \A k \in {"xmit", "poll", "timeout"} : <<k, d>> \in Contexts
    BY DEF twin, Devs, Contexts
  <2>1. ASSUME NEW d \in Devs, dummeth_xmit(d) PROVE Polling'
    BY <2>1, Zenon DEF dummeth_xmit, Polling, IntsOffOnlyWhilePolling, Contexts
  <2>2. ASSUME NEW d \in Devs, dummeth_hw_tx(d) PROVE Polling'
    <3>1. PICK c \in Contexts : c = <<"xmit", d>>
      BY <2>0, Zenon
    <3>0. c[1] # "poll" /\ twin(d) \in Devs
      BY <3>1, <2>0, Zenon
    <3>2. CASE dummeth_get_tx_buffer(d)
      <4>1. /\ pc' = [pc EXCEPT ![c] = "idle"] \/ pc' = [pc EXCEPT ![c] = "enqueue"]
            /\ pc[c] # "idle" /\ UNCHANGED <<rx_int_enabled, napi>>
        BY <3>1, <3>2, Zenon DEF goto, dummeth_get_tx_buffer, irq
      <4> QED BY <4>1, <3>0, GotoPolling, Zenon
    <3>3. CASE dummeth_enqueue_buf(d)
      <4>1. /\ pc' = [pc EXCEPT ![c] = "rx"]
            /\ pc[c] # "idle" /\ UNCHANGED <<rx_int_enabled, napi>>
        BY <3>1, <3>3, Zenon DEF goto, dummeth_enqueue_buf, irq
      <4> QED BY <4>1, <3>0, GotoPolling, Zenon
    <3>4. CASE TestRxInt(d)
      <4>1. /\ pc' = [pc EXCEPT ![c] = IF rx_int_enabled[twin(d)] THEN "rx_read" ELSE "tx_read"]
            /\ pc[c] # "idle" /\ UNCHANGED <<rx_int_enabled, napi>>
        BY <3>1, <3>4, Zenon DEF goto, TestRxInt, irq
      <4> QED BY <4>1, <3>0, GotoPolling, Zenon
    <3>5. CASE \/ ReadStatus(c, twin(d), "rx_read", "rx_write")
               \/ ReadStatus(c, d, "tx_read", "tx_write")
      <4>1. /\ pc' = [pc EXCEPT ![c] = "rx_write"] \/ pc' = [pc EXCEPT ![c] = "tx_write"]
            /\ pc[c] # "idle" /\ UNCHANGED <<rx_int_enabled, napi>>
        BY <3>1, <3>5, Zenon DEF goto, ReadStatus, irq
      <4> QED BY <4>1, <3>0, GotoPolling, Zenon
    <3>6. CASE \/ WriteStatus(c, twin(d), "RX_INTR", "rx_write", "rx_irq")
               \/ WriteStatus(c, d, "TX_INTR", "tx_write", "lockup")
      <4>1. /\ pc' = [pc EXCEPT ![c] = "rx_irq"] \/ pc' = [pc EXCEPT ![c] = "lockup"] \/ pc' = [pc EXCEPT ![c] = "tx_irq"]
            /\ pc[c] # "idle" /\ UNCHANGED <<rx_int_enabled, napi>>
        BY <3>1, <3>6, Zenon DEF goto, WriteStatus
      <4> QED BY <4>1, <3>0, GotoPolling, Zenon
    <3>7. CASE TestLockup(d)
      <4>1. /\ pc' = [pc EXCEPT ![c] = "idle"] \/ pc' = [pc EXCEPT ![c] = "tx_irq"]
            /\ pc[c] # "idle" /\ UNCHANGED <<rx_int_enabled, napi>>
        BY <3>1, <3>7, Zenon DEF goto, TestLockup, irq
      <4> QED BY <4>1, <3>0, GotoPolling, Zenon
    <3>8. CASE Interrupt(c, twin(d), "rx_irq", "tx_read") \/ Interrupt(c, d, "tx_irq", "idle")
      BY <3>0, <3>8, InterruptPolling, Zenon
    <3> QED BY <2>2, <3>2, <3>3, <3>4, <3>5, <3>6, <3>7, <3>8, <3>1, Zenon DEF dummeth_hw_tx
  <2>3. ASSUME NEW d \in Devs, PollStart(d) PROVE Polling'
    BY <2>3, <2>0, Zenon DEF PollStart, goto, irq, Polling, IntsOffOnlyWhilePolling, Contexts
  <2>4. ASSUME NEW d \in Devs, dummeth_poll(d) PROVE Polling'
    <3>1. PICK c \in Contexts : c = <<"poll", d>>
      BY <2>0, Zenon
    <3>0. TRUE
      BY <3>1, <2>0, Zenon
    <3>2. CASE PollLoop(d)
      <4>1. /\ pc' = [pc EXCEPT ![c] = "dequeue"] \/ pc' = [pc EXCEPT ![c] = "complete"] \/ pc' = [pc EXCEPT ![c] = "idle"]
            /\ pc[c] # "idle" /\ UNCHANGED <<rx_int_enabled, napi>>
        BY <3>1, <3>2, Zenon DEF goto, PollLoop, irq
      <4> QED BY <4>1, <3>0, GotoPolling, Zenon
    <3>3. CASE dummeth_dequeue_buf(d)
      <4>1. /\ pc' = [pc EXCEPT ![c] = "release"]
            /\ pc[c] # "idle" /\ UNCHANGED <<rx_int_enabled, napi>>
        BY <3>1, <3>3, Zenon DEF goto, dummeth_dequeue_buf, irq
      <4> QED BY <4>1, <3>0, GotoPolling, Zenon
    <3>4. CASE dummeth_release_buffer(d)
      <4>1. /\ pc' = [pc EXCEPT ![c] = "test"]
            /\ pc[c] # "idle" /\ UNCHANGED <<rx_int_enabled, napi>>
        BY <3>1, <3>4, Zenon DEF goto, dummeth_release_buffer, irq
      <4> QED BY <4>1, <3>0, GotoPolling, Zenon
    <3>5. CASE TestQueue(d)
      <4>1. /\ pc' = [pc EXCEPT ![c] = "wake"] \/ pc' = [pc EXCEPT ![c] = "loop"]
            /\ pc[c] # "idle" /\ UNCHANGED <<rx_int_enabled, napi>>
        BY <3>1, <3>5, Zenon DEF goto, TestQueue, irq
      <4> QED BY <4>1, <3>0, GotoPolling, Zenon
    <3>6. CASE WakeQueue(d)
      <4>1. /\ pc' = [pc EXCEPT ![c] = "loop"]
            /\ pc[c] # "idle" /\ UNCHANGED <<rx_int_enabled, napi>>
        BY <3>1, <3>6, Zenon DEF goto, WakeQueue, irq
      <4> QED BY <4>1, <3>0, GotoPolling, Zenon
    <3>7. CASE PollComplete(d)
      BY <3>7, <2>0, Zenon DEF PollComplete, goto, Polling, IntsOffOnlyWhilePolling, Contexts
    <3> QED BY <2>4, <3>2, <3>3, <3>4, <3>5, <3>6, <3>7, Zenon DEF dummeth_poll
  <2>5. ASSUME NEW d \in Devs, TimeoutStart(d) PROVE Polling'
    <3>1. <<"timeout", d>> \in Contexts
      BY <2>0, Zenon
    <3>2. pc' = [pc EXCEPT ![<<"timeout", d>>] = "tx_read"] /\ UNCHANGED <<rx_int_enabled, napi>>
      BY <2>5, Zenon DEF goto, TimeoutStart, irq
    <3> QED BY <3>1, <3>2, GotoPolling, Zenon
  <2>6. ASSUME NEW d \in Devs, dummeth_tx_timeout(d) PROVE Polling'
    <3>1. PICK c \in Contexts : c = <<"timeout", d>>
      BY <2>0, Zenon
    <3>0. c[1] # "poll"
      BY <3>1, <2>0, Zenon
    <3>2. CASE ReadStatus(c, d, "tx_read", "tx_write")
      <4>1. /\ pc' = [pc EXCEPT ![c] = "rx_write"] \/ pc' = [pc EXCEPT ![c] = "tx_write"]
            /\ pc[c] # "idle" /\ UNCHANGED <<rx_int_enabled, napi>>
        BY <3>1, <3>2, Zenon DEF goto, ReadStatus, irq
      <4> QED BY <4>1, <3>0, GotoPolling, Zenon
    <3>3. CASE WriteStatus(c, d, "TX_INTR", "tx_write", "tx_irq")
      <4>1. /\ pc' = [pc EXCEPT ![c] = "rx_irq"] \/ pc' = [pc EXCEPT ![c] = "lockup"] \/ pc' = [pc EXCEPT ![c] = "tx_irq"]
            /\ pc[c] # "idle" /\ UNCHANGED <<rx_int_enabled, napi>>
        BY <3>1, <3>3, Zenon DEF goto, WriteStatus
      <4> QED BY <4>1, <3>0, GotoPolling, Zenon
    <3>4. CASE Interrupt(c, d, "tx_irq", "pool")
      BY <3>0, <3>4, InterruptPolling, Zenon
    <3>5. CASE ResetPool(d)
      <4>1. /\ pc' = [pc EXCEPT ![c] = "wake"]
            /\ pc[c] # "idle" /\ UNCHANGED <<rx_int_enabled, napi>>
        BY <3>1, <3>5, Zenon DEF goto, ResetPool, irq
      <4> QED BY <4>1, <3>0, GotoPolling, Zenon
    <3>6. CASE TimeoutEnd(d)
      <4>1. /\ pc' = [pc EXCEPT ![c] = "idle"]
            /\ pc[c] # "idle" /\ UNCHANGED <<rx_int_enabled, napi>>
        BY <3>1, <3>6, Zenon DEF goto, TimeoutEnd, irq
      <4> QED BY <4>1, <3>0, GotoPolling, Zenon
    <3> QED BY <2>6, <3>2, <3>3, <3>4, <3>5, <3>6, <3>1, Zenon DEF dummeth_tx_timeout
  <2>7. CASE UNCHANGED vars
    BY <2>7, Zenon DEF vars, irq, local, Polling, IntsOffOnlyWhilePolling
  <2> QED BY <2>1, <2>2, <2>3, <2>4, <2>5, <2>6, <2>7, Zenon DEF Traffic
<1>3. Polling => IntsOffOnlyWhilePolling
  BY Zenon DEF Polling
<1> QED BY <1>1, <1>2, <1>3, PTL DEF UpSpec

-----------------------------------------------------------------------------
(* nothing but c runs *)
Others(c) == \A x \in Contexts : x # c => pc[x] = "idle"

(* With one CPU, one context runs at a time, save that a poll which hands a packet over
   waits for the dummeth_xmit it called *)
OneRuns ==
  /\ pc = [c \in Contexts |-> pc[c]]
  /\ under = [d \in Devs |-> under[d]]
  /\ \A d \in Devs :
       /\ pc[<<"timeout", d>>] # "idle" => Others(<<"timeout", d>>)
       /\ pc[<<"poll", d>>] \notin {"idle", "release"} => Others(<<"poll", d>>)
       /\ pc[<<"poll", d>>] = "release" =>
            \A x \in Contexts : x # <<"poll", d>> => pc[x] = "idle" \/ (x[1] = "xmit" /\ under[x[2]] = d)
       /\ pc[<<"xmit", d>>] # "idle" /\ under[d] = NULL => Others(<<"xmit", d>>)
       /\ under[d] # NULL => /\ under[d] \in Devs /\ pc[<<"poll", under[d]>>] = "release"
                             /\ pc[<<"xmit", d>>] # "idle" /\ pc[<<"xmit", twin(d)>>] = "idle"

(* the memory of device d that is allocated *)
Mine(d) == {p \in allocated : p[1] = d}

OneCpuTypes ==
  /\ ppool \in [Devs -> Packets \cup {NULL}] /\ rx_queue \in [Devs -> Packets \cup {NULL}]
  /\ next \in [Packets -> Packets \cup {NULL}] /\ allocated \subseteq Packets
  /\ pkt \in [Contexts -> Packets \cup {NULL}]
  /\ stopped \in [Devs -> BOOLEAN] /\ skb \in [Devs -> BOOLEAN] /\ status = [d \in Devs |-> status[d]]
  /\ leaked = [d \in Devs |-> FALSE] /\ timeouts \in 0 .. MaxTimeouts

(* what a context finds where it is: a packet to take or to pass on, the bit of the
   interrupt it handles, memory for another pool *)
Fine(c) ==
  /\ c[1] = "xmit" =>
       /\ pc[c] = "get" => ppool[c[2]] # NULL
       /\ pc[c] = "enqueue" => pkt[c] # NULL
       /\ pc[c] \in {"lockup", "tx_irq"} => "TX_INTR" \in status[c[2]]
  /\ c[1] = "poll" =>
       /\ pc[c] = "dequeue" => rx_queue[c[2]] # NULL
       /\ pc[c] \in {"release", "test", "wake"} => pkt[c] # NULL
       /\ pc[c] \in {"test", "wake"} => ppool[pkt[c][1]] # NULL
  /\ c[1] = "timeout" =>
       /\ pc[c] = "wake" => ppool[c[2]] # NULL
       /\ pc[c] \notin {"idle", "wake"} => Cardinality(Mine(c[2])) <= PoolSize * timeouts

(* the queue is stopped with the last packet, and the watchdog leaves memory *)
Ready ==
  \A d \in Devs : /\ ~stopped[d] => ppool[d] # NULL
                  /\ skb[d] => pc[<<"xmit", d>>] # "idle"
                  /\ Cardinality(Mine(d)) <= PoolSize * (timeouts + 1)

OneCpu == OneRuns /\ OneCpuTypes /\ (\A c \in Contexts : Fine(c)) /\ Ready

-----------------------------------------------------------------------------
(* The memory that kmalloc returns: the numbers of the packets *)
Ids == 1 .. (PoolSize * (MaxTimeouts + 1))

(* A set of numbers that is not empty has a least member. *)
LEMMA LeastMember ==
  ASSUME NEW S \in SUBSET Nat, S # {}
  PROVE  \E k \in S : \A j \in S : k <= j
<1>1. IsWellFoundedOn(OpToRel(<, Nat), Nat)
  BY NatLessThanWellFounded, Zenon
<1>2. PICK k \in S : \A j \in S : ~(<<j, k>> \in OpToRel(<, Nat))
  BY <1>1, WFMin, Zenon
<1>3. \A j \in S : ~(j < k)
  BY <1>2, Zenon DEF OpToRel
<1> QED BY <1>3

(* A set of numbers up to N that is not empty has a greatest member. *)
LEMMA GreatestMember ==
  ASSUME NEW N \in Nat, NEW S \in SUBSET (1 .. N), S # {}
  PROVE  \E k \in S : \A j \in S : j <= k
<1> DEFINE B == {b \in Nat : \A j \in S : j <= b}
<1>1. N \in B
  OBVIOUS
<1>2. PICK k \in B : \A b \in B : k <= b
  <2>1. B \in SUBSET Nat /\ B # {}
    BY <1>1, Zenon
  <2> HIDE DEF B
  <2> QED BY <2>1, LeastMember, Zenon
<1>3. k \in S
  <2> SUFFICES ASSUME k \notin S PROVE FALSE
    BY Zenon
  <2>1. k \in Nat /\ \A j \in S : j <= k /\ j # k /\ j \in Nat
    OBVIOUS
  <2>2. k # 0
    <3>1. PICK j \in S : TRUE
      BY Zenon
    <3>2. j >= 1 /\ j <= k /\ j \in Nat
      BY <2>1, <3>1
    <3> QED BY <2>1, <3>2
  <2>3. k - 1 \in B
    BY <2>1, <2>2
  <2> QED BY <1>2, <2>1, <2>3
<1> QED BY <1>3, Zenon

(* The numbers of the packets are natural numbers, and there is one. *)
LEMMA PoolNumbers == Ids \subseteq Nat /\ PoolSize * (MaxTimeouts + 1) \in Nat \ {0}
BY DummyEthAssumption DEF Ids

(* dummeth_setup_pool leaves the last packet it allocated at the head. *)
LEMMA TopIn ==
  ASSUME NEW d \in Devs, NEW S \in SUBSET ({d} \X Ids), S # {}
  PROVE  Top(S) \in S /\ \A q \in S : q[2] <= Top(S)[2]
<1> DEFINE K == {p[2] : p \in S}
<1>1. K \in SUBSET Ids /\ K # {}
  BY Zenon
<1>2. PICK k \in K : \A j \in K : j <= k
  <2> HIDE DEF K
  <2> QED BY <1>1, GreatestMember, PoolNumbers, Zenon DEF Ids
<1>3. \E p \in S : \A q \in S : q[2] <= p[2]
  BY <1>2, Zenon
<1> QED BY <1>3, Zenon DEF Top

(* dummeth_setup_pool links a packet to one allocated before it, or to none. *)
LEMMA BelowIn ==
  ASSUME NEW d \in Devs, NEW S \in SUBSET ({d} \X Ids), NEW p \in S
  PROVE  /\ Below(p, S) \in S \cup {NULL}
         /\ Below(p, S) = NULL => \A q \in S : ~(q[2] < p[2])
         /\ Below(p, S) # NULL => /\ Below(p, S) \in S /\ Below(p, S)[2] < p[2]
                                  /\ \A q \in S : q[2] < p[2] => q[2] <= Below(p, S)[2]
<1> DEFINE lower == {q \in S : q[2] < p[2]}
<1>1. CASE lower = {}
  BY <1>1, Zenon DEF Below
<1>2. CASE lower # {}
  <2>1. lower \in SUBSET ({d} \X Ids)
    BY Zenon
  <2>2. Top(lower) \in lower /\ \A q \in lower : q[2] <= Top(lower)[2]
    <3> HIDE DEF lower
    <3> QED BY <1>2, <2>1, TopIn, Zenon
  <2>3. Below(p, S) = Top(lower)
    BY <1>2, Zenon DEF Below, Top
  <2>4. Top(lower) # NULL
    BY <2>2, NullAssumption, Zenon DEF Packets, Ids
  <2> QED BY <2>2, <2>3, <2>4, Zenon
<1> QED BY <1>1, <1>2, Zenon

(* A pool is made of memory of its device that is not in use, at most PoolSize packets
   of it, and of some if any is left. *)
LEMMA FirstFreeIn ==
  ASSUME NEW d \in Devs, NEW used
  PROVE  /\ FirstFree(d, used) \in SUBSET ({d} \X Ids)
         /\ IsFiniteSet(FirstFree(d, used)) /\ Cardinality(FirstFree(d, used)) <= PoolSize
         /\ (\E i \in Ids : <<d, i>> \notin used) => FirstFree(d, used) # {}
<1> USE DummyEthAssumption
<1> DEFINE ids == {i \in Ids : <<d, i>> \notin used}
           J == {j \in ids : Cardinality({k \in ids : k <= j}) <= PoolSize}
           F == FirstFree(d, used)
<1>0. F = {<<d, i>> : i \in J}
  BY Zenon DEF FirstFree, Ids
<1>1. F \in SUBSET ({d} \X Ids)
  <2>1. J \subseteq Ids
    BY Zenon
  <2> HIDE DEF J, F
  <2> QED BY <1>0, <2>1
<1>2. /\ IsFiniteSet(ids)
      /\ \A j \in ids : IsFiniteSet({k \in ids : k <= j})
  <2>1. IsFiniteSet(Ids)
    BY FS_Interval, PoolNumbers DEF Ids
  <2>2. ids \in SUBSET Ids /\ \A j \in ids : {k \in ids : k <= j} \in SUBSET Ids
    BY Zenon
  <2> HIDE DEF ids
  <2> QED BY <2>1, <2>2, FS_Subset, Zenon
<1>3. IsFiniteSet(J) /\ Cardinality(J) <= PoolSize
  <2>1. CASE J = {}
    <3> HIDE DEF J
    <3>1. IsFiniteSet(J) /\ Cardinality(J) = 0
      BY <2>1, FS_EmptySet, Zenon
    <3> QED BY <3>1
  <2>2. CASE J # {}
    <3>1. J \in SUBSET Ids
      BY Zenon
    <3>2. PICK k \in J : \A j \in J : j <= k
      <4> HIDE DEF J
      <4> QED BY <2>2, <3>1, GreatestMember, PoolNumbers, Zenon DEF Ids
    <3>3. J \in SUBSET {j \in ids : j <= k} /\ Cardinality({j \in ids : j <= k}) <= PoolSize
      BY <3>2, Zenon
    <3>4. IsFiniteSet({j \in ids : j <= k})
      BY <1>2, Zenon
    <3>5. Cardinality(J) \in Nat /\ Cardinality({j \in ids : j <= k}) \in Nat
      BY <3>3, <3>4, FS_Subset, FS_CardinalityType, Zenon
    <3>6. IsFiniteSet(J) /\ Cardinality(J) <= Cardinality({j \in ids : j <= k})
      BY <3>3, <3>4, FS_Subset, Zenon
    <3> QED BY <3>3, <3>5, <3>6
  <2> QED BY <2>1, <2>2, Zenon
<1>4. IsFiniteSet(F) /\ Cardinality(F) <= PoolSize
  <2> DEFINE f == [j \in J |-> <<d, j>>]
  <2>1. f \in Surjection(J, F)
    BY <1>0, Zenon DEF Surjection
  <2> HIDE DEF f, J, F
  <2>2. IsFiniteSet(F) /\ Cardinality(F) <= Cardinality(J)
    BY <1>3, <2>1, FS_Surjection, Zenon
  <2>3. Cardinality(F) \in Nat /\ Cardinality(J) \in Nat
    BY <1>3, <2>2, FS_CardinalityType, Zenon
  <2> QED BY <1>3, <2>2, <2>3
<1>5. ASSUME NEW i \in Ids, <<d, i>> \notin used PROVE F # {}
  <2>1. ids # {} /\ ids \in SUBSET Nat
    BY <1>5, PoolNumbers, Zenon
  <2>2. PICK k \in ids : \A j \in ids : k <= j
    <3> HIDE DEF ids
    <3> QED BY <2>1, LeastMember, Zenon
  <2>3. {j \in ids : j <= k} = {k}
    BY <2>1, <2>2
  <2>4. k \in J
    <3>1. Cardinality({j \in ids : j <= k}) = 1
      BY <2>3, FS_Singleton, Zenon
    <3>2. 1 <= PoolSize
      OBVIOUS
    <3> QED BY <2>2, <3>1, <3>2, Zenon
  <2> QED BY <1>0, <2>4, Zenon
<1> QED BY <1>1, <1>4, <1>5, Zenon

(* There are finitely many packets. *)
LEMMA PacketsFinite == IsFiniteSet(Packets) /\ Cardinality(Packets) \in Nat
<1>1. IsFiniteSet(Devs) /\ IsFiniteSet(Ids)
  <2>1. Devs = 0 .. 1
    BY DEF Devs
  <2>2. IsFiniteSet(0 .. 1) /\ IsFiniteSet(Ids)
    <3>1. 0 \in Int /\ 1 \in Int /\ PoolSize * (MaxTimeouts + 1) \in Int
      BY PoolNumbers
    <3> QED BY <3>1, FS_Interval, Zenon DEF Ids
  <2> QED BY <2>1, <2>2, Zenon
<1>2. IsFiniteSet(Packets)
  BY <1>1, FS_Product, Zenon DEF Packets, Ids
<1> QED BY <1>2, FS_CardinalityType, Zenon

(* A device has finitely many packets. *)
LEMMA FinitelyMany ==
  ASSUME allocated \in SUBSET Packets, NEW d \in Devs
  PROVE  IsFiniteSet(Mine(d)) /\ Cardinality(Mine(d)) \in Nat
<1>1. Mine(d) \in SUBSET Packets
  BY Zenon DEF Mine
<1> QED BY <1>1, PacketsFinite, FS_Subset, FS_CardinalityType, Zenon

(* The watchdog finds memory for a pool, and afterwards the device has at most a pool
   for itself and one for each watchdog call. *)
LEMMA ResetMemory ==
  ASSUME allocated \in SUBSET Packets, timeouts \in 0 .. MaxTimeouts,
         NEW d \in Devs, NEW kept \in SUBSET allocated,
         Cardinality(Mine(d)) <= PoolSize * timeouts
  PROVE  /\ FirstFree(d, kept) # {} /\ FirstFree(d, kept) \in SUBSET ({d} \X Ids)
         /\ Cardinality({p \in kept \cup FirstFree(d, kept) : p[1] = d}) <= PoolSize * (timeouts + 1)
<1> DEFINE fresh == FirstFree(d, kept)
           mine == {p \in kept \cup fresh : p[1] = d}
<1>1. /\ timeouts \in Nat /\ PoolSize \in Nat \ {0} /\ MaxTimeouts \in Nat /\ timeouts <= MaxTimeouts
      /\ PoolSize * timeouts \in Nat /\ PoolSize * (timeouts + 1) = PoolSize * timeouts + PoolSize
      /\ PoolSize * (timeouts + 1) <= PoolSize * (MaxTimeouts + 1)
  BY DummyEthAssumption
<1>2. IsFiniteSet(Mine(d)) /\ Cardinality(Mine(d)) \in Nat
  BY FinitelyMany, Zenon
<1>3. \E i \in Ids : <<d, i>> \notin kept
  <2> SUFFICES ASSUME \A i \in Ids : <<d, i>> \in kept PROVE FALSE
    BY Zenon
  <2> DEFINE f == [i \in Ids |-> <<d, i>>]
  <2>1. f \in Injection(Ids, Mine(d))
    BY Zenon DEF Injection, IsInjective, Mine
  <2>2. Cardinality(Ids) <= Cardinality(Mine(d))
    <3> HIDE DEF f
    <3> QED BY <2>1, <1>2, FS_Injection, Zenon
  <2>3. Cardinality(Ids) = PoolSize * (MaxTimeouts + 1)
    BY FS_Interval, PoolNumbers DEF Ids
  <2> QED BY <1>1, <1>2, <2>2, <2>3
<1>4. /\ fresh # {} /\ fresh \in SUBSET ({d} \X Ids)
      /\ IsFiniteSet(fresh) /\ Cardinality(fresh) <= PoolSize
  BY <1>3, FirstFreeIn, Zenon
<1>5. mine \in SUBSET (Mine(d) \cup fresh)
  BY Zenon DEF Mine
<1>6. /\ IsFiniteSet(Mine(d) \cup fresh) /\ Cardinality(fresh) \in Nat
      /\ Cardinality(Mine(d) \cup fresh) <= Cardinality(Mine(d)) + Cardinality(fresh)
  <2> HIDE DEF fresh
  <2>1. IsFiniteSet(Mine(d) \cup fresh) /\ IsFiniteSet(Mine(d) \cap fresh)
    BY <1>2, <1>4, FS_Union, FS_Intersection, Zenon
  <2>2. Cardinality(Mine(d) \cup fresh) = Cardinality(Mine(d)) + Cardinality(fresh) - Cardinality(Mine(d) \cap fresh)
    BY <1>2, <1>4, FS_Union, Zenon
  <2>3. Cardinality(fresh) \in Nat /\ Cardinality(Mine(d) \cap fresh) \in Nat
    BY <2>1, <1>4, FS_CardinalityType, Zenon
  <2> QED BY <1>2, <2>1, <2>2, <2>3
<1>7. Cardinality(mine) <= Cardinality(Mine(d) \cup fresh) /\ Cardinality(mine) \in Nat
      /\ Cardinality(Mine(d) \cup fresh) \in Nat
  <2> HIDE DEF mine, fresh
  <2> QED BY <1>5, <1>6, FS_Subset, FS_CardinalityType, Zenon
<1>8. Cardinality(mine) <= PoolSize * (timeouts + 1)
  <2> HIDE DEF mine, fresh
  <2> QED BY <1>1, <1>2, <1>4, <1>6, <1>7
<1> QED BY <1>4, <1>8, Zenon

-----------------------------------------------------------------------------
(* Who runs *)
(* A context is xmit, poll or timeout of one of the two devices. *)
LEMMA ContextForm ==
  /\ \A d \in Devs : twin(d) \in Devs /\ twin(d) # d /\ \A k \in {"xmit", "poll", "timeout"} : <<k, d>> \in Contexts
  /\ \A c \in Contexts : c[1] \in {"xmit", "poll", "timeout"} /\ c[2] \in Devs /\ c = <<c[1], c[2]>>
BY DEF twin, Devs, Contexts

(* If no CPU is taken, nothing runs: a poll that waits has called something that runs. *)
LEMMA AllIdle ==
  ASSUME OneRuns, Running = {}
  PROVE  \A c \in Contexts : pc[c] = "idle"
<1>1. \A d \in Devs : under[d] = NULL
  <2> SUFFICES ASSUME NEW d \in Devs, under[d] # NULL PROVE FALSE
    BY Zenon
  <2>1. under[d] \in Devs /\ pc[<<"poll", under[d]>>] = "release"
    BY Zenon DEF OneRuns
  <2>2. <<"poll", under[d]>> \in Running
    BY <2>1, ContextForm, Zenon DEF Running
  <2> QED BY <2>2, Zenon
<1> QED BY <1>1, ContextForm, Zenon DEF Running

(* The one CPU is free only if nothing runs on it. *)
LEMMA NoneRuns ==
  ASSUME NCpus = 1, Cardinality(Running) < NCpus
  PROVE  Running = {}
<1>1. IsFiniteSet({"xmit", "poll", "timeout"}) /\ IsFiniteSet(Devs)
  <2>1. IsFiniteSet({"xmit"}) /\ IsFiniteSet({0})
    BY FS_Singleton, Zenon
  <2>2. IsFiniteSet({"xmit"} \cup {"poll"}) /\ IsFiniteSet({0} \cup {1})
    BY <2>1, FS_AddElement, Zenon
  <2>3. IsFiniteSet(({"xmit"} \cup {"poll"}) \cup {"timeout"})
    BY <2>2, FS_AddElement, Zenon
  <2>4. {"xmit", "poll", "timeout"} = ({"xmit"} \cup {"poll"}) \cup {"timeout"} /\ Devs = {0} \cup {1}
    BY Zenon DEF Devs
  <2> QED BY <2>2, <2>3, <2>4, Zenon
<1>2. IsFiniteSet(Contexts)
  BY <1>1, FS_Product, Zenon DEF Contexts
<1>3. Running \in SUBSET Contexts
  BY Zenon DEF Running
<1>4. IsFiniteSet(Running) /\ Cardinality(Running) \in Nat
  BY <1>2, <1>3, FS_Subset, FS_CardinalityType, Zenon
<1> QED BY <1>4, FS_EmptySet

(* One context, or none, is active *)
LEMMA LoneRuns ==
  ASSUME NEW c \in Contexts, pc' = [x \in Contexts |-> pc'[x]], under' = [d \in Devs |-> under'[d]],
         \A x \in Contexts : x # c => pc'[x] = "idle", \A d \in Devs : under'[d] = NULL
  PROVE  OneRuns'
<1>1. \A d \in Devs, k \in {"xmit", "poll", "timeout"} : pc'[<<k, d>>] # "idle" => <<k, d>> = c
  BY ContextForm, Zenon
<1> QED BY <1>1, Zenon DEF OneRuns, Others

(* A poll waits for the dummeth_xmit it called *)
LEMMA NestedRuns ==
  ASSUME NEW d \in Devs, NEW e \in Devs, pc' = [x \in Contexts |-> pc'[x]], under' = [a \in Devs |-> under'[a]],
         \A x \in Contexts : x \notin {<<"xmit", d>>, <<"poll", e>>} => pc'[x] = "idle",
         pc'[<<"xmit", d>>] # "idle", pc'[<<"poll", e>>] = "release",
         under'[d] = e, under'[twin(d)] = NULL
  PROVE  OneRuns'
<1>1. twin(d) \in Devs /\ twin(d) # d /\ \A a \in Devs : a = d \/ a = twin(d)
  BY DEF twin, Devs
<1>2. e # NULL
  BY NullAssumption, Zenon
<1>3. \A a \in Devs : /\ <<"timeout", a>> \in Contexts /\ <<"poll", a>> \in Contexts /\ <<"xmit", a>> \in Contexts
                      /\ <<"timeout", a>> \notin {<<"xmit", d>>, <<"poll", e>>}
                      /\ a # e => <<"poll", a>> \notin {<<"xmit", d>>, <<"poll", e>>}
                      /\ a # d => <<"xmit", a>> \notin {<<"xmit", d>>, <<"poll", e>>}
  BY ContextForm, Zenon
<1>4. \A a \in Devs : /\ pc'[<<"timeout", a>>] = "idle" /\ (a # e => pc'[<<"poll", a>>] = "idle")
                      /\ (a # d => pc'[<<"xmit", a>>] = "idle")
  BY <1>3, Zenon
<1>5. \A x \in Contexts : x = <<"xmit", d>> => x[1] = "xmit" /\ x[2] = d
  OBVIOUS
<1> QED BY <1>1, <1>2, <1>4, <1>5, Zenon DEF OneRuns, Others

(* The active contexts, seen from one of them *)
LEMMA Seen ==
  ASSUME OneRuns, NEW c \in Contexts, pc[c] # "idle", c[1] = "poll" => \A e \in Devs : under[e] # c[2]
  PROVE  \/ Others(c) /\ \A a \in Devs : under[a] = NULL
         \/ \E d, e \in Devs : /\ c = <<"xmit", d>> /\ under[d] = e /\ pc[<<"poll", e>>] = "release"
                               /\ \A x \in Contexts : x \notin {c, <<"poll", e>>} => pc[x] = "idle"
                               /\ under[twin(d)] = NULL
<1>1. c = <<c[1], c[2]>> /\ c[1] \in {"xmit", "poll", "timeout"} /\ c[2] \in Devs
  BY ContextForm, Zenon
<1>0. PICK d \in Devs : d = c[2] /\ c = <<c[1], d>>
  BY <1>1, Zenon
<1>6. \A a \in Devs : under[a] # NULL => pc[<<"xmit", a>>] # "idle" /\ <<"xmit", a>> \in Contexts
  BY ContextForm, Zenon DEF OneRuns
<1>2. CASE c = <<"timeout", d>>
  <2>1. Others(c)
    BY <1>2, Zenon DEF OneRuns
  <2>2. \A a \in Devs : <<"xmit", a>> # c
    BY <1>2, Zenon
  <2> QED BY <2>1, <2>2, <1>6, Zenon DEF Others
<1>3. CASE c = <<"poll", d>>
  <2>1. \A x \in Contexts : x[1] = "xmit" => under[x[2]] # d
    BY <1>0, <1>3, ContextForm, Zenon
  <2>2. Others(c)
    <3>1. CASE pc[<<"poll", d>>] = "release"
      <4>1. \A x \in Contexts : x # <<"poll", d>> => pc[x] = "idle" \/ (x[1] = "xmit" /\ under[x[2]] = d)
        BY <3>1, Zenon DEF OneRuns
      <4> QED BY <1>3, <2>1, <4>1, Zenon DEF Others
    <3>2. CASE pc[<<"poll", d>>] # "release"
      <4>1. pc[<<"poll", d>>] \notin {"idle", "release"}
        BY <1>3, <3>2, Zenon
      <4> QED BY <1>3, <4>1, Zenon DEF OneRuns
    <3> QED BY <3>1, <3>2, Zenon
  <2>3. \A a \in Devs : <<"xmit", a>> # c
    BY <1>3, Zenon
  <2> QED BY <2>2, <2>3, <1>6, Zenon DEF Others
<1>4. CASE c = <<"xmit", d>> /\ under[d] = NULL
  <2>1. Others(c)
    BY <1>4, Zenon DEF OneRuns
  <2>2. \A a \in Devs : a # d => <<"xmit", a>> # c
    BY <1>4, Zenon
  <2> QED BY <2>1, <2>2, <1>4, <1>6, <1>0, Zenon DEF Others
<1>5. CASE c = <<"xmit", d>> /\ under[d] # NULL
  <2>2. PICK e \in Devs : under[d] = e /\ pc[<<"poll", e>>] = "release" /\ pc[<<"xmit", twin(d)>>] = "idle"
    BY <1>5, Zenon DEF OneRuns
  <2>3. under[twin(d)] = NULL
    BY <2>2, ContextForm, Zenon DEF OneRuns
  <2>4. \A x \in Contexts : x \notin {c, <<"poll", e>>} => pc[x] = "idle"
    <3>1. \A x \in Contexts : x[1] = "xmit" /\ under[x[2]] = e => x = c
      <4>1. \A a \in Devs : a = d \/ a = twin(d)
        BY DEF twin, Devs
      <4>2. \A x \in Contexts : x[1] = "xmit" => x = <<"xmit", x[2]>> /\ x[2] \in Devs
        BY ContextForm, Zenon
      <4>3. e # NULL
        BY NullAssumption, Zenon
      <4> QED BY <1>5, <2>3, <4>1, <4>2, <4>3, Zenon
    <3>2. \A x \in Contexts : x # <<"poll", e>> => pc[x] = "idle" \/ (x[1] = "xmit" /\ under[x[2]] = e)
      BY <2>2, Zenon DEF OneRuns
    <3> QED BY <3>1, <3>2, Zenon
  <2> QED BY <1>5, <2>2, <2>3, <2>4, Zenon
<1> QED BY <1>0, <1>1, <1>2, <1>3, <1>4, <1>5, Zenon

(* It goes on, or returns *)
LEMMA GotoRuns ==
  ASSUME OneRuns, NEW c \in Contexts, NEW w, goto(c, w), pc[c] # "idle",
         c[1] = "poll" => \A e \in Devs : under[e] # c[2]
  PROVE  OneRuns'
<1>1. pc' = [x \in Contexts |-> pc'[x]] /\ \A x \in Contexts : x # c => pc'[x] = pc[x]
  BY Zenon DEF OneRuns, goto
<1>2. pc'[c] = w
  BY Zenon DEF OneRuns, goto
<1>3. /\ under' = [a \in Devs |-> under'[a]]
      /\ \A a \in Devs : under'[a] = IF a = c[2] /\ c[1] = "xmit" /\ w = "idle" THEN NULL ELSE under[a]
  BY ContextForm, Zenon DEF OneRuns, goto
<1>4. CASE Others(c) /\ \A a \in Devs : under[a] = NULL
  <2>1. \A a \in Devs : under'[a] = NULL
    BY <1>3, <1>4, Zenon
  <2>2. \A x \in Contexts : x # c => pc'[x] = "idle"
    BY <1>1, <1>4, Zenon DEF Others
  <2> QED BY <1>1, <1>3, <2>1, <2>2, LoneRuns, Zenon
<1>5. ASSUME NEW d \in Devs, NEW e \in Devs, c = <<"xmit", d>>, under[d] = e, pc[<<"poll", e>>] = "release",
             \A x \in Contexts : x \notin {c, <<"poll", e>>} => pc[x] = "idle", under[twin(d)] = NULL
      PROVE  OneRuns'
  <2>1. <<"poll", e>> \in Contexts /\ <<"poll", e>> # c /\ c[1] = "xmit" /\ c[2] = d /\ twin(d) \in Devs /\ twin(d) # d
    BY <1>5, ContextForm, Zenon
  <2>2. pc'[<<"poll", e>>] = "release" /\ \A x \in Contexts : x \notin {c, <<"poll", e>>} => pc'[x] = "idle"
    BY <1>1, <1>5, <2>1, Zenon
  <2>3. CASE w = "idle"
    <3>1. \A x \in Contexts : x # <<"poll", e>> => pc'[x] = "idle"
      BY <1>2, <2>2, <2>3, Zenon
    <3>2. \A a \in Devs : under'[a] = NULL
      <4>1. \A a \in Devs : a = d \/ a = twin(d)
        BY DEF Devs, twin
      <4> QED BY <1>3, <1>5, <2>1, <2>3, <4>1, Zenon
    <3> QED BY <1>1, <1>3, <2>1, <3>1, <3>2, LoneRuns, Zenon
  <2>4. CASE w # "idle"
    <3>1. under'[d] = e /\ under'[twin(d)] = NULL
      BY <1>3, <1>5, <2>1, <2>4, Zenon
    <3>2. pc'[<<"xmit", d>>] # "idle"
      BY <1>2, <1>5, <2>4, Zenon
    <3>3. \A x \in Contexts : x \notin {<<"xmit", d>>, <<"poll", e>>} => pc'[x] = "idle"
      BY <1>5, <2>2, Zenon
    <3> QED BY <1>1, <1>3, <2>2, <3>1, <3>2, <3>3, NestedRuns, Zenon
  <2> QED BY <2>3, <2>4, Zenon
<1> QED BY <1>4, <1>5, Seen, Zenon

-----------------------------------------------------------------------------
(* What a step does to the others: they are idle, or a poll that waits *)
(* the other contexts are idle, or wait for what they called *)
Calm(c) == \A x \in Contexts : x # c => pc[x] = "idle" \/ (x[1] = "poll" /\ pc[x] = "release")

(* A step of one context leaves what the others count on: they are idle, or wait. *)
LEMMA OthersFine ==
  ASSUME OneCpu, NEW c \in Contexts, Calm(c), Fine(c)',
         \A x \in Contexts : x # c => pc'[x] = pc[x] /\ pkt'[x] = pkt[x]
  PROVE  \A x \in Contexts : Fine(x)'
<1> SUFFICES ASSUME NEW x \in Contexts, x # c PROVE Fine(x)'
  BY Zenon
<1>1. CASE pc[x] = "idle"
  BY <1>1, Zenon DEF Fine
<1>2. CASE x[1] = "poll" /\ pc[x] = "release"
  <2>1. pkt[x] # NULL
    BY <1>2, Zenon DEF OneCpu, Fine
  <2> QED BY <1>2, <2>1, Zenon DEF Fine
<1> QED BY <1>1, <1>2, Zenon DEF Calm

(* While a context runs, the others are idle, or polls that hand a packet over. *)
LEMMA SeenCalm ==
  ASSUME OneRuns, NEW c \in Contexts, pc[c] # "idle", c[1] = "poll" => \A e \in Devs : under[e] # c[2]
  PROVE  Calm(c)
<1>1. CASE Others(c)
  BY <1>1, Zenon DEF Others, Calm
<1>2. ASSUME NEW e \in Devs, pc[<<"poll", e>>] = "release", \A x \in Contexts : x \notin {c, <<"poll", e>>} => pc[x] = "idle"
      PROVE  Calm(c)
  <2>1. \A x \in Contexts : x = <<"poll", e>> => x[1] = "poll" /\ pc[x] = "release"
    BY <1>2
  <2> QED BY <1>2, <2>1, Zenon DEF Calm
<1> QED BY <1>1, <1>2, Seen, Zenon

(* A step of the running context that keeps the types and the queues keeps OneCpu. *)
LEMMA ContextStep ==
  ASSUME OneCpu, NEW c \in Contexts, NEW w, goto(c, w), pc[c] # "idle",
         c[1] = "poll" => \A e \in Devs : under[e] # c[2],
         \A x \in Contexts : x # c => pkt'[x] = pkt[x], OneCpuTypes', Fine(c)', Ready'
  PROVE  OneCpu'
<1>1. OneRuns /\ Calm(c)
  BY SeenCalm, Zenon DEF OneCpu
<1>2. OneRuns'
  BY <1>1, GotoRuns, Zenon
<1>3. \A x \in Contexts : x # c => pc'[x] = pc[x]
  BY <1>1, Zenon DEF OneRuns, goto
<1>4. \A x \in Contexts : Fine(x)'
  BY <1>1, <1>3, OthersFine, Zenon
<1> QED BY <1>2, <1>4, Zenon DEF OneCpu

(* a step that only reads *)
LEMMA QuietStep ==
  ASSUME OneCpu, NEW c \in Contexts, NEW w, goto(c, w), pc[c] # "idle",
         c[1] = "poll" => \A e \in Devs : under[e] # c[2], c[1] = "xmit" => w # "idle",
         UNCHANGED <<lists, status, skb, leaked, stopped, pkt, timeouts>>, Fine(c)'
  PROVE  OneCpu'
<1>1. OneCpuTypes'
  BY Zenon DEF OneCpu, OneCpuTypes, lists
<1>2. Ready'
  <2>1. \A d \in Devs : pc[<<"xmit", d>>] # "idle" => pc'[<<"xmit", d>>] # "idle"
    <3>1. \A d \in Devs : <<"xmit", d>> \in Contexts /\ <<"xmit", d>>[1] = "xmit"
      BY ContextForm, Zenon
    <3> QED BY <3>1, Zenon DEF OneCpu, OneRuns, goto
  <2> QED BY <2>1, Zenon DEF OneCpu, Ready, Mine, lists
<1> QED BY <1>1, <1>2, ContextStep, Zenon

(* the first step of a context when the CPU is free *)
LEMMA StartStep ==
  ASSUME OneCpu, NCpus = 1, Cardinality(Running) < NCpus, NEW c \in Contexts, NEW w,
         pc' = [pc EXCEPT ![c] = w], under' = [d \in Devs |-> under'[d]], \A d \in Devs : under'[d] = NULL,
         \A x \in Contexts : x # c => pkt'[x] = pkt[x], OneCpuTypes', Fine(c)', Ready'
  PROVE  OneCpu'
<1>1. \A x \in Contexts : pc[x] = "idle"
  BY NoneRuns, AllIdle, Zenon DEF OneCpu
<1>2. pc' = [x \in Contexts |-> pc'[x]] /\ \A x \in Contexts : x # c => pc'[x] = pc[x]
  BY Zenon DEF OneCpu, OneRuns
<1>3. OneRuns'
  BY <1>1, <1>2, LoneRuns, Zenon
<1>4. \A x \in Contexts : Fine(x)'
  BY <1>1, <1>2, OthersFine, Zenon DEF Calm
<1> QED BY <1>3, <1>4, Zenon DEF OneCpu

-----------------------------------------------------------------------------
(* dummeth_xmit is called with the queue running *)
LEMMA XmitCpu == ASSUME OneCpu, NCpus = 1, NEW d \in Devs, dummeth_xmit(d) PROVE OneCpu'
<1>1. PICK c \in Contexts : c = <<"xmit", d>> /\ c[1] = "xmit" /\ c[2] = d
  BY ContextForm, Zenon
<1>2. PICK p \in Devs \cup {NULL} :
         /\ IF p = NULL THEN Cardinality(Running) < NCpus ELSE pc[<<"poll", p>>] = "release" /\ p # under[twin(d)]
         /\ under' = [under EXCEPT ![d] = p]
  BY Zenon DEF dummeth_xmit
<1>3. /\ pc[c] = "idle" /\ ~stopped[d] /\ skb' = [skb EXCEPT ![d] = TRUE] /\ pc' = [pc EXCEPT ![c] = "get"]
      /\ UNCHANGED <<lists, status, leaked, stopped, pkt, timeouts>>
  BY <1>1, Zenon DEF dummeth_xmit
<1>4. OneCpuTypes'
  BY <1>3, Zenon DEF OneCpu, OneCpuTypes, lists
<1>5. /\ pc' = [x \in Contexts |-> pc'[x]] /\ \A x \in Contexts : x # c => pc'[x] = pc[x]
      /\ pc'[c] = "get"
  BY <1>3, Zenon DEF OneCpu, OneRuns
<1>6. Fine(c)'
  <2>1. ppool[d] # NULL
    BY <1>3, Zenon DEF OneCpu, Ready
  <2> QED BY <1>1, <1>3, <1>5, <2>1, Zenon DEF Fine, lists
<1>7. Ready'
  <2>1. \A a \in Devs : pc'[<<"xmit", a>>] = IF a = d THEN "get" ELSE pc[<<"xmit", a>>]
    BY <1>1, <1>5, ContextForm, Zenon
  <2>2. \A a \in Devs : skb'[a] => a = d \/ skb[a]
    BY <1>3, Zenon DEF OneCpu, OneCpuTypes
  <2>3. UNCHANGED <<ppool, allocated, stopped, timeouts>> /\ Mine(0)' = Mine(0) /\ Mine(1)' = Mine(1)
    BY <1>3, Zenon DEF lists, Mine
  <2>4. \A a \in Devs : Mine(a)' = Mine(a) /\ (skb'[a] => pc'[<<"xmit", a>>] # "idle")
    BY <2>1, <2>2, <2>3, Zenon DEF OneCpu, Ready, Devs
  <2> QED BY <2>3, <2>4, Zenon DEF OneCpu, Ready
<1>8. under' = [a \in Devs |-> under'[a]] /\ \A a \in Devs : under'[a] = IF a = d THEN p ELSE under[a]
  BY <1>2, Zenon DEF OneCpu, OneRuns
<1>9. CASE p = NULL
  <2>1. \A a \in Devs : under[a] = NULL
    <3>1. \A x \in Contexts : pc[x] = "idle"
      BY <1>2, <1>9, NoneRuns, AllIdle, Zenon DEF OneCpu
    <3> QED BY <3>1, ContextForm, Zenon DEF OneCpu, OneRuns
  <2>2. \A a \in Devs : under'[a] = NULL
    BY <1>8, <1>9, <2>1, Zenon
  <2> QED BY <1>2, <1>3, <1>4, <1>6, <1>7, <1>8, <1>9, <2>2, StartStep, Zenon
<1>10. CASE p \in Devs
  <2>0. p # NULL
    BY <1>10, NullAssumption, Zenon
  <2>1. pc[<<"poll", p>>] = "release" /\ p # under[twin(d)] /\ twin(d) \in Devs
    BY <1>2, <2>0, ContextForm, Zenon
  <2>2. \A x \in Contexts : x # <<"poll", p>> => pc[x] = "idle" \/ (x[1] = "xmit" /\ under[x[2]] = p)
    BY <1>10, <2>1, Zenon DEF OneCpu, OneRuns
  <2>3. under[twin(d)] = NULL
    <3> SUFFICES ASSUME under[twin(d)] # NULL PROVE FALSE
      BY Zenon
    <3>1. \A a \in Devs : under[a] # NULL => under[a] \in Devs /\ pc[<<"poll", under[a]>>] = "release"
      BY ZenonT(30) DEF OneCpu, OneRuns
    <3>2. PICK q \in Devs : q = under[twin(d)] /\ pc[<<"poll", q>>] = "release"
      BY <2>1, <3>1, Zenon
    <3>3. <<"poll", q>> \in Contexts /\ <<"poll", q>> # <<"poll", p>> /\ <<"poll", q>>[1] # "xmit"
      BY <2>1, <3>2, ContextForm, Zenon
    <3> QED BY <2>2, <3>2, <3>3, Zenon
  <2>4. \A x \in Contexts : x \notin {c, <<"poll", p>>} => pc[x] = "idle"
    <3>1. \A x \in Contexts : x[1] = "xmit" /\ x # c => x[2] = twin(d)
      BY <1>1, ContextForm DEF twin, Devs
    <3> QED BY <2>1, <2>2, <3>1, Zenon
  <2>5. Calm(c)
    BY <2>1, <2>4 DEF Calm
  <2>6. \A x \in Contexts : Fine(x)'
    BY <1>3, <1>5, <1>6, <2>5, OthersFine, Zenon
  <2>7. OneRuns'
    <3>1. <<"poll", p>> \in Contexts /\ <<"poll", p>> # c
      BY <1>1, <1>10, ContextForm, Zenon
    <3>2. \A x \in Contexts : x \notin {<<"xmit", d>>, <<"poll", p>>} => pc'[x] = "idle"
      BY <1>1, <1>5, <2>4, Zenon
    <3>3. pc'[<<"xmit", d>>] # "idle" /\ pc'[<<"poll", p>>] = "release"
      BY <1>1, <1>5, <2>1, <3>1, Zenon
    <3>4. under'[d] = p /\ under'[twin(d)] = NULL
      BY <1>8, <2>1, <2>3, ContextForm, Zenon
    <3> QED BY <1>5, <1>8, <1>10, <3>2, <3>3, <3>4, NestedRuns, Zenon
  <2> QED BY <1>4, <1>7, <2>6, <2>7, Zenon DEF OneCpu
<1> QED BY <1>9, <1>10, Zenon

(* dummeth_get_tx_buffer finds a packet *)
LEMMA GetCpu == ASSUME OneCpu, NEW d \in Devs, dummeth_get_tx_buffer(d) PROVE OneCpu'
<1>1. PICK c \in Contexts : c = <<"xmit", d>> /\ c[1] = "xmit" /\ c[2] = d
  BY ContextForm, Zenon
<1>2. ppool[d] # NULL /\ pc[c] = "get"
  BY <1>1, Zenon DEF dummeth_get_tx_buffer, OneCpu, Fine
<1>3. /\ pkt' = [pkt EXCEPT ![c] = ppool[d]] /\ ppool' = [ppool EXCEPT ![d] = next[ppool[d]]]
      /\ stopped' = [stopped EXCEPT ![d] = @ \/ next[ppool[d]] = NULL]
      /\ goto(c, "enqueue") /\ UNCHANGED <<leaked, rx_queue, next, allocated, status, skb, timeouts>>
  BY <1>1, <1>2, Zenon DEF dummeth_get_tx_buffer, irq
<1>4. ppool[d] \in Packets /\ next[ppool[d]] \in Packets \cup {NULL}
  BY <1>2, Zenon DEF OneCpu, OneCpuTypes
<1>5. OneCpuTypes'
  BY <1>1, <1>3, <1>4, Zenon DEF OneCpu, OneCpuTypes
<1>6. /\ pc'[c] = "enqueue" /\ \A x \in Contexts : x # c => pc'[x] = pc[x]
      /\ pkt'[c] = ppool[d] /\ \A x \in Contexts : x # c => pkt'[x] = pkt[x]
  <2>1. pc'[c] = "enqueue" /\ \A x \in Contexts : x # c => pc'[x] = pc[x]
    BY <1>3, Zenon DEF OneCpu, OneRuns, goto
  <2> QED BY <1>3, <2>1, Zenon DEF OneCpu, OneCpuTypes
<1>7. Fine(c)'
  BY <1>1, <1>2, <1>6, Zenon DEF Fine
<1>8. Ready'
  <2>1. \A a \in Devs : pc[<<"xmit", a>>] # "idle" => pc'[<<"xmit", a>>] # "idle"
    BY <1>6, ContextForm, Zenon
  <2> QED BY <1>3, <2>1, Zenon DEF OneCpu, OneCpuTypes, Ready, Mine
<1> QED BY <1>1, <1>2, <1>3, <1>5, <1>6, <1>7, <1>8, ContextStep, Zenon

(* dummeth_enqueue_buf *)
LEMMA EnqueueCpu == ASSUME OneCpu, NEW d \in Devs, dummeth_enqueue_buf(d) PROVE OneCpu'
<1>1. PICK c \in Contexts : c = <<"xmit", d>> /\ c[1] = "xmit" /\ c[2] = d
  BY ContextForm, Zenon
<1>2. pkt[c] \in Packets /\ pc[c] = "enqueue" /\ twin(d) \in Devs
  BY <1>1, ContextForm, Zenon DEF dummeth_enqueue_buf, OneCpu, OneCpuTypes, Fine
<1>3. /\ next' = [next EXCEPT ![pkt[c]] = rx_queue[twin(d)]] /\ rx_queue' = [rx_queue EXCEPT ![twin(d)] = pkt[c]]
      /\ pkt' = [pkt EXCEPT ![c] = NULL]
      /\ goto(c, "rx") /\ UNCHANGED <<leaked, ppool, stopped, allocated, status, skb, timeouts>>
  BY <1>1, <1>2, Zenon DEF dummeth_enqueue_buf, irq
<1>5. OneCpuTypes'
  BY <1>1, <1>2, <1>3, Zenon DEF OneCpu, OneCpuTypes
<1>6. /\ pc'[c] = "rx" /\ \A x \in Contexts : x # c => pc'[x] = pc[x]
      /\ \A x \in Contexts : x # c => pkt'[x] = pkt[x]
  <2>1. pc'[c] = "rx" /\ \A x \in Contexts : x # c => pc'[x] = pc[x]
    BY <1>3, Zenon DEF OneCpu, OneRuns, goto
  <2> QED BY <1>3, <2>1, Zenon DEF OneCpu, OneCpuTypes
<1>7. Fine(c)'
  BY <1>1, <1>2, <1>6, Zenon DEF Fine
<1>8. Ready'
  <2>1. \A a \in Devs : pc[<<"xmit", a>>] # "idle" => pc'[<<"xmit", a>>] # "idle"
    BY <1>6, ContextForm, Zenon
  <2> QED BY <1>3, <2>1, Zenon DEF OneCpu, OneCpuTypes, Ready, Mine
<1> QED BY <1>1, <1>2, <1>3, <1>5, <1>6, <1>7, <1>8, ContextStep, Zenon

(* Where the contexts are after a step of one *)
LEMMA PcAfter ==
  ASSUME OneCpu, NEW c \in Contexts, NEW w, goto(c, w)
  PROVE  /\ pc'[c] = w /\ \A x \in Contexts : x # c => pc'[x] = pc[x]
         /\ \A a \in Devs : pc[<<"xmit", a>>] # "idle" /\ (c[1] = "xmit" /\ c[2] = a => w # "idle")
                              => pc'[<<"xmit", a>>] # "idle"
<1>1. pc'[c] = w /\ \A x \in Contexts : x # c => pc'[x] = pc[x]
  BY Zenon DEF OneCpu, OneRuns, goto
<1> QED BY <1>1, ContextForm, Zenon

(* the status word is written outside the lock *)
LEMMA WriteCpu ==
  ASSUME OneCpu, NEW c \in Contexts, NEW e \in Devs, NEW bit, NEW here, NEW there,
         WriteStatus(c, e, bit, here, there), c[1] # "poll", here # "idle", there # "idle", Fine(c)'
  PROVE  OneCpu'
<1>1. /\ pc[c] # "idle" /\ goto(c, there) /\ status' = [status EXCEPT ![e] = load[c] \cup {bit}]
      /\ UNCHANGED <<lists, skb, leaked, stopped, pkt, timeouts>>
  BY Zenon DEF WriteStatus
<1>2. OneCpuTypes'
  BY <1>1, Zenon DEF OneCpu, OneCpuTypes, lists
<1>3. \A a \in Devs : pc[<<"xmit", a>>] # "idle" => pc'[<<"xmit", a>>] # "idle"
  BY <1>1, PcAfter, Zenon
<1>4. Ready'
  BY <1>1, <1>3, Zenon DEF OneCpu, Ready, Mine, lists
<1> QED BY <1>1, <1>2, <1>4, ContextStep, Zenon

(* dummeth_napi_interrupt frees the skb of a finished transmission *)
LEMMA InterruptCpu ==
  ASSUME OneCpu, NEW c \in Contexts, NEW e \in Devs, NEW here, NEW there,
         Interrupt(c, e, here, there), c[1] # "poll", here # "idle", Fine(c)',
         c[1] = "xmit" /\ there = "idle" => c[2] = e /\ "TX_INTR" \in status[e]
  PROVE  OneCpu'
<1>1. /\ pc[c] # "idle" /\ goto(c, there) /\ status' = [status EXCEPT ![e] = {}]
      /\ UNCHANGED <<lists, leaked, stopped, pkt, timeouts>>
  BY Zenon DEF Interrupt, dummeth_napi_interrupt
<1>2. /\ skb' \in [Devs -> BOOLEAN] /\ \A a \in Devs : skb'[a] => skb[a]
      /\ "TX_INTR" \in status[e] => ~skb'[e]
  BY Zenon DEF Interrupt, dummeth_napi_interrupt, OneCpu, OneCpuTypes
<1>3. OneCpuTypes'
  BY <1>1, <1>2, Zenon DEF OneCpu, OneCpuTypes, lists
<1>4. \A a \in Devs : skb'[a] => pc'[<<"xmit", a>>] # "idle"
  <2> SUFFICES ASSUME NEW a \in Devs, skb'[a] PROVE pc'[<<"xmit", a>>] # "idle"
    BY Zenon
  <2>1. pc[<<"xmit", a>>] # "idle"
    BY <1>2, Zenon DEF OneCpu, Ready
  <2>2. c[1] = "xmit" /\ c[2] = a => there # "idle"
    BY <1>2, Zenon
  <2> QED BY <1>1, <2>1, <2>2, PcAfter, Zenon
<1>5. Ready'
  <2>1. UNCHANGED <<ppool, stopped, timeouts>> /\ \A a \in Devs : Mine(a)' = Mine(a)
    BY <1>1, Zenon DEF lists, Mine
  <2> QED BY <1>4, <2>1, Zenon DEF OneCpu, Ready
<1> QED BY <1>1, <1>3, <1>5, ContextStep, Zenon

(* The steps of dummeth_xmit; without lockup, TestLockup drops nothing *)
LEMMA HwTxCpu == ASSUME OneCpu, Lockup = 0, NEW d \in Devs, dummeth_hw_tx(d) PROVE OneCpu'
<1>1. PICK c \in Contexts : c = <<"xmit", d>> /\ c[1] = "xmit" /\ c[2] = d
  BY ContextForm, Zenon
<1>2. twin(d) \in Devs
  BY ContextForm, Zenon
<1>3. CASE TestRxInt(d)
  <2>1. PICK w \in {"rx_read", "tx_read"} : goto(c, w)
    BY <1>1, <1>3, Zenon DEF TestRxInt
  <2>2. pc[c] # "idle" /\ UNCHANGED <<lists, status, skb, leaked, stopped, pkt, timeouts>>
    BY <1>1, <1>3, Zenon DEF TestRxInt, irq
  <2>3. Fine(c)'
    BY <1>1, <2>1, PcAfter, Zenon DEF Fine
  <2>4. w # "idle" /\ c[1] # "poll"
    BY <1>1, <2>1, Zenon
  <2> QED BY <2>1, <2>2, <2>3, <2>4, QuietStep, Zenon
<1>4. ASSUME NEW e \in Devs, NEW here, NEW there, ReadStatus(c, e, here, there), here # "idle",
             there \in {"rx_write", "tx_write"}
      PROVE  OneCpu'
  <2>1. pc[c] # "idle" /\ goto(c, there) /\ UNCHANGED <<lists, status, skb, leaked, stopped, pkt, timeouts>>
    BY <1>4, Zenon DEF ReadStatus, irq
  <2>2. Fine(c)'
    BY <1>1, <1>4, <2>1, PcAfter, Zenon DEF Fine
  <2>3. there # "idle" /\ c[1] # "poll"
    BY <1>1, <1>4, Zenon
  <2> QED BY <2>1, <2>2, <2>3, QuietStep, Zenon
<1>5. CASE WriteStatus(c, twin(d), "RX_INTR", "rx_write", "rx_irq")
  <2>1. goto(c, "rx_irq")
    BY <1>5, Zenon DEF WriteStatus
  <2>2. Fine(c)'
    BY <1>1, <2>1, PcAfter DEF Fine
  <2> QED BY <1>1, <1>2, <1>5, <2>2, WriteCpu, Zenon
<1>6. CASE WriteStatus(c, d, "TX_INTR", "tx_write", "lockup")
  <2>1. goto(c, "lockup") /\ status'[d] = load[c] \cup {"TX_INTR"}
    BY <1>6, Zenon DEF WriteStatus, OneCpu, OneCpuTypes
  <2>2. pc'[c] = "lockup"
    BY <2>1, PcAfter, Zenon
  <2>3. Fine(c)'
    BY <1>1, <2>1, <2>2, Zenon DEF Fine
  <2> QED BY <1>1, <1>6, <2>3, WriteCpu, Zenon
<1>7. CASE Interrupt(c, twin(d), "rx_irq", "tx_read")
  <2>1. goto(c, "tx_read")
    BY <1>7, Zenon DEF Interrupt
  <2>2. Fine(c)'
    BY <1>1, <2>1, PcAfter DEF Fine
  <2> QED BY <1>1, <1>2, <1>7, <2>2, InterruptCpu, Zenon
<1>8. CASE Interrupt(c, d, "tx_irq", "idle")
  <2>1. goto(c, "idle") /\ pc[c] = "tx_irq"
    BY <1>8, Zenon DEF Interrupt
  <2>2. Fine(c)'
    BY <1>1, <2>1, PcAfter, Zenon DEF Fine
  <2>3. "TX_INTR" \in status[d]
    BY <1>1, <2>1, Zenon DEF OneCpu, Fine
  <2> QED BY <1>1, <1>8, <2>2, <2>3, InterruptCpu, Zenon
<1>9. CASE TestLockup(d)
  <2>1. pc[c] = "lockup" /\ goto(c, "tx_irq") /\ UNCHANGED <<lists, status, skb, leaked, pkt, timeouts>>
    BY <1>1, <1>9, Zenon DEF TestLockup, irq
  <2>2. stopped' = [stopped EXCEPT ![d] = @ \/ FALSE]
    BY <1>9, Zenon DEF TestLockup
  <2>3. stopped' = stopped
    BY <2>2, Zenon DEF OneCpu, OneCpuTypes
  <2>4. Fine(c)'
    <3>1. "TX_INTR" \in status'[d] /\ pc'[c] = "tx_irq"
      BY <1>1, <2>1, PcAfter, Zenon DEF OneCpu, Fine
    <3> QED BY <1>1, <3>1, Zenon DEF Fine
  <2> QED BY <1>1, <2>1, <2>3, <2>4, QuietStep, Zenon
<1> QED BY <1>1, <1>2, <1>3, <1>4, <1>5, <1>6, <1>7, <1>8, <1>9, GetCpu, EnqueueCpu, Zenon DEF dummeth_hw_tx

-----------------------------------------------------------------------------
(* A poll that does not hand a packet over has called nothing *)
LEMMA NotWaiting ==
  ASSUME OneRuns, NEW d \in Devs, pc[<<"poll", d>>] # "release"
  PROVE  \A e \in Devs : under[e] # d
<1>1. d # NULL
  BY NullAssumption, Zenon
<1> SUFFICES ASSUME NEW e \in Devs, under[e] = d PROVE FALSE
  BY Zenon
<1>2. pc[<<"poll", under[e]>>] = "release"
  BY <1>1, Zenon DEF OneRuns
<1> QED BY <1>2, Zenon

(* The steps of dummeth_poll: it takes a packet that is there, gives it back before it
   tests and wakes the queue *)
LEMMA PollCpu == ASSUME OneCpu, NEW d \in Devs, dummeth_poll(d) PROVE OneCpu'
<1>1. PICK c \in Contexts : c = <<"poll", d>> /\ c[1] = "poll" /\ c[2] = d
  BY ContextForm, Zenon
<1>2. pc[c] # "release" => \A e \in Devs : under[e] # c[2]
  BY <1>1, NotWaiting, Zenon DEF OneCpu
<1>3. CASE PollLoop(d)
  <2>1. PICK w : goto(c, w) /\ ((w = "dequeue" /\ rx_queue[d] # NULL) \/ w \in {"complete", "idle"})
    BY <1>1, <1>3, Zenon DEF PollLoop
  <2>2. pc[c] = "loop" /\ UNCHANGED <<lists, status, skb, leaked, stopped, pkt, timeouts>>
    BY <1>1, <1>3, Zenon DEF PollLoop, irq
  <2>3. pc'[c] = w
    BY <2>1, PcAfter, Zenon
  <2>4. Fine(c)'
    BY <1>1, <2>1, <2>2, <2>3, Zenon DEF Fine, lists
  <2> QED BY <1>1, <1>2, <2>1, <2>2, <2>4, QuietStep, Zenon
<1>4. CASE dummeth_dequeue_buf(d)
  <2>1. /\ pc[c] = "dequeue" /\ goto(c, "release") /\ pkt' = [pkt EXCEPT ![c] = rx_queue[d]]
        /\ rx_queue' = [rx_queue EXCEPT ![d] = next[rx_queue[d]]]
        /\ UNCHANGED <<ppool, next, allocated, status, skb, leaked, stopped, timeouts>>
    BY <1>1, <1>4, Zenon DEF dummeth_dequeue_buf, irq
  <2>2. rx_queue[d] \in Packets
    BY <1>1, <2>1, Zenon DEF OneCpu, OneCpuTypes, Fine
  <2>3. OneCpuTypes'
    BY <2>1, <2>2, Zenon DEF OneCpu, OneCpuTypes
  <2>4. pkt'[c] \in Packets /\ \A x \in Contexts : x # c => pkt'[x] = pkt[x]
    BY <2>1, <2>2, Zenon DEF OneCpu, OneCpuTypes
  <2>5. pc'[c] = "release" /\ \A a \in Devs : pc[<<"xmit", a>>] # "idle" => pc'[<<"xmit", a>>] # "idle"
    BY <1>1, <2>1, PcAfter, Zenon
  <2>6. Fine(c)'
    BY <1>1, <2>4, <2>5, NullAssumption, Zenon DEF Fine
  <2>7. Ready'
    BY <2>1, <2>5, Zenon DEF OneCpu, Ready, Mine
  <2> QED BY <1>1, <1>2, <2>1, <2>3, <2>4, <2>6, <2>7, ContextStep, Zenon
<1>5. CASE dummeth_release_buffer(d)
  <2>1. PICK owner : owner = pkt[c][1]
    BY Zenon
  <2>2. /\ pc[c] = "release" /\ goto(c, "test") /\ \A e \in Devs : under[e] # d
        /\ next' = [next EXCEPT ![pkt[c]] = ppool[owner]] /\ ppool' = [ppool EXCEPT ![owner] = pkt[c]]
        /\ UNCHANGED <<rx_queue, allocated, status, skb, leaked, stopped, pkt, timeouts>>
    BY <1>1, <1>5, <2>1, Zenon DEF dummeth_release_buffer, irq
  <2>3. pkt[c] \in Packets /\ owner \in Devs
    BY <1>1, <2>1, <2>2, Zenon DEF OneCpu, OneCpuTypes, Fine, Packets
  <2>4. OneCpuTypes' /\ ppool'[owner] = pkt[c] /\ \A a \in Devs : a # owner => ppool'[a] = ppool[a]
    BY <2>2, <2>3, Zenon DEF OneCpu, OneCpuTypes
  <2>5. pc'[c] = "test" /\ \A a \in Devs : pc[<<"xmit", a>>] # "idle" => pc'[<<"xmit", a>>] # "idle"
    BY <1>1, <2>2, PcAfter, Zenon
  <2>6. Fine(c)'
    BY <1>1, <2>1, <2>2, <2>3, <2>4, <2>5, NullAssumption DEF Fine
  <2>7. Ready'
    BY <2>2, <2>3, <2>4, <2>5, NullAssumption, Zenon DEF OneCpu, Ready, Mine
  <2> QED BY <1>1, <2>2, <2>4, <2>6, <2>7, ContextStep, Zenon
<1>6. CASE TestQueue(d)
  <2>1. PICK w \in {"wake", "loop"} : goto(c, w) /\ pkt' = [pkt EXCEPT ![c] = IF w = "wake" THEN @ ELSE NULL]
    <3>1. CASE stopped[pkt[c][1]] /\ next[pkt[c]] = NULL
      <4>1. goto(c, "wake") /\ pkt' = [pkt EXCEPT ![c] = @]
        BY <1>1, <1>6, <3>1, Zenon DEF TestQueue
      <4> QED BY <4>1, Zenon
    <3>2. CASE ~(stopped[pkt[c][1]] /\ next[pkt[c]] = NULL)
      <4>1. goto(c, "loop") /\ pkt' = [pkt EXCEPT ![c] = NULL]
        BY <1>1, <1>6, <3>2, Zenon DEF TestQueue
      <4> QED BY <4>1, Zenon
    <3> QED BY <3>1, <3>2, Zenon
  <2>2. pc[c] = "test" /\ UNCHANGED <<lists, status, skb, leaked, stopped, timeouts>>
    BY <1>1, <1>6, Zenon DEF TestQueue, irq
  <2>3. /\ pkt' \in [Contexts -> Packets \cup {NULL}] /\ (w = "wake" => pkt'[c] = pkt[c])
        /\ \A x \in Contexts : x # c => pkt'[x] = pkt[x]
    BY <2>1, Zenon DEF OneCpu, OneCpuTypes
  <2>4. OneCpuTypes'
    BY <2>2, <2>3, Zenon DEF OneCpu, OneCpuTypes, lists
  <2>5. pc'[c] = w /\ \A a \in Devs : pc[<<"xmit", a>>] # "idle" => pc'[<<"xmit", a>>] # "idle"
    BY <1>1, <2>1, PcAfter, Zenon
  <2>6. pkt[c] # NULL /\ ppool[pkt[c][1]] # NULL
    BY <1>1, <2>2, Zenon DEF OneCpu, Fine
  <2>7. Fine(c)'
    BY <1>1, <2>2, <2>3, <2>5, <2>6, Zenon DEF Fine, lists
  <2>8. Ready'
    BY <2>2, <2>5, Zenon DEF OneCpu, Ready, Mine, lists
  <2> QED BY <1>1, <1>2, <2>1, <2>2, <2>3, <2>4, <2>7, <2>8, ContextStep, Zenon
<1>7. CASE WakeQueue(d)
  <2>1. /\ pc[c] = "wake" /\ goto(c, "loop") /\ stopped' = [stopped EXCEPT ![pkt[c][1]] = FALSE]
        /\ pkt' = [pkt EXCEPT ![c] = NULL] /\ UNCHANGED <<lists, status, skb, leaked, timeouts>>
    BY <1>1, <1>7, Zenon DEF WakeQueue, irq
  <2>2. ppool[pkt[c][1]] # NULL
    BY <1>1, <2>1, Zenon DEF OneCpu, Fine
  <2>3. stopped' \in [Devs -> BOOLEAN] /\ \A a \in Devs : ~stopped'[a] => ~stopped[a] \/ a = pkt[c][1]
    BY <2>1, Zenon DEF OneCpu, OneCpuTypes
  <2>4. pkt' \in [Contexts -> Packets \cup {NULL}] /\ \A x \in Contexts : x # c => pkt'[x] = pkt[x]
    BY <2>1, Zenon DEF OneCpu, OneCpuTypes
  <2>5. OneCpuTypes'
    BY <2>1, <2>3, <2>4, Zenon DEF OneCpu, OneCpuTypes, lists
  <2>6. pc'[c] = "loop" /\ \A a \in Devs : pc[<<"xmit", a>>] # "idle" => pc'[<<"xmit", a>>] # "idle"
    BY <1>1, <2>1, PcAfter, Zenon
  <2>7. Fine(c)'
    BY <1>1, <2>6, Zenon DEF Fine
  <2>8. Ready'
    BY <2>1, <2>2, <2>3, <2>6, Zenon DEF OneCpu, Ready, Mine, lists
  <2> QED BY <1>1, <1>2, <2>1, <2>4, <2>5, <2>7, <2>8, ContextStep, Zenon
<1>8. CASE PollComplete(d)
  <2>1. pc[c] = "complete" /\ goto(c, "idle") /\ UNCHANGED <<lists, status, skb, leaked, stopped, pkt, timeouts>>
    BY <1>1, <1>8, Zenon DEF PollComplete
  <2>2. Fine(c)'
    BY <1>1, <2>1, PcAfter, Zenon DEF Fine
  <2> QED BY <1>1, <1>2, <2>1, <2>2, QuietStep, Zenon
<1> QED BY <1>3, <1>4, <1>5, <1>6, <1>7, <1>8, Zenon DEF dummeth_poll

(* The soft interrupt runs the poll when the CPU is free. *)
LEMMA PollStartCpu == ASSUME OneCpu, NCpus = 1, NEW d \in Devs, PollStart(d) PROVE OneCpu'
<1>1. PICK c \in Contexts : c = <<"poll", d>> /\ c[1] = "poll" /\ c[2] = d
  BY ContextForm, Zenon
<1>2. /\ pc[c] = "idle" /\ Cardinality(Running) < NCpus /\ goto(c, "loop")
      /\ UNCHANGED <<lists, status, skb, leaked, stopped, pkt, timeouts>>
  BY <1>1, Zenon DEF PollStart, irq
<1>3. /\ under' = [a \in Devs |-> under'[a]]
      /\ \A a \in Devs : under'[a] = NULL
  <2>1. \A x \in Contexts : pc[x] = "idle"
    BY <1>2, NoneRuns, AllIdle, Zenon DEF OneCpu
  <2>2. \A a \in Devs : under[a] = NULL
    BY <2>1, ContextForm, Zenon DEF OneCpu, OneRuns
  <2> QED BY <1>2, <2>2, Zenon DEF OneCpu, OneRuns, goto
<1>4. pc' = [pc EXCEPT ![c] = "loop"] /\ pc'[c] = "loop"
      /\ \A a \in Devs : pc[<<"xmit", a>>] # "idle" => pc'[<<"xmit", a>>] # "idle"
  BY <1>1, <1>2, PcAfter, Zenon DEF goto
<1>5. OneCpuTypes' /\ Ready'
  BY <1>2, <1>4, Zenon DEF OneCpu, OneCpuTypes, Ready, Mine, lists
<1>6. Fine(c)'
  BY <1>1, <1>4, Zenon DEF Fine
<1> QED BY <1>2, <1>3, <1>4, <1>5, <1>6, StartStep, Zenon

-----------------------------------------------------------------------------
(* The watchdog, which frees the pool and fills it again *)
LEMMA TimeoutStartCpu == ASSUME OneCpu, NCpus = 1, NEW d \in Devs, TimeoutStart(d) PROVE OneCpu'
<1>1. PICK c \in Contexts : c = <<"timeout", d>> /\ c[1] = "timeout" /\ c[2] = d
  BY ContextForm, Zenon
<1>2. /\ pc[c] = "idle" /\ Cardinality(Running) < NCpus /\ goto(c, "tx_read")
      /\ timeouts < MaxTimeouts /\ timeouts' = timeouts + 1
      /\ UNCHANGED <<lists, status, skb, leaked, stopped, pkt>>
  BY <1>1, Zenon DEF TimeoutStart, irq
<1>3. /\ under' = [a \in Devs |-> under'[a]]
      /\ \A a \in Devs : under'[a] = NULL
  <2>1. \A x \in Contexts : pc[x] = "idle"
    BY <1>2, NoneRuns, AllIdle, Zenon DEF OneCpu
  <2>2. \A a \in Devs : under[a] = NULL
    BY <2>1, ContextForm, Zenon DEF OneCpu, OneRuns
  <2> QED BY <1>2, <2>2, Zenon DEF OneCpu, OneRuns, goto
<1>4. pc' = [pc EXCEPT ![c] = "tx_read"] /\ pc'[c] = "tx_read"
      /\ \A a \in Devs : pc[<<"xmit", a>>] # "idle" => pc'[<<"xmit", a>>] # "idle"
  BY <1>1, <1>2, PcAfter, Zenon DEF goto
<1>5. OneCpuTypes'
  BY <1>2, DummyEthAssumption DEF OneCpu, OneCpuTypes, lists
<1>6. \A a \in Devs : Mine(a)' = Mine(a) /\ Cardinality(Mine(a)) <= PoolSize * timeouts' /\ Cardinality(Mine(a)) \in Nat
  <2>1. allocated \in SUBSET Packets
    BY Zenon DEF OneCpu, OneCpuTypes
  <2> QED BY <1>2, <2>1, FinitelyMany, Zenon DEF OneCpu, Ready, Mine, lists
<1>7. /\ PoolSize * timeouts' \in Nat /\ PoolSize * (timeouts' + 1) = PoolSize * timeouts' + PoolSize
      /\ PoolSize \in Nat
  BY <1>2, DummyEthAssumption DEF OneCpu, OneCpuTypes
<1>8. Ready'
  <2>1. \A a \in Devs : Cardinality(Mine(a)') <= PoolSize * (timeouts' + 1)
    BY <1>6, <1>7
  <2> QED BY <1>2, <1>4, <2>1, Zenon DEF OneCpu, Ready, lists
<1>9. Fine(c)'
  BY <1>1, <1>4, <1>6, Zenon DEF Fine
<1> QED BY <1>2, <1>3, <1>4, <1>5, <1>8, <1>9, StartStep, Zenon

(* dummeth_teardown_pool frees what is in the pool, and dummeth_setup_pool fills it. *)
LEMMA ResetCpu == ASSUME OneCpu, NEW d \in Devs, ResetPool(d) PROVE OneCpu'
<1>1. PICK c \in Contexts : c = <<"timeout", d>> /\ c[1] = "timeout" /\ c[2] = d
  BY ContextForm, Zenon
<1>2. PICK kept : kept = allocated \ Chain(ppool[d])
  BY Zenon
<1>3. PICK fresh : fresh = FirstFree(d, kept)
  BY Zenon
<1>4. /\ pc[c] = "pool" /\ goto(c, "wake") /\ allocated' = kept \cup fresh
      /\ next' = [p \in Packets |-> IF p \in fresh THEN Below(p, fresh) ELSE next[p]]
      /\ ppool' = [ppool EXCEPT ![d] = Top(fresh)]
      /\ UNCHANGED <<rx_queue, status, skb, leaked, stopped, pkt, timeouts>>
  BY <1>1, <1>2, <1>3, Zenon DEF ResetPool, irq
<1>5. /\ OneCpuTypes /\ Cardinality(Mine(d)) <= PoolSize * timeouts
      /\ allocated \in SUBSET Packets /\ timeouts \in 0 .. MaxTimeouts /\ kept \in SUBSET allocated
  <2>1. OneCpuTypes /\ Cardinality(Mine(d)) <= PoolSize * timeouts
    BY <1>1, <1>4, Zenon DEF OneCpu, Fine
  <2> QED BY <1>2, <2>1, Zenon DEF OneCpuTypes
<1>6. /\ fresh # {} /\ fresh \in SUBSET ({d} \X Ids)
      /\ Cardinality({p \in kept \cup fresh : p[1] = d}) <= PoolSize * (timeouts + 1)
  BY <1>2, <1>3, <1>5, ResetMemory, Zenon
<1>7. {d} \X Ids \subseteq Packets
  BY Zenon DEF Packets, Ids
<1>8. Top(fresh) \in Packets /\ \A p \in fresh : Below(p, fresh) \in Packets \cup {NULL}
  BY <1>6, <1>7, TopIn, BelowIn, Zenon
<1>9. OneCpuTypes'
  <2>1. allocated' \subseteq Packets
    BY <1>2, <1>4, <1>5, <1>6, <1>7, Zenon DEF OneCpuTypes
  <2>2. next' \in [Packets -> Packets \cup {NULL}]
    BY <1>4, <1>5, <1>8, Zenon DEF OneCpuTypes
  <2> QED BY <1>4, <1>5, <1>8, <2>1, <2>2, Zenon DEF OneCpuTypes
<1>10. ppool'[d] # NULL /\ \A a \in Devs : a # d => ppool'[a] = ppool[a]
  BY <1>4, <1>5, <1>8, NullAssumption, Zenon DEF OneCpuTypes
<1>11. \A a \in Devs : Cardinality(Mine(a)') <= PoolSize * (timeouts + 1)
  <2>1. Mine(d)' = {p \in kept \cup fresh : p[1] = d}
    BY <1>4, Zenon DEF Mine
  <2>2. ASSUME NEW a \in Devs, a # d PROVE Cardinality(Mine(a)') <= PoolSize * (timeouts + 1)
    <3>1. Mine(a)' \in SUBSET Mine(a)
      BY <1>2, <1>4, <1>6, <2>2, Zenon DEF Mine
    <3>2. IsFiniteSet(Mine(a)) /\ Cardinality(Mine(a)) \in Nat
      BY <1>5, FinitelyMany, Zenon
    <3>3. Cardinality(Mine(a)') <= Cardinality(Mine(a)) /\ Cardinality(Mine(a)') \in Nat
      BY <3>1, <3>2, FS_Subset, FS_CardinalityType, Zenon
    <3>4. Cardinality(Mine(a)) <= PoolSize * (timeouts + 1) /\ PoolSize * (timeouts + 1) \in Int
      <4>1. timeouts \in Nat /\ PoolSize \in Nat
        BY <1>5, DummyEthAssumption DEF OneCpuTypes
      <4>2. PoolSize * (timeouts + 1) \in Int
        BY <4>1
      <4>3. Cardinality(Mine(a)) <= PoolSize * (timeouts + 1)
        BY Zenon DEF OneCpu, Ready
      <4> QED BY <4>2, <4>3, Zenon
    <3> QED BY <3>2, <3>3, <3>4
  <2> QED BY <1>6, <2>1, <2>2, Zenon
<1>12. pc'[c] = "wake" /\ \A a \in Devs : pc[<<"xmit", a>>] # "idle" => pc'[<<"xmit", a>>] # "idle"
  BY <1>1, <1>4, PcAfter, Zenon
<1>13. Ready'
  BY <1>4, <1>10, <1>11, <1>12, Zenon DEF OneCpu, Ready
<1>14. Fine(c)'
  BY <1>1, <1>10, <1>12, Zenon DEF Fine
<1> QED BY <1>1, <1>4, <1>9, <1>13, <1>14, ContextStep, Zenon

(* The steps of dummeth_tx_timeout: a lost interrupt, a new pool, and the queue runs *)
LEMMA TimeoutCpu == ASSUME OneCpu, NEW d \in Devs, dummeth_tx_timeout(d) PROVE OneCpu'
<1>1. PICK c \in Contexts : c = <<"timeout", d>> /\ c[1] = "timeout" /\ c[2] = d
  BY ContextForm, Zenon
<1>2. ASSUME NEW here, NEW there, pc[c] = here, here \notin {"idle", "wake"}, goto(c, there), there # "wake",
             UNCHANGED <<allocated, timeouts>>
      PROVE  Fine(c)'
  <2>1. Cardinality(Mine(d)) <= PoolSize * timeouts /\ Mine(d)' = Mine(d)
    BY <1>1, <1>2, Zenon DEF OneCpu, Fine, Mine
  <2>2. pc'[c] = there
    BY <1>2, PcAfter, Zenon
  <2> QED BY <1>1, <1>2, <2>1, <2>2, Zenon DEF Fine
<1>3. CASE ReadStatus(c, d, "tx_read", "tx_write")
  <2>1. pc[c] = "tx_read" /\ goto(c, "tx_write") /\ UNCHANGED <<lists, status, skb, leaked, stopped, pkt, timeouts>>
    BY <1>3, Zenon DEF ReadStatus, irq
  <2>2. Fine(c)'
    BY <1>2, <2>1, Zenon DEF lists
  <2> QED BY <1>1, <2>1, <2>2, QuietStep, Zenon
<1>4. CASE WriteStatus(c, d, "TX_INTR", "tx_write", "tx_irq")
  <2>1. Fine(c)'
    BY <1>2, <1>4, Zenon DEF WriteStatus, lists
  <2> QED BY <1>1, <1>4, <2>1, WriteCpu, Zenon
<1>5. CASE Interrupt(c, d, "tx_irq", "pool")
  <2>1. Fine(c)'
    BY <1>2, <1>5, Zenon DEF Interrupt, lists
  <2> QED BY <1>1, <1>5, <2>1, InterruptCpu, Zenon
<1>6. CASE TimeoutEnd(d)
  <2>1. /\ pc[c] = "wake" /\ goto(c, "idle") /\ stopped' = [stopped EXCEPT ![d] = FALSE]
        /\ UNCHANGED <<lists, status, skb, leaked, pkt, timeouts>>
    BY <1>1, <1>6, Zenon DEF TimeoutEnd, irq
  <2>2. ppool[d] # NULL
    BY <1>1, <2>1, Zenon DEF OneCpu, Fine
  <2>3. stopped' \in [Devs -> BOOLEAN] /\ \A a \in Devs : ~stopped'[a] => ~stopped[a] \/ a = d
    BY <2>1, Zenon DEF OneCpu, OneCpuTypes
  <2>4. OneCpuTypes'
    BY <2>1, <2>3, Zenon DEF OneCpu, OneCpuTypes, lists
  <2>5. pc'[c] = "idle" /\ \A a \in Devs : pc[<<"xmit", a>>] # "idle" => pc'[<<"xmit", a>>] # "idle"
    BY <1>1, <2>1, PcAfter, Zenon
  <2>6. Fine(c)'
    BY <1>1, <2>5, Zenon DEF Fine
  <2>7. Ready'
    BY <2>1, <2>2, <2>3, <2>5, Zenon DEF OneCpu, Ready, Mine, lists
  <2> QED BY <1>1, <2>1, <2>4, <2>6, <2>7, ContextStep, Zenon
<1> QED BY <1>1, <1>3, <1>4, <1>5, <1>6, ResetCpu, Zenon DEF dummeth_tx_timeout

(* Both devices start with a full pool, a running queue and no context at work. *)
LEMMA OneCpuStart == InitWith(TRUE) => OneCpu
<1> SUFFICES ASSUME InitWith(TRUE) PROVE OneCpu
  BY Zenon
<1>1. OneRuns
  BY ContextForm, Zenon DEF InitWith, OneRuns, Others
<1>2. PICK pool : pool = [d \in Devs |-> FirstFree(d, {})]
  BY Zenon
<1>3. \A d \in Devs : /\ pool[d] \in SUBSET ({d} \X Ids) /\ pool[d] # {}
                      /\ IsFiniteSet(pool[d]) /\ Cardinality(pool[d]) <= PoolSize
  <2>1. 1 \in Ids
    BY PoolNumbers DEF Ids
  <2> QED BY <1>2, <2>1, FirstFreeIn, Zenon
<1>4. \A d \in Devs : /\ Top(pool[d]) \in pool[d]
                      /\ \A p \in pool[d] : Below(p, pool[d]) \in pool[d] \cup {NULL}
  BY <1>3, TopIn, BelowIn, Zenon
<1>5. \A d \in Devs : {d} \X Ids \subseteq Packets /\ \A p \in {d} \X Ids : p[1] = d
  BY Zenon DEF Packets, Ids
<1>7. 0 \in Devs /\ 1 \in Devs
  BY Zenon DEF Devs
<1>11. \A p \in Packets : p[1] \in Devs
  BY Zenon DEF Packets
<1>6. /\ allocated = pool[0] \cup pool[1] /\ ppool = [d \in Devs |-> Top(pool[d])]
      /\ next = [p \in Packets |-> IF p \in pool[p[1]] THEN Below(p, pool[p[1]]) ELSE NULL]
  <2>1. /\ allocated = FirstFree(0, {}) \cup FirstFree(1, {})
        /\ ppool = [d \in Devs |-> Top(FirstFree(d, {}))]
        /\ next = [p \in Packets |-> IF p \in FirstFree(p[1], {}) THEN Below(p, FirstFree(p[1], {})) ELSE NULL]
    BY <1>7, <1>11, Zenon DEF InitWith
  <2> QED BY <1>2, <1>7, <1>11, <2>1, Zenon
<1>8. OneCpuTypes
  <2>1. allocated \subseteq Packets
    BY <1>3, <1>5, <1>6, <1>7, Zenon
  <2>2. ppool \in [Devs -> Packets \cup {NULL}]
    BY <1>3, <1>4, <1>5, <1>6, Zenon
  <2>3. next \in [Packets -> Packets \cup {NULL}]
    <3>1. \A p \in Packets : p[1] \in Devs
      BY Zenon DEF Packets
    <3>2. \A p \in Packets : p \in pool[p[1]] => Below(p, pool[p[1]]) \in Packets \cup {NULL}
      BY <1>3, <1>4, <1>5, <3>1, Zenon
    <3> QED BY <1>6, <3>2, Zenon
  <2>4. stopped \in [Devs -> BOOLEAN] /\ skb \in [Devs -> BOOLEAN] /\ leaked = [d \in Devs |-> FALSE]
    BY Zenon DEF InitWith
  <2>5. /\ rx_queue \in [Devs -> Packets \cup {NULL}] /\ pkt \in [Contexts -> Packets \cup {NULL}]
        /\ status = [d \in Devs |-> status[d]] /\ timeouts \in 0 .. MaxTimeouts
    BY DummyEthAssumption, SMTT(30) DEF InitWith
  <2> QED BY <2>1, <2>2, <2>3, <2>4, <2>5, Zenon DEF OneCpuTypes
<1>9. \A c \in Contexts : Fine(c)
  BY Zenon DEF InitWith, Fine
<1>10. Ready
  <2>1. \A d \in Devs : ppool[d] # NULL
    BY <1>3, <1>4, <1>5, <1>6, NullAssumption
  <2>2. \A d \in Devs : Mine(d) = pool[d]
    BY <1>3, <1>5, <1>6, <1>7, Zenon DEF Mine, Devs
  <2>3. timeouts = 0 /\ PoolSize * (timeouts + 1) = PoolSize
    BY DummyEthAssumption DEF InitWith
  <2> QED BY <1>3, <2>1, <2>2, <2>3, Zenon DEF Ready, InitWith
<1> QED BY <1>1, <1>8, <1>9, <1>10, Zenon DEF OneCpu

(***************************************************************************)
(* On one CPU, with no simulated lockup, every call leaves dummeth with the *)
(* lock released and frees the skb it was given: the status word and the    *)
(* list pointers that the code reads outside priv->lock are not stale,      *)
(* because nothing else runs between the two accesses.                      *)
(***************************************************************************)
THEOREM OneCpuIsEnough == ASSUME NCpus = 1, Lockup = 0 PROVE UpSpec => []OneCpuInv
<1>1. OneCpu /\ [Traffic]_vars => OneCpu'
  <2> SUFFICES ASSUME OneCpu, [Traffic]_vars PROVE OneCpu'
    BY Zenon
  <2>1. CASE UNCHANGED vars
    <3>1. OneRuns'
      BY <2>1 DEF vars, local, OneCpu, OneRuns, Others
    <3>2. OneCpuTypes'
      BY <2>1, Zenon DEF vars, lists, irq, local, OneCpu, OneCpuTypes
    <3>3. \A c \in Contexts : Fine(c)'
      BY <2>1, Zenon DEF vars, lists, irq, local, OneCpu, Fine, Mine
    <3>4. Ready'
      BY <2>1, Zenon DEF vars, lists, irq, local, OneCpu, Ready, Mine
    <3> QED BY <3>1, <3>2, <3>3, <3>4, Zenon DEF OneCpu
  <2> QED BY <2>1, XmitCpu, HwTxCpu, PollStartCpu, PollCpu, TimeoutStartCpu, TimeoutCpu, Zenon DEF Traffic
<1>2. OneCpu => OneCpuInv
  BY Zenon DEF OneCpu, OneCpuTypes, Ready, OneCpuInv, LockReleased, SkbFreed
<1> QED BY <1>1, <1>2, OneCpuStart, PTL DEF UpSpec

=============================================================================
