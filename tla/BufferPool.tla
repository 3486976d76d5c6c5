------------------------------ MODULE BufferPool ------------------------------
(***************************************************************************)
(* The UMEM buffer pool of the AF_XDP forwarder (ebpf-xdp/xsk/af_rxtx.c).  *)
(*                                                                         *)
(* The pool keeps full slabs at the low end of the array slabs and empty   *)
(* ones above n_slabs_available.  Every port owns a cache (struct bcache)  *)
(* with a consumer slab it takes buffers from and a producer slab it puts  *)
(* buffers into.  A cache trades an empty consumer slab for a full slab of *)
(* the pool, and a full producer slab for an empty one, under bp->lock.    *)
(*                                                                         *)
(* A slab is an array in memory: its identity is the index of the array,   *)
(* its contents are a row of the variable cells.  A buffer is its index in *)
(* UMEM (the code multiplies it by buffer_size to get the address).  One   *)
(* call is one step: between the unlock and its return a call writes only  *)
(* fields of the cache, which a single thread owns, and the slab it has    *)
(* just taken out of the pool.                                             *)
(***************************************************************************)
EXTENDS Integers, FiniteSets

CONSTANTS
  NBuffers,         \* bpool_params.n_buffers, as asked for
  BuffersPerSlab,   \* bpool_params.n_buffers_per_slab
  NUsersMax,        \* bpool_params.n_users_max
  Caches            \* the struct bcache objects that may exist

ASSUME PoolAssumption ==
  /\ NBuffers \in Nat \ {0}
  /\ BuffersPerSlab \in Nat \ {0}
  /\ NUsersMax \in Nat

\* bpool_init dimensioning: n_buffers is rounded up to whole slabs.
n_slabs == (NBuffers + BuffersPerSlab - 1) \div BuffersPerSlab
n_slabs_reserved == NUsersMax * 2
n_buffers == n_slabs * BuffersPerSlab

Buffers == 0 .. (n_buffers - 1)
Cells == 0 .. (BuffersPerSlab - 1)
PoolSlots == 0 .. (n_slabs - 1)
ReservedSlots == 0 .. (n_slabs_reserved - 1)

\* Slab i < n_slabs is &buffers[i * B], the others are in buffers_reserved.
Slabs == 0 .. (n_slabs + n_slabs_reserved - 1)

VARIABLES
  slabs,                        \* bp->slabs
  n_slabs_available,
  slabs_reserved,               \* bp->slabs_reserved
  n_slabs_reserved_available,
  cells,                        \* the contents of every slab
  live,                         \* the caches that are allocated
  slab_cons, n_buffers_cons,    \* the fields of each cache
  slab_prod, n_buffers_prod,
  out                           \* buffers handed out and not yet given back

pool == <<slabs, n_slabs_available>>
reserve == <<slabs_reserved, n_slabs_reserved_available>>
consSide == <<slab_cons, n_buffers_cons>>
prodSide == <<slab_prod, n_buffers_prod>>
poolVars == <<pool, reserve, cells, live, consSide, prodSide, out>>

TypeOK ==
  /\ slabs \in [PoolSlots -> Slabs]
  /\ n_slabs_available \in 0 .. n_slabs
  /\ slabs_reserved \in [ReservedSlots -> Slabs]
  /\ n_slabs_reserved_available \in 0 .. n_slabs_reserved
  /\ cells \in [Slabs -> [Cells -> Buffers]]
  /\ live \subseteq Caches
  /\ slab_cons \in [Caches -> Slabs]
  /\ slab_prod \in [Caches -> Slabs]
  /\ n_buffers_cons \in [Caches -> 0 .. BuffersPerSlab]
  /\ n_buffers_prod \in [Caches -> 0 .. BuffersPerSlab]
  /\ out \subseteq Buffers

\* bpool_init: all slabs full, all reserved slabs zeroed by calloc and free.
PoolInit ==
  /\ slabs = [i \in PoolSlots |-> i]
  /\ n_slabs_available = n_slabs
  /\ slabs_reserved = [i \in ReservedSlots |-> n_slabs + i]
  /\ n_slabs_reserved_available = n_slabs_reserved
  /\ cells = [s \in Slabs |-> [i \in Cells |->
                IF s < n_slabs THEN s * BuffersPerSlab + i ELSE 0]]
  /\ live = {}
  /\ slab_cons = [c \in Caches |-> 0]
  /\ slab_prod = [c \in Caches |-> 0]
  /\ n_buffers_cons = [c \in Caches |-> 0]
  /\ n_buffers_prod = [c \in Caches |-> 0]
  /\ out = {}

------------------------------------------------------------------------------
\* bcache_init fails, and changes nothing, when no reserved slab is left.
bcache_init_ok == n_slabs_reserved_available # 0

bcache_init(c) ==
  /\ bcache_init_ok
  /\ live' = live \cup {c}
  /\ slab_cons' = [slab_cons EXCEPT
       ![c] = slabs_reserved[n_slabs_reserved_available - 1]]
  /\ slab_prod' = [slab_prod EXCEPT
       ![c] = slabs_reserved[n_slabs_reserved_available - 2]]
  /\ n_buffers_cons' = [n_buffers_cons EXCEPT ![c] = 0]
  /\ n_buffers_prod' = [n_buffers_prod EXCEPT ![c] = 0]
  /\ n_slabs_reserved_available' = n_slabs_reserved_available - 2
  /\ UNCHANGED <<pool, slabs_reserved, cells, out>>

\* The buffers still in the two slabs are not returned to the pool.  The fields
\* of a freed cache mean nothing; they are zero here.
bcache_free(c) ==
  /\ slabs_reserved' = [slabs_reserved EXCEPT
       ![n_slabs_reserved_available] = slab_prod[c],
       ![n_slabs_reserved_available + 1] = slab_cons[c]]
  /\ n_slabs_reserved_available' = n_slabs_reserved_available + 2
  /\ live' = live \ {c}
  /\ slab_cons' = [slab_cons EXCEPT ![c] = 0]
  /\ slab_prod' = [slab_prod EXCEPT ![c] = 0]
  /\ n_buffers_cons' = [n_buffers_cons EXCEPT ![c] = 0]
  /\ n_buffers_prod' = [n_buffers_prod EXCEPT ![c] = 0]
  /\ UNCHANGED <<pool, cells, out>>

\* What bcache_cons_check(bc, n) returns.  After a trade it is n, whatever
\* the size of a slab.
bcache_cons_check_ret(c, n) ==
  IF n_buffers_cons[c] # 0
  THEN IF n_buffers_cons[c] < n THEN n_buffers_cons[c] ELSE n
  ELSE IF n_slabs_available = 0 THEN 0 ELSE n

\* Mutant: the pool still counts the slab that was taken.
TradeConsumerSlab_NotCounted(c) ==
  /\ slabs' = [slabs EXCEPT ![n_slabs_available - 1] = slab_cons[c]]
  /\ slab_cons' = [slab_cons EXCEPT ![c] = slabs[n_slabs_available - 1]]
  /\ n_buffers_cons' = [n_buffers_cons EXCEPT ![c] = BuffersPerSlab]
  /\ UNCHANGED <<n_slabs_available, reserve, cells, live, prodSide, out>>

\* Trade the empty consumer slab for the topmost full slab of the pool.
TradeConsumerSlab(c) ==
  /\ n_slabs_available' = n_slabs_available - 1
  /\ slabs' = [slabs EXCEPT ![n_slabs_available - 1] = slab_cons[c]]
  /\ slab_cons' = [slab_cons EXCEPT ![c] = slabs[n_slabs_available - 1]]
  /\ n_buffers_cons' = [n_buffers_cons EXCEPT ![c] = BuffersPerSlab]
  /\ UNCHANGED <<reserve, cells, live, prodSide, out>>

bcache_cons_check(c) ==
  \/ /\ n_buffers_cons[c] = 0 /\ n_slabs_available # 0
     /\ TradeConsumerSlab(c)
  \/ /\ n_buffers_cons[c] # 0 \/ n_slabs_available = 0
     /\ UNCHANGED poolVars

\* The buffer bcache_cons returns: the topmost one of the consumer slab.
bcache_cons_ret(c) == cells[slab_cons[c]][n_buffers_cons[c] - 1]

\* Mutant: the counter of the consumer slab is not decremented.
bcache_cons_NotCounted(c) ==
  /\ out' = out \cup {bcache_cons_ret(c)}
  /\ UNCHANGED <<pool, reserve, cells, live, consSide, prodSide>>

bcache_cons(c) ==
  /\ n_buffers_cons' = [n_buffers_cons EXCEPT ![c] = @ - 1]
  /\ out' = out \cup {bcache_cons_ret(c)}
  /\ UNCHANGED <<pool, reserve, cells, live, slab_cons, prodSide>>

StoreInProducerSlab(c, buffer) ==
  /\ cells' = [cells EXCEPT ![slab_prod[c]][n_buffers_prod[c]] = buffer]
  /\ n_buffers_prod' = [n_buffers_prod EXCEPT ![c] = @ + 1]
  /\ out' = out \ {buffer}
  /\ UNCHANGED <<pool, reserve, live, consSide, slab_prod>>

\* Mutant: the buffer stored in the new slab is not counted.
TradeProducerSlab_NotCounted(c, buffer) ==
  /\ slabs' = [slabs EXCEPT ![n_slabs_available] = slab_prod[c]]
  /\ n_slabs_available' = n_slabs_available + 1
  /\ cells' = [cells EXCEPT ![slabs[n_slabs_available]][0] = buffer]
  /\ slab_prod' = [slab_prod EXCEPT ![c] = slabs[n_slabs_available]]
  /\ n_buffers_prod' = [n_buffers_prod EXCEPT ![c] = 0]
  /\ out' = out \ {buffer}
  /\ UNCHANGED <<reserve, live, consSide>>

\* Trade the full producer slab for the slab above the full ones, and put the
\* buffer in its first cell.
TradeProducerSlab(c, buffer) ==
  LET slab_empty == slabs[n_slabs_available]
  IN  /\ slabs' = [slabs EXCEPT ![n_slabs_available] = slab_prod[c]]
      /\ n_slabs_available' = n_slabs_available + 1
      /\ cells' = [cells EXCEPT ![slab_empty][0] = buffer]
      /\ slab_prod' = [slab_prod EXCEPT ![c] = slab_empty]
      /\ n_buffers_prod' = [n_buffers_prod EXCEPT ![c] = 1]
      /\ out' = out \ {buffer}
      /\ UNCHANGED <<reserve, live, consSide>>

bcache_prod(c, buffer) ==
  \/ /\ n_buffers_prod[c] < BuffersPerSlab
     /\ StoreInProducerSlab(c, buffer)
  \/ /\ n_buffers_prod[c] >= BuffersPerSlab
     /\ TradeProducerSlab(c, buffer)

------------------------------------------------------------------------------
\* The callers' contract: bcache_cons is called after a check that found a
\* buffer, and bcache_prod with a buffer that was handed out before.
PoolNext ==
  \/ \E c \in Caches \ live : bcache_init(c)
  \/ \E c \in live :
       \/ bcache_free(c)
       \/ bcache_cons_check(c)
       \/ n_buffers_cons[c] # 0 /\ bcache_cons(c)
       \/ \E buffer \in out : bcache_prod(c, buffer)

PoolSpec == PoolInit /\ [][PoolNext]_poolVars

------------------------------------------------------------------------------
\* Where the program may find a slab: the pool array, the free part of the
\* reserve, and the two fields of every allocated cache.
Places ==
  ({"pool"} \X PoolSlots)
    \cup ({"reserved"} \X (0 .. (n_slabs_reserved_available - 1)))
    \cup ({"cons", "prod"} \X live)

SlabAt(p) ==
  IF p[1] = "pool" THEN slabs[p[2]]
  ELSE IF p[1] = "reserved" THEN slabs_reserved[p[2]]
  ELSE IF p[1] = "cons" THEN slab_cons[p[2]]
  ELSE slab_prod[p[2]]

\* How many of its cells count: a full slab of the pool, the filled part of a
\* cache's slabs, none elsewhere.
FilledAt(p) ==
  IF p[1] = "pool" THEN IF p[2] < n_slabs_available THEN BuffersPerSlab ELSE 0
  ELSE IF p[1] = "reserved" THEN 0
  ELSE IF p[1] = "cons" THEN n_buffers_cons[p[2]]
  ELSE n_buffers_prod[p[2]]

LiveCells == {q \in Places \X Cells : q[2] < FilledAt(q[1])}
BufferIn(q) == cells[SlabAt(q[1])][q[2]]

\* Every buffer the program can still reach.
Reachable == out \cup {BufferIn(q) : q \in LiveCells}

\* No slab is held in two places: slabs only ever move by trades
\* (af_rxtx.c:146-148, 167-169, 204-211, 250-257), so two caches, or a cache
\* and the pool, never write the same array.
SlabsNotShared ==
  \A p, q \in Places : SlabAt(p) = SlabAt(q) => p = q

\* No buffer is in two places: one that was handed out by bcache_cons is in no
\* slab until bcache_prod gets it back, and no two filled cells hold the same
\* one, so the same UMEM frame is never given to two rings.
BuffersNotShared ==
  \A q \in LiveCells :
    /\ BufferIn(q) \notin out
    /\ \A r \in LiveCells : BufferIn(q) = BufferIn(r) => q = r

\* The comment of bcache_prod (af_rxtx.c:245-247): with a full producer slab in
\* a cache, the pool has an empty slab to trade it for, so
\* slabs[n_slabs_available] is inside the array.
EmptySlabGuaranteed ==
  \A c \in live :
    n_buffers_prod[c] = BuffersPerSlab => n_slabs_available < n_slabs

\* bcache_init takes reserved slabs two at a time (af_rxtx.c:140-148): what is
\* left is always what the allocated caches do not hold, so it is never one.
ReserveAccounting ==
  n_slabs_reserved_available + 2 * Cardinality(live) = n_slabs_reserved

\* The inductive invariant: no slab and no buffer has two owners, the reserve holds
\* exactly what the live caches do not, and every counter is in range.
PoolInv ==
  /\ TypeOK
  /\ SlabsNotShared
  /\ BuffersNotShared
  /\ ReserveAccounting
  /\ IsFiniteSet(live)

\* Only bcache_free drops buffers (its comment, af_rxtx.c:161-163): every other
\* call leaves the set of buffers the program can reach as it is.
OnlyFreeLosesBuffers ==
  [][live \subseteq live' => Reachable' = Reachable]_poolVars
==============================================================================
