-------------------------- MODULE BufferPool_proofs --------------------------
EXTENDS BufferPool, FiniteSetTheorems, TLAPS

\* What bpool_init computes from its parameters (af_rxtx.c:21-25): there is at
\* least one slab, and n_buffers is a positive multiple of the slab size.
LEMMA Dims ==
  /\ n_slabs \in Nat /\ n_slabs >= 1
  /\ n_slabs_reserved \in Nat
  /\ n_buffers \in Nat /\ n_buffers >= 1
  /\ BuffersPerSlab \in Nat /\ BuffersPerSlab >= 1
<1> DEFINE x == NBuffers + BuffersPerSlab - 1
           q == x \div BuffersPerSlab
<1>1. /\ NBuffers \in Nat \ {0} /\ BuffersPerSlab \in Nat \ {0} /\ NUsersMax \in Nat
      /\ x \in Nat /\ x >= BuffersPerSlab
  BY PoolAssumption
<1>2. /\ q \in Int
      /\ x = q * BuffersPerSlab + (x % BuffersPerSlab)
      /\ x % BuffersPerSlab \in 0 .. BuffersPerSlab - 1
  BY <1>1
<1>3. q \in Nat /\ q >= 1
  BY <1>1, <1>2
<1>4. q * BuffersPerSlab \in Nat /\ q * BuffersPerSlab >= 1
  BY <1>1, <1>3
<1> QED BY <1>1, <1>3, <1>4 DEF n_slabs, n_slabs_reserved, n_buffers

\* bpool_init numbers the buffers slab by slab (af_rxtx.c:54-68): the number
\* s * B + i is a buffer, and determines its slab s and its cell i.
LEMMA InitialBuffer ==
  ASSUME NEW s \in PoolSlots, NEW t \in PoolSlots, NEW i \in Cells, NEW j \in Cells
  PROVE  /\ s * BuffersPerSlab + i \in Buffers
         /\ s * BuffersPerSlab + i = t * BuffersPerSlab + j => s = t /\ i = j
<1> DEFINE B == BuffersPerSlab
           N == n_slabs
<1>0. /\ B \in Nat /\ B >= 1 /\ N \in Nat /\ N >= 1
      /\ s \in 0 .. N-1 /\ t \in 0 .. N-1 /\ i \in 0 .. B-1 /\ j \in 0 .. B-1
  BY Dims DEF PoolSlots, Cells
<1> HIDE DEF B, N
<1>1. ASSUME NEW a \in Nat, NEW b \in Nat, a < b
      PROVE  a * B + B <= b * B
  <2>1. PICK d \in Nat : b = a + 1 + d  
    <3>1. b - a - 1 \in Nat /\ b = a + 1 + (b - a - 1) BY <1>1
    <3> QED BY <3>1
  <2>2. b * B = a * B + B + d * B BY <2>1, <1>0
  <2>3. d * B \in Nat /\ a * B \in Nat BY <1>0
  <2> QED BY <2>2, <2>3, <1>0
<1>2. s * B \in Nat /\ t * B \in Nat /\ N * B \in Nat BY <1>0
<1>3. s * B + B <= N * B BY <1>1, <1>0
<1>4. s * B + i \in 0 .. (N * B - 1) BY <1>2, <1>3, <1>0
<1>5. s < t => s * B + B <= t * B BY <1>1, <1>0
<1>6. t < s => t * B + B <= s * B BY <1>1, <1>0
<1>7. s * B + i = t * B + j => s = t 
  BY <1>5, <1>6, <1>2, <1>0
<1>8. s * B + i = t * B + j => i = j
  BY <1>7, <1>2, <1>0
<1> QED BY <1>4, <1>7, <1>8 DEF Buffers, n_buffers, B, N

------------------------------------------------------------------------------
\* The places where a slab can be held, case by case.
LEMMA InPlaces ==
  ASSUME NEW p
  PROVE  p \in Places <=>
           \/ \E k \in PoolSlots : p = <<"pool", k>>
           \/ \E k \in 0 .. (n_slabs_reserved_available - 1) : p = <<"reserved", k>>
           \/ \E c \in live : p = <<"cons", c>>
           \/ \E c \in live : p = <<"prod", c>>
BY DEF Places

\* The same after a step.
LEMMA InPlacesNext ==
  ASSUME NEW p
  PROVE  p \in Places' <=>
           \/ \E k \in PoolSlots : p = <<"pool", k>>
           \/ \E k \in 0 .. (n_slabs_reserved_available' - 1) : p = <<"reserved", k>>
           \/ \E c \in live' : p = <<"cons", c>>
           \/ \E c \in live' : p = <<"prod", c>>
BY DEF Places, PoolSlots

PlacesTyped ==
  \A p \in Places : SlabAt(p) \in Slabs /\ FilledAt(p) \in 0 .. BuffersPerSlab

\* Every place holds a slab, with at most B filled cells.
LEMMA PlaceTypes == TypeOK => PlacesTyped
<1> SUFFICES ASSUME TypeOK, NEW p \in Places
             PROVE  SlabAt(p) \in Slabs /\ FilledAt(p) \in 0 .. BuffersPerSlab
  BY DEF PlacesTyped
<1>1. CASE \E k \in PoolSlots : p = <<"pool", k>>
  BY <1>1, Dims DEF TypeOK, SlabAt, FilledAt
<1>2. CASE \E k \in 0 .. (n_slabs_reserved_available - 1) : p = <<"reserved", k>>
  BY <1>2, Dims DEF TypeOK, SlabAt, FilledAt, ReservedSlots
<1>3. CASE \E c \in live : p = <<"cons", c>>
  BY <1>3, Dims DEF TypeOK, SlabAt, FilledAt
<1>4. CASE \E c \in live : p = <<"prod", c>>
  BY <1>4, Dims DEF TypeOK, SlabAt, FilledAt
<1> QED BY <1>1, <1>2, <1>3, <1>4, InPlaces

\* The same after a step.
LEMMA PlaceTypesNext == TypeOK' => PlacesTyped'
BY PlaceTypes, PTL

\* Every trade of slabs (af_rxtx.c:146-148, 167-169, 204-211) is a renaming: each
\* place of the new state holds the slab of a place pi[p] of the old one, no two
\* places get the same slab, and no place counts more filled cells than the slab
\* had.  A renaming that leaves the contents of the slabs alone keeps both
\* ownership invariants.
LEMMA Renaming ==
  ASSUME TypeOK, TypeOK', SlabsNotShared, BuffersNotShared,
         cells' = cells, out' = out, NEW pi,
         \A p \in Places' : /\ pi[p] \in Places
                            /\ SlabAt(p)' = SlabAt(pi[p])
                            /\ FilledAt(p)' <= FilledAt(pi[p]),
         \A p, q \in Places' : pi[p] = pi[q] => p = q
  PROVE  SlabsNotShared' /\ BuffersNotShared'
<1>1. SlabsNotShared'
  BY DEF SlabsNotShared
<1>2. ASSUME NEW q \in LiveCells'
      PROVE  /\ q = <<q[1], q[2]>> /\ q[1] \in Places' /\ q[2] \in Cells
             /\ <<pi[q[1]], q[2]>> \in LiveCells
             /\ BufferIn(q)' = BufferIn(<<pi[q[1]], q[2]>>)
  <2>1. q = <<q[1], q[2]>> /\ q[1] \in Places' /\ q[2] \in Cells /\ q[2] < FilledAt(q[1])'
    BY DEF LiveCells, Cells
  <2>2. q[2] < FilledAt(pi[q[1]])
    BY <2>1, PlaceTypes, PlaceTypesNext, Dims DEF Cells, PlacesTyped
  <2>3. <<pi[q[1]], q[2]>> \in LiveCells
    BY <2>1, <2>2 DEF LiveCells
  <2>4. BufferIn(q)' = BufferIn(<<pi[q[1]], q[2]>>)
    BY <2>1 DEF BufferIn
  <2> QED BY <2>1, <2>3, <2>4
<1>3. ASSUME NEW q \in LiveCells' PROVE BufferIn(q)' \notin out'
  BY <1>2, Zenon DEF BuffersNotShared
<1>4. ASSUME NEW q \in LiveCells', NEW r \in LiveCells', BufferIn(q)' = BufferIn(r)'
      PROVE  q = r
  <2> DEFINE a == <<pi[q[1]], q[2]>>
             b == <<pi[r[1]], r[2]>>
  <2>1. a \in LiveCells /\ b \in LiveCells /\ BufferIn(a) = BufferIn(b)
    BY <1>2, <1>4
  <2>2. a = b
    <3> HIDE DEF a, b
    <3> QED BY <2>1 DEF BuffersNotShared
  <2>3. pi[q[1]] = pi[r[1]] /\ q[2] = r[2]
    BY <2>2
  <2> QED BY <2>3, <1>2, Zenon
<1> QED BY <1>1, <1>3, <1>4 DEF BuffersNotShared

------------------------------------------------------------------------------
\* bcache_cons_check swaps the consumer slab with the topmost full slab.
LEMMA ConsumerTrade ==
  ASSUME PoolInv, NEW c \in live, n_buffers_cons[c] = 0, n_slabs_available # 0,
         TradeConsumerSlab(c)
  PROVE  PoolInv'
<1> USE DEF PoolInv
<1> DEFINE a == n_slabs_available - 1
           P == <<"pool", a>>
           C == <<"cons", c>>
           pi == [p \in Places |-> IF p = P THEN C ELSE IF p = C THEN P ELSE p]
<1>1. a \in PoolSlots /\ c \in Caches /\ a \in Nat /\ n_slabs_available = a + 1
  BY Dims DEF TypeOK, PoolSlots
<1>2. TypeOK'
  <2>1. slabs' \in [PoolSlots -> Slabs] /\ slab_cons' \in [Caches -> Slabs]
    BY <1>1 DEF TypeOK, TradeConsumerSlab
  <2>2. n_slabs_available' \in 0 .. n_slabs
    BY <1>1, Dims DEF TypeOK, TradeConsumerSlab
  <2>3. n_buffers_cons' \in [Caches -> 0 .. BuffersPerSlab]
    BY <1>1, Dims DEF TypeOK, TradeConsumerSlab
  <2> QED BY <2>1, <2>2, <2>3
       DEF TypeOK, TradeConsumerSlab, reserve, prodSide
<1>3. Places' = Places
  BY DEF Places, TradeConsumerSlab, reserve
<1>4. ASSUME NEW p \in Places
      PROVE  /\ pi[p] \in Places
             /\ SlabAt(p)' = SlabAt(pi[p])
             /\ FilledAt(p)' <= FilledAt(pi[p])
  <2>0. P \in Places /\ C \in Places /\ P # C
    BY <1>1, InPlaces
  <2>1. CASE \E k \in PoolSlots : p = <<"pool", k>>
    BY <2>0, <2>1, <1>1, Dims DEF SlabAt, FilledAt, TradeConsumerSlab, TypeOK, PoolSlots
  <2>2. CASE \E k \in 0 .. (n_slabs_reserved_available - 1) : p = <<"reserved", k>>
    BY <2>0, <2>2, <1>1, Dims DEF SlabAt, FilledAt, TradeConsumerSlab, TypeOK, reserve
  <2>3. CASE \E d \in live : p = <<"cons", d>>
    BY <2>0, <2>3, <1>1, Dims DEF SlabAt, FilledAt, TradeConsumerSlab, TypeOK
  <2>4. CASE \E d \in live : p = <<"prod", d>>
    BY <2>0, <2>4, <1>1, Dims DEF SlabAt, FilledAt, TradeConsumerSlab, TypeOK, prodSide
  <2> QED BY <2>1, <2>2, <2>3, <2>4, InPlaces
<1>5. ASSUME NEW p \in Places, NEW q \in Places, pi[p] = pi[q] PROVE p = q
  BY <1>5
<1>6. SlabsNotShared' /\ BuffersNotShared'
  <2> HIDE DEF pi
  <2>1. cells' = cells /\ out' = out
    BY DEF TradeConsumerSlab
  <2> QED BY <1>2, <1>3, <1>4, <1>5, <2>1, Renaming
<1>7. ReserveAccounting' /\ IsFiniteSet(live)'
  BY DEF ReserveAccounting, TradeConsumerSlab, reserve
<1> QED BY <1>2, <1>6, <1>7

\* bcache_init moves two slabs from the reserve to the new cache.
LEMMA Allocation ==
  ASSUME PoolInv, NEW c \in Caches \ live, bcache_init(c)
  PROVE  PoolInv'
<1> USE DEF PoolInv
<1> DEFINE a == n_slabs_reserved_available
           C == <<"cons", c>>
           D == <<"prod", c>>
           pi == [p \in Places' |-> IF p = C THEN <<"reserved", a - 1>>
                                    ELSE IF p = D THEN <<"reserved", a - 2>> ELSE p]
<1>1. /\ a \in Nat /\ a >= 2 /\ a - 1 \in ReservedSlots /\ a - 2 \in ReservedSlots
      /\ Cardinality(live) \in Nat
  <2>1. Cardinality(live) \in Nat
    BY FS_CardinalityType
  <2>2. a \in Nat /\ a # 0 /\ a <= n_slabs_reserved /\ a + 2 * Cardinality(live) = NUsersMax * 2
    BY Dims DEF TypeOK, bcache_init, bcache_init_ok, ReserveAccounting, n_slabs_reserved
  <2>3. a >= 2
    BY <2>1, <2>2, PoolAssumption
  <2> QED BY <2>1, <2>2, <2>3, Dims DEF ReservedSlots
<1>2. TypeOK'
  <2>1. slab_cons' \in [Caches -> Slabs] /\ slab_prod' \in [Caches -> Slabs]
    BY <1>1 DEF TypeOK, bcache_init
  <2>2. n_slabs_reserved_available' \in 0 .. n_slabs_reserved
    BY <1>1, Dims DEF TypeOK, bcache_init
  <2>3. /\ n_buffers_cons' \in [Caches -> 0 .. BuffersPerSlab]
        /\ n_buffers_prod' \in [Caches -> 0 .. BuffersPerSlab]
    BY Dims DEF TypeOK, bcache_init
  <2>4. live' \subseteq Caches
    BY DEF TypeOK, bcache_init
  <2> QED BY <2>1, <2>2, <2>3, <2>4 DEF TypeOK, bcache_init, pool
<1>3. ASSUME NEW p \in Places'
      PROVE  /\ pi[p] \in Places
             /\ SlabAt(p)' = SlabAt(pi[p])
             /\ FilledAt(p)' <= FilledAt(pi[p])
             /\ p # C /\ p # D => p \in Places
                /\ p # <<"reserved", a - 1>> /\ p # <<"reserved", a - 2>>
  <2>0. <<"reserved", a - 1>> \in Places /\ <<"reserved", a - 2>> \in Places
    BY <1>1, InPlaces
  <2>1. CASE \E k \in PoolSlots : p = <<"pool", k>>
    BY <2>1, InPlaces, Dims DEF SlabAt, FilledAt, bcache_init, pool
  <2>2. CASE \E k \in 0 .. (n_slabs_reserved_available' - 1) : p = <<"reserved", k>>
    <3>1. PICK k \in 0 .. (a - 3) : p = <<"reserved", k>>
      BY <2>2, <1>1 DEF bcache_init
    <3>2. k \in 0 .. (a - 1) /\ k # a - 1 /\ k # a - 2
      BY <3>1, <1>1
    <3>3. p \in Places
      BY <3>1, <3>2, InPlaces
    <3> QED BY <3>1, <3>2, <3>3 DEF SlabAt, FilledAt, bcache_init
  <2>3. CASE p = C
    BY <2>3, <2>0, <1>1, Dims DEF SlabAt, FilledAt, bcache_init, TypeOK
  <2>4. CASE p = D
    BY <2>4, <2>0, <1>1, Dims DEF SlabAt, FilledAt, bcache_init, TypeOK
  <2>5. CASE \E d \in live : p = <<"cons", d>>
    BY <2>5, InPlaces, PlaceTypes, Dims DEF SlabAt, FilledAt, bcache_init, TypeOK, PlacesTyped
  <2>6. CASE \E d \in live : p = <<"prod", d>>
    BY <2>6, InPlaces, PlaceTypes, Dims DEF SlabAt, FilledAt, bcache_init, TypeOK, PlacesTyped
  <2>7. live' = live \cup {c}
    BY DEF bcache_init
  <2> QED BY <2>1, <2>2, <2>3, <2>4, <2>5, <2>6, <2>7, InPlacesNext
<1>4. ASSUME NEW p \in Places', NEW q \in Places', pi[p] = pi[q] PROVE p = q
  <2>1. <<"reserved", a - 1>> # <<"reserved", a - 2>> /\ C # D
    BY <1>1
  <2>2. CASE p # C /\ p # D
    BY <2>1, <2>2, <1>3, <1>4
  <2>3. CASE q # C /\ q # D
    BY <2>1, <2>3, <1>3, <1>4
  <2> QED BY <2>1, <2>2, <2>3, <1>4
<1>5. SlabsNotShared' /\ BuffersNotShared'
  <2> HIDE DEF pi
  <2>1. cells' = cells /\ out' = out
    BY DEF bcache_init
  <2> QED BY <1>2, <1>3, <1>4, <2>1, Renaming
<1>6. ReserveAccounting' /\ IsFiniteSet(live)'
  <2>1. live' = live \cup {c} /\ c \notin live
    BY DEF bcache_init
  <2>2. IsFiniteSet(live') /\ Cardinality(live') = Cardinality(live) + 1
    BY <2>1, FS_AddElement
  <2> QED BY <2>2, <1>1, Dims DEF ReserveAccounting, bcache_init
<1> QED BY <1>2, <1>5, <1>6

\* bcache_free moves the two slabs of the cache to the reserve.
LEMMA Deallocation ==
  ASSUME PoolInv, NEW c \in live, bcache_free(c)
  PROVE  PoolInv'
<1> USE DEF PoolInv
<1> DEFINE a == n_slabs_reserved_available
           C == <<"cons", c>>
           D == <<"prod", c>>
           R == <<"reserved", a>>
           S == <<"reserved", a + 1>>
           pi == [p \in Places' |-> IF p = R THEN D ELSE IF p = S THEN C ELSE p]
<1>1. /\ a \in Nat /\ a \in ReservedSlots /\ a + 1 \in ReservedSlots
      /\ Cardinality(live) \in Nat /\ c \in Caches
  <2>1. Cardinality(live) \in Nat /\ Cardinality(live) # 0
    BY FS_CardinalityType, FS_EmptySet
  <2>2. a \in Nat /\ a + 2 * Cardinality(live) = n_slabs_reserved
    BY Dims DEF TypeOK, ReserveAccounting
  <2> QED BY <2>1, <2>2, Dims DEF ReservedSlots, TypeOK
<1>2. TypeOK'
  <2>1. slabs_reserved' \in [ReservedSlots -> Slabs]
    BY <1>1 DEF TypeOK, bcache_free
  <2>2. n_slabs_reserved_available' \in 0 .. n_slabs_reserved
    BY <1>1, Dims DEF TypeOK, bcache_free, ReservedSlots
  <2>3. /\ n_buffers_cons' \in [Caches -> 0 .. BuffersPerSlab]
        /\ n_buffers_prod' \in [Caches -> 0 .. BuffersPerSlab]
    BY Dims DEF TypeOK, bcache_free
  <2>4. 0 \in Slabs
    BY Dims DEF Slabs
  <2>5. slab_cons' \in [Caches -> Slabs] /\ slab_prod' \in [Caches -> Slabs]
    BY <2>4 DEF TypeOK, bcache_free
  <2> QED BY <2>1, <2>2, <2>3, <2>5, Zenon DEF TypeOK, bcache_free, pool
<1>3. ASSUME NEW p \in Places'
      PROVE  /\ pi[p] \in Places
             /\ SlabAt(p)' = SlabAt(pi[p])
             /\ FilledAt(p)' <= FilledAt(pi[p])
             /\ p # C /\ p # D
  <2>0. C \in Places /\ D \in Places
    BY InPlaces
  <2>1. CASE \E k \in PoolSlots : p = <<"pool", k>>
    BY <2>1, InPlaces, Dims DEF SlabAt, FilledAt, bcache_free, pool
  <2>2. CASE p = R
    BY <2>2, <2>0, <1>1, PlaceTypes, Dims
       DEF SlabAt, FilledAt, bcache_free, TypeOK, ReservedSlots, PlacesTyped
  <2>3. CASE p = S
    BY <2>3, <2>0, <1>1, PlaceTypes, Dims
       DEF SlabAt, FilledAt, bcache_free, TypeOK, ReservedSlots, PlacesTyped
  <2>4. CASE \E k \in 0 .. (a - 1) : p = <<"reserved", k>>
    <3>1. PICK k \in 0 .. (a - 1) : p = <<"reserved", k>>
      BY <2>4
    <3>2. k \in ReservedSlots /\ k # a /\ k # a + 1
      BY <1>1, Dims DEF ReservedSlots
    <3>3. p \in Places
      BY <3>1, InPlaces
    <3> QED BY <3>1, <3>2, <3>3, <1>1 DEF SlabAt, FilledAt, bcache_free, TypeOK
  <2>5. CASE \E d \in live \ {c} : p = <<"cons", d>>
    BY <2>5, InPlaces, PlaceTypes, Dims DEF SlabAt, FilledAt, bcache_free, TypeOK, PlacesTyped
  <2>6. CASE \E d \in live \ {c} : p = <<"prod", d>>
    BY <2>6, InPlaces, PlaceTypes, Dims DEF SlabAt, FilledAt, bcache_free, TypeOK, PlacesTyped
  <2>7. live' = live \ {c} /\ n_slabs_reserved_available' = a + 2
    BY DEF bcache_free
  <2>8. (\E k \in 0 .. (n_slabs_reserved_available' - 1) : p = <<"reserved", k>>)
          => p = R \/ p = S \/ \E k \in 0 .. (a - 1) : p = <<"reserved", k>>
    BY <2>7, <1>1
  <2> QED BY <2>1, <2>2, <2>3, <2>4, <2>5, <2>6, <2>7, <2>8, InPlacesNext
<1>4. ASSUME NEW p \in Places', NEW q \in Places', pi[p] = pi[q] PROVE p = q
  BY <1>3, <1>4
<1>5. SlabsNotShared' /\ BuffersNotShared'
  <2> HIDE DEF pi
  <2>1. cells' = cells /\ out' = out
    BY DEF bcache_free
  <2> QED BY <1>2, <1>3, <1>4, <2>1, Renaming
<1>6. ReserveAccounting' /\ IsFiniteSet(live)'
  <2>1. live' = live \ {c}
    BY DEF bcache_free
  <2>2. IsFiniteSet(live') /\ Cardinality(live') = Cardinality(live) - 1
    BY <2>1, FS_RemoveElement
  <2> QED BY <2>2, <1>1, Dims DEF ReserveAccounting, bcache_free
<1> QED BY <1>2, <1>5, <1>6

\* bcache_cons hands the topmost buffer of the consumer slab out.
LEMMA Consumption ==
  ASSUME PoolInv, NEW c \in live, n_buffers_cons[c] # 0, bcache_cons(c)
  PROVE  PoolInv'
<1> USE DEF PoolInv
<1> DEFINE n == n_buffers_cons[c] - 1
           C == <<"cons", c>>
           w == <<C, n>>
<1>1. /\ c \in Caches /\ n \in Cells /\ n_buffers_cons[c] = n + 1
      /\ C \in Places /\ w \in LiveCells /\ bcache_cons_ret(c) = BufferIn(w)
      /\ bcache_cons_ret(c) \in Buffers
  <2>1. c \in Caches /\ n \in Cells /\ n_buffers_cons[c] = n + 1 /\ n < n_buffers_cons[c]
    BY Dims DEF TypeOK, Cells
  <2>2. C \in Places
    BY InPlaces
  <2>3. w \in LiveCells
    BY <2>1, <2>2 DEF LiveCells, FilledAt
  <2>4. bcache_cons_ret(c) = BufferIn(w) /\ bcache_cons_ret(c) \in Buffers
    BY <2>1 DEF BufferIn, SlabAt, bcache_cons_ret, TypeOK
  <2> QED BY <2>1, <2>2, <2>3, <2>4
<1>2. TypeOK'
  <2>1. n_buffers_cons' \in [Caches -> 0 .. BuffersPerSlab]
    BY <1>1, Dims DEF TypeOK, bcache_cons, Cells
  <2>2. out' \subseteq Buffers
    BY <1>1 DEF TypeOK, bcache_cons
  <2> QED BY <2>1, <2>2 DEF TypeOK, bcache_cons, pool, reserve, prodSide
<1>3. /\ Places' = Places
      /\ \A p \in Places : SlabAt(p)' = SlabAt(p)
      /\ \A p \in Places : p # C => FilledAt(p)' = FilledAt(p)
      /\ FilledAt(C)' = n /\ FilledAt(C) = n + 1
      /\ cells' = cells
  <2>1. Places' = Places /\ cells' = cells
    BY DEF Places, bcache_cons, reserve
  <2>2. \A p \in Places : SlabAt(p)' = SlabAt(p)
    BY DEF SlabAt, bcache_cons, pool, reserve, prodSide
  <2>3. FilledAt(C)' = n /\ FilledAt(C) = n + 1
    BY <1>1, Dims DEF FilledAt, bcache_cons, TypeOK
  <2>4. ASSUME NEW p \in Places, p # C PROVE FilledAt(p)' = FilledAt(p)
    BY <2>4, InPlaces, <1>1 DEF FilledAt, bcache_cons, pool, reserve, prodSide, TypeOK
  <2> QED BY <2>1, <2>2, <2>3, <2>4
<1>4. SlabsNotShared'
  BY <1>3 DEF SlabsNotShared
<1>5. ASSUME NEW q \in LiveCells'
      PROVE  q \in LiveCells /\ q # w /\ BufferIn(q)' = BufferIn(q)
  <2>1. q = <<q[1], q[2]>> /\ q[1] \in Places /\ q[2] \in Cells /\ q[2] < FilledAt(q[1])'
    BY <1>3 DEF LiveCells, Cells
  <2>2. q \in LiveCells /\ q # w
    BY <2>1, <1>1, <1>3, Dims DEF LiveCells, Cells
  <2> QED BY <2>1, <2>2, <1>3 DEF BufferIn
<1>6. BuffersNotShared'
  <2>1. out' = out \cup {BufferIn(w)}
    BY <1>1 DEF bcache_cons
  <2> QED BY <1>1, <1>5, <2>1 DEF BuffersNotShared
<1>7. ReserveAccounting' /\ IsFiniteSet(live)'
  BY DEF ReserveAccounting, bcache_cons, reserve
<1> QED BY <1>2, <1>4, <1>6, <1>7

\* A renaming of places followed by a store: bcache_prod with a distinguished
\* place D whose slab gets the returned buffer in cell n.
LEMMA StoreRenaming ==
  ASSUME TypeOK, TypeOK', SlabsNotShared, BuffersNotShared,
         NEW pi, NEW D \in Places', NEW n \in Cells, NEW buffer \in out,
         \A p \in Places' : /\ pi[p] \in Places
                            /\ SlabAt(p)' = SlabAt(pi[p])
                            /\ p # D => FilledAt(p)' <= FilledAt(pi[p]),
         \A p, q \in Places' : pi[p] = pi[q] => p = q,
         FilledAt(D)' = n + 1, n <= FilledAt(pi[D]),
         cells' = [cells EXCEPT ![SlabAt(pi[D])][n] = buffer],
         out' = out \ {buffer}
  PROVE  SlabsNotShared' /\ BuffersNotShared'
<1>1. SlabsNotShared'
  BY DEF SlabsNotShared
<1>0. /\ pi[D] \in Places /\ SlabAt(pi[D]) \in Slabs
      /\ cells \in [Slabs -> [Cells -> Buffers]]
  BY PlaceTypes DEF PlacesTyped, TypeOK
<1> DEFINE w == <<D, n>>
<1>2. ASSUME NEW q \in LiveCells'
      PROVE  /\ q = <<q[1], q[2]>> /\ q[1] \in Places' /\ q[2] \in Cells
             /\ q = w => BufferIn(q)' = buffer
             /\ q # w => /\ <<pi[q[1]], q[2]>> \in LiveCells
                        /\ BufferIn(q)' = BufferIn(<<pi[q[1]], q[2]>>)
  <2>1. q = <<q[1], q[2]>> /\ q[1] \in Places' /\ q[2] \in Cells /\ q[2] < FilledAt(q[1])'
    BY DEF LiveCells, Cells
  <2>2. ASSUME q = w PROVE BufferIn(q)' = buffer
    <3>1. SlabAt(D)' = SlabAt(pi[D])
      OBVIOUS
    <3>2. BufferIn(q)' = cells'[SlabAt(pi[D])][n]
      BY <2>2, <3>1 DEF BufferIn
    <3> QED BY <3>2, <1>0
  <2>3. ASSUME q # w PROVE q[2] < FilledAt(pi[q[1]])
    <3>1. CASE q[1] = D
      BY <2>1, <2>3, <3>1, PlaceTypes, Dims DEF Cells, PlacesTyped
    <3>2. CASE q[1] # D
      BY <2>1, <3>2, PlaceTypes, PlaceTypesNext, Dims DEF Cells, PlacesTyped
    <3> QED BY <3>1, <3>2
  <2>4. ASSUME q # w PROVE <<pi[q[1]], q[2]>> \in LiveCells
    BY <2>1, <2>3, <2>4 DEF LiveCells
  <2>5. ASSUME q # w PROVE BufferIn(q)' = BufferIn(<<pi[q[1]], q[2]>>)
    <3>1. SlabAt(pi[q[1]]) = SlabAt(pi[D]) => q[1] = D
      BY <2>1, <1>0 DEF SlabsNotShared
    <3>2. SlabAt(pi[q[1]]) \in Slabs
      BY <2>1, PlaceTypes DEF PlacesTyped
    <3>3. BufferIn(q)' = cells'[SlabAt(pi[q[1]])][q[2]]
      BY <2>1 DEF BufferIn
    <3>4. cells'[SlabAt(pi[q[1]])][q[2]] = cells[SlabAt(pi[q[1]])][q[2]]
      BY <3>1, <3>2, <2>1, <2>5, <1>0
    <3> QED BY <3>3, <3>4 DEF BufferIn
  <2> QED BY <2>1, <2>2, <2>4, <2>5
<1>3. ASSUME NEW q \in LiveCells' PROVE BufferIn(q)' \notin out'
  BY <1>2, Zenon DEF BuffersNotShared
<1>4. ASSUME NEW q \in LiveCells', NEW r \in LiveCells', BufferIn(q)' = BufferIn(r)'
      PROVE  q = r
  <2> DEFINE a == <<pi[q[1]], q[2]>>
             b == <<pi[r[1]], r[2]>>
  <2>0. q # w => a \in LiveCells /\ BufferIn(a) = BufferIn(q)'
    BY <1>2
  <2>1. r # w => b \in LiveCells /\ BufferIn(b) = BufferIn(r)'
    BY <1>2
  <2>2. (q = w /\ r = w) \/ (q # w /\ r # w)
    <3> HIDE DEF a, b, w
    <3>1. (q = w => BufferIn(q)' = buffer) /\ (r = w => BufferIn(r)' = buffer)
      BY <1>2, Zenon DEF w
    <3> QED BY <3>1, <2>0, <2>1, <1>4 DEF BuffersNotShared
  <2>3. q # w /\ r # w => a = b
    <3> HIDE DEF a, b
    <3> QED BY <2>0, <2>1, <1>4 DEF BuffersNotShared
  <2>4. q # w /\ r # w => pi[q[1]] = pi[r[1]] /\ q[2] = r[2]
    BY <2>3
  <2> QED BY <2>2, <2>4, <1>2, Zenon
<1> QED BY <1>1, <1>3, <1>4 DEF BuffersNotShared

\* bcache_prod with room in the producer slab: the identity renaming and a store.
LEMMA Store ==
  ASSUME PoolInv, NEW c \in live, NEW buffer \in out,
         n_buffers_prod[c] < BuffersPerSlab, StoreInProducerSlab(c, buffer)
  PROVE  PoolInv'
<1> USE DEF PoolInv
<1> DEFINE n == n_buffers_prod[c]
           D == <<"prod", c>>
           pi == [p \in Places' |-> p]
<1>1. c \in Caches /\ n \in Cells /\ buffer \in Buffers /\ slab_prod[c] \in Slabs
  BY Dims DEF TypeOK, Cells
<1>2. TypeOK'
  <2>1. n_buffers_prod' \in [Caches -> 0 .. BuffersPerSlab]
    BY <1>1, Dims DEF TypeOK, StoreInProducerSlab, Cells
  <2>2. cells' \in [Slabs -> [Cells -> Buffers]]
    BY <1>1 DEF TypeOK, StoreInProducerSlab
  <2> QED BY <2>1, <2>2 DEF TypeOK, StoreInProducerSlab, pool, reserve, consSide
<1>3. Places' = Places /\ D \in Places
  BY InPlaces DEF Places, StoreInProducerSlab, reserve
<1>4. \A p \in Places : SlabAt(p)' = SlabAt(p)
  BY DEF SlabAt, StoreInProducerSlab, pool, reserve, consSide
<1>5. ASSUME NEW p \in Places, p # D PROVE FilledAt(p)' = FilledAt(p)
  BY <1>5, InPlaces, <1>1 DEF FilledAt, StoreInProducerSlab, pool, reserve, consSide, TypeOK
<1>6. FilledAt(D)' = n + 1 /\ FilledAt(D) = n /\ SlabAt(D) = slab_prod[c]
  BY <1>1 DEF FilledAt, SlabAt, StoreInProducerSlab, TypeOK
<1>7. \A p \in Places' : /\ pi[p] \in Places
                         /\ SlabAt(p)' = SlabAt(pi[p])
                         /\ p # D => FilledAt(p)' <= FilledAt(pi[p])
  BY <1>3, <1>4, <1>5, PlaceTypes, Dims DEF PlacesTyped
<1>8. \A p, q \in Places' : pi[p] = pi[q] => p = q
  OBVIOUS
<1>9. pi[D] = D
  BY <1>3
<1>10. SlabsNotShared' /\ BuffersNotShared'
  <2>1. n <= FilledAt(pi[D])
    BY <1>6, <1>9, <1>1 DEF Cells
  <2>2. cells' = [cells EXCEPT ![SlabAt(pi[D])][n] = buffer] /\ out' = out \ {buffer}
    BY <1>6, <1>9, Zenon DEF StoreInProducerSlab
  <2>3. D \in Places'
    BY <1>3
  <2> HIDE DEF pi, D, n
  <2> QED BY <1>1, <1>2, <1>6, <1>7, <1>8, <2>1, <2>2, <2>3, StoreRenaming, Zenon
<1>11. ReserveAccounting' /\ IsFiniteSet(live)'
  BY DEF ReserveAccounting, StoreInProducerSlab, reserve
<1> QED BY <1>2, <1>10, <1>11

\* The counting argument behind the comment of bcache_prod: if all n_slabs
\* slabs of the pool were full, their cells and one filled cell of a producer
\* slab would be more cells than there are buffers, and two would hold the same.
LEMMA Guarantee == PoolInv => EmptySlabGuaranteed
<1> SUFFICES ASSUME PoolInv, NEW c \in live,
                    n_buffers_prod[c] = BuffersPerSlab, ~(n_slabs_available < n_slabs)
             PROVE  FALSE
  BY DEF EmptySlabGuaranteed
<1> USE DEF PoolInv
<1>1. n_slabs_available = n_slabs
  BY Dims DEF TypeOK
<1> DEFINE w == <<<<"prod", c>>, 0>>
           X == ({"pool"} \X PoolSlots) \X Cells
           Y == X \cup {w}
           f == [q \in Y |-> BufferIn(q)]
<1>2. IsFiniteSet(X) /\ Cardinality(X) = n_slabs * BuffersPerSlab
  <2>1. IsFiniteSet(PoolSlots) /\ Cardinality(PoolSlots) = n_slabs
    BY Dims, FS_Interval DEF PoolSlots
  <2>2. IsFiniteSet(Cells) /\ Cardinality(Cells) = BuffersPerSlab
    BY Dims, FS_Interval DEF Cells
  <2>3. IsFiniteSet({"pool"}) /\ Cardinality({"pool"}) = 1
    BY FS_Singleton, Zenon
  <2>4. IsFiniteSet({"pool"} \X PoolSlots) /\ Cardinality({"pool"} \X PoolSlots) = n_slabs
    <3>1. /\ IsFiniteSet({"pool"} \X PoolSlots)
          /\ Cardinality({"pool"} \X PoolSlots) = Cardinality({"pool"}) * Cardinality(PoolSlots)
      BY <2>1, <2>3, FS_Product
    <3>2. 1 * n_slabs = n_slabs
      BY Dims
    <3> QED BY <3>1, <3>2, <2>1, <2>3
  <2> QED BY <2>2, <2>4, FS_Product
<1>3. w \notin X
  OBVIOUS
<1>4. IsFiniteSet(Y) /\ Cardinality(Y) = n_buffers + 1
  BY <1>2, <1>3, FS_AddElement, Zenon DEF n_buffers
<1>5. IsFiniteSet(Buffers) /\ Cardinality(Buffers) = n_buffers
  BY Dims, FS_Interval DEF Buffers
<1>6. Y \subseteq LiveCells
  <2>1. w \in LiveCells
    BY InPlaces, Dims DEF LiveCells, FilledAt, Cells
  <2>2. ASSUME NEW q \in X PROVE q \in LiveCells
    <3>1. PICK k \in PoolSlots, i \in Cells : q = <<<<"pool", k>>, i>>
      OBVIOUS
    <3>2. <<"pool", k>> \in Places
      BY InPlaces
    <3>3. FilledAt(<<"pool", k>>) = BuffersPerSlab
      BY <1>1, Dims DEF FilledAt, PoolSlots
    <3> QED BY <3>1, <3>2, <3>3, Dims DEF LiveCells, Cells
  <2> QED BY <2>1, <2>2
<1>7. f \in [Y -> Buffers]
  <2>1. ASSUME NEW q \in LiveCells PROVE BufferIn(q) \in Buffers
    BY PlaceTypes DEF LiveCells, BufferIn, PlacesTyped, TypeOK
  <2> QED BY <1>6, <2>1
<1>8. PICK x \in Y, y \in Y : x # y /\ f[x] = f[y]
  <2> HIDE DEF f, Y
  <2> QED BY <1>4, <1>5, <1>7, Dims, FS_PigeonHole
<1> QED
  <2>1. BufferIn(x) = BufferIn(y)
    BY <1>8
  <2> QED BY <2>1, <1>6, <1>8 DEF BuffersNotShared

\* bcache_prod with a full producer slab: it is swapped with the slab above the
\* full ones, which Guarantee shows to be inside the array, and the buffer is
\* stored in cell 0.
LEMMA ProducerTrade ==
  ASSUME PoolInv, NEW c \in live, NEW buffer \in out,
         n_buffers_prod[c] >= BuffersPerSlab, TradeProducerSlab(c, buffer)
  PROVE  PoolInv'
<1> USE DEF PoolInv
<1> DEFINE a == n_slabs_available
           D == <<"prod", c>>
           P == <<"pool", a>>
           pi == [p \in Places' |-> IF p = D THEN P ELSE IF p = P THEN D ELSE p]
<1>1. /\ c \in Caches /\ n_buffers_prod[c] = BuffersPerSlab
      /\ a \in PoolSlots /\ a \in Nat /\ a < n_slabs
  BY Guarantee, Dims DEF TypeOK, EmptySlabGuaranteed, PoolSlots
<1>2. /\ buffer \in Buffers /\ slabs[a] \in Slabs /\ slab_prod[c] \in Slabs /\ 0 \in Cells
      /\ 1 \in 0 .. BuffersPerSlab
  BY <1>1, Dims DEF TypeOK, Cells
<1>3. TypeOK'
  <2>1. slabs' \in [PoolSlots -> Slabs] /\ slab_prod' \in [Caches -> Slabs]
    BY <1>1, <1>2 DEF TypeOK, TradeProducerSlab
  <2>2. n_slabs_available' \in 0 .. n_slabs
    BY <1>1, Dims DEF TradeProducerSlab
  <2>3. n_buffers_prod' \in [Caches -> 0 .. BuffersPerSlab]
    BY <1>2 DEF TypeOK, TradeProducerSlab
  <2>4. cells' \in [Slabs -> [Cells -> Buffers]]
    BY <1>2 DEF TypeOK, TradeProducerSlab
  <2> QED BY <2>1, <2>2, <2>3, <2>4 DEF TypeOK, TradeProducerSlab, reserve, consSide
<1>4. Places' = Places /\ D \in Places /\ P \in Places
  BY <1>1, InPlaces DEF Places, TradeProducerSlab, reserve
<1>5. ASSUME NEW p \in Places'
      PROVE  /\ pi[p] \in Places
             /\ SlabAt(p)' = SlabAt(pi[p])
             /\ p # D => FilledAt(p)' <= FilledAt(pi[p])
  <2>1. CASE p = D
    BY <2>1, <1>1, <1>4, SMTT(30) DEF SlabAt, TradeProducerSlab, TypeOK
  <2>2. CASE p = P
    BY <2>2, <1>1, <1>4, Dims, SMTT(30) DEF SlabAt, FilledAt, TradeProducerSlab, TypeOK
  <2>3. CASE \E k \in PoolSlots \ {a} : p = <<"pool", k>>
    BY <2>3, <1>1, <1>4, Dims DEF SlabAt, FilledAt, TradeProducerSlab, TypeOK, PoolSlots
  <2>4. CASE \E k \in 0 .. (n_slabs_reserved_available - 1) : p = <<"reserved", k>>
    BY <2>4, <1>4 DEF SlabAt, FilledAt, TradeProducerSlab, reserve
  <2>5. CASE \E d \in live : p = <<"cons", d>>
    BY <2>5, <1>4, PlaceTypes, Dims DEF SlabAt, FilledAt, TradeProducerSlab, consSide, PlacesTyped
  <2>6. CASE \E d \in live \ {c} : p = <<"prod", d>>
    BY <2>6, <1>1, <1>4, PlaceTypes, Dims DEF SlabAt, FilledAt, TradeProducerSlab, TypeOK, PlacesTyped
  <2>7. p \in Places
    BY <1>4
  <2> QED BY <2>1, <2>2, <2>3, <2>4, <2>5, <2>6, <2>7, InPlaces
<1>6. \A p, q \in Places' : pi[p] = pi[q] => p = q
  OBVIOUS
<1>7. /\ pi[D] = P /\ FilledAt(D)' = 0 + 1 /\ 0 <= FilledAt(P) /\ SlabAt(P) = slabs[a]
  BY <1>1, <1>4, Dims DEF FilledAt, SlabAt, TradeProducerSlab, TypeOK
<1>8. SlabsNotShared' /\ BuffersNotShared'
  <2>1. cells' = [cells EXCEPT ![SlabAt(pi[D])][0] = buffer] /\ out' = out \ {buffer}
    BY <1>7, Zenon DEF TradeProducerSlab
  <2>2. D \in Places'
    BY <1>4
  <2>3. 0 <= FilledAt(pi[D])
    BY <1>7
  <2> HIDE DEF pi, D, P
  <2> QED BY <1>2, <1>3, <1>5, <1>6, <1>7, <2>1, <2>2, <2>3, StoreRenaming, Zenon
<1>9. ReserveAccounting' /\ IsFiniteSet(live)'
  BY DEF ReserveAccounting, TradeProducerSlab, reserve
<1> QED BY <1>3, <1>8, <1>9

\* The pool as bpool_init leaves it.
LEMMA Initially == PoolInit => PoolInv
<1> SUFFICES ASSUME PoolInit PROVE PoolInv
  OBVIOUS
<1> USE DEF PoolInit
<1>1. TypeOK
  <2>1. ASSUME NEW s \in Slabs, NEW i \in Cells
        PROVE  (IF s < n_slabs THEN s * BuffersPerSlab + i ELSE 0) \in Buffers
    <3>1. s < n_slabs => s \in PoolSlots
      BY Dims DEF Slabs, PoolSlots
    <3>2. s < n_slabs => s * BuffersPerSlab + i \in Buffers
      BY <3>1, InitialBuffer
    <3>3. 0 \in Buffers
      BY Dims DEF Buffers
    <3> QED BY <3>2, <3>3
  <2>2. cells \in [Slabs -> [Cells -> Buffers]]
    BY <2>1
  <2>3. slabs \in [PoolSlots -> Slabs] /\ slabs_reserved \in [ReservedSlots -> Slabs]
    BY Dims DEF PoolSlots, ReservedSlots, Slabs
  <2>4. 0 \in Slabs
    BY Dims DEF Slabs
  <2> QED BY <2>2, <2>3, <2>4, Dims DEF TypeOK
<1>2. SlabsNotShared
  <2>1. ASSUME NEW p \in Places
        PROVE  \/ \E k \in PoolSlots : p = <<"pool", k>> /\ SlabAt(p) = k
               \/ \E k \in ReservedSlots : p = <<"reserved", k>> /\ SlabAt(p) = n_slabs + k
    <3>1. CASE \E k \in PoolSlots : p = <<"pool", k>>
      BY <3>1 DEF SlabAt
    <3>2. CASE \E k \in 0 .. (n_slabs_reserved_available - 1) : p = <<"reserved", k>>
      <4>1. PICK k \in 0 .. (n_slabs_reserved_available - 1) : p = <<"reserved", k>>
        BY <3>2
      <4>2. k \in ReservedSlots
        BY DEF ReservedSlots
      <4>3. SlabAt(p) = n_slabs + k
        BY <4>1, <4>2 DEF SlabAt
      <4> QED BY <4>1, <4>2, <4>3
    <3> QED BY <3>1, <3>2, InPlaces
  <2>2. ASSUME NEW p \in Places, NEW q \in Places, SlabAt(p) = SlabAt(q) PROVE p = q
    <3>1. /\ \A k \in PoolSlots : k \in Int /\ k < n_slabs
          /\ \A k \in ReservedSlots : k \in Int /\ n_slabs + k >= n_slabs
          /\ n_slabs \in Int
      BY Dims DEF PoolSlots, ReservedSlots
    <3>2. CASE \E k \in PoolSlots : p = <<"pool", k>> /\ SlabAt(p) = k
      BY <3>1, <3>2, <2>1, <2>2
    <3>3. CASE \E k \in ReservedSlots : p = <<"reserved", k>> /\ SlabAt(p) = n_slabs + k
      <4>1. PICK k \in ReservedSlots : p = <<"reserved", k>> /\ SlabAt(p) = n_slabs + k
        BY <3>3
      <4>2. \A m \in PoolSlots : SlabAt(q) # m
        BY <4>1, <3>1, <2>2
      <4>3. PICK m \in ReservedSlots : q = <<"reserved", m>> /\ SlabAt(q) = n_slabs + m
        BY <4>2, <2>1
      <4>4. k = m
        <5>1. n_slabs + k = n_slabs + m
          BY <4>1, <4>3, <2>2
        <5> QED BY <5>1, Dims DEF ReservedSlots
      <4> QED BY <4>1, <4>3, <4>4
    <3> QED BY <3>2, <3>3, <2>1
  <2> QED BY <2>2 DEF SlabsNotShared
<1>3. BuffersNotShared
  <2>1. ASSUME NEW q \in LiveCells
        PROVE  \E s \in PoolSlots, i \in Cells :
                 q = <<<<"pool", s>>, i>> /\ BufferIn(q) = s * BuffersPerSlab + i
    <3>1. q = <<q[1], q[2]>> /\ q[1] \in Places /\ q[2] \in Cells /\ q[2] < FilledAt(q[1])
      BY DEF LiveCells
    <3>2. PICK s \in PoolSlots : q[1] = <<"pool", s>>
      BY <3>1, InPlaces, Dims DEF FilledAt, Cells
    <3>3. s \in Slabs /\ s < n_slabs
      BY Dims DEF PoolSlots, Slabs
    <3>4. BufferIn(q) = s * BuffersPerSlab + q[2]
      BY <3>1, <3>2, <3>3 DEF BufferIn, SlabAt
    <3> QED BY <3>1, <3>2, <3>4
  <2>2. ASSUME NEW q \in LiveCells, NEW r \in LiveCells, BufferIn(q) = BufferIn(r)
        PROVE  q = r
    <3>1. PICK s \in PoolSlots, i \in Cells :
            q = <<<<"pool", s>>, i>> /\ BufferIn(q) = s * BuffersPerSlab + i
      BY <2>1
    <3>2. PICK t \in PoolSlots, j \in Cells :
            r = <<<<"pool", t>>, j>> /\ BufferIn(r) = t * BuffersPerSlab + j
      BY <2>1
    <3>3. s = t /\ i = j
      BY <3>1, <3>2, <2>2, InitialBuffer
    <3> QED BY <3>1, <3>2, <3>3
  <2> QED BY <2>2 DEF BuffersNotShared
<1>4. ReserveAccounting /\ IsFiniteSet(live)
  BY Dims, FS_EmptySet DEF ReserveAccounting
<1> QED BY <1>1, <1>2, <1>3, <1>4 DEF PoolInv

\* A call that returns early changes nothing (af_rxtx.c:188-191, 199-202).
LEMMA Stuttering == PoolInv /\ UNCHANGED poolVars => PoolInv'
<1> SUFFICES ASSUME PoolInv, UNCHANGED poolVars PROVE PoolInv'
  OBVIOUS
<1> USE DEF PoolInv, poolVars, pool, reserve, consSide, prodSide
<1>1. TypeOK' /\ ReserveAccounting' /\ IsFiniteSet(live)'
  BY DEF TypeOK, ReserveAccounting
<1>2. /\ Places' = Places
      /\ \A p \in Places : SlabAt(p)' = SlabAt(p) /\ FilledAt(p)' = FilledAt(p)
  BY DEF Places, SlabAt, FilledAt
<1>3. SlabsNotShared'
  BY <1>2 DEF SlabsNotShared
<1>4. /\ LiveCells' = LiveCells
      /\ \A q \in LiveCells : BufferIn(q)' = BufferIn(q)
  BY <1>2 DEF LiveCells, BufferIn
<1>5. BuffersNotShared'
  BY <1>4 DEF BuffersNotShared
<1> QED BY <1>1, <1>3, <1>5

\* Every call preserves the inductive invariant.
LEMMA Step == PoolInv /\ [PoolNext]_poolVars => PoolInv'
<1> SUFFICES ASSUME PoolInv, [PoolNext]_poolVars PROVE PoolInv'
  OBVIOUS
<1>1. ASSUME NEW c \in Caches \ live, bcache_init(c) PROVE PoolInv'
  BY <1>1, Allocation
<1>2. ASSUME NEW c \in live, bcache_free(c) PROVE PoolInv'
  BY <1>2, Deallocation
<1>3. ASSUME NEW c \in live, bcache_cons_check(c) PROVE PoolInv'
  BY <1>3, ConsumerTrade, Stuttering DEF bcache_cons_check
<1>4. ASSUME NEW c \in live, n_buffers_cons[c] # 0, bcache_cons(c) PROVE PoolInv'
  BY <1>4, Consumption
<1>5. ASSUME NEW c \in live, NEW buffer \in out, bcache_prod(c, buffer) PROVE PoolInv'
  BY <1>5, Store, ProducerTrade DEF bcache_prod
<1> QED BY <1>1, <1>2, <1>3, <1>4, <1>5, Stuttering DEF PoolNext

------------------------------------------------------------------------------
\* The inductive invariant holds throughout, for every number of buffers, slab
\* size, number of users and set of caches.
THEOREM Invariance == PoolSpec => []PoolInv
BY Initially, Step, PTL DEF PoolSpec

\* All counters and array indices of the pool and of its caches stay in range.
THEOREM TypeCorrect == PoolSpec => []TypeOK
<1>1. PoolInv => TypeOK
  BY DEF PoolInv
<1> QED BY <1>1, Invariance, PTL

\* A slab is in one place: trades under bp->lock never duplicate a slab pointer.
THEOREM SlabOwnership == PoolSpec => []SlabsNotShared
<1>1. PoolInv => SlabsNotShared
  BY DEF PoolInv
<1> QED BY <1>1, Invariance, PTL

\* A buffer is in one place: no UMEM frame is handed out twice.
THEOREM BufferOwnership == PoolSpec => []BuffersNotShared
<1>1. PoolInv => BuffersNotShared
  BY DEF PoolInv
<1> QED BY <1>1, Invariance, PTL

\* The guarantee that the comment of bcache_prod (af_rxtx.c:245-247) relies on:
\* slabs[n_slabs_available] exists whenever a full producer slab is traded.
THEOREM ProducerNeverOverflows == PoolSpec => []EmptySlabGuaranteed
BY Guarantee, Invariance, PTL

\* bcache_init never finds a single reserved slab (af_rxtx.c:140-148).
THEOREM ReserveComesInPairs == PoolSpec => []ReserveAccounting
<1>1. PoolInv => ReserveAccounting
  BY DEF PoolInv
<1> QED BY <1>1, Invariance, PTL

------------------------------------------------------------------------------
\* Cell i of slab s holds a buffer that somebody counts.
Filled(s, i) ==
  \/ \E k \in PoolSlots : k < n_slabs_available /\ slabs[k] = s
  \/ \E c \in live : slab_cons[c] = s /\ i < n_buffers_cons[c]
  \/ \E c \in live : slab_prod[c] = s /\ i < n_buffers_prod[c]
FilledCells == {y \in Slabs \X Cells : Filled(y[1], y[2])}
ReachesFilled == Reachable = out \cup {cells[y[1]][y[2]] : y \in FilledCells}

\* What can be reached, without the places.
LEMMA ReachableCells == TypeOK => ReachesFilled
<1> SUFFICES ASSUME TypeOK PROVE Reachable = out \cup {cells[y[1]][y[2]] : y \in FilledCells}
  BY DEF ReachesFilled
<1>1. ASSUME NEW q \in LiveCells
      PROVE  \E y \in FilledCells : cells[y[1]][y[2]] = BufferIn(q)
  <2>1. q[1] \in Places /\ q[2] \in Cells /\ q[2] < FilledAt(q[1])
    BY DEF LiveCells
  <2> DEFINE p == q[1]
             y == <<SlabAt(p), q[2]>>
  <2>2. SlabAt(p) \in Slabs
    BY <2>1, PlaceTypes DEF PlacesTyped
  <2>3. Filled(SlabAt(p), q[2])
    <3>1. CASE \E k \in PoolSlots : p = <<"pool", k>>
      BY <2>1, <3>1 DEF Filled, SlabAt, FilledAt, Cells
    <3>2. CASE \E k \in 0 .. (n_slabs_reserved_available - 1) : p = <<"reserved", k>>
      BY <2>1, <3>2 DEF FilledAt, Cells
    <3>3. CASE \E c \in live : p = <<"cons", c>>
      BY <2>1, <3>3 DEF Filled, SlabAt, FilledAt
    <3>4. CASE \E c \in live : p = <<"prod", c>>
      BY <2>1, <3>4 DEF Filled, SlabAt, FilledAt
    <3> QED BY <2>1, <3>1, <3>2, <3>3, <3>4, InPlaces
  <2>4. y \in FilledCells
    BY <2>1, <2>2, <2>3 DEF FilledCells
  <2> QED BY <2>4 DEF BufferIn
<1>2. ASSUME NEW y \in FilledCells
      PROVE  \E q \in LiveCells : cells[y[1]][y[2]] = BufferIn(q)
  <2>1. y[1] \in Slabs /\ y[2] \in Cells /\ Filled(y[1], y[2])
    BY DEF FilledCells
  <2>2. \E p \in Places : SlabAt(p) = y[1] /\ y[2] < FilledAt(p)
    <3>1. CASE \E k \in PoolSlots : k < n_slabs_available /\ slabs[k] = y[1]
      <4>1. PICK k \in PoolSlots : k < n_slabs_available /\ slabs[k] = y[1]
        BY <3>1
      <4>2. <<"pool", k>> \in Places
        BY InPlaces
      <4>3. SlabAt(<<"pool", k>>) = y[1] /\ y[2] < FilledAt(<<"pool", k>>)
        BY <2>1, <4>1, Dims DEF SlabAt, FilledAt, Cells
      <4> QED BY <4>2, <4>3
    <3>2. CASE \E c \in live : slab_cons[c] = y[1] /\ y[2] < n_buffers_cons[c]
      <4>1. PICK c \in live : slab_cons[c] = y[1] /\ y[2] < n_buffers_cons[c]
        BY <3>2
      <4>2. <<"cons", c>> \in Places
        BY InPlaces
      <4>3. SlabAt(<<"cons", c>>) = y[1] /\ y[2] < FilledAt(<<"cons", c>>)
        BY <4>1 DEF SlabAt, FilledAt
      <4> QED BY <4>2, <4>3
    <3>3. CASE \E c \in live : slab_prod[c] = y[1] /\ y[2] < n_buffers_prod[c]
      <4>1. PICK c \in live : slab_prod[c] = y[1] /\ y[2] < n_buffers_prod[c]
        BY <3>3
      <4>2. <<"prod", c>> \in Places
        BY InPlaces
      <4>3. SlabAt(<<"prod", c>>) = y[1] /\ y[2] < FilledAt(<<"prod", c>>)
        BY <4>1 DEF SlabAt, FilledAt
      <4> QED BY <4>2, <4>3
    <3> QED BY <2>1, <3>1, <3>2, <3>3 DEF Filled
  <2>3. PICK p \in Places : SlabAt(p) = y[1] /\ y[2] < FilledAt(p)
    BY <2>2
  <2>4. <<p, y[2]>> \in LiveCells /\ BufferIn(<<p, y[2]>>) = cells[y[1]][y[2]]
    BY <2>1, <2>3 DEF LiveCells, BufferIn
  <2> QED BY <2>4
<1>3. {BufferIn(q) : q \in LiveCells} = {cells[y[1]][y[2]] : y \in FilledCells}
  BY <1>1, <1>2
<1> QED BY <1>3 DEF Reachable

\* The same after a step.
LEMMA ReachableCellsNext == TypeOK' => ReachesFilled'
BY ReachableCells, PTL

\* Which slabs are held where: no slab is in two places, field by field.
LEMMA Apart ==
  ASSUME TypeOK, SlabsNotShared
  PROVE  /\ \A k, j \in PoolSlots : slabs[k] = slabs[j] => k = j
         /\ \A k \in PoolSlots, c \in live : slabs[k] # slab_cons[c] /\ slabs[k] # slab_prod[c]
         /\ \A c, d \in live : slab_cons[c] # slab_prod[d]
         /\ \A c, d \in live : (slab_cons[c] = slab_cons[d] \/ slab_prod[c] = slab_prod[d]) => c = d
<1>1. \A k \in PoolSlots : <<"pool", k>> \in Places /\ SlabAt(<<"pool", k>>) = slabs[k]
  BY InPlaces DEF SlabAt
<1>2. \A c \in live : /\ <<"cons", c>> \in Places /\ SlabAt(<<"cons", c>>) = slab_cons[c]
                      /\ <<"prod", c>> \in Places /\ SlabAt(<<"prod", c>>) = slab_prod[c]
  BY InPlaces DEF SlabAt
<1>3. \A k, j \in PoolSlots : slabs[k] = slabs[j] => <<"pool", k>> = <<"pool", j>>
  BY <1>1, Zenon DEF SlabsNotShared
<1>4. ASSUME NEW k \in PoolSlots, NEW c \in live PROVE slabs[k] # slab_cons[c] /\ slabs[k] # slab_prod[c]
  <2>1. <<"pool", k>> # <<"cons", c>> /\ <<"pool", k>> # <<"prod", c>>
    OBVIOUS
  <2>2. SlabAt(<<"pool", k>>) # SlabAt(<<"cons", c>>) /\ SlabAt(<<"pool", k>>) # SlabAt(<<"prod", c>>)
    BY <1>1, <1>2, <2>1 DEF SlabsNotShared
  <2> QED BY <1>1, <1>2, <2>2
<1>5. \A c, d \in live :
        /\ slab_cons[c] = slab_prod[d] => <<"cons", c>> = <<"prod", d>>
        /\ slab_cons[c] = slab_cons[d] => <<"cons", c>> = <<"cons", d>>
        /\ slab_prod[c] = slab_prod[d] => <<"prod", c>> = <<"prod", d>>
  BY <1>2, Zenon DEF SlabsNotShared
<1> QED BY <1>3, <1>4, <1>5

\* The steps that move slabs and no buffers.
LEMMA TradeKeeps ==
  ASSUME PoolInv, TypeOK', cells' = cells, out' = out,
         \A s \in Slabs, i \in Cells : Filled(s, i)' <=> Filled(s, i)
  PROVE  Reachable' = Reachable
<1>1. FilledCells' = FilledCells
  BY DEF FilledCells, Slabs, Cells
<1> QED BY <1>1, ReachableCells, ReachableCellsNext DEF ReachesFilled, PoolInv

\* bcache_cons_check: the slab that the pool no longer counts is the new consumer slab.
LEMMA ConsumerTradeKeeps ==
  ASSUME PoolInv, PoolInv', NEW c \in live, n_buffers_cons[c] = 0, n_slabs_available # 0,
         TradeConsumerSlab(c)
  PROVE  Reachable' = Reachable
<1> DEFINE a == n_slabs_available - 1
<1>1. a \in PoolSlots /\ c \in Caches /\ n_slabs_available = a + 1 /\ a \in Nat
  BY Dims DEF TypeOK, PoolSlots, PoolInv
<1>2. /\ slabs' = [slabs EXCEPT ![a] = slab_cons[c]] /\ slabs \in [PoolSlots -> Slabs]
      /\ slab_cons' = [slab_cons EXCEPT ![c] = slabs[a]] /\ slab_cons \in [Caches -> Slabs]
      /\ n_buffers_cons' = [n_buffers_cons EXCEPT ![c] = BuffersPerSlab]
      /\ n_buffers_cons \in [Caches -> 0 .. BuffersPerSlab] /\ live \subseteq Caches
      /\ n_slabs_available' = a
      /\ UNCHANGED <<slab_prod, n_buffers_prod, live, cells, out>>
  BY <1>1 DEF TradeConsumerSlab, PoolInv, TypeOK, prodSide
<1>3. ASSUME NEW s \in Slabs, NEW i \in Cells PROVE Filled(s, i)' <=> Filled(s, i)
  <2>1. (\E k \in PoolSlots : k < n_slabs_available /\ slabs[k] = s)
          <=> (\E k \in PoolSlots : k < a /\ slabs'[k] = s) \/ slabs[a] = s
    BY <1>1, <1>2 DEF PoolSlots
  <2>2. (\E d \in live : slab_cons'[d] = s /\ i < n_buffers_cons'[d])
          <=> (\E d \in live : slab_cons[d] = s /\ i < n_buffers_cons[d]) \/ slabs[a] = s
    BY <1>1, <1>2, Dims DEF Cells
  <2> QED BY <1>2, <2>1, <2>2 DEF Filled, PoolSlots
<1> QED BY <1>2, <1>3, TradeKeeps DEF PoolInv

\* bcache_init: the two slabs from the reserve count nothing.
LEMMA AllocationKeeps ==
  ASSUME PoolInv, PoolInv', NEW c \in Caches \ live, bcache_init(c)
  PROVE  Reachable' = Reachable
<1>1. ASSUME NEW s \in Slabs, NEW i \in Cells PROVE Filled(s, i)' <=> Filled(s, i)
  <2>1. /\ live' = live \cup {c} /\ n_buffers_cons'[c] = 0 /\ n_buffers_prod'[c] = 0
        /\ \A d \in live : /\ slab_cons'[d] = slab_cons[d] /\ n_buffers_cons'[d] = n_buffers_cons[d]
                            /\ slab_prod'[d] = slab_prod[d] /\ n_buffers_prod'[d] = n_buffers_prod[d]
        /\ ~(i < 0)
        /\ UNCHANGED <<slabs, n_slabs_available>>
    BY Dims DEF bcache_init, PoolInv, TypeOK, pool, Cells
  <2> QED BY <2>1 DEF Filled, PoolSlots
<1> QED BY <1>1, TradeKeeps DEF bcache_init, PoolInv

\* bcache_cons: the buffer leaves the topmost filled cell and is out.
LEMMA ConsumptionKeeps ==
  ASSUME PoolInv, PoolInv', NEW c \in live, n_buffers_cons[c] # 0, bcache_cons(c)
  PROVE  Reachable' = Reachable
<1> DEFINE n == n_buffers_cons[c] - 1
           w == <<slab_cons[c], n>>
<1>1. /\ c \in Caches /\ n \in Cells /\ n_buffers_cons[c] = n + 1 /\ slab_cons[c] \in Slabs /\ live \subseteq Caches
      /\ n_buffers_cons' = [n_buffers_cons EXCEPT ![c] = n] /\ n_buffers_cons \in [Caches -> 0 .. BuffersPerSlab]
      /\ out' = out \cup {cells[slab_cons[c]][n]}
      /\ UNCHANGED <<slabs, n_slabs_available, cells, live, slab_cons, slab_prod, n_buffers_prod>>
  BY Dims DEF PoolInv, TypeOK, Cells, bcache_cons, bcache_cons_ret, pool, prodSide
<1>2. ASSUME NEW s \in Slabs, NEW i \in Cells
      PROVE  Filled(s, i) <=> Filled(s, i)' \/ (s = slab_cons[c] /\ i = n)
  <2>1. (\E d \in live : slab_cons[d] = s /\ i < n_buffers_cons[d])
          <=> (\E d \in live : slab_cons[d] = s /\ i < n_buffers_cons'[d]) \/ (s = slab_cons[c] /\ i = n)
    BY <1>1, Dims DEF Cells
  <2> QED BY <1>1, <2>1 DEF Filled, PoolSlots
<1>3. FilledCells = FilledCells' \cup {w}
  <2>1. w \in Slabs \X Cells /\ w[1] = slab_cons[c] /\ w[2] = n
    BY <1>1
  <2>2. \A y \in Slabs \X Cells : y = <<y[1], y[2]>> /\ y[1] \in Slabs /\ y[2] \in Cells
    OBVIOUS
  <2>3. \A y \in Slabs \X Cells : Filled(y[1], y[2]) <=> Filled(y[1], y[2])' \/ y = w
    BY <1>2, <2>1, <2>2
  <2> QED BY <2>1, <2>3, SMTT(30) DEF FilledCells, Slabs, Cells
<1>4. cells[w[1]][w[2]] = cells[slab_cons[c]][n]
  OBVIOUS
<1> HIDE DEF w
<1> QED BY <1>1, <1>3, <1>4, ReachableCells, ReachableCellsNext, Zenon DEF ReachesFilled, PoolInv

\* A buffer that comes back into a cell that nobody counted.
LEMMA StoreKeeps ==
  ASSUME PoolInv, TypeOK', NEW s \in Slabs, NEW n \in Cells, NEW buffer \in out,
         ~Filled(s, n), out' = out \ {buffer}, cells' = [cells EXCEPT ![s][n] = buffer],
         \A t \in Slabs, i \in Cells : Filled(t, i)' <=> Filled(t, i) \/ (t = s /\ i = n)
  PROVE  Reachable' = Reachable
<1> DEFINE w == <<s, n>>
<1>1. \A y \in Slabs \X Cells : y = <<y[1], y[2]>> /\ y[1] \in Slabs /\ y[2] \in Cells
  OBVIOUS
<1>2. w \in Slabs \X Cells /\ w \notin FilledCells /\ cells'[w[1]][w[2]] = buffer
  BY DEF FilledCells, PoolInv, TypeOK
<1>3. FilledCells' = FilledCells \cup {w}
  <2>1. \A y \in Slabs \X Cells : Filled(y[1], y[2])' <=> Filled(y[1], y[2]) \/ y = w
    BY <1>1
  <2> QED BY <1>2, <2>1 DEF FilledCells, Slabs, Cells
<1>4. ASSUME NEW y \in FilledCells PROVE cells'[y[1]][y[2]] = cells[y[1]][y[2]]
  <2>1. y[1] \in Slabs /\ y[2] \in Cells /\ (y[1] # s \/ y[2] # n)
    BY <1>1, <1>2 DEF FilledCells
  <2> QED BY <2>1 DEF PoolInv, TypeOK
<1> HIDE DEF w
<1> DEFINE Before == {cells[y[1]][y[2]] : y \in FilledCells}
           After == {cells'[y[1]][y[2]] : y \in FilledCells'}
<1>5. After = Before \cup {buffer}
  BY <1>2, <1>3, <1>4
<1>6. Reachable = out \cup Before /\ Reachable' = out' \cup After
  BY ReachableCells, ReachableCellsNext DEF ReachesFilled, PoolInv
<1> HIDE DEF Before, After
<1> QED BY <1>5, <1>6

\* bcache_prod with room in the producer slab.
LEMMA StoreInSlabKeeps ==
  ASSUME PoolInv, PoolInv', NEW c \in live, NEW buffer \in out,
         n_buffers_prod[c] < BuffersPerSlab, StoreInProducerSlab(c, buffer)
  PROVE  Reachable' = Reachable
<1> DEFINE n == n_buffers_prod[c]
           s == slab_prod[c]
<1>1. /\ c \in Caches /\ n \in Cells /\ s \in Slabs /\ live \subseteq Caches
      /\ n_buffers_prod' = [n_buffers_prod EXCEPT ![c] = n + 1] /\ n_buffers_prod \in [Caches -> 0 .. BuffersPerSlab]
      /\ out' = out \ {buffer} /\ cells' = [cells EXCEPT ![s][n] = buffer]
      /\ UNCHANGED <<slabs, n_slabs_available, live, slab_prod, slab_cons, n_buffers_cons>>
  BY Dims DEF PoolInv, TypeOK, Cells, StoreInProducerSlab, pool, consSide
<1>2. ~Filled(s, n)
  <2>1. ~(n < n) BY <1>1 DEF Cells
  <2> QED BY <2>1, Apart DEF Filled, PoolInv
<1>3. ASSUME NEW t \in Slabs, NEW i \in Cells PROVE Filled(t, i)' <=> Filled(t, i) \/ (t = s /\ i = n)
  <2>1. (\E d \in live : slab_prod[d] = t /\ i < n_buffers_prod'[d])
          <=> (\E d \in live : slab_prod[d] = t /\ i < n_buffers_prod[d]) \/ (t = s /\ i = n)
    BY <1>1, Dims DEF Cells
  <2> QED BY <1>1, <2>1 DEF Filled, PoolSlots
<1> HIDE DEF s, n
<1> QED BY <1>1, <1>2, <1>3, StoreKeeps, Zenon DEF PoolInv

\* bcache_prod with a full producer slab.
LEMMA ProducerTradeKeeps ==
  ASSUME PoolInv, PoolInv', NEW c \in live, NEW buffer \in out,
         n_buffers_prod[c] >= BuffersPerSlab, TradeProducerSlab(c, buffer)
  PROVE  Reachable' = Reachable
<1> DEFINE a == n_slabs_available
           s == slabs[a]
<1>1. /\ c \in Caches /\ n_buffers_prod[c] = BuffersPerSlab /\ live \subseteq Caches
      /\ a \in PoolSlots /\ a \in Nat /\ a < n_slabs /\ s \in Slabs /\ 0 \in Cells
  BY Guarantee, Dims DEF TypeOK, EmptySlabGuaranteed, PoolSlots, PoolInv, Cells
<1>2. /\ slabs' = [slabs EXCEPT ![a] = slab_prod[c]] /\ slabs \in [PoolSlots -> Slabs]
      /\ slab_prod' = [slab_prod EXCEPT ![c] = s] /\ slab_prod \in [Caches -> Slabs]
      /\ n_buffers_prod' = [n_buffers_prod EXCEPT ![c] = 1]
      /\ n_buffers_prod \in [Caches -> 0 .. BuffersPerSlab]
      /\ n_slabs_available' = a + 1
      /\ out' = out \ {buffer} /\ cells' = [cells EXCEPT ![s][0] = buffer]
      /\ UNCHANGED <<slab_cons, n_buffers_cons, live>>
  BY DEF TradeProducerSlab, PoolInv, TypeOK, consSide
<1>3. ~Filled(s, 0)
  <2>1. ~(a < a) BY <1>1
  <2> QED BY <1>1, <2>1, Apart, Zenon DEF Filled, PoolInv
<1>4. ASSUME NEW t \in Slabs, NEW i \in Cells PROVE Filled(t, i)' <=> Filled(t, i) \/ (t = s /\ i = 0)
  <2>1. (\E k \in PoolSlots : k < a + 1 /\ slabs'[k] = t)
          <=> (\E k \in PoolSlots : k < a /\ slabs[k] = t) \/ t = slab_prod[c]
    BY <1>1, <1>2 DEF PoolSlots
  <2>2. (\E d \in live : slab_prod'[d] = t /\ i < n_buffers_prod'[d]) \/ t = slab_prod[c]
          <=> (\E d \in live : slab_prod[d] = t /\ i < n_buffers_prod[d]) \/ t = slab_prod[c] \/ (t = s /\ i = 0)
    BY <1>1, <1>2, Dims DEF Cells
  <2>3. t = slab_prod[c] => i < n_buffers_prod[c]
    BY <1>1, Dims DEF Cells
  <2> QED BY <1>2, <2>1, <2>2, <2>3 DEF Filled, PoolSlots
<1> HIDE DEF s, a
<1> QED BY <1>1, <1>2, <1>3, <1>4, StoreKeeps, Zenon DEF PoolInv

\* Only bcache_free loses buffers, for every geometry of the pool and in every
\* sequence of calls of the caches.
THEOREM OnlyFreeLoses == PoolSpec => OnlyFreeLosesBuffers
<1>1. ASSUME PoolInv, PoolInv', PoolNext, live \subseteq live' PROVE Reachable' = Reachable
  <2>1. ASSUME NEW c \in Caches \ live, bcache_init(c) PROVE Reachable' = Reachable
    BY <1>1, <2>1, AllocationKeeps
  <2>2. ASSUME NEW c \in live, bcache_free(c) PROVE FALSE
    BY <1>1, <2>2 DEF bcache_free
  <2>3. ASSUME NEW c \in live, bcache_cons_check(c) PROVE Reachable' = Reachable
    <3>1. CASE UNCHANGED poolVars
      BY <3>1 DEF poolVars, pool, reserve, consSide, prodSide, Reachable, LiveCells, BufferIn, SlabAt, FilledAt, Places
    <3> QED BY <1>1, <2>3, <3>1, ConsumerTradeKeeps DEF bcache_cons_check
  <2>4. ASSUME NEW c \in live, n_buffers_cons[c] # 0, bcache_cons(c) PROVE Reachable' = Reachable
    BY <1>1, <2>4, ConsumptionKeeps
  <2>5. ASSUME NEW c \in live, NEW buffer \in out, bcache_prod(c, buffer) PROVE Reachable' = Reachable
    BY <1>1, <2>5, StoreInSlabKeeps, ProducerTradeKeeps DEF bcache_prod
  <2> QED BY <1>1, <2>1, <2>2, <2>3, <2>4, <2>5 DEF PoolNext
<1>2. PoolInv /\ PoolInv' /\ [PoolNext]_poolVars => [live \subseteq live' => Reachable' = Reachable]_poolVars
  BY <1>1
<1> QED BY <1>2, Invariance, PTL DEF PoolSpec, OnlyFreeLosesBuffers
==============================================================================
