----------------------------- MODULE Programs_proofs -----------------------------
(***************************************************************************)
(* Programs for instances of every size: the DTLS echo, the packet rings,   *)
(* ncat and its two threads, the TLS chat, the commands of crypt-sym and    *)
(* crypt-asym, which hand keys and ciphertext to each other in files and may*)
(* be killed anywhere, the vectors of vector/ and grep, which implement a   *)
(* list however they move their strings, and maxArea.  Their variables are  *)
(* their own, and so are the arguments below.                               *)
(***************************************************************************)
EXTENDS DtlsEcho, PacketRings, NcatThreads, TlsChat, CryptFiles, Vectors, MaxArea,
        FiniteSetTheorems, TLAPS

-----------------------------------------------------------------------------
(* Vectors: the array and the heap *)

(* A sequence is a function on the places from 1 to its length. *)
LEMMA SeqShape ==
  ASSUME NEW S, NEW s \in Seq(S)
  PROVE  Len(s) \in Nat /\ DOMAIN s = 1 .. Len(s) /\ s \in [1 .. Len(s) -> S]
  OBVIOUS

(* Its values come from its set. *)
LEMMA SeqAt == ASSUME NEW S, NEW s \in Seq(S), NEW k \in 1 .. Len(s) PROVE s[k] \in S
  OBVIOUS

(* One value is replaced. *)
LEMMA SeqPut ==
  ASSUME NEW S, NEW s \in Seq(S), NEW k \in 1 .. Len(s), NEW e \in S
  PROVE  /\ [s EXCEPT ![k] = e] \in Seq(S) /\ Len([s EXCEPT ![k] = e]) = Len(s)
         /\ \A j \in 1 .. Len(s) : [s EXCEPT ![k] = e][j] = IF j = k THEN e ELSE s[j]
  OBVIOUS

(* Sequences of the same length are equal when they agree at every place. *)
LEMMA SeqSame ==
  ASSUME NEW S, NEW s \in Seq(S), NEW t \in Seq(S), Len(s) = Len(t), \A k \in 1 .. Len(s) : s[k] = t[k]
  PROVE  s = t
  OBVIOUS

(* One sequence after the other, place by place *)
LEMMA SeqJoin ==
  ASSUME NEW S, NEW s \in Seq(S), NEW t \in Seq(S)
  PROVE  /\ s \o t \in Seq(S) /\ Len(s \o t) = Len(s) + Len(t)
         /\ \A k \in 1 .. Len(s) + Len(t) : (s \o t)[k] = IF k <= Len(s) THEN s[k] ELSE t[k - Len(s)]
  OBVIOUS

(* A piece of a sequence, place by place *)
LEMMA SeqCut ==
  ASSUME NEW S, NEW s, NEW l \in Int, NEW r \in Int, \A k \in l .. r : s[k] \in S
  PROVE  /\ SubSeq(s, l, r) \in Seq(S) /\ Len(SubSeq(s, l, r)) = IF l <= r THEN r - l + 1 ELSE 0
         /\ \A k \in 1 .. r - l + 1 : SubSeq(s, l, r)[k] = s[l + k - 1]
  OBVIOUS

(* A vector of ints holds values; one of strings holds blocks, all of them different
   and each with a string, and no block beside them is live. *)
Fits(ints, vec, heap) ==
  /\ Len(vec) \in 0 .. VcSize
  /\ ints => vec \in Seq(VcValues)
  /\ ~ints => /\ vec \in Seq(1 .. VcBlocks) /\ IsInjective(vec)
              /\ Range(vec) = DOMAIN heap /\ heap \in [DOMAIN heap -> VcValues]

(* The state of the program that runs *)
VcStrong == Fits(OfInts, vector, vcHeap)

(* The values in a vector *)
Holding(ints, vec, heap) == IF ints THEN vec ELSE [i \in DOMAIN vec |-> heap[vec[i]]]

(* Each entry of a vector of strings has a block of its own: as many blocks are live as
   the vector has entries. *)
LEMMA OneBlockEach ==
  ASSUME VcStrong, ~OfInts
  PROVE  IsFiniteSet(Live) /\ Cardinality(Live) = Len(vector) /\ Live \subseteq 1 .. VcBlocks
  <1>1. vector \in [1 .. Len(vector) -> Live] /\ Len(vector) \in Nat /\ DOMAIN vector = 1 .. Len(vector)
        /\ IsInjective(vector) /\ Range(vector) = Live /\ Live \subseteq 1 .. VcBlocks
    <2>1. vector \in Seq(1 .. VcBlocks) /\ IsInjective(vector) /\ Range(vector) = Live
      BY Zenon DEF VcStrong, Fits, Live
    <2>2. Len(vector) \in Nat /\ vector \in [1 .. Len(vector) -> 1 .. VcBlocks] /\ DOMAIN vector = 1 .. Len(vector)
      BY <2>1, SeqShape, Zenon
    <2>3. \A i \in 1 .. Len(vector) : vector[i] \in Live /\ vector[i] \in 1 .. VcBlocks
      BY <2>1, <2>2, Zenon DEF Range
    <2> QED BY <2>1, <2>2, <2>3, Zenon DEF Range
  <1>2. vector \in Bijection(1 .. Len(vector), Live)
    BY <1>1, Zenon DEF Bijection, Injection, Surjection, IsInjective, Range
  <1>3. ExistsBijection(1 .. Len(vector), Live)
    BY <1>2, Zenon DEF ExistsBijection
  <1>4. IsFiniteSet(1 .. Len(vector)) /\ Cardinality(1 .. Len(vector)) = Len(vector)
    BY <1>1, FS_Interval
  <1> QED BY <1>1, <1>3, <1>4, FS_Bijection, Zenon

(* malloc() finds a free block for every string it is asked for, and a different one
   each time. *)
LEMMA NewBlocks ==
  ASSUME VcStrong, ~OfInts, NEW n \in Nat, n + Len(vector) <= VcBlocks
  PROVE  Malloc(n) \in [1 .. n -> FreeBlocks] /\ IsInjective(Malloc(n))
  <1>1. IsFiniteSet(Live) /\ Cardinality(Live) = Len(vector) /\ Live \subseteq 1 .. VcBlocks
    BY OneBlockEach, Zenon
  <1>2. IsFiniteSet(1 .. VcBlocks) /\ Cardinality(1 .. VcBlocks) = VcBlocks /\ VcBlocks \in Nat
    BY VcAssumption, FS_Interval
  <1>3. IsFiniteSet(FreeBlocks) /\ Cardinality(FreeBlocks) = VcBlocks - Cardinality((1 .. VcBlocks) \cap Live)
    BY <1>2, FS_Difference, Zenon DEF FreeBlocks
  <1>4. (1 .. VcBlocks) \cap Live = Live BY <1>1, Zenon
  <1>5. Cardinality(FreeBlocks) \in Nat /\ n <= Cardinality(FreeBlocks)
    <2>1. Cardinality(FreeBlocks) = VcBlocks - Len(vector) BY <1>1, <1>3, <1>4, Zenon
    <2>2. Cardinality(FreeBlocks) \in Nat BY <1>3, FS_CardinalityType, Zenon
    <2>3. Len(vector) \in Nat BY <1>1, FS_CardinalityType, Zenon
    <2> QED BY <1>2, <2>1, <2>2, <2>3
  <1>6. ExistsBijection(1 .. Cardinality(FreeBlocks), FreeBlocks)
    BY <1>3, FS_CardinalityType, Zenon
  <1>7. PICK f : f \in Bijection(1 .. Cardinality(FreeBlocks), FreeBlocks)
    BY <1>6, Zenon DEF ExistsBijection
  <1> DEFINE g == [i \in 1 .. n |-> f[i]]
  <1>8. \A i \in 1 .. n : i \in 1 .. Cardinality(FreeBlocks) BY <1>5
  <1>9. f \in [1 .. Cardinality(FreeBlocks) -> FreeBlocks] /\ IsInjective(f)
    BY <1>7, Zenon DEF Bijection, Injection
  <1>10. g \in [1 .. n -> FreeBlocks] /\ IsInjective(g)
    BY <1>8, <1>9, Zenon DEF IsInjective
  <1> QED BY <1>10, Zenon DEF Malloc

(* A function on 1 .. n is a sequence of length n. *)
LEMMA SeqOf ==
  ASSUME NEW S, NEW n \in Nat, NEW f \in [1 .. n -> S]
  PROVE  f \in Seq(S) /\ Len(f) = n
  OBVIOUS

(* What a vector holds is a sequence of values, as long as its array. *)
LEMMA HoldingIs ==
  ASSUME NEW ints \in BOOLEAN, NEW vec, NEW heap, Fits(ints, vec, heap)
  PROVE  /\ Holding(ints, vec, heap) \in Seq(VcValues) /\ Len(Holding(ints, vec, heap)) = Len(vec)
         /\ Len(vec) \in Nat /\ DOMAIN vec = 1 .. Len(vec)
  <1>1. CASE ints
    BY <1>1, SeqShape, Zenon DEF Fits, Holding
  <1>2. CASE ~ints
    <2>1. /\ vec \in Seq(1 .. VcBlocks) /\ Range(vec) = DOMAIN heap /\ heap \in [DOMAIN heap -> VcValues]
      BY <1>2, Zenon DEF Fits
    <2>2. Len(vec) \in Nat /\ DOMAIN vec = 1 .. Len(vec) BY <2>1, SeqShape, Zenon
    <2>3. \A i \in 1 .. Len(vec) : heap[vec[i]] \in VcValues BY <2>1, <2>2, Zenon DEF Range
    <2>4. Holding(ints, vec, heap) = [i \in 1 .. Len(vec) |-> heap[vec[i]]] BY <1>2, <2>2, Zenon DEF Holding
    <2>5. Holding(ints, vec, heap) \in [1 .. Len(vec) -> VcValues] BY <2>3, <2>4, Zenon
    <2> QED BY <2>2, <2>5, SeqOf, Zenon
  <1> QED BY <1>1, <1>2, Zenon

(* a sequence one longer, with the same values and v behind them *)
LEMMA AppendByPlace ==
  ASSUME NEW S, NEW s \in Seq(S), NEW t \in Seq(S), NEW v \in S,
         Len(t) = Len(s) + 1, \A i \in 1 .. Len(s) : t[i] = s[i], t[Len(s) + 1] = v
  PROVE  t = Append(s, v)
  <1>1. Append(s, v) \in Seq(S) /\ Len(Append(s, v)) = Len(s) + 1 /\ Len(s) \in Nat OBVIOUS
  <1>2. \A i \in 1 .. Len(t) : t[i] = Append(s, v)[i]
    <2> SUFFICES ASSUME NEW i \in 1 .. Len(t) PROVE t[i] = Append(s, v)[i] BY Zenon
    <2>1. CASE i \in 1 .. Len(s) BY <1>1, <2>1
    <2>2. CASE i = Len(s) + 1 BY <1>1, <2>2
    <2> QED BY <1>1, <2>1, <2>2
  <1> QED BY <1>1, <1>2, SeqSame, Zenon

(* A sequence one shorter, in which the values behind place k have moved one forward, is
   the old one without the value at k. *)
LEMMA RemoveByPlace ==
  ASSUME NEW S, NEW s \in Seq(S), NEW t \in Seq(S), NEW k \in 1 .. Len(s),
         Len(t) = Len(s) - 1, \A i \in 1 .. Len(s) - 1 : t[i] = IF i < k THEN s[i] ELSE s[i + 1]
  PROVE  t = SubSeq(s, 1, k - 1) \o SubSeq(s, k + 1, Len(s))
  <1> DEFINE a == SubSeq(s, 1, k - 1)
             b == SubSeq(s, k + 1, Len(s))
  <1>0. Len(s) \in Nat /\ k \in Nat /\ 1 <= k /\ k <= Len(s) /\ \A i \in 1 .. Len(s) : s[i] \in S BY SeqShape
  <1>1. a \in Seq(S) /\ Len(a) = k - 1 /\ \A i \in 1 .. k - 1 : a[i] = s[i]
    <2>1. \A i \in 1 .. k - 1 : s[i] \in S BY <1>0
    <2>2. 1 \in Int /\ k - 1 \in Int BY <1>0
    <2>3. /\ a \in Seq(S) /\ Len(a) = IF 1 <= k - 1 THEN (k - 1) - 1 + 1 ELSE 0
          /\ \A i \in 1 .. (k - 1) - 1 + 1 : a[i] = s[1 + i - 1]
      BY <2>1, <2>2, SeqCut
    <2> HIDE DEF a
    <2> QED BY <1>0, <2>3
  <1>2. b \in Seq(S) /\ Len(b) = Len(s) - k /\ \A i \in 1 .. Len(s) - k : b[i] = s[k + i]
    <2>1. \A i \in k + 1 .. Len(s) : s[i] \in S BY <1>0
    <2>2. k + 1 \in Int /\ Len(s) \in Int BY <1>0
    <2>3. /\ b \in Seq(S) /\ Len(b) = IF k + 1 <= Len(s) THEN Len(s) - (k + 1) + 1 ELSE 0
          /\ \A i \in 1 .. Len(s) - (k + 1) + 1 : b[i] = s[k + 1 + i - 1]
      BY <2>1, <2>2, SeqCut
    <2> HIDE DEF b
    <2> QED BY <1>0, <2>3
  <1> HIDE DEF a, b
  <1>3. /\ a \o b \in Seq(S) /\ Len(a \o b) = Len(a) + Len(b)
        /\ \A i \in 1 .. Len(a) + Len(b) : (a \o b)[i] = IF i <= Len(a) THEN a[i] ELSE b[i - Len(a)]
    BY <1>1, <1>2, SeqJoin, Zenon
  <1>4. \A i \in 1 .. Len(t) : t[i] = (a \o b)[i]
    <2> SUFFICES ASSUME NEW i \in 1 .. Len(t) PROVE t[i] = (a \o b)[i] BY Zenon
    <2>1. CASE i < k BY <1>0, <1>1, <1>2, <1>3, <2>1
    <2>2. CASE i >= k
      <3>1. (a \o b)[i] = b[i - (k - 1)] BY <1>0, <1>1, <1>2, <1>3, <2>2
      <3>4. i - (k - 1) \in 1 .. Len(s) - k BY <1>0, <2>2
      <3>2. b[i - (k - 1)] = s[k + (i - (k - 1))] BY <1>2, <3>4, Zenon
      <3>3. k + (i - (k - 1)) = i + 1 BY <1>0
      <3> QED BY <1>0, <2>2, <3>1, <3>2, <3>3
    <2>3. i < k \/ i >= k BY <1>0
    <2> QED BY <2>1, <2>2, <2>3, Zenon
  <1>5. Len(t) = Len(a \o b) BY <1>0, <1>1, <1>2, <1>3
  <1>6. t = a \o b BY <1>3, <1>4, <1>5, SeqSame, Zenon
  <1> QED BY <1>6, Zenon DEF a, b

(* What a vector of strings holds before and after a call *)
LEMMA StringsHeld ==
  ASSUME VcStrong, VcStrong', ~OfInts, UNCHANGED vcProg
  PROVE  /\ Contents \in Seq(VcValues) /\ Len(Contents) = Len(vector) /\ Len(vector) \in Nat
         /\ Contents' \in Seq(VcValues) /\ Len(Contents') = Len(vector') /\ Len(vector') \in Nat
         /\ \A i \in 1 .. Len(vector) : Contents[i] = vcHeap[vector[i]]
         /\ \A i \in 1 .. Len(vector') : Contents'[i] = vcHeap'[vector'[i]]
  <1>0. ~OfInts' BY Zenon DEF OfInts
  <1>1. Contents = Holding(FALSE, vector, vcHeap) /\ Contents' = Holding(FALSE, vector', vcHeap')
    BY <1>0, Zenon DEF Contents, Holding
  <1>2. Fits(FALSE, vector, vcHeap) /\ Fits(FALSE, vector', vcHeap')
    BY <1>0, Zenon DEF VcStrong, Fits
  <1> QED BY <1>1, <1>2, HoldingIs, Zenon DEF Holding

(* A vector of ints holds what its array does. *)
LEMMA IntsHeld ==
  ASSUME VcStrong, VcStrong', OfInts, UNCHANGED vcProg
  PROVE  /\ Contents = vector /\ vector \in Seq(VcValues)
         /\ Contents' = vector' /\ vector' \in Seq(VcValues)
  BY Zenon DEF Contents, VcStrong, Fits, OfInts

-----------------------------------------------------------------------------
(* A block for the new string *)
LEMMA PushStringKeeps ==
  ASSUME VcStrong, ~OfInts, UNCHANGED vcProg, NEW v \in VcValues, PushString(v)
  PROVE  VcStrong' /\ Contents' = Append(Contents, v)
  <1> DEFINE b == Malloc(1)[1]
  <1>1. Len(vector) \in Nat /\ Len(vector) < VcSize /\ 1 + Len(vector) <= VcBlocks
    BY VcAssumption DEF PushString, Room, VcStrong, Fits
  <1>2. b \in FreeBlocks
    BY <1>1, NewBlocks
  <1>3. vector' = Append(vector, b) /\ vcHeap' = Merge(vcHeap, On(b, v))
    BY Zenon DEF PushString
  <1> HIDE DEF b
  <1>4. /\ vector \in Seq(1 .. VcBlocks) /\ IsInjective(vector)
        /\ Range(vector) = DOMAIN vcHeap /\ vcHeap \in [DOMAIN vcHeap -> VcValues]
        /\ DOMAIN vector = 1 .. Len(vector) /\ ~OfInts'
    BY SeqShape, Zenon DEF VcStrong, Fits, OfInts
  <1>5. b \in 1 .. VcBlocks /\ b \notin DOMAIN vcHeap BY <1>2, Zenon DEF FreeBlocks, Live
  <1>6. /\ DOMAIN vcHeap' = DOMAIN vcHeap \cup {b} /\ vcHeap'[b] = v
        /\ \A c \in DOMAIN vcHeap : vcHeap'[c] = vcHeap[c]
        /\ vcHeap' \in [DOMAIN vcHeap' -> VcValues]
    BY <1>3, <1>4, <1>5, Zenon DEF Merge, On
  <1>7. /\ vector' \in Seq(1 .. VcBlocks) /\ Len(vector') = Len(vector) + 1
        /\ DOMAIN vector' = 1 .. Len(vector) + 1
        /\ \A i \in 1 .. Len(vector) : vector'[i] = vector[i]
        /\ vector'[Len(vector) + 1] = b
    BY <1>1, <1>3, <1>4, <1>5
  <1>8. Range(vector') = DOMAIN vcHeap'
    <2>1. \A i \in 1 .. Len(vector) + 1 : i \in 1 .. Len(vector) \/ i = Len(vector) + 1 BY <1>1
    <2>2. \A i \in 1 .. Len(vector) : i \in 1 .. Len(vector) + 1 BY <1>1
    <2>3. Len(vector) + 1 \in 1 .. Len(vector) + 1 BY <1>1
    <2> QED BY <1>4, <1>6, <1>7, <2>1, <2>2, <2>3 DEF Range
  <1>9. IsInjective(vector')
    <2> SUFFICES ASSUME NEW i \in 1 .. Len(vector) + 1, NEW j \in 1 .. Len(vector) + 1, vector'[i] = vector'[j]
                 PROVE  i = j
      BY <1>7, Zenon DEF IsInjective
    <2>1. \A k \in 1 .. Len(vector) : vector[k] # b BY <1>4, <1>5, Zenon DEF Range
    <2>2. i \in 1 .. Len(vector) \/ i = Len(vector) + 1 BY <1>1
    <2>3. j \in 1 .. Len(vector) \/ j = Len(vector) + 1 BY <1>1
    <2> QED BY <1>4, <1>7, <2>1, <2>2, <2>3, Zenon DEF IsInjective
  <1>10. Len(vector') \in 0 .. VcSize BY <1>1, <1>7, VcAssumption
  <1>11. VcStrong'
    BY <1>4, <1>6, <1>7, <1>8, <1>9, <1>10, Zenon DEF VcStrong, Fits
  <1>12. /\ Contents \in Seq(VcValues) /\ Contents' \in Seq(VcValues) /\ Len(Contents) = Len(vector) /\ Len(Contents') = Len(vector) + 1
         /\ \A i \in 1 .. Len(vector) : Contents'[i] = Contents[i]
         /\ Contents'[Len(vector) + 1] = v
    <2>1. \A i \in 1 .. Len(vector) : i \in 1 .. Len(vector') /\ vector[i] \in DOMAIN vcHeap BY <1>1, <1>4, <1>7 DEF Range
    <2>2. Len(vector) + 1 \in 1 .. Len(vector') BY <1>1, <1>7
    <2> QED BY <1>6, <1>7, <1>11, <2>1, <2>2, StringsHeld
  <1>13. Contents' = Append(Contents, v)
    BY <1>12, AppendByPlace
  <1> QED BY <1>11, <1>13, Zenon

(* All strings move to new blocks, and the new one comes behind them *)
LEMMA CopyAllKeeps ==
  ASSUME VcStrong, ~OfInts, UNCHANGED vcProg, Room, NEW v \in VcValues, CopyAll(v)
  PROVE  VcStrong' /\ Contents' = Append(Contents, v)
  <1> DEFINE n == Len(vector)
             new == Malloc(n + 1)
  <1>1. n \in Nat /\ n < VcSize /\ n + 1 \in Nat /\ (n + 1) + Len(vector) <= VcBlocks
    BY VcAssumption DEF Room, VcStrong, Fits
  <1>2. new \in [1 .. n + 1 -> FreeBlocks] /\ IsInjective(new)
    BY <1>1, NewBlocks, Zenon
  <1>3. /\ vector' = new
        /\ vcHeap' = [b \in Range(new) |-> LET i == CHOOSE k \in 1 .. n + 1 : new[k] = b
                                           IN IF i > n THEN v ELSE vcHeap[vector[i]]]
    BY Zenon DEF CopyAll
  <1> HIDE DEF new, n
  <1>4. /\ vector \in Seq(1 .. VcBlocks)
        /\ Range(vector) = DOMAIN vcHeap /\ vcHeap \in [DOMAIN vcHeap -> VcValues]
        /\ n = Len(vector) /\ DOMAIN vector = 1 .. n /\ ~OfInts'
    BY SeqShape, Zenon DEF VcStrong, Fits, OfInts, n
  <1>5. DOMAIN new = 1 .. n + 1 /\ \A i \in 1 .. n + 1 : new[i] \in 1 .. VcBlocks /\ new[i] \in Range(new)
    BY <1>2, Zenon DEF FreeBlocks, Range
  <1>6. \A i \in 1 .. n + 1 : (CHOOSE k \in 1 .. n + 1 : new[k] = new[i]) = i
    BY <1>2, <1>5, Zenon DEF IsInjective
  <1>7. \A i \in 1 .. n + 1 : vcHeap'[new[i]] = IF i > n THEN v ELSE vcHeap[vector[i]]
    <2> TAKE i \in 1 .. n + 1
    <2>1. vcHeap'[new[i]] = LET j == CHOOSE k \in 1 .. n + 1 : new[k] = new[i]
                            IN IF j > n THEN v ELSE vcHeap[vector[j]]
      BY <1>3, <1>5, Zenon
    <2>2. (CHOOSE k \in 1 .. n + 1 : new[k] = new[i]) = i BY <1>6, Zenon
    <2> QED BY <2>1, <2>2, Zenon
  <1>8. DOMAIN vcHeap' = Range(new) BY <1>3, Zenon
  <1>9. \A i \in 1 .. n + 1 : vcHeap'[new[i]] \in VcValues
    <2>1. \A i \in 1 .. n : vector[i] \in DOMAIN vcHeap BY <1>4, Zenon DEF Range
    <2>2. \A i \in 1 .. n : vcHeap[vector[i]] \in VcValues BY <1>4, <2>1, Zenon
    <2>3. \A i \in 1 .. n + 1 : i > n \/ i \in 1 .. n BY <1>1
    <2> QED BY <1>7, <2>2, <2>3, Zenon
  <1>10. vcHeap' \in [DOMAIN vcHeap' -> VcValues]
    <2>1. \A b \in DOMAIN vcHeap' : vcHeap'[b] \in VcValues BY <1>5, <1>8, <1>9, Zenon DEF Range
    <2>2. vcHeap' = [b \in DOMAIN vcHeap' |-> vcHeap'[b]] BY <1>3
    <2> QED BY <2>1, <2>2, Zenon
  <1>11. vector' \in Seq(1 .. VcBlocks) /\ Len(vector') = n + 1
    <2>1. new \in [1 .. n + 1 -> 1 .. VcBlocks] BY <1>2, Zenon DEF FreeBlocks
    <2> QED BY <1>1, <1>3, <2>1, SeqOf, Zenon
  <1>12. Len(vector') \in 0 .. VcSize BY <1>1, <1>11, VcAssumption
  <1>13. VcStrong'
    BY <1>2, <1>3, <1>4, <1>8, <1>10, <1>11, <1>12, Zenon DEF VcStrong, Fits
  <1>14. /\ Contents \in Seq(VcValues) /\ Contents' \in Seq(VcValues) /\ Len(Contents) = n /\ Len(Contents') = n + 1
         /\ \A i \in 1 .. n : Contents'[i] = Contents[i]
         /\ Contents'[n + 1] = v
    <2>1. \A i \in 1 .. n : i \in 1 .. n + 1 /\ ~(i > n) BY <1>1
    <2>2. n + 1 \in 1 .. n + 1 /\ n + 1 > n BY <1>1
    <2>3. \A i \in 1 .. n : vcHeap'[vector'[i]] = vcHeap[vector[i]] BY <1>3, <1>7, <2>1
    <2>4. vcHeap'[vector'[n + 1]] = v BY <1>3, <1>7, <2>2, Zenon
    <2> QED BY <1>4, <1>11, <1>13, <2>1, <2>2, <2>3, <2>4, StringsHeld
  <1>15. Contents' = Append(Contents, v)
    BY <1>14, AppendByPlace, Zenon
  <1> QED BY <1>13, <1>15, Zenon

(* VECTOR_PushBackInt (vector/int.c:4-28): the array grows by the new value. *)
LEMMA PushIntKeeps ==
  ASSUME VcStrong, OfInts, UNCHANGED vcProg, NEW v \in VcValues, PushInt(v)
  PROVE  VcStrong' /\ Contents' = Append(Contents, v)
  <1>1. vector \in Seq(VcValues) /\ Len(vector) \in Nat /\ Len(vector) < VcSize /\ vector' = Append(vector, v) /\ OfInts'
    BY DEF VcStrong, Fits, PushInt, Room, OfInts
  <1>2. vector' \in Seq(VcValues) /\ Len(vector') = Len(vector) + 1 BY <1>1
  <1>3. Len(vector') \in 0 .. VcSize BY <1>1, <1>2, VcAssumption
  <1>4. VcStrong' BY <1>1, <1>2, <1>3, Zenon DEF VcStrong, Fits
  <1> QED BY <1>1, <1>4, IntsHeld, Zenon

-----------------------------------------------------------------------------
(* The values behind index move one place forward *)
LEMMA Shifted ==
  ASSUME NEW S, vector \in Seq(S), NEW index \in 1 .. Len(vector)
  PROVE  /\ Shift(index) \in Seq(S) /\ Len(Shift(index)) = Len(vector) - 1
         /\ \A i \in 1 .. Len(vector) - 1 : Shift(index)[i] = IF i < index THEN vector[i] ELSE vector[i + 1]
  <1>1. Len(vector) \in Nat /\ Len(vector) - 1 \in Nat /\ \A i \in 1 .. Len(vector) : vector[i] \in S
    BY SeqShape
  <1>2. \A i \in 1 .. Len(vector) - 1 : i \in 1 .. Len(vector) /\ i + 1 \in 1 .. Len(vector)
    BY <1>1
  <1>3. Shift(index) \in [1 .. Len(vector) - 1 -> S]
    BY <1>1, <1>2, Zenon DEF Shift
  <1> QED BY <1>1, <1>3, SeqOf DEF Shift

(* VECTOR_EraseInt (vector/int.c:31-79): the values behind index move forward and the
   array loses its last place. *)
LEMMA EraseIntKeeps ==
  ASSUME VcStrong, OfInts, UNCHANGED vcProg, NEW index \in 1 .. Len(vector), vector' = Shift(index)
  PROVE  VcStrong' /\ Contents' = SubSeq(Contents, 1, index - 1) \o SubSeq(Contents, index + 1, Len(Contents))
  <1>1. vector \in Seq(VcValues) /\ Len(vector) \in 0 .. VcSize /\ OfInts'
    BY Zenon DEF VcStrong, Fits, OfInts
  <1>2. /\ vector' \in Seq(VcValues) /\ Len(vector') = Len(vector) - 1
        /\ \A i \in 1 .. Len(vector) - 1 : vector'[i] = IF i < index THEN vector[i] ELSE vector[i + 1]
    BY <1>1, Shifted, Zenon
  <1>3. Len(vector') \in 0 .. VcSize BY <1>1, <1>2, VcAssumption
  <1>4. VcStrong' BY <1>1, <1>2, <1>3, Zenon DEF VcStrong, Fits
  <1>5. vector' = SubSeq(vector, 1, index - 1) \o SubSeq(vector, index + 1, Len(vector))
    BY <1>1, <1>2, RemoveByPlace, ZenonT(30)
  <1> QED BY <1>4, <1>5, IntsHeld, Zenon

(* The string at index is freed and, when it is not the last one, the last one is
   put in a new block. *)
LEMMA EraseAtKeeps ==
  ASSUME VcStrong, ~OfInts, UNCHANGED vcProg, NEW index \in 1 .. Len(vector), EraseAt(index)
  PROVE  VcStrong' /\ Contents' = SubSeq(Contents, 1, index - 1) \o SubSeq(Contents, index + 1, Len(Contents))
  <1> DEFINE last == Len(vector)
             b == Malloc(1)[1]
             rest == Without(vcHeap, {vector[index], vector[last]})
             From(i) == IF i < index THEN i ELSE i + 1
  <1>1. /\ vector \in Seq(1 .. VcBlocks) /\ IsInjective(vector)
        /\ Range(vector) = DOMAIN vcHeap /\ vcHeap \in [DOMAIN vcHeap -> VcValues]
        /\ last \in Nat /\ last <= VcSize /\ index \in Nat /\ 1 <= index /\ index <= last
        /\ DOMAIN vector = 1 .. last /\ ~OfInts'
    BY SeqShape, VcAssumption DEF VcStrong, Fits, OfInts
  <1>2. /\ Shift(index) \in Seq(1 .. VcBlocks) /\ Len(Shift(index)) = last - 1
        /\ \A i \in 1 .. last - 1 : Shift(index)[i] = vector[From(i)]
    <2>1. \A i \in 1 .. last - 1 : Shift(index)[i] = IF i < index THEN vector[i] ELSE vector[i + 1]
      BY <1>1, Shifted, Zenon
    <2> QED BY <1>1, <2>1, Shifted, Zenon
  <1>3. 1 + Len(vector) <= VcBlocks BY <1>1, VcAssumption
  <1>4. b \in FreeBlocks BY <1>3, NewBlocks
  <1>5. b \in 1 .. VcBlocks /\ b \notin DOMAIN vcHeap BY <1>4, Zenon DEF FreeBlocks, Live
  <1>6. IF index = last THEN vector' = Shift(index) /\ vcHeap' = rest
        ELSE /\ vector' = [Shift(index) EXCEPT ![last - 1] = b]
             /\ vcHeap' = Merge(rest, On(b, vcHeap[vector[last]]))
    BY Zenon DEF EraseAt
  <1>7. \A i \in 1 .. last - 1 : From(i) \in 1 .. last /\ From(i) # index
    BY <1>1
  <1>8. \A i \in 1 .. last - 1 : \A j \in 1 .. last - 1 : From(i) = From(j) => i = j
    BY <1>1
  <1>9. \A k \in 1 .. last : k # index => \E i \in 1 .. last - 1 : From(i) = k
    <2> TAKE k \in 1 .. last
    <2> HAVE k # index
    <2>1. CASE k < index BY <1>1, <2>1
    <2>2. CASE k > index
      <3>1. k - 1 \in 1 .. last - 1 /\ From(k - 1) = k BY <1>1, <2>2
      <3> QED BY <3>1, Zenon
    <2> QED BY <1>1, <2>1, <2>2
  <1>10. \A i \in 1 .. last : vector[i] \in DOMAIN vcHeap /\ vector[i] \in 1 .. VcBlocks /\ vcHeap[vector[i]] \in VcValues
    <2>1. \A i \in 1 .. last : vector[i] \in DOMAIN vcHeap BY <1>1, Zenon DEF Range
    <2>2. \A i \in 1 .. last : vector[i] \in 1 .. VcBlocks BY <1>1, SeqAt, Zenon
    <2>3. \A c \in DOMAIN vcHeap : vcHeap[c] \in VcValues BY <1>1, Zenon
    <2> QED BY <2>1, <2>2, <2>3, Zenon
  <1>11. \A i \in 1 .. last : \A j \in 1 .. last : vector[i] = vector[j] => i = j
    BY <1>1, Zenon DEF IsInjective
  <1>12. \A c \in DOMAIN vcHeap : \E k \in 1 .. last : vector[k] = c
    BY <1>1, Zenon DEF Range
  <1>13. /\ DOMAIN rest = DOMAIN vcHeap \ {vector[index], vector[last]}
         /\ \A c \in DOMAIN rest : rest[c] = vcHeap[c]
    BY Zenon DEF Without
  <1> HIDE DEF b, rest, From, last
  <1>14. /\ vector' \in Seq(1 .. VcBlocks) /\ Len(vector') = last - 1 /\ IsInjective(vector')
         /\ Range(vector') = DOMAIN vcHeap' /\ vcHeap' \in [DOMAIN vcHeap' -> VcValues]
         /\ \A i \in 1 .. last - 1 : vcHeap'[vector'[i]] = vcHeap[vector[From(i)]]
    <2>1. CASE index = last
      <3>1. vector' = Shift(index) /\ vcHeap' = rest BY <1>6, <2>1, Zenon
      <3>2. DOMAIN vector' = 1 .. last - 1 BY <1>2, <3>1, SeqShape, Zenon
      <3>3. \A i \in 1 .. last - 1 : vector'[i] = vector[From(i)] /\ vector'[i] \in DOMAIN rest
        BY <1>1, <1>2, <1>7, <1>10, <1>11, <1>13, <2>1, <3>1
      <3>4. \A c \in DOMAIN rest : \E i \in 1 .. last - 1 : vector'[i] = c
        <4> TAKE c \in DOMAIN rest
        <4>1. PICK k \in 1 .. last : vector[k] = c BY <1>12, <1>13, Zenon
        <4>2. k # index BY <1>13, <4>1, Zenon
        <4>3. PICK i \in 1 .. last - 1 : From(i) = k BY <1>9, <4>2, Zenon
        <4> QED BY <3>3, <4>1, <4>3, Zenon
      <3>5. IsInjective(vector')
        BY <1>7, <1>8, <1>11, <3>2, <3>3 DEF IsInjective
      <3>6. Range(vector') = DOMAIN vcHeap' BY <3>1, <3>2, <3>3, <3>4, Zenon DEF Range
      <3>7. vcHeap' \in [DOMAIN vcHeap' -> VcValues]
        BY <1>1, <1>13, <3>1, Zenon DEF rest, Without
      <3>8. \A i \in 1 .. last - 1 : vcHeap'[vector'[i]] = vcHeap[vector[From(i)]]
        BY <1>13, <3>1, <3>3, Zenon
      <3> QED BY <1>2, <3>1, <3>5, <3>6, <3>7, <3>8, Zenon
    <2>2. CASE index # last
      <3>1. vector' = [Shift(index) EXCEPT ![last - 1] = b] /\ vcHeap' = Merge(rest, On(b, vcHeap[vector[last]]))
        BY <1>6, <2>2, Zenon
      <3>2. last - 1 \in 1 .. last - 1 /\ From(last - 1) = last /\ last \in 1 .. last BY <1>1, <2>2 DEF From
      <3>3. vector' \in Seq(1 .. VcBlocks) /\ Len(vector') = last - 1 /\ DOMAIN vector' = 1 .. last - 1
        BY <1>2, <1>5, <3>1, <3>2, SeqPut, SeqShape
      <3>4. \A i \in 1 .. last - 1 : vector'[i] = IF i = last - 1 THEN b ELSE vector[From(i)]
        BY <1>2, <1>5, <3>1, <3>2, SeqPut
      <3>5. /\ DOMAIN vcHeap' = DOMAIN rest \cup {b} /\ vcHeap'[b] = vcHeap[vector[last]]
            /\ \A c \in DOMAIN rest : vcHeap'[c] = vcHeap[c]
        BY <1>5, <1>13, <3>1, Zenon DEF Merge, On
      <3>6. \A i \in 1 .. last - 1 : i # last - 1 => vector[From(i)] \in DOMAIN rest
        <4> TAKE i \in 1 .. last - 1
        <4> HAVE i # last - 1
        <4>1. From(i) \in 1 .. last /\ From(i) # index /\ From(i) # last BY <1>7, <1>8, <3>2, Zenon
        <4> QED BY <1>10, <1>11, <1>13, <3>2, <4>1, index \in 1 .. last, Zenon DEF last
      <3>7. \A c \in DOMAIN rest : \E i \in 1 .. last - 1 : i # last - 1 /\ vector[From(i)] = c
        BY <1>9, <1>12, <1>13, <3>2
      <3>8. IsInjective(vector')
        <4> SUFFICES ASSUME NEW i \in 1 .. last - 1, NEW j \in 1 .. last - 1, vector'[i] = vector'[j]
                     PROVE  i = j
          BY <3>3, Zenon DEF IsInjective
        <4>1. b \notin DOMAIN rest BY <1>5, <1>13, Zenon
        <4>2. i = last - 1 <=> j = last - 1 BY <3>4, <3>6, <4>1, Zenon
        <4> QED BY <1>7, <1>8, <1>11, <3>4, <4>2, Zenon
      <3>9. Range(vector') = DOMAIN vcHeap'
        <4>1. \A i \in 1 .. last - 1 : vector'[i] \in DOMAIN vcHeap' BY <3>4, <3>5, <3>6, Zenon
        <4>2. \A c \in DOMAIN vcHeap' : \E i \in 1 .. last - 1 : vector'[i] = c BY <3>2, <3>4, <3>5, <3>7
        <4> QED BY <3>3, <4>1, <4>2, Zenon DEF Range
      <3>10. vcHeap' \in [DOMAIN vcHeap' -> VcValues]
        <4>1. \A c \in DOMAIN vcHeap' : vcHeap'[c] \in VcValues BY <1>1, <1>10, <1>13, <3>2, <3>5, Zenon
        <4>2. vcHeap' = [c \in DOMAIN vcHeap' |-> vcHeap'[c]] BY <3>1, Zenon DEF Merge
        <4> QED BY <4>1, <4>2, Zenon
      <3>11. \A i \in 1 .. last - 1 : vcHeap'[vector'[i]] = vcHeap[vector[From(i)]]
        BY <3>2, <3>4, <3>5, <3>6, Zenon
      <3> QED BY <3>3, <3>8, <3>9, <3>10, <3>11, Zenon
    <2> QED BY <2>1, <2>2, Zenon
  <1>15. Len(vector') \in 0 .. VcSize BY <1>1, <1>14, VcAssumption
  <1>16. VcStrong' BY <1>1, <1>14, <1>15, Zenon DEF VcStrong, Fits
  <1>17. /\ Contents \in Seq(VcValues) /\ Contents' \in Seq(VcValues) /\ Len(Contents) = last /\ Len(Contents') = last - 1
         /\ \A i \in 1 .. last - 1 : Contents'[i] = Contents[From(i)]
    <2>1. /\ Contents \in Seq(VcValues) /\ Contents' \in Seq(VcValues) /\ Len(Contents) = last /\ Len(Contents') = last - 1
          /\ \A i \in 1 .. last : Contents[i] = vcHeap[vector[i]]
          /\ \A i \in 1 .. last - 1 : Contents'[i] = vcHeap'[vector'[i]]
      BY <1>14, <1>16, StringsHeld, Zenon DEF last
    <2> QED BY <1>7, <1>14, <2>1, Zenon
  <1>18. \A i \in 1 .. Len(Contents) - 1 : Contents'[i] = IF i < index THEN Contents[i] ELSE Contents[i + 1]
    BY <1>17, Zenon DEF From
  <1>19. index \in 1 .. Len(Contents) /\ Len(Contents') = Len(Contents) - 1 BY <1>17, Zenon DEF last
  <1>20. Contents' = SubSeq(Contents, 1, index - 1) \o SubSeq(Contents, index + 1, Len(Contents))
    BY <1>17, <1>18, <1>19, RemoveByPlace, Zenon
  <1> QED BY <1>16, <1>20, Zenon

-----------------------------------------------------------------------------
(* A new vector is empty, and so is the list. *)
LEMMA VcStarts == VcInit => VcStrong /\ Abstract!LsInit
  <1> SUFFICES ASSUME VcInit PROVE VcStrong /\ Abstract!LsInit
    BY Zenon
  <1>1. vector = <<>> /\ vcHeap = <<>> /\ vcCall = [op |-> "none", arg |-> 0] BY Zenon DEF VcInit
  <1>2. Len(vector) = 0 /\ DOMAIN vector = {} /\ DOMAIN vcHeap = {} /\ \A S : vector \in Seq(S)
    BY <1>1
  <1>3. Range(vector) = DOMAIN vcHeap /\ IsInjective(vector) BY <1>2, Zenon DEF Range, IsInjective
  <1>4. vcHeap \in [DOMAIN vcHeap -> VcValues] BY <1>1, <1>2
  <1>5. VcStrong BY <1>2, <1>3, <1>4, VcAssumption DEF VcStrong, Fits
  <1>6. Contents = <<>>
    <2>1. CASE OfInts BY <1>1, <2>1, Zenon DEF Contents
    <2>2. CASE ~OfInts BY <1>1, <2>2 DEF Contents
    <2> QED BY <2>1, <2>2, Zenon
  <1> QED BY <1>1, <1>5, <1>6, Zenon DEF Abstract!LsInit, Abstract!NoCall

(* Each of the seven push functions appends its value, whichever way it gets its blocks. *)
LEMMA VcPushes ==
  ASSUME VcStrong, NEW v \in VcValues, VcPush(v), UNCHANGED vcProg
  PROVE  VcStrong' /\ Contents' = Append(Contents, v)
  <1>1. CASE OfInts
    <2>1. PushInt(v)
      BY <1>1, Zenon DEF VcPush, OfInts, VECTOR_PushBackString, VECTOR_PushBackInt, BITGREP_PushBackString,
                  BITGREP_PushBackInt, PushBackString, VS_append, PushBackString2
    <2> QED BY <1>1, <2>1, PushIntKeeps, Zenon
  <1>2. CASE ~OfInts
    <2>1. PushString(v) \/ (Room /\ CopyAll(v))
      BY <1>2, Zenon DEF VcPush, OfInts, VECTOR_PushBackString, VECTOR_PushBackInt, BITGREP_PushBackString,
                  BITGREP_PushBackInt, PushBackString, VS_append, PushBackString2
    <2> QED BY <1>2, <2>1, PushStringKeeps, CopyAllKeeps, Zenon
  <1> QED BY <1>1, <1>2, Zenon

(* Each of the four erase functions removes the value at its index, or leaves everything
   as it is when the index is outside the vector. *)
LEMMA VcErases ==
  ASSUME VcStrong, NEW i \in Int, VcErase(i), UNCHANGED vcProg
  PROVE  /\ VcStrong'
         /\ IF i \in DOMAIN Contents
            THEN Contents' = SubSeq(Contents, 1, i - 1) \o SubSeq(Contents, i + 1, Len(Contents))
            ELSE Contents' = Contents
  <1>0. DOMAIN Contents = DOMAIN vector /\ DOMAIN vector = 1 .. Len(vector)
    <2>1. OfInts => vector \in Seq(VcValues) BY Zenon DEF VcStrong, Fits
    <2>2. ~OfInts => vector \in Seq(1 .. VcBlocks) BY Zenon DEF VcStrong, Fits
    <2> QED BY <2>1, <2>2, SeqShape, Zenon DEF Contents
  <1>1. (OfInts /\ EraseInt(i)) \/ (~OfInts /\ EraseString(i))
    BY Zenon DEF VcErase, OfInts, VECTOR_EraseString, VECTOR_EraseInt, BITGREP_EraseString, BITGREP_EraseInt
  <1>2. CASE i \notin DOMAIN vector
    <2>1. UNCHANGED <<vector, vcHeap, vcProg>> BY <1>1, <1>2, Zenon DEF EraseInt, EraseString, Refused
    <2> QED BY <1>0, <1>2, <2>1, Zenon DEF VcStrong, Contents, OfInts
  <1>3. CASE i \in DOMAIN vector
    <2>1. CASE OfInts
      <3>1. vector' = Shift(i) BY <1>1, <1>3, <2>1, Zenon DEF EraseInt
      <3> QED BY <1>0, <1>3, <2>1, <3>1, EraseIntKeeps, Zenon
    <2>2. CASE ~OfInts
      <3>1. EraseAt(i) BY <1>1, <1>3, <2>2, Zenon DEF EraseString
      <3> QED BY <1>0, <1>3, <2>2, <3>1, EraseAtKeeps, Zenon
    <2> QED BY <2>1, <2>2, Zenon
  <1> QED BY <1>2, <1>3, Zenon

(* A call keeps vector and heap together, and is a step of the list. *)
LEMMA VcSteps == VcStrong /\ [VcNext]_vcVars => VcStrong' /\ [Abstract!LsNext]_<<Contents, vcCall>>
  <1> SUFFICES ASSUME VcStrong, [VcNext]_vcVars PROVE VcStrong' /\ [Abstract!LsNext]_<<Contents, vcCall>>
    BY Zenon
  <1>1. ASSUME NEW v \in VcValues, VcPush(v), vcCall' = [op |-> "push", arg |-> v], UNCHANGED vcProg
        PROVE  VcStrong' /\ Abstract!LsNext
    BY <1>1, VcPushes, Zenon DEF Abstract!LsNext, Abstract!PushBack
  <1>2. ASSUME NEW i \in 0 .. VcSize + 1, VcErase(i), vcCall' = [op |-> "erase", arg |-> i], UNCHANGED vcProg
        PROVE  VcStrong' /\ Abstract!LsNext
    <2>1. i \in Int BY VcAssumption
    <2>2. /\ VcStrong'
          /\ IF i \in DOMAIN Contents
             THEN Contents' = SubSeq(Contents, 1, i - 1) \o SubSeq(Contents, i + 1, Len(Contents))
             ELSE Contents' = Contents
      BY <1>2, <2>1, VcErases, Zenon
    <2>3. vcCall'.op = "erase" /\ vcCall'.arg = i BY <1>2, Zenon
    <2> QED BY <2>2, <2>3, Zenon DEF Abstract!LsNext, Abstract!Erase, Abstract!Refuse
  <1>3. CASE UNCHANGED vcVars
    BY <1>3, Zenon DEF vcVars, VcStrong, Contents, OfInts
  <1> QED BY <1>1, <1>2, <1>3, Zenon DEF VcNext

(* Blocks and entries match (VcBlocksMatch) wherever vector and heap fit. *)
LEMMA VcStrongIsEnough == VcStrong => VcBlocksMatch
  BY OneBlockEach, Zenon DEF VcBlocksMatch, VcStrong, Fits, Live

(* The vectors of vector/ and of grep implement a list, whatever values they hold and
   however long they grow, and in a vector of strings no two entries share a block and no
   block is left behind (string.c:82-183, int.c:4-79, inefficient.c:150-318,
   grep.c:172-350). *)
THEOREM VectorsAreLists == VcSpec => VcListInOwnBlocks
  <1>1. VcInit => VcStrong /\ Abstract!LsInit BY VcStarts, Zenon
  <1>2. VcStrong /\ [VcNext]_vcVars => VcStrong' /\ [Abstract!LsNext]_<<Contents, vcCall>> BY VcSteps, Zenon
  <1>3. VcStrong => VcBlocksMatch BY VcStrongIsEnough, Zenon
  <1> QED BY <1>1, <1>2, <1>3, PTL DEF VcSpec, VcListInOwnBlocks, VcIsAList, Abstract!ListSpec

-----------------------------------------------------------------------------
(* DtlsEcho: who the server talks to *)

(* the cookies sent so far, and none; what is in flight, and the two programs *)
DtlsCookies == dtlsIssued \union {DtlsNone}
DtlsDatagrams(cookies) == [type : {"hello", "verify", "data", "close"}, cookie : cookies]
DtlsQueues(cookies) == [Addresses -> Seq(DtlsDatagrams(cookies))]
DtlsClientPcs == {"absent", "start", "connect", "loop", "read", "done", "exited"}
DtlsClientStates(cookies) == [pc : DtlsClientPcs, left : Nat, cookie : cookies, got : BOOLEAN]
DtlsServerStates ==
  [pc : {"start", "top", "listen", "socket", "accept", "loop", "read", "write", "cleanup", "exited"},
   peer : Addresses \union {DtlsNone}, timeouts : 0 .. DtlsMaxTimeouts,
   got : BOOLEAN, holds : SUBSET {"ssl", "info", "fd"}, run : 1 .. DtlsMaxFaults + 1]

(* The server's own state: a read is only begun with a timeout left, and between
   connections there is no peer and nothing of the last connection is held *)
DtlsServerOK ==
  /\ dtlsServer \in DtlsServerStates
  /\ dtlsFaults \in 0 .. DtlsMaxFaults /\ dtlsServer.run <= dtlsFaults + 1
  /\ dtlsSecret \in 0 .. dtlsServer.run
  /\ ServerAt("read") => dtlsServer.timeouts < DtlsMaxTimeouts
  /\ dtlsServer.pc \in {"start", "top", "listen", "exited"} => dtlsServer.peer = DtlsNone
  /\ dtlsServer.pc \in {"start", "top", "exited"} => dtlsServer.holds = {}

(* No datagram and no client has a cookie that the server never sent *)
DtlsCookiesOK ==
  /\ dtlsClient \in [Addresses -> DtlsClientStates(DtlsCookies)]
  /\ \A c \in DtlsClients : dtlsClient[c].pc # "absent"
  /\ toServer \in DtlsQueues(DtlsCookies) /\ toClient \in DtlsQueues(DtlsCookies)

DtlsIInv == DtlsServerOK /\ DtlsCookiesOK /\ DtlsPeerProvedAddress

(* A datagram that is sent goes to the end of the queue of its address. *)
LEMMA PushKeeps ==
  ASSUME NEW K, NEW q \in DtlsQueues(K), NEW c, NEW ms \in Seq(DtlsDatagrams(K))
  PROVE  Push(q, c, ms) \in DtlsQueues(K)
<1> DEFINE D == DtlsDatagrams(K)
<1>1. q \in [Addresses -> Seq(D)] /\ ms \in Seq(D)
  BY Zenon DEF DtlsQueues
<1> HIDE DEF D
<1>2. ASSUME NEW s \in Seq(D) PROVE s \o ms \in Seq(D)
  BY <1>1
<1>3. [q EXCEPT ![c] = q[c] \o ms] \in [Addresses -> Seq(D)]
  BY <1>1, <1>2, Zenon
<1> QED BY <1>3, Zenon DEF D, DtlsQueues, Push

(* A datagram that is read, or lost, leaves the queue of its address. *)
LEMMA PopKeeps ==
  ASSUME NEW K, NEW q \in DtlsQueues(K), NEW c, q[c] # <<>>
  PROVE  Pop(q, c) \in DtlsQueues(K)
<1> DEFINE D == DtlsDatagrams(K)
<1>1. q \in [Addresses -> Seq(D)]
  BY Zenon DEF DtlsQueues
<1> HIDE DEF D
<1>2. ASSUME NEW s \in Seq(D), s # <<>> PROVE Tail(s) \in Seq(D)
  BY <1>2
<1>3. [q EXCEPT ![c] = Tail(q[c])] \in [Addresses -> Seq(D)]
  BY <1>1, <1>2, Zenon
<1> QED BY <1>3, Zenon DEF D, DtlsQueues, Pop

(* What DTLSv1_listen() and SSL_read() find first in a queue is a datagram that was sent. *)
LEMMA HeadIsDatagram ==
  ASSUME NEW K, NEW q \in DtlsQueues(K), NEW c \in Addresses, q[c] # <<>>
  PROVE  Head(q[c]) \in DtlsDatagrams(K)
BY DEF DtlsQueues

(* What is in flight stays well formed when the server sends another cookie
   (server/main.c:65-142). *)
LEMMA QueuesGrow ==
  ASSUME NEW K, NEW L, K \subseteq L, NEW q \in DtlsQueues(K)
  PROVE  q \in DtlsQueues(L)
<1>1. DtlsDatagrams(K) \subseteq DtlsDatagrams(L)
  BY Zenon DEF DtlsDatagrams
<1>2. ASSUME NEW s \in Seq(DtlsDatagrams(K)) PROVE s \in Seq(DtlsDatagrams(L))
  <2>1. s \in [1 .. Len(s) -> DtlsDatagrams(L)] /\ Len(s) \in Nat
    BY <1>1
  <2> QED BY <2>1
<1> QED BY <1>2, Zenon DEF DtlsQueues

(* A client goes on to its next call and keeps its cookie and its count of messages. *)
LEMMA ClientGoesKeeps ==
  ASSUME NEW K, NEW f \in [Addresses -> DtlsClientStates(K)], NEW c, NEW pc \in DtlsClientPcs
  PROVE  [f EXCEPT ![c].pc = pc] \in [Addresses -> DtlsClientStates(K)]
BY Zenon DEF DtlsClientStates

(* The number of faults, which also counts the secrets generate_secret() has drawn, grows
   or stays. *)
LEMMA FaultKeeps ==
  ASSUME DtlsServerOK, Fault
  PROVE  dtlsFaults' \in 0 .. DtlsMaxFaults /\ dtlsFaults' = dtlsFaults + 1
BY DtlsAssumption DEF Fault, DtlsServerOK

(* Every step of the server keeps its own state: the timeouts of a connection are counted
   down before a read, and cleanup (server/main.c:399-409) leaves nothing of it. *)
LEMMA ServerKeepsItself ==
  ASSUME DtlsIInv, ServerStep
  PROVE  DtlsServerOK'
<1> USE DtlsAssumption
<1> USE DEF DtlsIInv, DtlsServerOK, DtlsServerStates, ServerAt, ServerGoes
<1>0. Fault => dtlsFaults' \in 0 .. DtlsMaxFaults /\ dtlsFaults' = dtlsFaults + 1
  BY FaultKeeps, Zenon
<1>1. CASE ServerSetup
  BY <1>0, <1>1 DEF ServerSetup
<1>2. CASE NewSsl
  BY <1>2, Zenon DEF NewSsl
<1>3. CASE DtlsOpenSocket
  <2>1. PICK pc \in {"accept", "cleanup"}, got \in {{}, {"fd"}} :
             dtlsServer' = [dtlsServer EXCEPT !.pc = pc, !.holds = dtlsServer.holds \union got]
    BY <1>3, Zenon DEF DtlsOpenSocket
  <2>2. dtlsServer.holds \union got \in SUBSET {"ssl", "info", "fd"}
    BY <2>1, Zenon
  <2>3. dtlsServer' \in DtlsServerStates
    BY <2>1, <2>2, Zenon
  <2>4. /\ dtlsServer'.pc \in {"accept", "cleanup"} /\ dtlsServer'.run = dtlsServer.run
        /\ dtlsSecret' = dtlsSecret
    BY <1>3, <2>1, Zenon DEF DtlsOpenSocket
  <2>5. dtlsFaults' \in 0 .. DtlsMaxFaults /\ dtlsServer.run <= dtlsFaults' + 1
    BY <1>0, <1>3 DEF DtlsOpenSocket
  <2> QED BY <2>3, <2>4, <2>5, Zenon
<1>4. CASE Handshake
  BY <1>4, Zenon DEF Handshake
<1>5. CASE AcceptFails
  BY <1>0, <1>5 DEF AcceptFails
<1>6. CASE ServerLoop
  BY <1>6 DEF ServerLoop
<1>7. CASE ServerReads
  BY <1>7, Zenon DEF ServerReads
<1>8. CASE ServerTimesOut
  <2>1. dtlsServer.timeouts + 1 \in 0 .. DtlsMaxTimeouts
    BY <1>8 DEF ServerTimesOut
  <2>2. dtlsServer' = [dtlsServer EXCEPT !.pc = "loop", !.timeouts = dtlsServer.timeouts + 1]
    BY <1>8, Zenon DEF ServerTimesOut
  <2> QED BY <1>8, <2>1, <2>2, Zenon DEF ServerTimesOut
<1>9. CASE ServerReadFails
  BY <1>0, <1>9 DEF ServerReadFails
<1>10. CASE ServerWrites
  BY <1>0, <1>10 DEF ServerWrites
<1>11. CASE Cleanup
  BY <1>11, Zenon DEF Cleanup
<1>12. ASSUME NEW c \in Addresses, ListenAnswers(c) PROVE DtlsServerOK'
  BY <1>0, <1>12 DEF ListenAnswers, generate_secret
<1>13. ASSUME NEW c \in Addresses, ListenAccepts(c) PROVE DtlsServerOK'
  <2>1. dtlsServer.holds \union {"info"} \in SUBSET {"ssl", "info", "fd"} /\ 0 \in 0 .. DtlsMaxTimeouts
    OBVIOUS
  <2>2. dtlsServer' = [dtlsServer EXCEPT !.pc = "socket", !.peer = c, !.timeouts = 0, !.got = FALSE,
                                         !.holds = dtlsServer.holds \union {"info"}]
    BY <1>13, Zenon DEF ListenAccepts
  <2>3. dtlsServer' \in DtlsServerStates
    BY <2>1, <2>2, Zenon
  <2> QED BY <1>13, <2>2, <2>3 DEF ListenAccepts
<1> QED BY <1>1, <1>2, <1>3, <1>4, <1>5, <1>6, <1>7, <1>8, <1>9, <1>10, <1>11, <1>12, <1>13, Zenon
        DEF ServerStep

(* The server sends only cookies it has noted, and takes what it reads. *)
LEMMA ServerKeepsCookies ==
  ASSUME DtlsIInv, ServerStep
  PROVE  DtlsCookiesOK'
<1> USE DtlsAssumption
<1> USE DEF DtlsIInv, DtlsCookiesOK
<1>0. /\ <<data>> \in Seq(DtlsDatagrams(DtlsCookies)) 
      /\ <<closeNotify>> \in Seq(DtlsDatagrams(DtlsCookies))
  BY DEF data, closeNotify, DtlsDatagrams, DtlsCookies
<1>1. CASE UNCHANGED <<dtlsClient, toServer, toClient, dtlsIssued>>
  BY <1>1, Zenon DEF DtlsCookies
<1>2. CASE ServerSetup \/ NewSsl \/ DtlsOpenSocket \/ AcceptFails \/ ServerTimesOut \/ ServerReadFails \/ Cleanup
  BY <1>1, <1>2, Zenon DEF ServerSetup, NewSsl, DtlsOpenSocket, AcceptFails, ServerTimesOut, ServerReadFails, Cleanup
<1>3. CASE Handshake
  <2>1. dtlsClient' = [dtlsClient EXCEPT ![dtlsServer.peer].pc = "loop"]
    BY <1>3, Zenon DEF Handshake, ClientGoes
  <2>2. dtlsClient' \in [Addresses -> DtlsClientStates(DtlsCookies)]
    BY <2>1, ClientGoesKeeps, Zenon DEF DtlsClientPcs
  <2>3. \A c \in DtlsClients : dtlsClient'[c].pc # "absent"
    BY <2>1, Zenon DEF Addresses, DtlsClientStates
  <2> QED BY <1>3, <2>2, <2>3, Zenon DEF Handshake, DtlsCookies
<1>4. CASE ServerLoop
  <2>1. toClient' \in DtlsQueues(DtlsCookies)
    BY <1>0, <1>4, PushKeeps, Zenon DEF ServerLoop
  <2> QED BY <1>4, <2>1, Zenon DEF ServerLoop, DtlsCookies
<1>5. CASE ServerReads
  BY <1>5, PopKeeps, Zenon DEF ServerReads, DtlsCookies
<1>6. CASE ServerWrites
  <2>1. toClient' \in DtlsQueues(DtlsCookies)
    BY <1>0, <1>6, PushKeeps, Zenon DEF ServerWrites
  <2> QED BY <1>6, <2>1, Zenon DEF ServerWrites, DtlsCookies
<1>7. ASSUME NEW c \in Addresses, ListenAnswers(c) PROVE DtlsCookiesOK'
  <2>1. toServer' \in DtlsQueues(DtlsCookies) /\ dtlsClient' = dtlsClient
    BY <1>7, PopKeeps, Zenon DEF ListenAnswers
  <2>2. CASE UNCHANGED <<toClient, dtlsIssued>>
    BY <2>1, <2>2, Zenon DEF DtlsCookies
  <2>3. CASE ~UNCHANGED <<toClient, dtlsIssued>>
    <3> DEFINE k == Cookie(generate_secret, c)
    <3>1. toClient' = Push(toClient, c, <<verifyRequest(k)>>) /\ dtlsIssued' = dtlsIssued \union {k}
      BY <1>7, <2>3, Zenon DEF ListenAnswers
    <3>2. DtlsCookies \subseteq DtlsCookies' /\ k \in DtlsCookies'
      BY <3>1, Zenon DEF DtlsCookies
    <3> HIDE DEF k
    <3>3. <<verifyRequest(k)>> \in Seq(DtlsDatagrams(DtlsCookies'))
      BY <3>2 DEF verifyRequest, DtlsDatagrams
    <3>4. toServer' \in DtlsQueues(DtlsCookies') /\ toClient \in DtlsQueues(DtlsCookies')
      BY <2>1, <3>2, QueuesGrow, Zenon
    <3>5. toClient' \in DtlsQueues(DtlsCookies')
      BY <3>1, <3>3, <3>4, PushKeeps, Zenon
    <3>6. dtlsClient \in [Addresses -> DtlsClientStates(DtlsCookies')]
      BY <3>2, Zenon DEF DtlsClientStates
    <3> QED BY <2>1, <3>4, <3>5, <3>6 , Zenon
  <2> QED BY <2>2, <2>3, Zenon
<1>8. ASSUME NEW c \in Addresses, ListenAccepts(c) PROVE DtlsCookiesOK'
  BY <1>8, PopKeeps, Zenon DEF ListenAccepts, DtlsCookies
<1> QED BY <1>2, <1>3, <1>4, <1>5, <1>6, <1>7, <1>8, Zenon DEF ServerStep

(* A connection begins only with an address that returned the cookie made for it: a cookie
   passes verify_cookie (server/main.c:146-216) only from there. *)
LEMMA ServerKeepsPeerProved ==
  ASSUME DtlsIInv, ServerStep
  PROVE  DtlsPeerProvedAddress'
<1> USE DtlsAssumption
<1> USE DEF DtlsIInv, DtlsServerOK, DtlsServerStates, DtlsPeerProvedAddress, ServerAt, ServerGoes
<1>1. CASE UNCHANGED <<dtlsServer.peer, dtlsSecret, dtlsIssued>>
  BY <1>1, Zenon
<1>2. CASE ServerSetup \/ NewSsl \/ DtlsOpenSocket \/ AcceptFails \/ ServerTimesOut \/ ServerReadFails
  BY <1>1, <1>2, Zenon DEF ServerSetup, NewSsl, DtlsOpenSocket, AcceptFails, ServerTimesOut, ServerReadFails
<1>3. CASE Handshake \/ ServerLoop \/ ServerReads \/ ServerWrites
  BY <1>1, <1>3, Zenon DEF Handshake, ServerLoop, ServerReads, ServerWrites
<1>4. CASE Cleanup
  BY <1>4, Zenon DEF Cleanup
<1>5. ASSUME NEW c \in Addresses, ListenAnswers(c) PROVE DtlsPeerProvedAddress'
  <2>1. dtlsServer' = dtlsServer /\ dtlsServer.peer = DtlsNone
    BY <1>5, Zenon DEF ListenAnswers
  <2> QED BY <2>1, Zenon
<1>6. ASSUME NEW c \in Addresses, ListenAccepts(c) PROVE DtlsPeerProvedAddress'
  <2> DEFINE m == Head(toServer[c])
  <2>1. m \in DtlsDatagrams(DtlsCookies)
    BY <1>6, HeadIsDatagram, Zenon DEF ListenAccepts, DtlsCookiesOK
  <2>2. dtlsSecret # 0 /\ m.cookie = Cookie(dtlsSecret, c)
    BY <1>6, Zenon DEF ListenAccepts, verify_cookie
  <2>3. m.cookie \in dtlsIssued \/ m.cookie = DtlsNone
    BY <2>1, Zenon DEF DtlsDatagrams, DtlsCookies
  <2> HIDE DEF m
  <2>4. dtlsSecret \in 1 .. DtlsMaxFaults + 1
    BY <2>2
  <2>5. Cookie(dtlsSecret, c) \in dtlsIssued
    BY <2>2, <2>3, <2>4, Zenon
  <2>6. dtlsServer'.peer = c /\ UNCHANGED <<dtlsSecret, dtlsIssued>>
    BY <1>6, Zenon DEF ListenAccepts
  <2> QED BY <2>5, <2>6, Zenon
<1> QED BY <1>2, <1>3, <1>4, <1>5, <1>6, Zenon DEF ServerStep

(* No step of a client makes up a cookie, and none touches the server: a client returns
   the one it was sent (client/main.c:312-314). *)
LEMMA ClientsKeep ==
  ASSUME DtlsIInv, NEW c \in DtlsClients, ClientStep(c)
  PROVE  DtlsIInv'
<1> USE DtlsAssumption
<1> USE DEF ClientAt, ClientGoes
<1>1. UNCHANGED <<dtlsServer, dtlsSecret, dtlsIssued>>
  BY Zenon DEF ClientStep, ClientSetup, SendHello, AnswerCookie, ConnectFails, ClientWrites, ClientLoop, ClientReads,
         ClientTimesOut, ClientReadFails, serverSide
<1>2. dtlsFaults' = dtlsFaults \/ Fault
  BY Zenon DEF ClientStep, ClientSetup, SendHello, AnswerCookie, ConnectFails, ClientWrites, ClientLoop, ClientReads,
         ClientTimesOut, ClientReadFails
<1>3. DtlsServerOK'
  BY <1>1, <1>2, FaultKeeps DEF DtlsIInv, DtlsServerOK, DtlsServerStates, ServerAt
<1>4. DtlsPeerProvedAddress'
  BY <1>1, Zenon DEF DtlsIInv, DtlsPeerProvedAddress
<1>5. DtlsCookies' = DtlsCookies /\ c \in Addresses
  BY <1>1, Zenon DEF DtlsCookies, Addresses
<1>6. ASSUME NEW pc \in DtlsClientPcs \ {"absent"}, NEW s \in DtlsClientStates(DtlsCookies), s.pc = pc,
             dtlsClient' = [dtlsClient EXCEPT ![c] = s]
      PROVE  /\ dtlsClient' \in [Addresses -> DtlsClientStates(DtlsCookies)]
             /\ \A d \in DtlsClients : dtlsClient'[d].pc # "absent"
  BY <1>6, Zenon DEF DtlsIInv, DtlsCookiesOK, Addresses
<1>7. ASSUME NEW pc \in DtlsClientPcs \ {"absent"}, dtlsClient' = [dtlsClient EXCEPT ![c].pc = pc]
      PROVE  /\ dtlsClient' \in [Addresses -> DtlsClientStates(DtlsCookies)]
             /\ \A d \in DtlsClients : dtlsClient'[d].pc # "absent"
  BY <1>7, Zenon DEF DtlsIInv, DtlsCookiesOK, Addresses, DtlsClientStates
<1>8. CASE ClientSetup(c) \/ ConnectFails(c) \/ ClientLoop(c) \/ ClientTimesOut(c) \/ ClientReadFails(c)
  <2>1. PICK pc \in DtlsClientPcs \ {"absent"} : dtlsClient' = [dtlsClient EXCEPT ![c].pc = pc]
    BY <1>8, Zenon DEF ClientSetup, ConnectFails, ClientLoop, ClientTimesOut, ClientReadFails, DtlsClientPcs
  <2>2. UNCHANGED <<toServer, toClient>>
    BY <1>8, Zenon DEF ClientSetup, ConnectFails, ClientLoop, ClientTimesOut, ClientReadFails
  <2> QED BY <1>3, <1>4, <1>5, <1>7, <2>1, <2>2, Zenon DEF DtlsIInv, DtlsCookiesOK
<1>9. CASE SendHello(c)
  <2>1. <<hello(dtlsClient[c].cookie)>> \in Seq(DtlsDatagrams(DtlsCookies))
    BY <1>5 DEF hello, DtlsDatagrams, DtlsIInv, DtlsCookiesOK, DtlsClientStates
  <2>2. toServer' \in DtlsQueues(DtlsCookies)
    BY <1>9, <2>1, PushKeeps, Zenon DEF SendHello, DtlsIInv, DtlsCookiesOK
  <2> QED BY <1>3, <1>4, <1>5, <1>9, <2>2, Zenon DEF SendHello, DtlsIInv, DtlsCookiesOK
<1>10. CASE AnswerCookie(c)
  <2>1. toClient' \in DtlsQueues(DtlsCookies)
    BY <1>10, PopKeeps, Zenon DEF AnswerCookie, DtlsIInv, DtlsCookiesOK
  <2>2. PICK k \in DtlsCookies : k = Head(toClient[c]).cookie
    BY <1>5, <1>10, HeadIsDatagram, Zenon DEF AnswerCookie, DtlsIInv, DtlsCookiesOK, DtlsDatagrams
  <2>3. CASE dtlsClient' = [dtlsClient EXCEPT ![c].cookie = k] /\ toServer' = Push(toServer, c, <<hello(k)>>)
    <3>1. <<hello(k)>> \in Seq(DtlsDatagrams(DtlsCookies))
      BY DEF hello, DtlsDatagrams
    <3>2. toServer' \in DtlsQueues(DtlsCookies)
      BY <2>3, <3>1, PushKeeps, Zenon DEF DtlsIInv, DtlsCookiesOK
    <3>3. /\ dtlsClient' \in [Addresses -> DtlsClientStates(DtlsCookies)]
          /\ \A d \in DtlsClients : dtlsClient'[d].pc # "absent"
      BY <2>3, Zenon DEF DtlsIInv, DtlsCookiesOK, Addresses, DtlsClientStates
    <3> QED BY <1>3, <1>4, <1>5, <2>1, <3>2, <3>3, Zenon DEF DtlsIInv, DtlsCookiesOK
  <2>4. CASE UNCHANGED <<dtlsClient, toServer>>
    BY <1>3, <1>4, <1>5, <2>1, <2>4, Zenon DEF DtlsIInv, DtlsCookiesOK
  <2> QED BY <1>10, <2>2, <2>3, <2>4, Zenon DEF AnswerCookie
<1>11. CASE ClientWrites(c)
  <2>1. /\ dtlsClient' \in [Addresses -> DtlsClientStates(DtlsCookies)]
        /\ \A d \in DtlsClients : dtlsClient'[d].pc # "absent"
    <3>1. CASE \E pc \in DtlsClientPcs \ {"absent"} : dtlsClient' = [dtlsClient EXCEPT ![c].pc = pc]
      BY <1>7, <3>1, Zenon
    <3>2. CASE dtlsClient' = [dtlsClient EXCEPT ![c].pc = "read", ![c].left = @ - 1]
      BY <1>11, <1>5, <3>2 DEF ClientWrites, DtlsIInv, DtlsCookiesOK, Addresses, DtlsClientStates, DtlsClientPcs
    <3> QED BY <1>11, <3>1, <3>2, Zenon DEF ClientWrites, DtlsClientPcs
  <2>2. <<data, closeNotify>> \in Seq(DtlsDatagrams(DtlsCookies)) /\ <<data>> \in Seq(DtlsDatagrams(DtlsCookies))
    BY DEF data, closeNotify, DtlsDatagrams, DtlsCookies
  <2>3. toServer' \in DtlsQueues(DtlsCookies) /\ toClient' = toClient
    <3>1. \/ toServer' = Push(toServer, c, <<data, closeNotify>>)
          \/ toServer' = Push(toServer, c, <<data>>)
          \/ toServer' = toServer
      BY <1>11, Zenon DEF ClientWrites
    <3>2. toServer \in DtlsQueues(DtlsCookies) /\ toClient' = toClient
      BY <1>11, Zenon DEF ClientWrites, DtlsIInv, DtlsCookiesOK
    <3> QED BY <2>2, <3>1, <3>2, PushKeeps, Zenon
  <2> QED BY <1>3, <1>4, <1>5, <2>1, <2>3, Zenon DEF DtlsIInv, DtlsCookiesOK
<1>12. CASE ClientReads(c)
  <2>1. toClient' \in DtlsQueues(DtlsCookies) /\ toServer' = toServer
    BY <1>12, PopKeeps, Zenon DEF ClientReads, DtlsIInv, DtlsCookiesOK
  <2>2. PICK pc \in {"read", "loop"}, got \in BOOLEAN :
             dtlsClient' = [dtlsClient EXCEPT ![c].pc = pc, ![c].got = got]
    BY <1>12, Zenon DEF ClientReads, DtlsIInv, DtlsCookiesOK, DtlsClientStates
  <2>3. /\ dtlsClient' \in [Addresses -> DtlsClientStates(DtlsCookies)]
        /\ \A d \in DtlsClients : dtlsClient'[d].pc # "absent"
    BY <2>2, Zenon DEF DtlsIInv, DtlsCookiesOK, Addresses, DtlsClientStates, DtlsClientPcs
  <2> QED BY <1>3, <1>4, <1>5, <2>1, <2>3, Zenon DEF DtlsIInv, DtlsCookiesOK
<1> QED BY <1>8, <1>9, <1>10, <1>11, <1>12, Zenon DEF ClientStep

(* What a process that has just started has. *)
LEMMA FreshServer ==
  ASSUME NEW s, NEW r \in 1 .. DtlsMaxFaults + 1,
         s = [pc |-> "start", peer |-> DtlsNone, timeouts |-> 0, got |-> FALSE, holds |-> {}, run |-> r]
  PROVE  s \in DtlsServerStates /\ s.pc = "start" /\ s.peer = DtlsNone /\ s.holds = {} /\ s.run = r
<1>1. 0 \in 0 .. DtlsMaxTimeouts
  BY DtlsAssumption
<1> QED BY <1>1, Zenon DEF DtlsServerStates

(* Lost datagrams, a client at a new address, a restart of the server and of a client: no
   cookie appears, and a connection that stands keeps its proof. *)
LEMMA NetworkKeeps ==
  ASSUME DtlsIInv, (\E c \in Addresses : Lose(c) \/ Rebind(c)) \/ Restart
  PROVE  DtlsIInv'
<1> USE DtlsAssumption
<1>0. dtlsFaults' \in 0 .. DtlsMaxFaults /\ dtlsFaults' = dtlsFaults + 1
  BY FaultKeeps, Zenon DEF Lose, Rebind, Restart, DtlsIInv
<1>1. ASSUME UNCHANGED <<dtlsServer, dtlsSecret, dtlsIssued>>
      PROVE  DtlsServerOK' /\ DtlsPeerProvedAddress' /\ DtlsCookies' = DtlsCookies
  BY <1>0, <1>1, SMTT(30) DEF DtlsIInv, DtlsServerOK, DtlsServerStates, ServerAt, DtlsPeerProvedAddress, DtlsCookies
<1>2. ASSUME NEW c \in Addresses, Lose(c) PROVE DtlsIInv'
  BY <1>1, <1>2, PopKeeps, Zenon DEF Lose, serverSide, DtlsIInv, DtlsCookiesOK
<1>3. ASSUME NEW c \in Addresses, Rebind(c) PROVE DtlsIInv'
  <2>1. PICK k \in dtlsIssued : toServer' = Push(toServer, c, <<hello(k)>>)
    BY <1>3, Zenon DEF Rebind
  <2>2. <<hello(k)>> \in Seq(DtlsDatagrams(DtlsCookies))
    BY DEF hello, DtlsDatagrams, DtlsCookies
  <2>3. toServer' \in DtlsQueues(DtlsCookies)
    BY <2>1, <2>2, PushKeeps, Zenon DEF DtlsIInv, DtlsCookiesOK
  <2> QED BY <1>1, <1>3, <2>3, Zenon DEF Rebind, serverSide, DtlsIInv, DtlsCookiesOK
<1>4. CASE Restart
  <2>1. DtlsServerOK'
    <3>1. dtlsServer.run \in 1 .. DtlsMaxFaults + 1
      BY Zenon DEF DtlsIInv, DtlsServerOK, DtlsServerStates
    <3>2. dtlsServer.run + 1 \in 1 .. DtlsMaxFaults + 1 /\ dtlsServer.run + 1 <= dtlsFaults' + 1
      BY <1>0, <3>1 DEF DtlsIInv, DtlsServerOK
    <3>3. /\ dtlsServer' \in DtlsServerStates /\ dtlsServer'.pc = "start" /\ dtlsServer'.peer = DtlsNone
          /\ dtlsServer'.holds = {} /\ dtlsServer'.run = dtlsServer.run + 1
      BY <1>4, <3>2, FreshServer, Zenon DEF Restart
    <3>4. dtlsSecret' \in 0 .. dtlsServer'.run
      BY <1>4, <3>1, <3>3 DEF Restart
    <3> QED BY <1>0, <3>2, <3>3, <3>4, Zenon DEF DtlsServerOK, ServerAt
  <2>2. DtlsCookiesOK'
    BY <1>4, Zenon DEF Restart, DtlsIInv, DtlsCookiesOK, DtlsCookies
  <2>3. DtlsPeerProvedAddress'
    BY <1>4, Zenon DEF Restart, DtlsPeerProvedAddress
  <2> QED BY <2>1, <2>2, <2>3, Zenon DEF DtlsIInv
<1> QED BY <1>2, <1>3, <1>4, Zenon

(***************************************************************************)
(* However datagrams are lost, clients move to other addresses, calls fail  *)
(* and the server restarts: the timeouts of a connection stay within their  *)
(* bound, a connection stands only with an address that returned the        *)
(* server's cookie for it, and nothing of a connection is left when the     *)
(* next one is awaited (server/main.c:239-409).  For every number of        *)
(* clients, messages, timeouts and faults.                                  *)
(***************************************************************************)
THEOREM EchoOnlyToProvedPeers == DtlsSpec => []DtlsInv
<1>1. DtlsInit => DtlsIInv
  <2> SUFFICES ASSUME DtlsInit PROVE DtlsIInv
    BY Zenon
  <2>1. DtlsServerOK /\ DtlsPeerProvedAddress
    <3>1. 1 \in 1 .. DtlsMaxFaults + 1
      BY DtlsAssumption
    <3>2. /\ dtlsServer \in DtlsServerStates /\ dtlsServer.pc = "start" /\ dtlsServer.peer = DtlsNone
          /\ dtlsServer.holds = {} /\ dtlsServer.run = 1
      BY <3>1, FreshServer, Zenon DEF DtlsInit
    <3> QED BY <3>2, DtlsAssumption DEF DtlsInit, DtlsServerOK, ServerAt, DtlsPeerProvedAddress
  <2>2. DtlsCookiesOK
    BY DtlsAssumption DEF DtlsInit, DtlsCookiesOK, DtlsClientStates, DtlsClientPcs, DtlsCookies, DtlsQueues, Addresses
  <2> QED BY <2>1, <2>2, Zenon DEF DtlsIInv
<1>2. DtlsIInv /\ [DtlsNext]_dtlsVars => DtlsIInv'
  <2> SUFFICES ASSUME DtlsIInv, [DtlsNext]_dtlsVars PROVE DtlsIInv'
    BY Zenon
  <2>1. CASE ServerStep
    BY <2>1, ServerKeepsItself, ServerKeepsCookies, ServerKeepsPeerProved, Zenon DEF DtlsIInv
  <2>2. CASE UNCHANGED dtlsVars
    BY <2>2, Zenon DEF dtlsVars, DtlsIInv, DtlsServerOK, ServerAt, DtlsCookiesOK, DtlsCookies, DtlsPeerProvedAddress
  <2> QED BY <2>1, <2>2, ClientsKeep, NetworkKeeps, Zenon DEF DtlsNext
<1>3. DtlsIInv => DtlsInv
  BY Zenon DEF DtlsIInv, DtlsServerOK, DtlsServerStates, DtlsCookiesOK, DtlsClientStates, DtlsClientPcs, Addresses,
         DtlsInv, DtlsTypeOK, DtlsNothingHeldBetweenConnections, ServerAt
<1> QED BY <1>1, <1>2, <1>3, PTL DEF DtlsSpec

-----------------------------------------------------------------------------
(*****************************************************************************)
(* Packet rings: PrShownOnce for rings of every size and any number of       *)
(* packets, failed calls and signals: a packet is in one place on its way    *)
(* from the client's ring over the wire and the server's ring to what was    *)
(* shown.                                                                    *)
(*****************************************************************************)

(* What is left of the wire when its first packet has arrived. *)
LEMMA TailOf ==
  ASSUME NEW S, NEW q \in Seq(S), q # <<>>
  PROVE  /\ Len(q) \in Nat \ {0} /\ Tail(q) \in Seq(S) /\ Len(Tail(q)) = Len(q) - 1
         /\ \A k \in 1 .. Len(q) - 1 : Tail(q)[k] = q[k + 1]
         /\ Head(q) = q[1] /\ q[1] \in S
OBVIOUS

(* A packet goes behind what is on the wire, or behind what was shown. *)
LEMMA AppendTo ==
  ASSUME NEW S, NEW q \in Seq(S), NEW e \in S
  PROVE  /\ Append(q, e) \in Seq(S) /\ Len(q) \in Nat /\ Len(Append(q, e)) = Len(q) + 1
         /\ Append(q, e)[Len(q) + 1] = e
         /\ \A k \in 1 .. Len(q) : Append(q, e)[k] = q[k]
OBVIOUS

PrTypes ==
  /\ txRing \in [Frames -> [st : {"available", "request", "sending"}, pkt : Nat]]
  /\ rxRing \in [Frames -> [st : {"kernel", "user"}, pkt : Nat]]
  /\ ring_offset \in Frames /\ prTxHead \in Frames /\ prRxHead \in Frames
  /\ prSent \in Nat /\ prWire \in Seq(Nat) /\ prShown \in Seq(Nat)
  /\ prRx \in [pc : {"scan", "view", "flush"}, i : 0 .. CONF_RING_FRAMES]
  /\ prRx.pc \in {"view", "flush"} => prRx.i \in Frames

(* where a packet can be *)
PrPlaces ==
  ({"tx"} \X {f \in Frames : txRing[f].st = "request"}) \cup ({"wire"} \X (1 .. Len(prWire)))
    \cup ({"rx"} \X {f \in Frames : rxRing[f].st = "user"}) \cup ({"shown"} \X (1 .. Len(prShown)))

PacketAt(x) ==
  IF x[1] = "tx" THEN txRing[x[2]].pkt
  ELSE IF x[1] = "wire" THEN prWire[x[2]]
  ELSE IF x[1] = "rx" THEN rxRing[x[2]].pkt
  ELSE prShown[x[2]]

(* a frame that is being shown has not been handed back meanwhile *)
PrViewed == prRx.pc = "view" => rxRing[prRx.i].st = "user"

PrOnce ==
  /\ \A x \in PrPlaces : PacketAt(x) <= prSent
  /\ \A x, y \in PrPlaces : PacketAt(x) = PacketAt(y) => x = y

PrStrong == PrTypes /\ PrViewed /\ PrOnce

-----------------------------------------------------------------------------
(* A step that moves packets from place to place, none of them to two, keeps them apart.
   m says where the packet in a place was before. *)
LEMMA Moves ==
  ASSUME PrOnce, prSent' = prSent, NEW m \in [PrPlaces' -> PrPlaces],
         \A x \in PrPlaces' : PacketAt(x)' = PacketAt(m[x]),
         \A x, y \in PrPlaces' : m[x] = m[y] => x = y
  PROVE  PrOnce'
<1>1. \A x \in PrPlaces' : m[x] \in PrPlaces /\ PacketAt(x)' = PacketAt(m[x])
  BY Zenon
<1>2. \A x \in PrPlaces' : PacketAt(x)' <= prSent'
  BY <1>1 DEF PrOnce
<1>3. ASSUME NEW x \in PrPlaces', NEW y \in PrPlaces', PacketAt(x)' = PacketAt(y)' PROVE x = y
  BY <1>1, <1>3, Zenon DEF PrOnce
<1> QED BY <1>2, <1>3, Zenon DEF PrOnce

(* A step after which every packet is where it was, or nowhere any more. *)
LEMMA Stays ==
  ASSUME PrOnce, prSent' = prSent, PrPlaces' \subseteq PrPlaces,
         \A x \in PrPlaces' : PacketAt(x)' = PacketAt(x)
  PROVE  PrOnce'
<1>1. \A x \in PrPlaces' : PacketAt(x)' <= prSent'
  BY Zenon DEF PrOnce
<1>2. ASSUME NEW x \in PrPlaces', NEW y \in PrPlaces', PacketAt(x)' = PacketAt(y)' PROVE x = y
  BY <1>2, Zenon DEF PrOnce
<1> QED BY <1>1, <1>2, Zenon DEF PrOnce

(* A step that moves one packet from a to b. *)
LEMMA MovesOne ==
  ASSUME PrOnce, prSent' = prSent, NEW a \in PrPlaces, NEW b, PacketAt(b)' = PacketAt(a),
         \A x \in PrPlaces' : x # b => x \in PrPlaces /\ x # a /\ PacketAt(x)' = PacketAt(x)
  PROVE  PrOnce'
<1>1. \A x \in PrPlaces' : PacketAt(x)' <= prSent'
  BY DEF PrOnce
<1>2. ASSUME NEW x \in PrPlaces', NEW y \in PrPlaces', PacketAt(x)' = PacketAt(y)' PROVE x = y
  BY <1>2, Zenon DEF PrOnce
<1> QED BY <1>1, <1>2, Zenon DEF PrOnce

(* The frames of a ring follow each other in a circle. *)
LEMMA NextFrame == \A i \in Frames : Next_(i) \in Frames
BY PrAssumption DEF Frames, Next_

(* Both rings start empty. *)
LEMMA PrInitInv == PrInit => PrStrong
<1> SUFFICES ASSUME PrInit PROVE PrStrong
  BY Zenon
<1>1. PrTypes
  BY PrAssumption DEF PrInit, PrTypes, Frames
<1>2. PrPlaces = {}
  BY DEF PrInit, PrPlaces
<1> QED BY <1>1, <1>2, Zenon DEF PrStrong, PrViewed, PrOnce, PrInit

-----------------------------------------------------------------------------
(* process_tx() puts a new packet into the ring. *)
LEMMA FillInv == ASSUME PrStrong, FillFrame PROVE PrStrong'
<1>1. /\ ring_offset \in Frames /\ txRing[ring_offset].st = "available" /\ prSent \in Nat
      /\ txRing' = [txRing EXCEPT ![ring_offset] = [st |-> "request", pkt |-> prSent + 1]]
      /\ ring_offset' = Next_(ring_offset) /\ prSent' = prSent + 1
      /\ UNCHANGED <<prTxHead, prWire, rxRing, prRxHead, prRx, prShown>>
  BY Zenon DEF FillFrame, PrStrong, PrTypes, prRxVars
<1>2. PrTypes' /\ PrViewed'
  BY <1>1, NextFrame, SMTT(30) DEF PrStrong, PrTypes, PrViewed
<1>3. \A x \in PrPlaces' : \/ x = <<"tx", ring_offset>> /\ PacketAt(x)' = prSent + 1
                           \/ x \in PrPlaces /\ PacketAt(x)' = PacketAt(x)
  BY <1>1, SMTT(30) DEF PrStrong, PrTypes, PrPlaces, PacketAt
<1>4. \A x \in PrPlaces : PacketAt(x) \in Nat
  BY SMTT(30) DEF PrStrong, PrTypes, PrPlaces, PacketAt
<1>5. PrOnce'
  <2>1. \A x \in PrPlaces' : PacketAt(x)' <= prSent'
    BY <1>1, <1>3, <1>4 DEF PrStrong, PrOnce
  <2>2. ASSUME NEW x \in PrPlaces', NEW y \in PrPlaces', PacketAt(x)' = PacketAt(y)' PROVE x = y
    BY <1>1, <1>3, <1>4, <2>2 DEF PrStrong, PrOnce
  <2> QED BY <2>1, <2>2, Zenon DEF PrOnce
<1> QED BY <1>2, <1>5, Zenon DEF PrStrong

(* While the rings, the wire and what was shown stay as they are, no packet moves. *)
LEMMA NothingMoves == ASSUME PrOnce, UNCHANGED <<txRing, rxRing, prWire, prShown, prSent>> PROVE PrOnce'
<1>1. PrPlaces' = PrPlaces
  BY Zenon DEF PrPlaces
<1>2. \A x : PacketAt(x)' = PacketAt(x)
  BY Zenon DEF PacketAt
<1> QED BY <1>1, <1>2, Zenon DEF PrOnce

(* The kernel takes a packet from the client's ring and sends it. *)
LEMMA TransmitInv == ASSUME PrStrong, PrTransmit PROVE PrStrong'
<1>1. UNCHANGED <<ring_offset, prSent, rxRing, prRxHead, prRx, prShown>>
  BY Zenon DEF PrTransmit, prRxVars
<1>2. CASE txRing[prTxHead].st # "request"
  <2>1. UNCHANGED <<prWire, txRing, prTxHead>>
    BY <1>2, Zenon DEF PrTransmit
  <2>2. PrOnce'
    BY <1>1, <2>1, NothingMoves, Zenon DEF PrStrong
  <2> QED BY <1>1, <2>1, <2>2, Zenon DEF PrStrong, PrTypes, PrViewed
<1>3. CASE txRing[prTxHead].st = "request"
  <2>1. /\ prTxHead \in Frames /\ prWire \in Seq(Nat) /\ txRing[prTxHead].pkt \in Nat
        /\ prWire' = Append(prWire, txRing[prTxHead].pkt)
        /\ txRing' = [txRing EXCEPT ![prTxHead].st = "sending"] /\ prTxHead' = Next_(prTxHead)
    BY <1>3, Zenon DEF PrTransmit, PrStrong, PrTypes
  <2>2. /\ prWire' \in Seq(Nat) /\ Len(prWire') = Len(prWire) + 1 /\ Len(prWire) \in Nat
        /\ prWire'[Len(prWire) + 1] = txRing[prTxHead].pkt
        /\ \A k \in 1 .. Len(prWire) : prWire'[k] = prWire[k]
    BY <2>1, AppendTo
  <2>3. PrTypes' /\ PrViewed'
    BY <1>1, <2>1, <2>2, NextFrame DEF PrStrong, PrTypes, PrViewed
  <2> PICK h \in Frames : h = prTxHead
    BY <2>1, Zenon
  <2> PICK n \in Nat : n = Len(prWire) + 1
    BY <2>2
  <2> DEFINE a == <<"tx", h>>
             b == <<"wire", n>>
  <2>4. a \in PrPlaces /\ PacketAt(b)' = PacketAt(a)
    <3>1. a \in PrPlaces /\ PacketAt(a) = txRing[h].pkt
      BY <1>3, <2>1, Zenon DEF PrPlaces, PacketAt
    <3>2. PacketAt(b)' = prWire'[n]
      BY Zenon DEF PacketAt
    <3> QED BY <2>2, <3>1, <3>2, Zenon
  <2>5. \A x \in PrPlaces' : x # b => x \in PrPlaces /\ x # a /\ PacketAt(x)' = PacketAt(x)
    BY <1>1, <2>1, <2>2, SMTT(30) DEF PrStrong, PrTypes, PrPlaces, PacketAt
  <2> HIDE DEF a, b
  <2>6. PrOnce'
    BY <1>1, <2>4, <2>5, MovesOne, Zenon DEF PrStrong
  <2> QED BY <2>3, <2>6, Zenon DEF PrStrong
<1> QED BY <1>2, <1>3, Zenon

(* view_ip_packet() shows a packet, whose frame goes back to the kernel. *)
LEMMA ReleaseInv == ASSUME PrStrong, process_rx_release PROVE PrStrong'
<1>0. prRx.pc = "view" /\ prRx.i \in Frames
  BY Zenon DEF process_rx_release, PrStrong, PrTypes
<1> PICK i \in Frames : i = prRx.i
  BY <1>0, Zenon
<1>1. /\ i \in Frames /\ rxRing[i].st = "user" /\ rxRing[i].pkt \in Nat /\ prShown \in Seq(Nat)
      /\ prShown' = Append(prShown, rxRing[i].pkt)
      /\ rxRing' = [rxRing EXCEPT ![i].st = "kernel"]
      /\ prRx' = [pc |-> "scan", i |-> 0]
      /\ UNCHANGED <<txRing, ring_offset, prTxHead, prSent, prWire, prRxHead>>
  BY <1>0, Zenon DEF process_rx_release, prTxVars, PrStrong, PrTypes, PrViewed
<1>2. /\ prShown' \in Seq(Nat) /\ Len(prShown') = Len(prShown) + 1 /\ Len(prShown) \in Nat
      /\ prShown'[Len(prShown) + 1] = rxRing[i].pkt
      /\ \A k \in 1 .. Len(prShown) : prShown'[k] = prShown[k]
  BY <1>1, AppendTo
<1>3. PrTypes' /\ PrViewed'
  <2>1. prRx' \in [pc : {"scan", "view", "flush"}, i : 0 .. CONF_RING_FRAMES] /\ prRx'.pc = "scan"
    BY <1>1, PrAssumption
  <2>2. rxRing' \in [Frames -> [st : {"kernel", "user"}, pkt : Nat]]
    BY <1>1, ZenonT(30) DEF PrStrong, PrTypes
  <2> QED BY <1>1, <1>2, <2>1, <2>2, Zenon DEF PrStrong, PrTypes, PrViewed
<1> PICK n \in Nat : n = Len(prShown) + 1
  BY <1>2
<1> DEFINE a == <<"rx", i>>
           b == <<"shown", n>>
<1>4. a \in PrPlaces /\ PacketAt(b)' = PacketAt(a)
  <2>1. a \in PrPlaces /\ PacketAt(a) = rxRing[i].pkt
    BY <1>1, Zenon DEF PrPlaces, PacketAt
  <2>2. PacketAt(b)' = prShown'[n]
    BY Zenon DEF PacketAt
  <2> QED BY <1>2, <2>1, <2>2, Zenon
<1>5. ASSUME NEW x \in PrPlaces', x # b PROVE x \in PrPlaces /\ x # a /\ PacketAt(x)' = PacketAt(x)
  <2>1. CASE x[1] = "shown"
    <3>1. x = <<"shown", x[2]>> /\ x[2] \in 1 .. Len(prShown') /\ x[2] # n
      BY <1>5, <2>1 DEF PrPlaces
    <3>2. x[2] \in 1 .. Len(prShown) /\ prShown'[x[2]] = prShown[x[2]]
      BY <1>2, <3>1, SMTT(30)
    <3> QED BY <3>1, <3>2 DEF PrPlaces, PacketAt
  <2>2. CASE x[1] = "rx"
    <3>1. x = <<"rx", x[2]>> /\ x[2] \in Frames /\ rxRing'[x[2]].st = "user"
      BY <2>2 DEF PrPlaces
    <3>2. rxRing'[i].st = "kernel" /\ \A f \in Frames : f # i => rxRing'[f] = rxRing[f]
      BY <1>1, Zenon DEF PrStrong, PrTypes
    <3>3. x[2] # i /\ rxRing'[x[2]] = rxRing[x[2]]
      BY <3>1, <3>2, Zenon
    <3> QED BY <3>1, <3>3 DEF PrPlaces, PacketAt
  <2>3. CASE x[1] # "rx" /\ x[1] # "shown"
    BY <1>1, <2>3 DEF PrPlaces, PacketAt
  <2> QED BY <2>1, <2>2, <2>3, Zenon
<1> HIDE DEF a, b
<1>6. PrOnce'
  BY <1>1, <1>4, <1>5, MovesOne, Zenon DEF PrStrong
<1> QED BY <1>3, <1>6, Zenon DEF PrStrong

(* A packet comes off the wire, into the server's ring or nowhere. *)
LEMMA ArriveInv == ASSUME PrStrong, Arrive PROVE PrStrong'
<1>1. /\ prWire \in Seq(Nat) /\ prWire # <<>> /\ prWire' = Tail(prWire)
      /\ UNCHANGED <<txRing, ring_offset, prTxHead, prSent, prRx, prShown>>
  BY Zenon DEF Arrive, PrStrong, PrTypes
<1>2. /\ Len(prWire) \in Nat \ {0} /\ prWire' \in Seq(Nat) /\ Len(prWire') = Len(prWire) - 1
      /\ \A k \in 1 .. Len(prWire') : prWire'[k] = prWire[k + 1]
      /\ Head(prWire) = prWire[1] /\ prWire[1] \in Nat
  <2>1. Len(prWire) \in Nat /\ Len(prWire) # 0 /\ prWire \in [1 .. Len(prWire) -> Nat]
    BY <1>1
  <2>2. /\ Tail(prWire) \in Seq(Nat) /\ Len(Tail(prWire)) = Len(prWire) - 1
        /\ \A k \in 1 .. Len(Tail(prWire)) : Tail(prWire)[k] = prWire[k + 1] /\ Head(prWire) = prWire[1]
    BY <1>1, TailOf, Zenon
  <2>3. Head(prWire) = prWire[1] /\ prWire[1] \in Nat
    BY <2>1
  <2> QED BY <1>1, <2>1, <2>2, <2>3, Zenon
<1>3. \/ /\ rxRing[prRxHead].st = "kernel"
         /\ rxRing' = [rxRing EXCEPT ![prRxHead] = [st |-> "user", pkt |-> prWire[1]]]
         /\ prRxHead' = Next_(prRxHead)
      \/ UNCHANGED <<rxRing, prRxHead>>
  BY <1>2, Zenon DEF Arrive
<1>4. PrTypes' /\ PrViewed'
  <2>1. rxRing' \in [Frames -> [st : {"kernel", "user"}, pkt : Nat]] /\ prRxHead' \in Frames
    <3>1. rxRing \in [Frames -> [st : {"kernel", "user"}, pkt : Nat]] /\ prRxHead \in Frames
      BY Zenon DEF PrStrong, PrTypes
    <3>2. [st |-> "user", pkt |-> prWire[1]] \in [st : {"kernel", "user"}, pkt : Nat]
      BY <1>2, Zenon
    <3>3. Next_(prRxHead) \in Frames
      BY <3>1, NextFrame, Zenon
    <3> QED BY <1>3, <3>1, <3>2, <3>3, Zenon
  <2>2. PrTypes'
    BY <1>1, <1>2, <2>1, Zenon DEF PrStrong, PrTypes
  <2>3. PrViewed'
    BY <1>1, <1>3, Zenon DEF PrStrong, PrTypes, PrViewed
  <2> QED BY <2>2, <2>3, Zenon
<1> DEFINE Was(x) == IF x[1] = "wire" THEN <<"wire", x[2] + 1>>
                     ELSE IF x = <<"rx", prRxHead>> /\ rxRing[prRxHead].st = "kernel" THEN <<"wire", 1>>
                     ELSE x
           m == [x \in PrPlaces' |-> Was(x)]
<1>5. ASSUME NEW x \in PrPlaces' PROVE Was(x) \in PrPlaces /\ PacketAt(x)' = PacketAt(Was(x))
  <2>1. CASE x[1] = "wire"
    <3>1. x = <<"wire", x[2]>> /\ x[2] \in 1 .. Len(prWire')
      BY <2>1, SMTT(30) DEF PrPlaces
    <3>2. x[2] + 1 \in 1 .. Len(prWire) /\ prWire'[x[2]] = prWire[x[2] + 1]
      BY <1>2, <3>1
    <3>3. Was(x) = <<"wire", x[2] + 1>>
      BY <2>1, Zenon
    <3>4. <<"wire", x[2] + 1>> \in PrPlaces /\ PacketAt(<<"wire", x[2] + 1>>) = prWire[x[2] + 1]
      BY <3>2, Zenon DEF PrPlaces, PacketAt
    <3>5. PacketAt(x)' = prWire'[x[2]]
      BY <2>1, Zenon DEF PacketAt
    <3> QED BY <3>2, <3>3, <3>4, <3>5, Zenon
  <2>2. CASE x = <<"rx", prRxHead>> /\ rxRing[prRxHead].st = "kernel"
    <3>1. Was(x) = <<"wire", 1>> /\ <<"wire", 1>> \in PrPlaces /\ PacketAt(<<"wire", 1>>) = prWire[1]
      BY <1>2, <2>2 DEF PrPlaces, PacketAt
    <3>2. rxRing'[prRxHead].st = "user"
      BY <2>2, Zenon DEF PrPlaces
    <3>3. PacketAt(x)' = prWire[1]
      BY <1>3, <2>2, <3>2, SMTT(30) DEF PacketAt, PrStrong, PrTypes
    <3> QED BY <3>1, <3>3, Zenon
  <2>3. CASE x[1] # "wire" /\ ~(x = <<"rx", prRxHead>> /\ rxRing[prRxHead].st = "kernel")
    <3>1. Was(x) = x
      BY <2>3, Zenon
    <3>2. x \in PrPlaces /\ PacketAt(x)' = PacketAt(x)
      BY <1>1, <1>3, <2>3, SMTT(30) DEF PrPlaces, PacketAt, PrStrong, PrTypes
    <3> QED BY <3>1, <3>2, Zenon
  <2> QED BY <2>1, <2>2, <2>3, Zenon
<1>6. ASSUME NEW x \in PrPlaces', NEW y \in PrPlaces', Was(x) = Was(y) PROVE x = y
  <2>1. \A z \in PrPlaces' : z = <<z[1], z[2]>> /\ (z[1] = "wire" => z[2] \in 1 .. Len(prWire'))
    BY DEF PrPlaces
  <2>2. \A z \in PrPlaces' : z[1] = "wire" => Was(z)[1] = "wire" /\ Was(z)[2] = z[2] + 1 /\ Was(z)[2] # 1
    BY <1>2, <2>1
  <2>3. \A z \in PrPlaces' : z[1] # "wire" => \/ Was(z) = <<"wire", 1>> /\ z = <<"rx", prRxHead>>
                                             \/ Was(z) = z
    BY Zenon
  <2> HIDE DEF Was
  <2>4. CASE x[1] = "wire" /\ y[1] = "wire"
    <3>1. x[2] + 1 = y[2] + 1 /\ x[2] \in Int /\ y[2] \in Int
      BY <1>6, <2>1, <2>2, <2>4
    <3>2. x[2] = y[2]
      BY <3>1
    <3> QED BY <2>1, <2>4, <3>2, Zenon
  <2>5. CASE x[1] # "wire" /\ y[1] # "wire"
    BY <1>6, <2>3, <2>5
  <2>6. CASE x[1] = "wire" /\ y[1] # "wire"
    BY <1>6, <2>2, <2>3, <2>6
  <2>7. CASE x[1] # "wire" /\ y[1] = "wire"
    BY <1>6, <2>2, <2>3, <2>7
  <2> QED BY <2>4, <2>5, <2>6, <2>7, Zenon
<1>7. PrOnce'
  <2> HIDE DEF Was
  <2>1. m \in [PrPlaces' -> PrPlaces]
    BY <1>5, Zenon
  <2>2. \A x \in PrPlaces' : m[x] = Was(x)
    BY Zenon
  <2> HIDE DEF m
  <2> QED BY <1>1, <1>5, <1>6, <2>1, <2>2, Moves DEF PrStrong
<1> QED BY <1>4, <1>7, Zenon DEF PrStrong

(* The steps that move no packet. *)
LEMMA OtherInv ==
  ASSUME PrStrong, PollInterrupted \/ SendFails \/ do_req \/ stop_function \/ process_rx \/ UNCHANGED prVars
  PROVE  PrStrong'
<1>1. UNCHANGED <<txRing, rxRing, ring_offset, prTxHead, prRxHead, prSent, prWire, prShown>>
  BY Zenon DEF PollInterrupted, SendFails, do_req, stop_function, process_rx, prVars, prRxVars, prTxVars
<1>2. PrOnce'
  BY <1>1, NothingMoves, Zenon DEF PrStrong
<1>3. CASE prRx' = prRx
  BY <1>1, <1>2, <1>3, Zenon DEF PrStrong, PrTypes, PrViewed
<1>4. CASE process_rx
  <2>1. /\ prRx' \in [pc : {"scan", "view", "flush"}, i : 0 .. CONF_RING_FRAMES]
        /\ prRx'.pc \in {"view", "flush"} => prRx'.i \in Frames
        /\ prRx'.pc = "view" => rxRing[prRx'.i].st = "user"
    <3> DEFINE i == prRx.i
    <3>1. i \in 0 .. CONF_RING_FRAMES /\ prRx = [pc |-> "scan", i |-> i] /\ (i < CONF_RING_FRAMES => i \in Frames)
      BY <1>4, PrAssumption DEF process_rx, PrStrong, PrTypes, Frames
    <3>2. CASE i = CONF_RING_FRAMES
      <4> DEFINE p == IF needs_flush THEN "flush" ELSE "scan"
      <4>1. p \in {"flush", "scan"}
        BY Zenon
      <4>2. prRx' = [pc |-> p, i |-> 0]
        <5>1. ~(i < CONF_RING_FRAMES)
          BY <3>2, PrAssumption
        <5> QED BY <1>4, <3>2, <5>1, Zenon DEF process_rx
      <4> HIDE DEF p
      <4> QED BY <4>1, <4>2, PrAssumption DEF Frames
    <3>3. CASE i < CONF_RING_FRAMES /\ rxRing[i].st = "user"
      <4>1. prRx' = [pc |-> "view", i |-> i]
        BY <1>4, <3>1, <3>3, PrAssumption DEF process_rx
      <4> QED BY <3>1, <3>3, <4>1, Zenon
    <3>4. CASE i < CONF_RING_FRAMES /\ rxRing[i].st # "user"
      <4>1. prRx' = [pc |-> "scan", i |-> i + 1]
        BY <1>4, <3>1, <3>4, PrAssumption DEF process_rx
      <4> QED BY <3>1, <3>4, <4>1, PrAssumption
    <3> QED BY <3>1, <3>2, <3>3, <3>4, PrAssumption
  <2> QED BY <1>1, <1>2, <2>1, Zenon DEF PrStrong, PrTypes, PrViewed
<1> QED BY <1>3, <1>4, Zenon DEF PollInterrupted, SendFails, do_req, stop_function, prVars, prRxVars

(* The device is done with a frame, or the server hands one back unseen. *)
LEMMA DropInv == ASSUME PrStrong, TxComplete \/ rx_flush PROVE PrStrong'
<1>1. CASE TxComplete
  <2>1. PICK f \in Frames : txRing[f].st = "sending" /\ txRing' = [txRing EXCEPT ![f].st = "available"]
    BY <1>1, Zenon DEF TxComplete
  <2>2. UNCHANGED <<ring_offset, prTxHead, prSent, prWire, rxRing, prRxHead, prRx, prShown>>
    BY <1>1, Zenon DEF TxComplete, prRxVars
  <2>3. PrTypes' /\ PrViewed'
    BY <2>1, <2>2, Zenon DEF PrStrong, PrTypes, PrViewed
  <2>4. PrPlaces' \subseteq PrPlaces /\ \A x \in PrPlaces' : PacketAt(x)' = PacketAt(x)
    BY <2>1, <2>2 DEF PrStrong, PrTypes, PrPlaces, PacketAt
  <2> QED BY <2>2, <2>3, <2>4, Stays, Zenon DEF PrStrong
<1>2. CASE rx_flush
  <2>1. /\ prRx.pc = "flush" /\ prRx.i \in Frames
        /\ rxRing' = [rxRing EXCEPT ![prRx.i].st = "kernel"]
        /\ prRx' = IF prRx.i + 1 = CONF_RING_FRAMES THEN [pc |-> "scan", i |-> 0] ELSE [prRx EXCEPT !.i = @ + 1]
        /\ UNCHANGED <<txRing, ring_offset, prTxHead, prSent, prWire, prRxHead, prShown>>
    BY <1>2, Zenon DEF rx_flush, prTxVars, PrStrong, PrTypes
  <2>2. PrTypes' /\ PrViewed'
    <3>1. rxRing' \in [Frames -> [st : {"kernel", "user"}, pkt : Nat]]
      BY <2>1, Zenon DEF PrStrong, PrTypes
    <3>2. prRx = [pc |-> "flush", i |-> prRx.i]
      BY <2>1, Zenon DEF PrStrong, PrTypes
    <3>3. prRx' = [pc |-> "scan", i |-> 0] \/ (prRx' = [pc |-> "flush", i |-> prRx.i + 1] /\ prRx.i + 1 # CONF_RING_FRAMES)
      BY <2>1, <3>2, Zenon
    <3>4. /\ prRx' \in [pc : {"scan", "view", "flush"}, i : 0 .. CONF_RING_FRAMES] /\ prRx'.pc # "view"
          /\ prRx'.pc = "flush" => prRx'.i \in Frames
      BY <2>1, <3>3, PrAssumption DEF Frames
    <3> QED BY <2>1, <3>1, <3>4, Zenon DEF PrStrong, PrTypes, PrViewed
  <2>3. PrPlaces' \subseteq PrPlaces /\ \A x \in PrPlaces' : PacketAt(x)' = PacketAt(x)
    BY <2>1 DEF PrStrong, PrTypes, PrPlaces, PacketAt
  <2> QED BY <2>1, <2>2, <2>3, Stays, Zenon DEF PrStrong
<1> QED BY <1>1, <1>2, Zenon

(* Every step of the client, the server, the wire and the kernel keeps a packet in one
   place. *)
LEMMA PrStepInv == PrStrong /\ [PrNext]_prVars => PrStrong'
BY FillInv, TransmitInv, ReleaseInv, ArriveInv, OtherInv, DropInv, Zenon DEF PrNext, PrClient, PrServer

-----------------------------------------------------------------------------
(* The server shows no packet twice, whatever the size of the rings and however the
   kernel, process_tx(), process_rx() and rx_flush() interleave. *)
THEOREM ShownOnce == PrSpec => []PrShownOnce
<1>1. PrStrong => PrShownOnce
  <2> SUFFICES ASSUME PrStrong, NEW i \in 1 .. Len(prShown), NEW k \in 1 .. Len(prShown), prShown[i] = prShown[k]
               PROVE  i = k
    BY Zenon DEF PrShownOnce
  <2>1. <<"shown", i>> \in PrPlaces /\ <<"shown", k>> \in PrPlaces
    BY Zenon DEF PrPlaces
  <2>2. PacketAt(<<"shown", i>>) = prShown[i] /\ PacketAt(<<"shown", k>>) = prShown[k]
    BY Zenon DEF PacketAt
  <2>3. <<"shown", i>> = <<"shown", k>>
    BY <2>1, <2>2, Zenon DEF PrStrong, PrOnce
  <2> QED BY <2>3, Zenon
<1> QED BY <1>1, PrInitInv, PrStepInv, PTL DEF PrSpec

-----------------------------------------------------------------------------
(*****************************************************************************)
(* ncat: NcInv for every size of the buffers and every number of lines.      *)
(*****************************************************************************)

(* the pieces of n buffers *)
Pieces(n) == n * NcBuff

NcTypes ==
  /\ ncMain \in {"connect", "ready", "fgets", "check", "write", "leave", "close", "exited"}
  /\ ncGet \in [pc : {"lock", "read"}, valread : Nat] /\ ncGet.valread < NcBuff
  /\ ncLock \in {"free", "get"} /\ ncReady \in BOOLEAN /\ ncSock \in {"new", "open", "closed"}
  /\ ncWritten \in Nat /\ ncUp \in Nat /\ ncDown \in Nat
  /\ ncListen \in [pc : {"accept", "read", "close", "exited"}, valread : Nat]
  /\ ncShown \in [client : Nat, listener : Nat]

(* the lock is held exactly while the get thread reads, and the flag is down before the
   main thread closes the socket *)
NcHeld ==
  /\ ncLock = "get" <=> ncGet.pc = "read"
  /\ ncReady \/ ncLock = "get" => ncSock = "open"
  /\ ncMain \in {"ready", "fgets", "check", "write", "leave", "close"} => ncSock = "open"
  /\ ncMain \in {"connect", "close"} => ~ncReady /\ ncLock = "free"

(* what was written covers what was printed, read and is under way; the listener sends
   its load buffer once, since the client never connects a second time *)
NcCounted ==
  /\ Pieces(ncShown.listener) + ncListen.valread + ncUp <= Pieces(ncWritten)
  /\ Pieces(ncShown.client) + ncGet.valread + ncDown <= NcBuff
  /\ ncListen.pc = "accept" /\ ncSock # "closed" /\ ncMain # "exited"
       => ncShown.client = 0 /\ ncGet.valread = 0 /\ ncDown = 0

NcStrong == NcTypes /\ NcHeld /\ NcCounted

-----------------------------------------------------------------------------
(* One buffer more. *)
LEMMA OneMore ==
  ASSUME NEW n \in Nat PROVE Pieces(n + 1) = Pieces(n) + NcBuff /\ Pieces(n) \in Nat /\ Pieces(0) = 0
BY NcAssumption DEF Pieces

(* Fewer buffers when they are fewer pieces. *)
LEMMA FewerBuffers == ASSUME NEW a \in Nat, NEW b \in Nat, NEW c \in Nat \ {0}, a * c <= b * c PROVE a <= b
<1> SUFFICES ASSUME a >= b + 1 PROVE FALSE
  OBVIOUS
<1>1. PICK d \in Nat : a = b + 1 + d
  <2>1. a - b - 1 \in Nat /\ a = b + 1 + (a - b - 1)
    OBVIOUS
  <2> QED BY <2>1, Zenon
<1>2. a * c = b * c + c + d * c /\ d * c \in Nat /\ b * c \in Nat /\ c > 0
  BY <1>1
<1> QED BY <1>2

(* Both programs start unconnected. *)
LEMMA NcInitInv == NcInit => NcStrong
<1> SUFFICES ASSUME NcInit PROVE NcStrong
  BY Zenon
<1>1. NcTypes
  <2>1. ncReady \in BOOLEAN
    BY Zenon DEF NcInit
  <2> QED BY <2>1, NcAssumption DEF NcInit, NcTypes
<1>2. NcHeld
  BY Zenon DEF NcInit, NcHeld
<1>3. NcCounted
  BY NcAssumption, OneMore DEF NcInit, NcCounted
<1> QED BY <1>1, <1>2, <1>3, Zenon DEF NcStrong

(* A step of the client's main thread. *)
LEMMA ClientInv == ASSUME NcStrong, NCAT_client PROVE NcStrong'
<1> USE NcAssumption DEF NcStrong, ncListener
<1>0. UNCHANGED <<ncGet, ncDown, ncListen, ncLoad, ncShown>>
  BY Zenon DEF NCAT_client
<1>1. CASE NcConnect
  BY <1>0, <1>1, Zenon DEF NcConnect, NcTypes, NcHeld, NcCounted
<1>2. CASE NcPublish
  BY <1>0, <1>2, Zenon DEF NcPublish, NcTypes, NcHeld, NcCounted
<1>3. CASE NcFgets
  BY <1>0, <1>3, Zenon DEF NcFgets, NcTypes, NcHeld, NcCounted
<1>4. CASE NcCheckReady
  BY <1>0, <1>4, Zenon DEF NcCheckReady, NcTypes, NcHeld, NcCounted
<1>5. CASE NcWrite
  <2>1. NcTypes' /\ NcHeld'
    BY <1>0, <1>5 DEF NcWrite, NcTypes, NcHeld
  <2>2. NcCounted'
    <3>1. Pieces(ncWritten') = Pieces(ncWritten) + NcBuff /\ Pieces(ncWritten) \in Nat
      BY <1>5, OneMore, Zenon DEF NcWrite, NcTypes
    <3>2. Pieces(ncShown.listener) \in Nat
      BY OneMore, Zenon DEF NcTypes
    <3> QED BY <1>0, <1>5, <3>1, <3>2 DEF NcWrite, NcTypes, NcCounted
  <2> QED BY <2>1, <2>2, Zenon
<1>6. CASE NcLeave
  <2>1. NcTypes'
    BY <1>0, <1>6, Zenon DEF NcLeave, NcTypes
  <2>2. NcHeld'
    BY <1>0, <1>6 DEF NcLeave, NcTypes, NcHeld
  <2>3. NcCounted'
    BY <1>0, <1>6, Zenon DEF NcLeave, NcTypes, NcCounted
  <2> QED BY <2>1, <2>2, <2>3, Zenon
<1> QED BY <1>1, <1>2, <1>3, <1>4, <1>5, <1>6, Zenon DEF NCAT_client

(* A step of the client's get thread. *)
LEMMA GetInv == ASSUME NcStrong, NCAT_get_thread PROVE NcStrong'
<1> USE NcAssumption DEF NcStrong, ncListener
<1>0. ncMain # "exited" /\ UNCHANGED <<ncMain, ncSock, ncTyped, ncWritten, ncUp, ncListen, ncLoad>>
  BY Zenon DEF NCAT_get_thread
<1>1. CASE NcGetLock
  <2>1. NcTypes' /\ NcHeld'
    BY <1>0, <1>1 DEF NcGetLock, NcTypes, NcHeld
  <2>2. NcCounted'
    <3>1. Pieces(ncShown.client) \in Nat
      BY OneMore, Zenon DEF NcTypes
    <3> QED BY <1>0, <1>1, <3>1 DEF NcGetLock, NcTypes, NcCounted
  <2> QED BY <2>1, <2>2, Zenon
<1>2. CASE NcGetRead
  <2>1. PICK n \in 1 .. NcBuff :
          /\ n <= ncDown /\ ncDown' = ncDown - n
          /\ IF ncGet.valread + n < NcBuff
             THEN ncGet' = [ncGet EXCEPT !.valread = @ + n] /\ UNCHANGED <<ncLock, ncShown>>
             ELSE /\ ncGet' = [pc |-> "lock", valread |-> 0] /\ ncLock' = "free"
                  /\ ncShown' = [ncShown EXCEPT !.client = @ + 1]
    BY <1>2, Zenon DEF NcGetRead
  <2>2. ncGet.pc = "read" /\ ncReady' = ncReady
    BY <1>2, Zenon DEF NcGetRead
  <2>3. /\ Pieces(ncShown.client) \in Nat /\ ncShown.client \in Nat
        /\ Pieces(ncShown.client + 1) = Pieces(ncShown.client) + NcBuff
    BY OneMore, Zenon DEF NcTypes
  <2>4. ~(ncListen.pc = "accept" /\ ncSock # "closed" /\ ncMain # "exited")
    BY <2>1 DEF NcCounted, NcTypes
  <2>5. CASE ncGet.valread + n < NcBuff
    BY <1>0, <2>1, <2>2, <2>3, <2>4, <2>5 DEF NcTypes, NcHeld, NcCounted
  <2>6. CASE ~(ncGet.valread + n < NcBuff)
    BY <1>0, <2>1, <2>2, <2>3, <2>4, <2>6 DEF NcTypes, NcHeld, NcCounted
  <2> QED BY <2>5, <2>6, Zenon
<1>3. CASE NcGetEnd
  <2>1. NcTypes'
    <3>1. ncReady' \in BOOLEAN
      BY <1>3, Zenon DEF NcGetEnd
    <3> QED BY <1>0, <1>3, <3>1 DEF NcGetEnd, NcTypes
  <2>3. NcHeld'
    BY <1>0, <1>3, Zenon DEF NcGetEnd, NcTypes, NcHeld
  <2>2. NcCounted'
    <3>1. Pieces(ncShown.client) \in Nat
      BY OneMore, Zenon DEF NcTypes
    <3> QED BY <1>0, <1>3, <3>1 DEF NcGetEnd, NcTypes, NcCounted
  <2> QED BY <2>1, <2>2, <2>3, Zenon
<1> QED BY <1>1, <1>2, <1>3, Zenon DEF NCAT_get_thread

(* A step of the listener. *)
LEMMA ListenerInv == ASSUME NcStrong, NCAT_listen_and_serve \/ NcStops PROVE NcStrong'
<1> USE NcAssumption DEF NcStrong, ncListener
<1>0. UNCHANGED <<ncMain, ncGet, ncLock, ncReady, ncSock, ncTyped, ncWritten>>
  BY Zenon DEF NCAT_listen_and_serve, NcStops
<1>1. /\ Pieces(ncShown.listener) \in Nat /\ Pieces(ncShown.client) \in Nat /\ Pieces(ncWritten) \in Nat
      /\ Pieces(ncShown.listener + 1) = Pieces(ncShown.listener) + NcBuff
      /\ ncShown.listener \in Nat /\ ncShown.client \in Nat
  BY OneMore, Zenon DEF NcTypes
<1>2. CASE NcLoadLine
  BY <1>0, <1>2, Zenon DEF NcLoadLine, NcTypes, NcHeld, NcCounted
<1>3. CASE NcAccept
  <2>1. NcTypes'
    BY <1>0, <1>3 DEF NcAccept, NcTypes
  <2>2. NcHeld'
    BY <1>0, <1>3, Zenon DEF NcAccept, NcHeld
  <2>3. NcCounted'
    <3>1. ncShown.client = 0 /\ ncGet.valread = 0 /\ ncDown = 0
      BY <1>3, Zenon DEF NcAccept, NcCounted
    <3>2. Pieces(ncShown.client) = 0
      BY <3>1, OneMore, Zenon
    <3>3. Pieces(ncShown.client) + ncGet.valread + ncDown' <= NcBuff
      BY <1>3, <3>1, <3>2 DEF NcAccept
    <3> QED BY <1>0, <1>1, <1>3, <3>3 DEF NcAccept, NcTypes, NcCounted
  <2> QED BY <2>1, <2>2, <2>3, Zenon
<1>4. CASE NcListenRead
  <2>1. PICK n \in 1 .. NcBuff :
          /\ n <= ncUp /\ ncUp' = ncUp - n
          /\ IF ncListen.valread + n < NcBuff
             THEN ncListen' = [ncListen EXCEPT !.valread = @ + n] /\ UNCHANGED ncShown
             ELSE /\ ncListen' = [ncListen EXCEPT !.valread = 0]
                  /\ ncShown' = [ncShown EXCEPT !.listener = @ + 1]
    BY <1>4, Zenon DEF NcListenRead
  <2>2. ncListen.pc = "read" /\ ncDown' = ncDown
    BY <1>4, Zenon DEF NcListenRead
  <2>3. CASE ncListen.valread + n < NcBuff
    BY <1>0, <1>1, <2>1, <2>2, <2>3 DEF NcTypes, NcHeld, NcCounted
  <2>4. CASE ~(ncListen.valread + n < NcBuff)
    BY <1>0, <1>1, <2>1, <2>2, <2>4, SMTT(30) DEF NcTypes, NcHeld, NcCounted
  <2> QED BY <2>3, <2>4, Zenon
<1>5. CASE NcListenEnd
  BY <1>0, <1>1, <1>5, SMTT(30) DEF NcListenEnd, NcTypes, NcHeld, NcCounted
<1>6. CASE NcListenError \/ NCAT_keyboard_interrupt
  <2>1. NcTypes'
    BY <1>0, <1>6 DEF NcListenError, NCAT_keyboard_interrupt, NcTypes
  <2>2. NcHeld'
    BY <1>0, <1>6, Zenon DEF NcListenError, NCAT_keyboard_interrupt, NcHeld
  <2>3. NcCounted'
    BY <1>0, <1>1, <1>6 DEF NcListenError, NCAT_keyboard_interrupt, NcTypes, NcCounted
  <2> QED BY <2>1, <2>2, <2>3, Zenon
<1> QED BY <1>2, <1>3, <1>4, <1>5, <1>6, Zenon DEF NCAT_listen_and_serve, NcStops

(* Every step of the two ends keeps the balance of pieces. *)
LEMMA NcStepInv == NcStrong /\ [NcNext]_ncVars => NcStrong'
<1> SUFFICES ASSUME NcStrong, [NcNext]_ncVars PROVE NcStrong'
  BY Zenon
<1>1. CASE UNCHANGED ncVars
  BY <1>1 DEF ncVars, NcStrong, NcTypes, NcHeld, NcCounted
<1> QED BY <1>1, ClientInv, GetInv, ListenerInv, Zenon DEF NcNext

-----------------------------------------------------------------------------
(* NCAT_get_thread() waits in read() only while it holds the lock and the socket is open,
   and neither end prints more buffers than the other wrote, for every buffer size and
   every way the streams are cut. *)
THEOREM NcatThreadsAgree == NcSpec => []NcInv
<1>1. NcStrong => NcInv
  <2> SUFFICES ASSUME NcStrong PROVE NcInv
    BY Zenon
  <2> USE NcAssumption
  <2>1. NcReadsOpenSocket
    BY Zenon DEF NcReadsOpenSocket, NcStrong, NcHeld
  <2>2. Pieces(ncShown.listener) <= Pieces(ncWritten) /\ Pieces(ncShown.client) + ncDown <= NcBuff
    <3>1. Pieces(ncShown.listener) \in Nat /\ Pieces(ncShown.client) \in Nat /\ Pieces(ncWritten) \in Nat
      BY OneMore, Zenon DEF NcStrong, NcTypes
    <3> QED BY <3>1 DEF NcStrong, NcTypes, NcCounted
  <2>3. ncShown.listener <= ncWritten
    BY <2>2, FewerBuffers, Zenon DEF NcStrong, NcTypes, Pieces
  <2> QED BY <2>1, <2>2, <2>3, Zenon DEF NcInv, NcPrintsWholeBuffers, Pieces
<1> QED BY <1>1, NcInitInv, NcStepInv, PTL DEF NcSpec

-----------------------------------------------------------------------------
(* TlsChat: the order of the replies *)

(* lines and replies by their number; s before t in the order they were sent *)
Increasing(s) == \A i, j \in 1 .. Len(s) : i < j => s[i] < s[j]
Below(s, t) == \A i \in 1 .. Len(s), j \in 1 .. Len(t) : s[i] < t[j]
AtMost(s, n) == \A i \in 1 .. Len(s) : s[i] <= n

(* What the client has shown was sent before what it has yet to show, and that before
   what the server has yet to read *)
TlsOrder ==
  /\ tlsSent \in Nat /\ tlsShown \in Seq(Nat) /\ tlsDown \in Seq(Nat) /\ tlsUp \in Seq(Nat)
  /\ Increasing(tlsShown) /\ Increasing(tlsDown) /\ Increasing(tlsUp)
  /\ Below(tlsShown, tlsDown) /\ Below(tlsShown, tlsUp) /\ Below(tlsDown, tlsUp)
  /\ AtMost(tlsShown, tlsSent) /\ AtMost(tlsDown, tlsSent) /\ AtMost(tlsUp, tlsSent)

(* SSL_get_peer_certificate() and SSL_get_verify_result() come before the first line *)
TlsVerified ==
  /\ tlsAt = "verify_result" => tlsPeer.cert
  /\ tlsAt \in {"write", "read"} => tlsPeer.cert /\ tlsPeer.trusted
  /\ tlsSent > 0 => tlsPeer.cert /\ tlsPeer.trusted

TlsChatIInv == TlsOrder /\ TlsVerified /\ TlsClientReleases

(* What a read takes from the front of the later queue goes to the end of the earlier
   one, and the order is the same: the read of the server (server_handle.c:105-174) and
   the one of the client (client/main.c:265-298). *)
LEMMA MoveHead ==
  ASSUME NEW s \in Seq(Nat), NEW t \in Seq(Nat), NEW n \in Nat, t # <<>>,
         Increasing(s), Increasing(t), Below(s, t), AtMost(s, n), AtMost(t, n)
  PROVE  /\ Append(s, Head(t)) \in Seq(Nat) /\ Tail(t) \in Seq(Nat)
         /\ Increasing(Append(s, Head(t))) /\ Increasing(Tail(t))
         /\ Below(Append(s, Head(t)), Tail(t))
         /\ AtMost(Append(s, Head(t)), n) /\ AtMost(Tail(t), n)
<1> DEFINE a == Append(s, Head(t))
           b == Tail(t)
<1>1. /\ a \in Seq(Nat) /\ Len(a) = Len(s) + 1 /\ Len(s) \in Nat
      /\ \A i \in 1 .. Len(s) : a[i] = s[i]
      /\ a[Len(s) + 1] = t[1] /\ 1 \in 1 .. Len(t)
  OBVIOUS
<1>2. /\ b \in Seq(Nat) /\ Len(b) = Len(t) - 1 /\ Len(t) \in Nat
      /\ \A i \in 1 .. Len(b) : b[i] = t[i + 1] /\ i + 1 \in 1 .. Len(t)
  OBVIOUS
<1>3. \A i \in 1 .. Len(a) : i \in 1 .. Len(s) \/ i = Len(s) + 1
  BY <1>1
<1> HIDE DEF a, b
<1>4. ASSUME NEW i \in 1 .. Len(a), NEW j \in 1 .. Len(a), i < j PROVE a[i] < a[j]
  <2>1. i \in 1 .. Len(s) /\ a[i] = s[i]
    BY <1>1, <1>3, <1>4, SMTT(30)
  <2>2. CASE j \in 1 .. Len(s)
    BY <1>1, <1>4, <2>1, <2>2, Zenon DEF Increasing
  <2>3. CASE j = Len(s) + 1
    BY <1>1, <2>1, <2>3, Zenon DEF Below
  <2> QED BY <1>3, <2>2, <2>3, Zenon
<1>5. ASSUME NEW i \in 1 .. Len(b), NEW j \in 1 .. Len(b), i < j PROVE b[i] < b[j]
  <2>1. i + 1 < j + 1
    BY <1>2, <1>5
  <2> QED BY <1>2, <2>1, Zenon DEF Increasing
<1>6. ASSUME NEW i \in 1 .. Len(a), NEW j \in 1 .. Len(b) PROVE a[i] < b[j]
  <2>1. b[j] = t[j + 1] /\ j + 1 \in 1 .. Len(t) /\ 1 < j + 1
    BY <1>2
  <2>2. CASE i \in 1 .. Len(s)
    BY <1>1, <2>1, <2>2, Zenon DEF Below
  <2>3. CASE i = Len(s) + 1
    BY <1>1, <2>1, <2>3, Zenon DEF Increasing
  <2> QED BY <1>3, <2>2, <2>3, Zenon
<1>7. AtMost(a, n) /\ AtMost(b, n)
  BY <1>1, <1>2, <1>3, Zenon DEF AtMost
<1> QED BY <1>1, <1>2, <1>4, <1>5, <1>6, <1>7, Zenon DEF a, b, Increasing, Below

(* The line the client writes is newer than every line and reply that is under way
   (client/main.c:213-263): it goes to the end of its queue. *)
LEMMA NewLine ==
  ASSUME NEW s \in Seq(Nat), NEW n \in Nat, Increasing(s), AtMost(s, n)
  PROVE  /\ Append(s, n + 1) \in Seq(Nat) /\ Increasing(Append(s, n + 1)) /\ AtMost(Append(s, n + 1), n + 1)
         /\ \A r \in Seq(Nat) : AtMost(r, n) => AtMost(r, n + 1)
         /\ \A r \in Seq(Nat) : AtMost(r, n) /\ Below(r, s) => Below(r, Append(s, n + 1))
<1> DEFINE a == Append(s, n + 1)
<1>1. /\ a \in Seq(Nat) /\ Len(a) = Len(s) + 1 /\ Len(s) \in Nat
      /\ \A i \in 1 .. Len(s) : a[i] = s[i]
      /\ a[Len(s) + 1] = n + 1
  OBVIOUS
<1>2. \A i \in 1 .. Len(a) : i \in 1 .. Len(s) \/ i = Len(s) + 1
  BY <1>1
<1> HIDE DEF a
<1>3. \A r \in Seq(Nat) : AtMost(r, n) => AtMost(r, n + 1) /\ \A i \in 1 .. Len(r) : r[i] < n + 1
  BY DEF AtMost
<1>4. ASSUME NEW i \in 1 .. Len(a), NEW j \in 1 .. Len(a), i < j PROVE a[i] < a[j]
  <2>1. i \in 1 .. Len(s) /\ a[i] = s[i]
    BY <1>1, <1>2, <1>4
  <2>2. CASE j \in 1 .. Len(s)
    BY <1>1, <1>4, <2>1, <2>2, Zenon DEF Increasing
  <2>3. CASE j = Len(s) + 1
    BY <1>1, <1>3, <2>1, <2>3, Zenon
  <2> QED BY <1>2, <2>2, <2>3, Zenon
<1>5. AtMost(a, n + 1)
  BY <1>1, <1>2, SMTT(30) DEF AtMost
<1>6. ASSUME NEW r \in Seq(Nat), AtMost(r, n), Below(r, s), NEW i \in 1 .. Len(r), NEW j \in 1 .. Len(a)
      PROVE  r[i] < a[j]
  <2>1. CASE j \in 1 .. Len(s)
    BY <1>1, <1>6, <2>1, Zenon DEF Below
  <2>2. CASE j = Len(s) + 1
    BY <1>1, <1>3, <1>6, <2>2, Zenon
  <2> QED BY <1>2, <2>1, <2>2, Zenon
<1> QED BY <1>1, <1>3, <1>4, <1>5, <1>6, Zenon DEF a, Increasing, Below

(* A read moves a message between two queues that are next to each other: a queue before
   both stays before both, and a queue after both stays after. *)
LEMMA MoveHeadAmong ==
  ASSUME NEW r \in Seq(Nat), NEW s \in Seq(Nat), NEW t \in Seq(Nat), t # <<>>
  PROVE  /\ Below(r, s) /\ Below(r, t) => Below(r, Append(s, Head(t))) /\ Below(r, Tail(t))
         /\ Below(s, r) /\ Below(t, r) => Below(Append(s, Head(t)), r) /\ Below(Tail(t), r)
<1> DEFINE a == Append(s, Head(t))
           b == Tail(t)
<1>1. /\ \A i \in 1 .. Len(a) : (i \in 1 .. Len(s) /\ a[i] = s[i]) \/ a[i] = t[1]
      /\ 1 \in 1 .. Len(t)
  OBVIOUS
<1>2. \A i \in 1 .. Len(b) : b[i] = t[i + 1] /\ i + 1 \in 1 .. Len(t)
  OBVIOUS
<1> HIDE DEF a, b
<1>3. Below(r, s) /\ Below(r, t) => Below(r, a) /\ Below(r, b)
  BY <1>1, <1>2, Zenon DEF Below
<1>4. Below(s, r) /\ Below(t, r) => Below(a, r) /\ Below(b, r)
  BY <1>1, <1>2, Zenon DEF Below
<1> QED BY <1>3, <1>4, Zenon DEF a, b

(* Only the last call of the setup leads to the first line, and only
   SSL_get_peer_certificate() to SSL_get_verify_result() (client/main.c:175-207). *)
LEMMA SetupOrder ==
  ASSUME InSetup
  PROVE  /\ tlsAt \notin {"write", "read", "done"}
         /\ After(tlsAt) \notin {"read", "done"}
         /\ After(tlsAt) = "write" => tlsAt = "verify_result"
         /\ After(tlsAt) = "verify_result" => tlsAt = "peer_certificate"
<1> DEFINE i == CHOOSE k \in 1 .. Len(Setup) : Setup[k] = tlsAt
<1>1. i \in 1 .. Len(Setup) /\ Setup[i] = tlsAt
  BY Zenon DEF InSetup
<1>2. After(tlsAt) = IF i = Len(Setup) THEN "write" ELSE Setup[i + 1]
  BY Zenon DEF After
<1> HIDE DEF i
<1>3. CASE tlsProg = "ctx"
  <2>1. Setup = ctx_setup
    BY <1>3, Zenon DEF Setup
  <2>2. Len(ctx_setup) = 12 /\ i \in 1 .. 12 /\ ctx_setup[i] = tlsAt
    BY <1>1, <2>1, Zenon DEF ctx_setup
  <2>3. After(tlsAt) = IF i = 12 THEN "write" ELSE ctx_setup[i + 1]
    BY <1>2, <2>1, <2>2, Zenon
  <2> QED BY <2>2, <2>3 DEF ctx_setup
<1>4. CASE tlsProg # "ctx"
  <2>1. Setup = tcp_setup
    BY <1>4, Zenon DEF Setup
  <2>2. Len(tcp_setup) = 13 /\ i \in 1 .. 13 /\ tcp_setup[i] = tlsAt
    BY <1>1, <2>1, Zenon DEF tcp_setup
  <2>3. After(tlsAt) = IF i = 13 THEN "write" ELSE tcp_setup[i + 1]
    BY <1>2, <2>1, <2>2, Zenon
  <2> QED BY <2>2, <2>3 DEF tcp_setup
<1> QED BY <1>3, <1>4, Zenon

(* Every step of a client, of a server, of the network and the kill of a client keeps
   the order of the lines and what is verified before the first. *)
LEMMA TlsStep == TlsChatIInv /\ [TlsNext]_tlsVars => TlsChatIInv'
<1> SUFFICES ASSUME TlsChatIInv, [TlsNext]_tlsVars PROVE TlsChatIInv'
  BY Zenon
<1>1. CASE SetupCall
  <2>1. InSetup /\ Succeeds(tlsAt) /\ tlsAt' = After(tlsAt)
    BY <1>1, Zenon DEF SetupCall
  <2>2. /\ tlsAt = "verify_result" => tlsPeer.trusted
        /\ tlsAt = "peer_certificate" => tlsPeer.cert
    BY <2>1, Zenon DEF Succeeds
  <2>3. UNCHANGED <<tlsPeer, tlsSent, tlsShown, tlsUp, tlsDown>>
    BY <1>1, Zenon DEF SetupCall, tlsWire
  <2>4. TlsVerified'
    BY <2>1, <2>2, <2>3, SetupOrder, Zenon DEF TlsChatIInv, TlsVerified
  <2>5. TlsClientReleases'
    BY <2>1, SetupOrder, Zenon DEF TlsClientReleases
  <2> QED BY <2>3, <2>4, <2>5, Zenon DEF TlsChatIInv, TlsOrder
<1>2. CASE ClientKilled
  BY <1>2, Zenon DEF ClientKilled, TlsChatIInv, TlsOrder, TlsVerified, TlsClientReleases
<1>3. CASE WriteLine
  <2>1. tlsSent' = tlsSent + 1 /\ tlsSent \in Nat /\ UNCHANGED <<tlsShown, tlsDown>>
    BY <1>3, Zenon DEF WriteLine, TlsChatIInv, TlsOrder
  <2>2. tlsUp' = tlsUp \/ tlsUp' = Append(tlsUp, tlsSent + 1)
    BY <1>3, Zenon DEF WriteLine
  <2>3. TlsOrder
    BY Zenon DEF TlsChatIInv
  <2>4. tlsSent' \in Nat
    BY <2>1
  <2>5. TlsOrder'
    BY <2>1, <2>2, <2>3, <2>4, NewLine, Zenon DEF TlsOrder
  <2> QED BY <1>3, <2>5, Zenon DEF WriteLine, TlsChatIInv, TlsVerified, TlsClientReleases
<1>4. CASE ShowReply
  <2>1. TlsOrder'
    BY <1>4, MoveHead, MoveHeadAmong, Zenon DEF ShowReply, TlsChatIInv, TlsOrder
  <2> QED BY <1>4, <2>1, Zenon DEF ShowReply, TlsChatIInv, TlsVerified, TlsClientReleases
<1>5. CASE ReadTimesOut
  BY <1>5, Zenon DEF ReadTimesOut, tlsWire, TlsChatIInv, TlsOrder, TlsVerified, TlsClientReleases
<1>6. CASE ClientReturns
  BY <1>6, Zenon DEF ClientReturns, tlsWire, TlsChatIInv, TlsOrder, TlsVerified, TlsClientReleases
<1>7. CASE AcceptTls
  BY <1>7, Zenon DEF AcceptTls, TlsChatIInv, TlsOrder, TlsVerified, TlsClientReleases
<1>8. ASSUME tlsUp # <<>>, tlsDown' = Append(tlsDown, Head(tlsUp)), tlsUp' = Tail(tlsUp),
             UNCHANGED <<tlsSent, tlsShown>>
      PROVE  TlsOrder'
  BY <1>8, MoveHead, MoveHeadAmong, Zenon DEF TlsChatIInv, TlsOrder
<1>9. CASE comm
  <2>1. TlsOrder'
    BY <1>8, <1>9, Zenon DEF comm, TlsChatIInv, TlsOrder
  <2> QED BY <1>9, <2>1, Zenon DEF comm, TlsChatIInv, TlsVerified, TlsClientReleases
<1>10. CASE handle_client_reads
  BY <1>10, Zenon DEF handle_client_reads, TlsChatIInv, TlsOrder, TlsVerified, TlsClientReleases
<1>11. CASE handle_client_replies
  <2>1. TlsOrder'
    BY <1>8, <1>11, Zenon DEF handle_client_replies, TlsChatIInv, TlsOrder
  <2> QED BY <1>11, <2>1, Zenon DEF handle_client_replies, TlsChatIInv, TlsVerified, TlsClientReleases
<1>12. CASE UNCHANGED tlsVars
  BY <1>12, Zenon DEF tlsVars, TlsChatIInv, TlsOrder, TlsVerified, TlsClientReleases
<1> QED BY <1>1, <1>2, <1>3, <1>4, <1>5, <1>6, <1>7, <1>9, <1>10, <1>11, <1>12
        DEF TlsNext, TlsClient, TlsServerStep

(***************************************************************************)
(* Whatever call of the setup fails, whoever answers and however many       *)
(* replies come after their timeout: lines go to a verified server only,    *)
(* the replies shown answer lines that were sent, each once and in order,   *)
(* and the client that returns leaves nothing allocated                     *)
(* (sock-tls-ctx-tcp/client/main.c:175-298).  For every number of lines.    *)
(***************************************************************************)
THEOREM ChatOnlyWithVerified == TlsSpec => []TlsChatInv
<1>1. TlsInit => TlsChatIInv
  BY DEF TlsInit, TlsChatIInv, TlsOrder, TlsVerified, TlsClientReleases, Increasing, Below, AtMost
<1>2. TlsChatIInv => TlsChatInv
  <2> SUFFICES ASSUME TlsChatIInv PROVE TlsChatInv
    BY Zenon
  <2>1. Len(tlsShown) \in Nat
    BY DEF TlsChatIInv, TlsOrder
  <2>2. \A i \in 1 .. Len(tlsShown) - 1 : i \in 1 .. Len(tlsShown) /\ i + 1 \in 1 .. Len(tlsShown) /\ i < i + 1
    BY <2>1
  <2>3. TlsRepliesInOrder
    BY <2>2, Zenon DEF TlsChatIInv, TlsOrder, TlsRepliesInOrder, Increasing, AtMost
  <2> QED BY <2>3, Zenon DEF TlsChatIInv, TlsVerified, TlsChatInv, TlsOnlyToVerifiedPeer
<1> QED BY <1>1, <1>2, TlsStep, PTL DEF TlsSpec

-----------------------------------------------------------------------------
(* CryptFiles: what a command has left to do *)

Operations == [op : {"read", "open", "put", "show", "pipe"}, file : Names]
Makes(cmd) == cmd \in {"keygen", "certgen"}
Has(s, o) == \E i \in 1 .. Len(s) : s[i] = o

(* The operations of a command, or the rest of them: reads come first, a file that is
   opened for writing is filled later, and only keys and ciphertext are written *)
Rest(s, cmd) ==
  /\ s \in Seq(Operations)
  /\ \A i \in 1 .. Len(s) : s[i].op = "open" => \E j \in 1 .. Len(s) : i < j /\ s[j] = Fputs(s[i].file)
  /\ \A i, j \in 1 .. Len(s) : i < j /\ s[j].op = "read" => s[i].op = "read"
  /\ \A i \in 1 .. Len(s) :
       /\ s[i].op \in {"open", "put"} => IF Makes(cmd) THEN s[i].file \in {"key", "iv", "auth", "priv", "pub"}
                                         ELSE cmd = "encrypt" /\ s[i].file \in {"enc", "tag"}
       /\ s[i].op = "show" => cmd = "decrypt"
       /\ s[i].op = "pipe" => cmd = "pipe"
       /\ s[i].op = "read" => ~Makes(cmd)

(* the files whose contents decide what a command leaves or shows *)
Wanted(cmd) ==
  CASE cmd = "encrypt" -> IF cfProg = "asym" THEN {"pub"} ELSE {"key", "iv"}
    [] cmd = "decrypt" -> IF cfProg = "asym" THEN {"priv", "enc"} ELSE {"key", "iv", "enc"}
    [] cmd = "pipe" -> {"pub", "priv"}
    [] OTHER -> {}

(* what enc holds when it was made from the keys there are *)
Seal == IF cfProg = "asym" THEN <<cfFile["pub"][1]>> ELSE cfFile["key"] \o cfFile["iv"]

(* a key pair of one run *)
Pair(n) == cfFile["priv"] = <<n>> /\ cfFile["pub"] \in {<<n>>, <<n, 0>>}

CfTypes ==
  /\ cfProg \in {"cbc", "gcm", "asym"} /\ cfCmd \in {"none", "keygen", "certgen", "encrypt", "decrypt", "pipe"}
  /\ cfCmd = "pipe" => cfProg = "asym"
  /\ cfFile = [f \in Names |-> cfFile[f]] /\ cfReg = [f \in Names |-> cfReg[f]]
  /\ Rest(cfTodo, cfCmd) /\ cfRun \in Nat
  /\ cfStage \in {"none", "keyed", "sealed"}

(* what was read is still so, and what is to be written will be *)
CfKept ==
  /\ \A f \in Wanted(cfCmd) :
       \/ Has(cfTodo, Rd(f))
       \/ cfReg[f] = cfFile[f] /\ (f = "pub" => Len(cfFile[f]) # 2)
  /\ Makes(cfCmd) =>
       /\ cfStage = "none"
       /\ cfProg = "asym" => /\ Has(cfTodo, Fputs("priv")) \/ cfFile["priv"] = <<cfRun>>
                             /\ Has(cfTodo, Fputs("pub")) \/ cfFile["pub"] \in {<<cfRun>>, <<cfRun, 0>>}
  /\ cfCmd = "encrypt" => cfStage # "sealed" /\ (Has(cfTodo, Fputs("enc")) \/ cfFile["enc"] = Seal)

(* what a stage stands for *)
CfStages ==
  /\ cfStage # "none" /\ cfProg = "asym" => \E n \in Nat : Pair(n)
  /\ cfStage = "sealed" => cfFile["enc"] = Seal

CfStrong == CfTypes /\ CfKept /\ CfStages /\ CfSealedOpens

-----------------------------------------------------------------------------
(* The rest of a list, place by place. *)
LEMMA RestOf ==
  ASSUME NEW S, NEW s \in Seq(S), s # <<>>
  PROVE  /\ Tail(s) \in Seq(S) /\ Len(Tail(s)) = Len(s) - 1 /\ Len(s) \in Nat /\ Len(s) > 0
         /\ \A i \in 1 .. Len(s) - 1 : Tail(s)[i] = s[i + 1]
         /\ Head(s) = s[1] /\ s[1] \in S
OBVIOUS

(* An operation that is done is not done again, and the others stay. *)
LEMMA OneDone ==
  ASSUME NEW s, NEW cmd, Rest(s, cmd), s # <<>>
  PROVE  /\ Rest(Tail(s), cmd)
         /\ \A o : Has(s, o) => o = Head(s) \/ Has(Tail(s), o)
         /\ Head(s).op # "read" => \A f : ~Has(Tail(s), Rd(f))
         /\ Head(s).op = "open" => Has(Tail(s), Fputs(Head(s).file))
<1>0. s \in Seq(Operations)
  BY Zenon DEF Rest
<1>1. /\ Tail(s) \in Seq(Operations) /\ Len(Tail(s)) = Len(s) - 1 /\ Len(s) \in Nat /\ Len(s) > 0
      /\ \A i \in 1 .. Len(s) - 1 : Tail(s)[i] = s[i + 1]
      /\ Head(s) = s[1]
  BY <1>0, RestOf, Zenon
<1>2. PICK n \in Nat : Len(s) = n + 1 /\ Len(Tail(s)) = n
  <2>1. \A k \in Nat : k > 0 => k - 1 \in Nat /\ k = (k - 1) + 1
    OBVIOUS
  <2> QED BY <1>1, <2>1, Zenon
<1>3. PICK t : t = Tail(s)
  BY Zenon
<1>4. \A i \in 1 .. n : i + 1 \in 1 .. n + 1 /\ t[i] = s[i + 1]
  BY <1>1, <1>2, <1>3
<1>5. \A j \in 1 .. n + 1 : j = 1 \/ \E i \in 1 .. n : j = i + 1
  <2> TAKE j \in 1 .. n + 1
  <2>1. j # 1 => j - 1 \in 1 .. n /\ j = (j - 1) + 1
    OBVIOUS
  <2> QED BY <2>1, Zenon
<1>6. \A i \in 1 .. n : t[i].op = "open" => \E j \in 1 .. n : i < j /\ t[j] = Fputs(t[i].file)
  <2> SUFFICES ASSUME NEW i \in 1 .. n, t[i].op = "open" PROVE \E j \in 1 .. n : i < j /\ t[j] = Fputs(t[i].file)
    BY Zenon
  <2>1. PICK k \in 1 .. n + 1 : i + 1 < k /\ s[k] = Fputs(s[i + 1].file)
    BY <1>2, <1>4, Zenon DEF Rest
  <2>2. PICK j \in 1 .. n : k = j + 1
    BY <1>5, <2>1, SMTT(30)
  <2>3. i < j
    BY <2>1, <2>2
  <2>4. t[j] = Fputs(t[i].file)
    BY <1>4, <2>1, <2>2, Zenon
  <2> QED BY <2>3, <2>4, Zenon
<1>7. \A i, j \in 1 .. n : i < j /\ t[j].op = "read" => t[i].op = "read"
  BY <1>2, <1>4, SMTT(30) DEF Rest
<1>8. Rest(t, cmd)
  BY <1>1, <1>2, <1>3, <1>4, <1>6, <1>7 DEF Rest
<1>9. \A o : Has(s, o) => o = s[1] \/ Has(t, o)
  BY <1>2, <1>3, <1>4, <1>5, SMTT(30) DEF Has
<1>10. s[1].op # "read" => \A f : ~Has(t, Rd(f))
  <2> SUFFICES ASSUME s[1].op # "read", NEW f, NEW i \in 1 .. n, t[i] = Rd(f) PROVE FALSE
    BY <1>2, <1>3, ZenonT(30) DEF Has
  <2>1. i + 1 \in 1 .. n + 1 /\ 1 \in 1 .. n + 1 /\ 1 < i + 1 /\ s[i + 1] = Rd(f)
    BY <1>4
  <2>2. s[i + 1].op = "read"
    BY <2>1 DEF Rd
  <2> QED BY <1>2, <2>1, <2>2, Zenon DEF Rest
<1>11. s[1].op = "open" => Has(t, Fputs(s[1].file))
  <2> SUFFICES ASSUME s[1].op = "open" PROVE Has(t, Fputs(s[1].file))
    BY Zenon
  <2>1. PICK k \in 1 .. n + 1 : 1 < k /\ s[k] = Fputs(s[1].file)
    BY <1>1, <1>2, SMTT(30) DEF Rest
  <2>2. PICK j \in 1 .. n : k = j + 1
    BY <1>5, <2>1
  <2> QED BY <1>2, <1>3, <1>4, <2>1, <2>2, Zenon DEF Has
<1> QED BY <1>1, <1>3, <1>8, <1>9, <1>10, <1>11, Zenon

-----------------------------------------------------------------------------
(* The operations of keygen and certgen: each file is opened and then filled. *)
LEMMA Keygens ==
  /\ Rest(cbc_keygen, "keygen") /\ Rest(gcm_keygen, "keygen")
  /\ \A cmd : Makes(cmd) => Rest(key_pair_generate, cmd)
  /\ Has(key_pair_generate, Fputs("priv")) /\ Has(key_pair_generate, Fputs("pub"))
<1> USE DEF Rest, Operations, Names, Fopen, Fputs, Makes, Has
<1>1. Rest(cbc_keygen, "keygen")
  BY DEF cbc_keygen
<1>2. Rest(gcm_keygen, "keygen")
  BY DEF gcm_keygen
<1>3. \A cmd : Makes(cmd) => Rest(key_pair_generate, cmd)
  BY DEF key_pair_generate
<1>4. Has(key_pair_generate, Fputs("priv")) /\ Has(key_pair_generate, Fputs("pub"))
  BY DEF key_pair_generate
<1> QED BY <1>1, <1>2, <1>3, <1>4, Zenon

(* encrypt reads its keys, all before it writes. *)
LEMMA Encrypts ==
  /\ Rest(cbc_encrypt, "encrypt") /\ Rest(gcm_encrypt, "encrypt") /\ Rest(asym_encrypt, "encrypt")
  /\ Has(cbc_encrypt, Rd("key")) /\ Has(cbc_encrypt, Rd("iv")) /\ Has(cbc_encrypt, Fputs("enc"))
  /\ Has(gcm_encrypt, Rd("key")) /\ Has(gcm_encrypt, Rd("iv")) /\ Has(gcm_encrypt, Fputs("enc"))
  /\ Has(asym_encrypt, Rd("pub")) /\ Has(asym_encrypt, Fputs("enc"))
<1> USE DEF Rest, Operations, Names, Fopen, Fputs, Rd, Makes, Has
<1>1. Rest(cbc_encrypt, "encrypt")
  BY SMTT(30) DEF cbc_encrypt
<1>2. Rest(gcm_encrypt, "encrypt")
  BY DEF gcm_encrypt
<1>3. Rest(asym_encrypt, "encrypt")
  BY DEF asym_encrypt
<1>4. Has(cbc_encrypt, Rd("key")) /\ Has(cbc_encrypt, Rd("iv")) /\ Has(cbc_encrypt, Fputs("enc"))
  BY DEF cbc_encrypt
<1>5. Has(gcm_encrypt, Rd("key")) /\ Has(gcm_encrypt, Rd("iv")) /\ Has(gcm_encrypt, Fputs("enc"))
  BY DEF gcm_encrypt
<1>6. Has(asym_encrypt, Rd("pub")) /\ Has(asym_encrypt, Fputs("enc"))
  BY DEF asym_encrypt
<1> QED BY <1>1, <1>2, <1>3, <1>4, <1>5, <1>6, Zenon

(* decrypt and pipe read all they need, and write nothing. *)
LEMMA Decrypts ==
  /\ Rest(cbc_decrypt, "decrypt") /\ Rest(gcm_decrypt, "decrypt") /\ Rest(asym_decrypt, "decrypt") /\ Rest(asym_pipe, "pipe")
  /\ Has(cbc_decrypt, Rd("key")) /\ Has(cbc_decrypt, Rd("iv")) /\ Has(cbc_decrypt, Rd("enc"))
  /\ Has(gcm_decrypt, Rd("key")) /\ Has(gcm_decrypt, Rd("iv")) /\ Has(gcm_decrypt, Rd("enc"))
  /\ Has(asym_decrypt, Rd("priv")) /\ Has(asym_decrypt, Rd("enc"))
  /\ Has(asym_pipe, Rd("pub")) /\ Has(asym_pipe, Rd("priv"))
<1> USE DEF Rest, Operations, Names, Rd, Step, Makes, Has
<1>1. Rest(cbc_decrypt, "decrypt")
  BY SMTT(30) DEF cbc_decrypt
<1>2. Rest(gcm_decrypt, "decrypt")
  BY DEF gcm_decrypt
<1>3. Rest(asym_decrypt, "decrypt")
  BY DEF asym_decrypt
<1>4. Rest(asym_pipe, "pipe")
  BY DEF asym_pipe
<1>5. Has(cbc_decrypt, Rd("key")) /\ Has(cbc_decrypt, Rd("iv")) /\ Has(cbc_decrypt, Rd("enc"))
  BY DEF cbc_decrypt
<1>6. Has(gcm_decrypt, Rd("key")) /\ Has(gcm_decrypt, Rd("iv")) /\ Has(gcm_decrypt, Rd("enc"))
  BY DEF gcm_decrypt
<1>7. Has(asym_decrypt, Rd("priv")) /\ Has(asym_decrypt, Rd("enc"))
  BY DEF asym_decrypt
<1>8. Has(asym_pipe, Rd("pub")) /\ Has(asym_pipe, Rd("priv"))
  BY DEF asym_pipe
<1> QED BY <1>1, <1>2, <1>3, <1>4, <1>5, <1>6, <1>7, <1>8, Zenon

(* Nothing is left to do when no command runs. *)
LEMMA NoRest == \A cmd : Rest(<<>>, cmd) /\ \A o : ~Has(<<>>, o)
BY DEF Rest, Has, Operations

-----------------------------------------------------------------------------
(* A command starts with all its operations before it. *)
LEMMA Starts == ASSUME CfStrong, main PROVE CfStrong'
<1>0. /\ cfCmd = "none" /\ cfRun' = cfRun + 1 /\ cfCmd' \in Commands /\ cfTodo' = Calls(cfCmd')
      /\ cfReg' = [f \in Names |-> Absent] /\ cfShown' = "none" /\ UNCHANGED <<cfProg, cfFile, cfKilled>>
      /\ cfStage' \in {"none", "keyed", "sealed"} /\ (cfStage' = "sealed" => cfStage = "sealed")
      /\ (cfStage' # "none" => cfStage # "none")
      /\ (Makes(cfCmd') => cfStage' = "none") /\ (cfCmd' = "encrypt" => cfStage' # "sealed")
  BY Zenon DEF main, CfStrong, CfTypes, Makes
<1>1. Rest(cfTodo', cfCmd')
  BY <1>0, Keygens, Encrypts, Decrypts, Zenon DEF Commands, Calls, Makes, CfStrong, CfTypes
<1>2. CfTypes'
  BY <1>0, <1>1 DEF CfStrong, CfTypes, Commands, Absent
<1>3. \A f \in Wanted(cfCmd') : Has(cfTodo', Rd(f))
  BY <1>0, Encrypts, Decrypts, Zenon DEF Commands, Calls, Wanted, CfStrong, CfTypes
<1>4. /\ Makes(cfCmd') /\ cfProg = "asym" => Has(cfTodo', Fputs("priv")) /\ Has(cfTodo', Fputs("pub"))
      /\ cfCmd' = "encrypt" => Has(cfTodo', Fputs("enc"))
  BY <1>0, Keygens, Encrypts, Zenon DEF Commands, Calls, Makes, CfStrong, CfTypes
<1>5. CfKept'
  BY <1>0, <1>3, <1>4, Zenon DEF CfKept, Wanted
<1>6. CfStages' /\ CfSealedOpens'
  BY <1>0, Zenon DEF CfStrong, CfStages, Pair, Seal, CfSealedOpens
<1> QED BY <1>2, <1>5, <1>6, Zenon DEF CfStrong

(* A process that ends leaves its files. *)
LEMMA Leaves ==
  ASSUME CfStrong, Dies, UNCHANGED <<cfProg, cfFile, cfRun>>, cfStage' \in {"none", "keyed", "sealed"},
         cfStage' = "sealed" => cfFile["enc"] = Seal,
         cfStage' # "none" /\ cfProg = "asym" => \E n \in Nat : Pair(n)
  PROVE  CfStrong'
<1>1. CfTypes'
  BY NoRest, Zenon DEF CfStrong, CfTypes, Dies, Absent
<1>2. CfKept'
  BY Zenon DEF Dies, CfKept, Wanted, Makes
<1>3. CfStages' /\ CfSealedOpens'
  BY Zenon DEF Dies, CfStages, Pair, Seal, CfSealedOpens
<1> QED BY <1>1, <1>2, <1>3, Zenon DEF CfStrong

(* It is killed: what a stage stands for is not touched by a command that is in the middle. *)
LEMMA KilledKeeps == ASSUME CfStrong, Killed PROVE CfStrong'
BY Leaves, Zenon DEF Killed, CfStrong, CfTypes, CfStages

(* It comes to its end: all was written. *)
LEMMA FinishesKeeps == ASSUME CfStrong, Finishes PROVE CfStrong'
<1>1. \A o : ~Has(cfTodo, o)
  BY NoRest, Zenon DEF Finishes
<1>2. Makes(cfCmd) /\ cfProg = "asym" => \E n \in Nat : Pair(n)
  <2>1. Makes(cfCmd) /\ cfProg = "asym" => Pair(cfRun)
    BY <1>1, ZenonT(30) DEF CfStrong, CfKept, Pair
  <2> QED BY <2>1, Zenon DEF CfStrong, CfTypes
<1>3. cfCmd = "encrypt" => cfFile["enc"] = Seal
  BY <1>1, Zenon DEF CfStrong, CfKept
<1>4. /\ cfStage' \in {"none", "keyed", "sealed"} /\ (cfStage' = "sealed" => cfStage = "sealed" \/ cfCmd = "encrypt")
      /\ (cfStage' # "none" => cfStage # "none" \/ Makes(cfCmd))
  BY Zenon DEF Finishes, CfStrong, CfTypes, Makes
<1> QED BY <1>2, <1>3, <1>4, Leaves, Zenon DEF Finishes, CfStrong, CfStages

(* A file is read, or its absence ends the process. *)
LEMMA ReadKeeps ==
  ASSUME CfStrong, FileStep, Head(cfTodo).op = "read"
  PROVE  CfStrong'
<1>0. PICK f : f = Head(cfTodo).file
  BY Zenon
<1>1. ReadsFile(f) /\ cfTodo # <<>> /\ UNCHANGED <<cfProg, cfRun, cfKilled, cfShown, cfStage>>
  BY <1>0, Zenon DEF FileStep
<1>2. CASE cfFile[f] = Absent \/ (f = "pub" /\ Len(cfFile[f]) = 2)
  BY <1>1, <1>2, Leaves, Zenon DEF ReadsFile, CfStrong, CfTypes, CfStages
<1>3. CASE ~(cfFile[f] = Absent \/ (f = "pub" /\ Len(cfFile[f]) = 2))
  <2>1. /\ cfReg' = [cfReg EXCEPT ![f] = cfFile[f]] /\ cfTodo' = Tail(cfTodo) /\ UNCHANGED <<cfCmd, cfFile>>
    BY <1>1, <1>3, Zenon DEF ReadsFile
  <2>2. Rest(cfTodo, cfCmd)
    BY Zenon DEF CfStrong, CfTypes
  <2>3. /\ Rest(Tail(cfTodo), cfCmd)
        /\ \A o : Has(cfTodo, o) => o = Head(cfTodo) \/ Has(Tail(cfTodo), o)
    BY <1>1, <2>2, OneDone, Zenon
  <2>4. cfTodo \in Seq(Operations) /\ Head(cfTodo) \in Operations
    <3>1. cfTodo \in Seq(Operations)
      BY <2>2, Zenon DEF Rest
    <3> QED BY <1>1, <3>1, RestOf, Zenon
  <2>5. Head(cfTodo) = Rd(f) /\ f \in Names
    BY <1>0, <2>4, Zenon DEF Operations, Rd
  <2>6. CfTypes'
    BY <1>1, <2>1, <2>3, Zenon DEF CfStrong, CfTypes
  <2>7. \A g \in Wanted(cfCmd) : Has(cfTodo', Rd(g)) \/ (cfReg'[g] = cfFile[g] /\ (g = "pub" => Len(cfFile[g]) # 2))
    <3> SUFFICES ASSUME NEW g \in Wanted(cfCmd), ~Has(Tail(cfTodo), Rd(g))
                 PROVE  cfReg'[g] = cfFile[g] /\ (g = "pub" => Len(cfFile[g]) # 2)
      BY <2>1, Zenon
    <3>1. CASE g = f
      BY <1>3, <2>1, <2>5, <3>1, Zenon DEF CfStrong, CfTypes
    <3>2. CASE g # f
      <4>1. Rd(g) # Rd(f)
        BY <3>2, Zenon DEF Rd
      <4>2. ~Has(cfTodo, Rd(g))
        BY <2>3, <2>5, <4>1, Zenon
      <4>3. g \in Names
        BY Zenon DEF Wanted, Names
      <4> QED BY <2>1, <3>2, <4>2, <4>3, Zenon DEF CfStrong, CfTypes, CfKept
    <3> QED BY <3>1, <3>2, Zenon
  <2>8. \A h : Has(cfTodo, Fputs(h)) => Has(cfTodo', Fputs(h))
    <3>1. \A h : Fputs(h) # Rd(f)
      BY Zenon DEF Fputs, Rd
    <3> QED BY <2>1, <2>3, <2>5, <3>1, Zenon
  <2>9. CfKept'
    BY <1>1, <2>1, <2>7, <2>8, SMTT(30) DEF CfStrong, CfKept, Wanted, Makes, Seal
  <2>10. CfStages' /\ CfSealedOpens'
    BY <1>1, <2>1, Zenon DEF CfStrong, CfStages, Pair, Seal, CfSealedOpens
  <2> QED BY <2>6, <2>9, <2>10, Zenon DEF CfStrong
<1> QED BY <1>2, <1>3, Zenon

(* A file is emptied or filled: only keygen and certgen touch keys, and encrypt fills enc
   with what it has read. *)
LEMMA WriteKeeps ==
  ASSUME CfStrong, FileStep, Head(cfTodo).op \in {"open", "put"}
  PROVE  CfStrong'
<1>0. PICK f : f = Head(cfTodo).file
  BY Zenon
<1>1. PICK x : /\ cfFile' = [cfFile EXCEPT ![f] = x] /\ cfTodo' = Tail(cfTodo) /\ UNCHANGED <<cfCmd, cfReg>>
               /\ Head(cfTodo).op = "put" => x = Content(f)
  BY <1>0, Zenon DEF FileStep
<1>2. cfTodo # <<>> /\ UNCHANGED <<cfProg, cfRun, cfKilled, cfShown, cfStage>>
  BY Zenon DEF FileStep
<1>3. Rest(cfTodo, cfCmd)
  BY Zenon DEF CfStrong, CfTypes
<1>4. /\ Rest(Tail(cfTodo), cfCmd)
      /\ \A o : Has(cfTodo, o) => o = Head(cfTodo) \/ Has(Tail(cfTodo), o)
      /\ \A g : ~Has(Tail(cfTodo), Rd(g))
      /\ Head(cfTodo).op = "open" => Has(Tail(cfTodo), Fputs(f))
  BY <1>0, <1>2, <1>3, OneDone, Zenon
<1>5. cfTodo \in Seq(Operations) /\ Head(cfTodo) \in Operations /\ Head(cfTodo) = cfTodo[1] /\ 1 \in 1 .. Len(cfTodo)
  BY <1>2, <1>3, RestOf DEF Rest
<1>6. /\ f \in Names /\ (Head(cfTodo) = Fputs(f) \/ Head(cfTodo) = Fopen(f))
      /\ Head(cfTodo).op = "put" => Head(cfTodo) = Fputs(f)
      /\ Head(cfTodo).op = "open" => Head(cfTodo) = Fopen(f)
  BY <1>0, <1>5, Zenon DEF Operations, Fputs, Fopen
<1>7. IF Makes(cfCmd) THEN f \in {"key", "iv", "auth", "priv", "pub"} ELSE cfCmd = "encrypt" /\ f \in {"enc", "tag"}
  BY <1>0, <1>3, <1>5, Zenon DEF Rest
<1>8. \A g : ~Has(cfTodo, Rd(g))
  <2>1. \A g : Rd(g) # Head(cfTodo)
    BY <1>6 DEF Rd, Fputs, Fopen
  <2> QED BY <1>4, <2>1, Zenon
<1>9. CfTypes'
  BY <1>1, <1>2, <1>4, Zenon DEF CfStrong, CfTypes
<1>10. \A g \in Names : g # f => cfFile'[g] = cfFile[g]
  BY <1>1, Zenon DEF CfStrong, CfTypes
<1>11. cfFile'[f] = x
  BY <1>1, <1>6, Zenon DEF CfStrong, CfTypes
<1>12. \A g \in Names : g # f /\ Has(cfTodo, Fputs(g)) => Has(cfTodo', Fputs(g))
  <2>1. \A g : g # f => Fputs(g) # Head(cfTodo)
    BY <1>6 DEF Fputs, Fopen
  <2> QED BY <1>1, <1>4, <2>1, Zenon
<1>13. Has(cfTodo', Fputs(f)) \/ x = Content(f)
  BY <1>1, <1>4, <1>6, <1>5, Zenon DEF Operations
<1>14. CASE Makes(cfCmd)
  <2>1. cfStage = "none"
    BY <1>14, Zenon DEF CfStrong, CfKept
  <2>2. cfProg = "asym" => Has(cfTodo', Fputs("priv")) \/ cfFile'["priv"] = <<cfRun>>
    BY <1>10, <1>11, <1>12, <1>13, <1>14 DEF CfStrong, CfKept, Content, Names
  <2>3. cfProg = "asym" => Has(cfTodo', Fputs("pub")) \/ cfFile'["pub"] \in {<<cfRun>>, <<cfRun, 0>>}
    BY <1>10, <1>11, <1>12, <1>13, <1>14, Zenon DEF CfStrong, CfKept, Content, Names
  <2>4. CfKept'
    BY <1>1, <1>2, <1>14, <2>1, <2>2, <2>3, SMTT(30) DEF CfKept, Makes, Wanted
  <2>5. CfStages' /\ CfSealedOpens'
    BY <1>2, <2>1, <1>1, <1>14, SMTT(30) DEF CfStages, CfSealedOpens, Makes
  <2> QED BY <1>9, <2>4, <2>5, Zenon DEF CfStrong
<1>15. CASE cfCmd = "encrypt" /\ f \in {"enc", "tag"}
  <2>1. \A g \in {"key", "iv", "priv", "pub"} : cfFile'[g] = cfFile[g]
    BY <1>10, <1>15, Zenon DEF Names
  <2>2. Seal' = Seal
    BY <1>2, <2>1, Zenon DEF Seal
  <2>3. \A g \in Wanted("encrypt") : cfReg[g] = cfFile[g] /\ (g = "pub" => Len(cfFile[g]) # 2)
    BY <1>8, <1>15, Zenon DEF CfStrong, CfKept
  <2>4. f = "enc" => Content(f) = Seal
    BY <2>3, Zenon DEF Content, Seal, Wanted
  <2>5. Has(cfTodo', Fputs("enc")) \/ cfFile'["enc"] = Seal'
    BY <1>10, <1>11, <1>12, <1>13, <1>15, <2>2, <2>4, ZenonT(30) DEF CfStrong, CfKept, Names
  <2>6. \A g \in Wanted("encrypt") : cfReg'[g] = cfFile'[g] /\ (g = "pub" => Len(cfFile'[g]) # 2)
    BY <1>1, <2>1, <2>3 DEF Wanted
  <2>7. CfKept'
    BY <1>1, <1>2, <1>15, <2>5, <2>6, Zenon DEF CfStrong, CfKept, Makes, Wanted
  <2>8. CfStages' /\ CfSealedOpens'
    BY <1>1, <1>2, <1>15, <2>1, Zenon DEF CfStrong, CfKept, CfStages, CfSealedOpens, Pair
  <2> QED BY <1>9, <2>7, <2>8, Zenon DEF CfStrong
<1> QED BY <1>7, <1>14, <1>15, Zenon

(* The text is shown: all that decrypt or pipe wanted was read before. *)
LEMMA ShowKeeps == ASSUME CfStrong, Shows PROVE CfStrong'
<1>1. /\ cfTodo # <<>> /\ cfTodo' = Tail(cfTodo) /\ UNCHANGED <<cfProg, cfFile, cfCmd, cfReg, cfRun, cfKilled, cfStage>>
      /\ Head(cfTodo).op \in {"show", "pipe"}
  BY Zenon DEF Shows
<1>2. Rest(cfTodo, cfCmd)
  BY Zenon DEF CfStrong, CfTypes
<1>3. /\ Rest(Tail(cfTodo), cfCmd) /\ \A g : ~Has(Tail(cfTodo), Rd(g))
      /\ \A o : Has(cfTodo, o) => o = Head(cfTodo) \/ Has(Tail(cfTodo), o)
  BY <1>1, <1>2, OneDone, Zenon
<1>4. cfTodo \in Seq(Operations) /\ Head(cfTodo) = cfTodo[1] /\ 1 \in 1 .. Len(cfTodo)
  BY <1>1, <1>2, RestOf, SMTT(30) DEF Rest
<1>5. /\ Head(cfTodo).op = "show" => cfCmd = "decrypt"
      /\ Head(cfTodo).op = "pipe" => cfCmd = "pipe"
  BY <1>2, <1>4, Zenon DEF Rest
<1>6. \A g : ~Has(cfTodo, Rd(g))
  <2>1. \A g : Rd(g) # Head(cfTodo)
    BY <1>1, SMTT(30) DEF Rd
  <2> QED BY <1>3, <2>1, Zenon
<1>7. \A g \in Wanted(cfCmd) : cfReg[g] = cfFile[g] /\ (g = "pub" => Len(cfFile[g]) # 2)
  BY <1>6, Zenon DEF CfStrong, CfKept
<1>8. cfStage = "sealed" /\ cfCmd = "decrypt" => Opens
  <2> SUFFICES ASSUME cfStage = "sealed", cfCmd = "decrypt" PROVE Opens
    BY Zenon
  <2>1. cfFile["enc"] = Seal
    BY Zenon DEF CfStrong, CfStages
  <2>2. CASE cfProg # "asym"
    BY <1>7, <2>1, <2>2, Zenon DEF Opens, Seal, Wanted
  <2>3. CASE cfProg = "asym"
    <3>1. PICK n \in Nat : Pair(n)
      BY <2>3, Zenon DEF CfStrong, CfStages
    <3>2. cfFile["pub"][1] = n
      <4>1. cfFile["pub"] = <<n>> \/ cfFile["pub"] = <<n, 0>>
        BY <3>1, Zenon DEF Pair
      <4>2. <<n>>[1] = n /\ <<n, 0>>[1] = n
        BY Zenon
      <4> QED BY <4>1, <4>2, Zenon
    <3> QED BY <1>7, <2>1, <2>3, <3>1, <3>2, Zenon DEF Opens, Seal, Wanted, Pair
  <2> QED BY <2>2, <2>3, Zenon
<1>9. cfStage # "none" /\ cfCmd = "pipe" /\ cfProg = "asym" => cfReg["pub"] = cfReg["priv"]
  <2> SUFFICES ASSUME cfStage # "none", cfCmd = "pipe", cfProg = "asym" PROVE cfReg["pub"] = cfReg["priv"]
    BY Zenon
  <2>1. PICK n \in Nat : Pair(n)
    BY Zenon DEF CfStrong, CfStages
  <2>2. Len(cfFile["pub"]) # 2 /\ cfReg["pub"] = cfFile["pub"] /\ cfReg["priv"] = cfFile["priv"]
    BY <1>7, Zenon DEF Wanted
  <2>3. cfFile["pub"] = <<n>>
    BY <2>1, <2>2 DEF Pair
  <2> QED BY <2>1, <2>2, <2>3, Zenon DEF Pair
<1>10. CfTypes' /\ CfStages'
  BY <1>1, <1>3, Zenon DEF CfStrong, CfTypes, CfStages, Pair, Seal
<1>11. CfKept'
  <2>1. ~Makes(cfCmd) /\ cfCmd # "encrypt"
    BY <1>1, <1>5, Zenon DEF Makes
  <2> QED BY <1>1, <1>7, <2>1, Zenon DEF CfKept, Wanted, Makes
<1>12. CfSealedOpens'
  <2>1. ((Head(cfTodo).op = "show" /\ Opens) \/ (Head(cfTodo).op = "pipe" /\ cfReg["pub"] = cfReg["priv"])) => cfShown' = "message"
    BY Zenon DEF Shows
  <2>2. cfCmd = "pipe" => cfProg = "asym"
    BY Zenon DEF CfStrong, CfTypes
  <2> QED BY <1>1, <1>5, <1>8, <1>9, <2>1, <2>2, Zenon DEF CfSealedOpens
<1> QED BY <1>10, <1>11, <1>12, Zenon DEF CfStrong

(***************************************************************************)
(* Whichever commands are killed and wherever: after a keygen and an        *)
(* encrypt that came to their end decrypt prints the message, and so does   *)
(* pipe after a key pair was made to its end (crypt-sym and crypt-asym).    *)
(* For every number of commands and of kills.                               *)
(***************************************************************************)
THEOREM SealedFilesOpen == CfSpec => []CfSealedOpens
<1>1. CfInit => CfStrong
  <2> SUFFICES ASSUME CfInit PROVE CfStrong
    BY Zenon
  <2>1. CfTypes
    BY CfAssumption, NoRest, Zenon DEF CfInit, CfTypes, Absent
  <2>2. CfKept /\ CfStages /\ CfSealedOpens
    BY Zenon DEF CfInit, CfKept, CfStages, CfSealedOpens, Wanted, Makes
  <2> QED BY <2>1, <2>2, Zenon DEF CfStrong
<1>2. CfStrong /\ [CfNext]_cfVars => CfStrong'
  <2> SUFFICES ASSUME CfStrong, [CfNext]_cfVars PROVE CfStrong'
    BY Zenon
  <2>1. CASE FileStep
    <3>1. Head(cfTodo).op \in {"read", "open", "put"}
      BY <2>1, Zenon DEF FileStep
    <3> QED BY <2>1, <3>1, ReadKeeps, WriteKeeps, Zenon
  <2>2. CASE UNCHANGED cfVars
    BY <2>2 DEF cfVars, CfStrong, CfTypes, CfKept, CfStages, CfSealedOpens, Wanted, Pair, Seal
  <2> QED BY <2>1, <2>2, Starts, ShowKeeps, FinishesKeeps, KilledKeeps DEF CfNext
<1>3. CfStrong => CfSealedOpens
  BY Zenon DEF CfStrong
<1> QED BY <1>1, <1>2, <1>3, PTL DEF CfSpec

-----------------------------------------------------------------------------
(* MaxArea: Solution::maxArea, for every number of lines and all heights *)

(* A product of naturals grows with its factors. *)
LEMMA ProductGrows == ASSUME NEW a \in Nat, NEW b \in Nat, NEW c \in Nat, NEW d \in Nat, a <= b, c <= d
                      PROVE a * c <= b * d
<1>1. b = a + (b - a) /\ d = c + (d - c) /\ b - a \in Nat /\ d - c \in Nat
  OBVIOUS
<1>2. \A x, y \in Nat : (a + x) * (c + y) = a * c + a * y + x * c + x * y
  OBVIOUS
<1>3. (a + (b - a)) * (c + (d - c)) = a * c + a * (d - c) + (b - a) * c + (b - a) * (d - c)
  BY <1>1, <1>2, Zenon
<1>4. \A x, y \in Nat : x * y \in Nat
  OBVIOUS
<1>5. a * (d - c) \in Nat /\ (b - a) * c \in Nat /\ (b - a) * (d - c) \in Nat /\ a * c \in Nat
  BY <1>1, <1>4, Zenon
<1> QED BY <1>1, <1>3, <1>5

(* The area of two lines is a natural number that neither line's height times
   their distance falls below. *)
LEMMA AreaBounds ==
  ASSUME MaTypeOK, NEW i \in Lines, NEW j \in Lines, i <= j
  PROVE  /\ Area(i, j) \in Nat
         /\ Lower(height[i], height[j]) \in Nat
         /\ Lower(height[i], height[j]) <= height[i]
         /\ Lower(height[i], height[j]) <= height[j]
         /\ height[i] \in Nat /\ height[j] \in Nat /\ j - i \in Nat
<1>1. height[i] \in Nat /\ height[j] \in Nat /\ j - i \in Nat
  BY DEF MaTypeOK, Lines
<1>2. Lower(height[i], height[j]) \in Nat /\ Lower(height[i], height[j]) <= height[i]
      /\ Lower(height[i], height[j]) <= height[j]
  BY <1>1 DEF Lower
<1>3. \A x, y \in Nat : x * y \in Nat
  OBVIOUS
<1> QED BY <1>1, <1>2, <1>3, Zenon DEF Area

(* When the line at front is not the higher one, no pair that front forms with a
   line up to rear holds more than front and rear do. *)
LEMMA FrontIsSpent ==
  ASSUME MaTypeOK, front < rear, height[front] <= height[rear], NEW j \in Lines, front < j, j <= rear
  PROVE  Area(front, j) <= Area(front, rear)
<1>1. front \in Lines /\ rear \in Lines /\ front <= j /\ front <= rear
  BY DEF MaTypeOK, Lines
<1>2. /\ Lower(height[front], height[j]) \in Nat /\ Lower(height[front], height[j]) <= height[front]
      /\ height[front] \in Nat /\ j - front \in Nat
  BY <1>1, AreaBounds, Zenon
<1>3. rear - front \in Nat /\ height[rear] \in Nat
  BY <1>1, AreaBounds, Zenon
<1>4. Lower(height[front], height[rear]) = height[front]
  BY <1>2, <1>3 DEF Lower
<1>5. j - front <= rear - front
  BY <1>1 DEF Lines, MaTypeOK
<1>6. Lower(height[front], height[j]) * (j - front) <= height[front] * (rear - front)
  BY <1>2, <1>3, <1>5, ProductGrows, Zenon
<1> QED BY <1>4, <1>6, Zenon DEF Area

(* When the line at front is the higher one, no pair that rear forms with a line
   from front on holds more than front and rear do. *)
LEMMA RearIsSpent ==
  ASSUME MaTypeOK, front < rear, height[front] > height[rear], NEW i \in Lines, front <= i, i < rear
  PROVE  Area(i, rear) <= Area(front, rear)
<1>1. front \in Lines /\ rear \in Lines /\ i <= rear /\ front <= rear
  BY DEF MaTypeOK, Lines
<1>2. /\ Lower(height[i], height[rear]) \in Nat /\ Lower(height[i], height[rear]) <= height[rear]
      /\ height[rear] \in Nat /\ rear - i \in Nat
  BY <1>1, AreaBounds, Zenon
<1>3. rear - front \in Nat /\ height[front] \in Nat
  BY <1>1, AreaBounds, Zenon
<1>4. Lower(height[front], height[rear]) = height[rear]
  BY <1>2, <1>3, Zenon DEF Lower
<1>5. rear - i <= rear - front
  BY <1>1 DEF Lines, MaTypeOK
<1>6. Lower(height[i], height[rear]) * (rear - i) <= height[rear] * (rear - front)
  BY <1>2, <1>3, <1>5, ProductGrows, Zenon
<1> QED BY <1>4, <1>6, Zenon DEF Area

(* The invariant holds before the first turn: no line was given up. *)
LEMMA MaInitInv == MaInit => MaInv
<1> SUFFICES ASSUME MaInit PROVE MaInv
  BY Zenon
<1>1. MaTypeOK
  <2>1. maSize \in Nat \ {0} /\ front \in Lines /\ rear \in Lines /\ front <= rear
    BY MaAssumption DEF MaInit, Lines
  <2>2. \A k \in 0 .. maSize - 1 : height[k] \in Nat
    BY MaAssumption DEF MaInit
  <2>3. height \in [0 .. maSize - 1 -> Nat]
    BY <2>2, Zenon DEF MaInit
  <2> QED BY <2>1, <2>3, Zenon DEF MaInit, MaTypeOK
<1>2. MaGivenUp
  BY MaAssumption DEF MaInit, MaGivenUp, Lines
<1> QED BY <1>1, <1>2, Zenon DEF MaInit, MaInv, MaSomeHolds

(* A turn of the loop gives up the lower line and keeps the invariant. *)
LEMMA TurnInv == MaInv /\ Turn /\ UNCHANGED <<height, maSize>> => MaInv'
<1> SUFFICES ASSUME MaInv, Turn, UNCHANGED <<height, maSize>> PROVE MaInv'
  BY Zenon
<1>0. MaTypeOK /\ MaGivenUp /\ MaSomeHolds /\ Lines' = Lines /\ front \in Lines /\ rear \in Lines
  BY Zenon DEF MaInv, MaTypeOK, Lines
<1>1. front < rear /\ front \in Int /\ rear \in Int
  BY <1>0, SMTT(30) DEF Turn, MaTypeOK, Lines
<1>2. Area(front, rear) \in Nat
  BY <1>0, <1>1, AreaBounds
<1>3. top' \in Nat /\ top <= top' /\ Area(front, rear) <= top' /\ (top' = top \/ top' = Area(front, rear))
  BY <1>0, <1>2 DEF Turn, Larger, MaTypeOK
<1>4. \A i, j : Area(i, j)' = Area(i, j)
  BY Zenon DEF Area
<1>5. MaTypeOK'
  <2>1. front' \in Lines /\ rear' \in Lines /\ front' <= rear'
    BY <1>0, <1>1, SMTT(30) DEF Turn, Lines, MaTypeOK
  <2> QED BY <1>0, <1>3, <2>1, Zenon DEF Turn, MaTypeOK
<1>6. MaSomeHolds'
  BY <1>0, <1>1, <1>3, <1>4, Zenon DEF MaSomeHolds
<1>7. MaGivenUp'
  <2> SUFFICES ASSUME NEW i \in Lines, NEW j \in Lines, i < j, i < front' \/ j > rear'
               PROVE  Area(i, j) <= top'
    BY <1>0, <1>4, Zenon DEF MaGivenUp
  <2>0. Area(i, j) \in Nat /\ top \in Nat /\ i \in Int /\ j \in Int
    <3>1. i <= j /\ i \in Int /\ j \in Int
      BY <1>0, SMTT(30) DEF Lines, MaTypeOK
    <3> QED BY <1>0, <3>1, AreaBounds, Zenon DEF MaTypeOK
  <2>1. CASE i < front \/ j > rear
    BY <1>0, <1>3, <2>0, <2>1 DEF MaGivenUp
  <2>2. CASE ~(i < front \/ j > rear) /\ height[front] > height[rear]
    <3>1. rear' = rear - 1 /\ front' = front
      BY <2>2, Zenon DEF Turn
    <3>2. j = rear /\ front <= i
      BY <1>1, <2>0, <2>2, <3>1
    <3>3. Area(i, j) <= Area(front, rear)
      BY <1>0, <1>1, <2>2, <3>2, RearIsSpent, SMTT(30)
    <3> QED BY <1>2, <1>3, <2>0, <3>3
  <2>3. CASE ~(i < front \/ j > rear) /\ ~(height[front] > height[rear])
    <3>1. front' = front + 1 /\ rear' = rear
      BY <2>3, Zenon DEF Turn
    <3>2. i = front /\ j <= rear
      BY <1>1, <2>0, <2>3, <3>1
    <3>3. height[front] <= height[rear]
      BY <1>0, <2>3, SMTT(30) DEF MaTypeOK, Lines
    <3>4. Area(i, j) <= Area(front, rear)
      BY <1>0, <1>1, <3>2, <3>3, FrontIsSpent, Zenon
    <3> QED BY <1>2, <1>3, <2>0, <3>4
  <2> QED BY <2>1, <2>2, <2>3, Zenon
<1>8. (maDone => front = rear)'
  BY Zenon DEF Turn, MaInv
<1> QED BY <1>5, <1>6, <1>7, <1>8, Zenon DEF MaInv

(* Every step keeps the invariant. *)
LEMMA MaStepInv == MaInv /\ [MaNext]_maVars => MaInv'
<1> SUFFICES ASSUME MaInv, [MaNext]_maVars PROVE MaInv'
  BY Zenon
<1>1. CASE Turn /\ UNCHANGED <<height, maSize>>
  BY <1>1, TurnInv, Zenon
<1>2. CASE Return /\ UNCHANGED <<height, maSize>>
  BY <1>2, Zenon DEF Return, MaInv, MaTypeOK, MaGivenUp, MaSomeHolds, Lines, Area
<1>3. CASE UNCHANGED maVars
  BY <1>3, Zenon DEF maVars, MaInv, MaTypeOK, MaGivenUp, MaSomeHolds, Lines, Area
<1> QED BY <1>1, <1>2, <1>3, Zenon DEF MaNext

(* maxArea is right: when the loop of Solution::maxArea has ended, no pair of
   lines holds more than what it returns, whatever the lines. *)
THEOREM MaxAreaIsLargest == MaSpec => []MaNoneHoldsMore
<1>1. MaInv => MaNoneHoldsMore
  <2> SUFFICES ASSUME MaInv, maDone, NEW i \in Lines, NEW j \in Lines, i < j PROVE Area(i, j) <= top
    BY Zenon DEF MaNoneHoldsMore
  <2>1. front = rear /\ front \in Int /\ i \in Int /\ j \in Int
    BY DEF MaInv, MaTypeOK, Lines
  <2>2. i < front \/ j > rear
    BY <2>1
  <2> QED BY <2>2, Zenon DEF MaInv, MaGivenUp
<1> QED BY <1>1, MaInitInv, MaStepInv, PTL DEF MaSpec

(* maxArea invents nothing: what the loop has found so far is 0 or the area of
   two of the lines. *)
THEOREM MaxAreaIsHeld == MaSpec => []MaSomeHolds
<1>1. MaInv => MaSomeHolds
  BY Zenon DEF MaInv
<1> QED BY <1>1, MaInitInv, MaStepInv, PTL DEF MaSpec

(* maxArea is right: what it returns is held by two of the lines, or is 0 where none
   hold water, and no two lines hold more, for every list of heights. *)
THEOREM MaxAreaCorrect == MaSpec => []MaxAreaRight
<1>1. MaNoneHoldsMore /\ MaSomeHolds => MaxAreaRight
  BY Zenon DEF MaxAreaRight
<1> QED BY <1>1, MaxAreaIsLargest, MaxAreaIsHeld, PTL

=============================================================================
