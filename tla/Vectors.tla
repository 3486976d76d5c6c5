-------------------------------- MODULE Vectors --------------------------------
(***************************************************************************)
(* The vectors of vector/, and their copies in grep: an array of pointers  *)
(* to strings, or of ints, that is allocated anew at every change.         *)
(* The heap maps a live block to the string in it; the array is a          *)
(* sequence of blocks.  PushBackString, VS_append and PushBackString2 copy *)
(* all strings to new blocks, EraseString copies the last one.             *)
(***************************************************************************)
EXTENDS Integers, Sequences, FiniteSets, Functions

CONSTANTS
  VcPrograms,    \* the copies checked: "string", "int", "pushback", ... (see the actions)
  VcValues,      \* strings, or ints
  VcSize,        \* the longest vector
  VcBlocks       \* blocks of the heap

(* malloc() never fails: all strings fit in the heap twice while they are copied *)
ASSUME VcAssumption == VcSize \in Nat /\ VcBlocks \in Nat /\ VcBlocks > 2 * VcSize

VARIABLES
  vcProg,
  vector,        \* the array: blocks, or the values themselves when OfInts
  vcHeap,        \* live block -> the string it holds
  vcCall         \* the last call and its argument

vcVars == <<vcProg, vector, vcHeap, vcCall>>

VcInit == vcProg \in VcPrograms /\ vector = <<>> /\ vcHeap = <<>> /\ vcCall = [op |-> "none", arg |-> 0]

Live == DOMAIN vcHeap
FreeBlocks == 1 .. VcBlocks \ Live

(* n new blocks: which of the free ones makes no difference *)
Malloc(n) == CHOOSE new \in [1 .. n -> FreeBlocks] : IsInjective(new)
On(block, v) == [b \in {block} |-> v]
Merge(f, g) == [b \in DOMAIN f \cup DOMAIN g |-> IF b \in DOMAIN g THEN g[b] ELSE f[b]]
Without(f, S) == [b \in DOMAIN f \ S |-> f[b]]

Room == Len(vector) < VcSize

(* realloc() of the array and one new block for the string; none for an int *)
PushString(new_el) ==
  /\ Room
  /\ LET b == Malloc(1)[1] IN
     vector' = Append(vector, b) /\ vcHeap' = Merge(vcHeap, On(b, new_el))
PushInt(new_el) == Room /\ vector' = Append(vector, new_el) /\ UNCHANGED vcHeap

VECTOR_PushBackString(new_el) == vcProg = "string" /\ PushString(new_el)
BITGREP_PushBackString(new_el) == vcProg = "grep" /\ PushString(new_el)
VECTOR_PushBackInt(new_el) == vcProg = "int" /\ PushInt(new_el)
BITGREP_PushBackInt(new_el) == vcProg = "grepint" /\ PushInt(new_el)

(* Copies every string to a block of its own and frees the old one, one after the
   other, then puts the new string last *)
CopyAll(new_str) ==
  LET n == Len(vector)
      new == Malloc(n + 1)
  IN /\ vector' = new
     /\ vcHeap' = [b \in Range(new) |-> LET i == CHOOSE k \in 1 .. n + 1 : new[k] = b
                                        IN IF i > n THEN new_str ELSE vcHeap[vector[i]]]

PushBackString(new_str) == vcProg = "pushback" /\ Room /\ CopyAll(new_str)
VS_append(new_str) == vcProg = "append" /\ Room /\ CopyAll(new_str)
PushBackString2(new_str) == vcProg = "pushback2" /\ Room /\ CopyAll(new_str)

(* Values behind index move one place forward *)
Shift(index) == [i \in 1 .. Len(vector) - 1 |-> IF i < index THEN vector[i] ELSE vector[i + 1]]

(* -1 on an empty vector, -2 on an index outside it *)
Refused == UNCHANGED <<vector, vcHeap>>

(* The string at index is freed; when a later one exists, the
   last one moves to a new block *)
EraseAt(index) ==
  LET last == Len(vector)
      rest == Without(vcHeap, {vector[index], vector[last]})
      b == Malloc(1)[1]
  IN IF index = last THEN vector' = Shift(index) /\ vcHeap' = rest
     ELSE /\ vector' = [Shift(index) EXCEPT ![last - 1] = b]
          /\ vcHeap' = Merge(rest, On(b, vcHeap[vector[last]]))

EraseString(index) == IF index \in DOMAIN vector THEN EraseAt(index) ELSE Refused

EraseInt_Stops(index) ==
  IF index \notin DOMAIN vector THEN Refused
  ELSE vector' = SubSeq(vector, 1, Len(vector) - 1) /\ UNCHANGED vcHeap

EraseInt(index) ==
  IF index \in DOMAIN vector THEN vector' = Shift(index) /\ UNCHANGED vcHeap
  ELSE Refused

VECTOR_EraseString(index) == vcProg = "string" /\ EraseString(index)
BITGREP_EraseString(index) == vcProg = "grep" /\ EraseString(index)
VECTOR_EraseInt(index) == vcProg = "int" /\ EraseInt(index)
BITGREP_EraseInt(index) == vcProg = "grepint" /\ EraseInt(index)

VcPush(v) == \/ VECTOR_PushBackString(v) \/ VECTOR_PushBackInt(v)
             \/ BITGREP_PushBackString(v) \/ BITGREP_PushBackInt(v)
             \/ PushBackString(v) \/ VS_append(v) \/ PushBackString2(v)
VcErase(i) == \/ VECTOR_EraseString(i) \/ VECTOR_EraseInt(i)
              \/ BITGREP_EraseString(i) \/ BITGREP_EraseInt(i)

(* In the int vectors the array holds the values themselves *)
OfInts == vcProg \in {"int", "grepint"}

VcNext ==
  /\ \/ \E v \in VcValues : VcPush(v) /\ vcCall' = [op |-> "push", arg |-> v]
     \/ \E i \in 0 .. VcSize + 1 : VcErase(i) /\ vcCall' = [op |-> "erase", arg |-> i]
  /\ UNCHANGED vcProg
VcSpec == VcInit /\ [][VcNext]_vcVars

-----------------------------------------------------------------------------
(* The strings or ints a vector holds *)
Contents == IF OfInts THEN vector ELSE [i \in DOMAIN vector |-> vcHeap[vector[i]]]

Abstract == INSTANCE ListSpec WITH LsValues <- VcValues, list <- Contents, call <- vcCall

(* However the strings are moved and the array reallocated, each call changes what
   the vector holds as an append or as the removal of one value does: the vectors
   implement a list. *)
VcIsAList == Abstract!ListSpec

(* Every entry of a string vector is a live block, no two entries share one, and
   no block is left behind when the strings are copied or one of them is erased. *)
VcBlocksMatch ==
  ~OfInts => Range(vector) = Live /\ Cardinality(Live) = Len(vector)

(* The vectors implement a list and leak or share no block on the way. *)
VcListInOwnBlocks == VcIsAList /\ []VcBlocksMatch
==============================================================================
