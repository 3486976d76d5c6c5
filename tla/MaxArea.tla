-------------------------------- MODULE MaxArea --------------------------------
(***************************************************************************)
(* Solution::maxArea of container-with-most-water: two indices close in on *)
(* each other, and at each turn the one at the lower line is given up.     *)
(* One step is one turn of the loop.                                       *)
(***************************************************************************)
EXTENDS Integers

CONSTANTS
  MaSize,      \* the largest number of lines
  MaHeight     \* the largest height

ASSUME MaAssumption == MaSize \in Nat \ {0} /\ MaHeight \in Nat

VARIABLES
  height,      \* the lines, a function from 0 .. size - 1
  maSize,      \* height.size()
  top, front, rear,
  maDone

maVars == <<height, maSize, top, front, rear, maDone>>

MaInit ==
  /\ maSize \in 1 .. MaSize
  /\ height \in [0 .. maSize - 1 -> 0 .. MaHeight]
  /\ top = 0 /\ front = 0 /\ rear = maSize - 1 /\ maDone = FALSE

(* the water two lines hold *)
Lower(a, b) == IF a > b THEN b ELSE a
Area(i, j) == Lower(height[i], height[j]) * (j - i)
Larger(a, b) == IF a > b THEN a ELSE b

Turn_GivesUpFront ==
  /\ front # rear
  /\ top' = Larger(Area(front, rear), top)
  /\ front' = front + 1 /\ UNCHANGED <<rear, maDone>>

Turn ==
  /\ front # rear
  /\ top' = Larger(Area(front, rear), top)
  /\ IF height[front] > height[rear]
     THEN rear' = rear - 1 /\ UNCHANGED front
     ELSE front' = front + 1 /\ UNCHANGED rear
  /\ UNCHANGED maDone

Return == front = rear /\ ~maDone /\ maDone' = TRUE /\ UNCHANGED <<top, front, rear>>

MaNext == (Turn \/ Return) /\ UNCHANGED <<height, maSize>>
MaSpec == MaInit /\ [][MaNext]_maVars

-----------------------------------------------------------------------------
Lines == 0 .. maSize - 1

(* maxArea returns the most water that two of the lines hold: no pair holds more,
   although the loop looks at only size - 1 of the pairs. *)
MaNoneHoldsMore == maDone => \A i, j \in Lines : i < j => Area(i, j) <= top

(* What is returned is held by a pair of lines, or is 0. *)
MaSomeHolds == top = 0 \/ \E i, j \in Lines : i < j /\ Area(i, j) = top

(* The inductive invariant: a pair of which one line was given up holds no more
   than top. *)
MaTypeOK ==
  /\ maSize \in Nat \ {0} /\ height \in [0 .. maSize - 1 -> Nat] /\ top \in Nat
  /\ front \in Lines /\ rear \in Lines /\ front <= rear /\ maDone \in BOOLEAN
MaGivenUp == \A i, j \in Lines : i < j /\ (i < front \/ j > rear) => Area(i, j) <= top
MaInv == MaTypeOK /\ MaGivenUp /\ MaSomeHolds /\ (maDone => front = rear)

(* What maxArea returns is the largest area: a pair of lines has it (or it is 0) and
   none has more. *)
MaxAreaRight == MaNoneHoldsMore /\ MaSomeHolds
==============================================================================
