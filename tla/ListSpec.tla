-------------------------------- MODULE ListSpec --------------------------------
(* What the vectors of vector/ promise: a list to which values are appended and
   from which the value at an index is taken out; an index outside it is refused. *)
EXTENDS Integers, Sequences

CONSTANT LsValues
VARIABLES
  list,
  call       \* the last call and its argument

NoCall == [op |-> "none", arg |-> 0]

LsInit == list = <<>> /\ call = NoCall
PushBack == /\ call'.op = "push" /\ call'.arg \in LsValues
            /\ list' = Append(list, call'.arg)
(* index counts from 1 *)
Erase == /\ call'.op = "erase" /\ call'.arg \in DOMAIN list
         /\ list' = SubSeq(list, 1, call'.arg - 1) \o SubSeq(list, call'.arg + 1, Len(list))
Refuse == /\ call'.op = "erase" /\ call'.arg \notin DOMAIN list
          /\ UNCHANGED list
LsNext == PushBack \/ Erase \/ Refuse
ListSpec == LsInit /\ [][LsNext]_<<list, call>>
==============================================================================
