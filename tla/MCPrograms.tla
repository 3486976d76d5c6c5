------------------------------- MODULE MCPrograms -------------------------------
(***************************************************************************)
(* The buffer pool, the WebRTC room, the exercises, the vectors, the crypt *)
(* commands and the conversions for TLC.  They are independent of each     *)
(* other: a behaviour picks one of them and runs it, while the variables   *)
(* of the others stay as they are.                                         *)
(*                                                                         *)
(* The pool: two caches on a pool of three slabs of two buffers; five      *)
(* buffers are asked for, so that the rounding of bpool_init happens.      *)
(***************************************************************************)
EXTENDS BufferPool, SfuRoom, MaxArea, Solutions, Vectors, CryptFiles, Codecs

VARIABLE program
programVars == <<program, poolVars, sfVars, maVars, slVars, vcVars, cfVars, cdVars>>

Programs == {"pool", "room", "maxarea", "solutions", "vectors", "crypt", "codecs"}

(* A program that is not picked has one initial state *)
MaAway == /\ maSize = 1 /\ height = [i \in 0 .. 0 |-> 0] /\ top = 0
          /\ front = 0 /\ rear = 0 /\ maDone = TRUE
CdAway == cdCode = "hex" /\ cdInput = <<>> /\ cdDone = FALSE

ProgramsInit ==
  /\ program \in Programs
  /\ PoolInit /\ SfInit
  /\ IF program = "maxarea" THEN MaInit ELSE MaAway
  /\ SlInit /\ (program # "solutions" => slProblem = "array")
  /\ VcInit /\ (program # "vectors" => vcProg = "int")
  /\ CfInit /\ (program # "crypt" => cfProg = "cbc")
  /\ IF program = "codecs" THEN CdInit ELSE CdAway

ProgramsNext ==
  \/ program = "pool" /\ PoolNext /\ UNCHANGED <<program, sfVars, maVars, slVars, vcVars, cfVars, cdVars>>
  \/ program = "room" /\ SfNext /\ UNCHANGED <<program, poolVars, maVars, slVars, vcVars, cfVars, cdVars>>
  \/ program = "maxarea" /\ MaNext /\ UNCHANGED <<program, poolVars, sfVars, slVars, vcVars, cfVars, cdVars>>
  \/ program = "solutions" /\ SlNext /\ UNCHANGED <<program, poolVars, sfVars, maVars, vcVars, cfVars, cdVars>>
  \/ program = "vectors" /\ VcNext /\ UNCHANGED <<program, poolVars, sfVars, maVars, slVars, cfVars, cdVars>>
  \/ program = "crypt" /\ CfNext /\ UNCHANGED <<program, poolVars, sfVars, maVars, slVars, vcVars, cdVars>>
  \/ program = "codecs" /\ CdNext /\ UNCHANGED <<program, poolVars, sfVars, maVars, slVars, vcVars, cfVars>>
  \* every program but the pool may come to an end
  \/ program # "pool" /\ UNCHANGED programVars

(* The fairness of the room, when it is picked *)
ProgramsSpec ==
  /\ ProgramsInit /\ [][ProgramsNext]_programVars
  /\ WF_sfVars(program = "room" /\ sfUp /\ (attemptSync \/ SignalEnds))
  /\ SF_sfVars(program = "room" /\ sfUp /\ SignalStarts)
  /\ WF_sfVars(program = "room" /\ sfUp /\ SleepOver)
  /\ WF_sfVars(program = "room" /\ sfUp /\ broadcastPeerConnections)
  /\ \A p \in SfPeers : /\ WF_sfVars(program = "room" /\ sfUp /\ HandlerReturns(p))
                        /\ SF_sfVars(program = "room" /\ sfUp /\ removeTrack(p))

(* Which array a place of the pool holds does not matter to the future of the program
   as long as no array is held twice, and neither do the cells above the filled ones:
   the view of a state is what each place contains. *)
PlaceView ==
  <<[p \in Places |->
       <<FilledAt(p), [i \in {j \in Cells : j < FilledAt(p)} |-> cells[SlabAt(p)][i]]>>],
    n_slabs_available, live, out, SlabsNotShared>>
ProgramsView == <<program, PlaceView, sfVars, maVars, slVars, vcVars, cfVars, cdVars>>
==============================================================================
