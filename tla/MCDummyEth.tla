------------------------------ MODULE MCDummyEth ------------------------------
(* DummyEth for TLC.  The runs differ in the number of CPUs and in whether the
   devices are up before the first packet. *)
EXTENDS DummyEth
==============================================================================
