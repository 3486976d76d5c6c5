----------------------------- MODULE MCWlanDriver -----------------------------
(* WlanDriver for TLC, with two addresses for scan requests. *)
EXTENDS WlanDriver
==============================================================================
