---------------------------- MODULE MCHostClock ----------------------------
(***************************************************************************)
(* A small instance of HostClock for TLC: the threads are model values, not *)
(* a symmetry set, as liveness is checked too.                              *)
(***************************************************************************)
EXTENDS HostClock
=============================================================================
