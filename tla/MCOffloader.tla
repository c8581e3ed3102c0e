---------------------------- MODULE MCOffloader ----------------------------
(* Instances of Offloader for TLC: two loggers, so that one can be served  *)
(* while the other is pulled out, asked about, or written.                 *)
EXTENDS Offloader

CONSTANTS p1, p2
=============================================================================
