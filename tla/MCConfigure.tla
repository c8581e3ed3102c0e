---------------------------- MODULE MCConfigure ----------------------------
(***************************************************************************)
(* Small instances of Configure for TLC.                                   *)
(***************************************************************************)
EXTENDS Configure

\* A logger that refuses whatever it may.
MCAnyRefusal == {"unlock", "write", "memclear", "verify", "enable", "relock"}
=============================================================================
