------------------------------ MODULE MCLink ------------------------------
(* Instances of Link for TLC.  Two places, so that a block of the one can  *)
(* come when the other is asked for.                                       *)
EXTENDS Link

CONSTANTS a, b

\* Nothing tells the places apart.
PlaceSymmetry == Permutations(Places)
=============================================================================
