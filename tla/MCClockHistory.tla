--------------------------- MODULE MCClockHistory ---------------------------
(* ClockHistory for TLC.  The other CONSTANTS are given in the .cfg files. *)
EXTENDS ClockHistory

MCShapes == {<<"solo", 1>>, <<"l2", 2>>, <<"gen3", 1>>}
MCSolo == {<<"solo", 1>>}
=============================================================================
