--------------------------- MODULE MCOffloadStore ---------------------------
(***************************************************************************)
(* Small instances of OffloadStore for TLC.                                *)
(***************************************************************************)
EXTENDS OffloadStore

\* Every deployment has a header of its own.
MCHeaderOf == [e \in Epochs |-> e]

\* Two deployments enabled after a clock reset, with the same settings: one header.
MCSharedHeader == [e \in Epochs |-> 1]

\* From the third cell on, all deployments store the same data (error words, say).
MCAlike == 3..MaxLen
=============================================================================
