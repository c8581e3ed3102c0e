--------------------------- MODULE MCDatasetStore ---------------------------
(***************************************************************************)
(* A small instance of DatasetStore for TLC.                               *)
(***************************************************************************)
EXTENDS DatasetStore

\* The events and the samples grow; the first events of a deployment are new, the samples are appended to.
MCMaxLen == [k \in 2..3 |-> k - 1]

\* A partial identity of the first deployment may be as long as the second's.
MCMetaLen == [e \in Epochs |-> IF e = 1 THEN 2 ELSE 1]

\* A Gen4 that sends every head but cuts objects short, metadata among them, and one whose
\* samples come without a head too.
MCOmissions == {[short |-> {1, 3}, heads |-> {}], [short |-> {3}, heads |-> {3}]}
=============================================================================
