-------------------------- MODULE DeploymentArchive --------------------------
(***************************************************************************)
(* What the deployment store promises its user, with no word of files,     *)
(* records, partial downloads or crashes: for every deployment of the      *)
(* logger the archive holds a prefix of its memory, the prefix only grows, *)
(* it grows in whole offloads, and the tool erases a memory only once all  *)
(* that was in it when the offload began is in the archive.                *)
(* OffloadStore is shown to implement it.                                  *)
(***************************************************************************)
EXTENDS Integers

CONSTANTS MaxEpoch, MaxLen

VARIABLES
    ep,         \* the deployment on the logger
    used,       \* cells in its memory
    attached,   \* an offload is in progress
    promised,   \* what was in memory when it began
    saved       \* cells of each deployment in the archive

vars == <<ep, used, attached, promised, saved>>

Init ==
    /\ ep = 1 /\ used = 1
    /\ attached = FALSE /\ promised = 0
    /\ saved = [e \in 1..MaxEpoch |-> 0]

Log ==
    /\ used \in 1..(MaxLen - 1)
    /\ used' = used + 1
    /\ UNCHANGED <<ep, attached, promised, saved>>

\* By the tool only what is saved; elsewhere, whatever the user decides.
Erase ==
    /\ used > 0
    /\ attached => saved[ep] >= promised
    /\ used' = 0
    /\ UNCHANGED <<ep, attached, promised, saved>>

Enable ==
    /\ used = 0 /\ ep < MaxEpoch
    /\ ep' = ep + 1 /\ used' = 1
    /\ UNCHANGED <<attached, promised, saved>>

Attach ==
    /\ ~ attached
    /\ attached' = TRUE /\ promised' = used
    /\ UNCHANGED <<ep, used, saved>>

\* All of the snapshot at once.
Save ==
    /\ attached /\ saved[ep] < promised
    /\ saved' = [saved EXCEPT ![ep] = promised]
    /\ UNCHANGED <<ep, used, attached, promised>>

Detach ==
    /\ attached
    /\ attached' = FALSE /\ promised' = 0
    /\ UNCHANGED <<ep, used, saved>>

Next == Log \/ Erase \/ Enable \/ Attach \/ Save \/ Detach

Spec == Init /\ [][Next]_vars
=============================================================================
