--------------------------- MODULE HostClockProofs ---------------------------
(***************************************************************************)
(* Theorems about HostClock, for every finite set of threads.              *)
(***************************************************************************)
EXTENDS HostClock, FiniteSetTheorems, TLAPS

\* Who is within timing_critical holds the lock, and nobody else does.
LockIsHeld == \A t \in Threads : pc[t] \in Holding <=> lock = t

\* The flag is up from RaiseFlag to LowerFlag.
FlagIsRaised == \A t \in Threads : pc[t] \in Flagged => timing

\* _transfers counts the blocks on the bus.
TransfersCounted == transfers = Cardinality(Transferring)

\* Once quiet was found, no block is on the bus.
StaysQuiet == \A t \in Threads : pc[t] \in {"shorten", "timing"} => Transferring = {}

\* Only the holder of the lock shortens the interval, and it knows the usual one.
IntervalKnown ==
    /\ \A t \in Threads : pc[t] \in Holding => old[t] = "usual"
    /\ interval = "short" => \E t \in Threads : pc[t] \in {"timing", "restore"}

IInv ==
    /\ TypeOK /\ LockIsHeld /\ FlagIsRaised
    /\ TransfersCounted /\ StaysQuiet /\ IntervalKnown

-----------------------------------------------------------------------------
LEMMA InitEstablishes == Init => IInv
<1> SUFFICES ASSUME Init PROVE IInv
  OBVIOUS
<1> USE HostClockAssumption DEF Init
<1>1. TypeOK
  <2>1. pc \in [Threads -> {"idle"}] /\ old \in [Threads -> {"usual"}]
    OBVIOUS
  <2>2. todo \in [Threads -> 0..MaxSteps]
    OBVIOUS
  <2> QED
    BY <2>1, <2>2 DEF TypeOK, Intervals, Holding
<1>2. Transferring = {}
  BY DEF Transferring
<1>3. TransfersCounted
  BY <1>2, FS_EmptySet DEF TransfersCounted
<1>4. \A t \in Threads : pc[t] = "idle"
  OBVIOUS
<1>5. LockIsHeld
  BY <1>4 DEF LockIsHeld, Holding
<1>6. FlagIsRaised /\ StaysQuiet /\ IntervalKnown
  BY <1>4 DEF FlagIsRaised, StaysQuiet, IntervalKnown, Holding, Flagged
<1> QED
  BY <1>1, <1>3, <1>5, <1>6 DEF IInv

\* A step that starts and ends no transfer leaves the set of them as it is.
LEMMA SameTransfers ==
  ASSUME TypeOK, NEW t \in Threads, NEW from, NEW to, Go(t, from, to),
         from # "transfer", to # "transfer"
  PROVE  Transferring' = Transferring
BY DEF TypeOK, Go, Transferring

\* The bookkeeping of a block: one more, one less.
LEMMA OneMoreTransfer ==
  ASSUME IInv, NEW t \in Threads, EnterTransfer(t)
  PROVE  Transferring' = Transferring \cup {t} /\ TransfersCounted'
<1>1. t \notin Transferring
  BY DEF EnterTransfer, Go, Transferring
<1>2. Transferring' = Transferring \cup {t}
  BY DEF IInv, TypeOK, EnterTransfer, Go, Transferring
<1>3. IsFiniteSet(Transferring)
  BY HostClockAssumption, FS_Subset DEF Transferring
<1>4. Cardinality(Transferring \cup {t}) = Cardinality(Transferring) + 1
  BY <1>1, <1>3, FS_AddElement
<1> QED
  BY <1>2, <1>4 DEF IInv, TransfersCounted, EnterTransfer

LEMMA OneLessTransfer ==
  ASSUME IInv, NEW t \in Threads, LeaveTransfer(t)
  PROVE  /\ Transferring' = Transferring \ {t}
         /\ TransfersCounted' /\ transfers' \in Nat
<1>1. t \in Transferring
  BY DEF LeaveTransfer, Go, Transferring
<1>2. Transferring' = Transferring \ {t}
  BY DEF IInv, TypeOK, LeaveTransfer, Go, Transferring
<1>3. IsFiniteSet(Transferring)
  BY HostClockAssumption, FS_Subset DEF Transferring
<1>4. /\ Cardinality(Transferring \ {t}) = Cardinality(Transferring) - 1
      /\ Cardinality(Transferring \ {t}) \in Nat
  BY <1>1, <1>3, FS_RemoveElement, FS_CardinalityType
<1> QED
  BY <1>2, <1>4 DEF IInv, TransfersCounted, LeaveTransfer

-----------------------------------------------------------------------------
\* A step of thread t that leaves the bus and the counter alone.
Elsewhere == Transferring' = Transferring /\ transfers' = transfers

LEMMA ElsewhereCounts ==
  ASSUME IInv, Elsewhere
  PROVE  TransfersCounted'
BY DEF IInv, Elsewhere, TransfersCounted

LEMMA NextPreserves ==
  ASSUME IInv, [Next]_vars
  PROVE  IInv'
<1> USE HostClockAssumption
<1>1. CASE UNCHANGED vars
  <2>1. Transferring' = Transferring
    BY <1>1 DEF vars, Transferring
  <2> QED
    BY <1>1, <2>1 DEF vars, IInv, TypeOK, LockIsHeld, FlagIsRaised, TransfersCounted,
       StaysQuiet, IntervalKnown
<1>2. ASSUME NEW t \in Threads, WantTransfer(t) \/ WantTiming(t) \/ Proceed(t)
      PROVE  IInv'
  <2> USE DEF IInv, TypeOK, LockIsHeld, FlagIsRaised, StaysQuiet, IntervalKnown,
          Holding, Flagged, Intervals, Go
  <2>1. CASE WantTransfer(t)
    <3>1. Elsewhere
      BY <2>1, SameTransfers DEF WantTransfer, Elsewhere
    <3> QED
      BY <2>1, <3>1, ElsewhereCounts DEF WantTransfer, Elsewhere
  <2>2. CASE WantTiming(t)
    <3>1. Elsewhere
      BY <2>2, SameTransfers DEF WantTiming, Elsewhere
    <3> QED
      BY <2>2, <3>1, ElsewhereCounts DEF WantTiming, Elsewhere
  <2>3. CASE EnterTransfer(t)
    <3>1. TransfersCounted'
      BY <2>3, OneMoreTransfer
    <3>2. ~ timing /\ \A u \in Threads : pc'[u] \notin Flagged
      BY <2>3 DEF EnterTransfer
    <3> QED
      BY <2>3, <3>1, <3>2 DEF EnterTransfer
  <2>4. CASE PauseTransfer(t)
    <3>1. Elsewhere
      BY <2>4 DEF PauseTransfer, Elsewhere, Transferring
    <3> QED
      BY <2>4, <3>1, ElsewhereCounts DEF PauseTransfer, Elsewhere
  <2>5. CASE LeaveTransfer(t)
    <3>1. TransfersCounted' /\ Transferring' = Transferring \ {t} /\ transfers' \in Nat
      BY <2>5, OneLessTransfer
    <3> QED
      BY <2>5, <3>1 DEF LeaveTransfer
  <2>6. CASE TakeLock(t)
    <3>1. Elsewhere
      BY <2>6, SameTransfers DEF TakeLock, Elsewhere
    <3>2. interval = "usual"
      BY <2>6 DEF TakeLock
    <3> QED
      BY <2>6, <3>1, <3>2, ElsewhereCounts DEF TakeLock, Elsewhere
  <2>7. CASE RaiseFlag(t)
    <3>1. Elsewhere
      BY <2>7, SameTransfers DEF RaiseFlag, Elsewhere
    <3> QED
      BY <2>7, <3>1, ElsewhereCounts DEF RaiseFlag, Elsewhere
  <2>8. CASE SleepUntilQuiet(t)
    <3>1. Elsewhere
      BY <2>8 DEF SleepUntilQuiet, Elsewhere, Transferring
    <3> QED
      BY <2>8, <3>1, ElsewhereCounts DEF SleepUntilQuiet, Elsewhere
  <2>9. CASE FindQuiet(t)
    <3>1. Elsewhere
      BY <2>9, SameTransfers DEF FindQuiet, Elsewhere
    <3>2. Transferring = {}
      <4>1. IsFiniteSet(Transferring)
        BY FS_Subset DEF Transferring
      <4> QED
        BY <2>9, <4>1, FS_EmptySet DEF FindQuiet, TransfersCounted
    <3> QED
      BY <2>9, <3>1, <3>2, ElsewhereCounts DEF FindQuiet, Elsewhere
  <2>10. CASE ShortenInterval(t)
    <3>1. Elsewhere
      BY <2>10, SameTransfers DEF ShortenInterval, Elsewhere
    <3> QED
      BY <2>10, <3>1, ElsewhereCounts DEF ShortenInterval, Elsewhere
  <2>11. CASE LowerFlag(t)
    <3>1. Elsewhere
      BY <2>11, SameTransfers DEF LowerFlag, Elsewhere
    <3> QED
      BY <2>11, <3>1, ElsewhereCounts DEF LowerFlag, Elsewhere
  <2>12. CASE RestoreInterval(t)
    <3>1. Elsewhere
      BY <2>12, SameTransfers DEF RestoreInterval, Elsewhere
    <3> QED
      BY <2>12, <3>1, ElsewhereCounts DEF RestoreInterval, Elsewhere
  <2>13. CASE ReleaseLock(t)
    <3>1. Elsewhere
      BY <2>13, SameTransfers DEF ReleaseLock, Elsewhere
    <3> QED
      BY <2>13, <3>1, ElsewhereCounts DEF ReleaseLock, Elsewhere
  <2> QED
    BY <1>2, <2>1, <2>2, <2>3, <2>4, <2>5, <2>6, <2>7, <2>8, <2>9, <2>10, <2>11, <2>12,
       <2>13 DEF Proceed
<1> QED
  BY <1>1, <1>2 DEF Next

\* The inductive invariant holds of every state HostClock reaches.
THEOREM Invariance == Spec => []IInv
<1>1. Init => IInv
  BY InitEstablishes
<1>2. IInv /\ [Next]_vars => IInv'
  BY NextPreserves
<1> QED
  BY <1>1, <1>2, PTL DEF Spec

\* Type correctness, the count of the blocks on the bus included, for any threads.
THEOREM TypeCorrect == Spec => []TypeOK
<1>1. IInv => TypeOK
  BY DEF IInv
<1> QED
  BY <1>1, Invariance, PTL

\* A timing-critical step is alone on the bus and among timing steps, whatever the
\* number of threads: transfer() and timing_critical() exclude each other.
THEOREM TimingStepsAlone == Spec => []TimingAlone
<1>1. IInv => TimingAlone
  BY HostClockAssumption DEF IInv, TimingAlone, StaysQuiet, LockIsHeld, Holding
<1> QED
  BY <1>1, Invariance, PTL

\* The switch interval is the usual one whenever _TIMING_LOCK is free.
THEOREM IntervalIsRestored == Spec => []IntervalRestored
<1>1. IInv => IntervalRestored
  BY HostClockAssumption DEF IInv, IntervalRestored, IntervalKnown, LockIsHeld, Holding,
     TypeOK, Intervals
<1> QED
  BY <1>1, Invariance, PTL
=============================================================================
