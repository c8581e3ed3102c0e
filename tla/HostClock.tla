----------------------------- MODULE HostClock -----------------------------
(***************************************************************************)
(* The timing lock of rbr-tpw: hostclock.transfer and timing_critical.     *)
(*                                                                         *)
(* Each logger has a worker thread.  A thread downloads block after block, *)
(* each inside transfer(), and a few times per offload it measures or sets *)
(* its logger's clock, inside timing_critical(), which must be alone: no   *)
(* other timing step, and no block on the bus.                             *)
(*                                                                         *)
(* A `with _quiet:` block is one action, up to a wait() within it; wait()  *)
(* puts the thread in `asleep` until a notify_all() takes it out, and only *)
(* then does it look at its condition again.  The body of either section   *)
(* may end in an exception: the finally clauses make that the same step as *)
(* an ordinary end.                                                        *)
(***************************************************************************)
EXTENDS Integers, FiniteSets

CONSTANTS
    Threads,    \* the workers
    NoThread,   \* holder of a free lock
    MaxSteps    \* timing-critical steps of one offload

ASSUME HostClockAssumption ==
    IsFiniteSet(Threads) /\ NoThread \notin Threads /\ MaxSteps \in Nat

VARIABLES
    pc,         \* where each thread is
    todo,       \* timing-critical steps it may still take
    old,        \* the switch interval it found (timing_critical's `old`)
    lock,       \* holder of _TIMING_LOCK
    timing,     \* _timing
    transfers,  \* _transfers
    asleep,     \* threads in _quiet.wait()
    interval    \* sys.getswitchinterval()

vars == <<pc, todo, old, lock, timing, transfers, asleep, interval>>

\* Within timing_critical, from taking _TIMING_LOCK to releasing it ...
Holding == {"flag", "await", "shorten", "timing", "restore", "release"}
\* ... and with the flag up.
Flagged == {"await", "shorten", "timing"}
Intervals == {"usual", "short"}

TypeOK ==
    /\ pc \in [Threads -> {"idle", "pause", "transfer", "lock"} \cup Holding]
    /\ todo \in [Threads -> 0..MaxSteps]
    /\ old \in [Threads -> Intervals]
    /\ lock \in Threads \cup {NoThread}
    /\ timing \in BOOLEAN /\ transfers \in Nat
    /\ asleep \subseteq Threads /\ interval \in Intervals

Init ==
    /\ pc = [t \in Threads |-> "idle"]
    /\ todo = [t \in Threads |-> MaxSteps]
    /\ old = [t \in Threads |-> "usual"]
    /\ lock = NoThread /\ timing = FALSE /\ transfers = 0
    /\ asleep = {} /\ interval = "usual"

Go(t, from, to) == pc[t] = from /\ pc' = [pc EXCEPT ![t] = to]

-----------------------------------------------------------------------------
(* transfer()                                                              *)

WantTransfer(t) ==
    /\ Go(t, "idle", "pause")
    /\ UNCHANGED <<todo, old, lock, timing, transfers, asleep, interval>>

\* Mutant: a block starts whatever the flag.
EnterTransferAnyway(t) ==
    /\ t \notin asleep
    /\ Go(t, "pause", "transfer") /\ transfers' = transfers + 1
    /\ UNCHANGED <<todo, old, lock, timing, asleep, interval>>

EnterTransfer(t) ==
    /\ t \notin asleep /\ ~ timing
    /\ Go(t, "pause", "transfer") /\ transfers' = transfers + 1
    /\ UNCHANGED <<todo, old, lock, timing, asleep, interval>>

PauseTransfer(t) ==
    /\ t \notin asleep /\ timing /\ pc[t] = "pause"
    /\ asleep' = asleep \cup {t}
    /\ UNCHANGED <<pc, todo, old, lock, timing, transfers, interval>>

LeaveTransfer(t) ==
    /\ Go(t, "transfer", "idle") /\ transfers' = transfers - 1
    /\ asleep' = {}
    /\ UNCHANGED <<todo, old, lock, timing, interval>>

-----------------------------------------------------------------------------
(* timing_critical()                                                       *)

WantTiming(t) ==
    /\ todo[t] > 0 /\ Go(t, "idle", "lock")
    /\ todo' = [todo EXCEPT ![t] = @ - 1]
    /\ UNCHANGED <<old, lock, timing, transfers, asleep, interval>>

TakeLock(t) ==
    /\ lock = NoThread /\ Go(t, "lock", "flag")
    /\ lock' = t /\ old' = [old EXCEPT ![t] = interval]
    /\ UNCHANGED <<todo, timing, transfers, asleep, interval>>

RaiseFlag(t) ==
    /\ Go(t, "flag", "await") /\ timing' = TRUE
    /\ UNCHANGED <<todo, old, lock, transfers, asleep, interval>>

SleepUntilQuiet(t) ==
    /\ t \notin asleep /\ transfers > 0 /\ pc[t] = "await"
    /\ asleep' = asleep \cup {t}
    /\ UNCHANGED <<pc, todo, old, lock, timing, transfers, interval>>

FindQuiet(t) ==
    /\ t \notin asleep /\ transfers = 0 /\ Go(t, "await", "shorten")
    /\ UNCHANGED <<todo, old, lock, timing, transfers, asleep, interval>>

ShortenInterval(t) ==
    /\ Go(t, "shorten", "timing") /\ interval' = "short"
    /\ UNCHANGED <<todo, old, lock, timing, transfers, asleep>>

\* Mutant: no notify_all at the end of a step.
LowerFlagQuietly(t) ==
    /\ Go(t, "timing", "restore") /\ timing' = FALSE
    /\ UNCHANGED <<todo, old, lock, transfers, asleep, interval>>

LowerFlag(t) ==
    /\ Go(t, "timing", "restore") /\ timing' = FALSE
    /\ asleep' = {}
    /\ UNCHANGED <<todo, old, lock, transfers, interval>>

\* Mutant: the interval stays short.
RestoreNothing(t) ==
    /\ Go(t, "restore", "release")
    /\ UNCHANGED <<todo, old, lock, timing, transfers, asleep, interval>>

RestoreInterval(t) ==
    /\ Go(t, "restore", "release") /\ interval' = old[t]
    /\ UNCHANGED <<todo, old, lock, timing, transfers, asleep>>

ReleaseLock(t) ==
    /\ Go(t, "release", "idle") /\ lock' = NoThread
    /\ UNCHANGED <<todo, old, timing, transfers, asleep, interval>>

-----------------------------------------------------------------------------
\* What a thread does once it has asked for either section: it goes on.
Proceed(t) ==
    \/ EnterTransfer(t) \/ PauseTransfer(t) \/ LeaveTransfer(t)
    \/ TakeLock(t) \/ RaiseFlag(t) \/ SleepUntilQuiet(t) \/ FindQuiet(t)
    \/ ShortenInterval(t) \/ LowerFlag(t) \/ RestoreInterval(t) \/ ReleaseLock(t)

Next == \E t \in Threads : WantTransfer(t) \/ WantTiming(t) \/ Proceed(t)

\* The operating system runs every thread that can run; Python's locks are not
\* queues, so nothing stronger.
Spec == Init /\ [][Next]_vars
FairSpec == Spec /\ \A t \in Threads : WF_vars(Proceed(t))
-----------------------------------------------------------------------------
Transferring == {t \in Threads : pc[t] = "transfer"}

\* A timing-critical step runs alone: no other one, and no block on the bus, not even
\* one that was in flight when it asked (timing_critical's docstring).
TimingAlone ==
    \A t \in Threads : pc[t] = "timing" =>
        Transferring = {} /\ \A u \in Threads \ {t} : pc[u] # "timing"

\* The interpreter's switch interval is back to what it was whenever the lock is free,
\* however the steps of several threads followed each other.
IntervalRestored == lock = NoThread => interval = "usual"

\* No wake-up is missed: whoever asks for a block or for a timing step gets it, as long
\* as each offload takes a bounded number of timing steps.
EveryoneProceeds ==
    \A t \in Threads : /\ pc[t] = "pause" ~> pc[t] = "transfer"
                       /\ pc[t] = "lock" ~> pc[t] = "timing"
=============================================================================
