----------------------------- MODULE ClockHistory -----------------------------
(***************************************************************************)
(* A logger's clock through a deployment, and the sample times rbr-tpw     *)
(* publishes for it.  The logger samples, loses power (its clock restarts  *)
(* at 2000-01-01), resets its CPU with the clock intact, is stopped and    *)
(* its clock set; meanwhile it is offloaded, each offload measuring the    *)
(* clock's skew or failing to, and writing the NetCDF file of the whole    *)
(* deployment anew.  The model keeps what no program can see: the true     *)
(* time of each sample, and the run of the clock that each sample and each *)
(* measurement belongs to.                                                 *)
(*                                                                         *)
(* Source: write_netcdf, write_values_netcdf and write_engineering, over   *)
(* SampleTimes.  The logger is external: its actions follow the decoders'  *)
(* comments and the tests' fake logger.                                    *)
(*                                                                         *)
(* Abstractions.  A skew is measured exactly, in one instant, so a jump is *)
(* any change; drift, and the tolerance for it (SKEW_JUMP_S, PPM), are     *)
(* left out.  A clock restarts, or is set, unseen only by an event record  *)
(* that is corrupt: a power loss of a stopped logger is not modelled.      *)
(***************************************************************************)
EXTENDS SampleTimes

CONSTANTS
    Shapes,     \* pairs of a family of loggers and its words per sample set
    Measures,   \* how a skew may be measured
    StartTime,  \* the true time at which the logger was enabled
    MaxSets,    \* sample sets stored
    MaxEvents,  \* events after the first
    MaxWait,    \* how long after StartTime a stopped logger waits
    MaxGap,     \* periods without power
    MaxOffloads,
    MaxCorrupt  \* event records with a wrong CRC

ASSUME HistoryAssumption ==
    /\ Shapes \subseteq {"solo", "l2", "gen3"} \X (Nat \ {0}) /\ Measures \subseteq {"none", "utc", "host"}
    /\ StartTime \in Nat /\ StartTime >= Y2001
    /\ {MaxSets, MaxWait, MaxEvents, MaxGap, MaxOffloads, MaxCorrupt} \subseteq Nat

VARIABLES
    logger,     \* [family, nchan, enabled]
    words,      \* its memory after the header
    status,     \* logging, or stopped
    now,        \* the true time
    clock,      \* what its clock says
    run,        \* which run of its clock this is
    setByHand,  \* the clock was set during the deployment
    offloads,   \* the offload records, in order
    file        \* what the NetCDF file says after the latest offload

vars == <<logger, words, status, now, clock, run, setByHand, offloads, file>>

NoFile == [logger |-> <<>>, time |-> <<>>, kept |-> {}, by |-> <<>>, corrections |-> {}, refused |-> FALSE]

Types == RTC_RESET_EVENTS \cup ANCHOR_EVENTS \cup {"stop"}
Event(type, t, ok) ==
    << [kind |-> "event", type |-> type, clock |-> t, ok |-> ok], [kind |-> "stamp", clock |-> t] >>
SampleSet == [i \in 1..logger.nchan |-> [kind |-> "reading", clock |-> clock, at |-> now, run |-> run]]

Count(kind) == Cardinality({i \in DOMAIN words : words[i].kind = kind})
Image(n) == [family |-> logger.family, nchan |-> logger.nchan, enabled |-> logger.enabled,
             words |-> SubSeq(words, 1, n)]
Memory == Image(Len(words))
Restarts(m) == {i \in Marked(m) : m.words[i].type \in RTC_RESET_EVENTS}
Corrupt(m) == {i \in Marked(m) : ~ m.words[i].ok}

\* Nothing is looked at after the last offload.
Goes == Len(offloads) < MaxOffloads

TypeOK ==
    /\ logger \in {[family |-> s[1], nchan |-> s[2], enabled |-> e] : s \in Shapes, e \in {0, StartTime}}
    /\ \A i \in DOMAIN words : words[i].kind \in {"reading", "event", "stamp"}
    /\ status \in {"logging", "stopped"} /\ setByHand \in BOOLEAN
    /\ now \in Nat /\ clock \in 0..now /\ run \in Nat \ {0}
    /\ Len(offloads) <= MaxOffloads
    /\ DOMAIN file.by = DOMAIN file.time /\ file.kept \subseteq DOMAIN file.time
    /\ \A c \in file.corrections : c.start < c.end /\ c.end <= Cardinality(file.kept)

\* Enabled on a good clock, or on one that had restarted before.
Init ==
    /\ logger \in {[family |-> s[1], nchan |-> s[2], enabled |-> e] : s \in Shapes, e \in {0, StartTime}}
    /\ now = StartTime /\ clock = logger.enabled /\ run = 1
    /\ \E ok \in IF MaxCorrupt > 0 THEN BOOLEAN ELSE {TRUE} : words = Event("sync", clock, ok)
    /\ status = "logging" /\ setByHand = FALSE
    /\ offloads = <<>> /\ file = NoFile

-----------------------------------------------------------------------------
(* The logger.                                                             *)

Sample ==
    /\ Goes /\ status = "logging" /\ Count("reading") < MaxSets * logger.nchan
    /\ words' = words \o SampleSet
    /\ now' = now + 1 /\ clock' = clock + 1
    /\ UNCHANGED <<logger, status, run, setByHand, offloads, file>>

Record(type, t) ==
    /\ Goes /\ Count("event") <= MaxEvents
    /\ \E ok \in BOOLEAN :
          /\ ok \/ Cardinality(Corrupt(Memory)) < MaxCorrupt
          /\ words' = words \o Event(type, t, ok)

\* A power loss: sampling restarts on the restarted clock, or cannot.
LosePower(gap, type) ==
    /\ status = "logging" /\ Record(type, 0)
    /\ now' = now + gap /\ clock' = 0 /\ run' = run + 1
    /\ status' = IF type = "restarted" THEN "logging" ELSE "stopped"
    /\ UNCHANGED <<logger, setByHand, offloads, file>>

CpuReset(gap) ==
    /\ status = "logging" /\ Record("cpu_reset", clock + gap)
    /\ now' = now + gap /\ clock' = clock + gap
    /\ UNCHANGED <<logger, status, run, setByHand, offloads, file>>

Stop ==
    /\ status = "logging" /\ Record("stop", clock)
    /\ status' = "stopped"
    /\ UNCHANGED <<logger, now, clock, run, setByHand, offloads, file>>

\* In Ruskin, only while stopped.
SetClock ==
    /\ Goes /\ status = "stopped" /\ clock # now
    /\ clock' = now /\ run' = run + 1 /\ setByHand' = TRUE
    /\ UNCHANGED <<logger, words, status, now, offloads, file>>

\* A stopped logger waits for its offload.
Wait ==
    /\ Goes /\ status = "stopped" /\ now < StartTime + MaxWait
    /\ now' = now + 1 /\ clock' = clock + 1
    /\ UNCHANGED <<logger, words, status, run, setByHand, offloads, file>>

-----------------------------------------------------------------------------
(* An offload.                                                             *)

NetCDF(m, records) ==
    LET d == Decoded(m)
        r == resolve_times(d, records)
    IN  [logger |-> d.time, time |-> r.time, kept |-> r.kept, by |-> r.by,
         corrections |-> Corrections(r), refused |-> Refused(r)]

\* The last word but one begins a restart's event.
JustRestarted == \E i \in Restarts(Memory) : i = Len(words) - 1

\* Word n + 1 belongs to the same event or sample set as word n.
Splits(n) == words[n + 1].kind = "stamp" \/ (words[n + 1].kind = "reading" /\ logger.nchan > 1)

\* It reads the memory, perhaps but for the last word under way, and converts all of it.
\* A logger that lost power has written the event by the time it answers.
Offload(by, n) ==
    /\ Goes /\ (n < Len(words) => Splits(n) /\ ~ JustRestarted)
    /\ \A k \in DOMAIN offloads : offloads[k].bytes <= n
    /\ offloads' = Append(offloads,
           [bytes |-> n, at |-> now, by |-> by, skew |-> IF by = "none" THEN 0 ELSE clock - now,
            run |-> run])
    /\ file' = NetCDF(Image(n), offloads')
    /\ UNCHANGED <<logger, words, status, now, clock, run, setByHand>>

Next ==
    \/ Sample
    \/ \E gap \in 1..MaxGap, type \in RTC_RESET_EVENTS : LosePower(gap, type)
    \/ \E gap \in 1..MaxGap : CpuReset(gap)
    \/ Stop \/ SetClock \/ Wait
    \/ \E by \in Measures, cut \in 0..1 : Offload(by, Len(words) - cut)

Spec == Init /\ [][Next]_vars

-----------------------------------------------------------------------------
(* What must hold.                                                         *)

Latest == Image(Last(offloads).bytes)
Written == offloads # <<>> /\ ~ file.refused

\* The word a sample set begins with; a set that decode_l2 makes of an event record cut
\* off at the end of the image is no sample.
WordOf(k) == words[SetStarts(Latest)[k]]
Real(k) == WordOf(k).kind = "reading"

\* The record shows every restart of the clock: no event that bears on the times is
\* corrupt, and between two restarts there is a sample set.  For Gen3, whose events carry
\* no place in the record, there is one restart at most, and none that failed.
CorruptMatters ==
    \E i \in Corrupt(Latest) : \/ words[i].type \in RTC_RESET_EVENTS \cup {"cpu_reset"}
                               \/ logger.family = "l2"
SetBetween(i, j) == \E k \in DOMAIN SetEnds(Latest) : i < SetEnds(Latest)[k] /\ SetEnds(Latest)[k] < j
RestartsApart ==
    IF logger.family = "gen3"
    THEN /\ Cardinality(Restarts(Latest)) + (IF logger.enabled = 0 THEN 1 ELSE 0) <= 1
         /\ \A i \in Restarts(Latest) : words[i].type = "restarted"
    ELSE /\ \A i, j \in Restarts(Latest) : i < j => SetBetween(i, j)
         /\ logger.enabled = 0 => \A i \in Restarts(Latest) : SetBetween(0, i)
Shown == Written /\ ~ CorruptMatters /\ RestartsApart

\* Each sample is decoded to the time that the logger's clock showed when it was taken,
\* whatever restarted the clock before it, whatever of the memory the offload left out,
\* and whatever is corrupt that tells nothing of the clock (rawbin.decode).
DecodesTheClock ==
    offloads # <<>> /\ ~ CorruptMatters =>
        \A k \in DOMAIN file.logger : Real(k) => file.logger[k] = WordOf(k).clock

KeptAt(i) == CHOOSE k \in file.kept : _kept_index(file.kept, k) = i

\* Every sample in the file has its true time, whatever happened to the clock and
\* whichever offload re-timed it, and the file says which offload did: the corrections
\* it lists cover the re-timed samples, each listed with the offload whose skew it got
\* (rawbin.resolve_time_arrays, ncwrite._correction_variables).
TimesAreTrue ==
    Shown =>
        /\ \A k \in file.kept : Real(k) => file.time[k] = WordOf(k).at
        /\ \A c \in file.corrections : \A i \in (c.start + 1)..c.end :
              /\ file.by[KeptAt(i)] = c.offload
              /\ Real(KeptAt(i)) => offloads[c.offload].run = WordOf(KeptAt(i)).run

\* Nothing recoverable is lost: where the record shows every restart, the file is
\* written, and it holds each sample of a run whose skew some offload measured, if that
\* offload saw the sample or nobody set the clock since.
MeasuredRunsAreKept ==
    offloads # <<>> /\ ~ CorruptMatters /\ RestartsApart =>
        /\ ~ file.refused
        /\ \A k \in DOMAIN file.time, o \in DOMAIN offloads :
              Real(k) /\ offloads[o].by # "none" /\ offloads[o].run = WordOf(k).run
                  /\ (SetEnds(Latest)[k] <= offloads[o].bytes \/ ~ setByHand) => k \in file.kept

\* What is appended to an image changes no logger-clock time decoded before, also when
\* an offload cut an event record in two or a record is corrupt; decode_l2 alone may
\* take back one last set, which it had made of half an event record.
AppendKeepsSamples ==
    [][ offloads # <<>> /\ file' # file =>
            IsPrefix(IF logger.family = "l2" THEN SubSeq(file.logger, 1, Len(file.logger) - 1)
                                             ELSE file.logger, file'.logger) ]_vars

\* "shifted by the ... skew measured at an offload made while that clock ran unbroken"
\* (rawbin.resolve_times), whenever the events of the record are intact.
SkewOfItsOwnClock ==
    Written /\ ~ CorruptMatters =>
        \A k \in file.kept : Real(k) /\ file.by[k] # 0 => offloads[file.by[k]].run = WordOf(k).run
=============================================================================
