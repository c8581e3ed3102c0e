----------------------------- MODULE SampleTimes -----------------------------
(***************************************************************************)
(* From a deployment's memory image and offload records to the sample      *)
(* times of its NetCDF file: the word walk of the decoders, the runs of    *)
(* the logger's clock, what each offload saw of the record, and the        *)
(* re-timing of samples stored on a clock that had been reset.             *)
(*                                                                         *)
(* Source: rawbin.py (decode, event_indices, _starts, resolve_time_arrays),*)
(* equations.decode_l2, easyparse.decode_easyparse, and offload_views,     *)
(* _l2_seen and the correction variables of ncwrite.py.                    *)
(*                                                                         *)
(* The module has no state: its operators take an image `m`, a record of   *)
(*   family   "solo" (RBRsolo), "l2" (RBRduet, RBRconcerto), or "gen3"     *)
(*            (EasyParse: a time in each sample set, events in a dataset   *)
(*            of their own)                                                *)
(*   nchan    words per sample set                                         *)
(*   enabled  the logger's clock when it was enabled, also the start time  *)
(*   words    the memory after the header                                  *)
(* A word is a reading [kind, clock, at, run], whose clock only Gen3       *)
(* stores and whose at and run (the true time, and which run of the clock) *)
(* nobody stores; or one of the two words of an event [kind, type, clock,  *)
(* ok], where ok says that the record's CRC is right.                      *)
(*                                                                         *)
(* Time is counted in sampling periods; Y2001 stands for 2001-01-01 and 0  *)
(* for 2000-01-01, where a clock restarts.  Slack is the 5 s a sample may  *)
(* lie after the offload that saw it, Jitter is EVENT_JITTER_MS.  Byte     *)
(* counts are counted in words.  Left out: error codes, the longer records *)
(* of L2 loggers, and implausible Gen3 times, which refuse the image.      *)
(***************************************************************************)
EXTENDS Integers, Sequences, FiniteSets, FiniteSetsExt, SequencesExt

CONSTANTS Y2001, Slack, Jitter

ASSUME TimesAssumption == Y2001 \in Nat \ {0} /\ Slack \in Nat /\ Jitter \in Nat

\* The members of a subset of 1..n, in order.
InOrder(n, S) ==
    LET upTo[i \in 0..n] ==
            IF i = 0 THEN <<>> ELSE IF i \in S THEN Append(upTo[i - 1], i) ELSE upTo[i - 1]
    IN  upTo[n]
SetOrNone(S) == IF S = {} THEN 0 ELSE Max(S)

-----------------------------------------------------------------------------
(* The word walk.  Places in `words` count from 1, sample sets from 1.     *)

RTC_RESET_EVENTS == {"restart_failed", "restarted"}         \* 0x06; 0x0A, 0x0B
RESTART_EVENTS == {"restarted"}
\* Mutant: the time a CPU reset took is not counted.
ANCHORS_BUT_CPU_RESET == {"sync"} \cup RESTART_EVENTS
ANCHOR_EVENTS == {"sync", "cpu_reset"} \cup RESTART_EVENTS  \* 0x01, 0x04

Marked(m) == {i \in DOMAIN m.words : m.words[i].kind = "event"}
Valid(m, i) == i < Len(m.words) /\ m.words[i].ok

\* Mutant: a corrupt event record kept as readings.
SoloKeepingCorrupt(m) == {i \in Marked(m) : Valid(m, i)}

\* decode drops a corrupt record, and one cut off at the end; decode_l2 keeps the
\* words of both as readings, since a reading of those loggers can look like an event.
SoloRecords(m) == Marked(m)
L2Records(m) == {i \in Marked(m) : Valid(m, i)}
Readings(m) ==
    LET records == IF m.family = "l2" THEN L2Records(m) ELSE SoloRecords(m)
        dropped == records \cup {i + 1 : i \in records}
    IN  InOrder(Len(m.words), DOMAIN m.words \ dropped)

\* The first words, and the last, of the complete sample sets.
SetStarts(m) ==
    LET r == Readings(m) IN [k \in 1..(Len(r) \div m.nchan) |-> r[(k - 1) * m.nchan + 1]]
SetEnds(m) ==
    LET r == Readings(m) IN [k \in 1..(Len(r) \div m.nchan) |-> r[k * m.nchan]]

\* The valid events, each with how many sets come before it.
Events(m) ==
    LET r == Readings(m)
        places == InOrder(Len(m.words), L2Records(m))
    IN  [e \in DOMAIN places |->
            [type |-> m.words[places[e]].type, clock |-> m.words[places[e]].clock,
             end |-> places[e] + 1,
             index |-> Cardinality({j \in DOMAIN r : r[j] < places[e]}) \div m.nchan]]

\* Each anchor sets the time of the next set, later sets follow at the period; sets
\* before any anchor are counted from the start of the deployment.
AnchoredTime(m, events, k) ==
    LET a == SetOrNone({e \in DOMAIN events : /\ events[e].type \in ANCHOR_EVENTS
                                              /\ events[e].index < k})
    IN  IF a = 0 THEN [clock |-> m.enabled + k - 1, reset |-> FALSE]
        ELSE [clock |-> events[a].clock + k - 1 - events[a].index,
              reset |-> events[a].clock < m.enabled]

-----------------------------------------------------------------------------
(* Runs of the clock.  An index i says that i sample sets come before it.  *)

clock_runs(t) == {i \in 1..(Len(t) - 1) : t[i + 1] < t[i]}

\* Where Gen3's events lie in the record: the events carry their own clock only.
event_indices(t, clocks) ==
    LET starts == <<0>> \o InOrder(Len(t), clock_runs(t))
        last == Len(starts)
        from(r) == t[starts[r] + 1]
        upTo(r) == IF r = last THEN Len(t) ELSE starts[r + 1]
        onward(r, e) ==
            Min({last} \cup {q \in r..last : ~ (e < Y2001 /\ Y2001 <= from(q))})
        place(r, e) ==
            IF from(r) < Y2001 /\ Y2001 <= e THEN starts[r]
            ELSE IF e < Y2001 /\ Y2001 <= from(r) THEN upTo(r)
            ELSE starts[r] + Cardinality({i \in (starts[r] + 1)..upTo(r) : t[i] < e})
        \* Each event lies in the run of the one before it, or in a later one.
        runOf[e \in 0..Len(clocks)] ==
            IF e = 0 THEN 1
            ELSE LET stepsBack == /\ e > 1 /\ clocks[e] < Y2001 /\ runOf[e - 1] < last
                                  /\ clocks[e] < clocks[e - 1] - Jitter
                 IN  onward(IF stepsBack THEN runOf[e - 1] + 1 ELSE runOf[e - 1], clocks[e])
    IN  [e \in DOMAIN clocks |-> IF t = <<>> THEN 0 ELSE place(runOf[e], clocks[e])]

\* The result: logger-clock times, which sets are on a reset clock, where the sets end,
\* the events, and the types that tell of a restart.
DecodeWords(m) ==
    LET events == Events(m)
        n == Len(SetEnds(m))
        timed == [k \in 1..n |-> AnchoredTime(m, events, k)]
    IN  [time |-> [k \in 1..n |-> timed[k].clock],
         reset |-> {k \in 1..n : timed[k].clock < Y2001 \/ timed[k].reset},
         ends |-> SetEnds(m), events |-> events, restarts |-> RTC_RESET_EVENTS]
decode_easyparse(m) ==
    LET events == Events(m)
        starts == SetStarts(m)
        time == [k \in DOMAIN starts |-> m.words[starts[k]].clock]
        index == event_indices(time, [e \in DOMAIN events |-> events[e].clock])
    IN  [time |-> time, reset |-> {k \in DOMAIN time : time[k] < Y2001}, ends |-> SetEnds(m),
         events |-> [e \in DOMAIN events |-> [events[e] EXCEPT !.index = index[e]]],
         restarts |-> RESTART_EVENTS]
Decoded(m) == IF m.family = "gen3" THEN decode_easyparse(m) ELSE DecodeWords(m)

\* Clock segments begin at restart events and where the clock steps back: [at, event],
\* event 0 where there is none.  Of several events at an index the first one counts.
Starts(d) ==
    LET restarts(i) == {e \in DOMAIN d.events : d.events[e].type \in d.restarts /\ d.events[e].index = i}
        places == clock_runs(d.time) \cup {i \in 1..Len(d.time) : restarts(i) # {}}
    IN  {[at |-> i, event |-> IF restarts(i) = {} THEN 0 ELSE Min(restarts(i))] : i \in places}

-----------------------------------------------------------------------------
(* What each offload saw.  An offload is [bytes, at, by, skew]: the words  *)
(* its image held, when it was made, how its skew was measured ("none",    *)
(* "utc", or "host" without NTP) and the skew, logger minus UTC.           *)

skew_jump(o, p) == o.by = p.by /\ o.by # "none" /\ o.skew # p.skew

\* Mutant: the counts of the latest image for every offload.
SeenOfLatest(d, offloads, k) == [samples |-> Len(d.ends), events |-> Len(d.events)]
Seen(d, offloads, k) ==
    IF k = Len(offloads)
    THEN [samples |-> Len(d.ends), events |-> Len(d.events)]
    ELSE [samples |-> Cardinality({j \in DOMAIN d.ends : d.ends[j] <= offloads[k].bytes}),
          events |-> Cardinality({e \in DOMAIN d.events : d.events[e].end <= offloads[k].bytes})]

\* One view per offload; clock_set_before when its skew jumped and no reset event that
\* came in between explains it.
offload_views(d, offloads) ==
    LET seen == [k \in DOMAIN offloads |-> Seen(d, offloads, k)]
        resetBetween(a, b) == \E e \in (a + 1)..b : d.events[e].type \in d.restarts
    IN  [k \in DOMAIN offloads |->
            [samples |-> seen[k].samples, events |-> seen[k].events, at |-> offloads[k].at,
             measured |-> offloads[k].by # "none", skew |-> offloads[k].skew,
             clock_set_before |->
                /\ k > 1 /\ skew_jump(offloads[k - 1], offloads[k])
                /\ ~ resetBetween(seen[k - 1].events, seen[k].events)]]

Saw(view, s) == IF s.event # 0 THEN s.event <= view.events ELSE s.at < view.samples

\* A clock set between two offloads ends every run at what the earlier one saw.
Bounds(starts, views, n) ==
    starts \cup {[at |-> views[k].samples, event |-> 0] :
                    k \in {j \in DOMAIN views : /\ j < Len(views) /\ views[j + 1].clock_set_before
                                                /\ views[j].samples \in 1..n
                                                /\ ~ \E s \in starts : s.at = views[j].samples}}

-----------------------------------------------------------------------------
(* Re-timing, segment by segment.                                          *)

\* Mutant: the latest offload, whatever clock it measured.
CandidatesOfAny(views, starts, i0) == DOMAIN views
\* The offloads whose current segment, the last one whose start they saw, begins at i0.
Candidates(views, starts, i0) ==
    {k \in DOMAIN views : SetOrNone({s.at : s \in {r \in starts : Saw(views[k], r)}}) = i0}

\* View v gives the samples `fix` a consistent time: after the last sample kept before
\* them, before the offload as far as it saw them, and not before 2001.
Consistent(t, kept, fix, v) ==
    LET first == Min(fix)
        before == SetOrNone({i \in kept : i < first})
        seen == {i \in fix : i <= v.samples}
    IN  /\ before # 0 => t[first] - v.skew > t[before]
        /\ seen # {} => t[Max(seen)] - v.skew <= v.at + Slack
        /\ t[first] - v.skew >= Y2001

\* acc holds the times so far, the samples kept, and the offload that re-timed each.
Retime(d, views, starts, acc, i0, i1) ==
    LET fix == d.reset \cap ((i0 + 1)..i1)
        usable == {k \in Candidates(views, starts, i0) :
                      views[k].measured /\ Consistent(acc.time, acc.kept, fix, views[k])}
        k == Max(usable)
    IN  IF fix = {} THEN acc
        ELSE IF usable = {} THEN [acc EXCEPT !.kept = @ \ fix]
        ELSE [time |-> [i \in DOMAIN acc.time |->
                            IF i \in fix THEN acc.time[i] - views[k].skew ELSE acc.time[i]],
              kept |-> acc.kept,
              by |-> [i \in DOMAIN acc.by |-> IF i \in fix THEN k ELSE acc.by[i]]]

resolve_times(d, offloads) ==
    LET n == Len(d.time)
        views == offload_views(d, offloads)
        starts == Bounds(Starts(d), views, n)
        bounds == <<0>> \o InOrder(n, {s.at : s \in starts})
        upTo(s) == IF s = Len(bounds) THEN n ELSE bounds[s + 1]
        after[s \in 0..Len(bounds)] ==
            IF s = 0 THEN [time |-> d.time, kept |-> 1..n, by |-> [i \in 1..n |-> 0]]
            ELSE Retime(d, views, starts, after[s - 1], bounds[s], upTo(s))
    IN  after[Len(bounds)]

\* "sample times are not strictly increasing after clock corrections": no file.
Refused(r) == \E i, j \in r.kept : i < j /\ r.time[i] >= r.time[j]

-----------------------------------------------------------------------------
(* The file: what is kept, along the kept time axis.                       *)

_kept_index(kept, i) == Cardinality({k \in kept : k <= i})

\* Mutant: indices of the whole record, not of the kept axis.
CorrectionsOfRecord(r) ==
    LET of(k) == {i \in DOMAIN r.by : r.by[i] = k}
    IN  {[start |-> Min(of(k)) - 1, end |-> Max(of(k)), offload |-> k] :
            k \in {r.by[i] : i \in DOMAIN r.by} \ {0}}

\* The re-timed runs, [start, end) on the kept axis with the offload used.
Corrections(r) ==
    LET runs == {r.by[i] : i \in DOMAIN r.by} \ {0}
        of(k) == {i \in DOMAIN r.by : r.by[i] = k}
    IN  {[start |-> _kept_index(r.kept, Min(of(k)) - 1), end |-> _kept_index(r.kept, Max(of(k))),
          offload |-> k] : k \in runs}
=============================================================================
