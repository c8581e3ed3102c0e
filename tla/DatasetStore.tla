---------------------------- MODULE DatasetStore ----------------------------
(***************************************************************************)
(* The deployment store for loggers that keep a deployment in several      *)
(* datasets: the files of one offload, written one after the other, and    *)
(* what --rebuild makes of them later.  OffloadStore is the same story for *)
(* the one dataset of an RBRsolo, byte ranges and identity checks included. *)
(*                                                                         *)
(* Source: cli.offload, _find_deployment, _store_dataset, _rebuild and     *)
(* _raw_files (cli.py), Driver.download with Gen3Driver and Gen4Driver     *)
(* (drivers.py), gen4.download and solo.download for Gen3.                 *)
(*                                                                         *)
(* A definition marked "Mutant" is a broken variant of the one after it.   *)
(*                                                                         *)
(* Abstractions, beyond those of OffloadStore (files are sequences of      *)
(* cells, a checksum is the content, an absent file is empty).             *)
(*  - A dataset is a number: 3(l-1)+k is kind k of the logger's l-th       *)
(*    deployment in memory.  Kind 1 is the identity, dataset2 of a Gen3    *)
(*    and <label>/meta of a Gen4; kind 2 the events, kind 3 the samples.   *)
(*    The order of the numbers is the order of downloading and of storing. *)
(*  - A Gen3 holds one deployment; a Gen4 may be enabled again with the    *)
(*    earlier ones in memory, and uses their labels again once erased.     *)
(*  - The first cell of a dataset is the head a partial file is recognised *)
(*    by: 512 bytes, which hold the deployment's times and differ between  *)
(*    deployments.  A Gen4 may answer with fewer bytes than were asked     *)
(*    for: a head too short to tell deployments apart counts as none.      *)
(*    A Gen3 may not (a short header is a LinkError); so its partial file  *)
(*    is never "longer than logger memory"; for headers that repeat see    *)
(*    OffloadStore!PartTooLong.                                            *)
(*  - A deployment's identity does not change while it is logged.          *)
(*  - One object is downloaded in one step, or cut short at any cell:      *)
(*    only the tool touches partial files, and memory only grows under it. *)
(***************************************************************************)
EXTENDS Integers, Sequences, FiniteSets, SequencesExt

CONSTANTS
    MaxEpoch,   \* how many deployments the logger is enabled for
    MaxLabels,  \* how many of them a Gen4 holds at once
    MetaLen,    \* cells of the identity, by deployment
    MaxLen,     \* cells of the events and of the samples
    Omissions,  \* what a Gen4 may fail to send, see omits
    MaxTag,     \* how many offloads find something in memory
    MaxLost,    \* how many files are damaged from outside
    MaxShort    \* how many objects the logger sends no bytes of

Epochs == 1..MaxEpoch
Tags == 1..MaxTag
NoTag == 0
Names == 1..(3 * MaxLabels)
End == 3 * MaxLabels + 1

ASSUME DatasetAssumption ==
    /\ MaxEpoch \in Nat \ {0} /\ MaxLabels \in Nat \ {0}
    /\ MetaLen \in [1..MaxEpoch -> Nat \ {0}] /\ MaxLen \in [2..3 -> Nat]
    /\ Omissions \subseteq [short : SUBSET (1..3), heads : SUBSET (1..3)]
    /\ MaxTag \in Nat /\ MaxLost \in Nat /\ MaxShort \in Nat

Label(n) == ((n - 1) \div 3) + 1
Kind(n) == ((n - 1) % 3) + 1
grows(n) == Kind(n) # 1

VARIABLES
    \* the logger
    gen4,       \* its family: Gen4, or Gen3
    omits,      \* the kinds of object it may stop sending after the head, and send no head of
    epoch,      \* how often it was enabled
    memory,     \* the deployments in memory: the epoch of each, and its sizes by kind
    \* the directory raw/
    files,      \* <stem>_<dataset>.bin
    records,    \* <serial>_<tag>.json
    parts,      \* .partial/
    lost,       \* stems a file of which was damaged from outside
    \* the offload in progress
    pc, at,     \* its next step and dataset
    started,    \* the tags used so far
    tag,        \* its own
    want,       \* the size of each dataset, as the logger reported it
    held,       \* the deployment on disk
    got,        \* what was downloaded
    cut         \* how many downloads the logger has cut short

\* A Gen3's short reply is a LinkError, not an omission.
Nothing == [short |-> {}, heads |-> {}]

\* The loggers that send every head, and every object of metadata whole.
HeadsCome == omits.heads = {}
MetasCome == 1 \notin omits.short \cup omits.heads

logger == <<gen4, omits, epoch, memory>>
disk == <<files, records, parts, lost>>
vars == <<gen4, omits, epoch, memory, files, records, parts, lost, pc, at, started, tag, want, held, got, cut>>

Cell == [of : Epochs, name : Names, at : Nat]
Bytes == Seq(Cell)
Data == [Names -> Bytes]
NoData == [n \in Names |-> <<>>]
NoSizes == [n \in Names |-> 0]

\* The first s cells of dataset n on the logger.
Memory(n, s) == [i \in 1..s |-> [of |-> memory[Label(n)].of, name |-> n, at |-> i]]
Present == 1..(3 * Len(memory))
Sizes == [n \in Names |-> IF n \in Present THEN memory[Label(n)].size[Kind(n)] ELSE 0]

\* A record: its deployment, its number in it, its datasets; and, for the properties
\* only, what was on the logger and whether the logger cut the download short.
Record == [stem : Tags, index : Nat, data : Data, of : Seq(Epochs), sizes : [Names -> Nat], short : BOOLEAN]
NoRecord == [stem |-> NoTag, index |-> 0, data |-> NoData, of |-> <<>>, sizes |-> NoSizes, short |-> FALSE]
NoDeployment == NoRecord

TypeOK ==
    /\ gen4 \in BOOLEAN /\ epoch \in 0..MaxEpoch
    /\ omits \in [short : SUBSET (1..3), heads : SUBSET (1..3)]
    /\ memory \in Seq([of : Epochs, size : [1..3 -> Nat]])
    /\ Len(memory) <= IF gen4 THEN MaxLabels ELSE 1
    /\ files \in [Tags -> Data] /\ parts \in Data /\ lost \subseteq Tags
    /\ records \in [Tags -> Record \cup {NoRecord}]
    /\ pc \in {"idle", "find", "check", "fetch", "store", "record", "unlink"}
    /\ at \in 1..End /\ started \subseteq Tags /\ tag \in Tags \cup {NoTag}
    /\ want \in [Names -> Nat] /\ got \in Data
    /\ held \in Record \cup {NoDeployment} /\ cut \in 0..MaxShort

Init ==
    /\ gen4 \in BOOLEAN /\ omits \in (IF gen4 THEN Omissions ELSE {Nothing}) /\ epoch = 0 /\ memory = <<>>
    /\ files = [s \in Tags |-> NoData] /\ records = [t \in Tags |-> NoRecord]
    /\ parts = NoData /\ lost = {}
    /\ pc = "idle" /\ at = 1 /\ started = {} /\ tag = NoTag
    /\ want = NoSizes /\ held = NoDeployment /\ got = NoData /\ cut = 0

-----------------------------------------------------------------------------
(* The logger, Ruskin, and the file system.                                *)

offloading == <<pc, at, started, tag, want, held, got, cut>>

\* The open dataset grows, connected or not; in the steps of an offload that do not
\* look at the memory it makes no difference when.
Log(k) ==
    /\ pc \in {"idle", "fetch"} /\ memory # <<>>
    /\ memory[Len(memory)].size[k] < MaxLen[k]
    /\ memory' = [memory EXCEPT ![Len(memory)].size[k] = @ + 1]
    /\ UNCHANGED <<gen4, omits, epoch, disk, offloading>>

Erase ==
    /\ pc = "idle" /\ memory # <<>>
    /\ memory' = <<>>
    /\ UNCHANGED <<gen4, omits, epoch, disk, offloading>>

Enable ==
    /\ pc = "idle" /\ epoch < MaxEpoch
    /\ Len(memory) < IF gen4 THEN MaxLabels ELSE 1
    /\ epoch' = epoch + 1
    /\ memory' = Append(memory, [of |-> epoch + 1, size |-> <<MetaLen[epoch + 1], 0, 0>>])
    /\ UNCHANGED <<gen4, omits, disk, offloading>>

Damage(s, n) ==
    /\ Cardinality(lost) < MaxLost
    /\ \E m \in 0..(Len(files[s][n]) - 1) : files' = [files EXCEPT ![s][n] = SubSeq(@, 1, m)]
    /\ lost' = lost \cup {s}
    /\ UNCHANGED <<logger, records, parts, offloading>>

-----------------------------------------------------------------------------
(* Which deployment is on disk.                                            *)

Recorded == {t \in Tags : records[t].stem # NoTag}
OfStem(s) == {t \in Recorded : records[t].stem = s}
IsLast(l) ==
    \A u \in OfStem(records[l].stem) :
        \/ records[u].index < records[l].index
        \/ records[u].index = records[l].index /\ u <= l
Latest(s) == CHOOSE l \in OfStem(s) : IsLast(l)
NewestStem == records[CHOOSE t \in Recorded : \A u \in Recorded : u <= t].stem

\* Dataset n of a record is on disk, possibly with bytes past it.
Describes(r, n) == IsPrefix(r.data[n], files[r.stem][n])

\* The next dataset of `data` that is not empty: the others are not stored.
NextOf(data, n) == Min({m \in Names : m >= n /\ data[m] # <<>>} \cup {End})

Stop ==
    /\ pc' = "idle" /\ at' = 1 /\ tag' = NoTag
    /\ want' = NoSizes /\ held' = NoDeployment /\ got' = NoData
    /\ UNCHANGED started

\* Identify and take the snapshot; an empty memory leads straight to a record of no
\* deployment.  A Gen3's sizes are those of the snapshot.
Begin(t) ==
    /\ pc = "idle" /\ t \notin started
    /\ pc' = IF memory = <<>> THEN "unlink" ELSE "find"
    /\ started' = IF memory = <<>> THEN started ELSE started \cup {t}
    /\ tag' = t /\ want' = Sizes
    /\ UNCHANGED <<logger, disk, at, held, got, cut>>

\* _find_deployment picks the record to trust ...
Find ==
    /\ pc = "find"
    /\ held' = IF Recorded = {} THEN NoDeployment ELSE records[Latest(NewestStem)]
    /\ pc' = "check" /\ at' = NextOf(held'.data, 1)
    /\ UNCHANGED <<logger, disk, started, tag, want, got, cut>>

\* ... and checks its files one by one, cutting off what an interrupted offload left
\* past the record ...
CheckFile ==
    /\ pc = "check" /\ at # End /\ Describes(held, at)
    /\ files' = [files EXCEPT ![held.stem][at] = held.data[at]]
    /\ at' = NextOf(held.data, at + 1)
    /\ UNCHANGED <<logger, records, parts, lost, pc, started, tag, want, held, got, cut>>

\* (a Gen4 reports the sizes of its objects as the download starts)
StartDownload(h) ==
    /\ held' = h /\ pc' = "fetch" /\ at' = 1
    /\ want' = IF gen4 THEN Sizes ELSE want
    /\ UNCHANGED <<logger, disk, started, tag, got, cut>>

\* ... and trusts none if one is missing or wrong.
CannotTrust == pc = "check" /\ at # End /\ ~ Describes(held, at) /\ StartDownload(NoDeployment)
Trust == pc = "check" /\ at = End /\ StartDownload(held)

-----------------------------------------------------------------------------
(* gen4.download, and solo.download for each dataset of a Gen3.            *)

\* Whether the head came: of a Gen4 it may be empty, and is taken for the object's all
\* the same.
Heads(n) == {TRUE} \cup {h \in {FALSE} : gen4 /\ Kind(n) \in omits.heads /\ cut < MaxShort}

\* Mutant: whatever is in the partial file is taken for this deployment's.
ReusableUnchecked(n, head) == parts[n] # <<>>

\* The partial file is resumed if it begins with the head; a Gen4's also only if it is
\* not longer than the object.  An empty head every file begins with.
Reusable(n, head) ==
    /\ parts[n] # <<>> /\ want[n] > 0
    /\ head => SubSeq(parts[n], 1, 1) = Memory(n, 1)
    /\ gen4 => Len(parts[n]) <= want[n]

\* What is kept of the partial file.
Opened(n, head) ==
    IF Reusable(n, head) \/ (want[n] = 0 /\ ~ gen4)     \* Gen3: an empty dataset is not asked for
    THEN parts[n]
    ELSE <<>>

\* ... and what it is once it holds m cells.
ReadTo(n, head, m) == Opened(n, head) \o SubSeq(Memory(n, m), Len(Opened(n, head)) + 1, m)

Missing(head) == IF head THEN cut ELSE cut + 1

Fetch ==
    /\ pc = "fetch" /\ at \in Present
    /\ \E head \in Heads(at) :
          /\ parts' = [parts EXCEPT ![at] = ReadTo(at, head, want[at])]
          /\ cut' = Missing(head)
    /\ got' = [got EXCEPT ![at] = IF want[at] > 0 THEN parts'[at] ELSE <<>>]
    /\ at' = at + 1
    /\ UNCHANGED <<logger, files, records, lost, pc, started, tag, want, held>>

\* "logger returned no bytes; stopping there": a Gen4's object stays short; without a
\* head and with nothing to resume it may stay empty.
FetchNoBytes ==
    /\ pc = "fetch" /\ at \in Present /\ gen4 /\ cut < MaxShort
    /\ \E head \in Heads(at), m \in 0..(want[at] - 1) :
          /\ head => Kind(at) \in omits.short /\ m >= 1
          /\ m >= Len(Opened(at, head))
          /\ parts' = [parts EXCEPT ![at] = ReadTo(at, head, m)]
    /\ got' = [got EXCEPT ![at] = parts'[at]]
    /\ at' = at + 1 /\ cut' = cut + 1
    /\ UNCHANGED <<logger, files, records, lost, pc, started, tag, want, held>>

\* Ctrl-C between two blocks, a LinkError, a stopped computer.
FetchStopped ==
    /\ pc = "fetch" /\ at \in Present
    /\ \E head \in Heads(at), m \in 0..(want[at] - 1) :
          /\ m >= Len(Opened(at, head))
          /\ parts' = [parts EXCEPT ![at] = ReadTo(at, head, m)]
          /\ cut' = Missing(head)
    /\ Stop
    /\ UNCHANGED <<logger, files, records, lost>>

\* The identity dataset of the latest deployment among the datasets `listed`, empty or not.
identity(data, listed) ==
    LET metas == {n \in listed : ~ grows(n)}
    IN  IF metas = {} THEN <<>> ELSE data[Max(metas)]

\* A record lists what is not empty, a download what is on the logger.
ListedIn(data) == {n \in Names : data[n] # <<>>}

\* Mutant: the growing datasets are not compared.
GrowthIdentity(old, new) == identity(old, ListedIn(old)) = identity(new, Present)

\* The new datasets extend the old ones (growth_mismatch).  Of a dataset that does not
\* grow only the latest, the identity, is compared; of the others, that it is listed.
Growth(old, new) ==
    /\ identity(old, ListedIn(old)) = identity(new, Present)
    /\ \A n \in ListedIn(old) : n \in Present /\ (grows(n) => IsPrefix(old[n], new[n]))

\* Otherwise it is another deployment, and what was read is its first download.
Receive ==
    /\ pc = "fetch" /\ at \notin Present
    /\ held' = IF held # NoDeployment /\ Growth(held.data, got) THEN held ELSE NoDeployment
    /\ pc' = "store" /\ at' = NextOf(got, 1)
    /\ UNCHANGED <<logger, disk, started, tag, want, got, cut>>

-----------------------------------------------------------------------------
(* The files, one by one, then the record, then the partial files.         *)

Stem == IF held = NoDeployment THEN tag ELSE held.stem
\* Where a dataset is written from: what was held of it, if it grows and was held.
Offset(n) == IF grows(n) THEN Len(held.data[n]) ELSE 0
Whole(n) == Offset(n) = 0 \/ Len(files[Stem][n]) # Offset(n)
Stored(n, m) == [files EXCEPT ![Stem][n] = IF Whole(n) THEN got[n] ELSE @ \o SubSeq(got[n], Offset(n) + 1, m)]

Store ==
    /\ pc = "store" /\ at # End
    /\ files' = Stored(at, Len(got[at]))
    /\ at' = NextOf(got, at + 1)
    /\ UNCHANGED <<logger, records, parts, lost, pc, started, tag, want, held, got, cut>>

\* The computer stops within an append.
StoreStopped ==
    /\ pc = "store" /\ at # End /\ ~ Whole(at)
    /\ \E m \in (Offset(at) + 1)..Len(got[at]) : files' = Stored(at, m)
    /\ Stop
    /\ UNCHANGED <<logger, records, parts, lost, cut>>

NextIndex == IF held = NoDeployment THEN 0 ELSE held.index + 1

\* The dataset the record sums up is there: of a Gen4, the samples of the latest deployment,
\* whether there are any yet or not; if its metadata came short, another may do.
PrimaryIsThere ==
    LET samples == 3 * Len(memory)
    IN  gen4 => got[samples] # <<>> \/ Len(got[samples - 2]) < want[samples - 2]

\* With every object empty, the record names no deployment.  (Without its primary dataset
\* the offload ends in a KeyError, as at Interrupt.)
WriteRecord ==
    /\ pc = "store" /\ at = End /\ (got # NoData => PrimaryIsThere)
    /\ records' = IF got = NoData THEN records ELSE [records EXCEPT ![tag] =
          [stem |-> Stem, index |-> NextIndex, data |-> got,
           of |-> [l \in 1..Len(memory) |-> memory[l].of], sizes |-> want,
           short |-> \E n \in Names : Len(got[n]) < want[n]]]
    /\ pc' = "unlink"
    /\ UNCHANGED <<logger, files, parts, lost, at, started, tag, want, held, got, cut>>

\* part_files sorts them by name: a Gen4's <label>__data before __events and __meta, a
\* Gen3's dataset0 before dataset1 and dataset2.
Rank(n) == 3 * Label(n) + IF gen4 THEN 3 - Kind(n) ELSE (Kind(n) + 1) % 3

\* "only now: all is saved"
RemovePart(n) ==
    /\ pc = "unlink" /\ parts[n] # <<>>
    /\ \A m \in Names : Rank(m) < Rank(n) => parts[m] = <<>>
    /\ parts' = [parts EXCEPT ![n] = <<>>]
    /\ UNCHANGED <<logger, files, records, lost, offloading>>

Finish ==
    /\ pc = "unlink" /\ parts = NoData
    /\ Stop
    /\ UNCHANGED <<logger, disk, cut>>

Interrupt ==
    /\ pc # "idle"
    /\ Stop
    /\ UNCHANGED <<logger, disk, cut>>

Next ==
    \/ \E k \in 2..3 : Log(k)
    \/ Erase \/ Enable
    \/ \E s \in Tags, n \in Names : Damage(s, n)
    \/ \E t \in Tags : Begin(t)
    \/ Find \/ CheckFile \/ CannotTrust \/ Trust
    \/ Fetch \/ FetchNoBytes \/ FetchStopped \/ Receive
    \/ Store \/ StoreStopped \/ WriteRecord
    \/ \E n \in Names : RemovePart(n)
    \/ Finish \/ Interrupt

Spec == Init /\ [][Next]_vars

-----------------------------------------------------------------------------
(* rbr-offload --rebuild, of the record of offload t.                      *)

\* _raw_files: the datasets a record names, if every one is there and matches it.
RawFiles(r) == {d \in {r.data} : \A n \in Names : Describes(r, n)}

\* Its own files are checked, then those of the deployment's last record are converted.
Rebuild(t) ==
    IF RawFiles(records[t]) = {} THEN {} ELSE RawFiles(records[Latest(records[t].stem)])

-----------------------------------------------------------------------------
(* Correctness.                                                            *)

\* The datasets a record lists are of one memory, the one on the logger at that offload:
\* each begins at its first cell and has no gap, and all of it is there, unless the
\* logger itself stopped sending.  No partial file and no file on disk of an earlier
\* deployment, nor one of another dataset, finds its way into it.  A Gen4 that leaves
\* out a head is excepted: its partial file is compared with nothing.
RecordsAreTrue ==
    HeadsCome => \A t \in Recorded, n \in Names :
        LET r == records[t]
        IN  /\ Len(r.data[n]) = r.sizes[n] \/ r.short
            /\ \A i \in 1..Len(r.data[n]) : r.data[n][i] = [of |-> r.of[Label(n)], name |-> n, at |-> i]

\* Any record of a deployment can be rebuilt, at any moment, from any state a stopped
\* offload leaves, and gives everything that any record of that deployment described;
\* unless somebody else damaged its files.  A Gen4 that cuts an object of metadata short
\* is excepted: the next offload writes its file anew, shorter.
RecordsRebuild ==
    MetasCome => \A t, u \in Recorded :
        (records[t].stem = records[u].stem /\ records[t].stem \notin lost) =>
            \E d \in Rebuild(t) : \A n \in Names : IsPrefix(records[u].data[n], d[n])
=============================================================================
