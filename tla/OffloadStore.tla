---------------------------- MODULE OffloadStore ----------------------------
(***************************************************************************)
(* The deployment store of rbr-tpw: what one offload of a logger does to   *)
(* the files under raw/, step by step, while the logger goes on logging,   *)
(* while the computer may stop at any point, and while the logger may be   *)
(* erased and enabled again elsewhere between two offloads.                *)
(*                                                                         *)
(* Source: cli.offload with _find_deployment and _store_dataset (cli.py),  *)
(* L2Driver.download (drivers.py) and solo.download (solo.py), for the     *)
(* loggers with one dataset and the RBRsolo's fixed header.                *)
(*                                                                         *)
(* A definition marked "Mutant" is a broken variant of the one after it:   *)
(* no action uses it; it shows that a property notices such a bug.         *)
(*                                                                         *)
(* Abstractions.                                                           *)
(*  - Memory and files are sequences of cells.  Cell 1 is the memory       *)
(*    header, the others are data.  A cell names the deployment it comes   *)
(*    from and its place there, so that a byte stored at the wrong place,  *)
(*    or in the wrong deployment's file, is seen.                          *)
(*  - A checksum is the content it sums: no collisions.                    *)
(*  - An absent file is the empty sequence: every test the code makes of a *)
(*    missing file (is_file, exists) has the outcome it has for an empty   *)
(*    one.                                                                 *)
(*  - A stopped append leaves a prefix of the bytes appended; a rename is  *)
(*    atomic (_write_bytes, _write_json).                                  *)
(*  - A file is named by its deployment's stem, a stem by the time tag of  *)
(*    the offload that began it.  The host clock may step back between     *)
(*    offloads, but no two offloads carry the same tag.                    *)
(***************************************************************************)
EXTENDS Integers, Sequences, FiniteSets, SequencesExt

CONSTANTS
    MaxEpoch,   \* how many deployments the logger is enabled for
    MaxLen,     \* logger memory, in cells
    MaxTag,     \* how many offloads find something in memory
    MaxLost,    \* how many image files the user or the disk may damage
    Chunk,      \* solo.CHUNK: cells per read
    HeaderOf,   \* the header content of each deployment
    Alike       \* places where every deployment stores the same data

Epochs == 1..MaxEpoch
Tags == 1..MaxTag
NoTag == 0

ASSUME StoreAssumption ==
    /\ MaxEpoch \in Nat \ {0} /\ MaxLen \in Nat \ {0} /\ MaxTag \in Nat
    /\ MaxLost \in Nat /\ Chunk \in Nat \ {0}
    /\ HeaderOf \in [Epochs -> Nat]
    /\ Alike \subseteq 3..MaxLen    \* never the header, never the first time anchor

\* The header holds the enable time, so it differs between deployments.  It is what
\* solo.download relies on; PLAN-incremental-offload.md (F1.1) names how it can fail.
HeadersDistinct == \A d, e \in Epochs : HeaderOf[d] = HeaderOf[e] => d = e

VARIABLES
    \* the logger
    ep,         \* the deployment it was last enabled for
    used,       \* meminfo used: cells in memory, 0 once erased
    hv,         \* 1 once the header has changed in mid-deployment
    \* the directory raw/
    image,      \* <stem>.bin
    records,    \* <serial>_<tag>.json
    parts,      \* .partial/<serial>.<stem>.<offset>.part
    lost,       \* stems whose image was damaged from outside
    \* the offload in progress
    pc,         \* its next step
    started,    \* the tags used so far
    tag,        \* its own time tag
    full,       \* --full-download
    total,      \* bytes in memory, from the snapshot
    held,       \* the deployment on disk
    dl,         \* drivers.Downloaded
    outcome     \* how the latest offload ended

logger == <<ep, used, hv>>
disk == <<image, records, parts, lost>>
local == <<tag, full, total, held, dl>>
vars == <<ep, used, hv, image, records, parts, lost, pc, started, tag, full,
          total, held, dl, outcome>>

Cell == [kind : {"header", "data"}, of : Nat, at : Nat]
Bytes == Seq(Cell)

\* Cell i of the memory of deployment e, its header in version v.
MemCell(e, v, i) ==
    IF i = 1 THEN [kind |-> "header", of |-> HeaderOf[e], at |-> v]
             ELSE [kind |-> "data", of |-> IF i \in Alike THEN 0 ELSE e, at |-> i]

\* link.read_data: n cells of the logger's memory from offset.
ReadData(offset, n) == [i \in 1..n |-> MemCell(ep, hv, offset + i)]
HeaderNow == ReadData(0, 1)

NewPart == <<NoTag, 0>>                     \* <serial>.new.0.part
PartNames == {NewPart} \cup (Tags \X (1..MaxLen))

NoRecord == [stem |-> NoTag, index |-> 0, sum |-> <<>>, header |-> <<>>, ep |-> 0]
Record == [stem : Tags, index : Nat, sum : Bytes, header : Bytes, ep : Epochs]
NoDeployment == [stem |-> NoTag, data |-> <<>>, header |-> <<>>, index |-> 0]
Deployment == [stem : Tags, data : Bytes, header : Bytes, index : Nat]
NoDownload == [kind |-> "none", data |-> <<>>, offset |-> 0, header |-> <<>>]
Downloaded == [kind : {"none", "full", "incremental", "full-verified"},
               data : Bytes, offset : Nat, header : Bytes]

TypeOK ==
    /\ ep \in Epochs /\ used \in 0..MaxLen /\ hv \in 0..1
    /\ image \in [Tags -> Bytes]
    /\ records \in [Tags -> Record \cup {NoRecord}]
    /\ parts \in [PartNames -> Bytes]
    /\ lost \subseteq Tags
    /\ pc \in {"idle", "find", "check", "open", "block", "store", "record",
               "unlink", "configure", "erased", "enabled"}
    /\ started \subseteq Tags /\ tag \in Tags \cup {NoTag} /\ full \in BOOLEAN
    /\ total \in 0..MaxLen
    /\ held \in Deployment \cup {NoDeployment}
    /\ dl \in Downloaded
    /\ outcome \in {"none", "ok", "stopped", "failed"}

Init ==
    /\ ep = 1 /\ used = 1 /\ hv = 0
    /\ image = [s \in Tags |-> <<>>]
    /\ records = [t \in Tags |-> NoRecord]
    /\ parts = [p \in PartNames |-> <<>>]
    /\ lost = {}
    /\ pc = "idle" /\ started = {} /\ outcome = "none"
    /\ tag = NoTag /\ full = FALSE /\ total = 0
    /\ held = NoDeployment /\ dl = NoDownload

-----------------------------------------------------------------------------
(* The logger, and what happens to it and to the files from outside.       *)

\* It logs on, connected or not.
Log ==
    /\ used \in 1..(MaxLen - 1)
    /\ used' = used + 1
    /\ UNCHANGED <<ep, hv, disk, pc, started, local, outcome>>

\* Erased, or enabled, in Ruskin: only while no offload holds the port.
EraseElsewhere ==
    /\ pc = "idle" /\ used > 0
    /\ used' = 0 /\ hv' = 0
    /\ UNCHANGED <<ep, disk, pc, started, local, outcome>>

EnableElsewhere ==
    /\ pc = "idle" /\ used = 0 /\ ep < MaxEpoch
    /\ ep' = ep + 1 /\ used' = 1
    /\ UNCHANGED <<hv, disk, pc, started, local, outcome>>

\* A header byte changes in mid-deployment ("never seen", but provided for).
ChangeHeader ==
    /\ used > 0 /\ hv = 0
    /\ hv' = 1
    /\ UNCHANGED <<ep, used, disk, pc, started, local, outcome>>

\* The user or the disk cuts an image short or removes it.
DamageImage(s) ==
    /\ Cardinality(lost) < MaxLost
    /\ \E n \in 0..(Len(image[s]) - 1) :
          image' = [image EXCEPT ![s] = SubSeq(image[s], 1, n)]
    /\ lost' = lost \cup {s}
    /\ UNCHANGED <<logger, records, parts, pc, started, local, outcome>>

-----------------------------------------------------------------------------
(* An offload, cli.offload.                                                *)

EndWith(how) ==
    /\ pc' = "idle" /\ outcome' = how
    /\ tag' = NoTag /\ full' = FALSE /\ total' = 0
    /\ held' = NoDeployment /\ dl' = NoDownload
    /\ UNCHANGED started

\* Identify and take the snapshot.  An empty memory goes straight to its record,
\* which describes no deployment.
Begin(t, f) ==
    /\ pc = "idle" /\ t \notin started
    /\ pc' = IF used > 0 THEN "find" ELSE "record"
    /\ started' = IF used > 0 THEN started \cup {t} ELSE started
    /\ tag' = t /\ full' = f /\ total' = used
    /\ outcome' = "none"
    /\ UNCHANGED <<logger, disk, held, dl>>

Recorded == {t \in Tags : records[t].stem # NoTag}
OfStem(s) == {t \in Tags : records[t].stem = s /\ s # NoTag}

\* Mutant: records sorted by their time alone, not by offload_index.
IsLastByTag(l) == \A u \in OfStem(records[l].stem) : u <= l

\* Record l is the latest one, by offload_index, of the deployment offloaded most
\* recently, by the clock.
IsNewestStem(s) == \E t \in OfStem(s) : \A u \in Recorded : u <= t
IsLast(l) ==
    \A u \in OfStem(records[l].stem) :
        \/ records[u].index < records[l].index
        \/ records[u].index = records[l].index /\ u <= l

HeldFrom(r) == [stem |-> r.stem, data |-> r.sum, header |-> r.header, index |-> r.index]
Downloading(kind) == [NoDownload EXCEPT !.kind = kind]

\* Its image holds what it says, and possibly more.
Trusted(l) ==
    /\ IsNewestStem(records[l].stem) /\ IsLast(l)
    /\ IsPrefix(records[l].sum, image[records[l].stem])

\* _find_deployment finds nothing, or files it cannot trust.
FindNone ==
    /\ pc = "find" /\ ~ \E l \in Recorded : Trusted(l)
    /\ dl' = Downloading("full") /\ pc' = "open"
    /\ UNCHANGED <<logger, disk, started, tag, full, total, held, outcome>>

\* It finds one, and cuts off what an interrupted append left past its record.
FindHeld ==
    /\ pc = "find"
    /\ \E l \in Recorded :
          /\ Trusted(l)
          /\ image' = [image EXCEPT ![records[l].stem] = records[l].sum]
          /\ held' = HeldFrom(records[l])
    /\ dl' = Downloading(IF full THEN "full-verified" ELSE "incremental")
    /\ pc' = IF full THEN "open" ELSE "check"
    /\ UNCHANGED <<logger, records, parts, lost, started, tag, full, total, outcome>>

\* DeploymentMismatch: the logger holds another deployment.
NewDeployment == held' = NoDeployment

Lesser(a, b) == IF a <= b THEN a ELSE b
HeadLen(n) == Lesser(Chunk, n)
TailLen(n) == Lesser(Chunk, n - HeadLen(n))
Sampled(n) == (1..HeadLen(n)) \cup ((n - TailLen(n) + 1)..n)

\* The data cells of `mem` at places `I` are those of the held image.
SameData(mem, I) == \A i \in I \ {1} : mem[i] = held.data[i]

\* The identity check of an incremental read: head block and tail block.
SameHeld ==
    LET n == Len(held.data)
    IN  /\ total >= n
        /\ SameData(ReadData(0, n), Sampled(n))
        /\ HeaderNow = held.header \/ n > 1

CheckMismatch ==
    /\ pc = "check" /\ ~ SameHeld
    /\ NewDeployment
    /\ dl' = Downloading("full") /\ pc' = "open"
    /\ UNCHANGED <<logger, disk, started, tag, full, total, outcome>>

\* Same data under a changed header: read it all and compare it all.
CheckHeaderChanged ==
    /\ pc = "check" /\ SameHeld /\ HeaderNow # held.header
    /\ dl' = Downloading("full-verified") /\ pc' = "open"
    /\ UNCHANGED <<logger, disk, started, tag, full, total, held, outcome>>

\* Mutant: what was logged since the previous offload is not read.
CheckSameNoSegment ==
    /\ pc = "check" /\ SameHeld /\ HeaderNow = held.header
    /\ dl' = [kind |-> "incremental", data |-> held.data, offset |-> Len(held.data),
              header |-> HeaderNow]
    /\ pc' = "store"
    /\ UNCHANGED <<logger, disk, started, tag, full, total, held, outcome>>

CheckSame ==
    /\ pc = "check" /\ SameHeld /\ HeaderNow = held.header
    /\ dl' = [kind |-> "incremental", data |-> held.data, offset |-> Len(held.data),
              header |-> HeaderNow]
    /\ pc' = IF total > Len(held.data) THEN "open" ELSE "store"
    /\ UNCHANGED <<logger, disk, started, tag, full, total, held, outcome>>

-----------------------------------------------------------------------------
(* solo.download: bytes start..total into a part file.                     *)

Start == IF dl.kind = "incremental" THEN Len(held.data) ELSE 0
\* Mutant: the offset left out of the part file's name.
PartNameByStem == IF dl.kind = "incremental" THEN <<held.stem, 1>> ELSE NewPart
PartName == IF dl.kind = "incremental" THEN <<held.stem, Start>> ELSE NewPart
Part == parts[PartName]
Offset == Start + Len(Part)

\* Mutant: a partial file reused whatever its header.
ReusableUnchecked == Start > 0 \/ Part # <<>>

\* From 0 a partial file is reused only under the same header.
Reusable == Start > 0 \/ (Part # <<>> /\ SubSeq(Part, 1, 1) = HeaderNow)

\* Mutant: a partial file opened "wb", not "ab".
OpenPartAfresh ==
    /\ pc = "open"
    /\ Reusable => Offset <= total
    /\ parts' = [parts EXCEPT ![PartName] = IF Start > 0 THEN <<>> ELSE HeaderNow]
    /\ pc' = "block"
    /\ UNCHANGED <<logger, image, records, lost, started, local, outcome>>

OpenPart ==
    /\ pc = "open"
    /\ Reusable => Offset <= total
    /\ parts' = IF Reusable THEN parts ELSE [parts EXCEPT ![PartName] = HeaderNow]
    /\ pc' = "block"
    /\ UNCHANGED <<logger, image, records, lost, started, local, outcome>>

\* "partial file is longer than logger memory": the offload fails, the file stays.
PartTooLong ==
    /\ pc = "open" /\ Reusable /\ Offset > total
    /\ EndWith("failed")
    /\ UNCHANGED <<logger, disk>>

\* Mutant: off by one, the last cell is never asked for.
BlockSizeShort == Lesser(Chunk, total - Offset - 1)
BlockSize == Lesser(Chunk, total - Offset)

ReadBlock ==
    /\ pc = "block" /\ Offset < total
    /\ parts' = [parts EXCEPT ![PartName] = Part \o ReadData(Offset, BlockSize)]
    /\ UNCHANGED <<logger, image, records, lost, pc, started, local, outcome>>

\* The computer stops within a block's write.
TearBlock ==
    /\ pc = "block" /\ Offset < total
    /\ \E n \in 1..(BlockSize - 1) :
          parts' = [parts EXCEPT ![PartName] = Part \o ReadData(Offset, n)]
    /\ EndWith("stopped")
    /\ UNCHANGED <<logger, image, records, lost>>

ReceiveFull ==
    /\ pc = "block" /\ Offset = total /\ dl.kind = "full"
    /\ dl' = [kind |-> "full", data |-> Part, offset |-> 0, header |-> SubSeq(Part, 1, 1)]
    /\ pc' = "store"
    /\ UNCHANGED <<logger, disk, started, tag, full, total, held, outcome>>

ReceiveSegment ==
    /\ pc = "block" /\ Offset = total /\ dl.kind = "incremental"
    /\ dl' = [dl EXCEPT !.data = held.data \o Part]
    /\ pc' = "store"
    /\ UNCHANGED <<logger, disk, started, tag, full, total, held, outcome>>

\* Mutant: only the length of a full read is compared.
VerifiedLength == Len(Part) >= Len(held.data)

\* A full read with a deployment held: every data cell held is compared.
Verified ==
    LET n == Len(held.data)
    IN  /\ Len(Part) >= n
        /\ SameData(Part, 1..n)
        /\ SubSeq(Part, 1, 1) = held.header \/ n > 1

ReceiveVerified ==
    /\ pc = "block" /\ Offset = total /\ dl.kind = "full-verified" /\ Verified
    /\ dl' = [kind |-> "full-verified", offset |-> Len(held.data),
              data |-> held.data \o SubSeq(Part, Len(held.data) + 1, Len(Part)),
              header |-> SubSeq(Part, 1, 1)]
    /\ pc' = "store"
    /\ UNCHANGED <<logger, disk, started, tag, full, total, held, outcome>>

\* Mutant: the old deployment stays held after a mismatch.
ReceiveMismatchHeld ==
    /\ pc = "block" /\ Offset = total /\ dl.kind = "full-verified" /\ ~ Verified
    /\ dl' = [kind |-> "full", data |-> Part, offset |-> 0, header |-> SubSeq(Part, 1, 1)]
    /\ pc' = "store"
    /\ UNCHANGED <<logger, disk, started, tag, full, total, held, outcome>>

\* Another deployment after all: its bytes are at hand already (err.downloaded).
ReceiveMismatch ==
    /\ pc = "block" /\ Offset = total /\ dl.kind = "full-verified" /\ ~ Verified
    /\ NewDeployment
    /\ dl' = [kind |-> "full", data |-> Part, offset |-> 0, header |-> SubSeq(Part, 1, 1)]
    /\ pc' = "store"
    /\ UNCHANGED <<logger, disk, started, tag, full, total, outcome>>

-----------------------------------------------------------------------------
(* _store_dataset, the record, the part files, the configure step.         *)

Stem == IF held = NoDeployment THEN tag ELSE held.stem
\* Mutant: no look at the file's size.
WholeIfNew == dl.offset = 0
Whole == dl.offset = 0 \/ Len(image[Stem]) # dl.offset
Segment == SubSeq(dl.data, dl.offset + 1, Len(dl.data))

StoreWhole ==
    /\ pc = "store" /\ Whole
    /\ image' = [image EXCEPT ![Stem] = dl.data]
    /\ pc' = "record"
    /\ UNCHANGED <<logger, records, parts, lost, started, local, outcome>>

StoreAppend ==
    /\ pc = "store" /\ ~ Whole
    /\ image' = [image EXCEPT ![Stem] = image[Stem] \o Segment]
    /\ pc' = "record"
    /\ UNCHANGED <<logger, records, parts, lost, started, local, outcome>>

\* The computer stops within the append.
TearAppend ==
    /\ pc = "store" /\ ~ Whole
    /\ \E n \in 1..Len(Segment) :
          image' = [image EXCEPT ![Stem] = image[Stem] \o SubSeq(Segment, 1, n)]
    /\ EndWith("stopped")
    /\ UNCHANGED <<logger, records, parts, lost>>

\* Mutant: counts down.
NextIndexDown == IF held = NoDeployment THEN 0 ELSE held.index - 1
NextIndex == IF held = NoDeployment THEN 0 ELSE held.index + 1

\* "saved before anything is written to the logger"
WriteRecord ==
    /\ pc = "record"
    /\ records' = IF dl.data = <<>> THEN records
                  ELSE [records EXCEPT ![tag] =
                          [stem |-> Stem, index |-> NextIndex, sum |-> dl.data,
                           header |-> dl.header, ep |-> ep]]
    /\ pc' = "unlink"
    /\ UNCHANGED <<logger, image, parts, lost, started, local, outcome>>

\* "only now: all is saved"
RemovePart(p) ==
    /\ pc = "unlink" /\ parts[p] # <<>>
    /\ parts' = [parts EXCEPT ![p] = <<>>]
    /\ UNCHANGED <<logger, image, records, lost, pc, started, local, outcome>>

AllRemoved ==
    /\ pc = "unlink" /\ \A p \in PartNames : parts[p] = <<>>
    /\ pc' = "configure"
    /\ UNCHANGED <<logger, disk, started, local, outcome>>

\* The configure step erases the memory ...
EraseMemory ==
    /\ pc = "configure" /\ used > 0
    /\ used' = 0 /\ hv' = 0
    /\ pc' = "erased"
    /\ UNCHANGED <<ep, disk, started, local, outcome>>

\* ... and enables the logger for its next deployment.
EnableLogger ==
    /\ pc \in {"configure", "erased"} /\ used = 0 /\ ep < MaxEpoch
    /\ ep' = ep + 1 /\ used' = 1
    /\ pc' = "enabled"
    /\ UNCHANGED <<hv, disk, started, local, outcome>>

\* The end of the offload; with no --configure, or one that leaves the logger as it
\* is, at once.
LeaveLogger ==
    /\ pc \in {"configure", "erased", "enabled"}
    /\ EndWith("ok")
    /\ UNCHANGED <<logger, disk>>

\* Ctrl-C between two blocks, a LinkError, an unplugged cable, a stopped computer.
Interrupt ==
    /\ pc # "idle"
    /\ EndWith("stopped")
    /\ UNCHANGED <<logger, disk>>

-----------------------------------------------------------------------------
OffloadStep ==
    \/ FindNone \/ FindHeld
    \/ CheckMismatch \/ CheckHeaderChanged \/ CheckSame
    \/ OpenPart \/ PartTooLong \/ ReadBlock
    \/ ReceiveFull \/ ReceiveSegment \/ ReceiveVerified \/ ReceiveMismatch
    \/ StoreWhole \/ StoreAppend \/ WriteRecord
    \/ \E p \in PartNames : RemovePart(p)
    \/ AllRemoved \/ EraseMemory \/ EnableLogger \/ LeaveLogger

Environment ==
    \/ Log \/ EraseElsewhere \/ EnableElsewhere \/ ChangeHeader
    \/ \E s \in Tags : DamageImage(s)

Next ==
    \/ \E t \in Tags, f \in BOOLEAN : Begin(t, f)
    \/ OffloadStep
    \/ TearBlock \/ TearAppend \/ Interrupt
    \/ Environment

\* Only the program's own steps are fair: a begun offload goes on until it ends.
Spec == Init /\ [][Next]_vars
FairSpec == Spec /\ WF_vars(OffloadStep)
-----------------------------------------------------------------------------
(* Correctness.                                                            *)

\* The first n cells of `file` are those of deployment e's memory, the header in
\* either version.
IsMemoryOf(file, e) ==
    \A i \in 1..Len(file) : \E v \in 0..1 : file[i] = MemCell(e, v, i)

\* Every record's checksum describes a prefix of its deployment's image, whatever was
\* cut off, torn or appended since (_store_dataset's docstring), for every image that
\* nobody else has damaged.
RecordsDescribePrefixes ==
    \A t \in Recorded : records[t].stem \notin lost =>
        IsPrefix(records[t].sum, image[records[t].stem])

\* What a record describes is the memory of the deployment that was on the logger at
\* that offload, from its first cell and without a gap, and of no other one: not of a
\* deployment whose partial file was resumed, nor of one whose image was extended.
RecordsAreTrue ==
    \A t \in Recorded : IsMemoryOf(records[t].sum, records[t].ep)

\* Two records share a stem only if they are of one deployment of the logger: an
\* erased and re-enabled logger never extends the old deployment's file.
DeploymentsNotMerged ==
    \A t, u \in Recorded :
        records[t].stem = records[u].stem => records[t].ep = records[u].ep

\* The offloads of a deployment are numbered without repetition, and a later number
\* never describes less: _find_deployment may trust the last one to be the longest.
RecordsInOrder ==
    \A t, u \in Recorded :
        (t # u /\ records[t].stem = records[u].stem) =>
            /\ records[t].index # records[u].index
            /\ records[t].index < records[u].index =>
                  IsPrefix(records[t].sum, records[u].sum)

\* No offload ends in "partial file is longer than logger memory": a state the tool
\* would not leave by itself, the file being there again at the next offload.
NeverStuckOnPart == outcome # "failed"

\* The first n cells of deployment e's memory are on disk: an offload of e recorded
\* them, what it recorded is e's memory and no other, and is in the image still.
Saved(e, n) ==
    \E t \in Recorded : /\ records[t].ep = e /\ Len(records[t].sum) >= n
                        /\ IsMemoryOf(records[t].sum, e)
                        /\ IsPrefix(records[t].sum, image[records[t].stem])

\* The configure step erases only what is on disk: every cell of the snapshot, and no
\* other deployment's in its place, is in an image and a record describes it, unless an
\* image was damaged from outside.
EraseOnlySaved ==
    [][(pc = "configure" /\ used > 0 /\ used' = 0)
         => (Saved(ep, total) \/ total = 0 \/ lost # {})]_vars

\* Cells already downloaded to a part file are let go only when they are on disk in
\* an image and its record, or the logger holds something else by now: interrupted
\* offloads resume, they never start over.
PartialBytesKept ==
    [][\A p \in PartNames :
         (Len(parts'[p]) < Len(parts[p]) /\ total > 0)
            => \/ Saved(ep, IF p = NewPart THEN Len(parts[p]) ELSE p[2] + Len(parts[p]))
               \/ p = NewPart /\ SubSeq(parts[p], 1, 1) # HeaderNow
               \/ \E t \in OfStem(p[1]) : records[t].ep # ep
               \/ lost # {}]_vars

\* Once stored, the file is exactly the dataset, even if the image was damaged after
\* _find_deployment had checked it.
StoreMakesWhole ==
    [][(pc = "store" /\ pc' = "record") => image'[Stem] = dl.data]_vars

\* An offload that finds something in memory ends with all of it on disk, unless it is
\* cut short.
OffloadSaves ==
    \A n \in 1..MaxLen, e \in Epochs :
        (pc = "find" /\ total = n /\ ep = e)
            ~> (Saved(e, n) \/ outcome = "stopped" \/ lost # {})

\* What is on disk of deployment e.
OnDisk(e) == Max({0} \cup {n \in 1..MaxLen : Saved(e, n)})

\* The store keeps the archive's promise, as long as nobody else damages its files.
Archive == INSTANCE DeploymentArchive
    WITH attached <- (pc # "idle"), promised <- total,
         saved <- [e \in Epochs |-> OnDisk(e)]
ImplementsArchive == Archive!Spec
=============================================================================
