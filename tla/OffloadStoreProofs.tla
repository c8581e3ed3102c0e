------------------------- MODULE OffloadStoreProofs -------------------------
(***************************************************************************)
(* Theorems about OffloadStore, for every value of its constants.          *)
(***************************************************************************)
EXTENDS OffloadStore, PrefixLemmas, FiniteSetTheorems

(* What holds of the variables of an offload in progress.                  *)

\* A tag is the offload's own: nothing on disk bears it before its record is written.
\* And no record, so no deployment held, describes an empty image.
TagIsFresh ==
    /\ \A t \in Recorded :
          t \in started /\ records[t].stem \in started /\ records[t].sum # <<>>
    /\ pc = "idle" => dl = NoDownload /\ held = NoDeployment
    /\ held # NoDeployment => held.stem \in started /\ held.data # <<>>
    /\ pc \in {"find", "check", "open", "block", "store"} => tag \in Tags
    /\ (pc = "record" /\ dl.data # <<>>) => tag \in Tags
    /\ (pc \in {"find", "check", "open", "block", "store"}
        \/ (pc = "record" /\ dl.data # <<>>))
         => /\ tag \in started /\ tag \notin Recorded
            /\ \A t \in Recorded : records[t].stem # tag

\* The deployment held is the one on disk, and its image is the one it was read as,
\* unless it was damaged since.
HeldIsOnDisk ==
    (pc \in {"check", "open", "block", "store", "record"} /\ held # NoDeployment)
        => /\ \A t \in OfStem(held.stem) :
                 /\ IsPrefix(records[t].sum, held.data)
                 /\ records[t].index <= held.index
           /\ (held.stem \notin lost /\ pc # "record") => image[held.stem] = held.data

\* What is downloaded extends what is held.
DownloadExtendsHeld ==
    /\ pc \in {"find", "check", "open", "block"} => total > 0
    /\ pc = "find" => held = NoDeployment /\ dl = NoDownload
    /\ pc = "check" => held # NoDeployment
    /\ pc \in {"open", "block"} => (dl.kind = "full" <=> held = NoDeployment) /\ dl.kind # "none"
    /\ (pc \in {"open", "block"} /\ dl.kind = "incremental")
         => dl.offset = Len(held.data) /\ Len(held.data) \in 1..MaxLen
    /\ pc = "store" =>
         IF held = NoDeployment THEN dl.offset = 0
         ELSE dl.offset = Len(held.data) /\ IsPrefix(held.data, dl.data)
    /\ (pc = "record" /\ held # NoDeployment) => IsPrefix(held.data, dl.data)
    /\ (pc = "record" /\ dl.data # <<>> /\ Stem \notin lost) => image[Stem] = dl.data

IInv ==
    /\ TypeOK
    /\ RecordsDescribePrefixes
    /\ RecordsInOrder
    /\ TagIsFresh
    /\ HeldIsOnDisk
    /\ DownloadExtendsHeld

-----------------------------------------------------------------------------
(* Types of the operators the actions are built from.                      *)

LEMMA TypeOfConstants ==
    /\ MaxLen \in Nat /\ MaxTag \in Nat /\ MaxEpoch \in Nat /\ Chunk \in Nat \ {0}
    /\ NoTag \notin Tags /\ NewPart \in PartNames
    /\ <<>> \in Bytes
    /\ NoDeployment \notin Deployment /\ NoDownload \in Downloaded
    /\ \A r \in Record : r.stem # NoTag
<1>1. NoTag \notin Tags
  BY DEF NoTag, Tags
<1>2. <<>> \in Bytes
  BY DEF Bytes
<1>3. NoDeployment \notin Deployment
  BY <1>1 DEF NoDeployment, Deployment
<1>4. NoDownload \in Downloaded
  BY <1>2 DEF NoDownload, Downloaded
<1>5. \A r \in Record : r.stem # NoTag
  BY <1>1 DEF Record
<1> QED
  BY <1>1, <1>2, <1>3, <1>4, <1>5, StoreAssumption DEF PartNames, StoreAssumption

LEMMA TypeOfReadData ==
    ASSUME TypeOK, NEW o \in Nat, NEW n \in Nat
    PROVE  ReadData(o, n) \in Bytes /\ Len(ReadData(o, n)) = n
<1>1. ASSUME NEW i \in 1..n PROVE MemCell(ep, hv, o + i) \in Cell
  <2>1. o + i \in Nat /\ ep \in Nat /\ hv \in Nat /\ HeaderOf[ep] \in Nat
    BY StoreAssumption DEF TypeOK, Epochs, StoreAssumption
  <2> QED
    BY <2>1 DEF MemCell, Cell
<1>2. ReadData(o, n) \in [1..n -> Cell]
  BY <1>1 DEF ReadData
<1> QED
  BY <1>2 DEF Bytes

\* A part of a file is a file.
LEMMA TypeOfSubSeq ==
    ASSUME NEW s \in Bytes, NEW m \in Nat \ {0}, NEW n \in 0..Len(s)
    PROVE  SubSeq(s, m, n) \in Bytes
  BY DEF Bytes

LEMMA TypeOfPart ==
    ASSUME TypeOK, DownloadExtendsHeld, pc \in {"open", "block"}
    PROVE  PartName \in PartNames /\ Part \in Bytes /\ Start \in Nat /\ Offset \in Nat
<1>1. CASE dl.kind = "incremental"
  <2>1. held \in Deployment /\ Len(held.data) \in 1..MaxLen
    BY <1>1 DEF DownloadExtendsHeld, TypeOK
  <2>2. held.stem \in Tags
    BY <2>1 DEF Deployment
  <2>3. PartName \in PartNames /\ Start \in Nat
    BY <1>1, <2>1, <2>2, TypeOfConstants DEF PartName, Start, PartNames
  <2>4. Part \in Bytes
    BY <2>3 DEF Part, TypeOK
  <2> QED
    BY <2>3, <2>4 DEF Offset, Bytes
<1>2. CASE dl.kind # "incremental"
  <2>1. PartName \in PartNames /\ Start = 0
    BY <1>2, TypeOfConstants DEF PartName, Start
  <2>2. Part \in Bytes
    BY <2>1 DEF Part, TypeOK
  <2> QED
    BY <2>1, <2>2 DEF Offset, Bytes
<1> QED
  BY <1>1, <1>2

-----------------------------------------------------------------------------
(* Every step keeps the types.                                             *)

LEMMA EndWithType ==
    ASSUME TypeOK, NEW how \in {"ok", "stopped", "failed"}, EndWith(how)
    PROVE  /\ pc' = "idle" /\ outcome' \in {"none", "ok", "stopped", "failed"}
           /\ started' \subseteq Tags /\ tag' \in Tags \cup {NoTag} /\ full' \in BOOLEAN
           /\ total' \in 0..MaxLen
           /\ held' \in Deployment \cup {NoDeployment} /\ dl' \in Downloaded
<1>1. 0 \in 0..MaxLen /\ NoDownload \in Downloaded
  BY TypeOfConstants
<1>2. started' \subseteq Tags
  BY DEF EndWith, TypeOK
<1> QED
  BY <1>1, <1>2 DEF EndWith

LEMMA TypeEnvironment ==
    ASSUME TypeOK, Environment
    PROVE  TypeOK'
<1>1. CASE Log
  BY <1>1, TypeOfConstants DEF Log, TypeOK, disk, local
<1>2. CASE EraseElsewhere
  BY <1>2, TypeOfConstants DEF EraseElsewhere, TypeOK, disk, local
<1>3. CASE EnableElsewhere
  BY <1>3, StoreAssumption DEF EnableElsewhere, TypeOK, disk, local, Epochs, StoreAssumption
<1>4. CASE ChangeHeader
  BY <1>4 DEF ChangeHeader, TypeOK, disk, local
<1>5. ASSUME NEW s \in Tags, DamageImage(s) PROVE TypeOK'
  <2>1. PICK n \in 0..(Len(image[s]) - 1) : image' = [image EXCEPT ![s] = SubSeq(image[s], 1, n)]
    BY <1>5 DEF DamageImage
  <2>2. SubSeq(image[s], 1, n) \in Bytes
    BY <2>1 DEF TypeOK, Bytes
  <2>3. image' \in [Tags -> Bytes]
    BY <2>1, <2>2 DEF TypeOK
  <2> QED
    BY <1>5, <2>3 DEF DamageImage, TypeOK, logger, local
<1> QED
  BY <1>1, <1>2, <1>3, <1>4, <1>5 DEF Environment

LEMMA TypeBegin ==
    ASSUME TypeOK, NEW t \in Tags, NEW f \in BOOLEAN, Begin(t, f)
    PROVE  TypeOK'
  BY DEF Begin, TypeOK, logger, disk

LEMMA TypeFindAndCheck ==
    ASSUME TypeOK,
           FindNone \/ FindHeld \/ CheckMismatch \/ CheckHeaderChanged \/ CheckSame
    PROVE  TypeOK'
<1>1. ASSUME NEW k \in {"full", "incremental", "full-verified"}
      PROVE  Downloading(k) \in Downloaded
  BY TypeOfConstants DEF Downloading, NoDownload, Downloaded
<1>2. CASE FindNone
  BY <1>1, <1>2 DEF FindNone, TypeOK, logger, disk
<1>3. CASE FindHeld
  <2>1. PICK l \in Recorded :
           /\ image' = [image EXCEPT ![records[l].stem] = records[l].sum]
           /\ held' = HeldFrom(records[l])
    BY <1>3 DEF FindHeld
  <2>2. records[l] \in Record
    BY <2>1 DEF Recorded, TypeOK, NoRecord, NoTag
  <2>3. held' \in Deployment /\ image' \in [Tags -> Bytes]
    BY <2>1, <2>2 DEF HeldFrom, Deployment, Record, TypeOK
  <2> QED
    BY <1>1, <1>3, <2>3 DEF FindHeld, TypeOK, logger
<1>4. CASE CheckMismatch
  BY <1>1, <1>4 DEF CheckMismatch, NewDeployment, TypeOK, logger, disk
<1>5. CASE CheckHeaderChanged
  BY <1>1, <1>5 DEF CheckHeaderChanged, TypeOK, logger, disk
<1>6. CASE CheckSame
  <2>1. held.data \in Bytes
    BY TypeOfConstants DEF TypeOK, Deployment, NoDeployment
  <2>2. HeaderNow \in Bytes
    BY TypeOfReadData DEF HeaderNow
  <2>3. Len(held.data) \in Nat
    BY <2>1 DEF Bytes
  <2>4. dl' \in Downloaded
    BY <1>6, <2>1, <2>2, <2>3 DEF CheckSame, Downloaded
  <2> QED
    BY <1>6, <2>4 DEF CheckSame, TypeOK, logger, disk
<1> QED
  BY <1>2, <1>3, <1>4, <1>5, <1>6

LEMMA TypeDownload ==
    ASSUME TypeOK, DownloadExtendsHeld,
           OpenPart \/ PartTooLong \/ ReadBlock \/ TearBlock
             \/ ReceiveFull \/ ReceiveSegment \/ ReceiveVerified \/ ReceiveMismatch
    PROVE  TypeOK'
<1>1. pc \in {"open", "block"}
  BY DEF OpenPart, PartTooLong, ReadBlock, TearBlock, ReceiveFull, ReceiveSegment,
         ReceiveVerified, ReceiveMismatch
<1>2. PartName \in PartNames /\ Part \in Bytes /\ Start \in Nat /\ Offset \in Nat
  BY <1>1, TypeOfPart
<1>3. HeaderNow \in Bytes
  BY TypeOfReadData DEF HeaderNow
<1>4. held.data \in Bytes
  BY TypeOfConstants DEF TypeOK, Deployment, NoDeployment
<1>5. ASSUME pc = "block", Offset = total, dl.kind # "incremental"
      PROVE  SubSeq(Part, 1, 1) \in Bytes
  <2>1. Len(Part) = total /\ total > 0
    BY <1>2, <1>5 DEF Offset, Start, DownloadExtendsHeld, Bytes
  <2> QED
    BY <1>2, <2>1 DEF Bytes
<1>6. ASSUME NEW n \in Nat PROVE Part \o ReadData(Offset, n) \in Bytes
  <2>1. ReadData(Offset, n) \in Bytes
    BY <1>2, TypeOfReadData
  <2> QED
    BY <1>2, <2>1 DEF Bytes
<1>7. ASSUME NEW b \in Bytes PROVE [parts EXCEPT ![PartName] = b] \in [PartNames -> Bytes]
  BY <1>2 DEF TypeOK
<1>8. CASE OpenPart
  BY <1>3, <1>7, <1>8 DEF OpenPart, TypeOK, logger, local
<1>9. CASE PartTooLong
  BY <1>9, EndWithType DEF PartTooLong, TypeOK, logger, disk
<1>10. CASE ReadBlock
  <2>1. BlockSize \in Nat
    BY <1>2, <1>10, TypeOfConstants DEF ReadBlock, BlockSize, Lesser, TypeOK
  <2> QED
    BY <1>6, <1>7, <1>10, <2>1 DEF ReadBlock, TypeOK, logger, local
<1>11. CASE TearBlock
  <2>1. parts' \in [PartNames -> Bytes]
    BY <1>6, <1>7, <1>11 DEF TearBlock
  <2> QED
    BY <1>11, <2>1, EndWithType DEF TearBlock, TypeOK, logger
<1>12. CASE ReceiveFull
  <2>1. dl' \in Downloaded
    BY <1>2, <1>5, <1>12 DEF ReceiveFull, Downloaded
  <2> QED
    BY <1>12, <2>1 DEF ReceiveFull, TypeOK, logger, disk
<1>13. CASE ReceiveSegment
  <2>1. held.data \o Part \in Bytes
    BY <1>2, <1>4 DEF Bytes
  <2>2. dl' \in Downloaded
    BY <1>13, <2>1 DEF ReceiveSegment, TypeOK, Downloaded
  <2> QED
    BY <1>13, <2>2 DEF ReceiveSegment, TypeOK, logger, disk
<1>14. CASE ReceiveVerified
  <2>1. Len(held.data) \in Nat /\ Len(held.data) <= Len(Part)
    BY <1>4, <1>14 DEF ReceiveVerified, Verified, Bytes
  <2>2. SubSeq(Part, Len(held.data) + 1, Len(Part)) \in Bytes
    BY <1>2, <2>1 DEF Bytes
  <2>3. held.data \o SubSeq(Part, Len(held.data) + 1, Len(Part)) \in Bytes
    BY <1>4, <2>2 DEF Bytes
  <2>4. dl' \in Downloaded
    BY <1>5, <1>14, <2>1, <2>3 DEF ReceiveVerified, Downloaded
  <2> QED
    BY <1>14, <2>4 DEF ReceiveVerified, TypeOK, logger, disk
<1>15. CASE ReceiveMismatch
  <2>1. dl' \in Downloaded
    BY <1>2, <1>5, <1>15 DEF ReceiveMismatch, Downloaded
  <2> QED
    BY <1>15, <2>1 DEF ReceiveMismatch, NewDeployment, TypeOK, logger, disk
<1> QED
  BY <1>8, <1>9, <1>10, <1>11, <1>12, <1>13, <1>14, <1>15

LEMMA TypeOfStem ==
    ASSUME TypeOK, TagIsFresh,
           pc = "store" \/ (pc = "record" /\ dl.data # <<>>)
    PROVE  Stem \in Tags /\ NextIndex \in Nat
<1>1. tag \in Tags
  BY DEF TagIsFresh
<1>2. CASE held = NoDeployment
  BY <1>1, <1>2 DEF Stem, NextIndex
<1>3. CASE held # NoDeployment
  BY <1>3 DEF Stem, NextIndex, TypeOK, Deployment
<1> QED
  BY <1>2, <1>3

LEMMA TypeStore ==
    ASSUME TypeOK, TagIsFresh, DownloadExtendsHeld,
           StoreWhole \/ StoreAppend \/ TearAppend \/ WriteRecord
    PROVE  TypeOK'
<1>1. dl.data \in Bytes /\ dl.offset \in Nat /\ dl.header \in Bytes
  BY DEF TypeOK, Downloaded
<1>2. CASE StoreWhole
  <2>1. image' \in [Tags -> Bytes]
    BY <1>1, <1>2 DEF StoreWhole, TypeOK
  <2> QED
    BY <1>2, <2>1 DEF StoreWhole, TypeOK, logger, local
<1>3. ASSUME NEW n \in 0..Len(Segment), pc = "store"
      PROVE  image[Stem] \o SubSeq(Segment, 1, n) \in Bytes /\ image[Stem] \o Segment \in Bytes
  <2>1. image[Stem] \in Bytes
    BY <1>3, TypeOfStem DEF TypeOK
  <2>2. Segment \in Bytes
    BY <1>1 DEF Segment, Bytes
  <2>3. SubSeq(Segment, 1, n) \in Bytes
    BY <2>2 DEF Bytes
  <2> QED
    BY <2>1, <2>2, <2>3 DEF Bytes
<1>4. CASE StoreAppend
  <2>1. Segment \in Bytes
    BY <1>1 DEF Segment, Bytes
  <2>2. 0 \in 0..Len(Segment)
    BY <2>1 DEF Bytes
  <2>3. image' \in [Tags -> Bytes]
    BY <1>3, <1>4, <2>2 DEF StoreAppend, TypeOK
  <2> QED
    BY <1>4, <2>3 DEF StoreAppend, TypeOK, logger, local
<1>5. CASE TearAppend
  <2>1. PICK n \in 1..Len(Segment) :
           image' = [image EXCEPT ![Stem] = image[Stem] \o SubSeq(Segment, 1, n)]
    BY <1>5 DEF TearAppend
  <2>2. image[Stem] \o SubSeq(Segment, 1, n) \in Bytes
    BY <1>3, <1>5 DEF TearAppend
  <2>3. image' \in [Tags -> Bytes]
    BY <2>1, <2>2 DEF TypeOK
  <2> QED
    BY <1>5, <2>3, EndWithType DEF TearAppend, TypeOK, logger
<1>6. CASE WriteRecord
  <2>1. CASE dl.data = <<>>
    BY <1>6, <2>1 DEF WriteRecord, TypeOK, logger, local
  <2>2. CASE dl.data # <<>>
    <3>1. Stem \in Tags /\ NextIndex \in Nat
      BY <1>6, <2>2, TypeOfStem DEF WriteRecord
    <3>2. [stem |-> Stem, index |-> NextIndex, sum |-> dl.data,
           header |-> dl.header, ep |-> ep] \in Record
      BY <1>1, <3>1 DEF Record, TypeOK
    <3>3. records' \in [Tags -> Record \cup {NoRecord}]
      BY <1>6, <2>2, <3>2 DEF WriteRecord, TypeOK
    <3> QED
      BY <1>6, <3>3 DEF WriteRecord, TypeOK, logger, local
  <2> QED
    BY <2>1, <2>2
<1> QED
  BY <1>2, <1>4, <1>5, <1>6

LEMMA TypeEnd ==
    ASSUME TypeOK,
           \/ \E p \in PartNames : RemovePart(p)
           \/ AllRemoved \/ EraseMemory \/ EnableLogger \/ LeaveLogger \/ Interrupt
    PROVE  TypeOK'
<1>1. ASSUME NEW p \in PartNames, RemovePart(p) PROVE TypeOK'
  BY <1>1, TypeOfConstants DEF RemovePart, TypeOK, logger, local
<1>2. CASE AllRemoved
  BY <1>2 DEF AllRemoved, TypeOK, logger, disk, local
<1>3. CASE EraseMemory
  BY <1>3, TypeOfConstants DEF EraseMemory, TypeOK, disk, local
<1>4. CASE EnableLogger
  BY <1>4, StoreAssumption DEF EnableLogger, TypeOK, disk, local, Epochs, StoreAssumption
<1>5. CASE LeaveLogger
  BY <1>5, EndWithType DEF LeaveLogger, TypeOK, logger, disk
<1>6. CASE Interrupt
  BY <1>6, EndWithType DEF Interrupt, TypeOK, logger, disk
<1> QED
  BY <1>1, <1>2, <1>3, <1>4, <1>5, <1>6

LEMMA TypeStep ==
    ASSUME TypeOK, TagIsFresh, DownloadExtendsHeld, [Next]_vars
    PROVE  TypeOK'
<1>1. CASE UNCHANGED vars
  BY <1>1 DEF vars, TypeOK
<1>2. ASSUME NEW t \in Tags, NEW f \in BOOLEAN, Begin(t, f) PROVE TypeOK'
  BY <1>2, TypeBegin
<1>3. CASE OffloadStep
  BY <1>3, TypeFindAndCheck, TypeDownload, TypeStore, TypeEnd DEF OffloadStep
<1>4. CASE TearBlock \/ TearAppend \/ Interrupt
  BY <1>4, TypeDownload, TypeStore, TypeEnd
<1>5. CASE Environment
  BY <1>5, TypeEnvironment
<1> QED
  BY <1>1, <1>2, <1>3, <1>4, <1>5 DEF Next

-----------------------------------------------------------------------------
(* Every step keeps each record a prefix of its image, and the records of  *)
(* a deployment in order.                                                  *)

FilesInOrder == RecordsDescribePrefixes /\ RecordsInOrder

\* A step that leaves the records, and the images nobody damaged, alone.
LEMMA FilesKept ==
    ASSUME FilesInOrder, records' = records, lost \subseteq lost',
           \A t \in Recorded : records[t].stem \notin lost' =>
              image'[records[t].stem] = image[records[t].stem]
    PROVE  FilesInOrder'
<1>1. Recorded' = Recorded
  BY DEF Recorded
<1> QED
  BY <1>1 DEF FilesInOrder, RecordsDescribePrefixes, RecordsInOrder

LEMMA TypeOfRecord ==
    ASSUME TypeOK, NEW t \in Recorded
    PROVE  /\ records[t] \in Record /\ records[t].stem \in Tags /\ records[t].index \in Nat
           /\ records[t].sum \in Bytes /\ image[records[t].stem] \in Bytes
           /\ t \in OfStem(records[t].stem)
<1>1. records[t] \in Record /\ t \in Tags /\ records[t].stem # NoTag
  BY DEF Recorded, TypeOK, NoRecord
<1> QED
  BY <1>1 DEF Record, TypeOK, OfStem

\* Of a deployment's records the one _find_deployment takes describes the most.
LEMMA LastIsLongest ==
    ASSUME TypeOK, FilesInOrder, NEW l \in Recorded, IsLast(l),
           NEW t \in OfStem(records[l].stem)
    PROVE  records[t].index <= records[l].index /\ IsPrefix(records[t].sum, records[l].sum)
<1>1. t \in Recorded /\ records[t].stem = records[l].stem
  BY DEF OfStem, Recorded
<1>2. CASE t = l
  BY <1>2, TypeOfRecord, PrefixReflexive DEF Bytes
<1>3. CASE t # l
  <2>1. records[t].index < records[l].index
    BY <1>1, <1>3 DEF FilesInOrder, RecordsInOrder, IsLast
  <2>2. IsPrefix(records[t].sum, records[l].sum)
    BY <1>1, <1>3, <2>1 DEF FilesInOrder, RecordsInOrder
  <2> QED
    BY <1>1, <2>1, <2>2, TypeOfRecord
<1> QED
  BY <1>2, <1>3

LEMMA FilesFind ==
    ASSUME TypeOK, FilesInOrder, FindHeld
    PROVE  FilesInOrder'
<1>1. PICK l \in Recorded :
         /\ IsLast(l)
         /\ image' = [image EXCEPT ![records[l].stem] = records[l].sum]
  BY DEF FindHeld, Trusted
<1>2. records' = records /\ lost' = lost /\ Recorded' = Recorded
  BY DEF FindHeld, Recorded
<1>3. ASSUME NEW t \in Recorded, records[t].stem \notin lost
      PROVE  IsPrefix(records[t].sum, image'[records[t].stem])
  <2>1. CASE records[t].stem = records[l].stem
    <3>1. t \in OfStem(records[l].stem)
      BY <2>1, TypeOfRecord
    <3>2. image'[records[t].stem] = records[l].sum
      BY <1>1, <2>1, TypeOfRecord DEF TypeOK
    <3> QED
      BY <1>1, <3>1, <3>2, LastIsLongest
  <2>2. CASE records[t].stem # records[l].stem
    <3>1. image'[records[t].stem] = image[records[t].stem]
      BY <1>1, <2>2, TypeOfRecord DEF TypeOK
    <3> QED
      BY <1>3, <3>1 DEF FilesInOrder, RecordsDescribePrefixes
  <2> QED
    BY <2>1, <2>2
<1> QED
  BY <1>2, <1>3 DEF FilesInOrder, RecordsDescribePrefixes, RecordsInOrder

LEMMA FilesImage ==
    ASSUME TypeOK, FilesInOrder, TagIsFresh, HeldIsOnDisk, pc = "store",
           records' = records, lost' = lost,
           NEW b \in Bytes, image' = [image EXCEPT ![Stem] = b],
           (held # NoDeployment /\ Stem \notin lost) => IsPrefix(held.data, b)
    PROVE  FilesInOrder'
<1>1. Recorded' = Recorded
  BY DEF Recorded
<1>2. ASSUME NEW t \in Recorded, records[t].stem \notin lost
      PROVE  IsPrefix(records[t].sum, image'[records[t].stem])
  <2>1. CASE records[t].stem # Stem
    <3>1. image'[records[t].stem] = image[records[t].stem]
      BY <2>1, TypeOfRecord DEF TypeOK
    <3> QED
      BY <1>2, <3>1 DEF FilesInOrder, RecordsDescribePrefixes
  <2>2. CASE records[t].stem = Stem
    <3>1. image'[records[t].stem] = b
      BY <2>2, TypeOfRecord DEF TypeOK
    <3>2. held # NoDeployment /\ held.stem = Stem
      BY <2>2 DEF Stem, TagIsFresh
    <3>3. t \in OfStem(held.stem)
      BY <2>2, <3>2, TypeOfRecord
    <3>4. IsPrefix(records[t].sum, held.data)
      BY <3>2, <3>3 DEF HeldIsOnDisk
    <3>5. IsPrefix(held.data, b)
      BY <1>2, <2>2, <3>2
    <3>6. records[t].sum \in Bytes /\ held.data \in Bytes
      BY <3>2, TypeOfRecord DEF TypeOK, Deployment
    <3> QED
      BY <3>1, <3>4, <3>5, <3>6, PrefixTransitive DEF Bytes
  <2> QED
    BY <2>1, <2>2
<1> QED
  BY <1>1, <1>2 DEF FilesInOrder, RecordsDescribePrefixes, RecordsInOrder

\* An append starts from the image as it was held.
LEMMA AppendToHeld ==
    ASSUME TypeOK, HeldIsOnDisk, DownloadExtendsHeld, pc = "store", ~ Whole
    PROVE  /\ held # NoDeployment /\ Stem = held.stem /\ held.stem \in Tags
           /\ held.data \in Bytes /\ dl.offset = Len(held.data)
           /\ IsPrefix(held.data, dl.data)
           /\ Stem \notin lost => image[Stem] = held.data
<1>1. held # NoDeployment
  BY DEF Whole, DownloadExtendsHeld
<1>2. held \in Deployment
  BY <1>1 DEF TypeOK
<1> QED
  BY <1>1, <1>2 DEF Stem, HeldIsOnDisk, DownloadExtendsHeld, Deployment

LEMMA FilesStore ==
    ASSUME TypeOK, FilesInOrder, TagIsFresh, HeldIsOnDisk, DownloadExtendsHeld,
           StoreWhole \/ StoreAppend \/ TearAppend
    PROVE  FilesInOrder'
<1>1. dl.data \in Bytes /\ Segment \in Bytes
  BY DEF TypeOK, Downloaded, Segment, Bytes
<1>2. CASE StoreWhole
  <2>1. held # NoDeployment => IsPrefix(held.data, dl.data)
    BY <1>2 DEF StoreWhole, DownloadExtendsHeld
  <2> QED
    BY <1>1, <1>2, <2>1, FilesImage DEF StoreWhole
<1>3. ASSUME pc = "store", ~ Whole, records' = records, lost' = lost,
             NEW r \in Bytes, image' = [image EXCEPT ![Stem] = image[Stem] \o r]
      PROVE  FilesInOrder'
  <2>1. image[Stem] \in Bytes
    BY <1>3, AppendToHeld DEF TypeOK
  <2>2. image[Stem] \o r \in Bytes /\ IsPrefix(image[Stem], image[Stem] \o r)
    BY <1>3, <2>1, PrefixAppend DEF Bytes
  <2> QED
    BY <1>3, <2>2, AppendToHeld, FilesImage
<1>4. CASE StoreAppend
  BY <1>1, <1>3, <1>4 DEF StoreAppend
<1>5. CASE TearAppend
  <2>1. PICK n \in 1..Len(Segment) :
           image' = [image EXCEPT ![Stem] = image[Stem] \o SubSeq(Segment, 1, n)]
    BY <1>5 DEF TearAppend
  <2>2. SubSeq(Segment, 1, n) \in Bytes
    BY <1>1, <2>1 DEF Bytes
  <2> QED
    BY <1>3, <1>5, <2>1, <2>2 DEF TearAppend
<1> QED
  BY <1>2, <1>4, <1>5

LEMMA FilesRecord ==
    ASSUME TypeOK, FilesInOrder, TagIsFresh, HeldIsOnDisk, DownloadExtendsHeld, WriteRecord
    PROVE  FilesInOrder'
<1>1. CASE dl.data = <<>>
  BY <1>1, FilesKept DEF WriteRecord
<1>2. CASE dl.data # <<>>
  <2> DEFINE r == [stem |-> Stem, index |-> NextIndex, sum |-> dl.data,
                   header |-> dl.header, ep |-> ep]
  <2>1. /\ pc = "record" /\ image' = image /\ lost' = lost
        /\ records' = [records EXCEPT ![tag] = r]
    BY <1>2 DEF WriteRecord
  <2>2. /\ tag \in Tags /\ tag \notin Recorded /\ Stem \in Tags /\ NextIndex \in Nat
        /\ \A t \in Recorded : records[t].stem # tag
    BY <1>2, <2>1, TypeOfStem DEF TagIsFresh
  <2>3. records'[tag] = r /\ \A t \in Recorded : t # tag /\ records'[t] = records[t]
    BY <2>1, <2>2 DEF TypeOK, Recorded
  <2>4. Recorded' = Recorded \cup {tag}
    <3>1. r.stem # NoTag
      BY <2>2, TypeOfConstants
    <3> QED
      BY <2>1, <2>2, <3>1 DEF Recorded, TypeOK
  <2>5. dl.data \in Bytes
    BY DEF TypeOK, Downloaded
  <2>6. r.stem \notin lost => IsPrefix(r.sum, image[r.stem])
    BY <1>2, <2>1, <2>5, PrefixReflexive DEF DownloadExtendsHeld, Bytes
  <2>7. ASSUME NEW t \in Recorded, records[t].stem = r.stem
        PROVE  records[t].index < r.index /\ IsPrefix(records[t].sum, r.sum)
    <3>1. held # NoDeployment /\ held.stem = r.stem /\ held \in Deployment
      BY <2>2, <2>7 DEF Stem, TypeOK
    <3>2. t \in OfStem(held.stem)
      BY <2>7, <3>1, TypeOfRecord
    <3>3. IsPrefix(records[t].sum, held.data) /\ records[t].index <= held.index
      BY <2>1, <3>1, <3>2 DEF HeldIsOnDisk
    <3>4. IsPrefix(held.data, r.sum) /\ r.index = held.index + 1
      BY <2>1, <3>1 DEF DownloadExtendsHeld, NextIndex
    <3>5. held.data \in Bytes /\ held.index \in Nat
      BY <3>1 DEF Deployment
    <3> QED
      BY <2>5, <3>3, <3>4, <3>5, TypeOfRecord, PrefixTransitive DEF Bytes
  <2>8. r.index \in Nat /\ \A t \in Recorded : records[t].index \in Nat
    BY <2>2, TypeOfRecord
  <2> HIDE DEF r
  <2>9. RecordsDescribePrefixes'
    BY <2>1, <2>3, <2>4, <2>6 DEF FilesInOrder, RecordsDescribePrefixes
  <2>10. RecordsInOrder'
    BY <2>3, <2>4, <2>7, <2>8 DEF FilesInOrder, RecordsInOrder
  <2> QED
    BY <2>9, <2>10 DEF FilesInOrder
<1> QED
  BY <1>1, <1>2

LEMMA FilesStep ==
    ASSUME TypeOK, FilesInOrder, TagIsFresh, HeldIsOnDisk, DownloadExtendsHeld, [Next]_vars
    PROVE  FilesInOrder'
<1>1. CASE FindHeld
  BY <1>1, FilesFind
<1>2. CASE StoreWhole \/ StoreAppend \/ TearAppend
  BY <1>2, FilesStore
<1>3. CASE WriteRecord
  BY <1>3, FilesRecord
<1>4. ASSUME NEW s \in Tags, DamageImage(s) PROVE FilesInOrder'
  <2>1. records' = records /\ lost' = lost \cup {s}
    BY <1>4 DEF DamageImage
  <2>2. \A u \in Tags : u # s => image'[u] = image[u]
    BY <1>4 DEF DamageImage, TypeOK
  <2> QED
    BY <2>1, <2>2, TypeOfRecord, FilesKept
<1>5. CASE UNCHANGED <<image, records, lost>>
  BY <1>5, FilesKept
<1>6. CASE UNCHANGED vars
  BY <1>5, <1>6 DEF vars
<1>7. ASSUME NEW t \in Tags, NEW f \in BOOLEAN, Begin(t, f) PROVE FilesInOrder'
  BY <1>5, <1>7 DEF Begin, disk
<1>8. CASE \/ FindNone \/ CheckMismatch \/ CheckHeaderChanged \/ CheckSame
           \/ OpenPart \/ PartTooLong \/ ReadBlock \/ TearBlock
           \/ ReceiveFull \/ ReceiveSegment \/ ReceiveVerified \/ ReceiveMismatch
  BY <1>5, <1>8 DEF FindNone, CheckMismatch, CheckHeaderChanged, CheckSame,
        OpenPart, PartTooLong, ReadBlock, TearBlock,
        ReceiveFull, ReceiveSegment, ReceiveVerified, ReceiveMismatch, disk
<1>9. CASE \/ \E p \in PartNames : RemovePart(p)
           \/ AllRemoved \/ EraseMemory \/ EnableLogger \/ LeaveLogger \/ Interrupt
  BY <1>5, <1>9 DEF RemovePart, AllRemoved, EraseMemory, EnableLogger, LeaveLogger,
        Interrupt, disk
<1>10. CASE Log \/ EraseElsewhere \/ EnableElsewhere \/ ChangeHeader
  BY <1>5, <1>10 DEF Log, EraseElsewhere, EnableElsewhere, ChangeHeader, disk
<1> QED
  BY <1>1, <1>2, <1>3, <1>4, <1>6, <1>7, <1>8, <1>9, <1>10 DEF Next, OffloadStep, Environment

-----------------------------------------------------------------------------
(* Every step keeps what is known of the offload in progress.              *)

\* The steps of a download, before anything is stored, that change no record.
Downloads ==
    \/ FindNone \/ CheckMismatch \/ CheckHeaderChanged \/ CheckSame
    \/ OpenPart \/ ReadBlock
    \/ ReceiveFull \/ ReceiveSegment \/ ReceiveVerified \/ ReceiveMismatch

\* The steps that end an offload, in whatever way, and those after its record.
Ends ==
    \/ PartTooLong \/ TearBlock \/ TearAppend \/ Interrupt
    \/ LeaveLogger

AfterRecord ==
    \/ \E p \in PartNames : RemovePart(p)
    \/ AllRemoved \/ EraseMemory \/ EnableLogger

LEMMA NextByKind ==
    Next <=> \/ \E t \in Tags, f \in BOOLEAN : Begin(t, f)
             \/ FindHeld \/ Downloads \/ StoreWhole \/ StoreAppend \/ WriteRecord
             \/ AfterRecord \/ Ends \/ Environment
  BY DEF Next, OffloadStep, Downloads, Ends, AfterRecord

LEMMA EndsEffect ==
    ASSUME Ends
    PROVE  /\ pc' = "idle" /\ held' = NoDeployment /\ dl' = NoDownload
           /\ started' = started /\ records' = records
  BY DEF Ends, PartTooLong, TearBlock, TearAppend, Interrupt, LeaveLogger, EndWith, disk

LEMMA EnvironmentEffect ==
    ASSUME Environment \/ UNCHANGED vars
    PROVE  /\ pc' = pc /\ tag' = tag /\ total' = total /\ held' = held /\ dl' = dl
           /\ started' = started /\ records' = records /\ lost \subseteq lost'
           /\ \A s \in Tags : (image[s] \in Bytes /\ s \notin lost') => image'[s] = image[s]
<1>1. CASE Log \/ EraseElsewhere \/ EnableElsewhere \/ ChangeHeader
  BY <1>1 DEF Log, EraseElsewhere, EnableElsewhere, ChangeHeader, disk, local
<1>2. ASSUME NEW s \in Tags, DamageImage(s)
      PROVE  /\ pc' = pc /\ tag' = tag /\ total' = total /\ held' = held /\ dl' = dl
             /\ started' = started /\ records' = records /\ lost \subseteq lost'
             /\ \A u \in Tags : (image[u] \in Bytes /\ u \notin lost') => image'[u] = image[u]
  BY <1>2 DEF DamageImage, local
<1>3. CASE UNCHANGED vars
  BY <1>3 DEF vars
<1> QED
  BY <1>1, <1>2, <1>3 DEF Environment

LEMMA FreshStep ==
    ASSUME TypeOK, TagIsFresh, [Next]_vars
    PROVE  TagIsFresh'
<1>1. ASSUME NEW t \in Tags, NEW f \in BOOLEAN, Begin(t, f) PROVE TagIsFresh'
  <2>1. Recorded' = Recorded
    BY <1>1 DEF Begin, disk, Recorded
  <2>2. dl' = NoDownload /\ held' = NoDeployment
    BY <1>1 DEF Begin, TagIsFresh
  <2>3. \A u \in Recorded : u # t /\ records[u].stem # t
    BY <1>1 DEF Begin, TagIsFresh
  <2> QED
    BY <1>1, <2>1, <2>2, <2>3 DEF Begin, TagIsFresh, disk, NoDownload
<1>2. CASE FindHeld
  <2>1. Recorded' = Recorded
    BY <1>2 DEF FindHeld, Recorded
  <2>2. held'.stem \in started /\ held'.data # <<>>
    BY <1>2 DEF FindHeld, HeldFrom, TagIsFresh
  <2> QED
    BY <1>2, <2>1, <2>2 DEF FindHeld, TagIsFresh
<1>3. CASE Downloads
  <2>1. Recorded' = Recorded
    BY <1>3 DEF Downloads, FindNone, CheckMismatch, CheckHeaderChanged, CheckSame,
          OpenPart, ReadBlock, ReceiveFull, ReceiveSegment, ReceiveVerified,
          ReceiveMismatch, disk, Recorded
  <2> QED
    BY <1>3, <2>1 DEF Downloads, FindNone, CheckMismatch, CheckHeaderChanged, CheckSame,
          OpenPart, ReadBlock, ReceiveFull, ReceiveSegment, ReceiveVerified,
          ReceiveMismatch, NewDeployment, disk, local, TagIsFresh
<1>4. CASE StoreWhole \/ StoreAppend
  <2>1. Recorded' = Recorded
    BY <1>4 DEF StoreWhole, StoreAppend, Recorded
  <2> QED
    BY <1>4, <2>1 DEF StoreWhole, StoreAppend, local, TagIsFresh
<1>5. CASE WriteRecord
  <2>1. CASE dl.data = <<>>
    <3>1. Recorded' = Recorded
      BY <1>5, <2>1 DEF WriteRecord, Recorded
    <3> QED
      BY <1>5, <2>1, <3>1 DEF WriteRecord, local, TagIsFresh
  <2>2. CASE dl.data # <<>>
    <3>1. /\ tag \in Tags /\ tag \in started /\ Stem \in started
      BY <1>5, <2>2 DEF WriteRecord, TagIsFresh, Stem
    <3>2. Recorded' \subseteq Recorded \cup {tag}
      BY <1>5, <2>2, <3>1 DEF WriteRecord, TypeOK, Recorded
    <3>3. \A t \in Recorded' : records'[t].stem \in started /\ records'[t].sum # <<>>
      BY <1>5, <2>2, <3>1, <3>2 DEF WriteRecord, TypeOK, Recorded, TagIsFresh
    <3> QED
      BY <1>5, <3>1, <3>2, <3>3 DEF WriteRecord, local, TagIsFresh
  <2> QED
    BY <2>1, <2>2
<1>6. CASE AfterRecord
  <2>1. Recorded' = Recorded
    BY <1>6 DEF AfterRecord, RemovePart, AllRemoved, EraseMemory, EnableLogger, disk, Recorded
  <2> QED
    BY <1>6, <2>1 DEF AfterRecord, RemovePart, AllRemoved, EraseMemory, EnableLogger,
          disk, local, TagIsFresh
<1>7. CASE Ends
  <2>1. Recorded' = Recorded
    BY <1>7, EndsEffect DEF Recorded
  <2> QED
    BY <1>7, <2>1, EndsEffect DEF TagIsFresh
<1>8. CASE Environment \/ UNCHANGED vars
  <2>1. Recorded' = Recorded
    BY <1>8, EnvironmentEffect DEF Recorded
  <2> QED
    BY <1>8, <2>1, EnvironmentEffect DEF TagIsFresh
<1> QED
  BY <1>1, <1>2, <1>3, <1>4, <1>5, <1>6, <1>7, <1>8, NextByKind

LEMMA HeldStep ==
    ASSUME TypeOK, FilesInOrder, TagIsFresh, HeldIsOnDisk, DownloadExtendsHeld, [Next]_vars
    PROVE  HeldIsOnDisk'
<1>1. ASSUME NEW t \in Tags, NEW f \in BOOLEAN, Begin(t, f) PROVE HeldIsOnDisk'
  BY <1>1 DEF Begin, TagIsFresh, HeldIsOnDisk
<1>2. CASE FindHeld
  <2>1. PICK l \in Recorded :
           /\ IsLast(l) /\ held' = HeldFrom(records[l])
           /\ image' = [image EXCEPT ![records[l].stem] = records[l].sum]
    BY <1>2 DEF FindHeld, Trusted
  <2>2. records[l].stem \in Tags
    BY TypeOfRecord
  <2>3. image'[held'.stem] = held'.data /\ held'.stem = records[l].stem
    BY <2>1, <2>2 DEF HeldFrom, TypeOK
  <2>4. OfStem(held.stem)' = OfStem(records[l].stem) /\ records' = records
    BY <1>2, <2>3 DEF FindHeld, OfStem
  <2>5. \A t \in OfStem(records[l].stem) :
           IsPrefix(records[t].sum, held'.data) /\ records[t].index <= held'.index
    BY <2>1, LastIsLongest DEF HeldFrom
  <2> QED
    BY <2>3, <2>4, <2>5 DEF HeldIsOnDisk
<1>3. CASE Downloads
  <2>1. /\ records' = records /\ image' = image /\ lost' = lost
        /\ held' = held \/ held' = NoDeployment
    BY <1>3 DEF Downloads, FindNone, CheckMismatch, CheckHeaderChanged, CheckSame,
          OpenPart, ReadBlock, ReceiveFull, ReceiveSegment, ReceiveVerified,
          ReceiveMismatch, NewDeployment, disk, local
  <2>2. CASE FindNone
    <3>1. held' = held /\ pc = "find" /\ pc' = "open"
      BY <2>2 DEF FindNone
    <3> QED
      BY <2>1, <2>2 DEF FindNone, HeldIsOnDisk, DownloadExtendsHeld
  <2>3. CASE ~ FindNone
    <3>1. pc \in {"check", "open", "block"}
      BY <1>3, <2>3 DEF Downloads, CheckMismatch, CheckHeaderChanged, CheckSame,
            OpenPart, ReadBlock, ReceiveFull, ReceiveSegment, ReceiveVerified,
            ReceiveMismatch
    <3> QED
      BY <2>1, <3>1 DEF HeldIsOnDisk, OfStem
  <2> QED
    BY <2>2, <2>3
<1>4. CASE StoreWhole \/ StoreAppend
  BY <1>4 DEF StoreWhole, StoreAppend, local, HeldIsOnDisk, OfStem
<1>5. CASE WriteRecord \/ AfterRecord
  BY <1>5 DEF WriteRecord, AfterRecord, RemovePart, AllRemoved, EraseMemory, EnableLogger,
        HeldIsOnDisk
<1>6. CASE Ends
  BY <1>6, EndsEffect DEF HeldIsOnDisk
<1>7. CASE Environment \/ UNCHANGED vars
  <2>1. held # NoDeployment => held.stem \in Tags /\ image[held.stem] \in Bytes
    BY DEF TypeOK, Deployment
  <2> QED
    BY <1>7, <2>1, EnvironmentEffect DEF HeldIsOnDisk, OfStem
<1> QED
  BY <1>1, <1>2, <1>3, <1>4, <1>5, <1>6, <1>7, NextByKind

LEMMA DownloadStep ==
    ASSUME TypeOK, TagIsFresh, HeldIsOnDisk, DownloadExtendsHeld, [Next]_vars
    PROVE  DownloadExtendsHeld'
<1> USE DEF DownloadExtendsHeld
<1>1. ASSUME NEW t \in Tags, NEW f \in BOOLEAN, Begin(t, f) PROVE DownloadExtendsHeld'
  <2>1. held' = NoDeployment /\ dl' = NoDownload
    BY <1>1 DEF Begin, TagIsFresh
  <2> QED
    BY <1>1, <2>1 DEF Begin, NoDownload, TypeOK
<1>2. CASE FindHeld
  <2>1. held' # NoDeployment
    BY <1>2, TypeOfRecord, TypeOfConstants DEF FindHeld, HeldFrom, NoDeployment
  <2> QED
    BY <1>2, <2>1 DEF FindHeld, Downloading, NoDownload
<1>3. CASE FindNone \/ CheckMismatch \/ CheckHeaderChanged
  BY <1>3 DEF FindNone, CheckMismatch, CheckHeaderChanged, NewDeployment, Downloading,
        NoDownload
<1>4. CASE CheckSame
  <2>1. held # NoDeployment /\ held.data \in Bytes /\ held.data # <<>>
    BY <1>4, TypeOfConstants DEF CheckSame, TypeOK, Deployment, TagIsFresh
  <2>2. Len(held.data) \in Nat \ {0} /\ IsPrefix(held.data, held.data)
    BY <2>1, PrefixReflexive DEF Bytes
  <2>3. total \in 0..MaxLen
    BY DEF TypeOK
  <2> QED
    BY <1>4, <2>1, <2>2, <2>3, TypeOfConstants DEF CheckSame
<1>5. CASE OpenPart \/ ReadBlock
  BY <1>5 DEF OpenPart, ReadBlock, local
<1>6. CASE ReceiveFull
  BY <1>6 DEF ReceiveFull
<1>7. CASE ReceiveSegment
  <2>1. held # NoDeployment /\ held.data \in Bytes
    BY <1>7 DEF ReceiveSegment, TypeOK, Deployment
  <2>2. Part \in Bytes
    BY <1>7, TypeOfPart DEF ReceiveSegment
  <2>3. IsPrefix(held.data, held.data \o Part)
    BY <2>1, <2>2, PrefixAppend DEF Bytes
  <2>4. dl'.data = held.data \o Part /\ dl'.offset = dl.offset
    BY <1>7 DEF ReceiveSegment, TypeOK, Downloaded
  <2> QED
    BY <1>7, <2>1, <2>3, <2>4 DEF ReceiveSegment
<1>8. CASE ReceiveVerified
  <2>1. held # NoDeployment /\ held.data \in Bytes
    BY <1>8 DEF ReceiveVerified, TypeOK, Deployment
  <2>2. Part \in Bytes
    BY <1>8, TypeOfPart DEF ReceiveVerified
  <2>3. SubSeq(Part, Len(held.data) + 1, Len(Part)) \in Bytes
    BY <2>1, <2>2 DEF Bytes
  <2>4. IsPrefix(held.data, held.data \o SubSeq(Part, Len(held.data) + 1, Len(Part)))
    BY <2>1, <2>3, PrefixAppend DEF Bytes
  <2> QED
    BY <1>8, <2>1, <2>4 DEF ReceiveVerified
<1>9. CASE ReceiveMismatch
  BY <1>9 DEF ReceiveMismatch, NewDeployment
<1>10. CASE StoreWhole
  <2>1. image'[Stem] = dl.data
    BY <1>10, TypeOfStem DEF StoreWhole, TypeOK
  <2>2. Stem' = Stem
    BY <1>10 DEF StoreWhole, local, Stem
  <2> QED
    BY <1>10, <2>1, <2>2 DEF StoreWhole, local
<1>11. CASE StoreAppend
  <2>1. Stem' = Stem /\ dl.data \in Bytes
    BY <1>11 DEF StoreAppend, local, Stem, TypeOK, Downloaded
  <2>2. ASSUME Stem \notin lost PROVE image'[Stem] = dl.data
    <3>1. image'[Stem] = image[Stem] \o Segment
      BY <1>11, TypeOfStem DEF StoreAppend, TypeOK
    <3>2. /\ held.data \in Bytes /\ dl.offset = Len(held.data)
          /\ image[Stem] = held.data /\ IsPrefix(held.data, dl.data)
      BY <1>11, <2>2, AppendToHeld DEF StoreAppend
    <3> QED
      BY <2>1, <3>1, <3>2, AppendRest DEF Segment, Bytes
  <2>3. held # NoDeployment /\ IsPrefix(held.data, dl.data)
    BY <1>11, AppendToHeld DEF StoreAppend
  <2> QED
    BY <1>11, <2>1, <2>2, <2>3 DEF StoreAppend, local
<1>12. CASE WriteRecord \/ AfterRecord
  BY <1>12 DEF WriteRecord, AfterRecord, RemovePart, AllRemoved, EraseMemory, EnableLogger
<1>13. CASE Ends
  BY <1>13, EndsEffect
<1>14. CASE Environment \/ UNCHANGED vars
  <2>1. Stem' = Stem
    BY <1>14, EnvironmentEffect DEF Stem
  <2>2. (pc = "record" /\ dl.data # <<>>) => Stem \in Tags /\ image[Stem] \in Bytes
    BY TypeOfStem DEF TypeOK
  <2> QED
    BY <1>14, <2>1, <2>2, EnvironmentEffect
<1> QED
  BY <1>1, <1>2, <1>3, <1>4, <1>5, <1>6, <1>7, <1>8, <1>9, <1>10, <1>11, <1>12, <1>13,
     <1>14, NextByKind DEF Downloads

-----------------------------------------------------------------------------
(* The theorems.                                                           *)

LEMMA InitIInv == Init => IInv
<1> SUFFICES ASSUME Init PROVE IInv
  OBVIOUS
<1>1. Recorded = {}
  BY DEF Init, Recorded, NoRecord
<1>2. TypeOK
  <2>1. 1 \in Epochs /\ 1 \in 0..MaxLen /\ 0 \in 0..MaxLen
    BY StoreAssumption DEF Epochs, StoreAssumption
  <2>2. <<>> \in Bytes /\ NoDownload \in Downloaded
    BY TypeOfConstants
  <2>3. /\ image \in [Tags -> Bytes] /\ parts \in [PartNames -> Bytes]
        /\ records \in [Tags -> Record \cup {NoRecord}]
    BY <2>2 DEF Init
  <2>4. ep \in Epochs /\ used \in 0..MaxLen /\ hv \in 0..1 /\ total \in 0..MaxLen
    BY <2>1 DEF Init
  <2>5. lost \subseteq Tags /\ started \subseteq Tags /\ full \in BOOLEAN /\ dl \in Downloaded
    BY <2>2 DEF Init
  <2>6. tag = NoTag /\ held = NoDeployment /\ pc = "idle" /\ outcome = "none"
    BY DEF Init
  <2> QED
    BY <2>3, <2>4, <2>5, <2>6 DEF TypeOK
<1>3. RecordsDescribePrefixes /\ RecordsInOrder
  BY <1>1 DEF RecordsDescribePrefixes, RecordsInOrder
<1>4. TagIsFresh /\ HeldIsOnDisk /\ DownloadExtendsHeld
  BY <1>1 DEF Init, TagIsFresh, HeldIsOnDisk, DownloadExtendsHeld
<1> QED
  BY <1>2, <1>3, <1>4 DEF IInv

\* The strengthened invariant holds in every reachable state.
THEOREM Invariance == Spec => []IInv
<1>1. IInv /\ [Next]_vars => IInv'
  BY TypeStep, FilesStep, FreshStep, HeldStep, DownloadStep DEF IInv, FilesInOrder
<1> QED
  BY InitIInv, <1>1, PTL DEF Spec

\* Every variable keeps to its type, for every size of memory, block and clock.
THEOREM TypeCorrect == Spec => []TypeOK
<1>1. IInv => TypeOK
  BY DEF IInv
<1> QED
  BY Invariance, <1>1, PTL

\* Whatever is interrupted, torn, truncated or damaged elsewhere, every record's
\* checksum describes a prefix of its deployment's image (_store_dataset, cli.py), and
\* it does so whether or not two deployments can share a header.
THEOREM RecordsStayTrueOfImages == Spec => []RecordsDescribePrefixes
<1>1. IInv => RecordsDescribePrefixes
  BY DEF IInv
<1> QED
  BY Invariance, <1>1, PTL

\* The offloads of a deployment are numbered apart, and each describes an extension of
\* the one before (_find_deployment relies on it when it truncates an image).
THEOREM RecordsStayInOrder == Spec => []RecordsInOrder
<1>1. IInv => RecordsInOrder
  BY DEF IInv
<1> QED
  BY Invariance, <1>1, PTL

-----------------------------------------------------------------------------
(***************************************************************************)
(* That the deployments of a logger are told apart: what is stored under a *)
(* deployment's stem is memory of that deployment, of all of it and of no  *)
(* other.  It takes headers that differ between deployments, which         *)
(* solo.download relies on when it resumes a partial file.                 *)
(***************************************************************************)


\* The cells of `file` are those of deployment e's memory after the first k.
IsSegmentOf(file, e, k) ==
    \A i \in 1..Len(file) : \E v \in 0..1 : file[i] = MemCell(e, v, k + i)

IsHeaderOf(h, e) == \E v \in 0..1 : h = <<MemCell(e, v, 1)>>

(* The strengthened invariant.                                             *)

\* A record describes memory and header of its deployment, of one the logger has had.
RecordsTrue ==
    \A t \in Recorded : /\ records[t].ep <= ep
                        /\ IsMemoryOf(records[t].sum, records[t].ep)
                        /\ IsHeaderOf(records[t].header, records[t].ep)

\* What is held is of deployment e, by a record of its stem.
Holds(e) ==
    /\ \E t \in Recorded : records[t].stem = held.stem /\ records[t].ep = e
    /\ IsMemoryOf(held.data, e)
    /\ IsHeaderOf(held.header, e)

HeldTrue == held # NoDeployment => \E e \in Epochs : Holds(e)

\* Once it is extended it is known to be of the deployment on the logger.
Extending ==
    /\ held # NoDeployment
    /\ pc \in {"store", "record"} \/ (pc \in {"open", "block"} /\ dl.kind = "incremental")

HeldNow == Extending => Holds(ep)

\* A partial file is of one deployment, which its name tells unless it begins anew.
PartTrue(p) ==
    parts[p] # <<>> =>
        IF p = NewPart THEN \E e \in 1..ep : IsMemoryOf(parts[p], e)
        ELSE \E t \in Recorded : /\ records[t].stem = p[1]
                                 /\ IsSegmentOf(parts[p], records[t].ep, p[2])
PartsTrue == \A p \in PartNames : PartTrue(p)

\* Once opened, it is of the deployment on the logger.
PartNow == (pc = "block" /\ dl.kind # "incremental") => IsMemoryOf(parts[NewPart], ep)

\* What is stored is memory of the logger's deployment.
StoredTrue ==
    pc \in {"store", "record"} =>
        IsMemoryOf(dl.data, ep) /\ (dl.data # <<>> => IsHeaderOf(dl.header, ep))

\* What an incremental read is to be put behind is in the logger's memory.
SegmentTrue ==
    (pc \in {"open", "block"} /\ dl.kind = "incremental") =>
        IsHeaderOf(dl.header, ep) /\ Len(held.data) <= total

\* What the logger had of its deployment when it was last looked at.
Outside == pc \in {"idle", "erased", "enabled"}
Limit == IF Outside THEN used ELSE total

\* A partial file of the deployment on the logger is not longer than that.
NewFits ==
    parts[NewPart] # <<>> /\ IsMemoryOf(parts[NewPart], ep) => Len(parts[NewPart]) <= Limit
SegmentFits(t, k) ==
    parts[<<records[t].stem, k>>] # <<>> /\ records[t].ep = ep =>
        k + Len(parts[<<records[t].stem, k>>]) <= Limit
PartsFit ==
    /\ ~ Outside => total <= used /\ (total = 0 => used = 0)
    /\ Limit > 0 => NewFits /\ \A t \in Recorded, k \in 1..MaxLen : SegmentFits(t, k)

Truth ==
    /\ RecordsTrue /\ DeploymentsNotMerged
    /\ HeldTrue /\ HeldNow
    /\ PartsTrue /\ PartNow
    /\ StoredTrue /\ SegmentTrue
    /\ PartsFit /\ NeverStuckOnPart

-----------------------------------------------------------------------------
(* Cells, headers and segments.                                            *)

LEMMA SegmentFromStart ==
    ASSUME NEW f \in Bytes, NEW e
    PROVE  IsMemoryOf(f, e) <=> IsSegmentOf(f, e, 0)
<1>1. \A i \in 1..Len(f) : 0 + i = i
  OBVIOUS
<1> QED
  BY <1>1 DEF IsMemoryOf, IsSegmentOf

\* What is read next continues what was read.
LEMMA SegmentGrows ==
    ASSUME TypeOK, NEW f \in Bytes, NEW k \in Nat, NEW n \in Nat, IsSegmentOf(f, ep, k)
    PROVE  IsSegmentOf(f \o ReadData(k + Len(f), n), ep, k)
<1> DEFINE r == ReadData(k + Len(f), n)
<1>1. Len(f) \in Nat
  BY DEF Bytes
<1>2. r \in Bytes /\ Len(r) = n
  BY <1>1, TypeOfReadData
<1>3. \A i \in 1..n : r[i] = MemCell(ep, hv, k + Len(f) + i)
  BY DEF ReadData
<1> HIDE DEF r
<1>4. Len(f \o r) = Len(f) + n
  BY <1>2 DEF Bytes
<1>5. ASSUME NEW i \in 1..Len(f \o r)
      PROVE  \E v \in 0..1 : (f \o r)[i] = MemCell(ep, v, k + i)
  <2>1. CASE i <= Len(f)
    <3>1. (f \o r)[i] = f[i] /\ i \in 1..Len(f)
      BY <1>1, <1>2, <1>4, <2>1 DEF Bytes
    <3> QED
      BY <3>1 DEF IsSegmentOf
  <2>2. CASE i > Len(f)
    <3>1. (f \o r)[i] = r[i - Len(f)] /\ i - Len(f) \in 1..n
      BY <1>1, <1>2, <1>4, <2>2 DEF Bytes
    <3>2. k + Len(f) + (i - Len(f)) = k + i
      BY <1>1, <1>4
    <3>3. hv \in 0..1
      BY DEF TypeOK
    <3> QED
      BY <1>3, <3>1, <3>2, <3>3
  <2> QED
    BY <1>1, <1>4, <2>1, <2>2
<1> QED
  BY <1>5 DEF IsSegmentOf, r

LEMMA SegmentAppended ==
    ASSUME NEW f \in Bytes, NEW g \in Bytes, NEW e, IsMemoryOf(f, e), IsSegmentOf(g, e, Len(f))
    PROVE  IsMemoryOf(f \o g, e)
<1>1. Len(f) \in Nat /\ Len(g) \in Nat /\ Len(f \o g) = Len(f) + Len(g)
  BY DEF Bytes
<1>2. ASSUME NEW i \in 1..Len(f \o g)
      PROVE  \E v \in 0..1 : (f \o g)[i] = MemCell(e, v, i)
  <2>1. CASE i <= Len(f)
    <3>1. (f \o g)[i] = f[i] /\ i \in 1..Len(f)
      BY <1>1, <2>1 DEF Bytes
    <3> QED
      BY <3>1 DEF IsMemoryOf
  <2>2. CASE i > Len(f)
    <3>1. (f \o g)[i] = g[i - Len(f)] /\ i - Len(f) \in 1..Len(g)
      BY <1>1, <2>2 DEF Bytes
    <3>2. Len(f) + (i - Len(f)) = i
      BY <1>1
    <3> QED
      BY <3>1, <3>2 DEF IsSegmentOf
  <2> QED
    BY <1>1, <2>1, <2>2
<1> QED
  BY <1>2 DEF IsMemoryOf

\* The rest of a memory after its first n cells.
LEMMA RestOfMemory ==
    ASSUME NEW f \in Bytes, NEW e, NEW n \in 0..Len(f), IsMemoryOf(f, e)
    PROVE  SubSeq(f, n + 1, Len(f)) \in Bytes /\ IsSegmentOf(SubSeq(f, n + 1, Len(f)), e, n)
<1> DEFINE r == SubSeq(f, n + 1, Len(f))
<1>1. Len(f) \in Nat
  BY DEF Bytes
<1>2. r \in Bytes /\ Len(r) = Len(f) - n /\ \A i \in 1..Len(r) : r[i] = f[n + i]
  BY <1>1, SubSeqProperties DEF Bytes
<1> HIDE DEF r
<1>3. \A i \in 1..Len(r) : n + i \in 1..Len(f)
  BY <1>1, <1>2
<1>4. IsSegmentOf(r, e, n)
  BY <1>2, <1>3 DEF IsSegmentOf, IsMemoryOf
<1> QED
  BY <1>2, <1>4 DEF r

LEMMA FirstIsHeader ==
    ASSUME NEW f \in Bytes, NEW e, f # <<>>, IsMemoryOf(f, e)
    PROVE  IsHeaderOf(SubSeq(f, 1, 1), e)
<1>1. Len(f) \in Nat /\ 1 \in 1..Len(f)
  BY DEF Bytes
<1> DEFINE h == SubSeq(f, 1, 1)
<1>2. h \in Bytes /\ Len(h) = 1 /\ h[1] = f[1]
  BY <1>1, SubSeqProperties DEF Bytes
<1> HIDE DEF h
<1>3. h = <<f[1]>>
  BY <1>2 DEF Bytes
<1> QED
  BY <1>1, <1>3 DEF IsMemoryOf, IsHeaderOf, h

LEMMA HeaderNowIsHeader ==
    ASSUME TypeOK
    PROVE  IsHeaderOf(HeaderNow, ep) /\ IsMemoryOf(HeaderNow, ep)
           /\ HeaderNow \in Bytes /\ Len(HeaderNow) = 1
<1>1. HeaderNow \in Bytes /\ Len(HeaderNow) = 1
  BY TypeOfReadData DEF HeaderNow
<1>2. HeaderNow[1] = MemCell(ep, hv, 0 + 1) /\ 0 + 1 = 1 /\ hv \in 0..1
  BY DEF HeaderNow, ReadData, TypeOK
<1>3. HeaderNow = <<HeaderNow[1]>>
  BY <1>1 DEF Bytes
<1> QED
  BY <1>1, <1>2, <1>3 DEF IsHeaderOf, IsMemoryOf

\* A header belongs to one deployment.
LEMMA HeaderTells ==
    ASSUME HeadersDistinct, NEW d \in Epochs, NEW e \in Epochs, NEW h,
           IsHeaderOf(h, d), IsHeaderOf(h, e)
    PROVE  d = e
<1>1. PICK v \in 0..1 : h = <<MemCell(d, v, 1)>>
  BY DEF IsHeaderOf
<1>2. PICK w \in 0..1 : h = <<MemCell(e, w, 1)>>
  BY DEF IsHeaderOf
<1>3. MemCell(d, v, 1) = MemCell(e, w, 1)
  BY <1>1, <1>2
<1>4. HeaderOf[d] = HeaderOf[e]
  BY <1>3 DEF MemCell
<1> QED
  BY <1>4 DEF HeadersDistinct

\* So does a memory.
LEMMA MemoryTells ==
    ASSUME HeadersDistinct, NEW f \in Bytes, f # <<>>, NEW d \in Epochs, NEW e \in Epochs,
           IsMemoryOf(f, d), IsMemoryOf(f, e)
    PROVE  d = e
  BY FirstIsHeader, HeaderTells

\* The first time anchor also tells.
LEMMA SecondCellTells ==
    ASSUME NEW d \in Epochs, NEW e \in Epochs, NEW v, NEW w,
           MemCell(d, v, 2) = MemCell(e, w, 2)
    PROVE  d = e
<1>1. 2 \notin Alike
  BY StoreAssumption DEF StoreAssumption
<1> QED
  BY <1>1 DEF MemCell

-----------------------------------------------------------------------------
(* What a step changes.                                                    *)

\* The steps that enable the logger anew.
Enables == EnableElsewhere \/ EnableLogger

LEMMA EpochKept ==
    ASSUME TypeOK, [Next]_vars
    PROVE  /\ ~ Enables => ep' = ep
           /\ Enables => ep' = ep + 1 /\ ep' \in Epochs /\ Outside' /\ used' = 1
                         /\ UNCHANGED <<records, parts, held>>
<1>1. ep \in Epochs /\ MaxEpoch \in Nat
  BY StoreAssumption DEF TypeOK, StoreAssumption
<1>2. CASE Enables
  <2>1. ep < MaxEpoch /\ ep' = ep + 1 /\ used' = 1 /\ UNCHANGED <<records, parts, held>>
    BY <1>2 DEF Enables, EnableElsewhere, EnableLogger, disk, local
  <2>2. pc' \in {"idle", "enabled"}
    BY <1>2 DEF Enables, EnableElsewhere, EnableLogger
  <2>3. ~ (~ Enables)
    BY <1>2
  <2> QED
    BY <1>1, <2>1, <2>2, <2>3 DEF Outside, Epochs
<1>3. ASSUME ~ Enables PROVE ep' = ep
  <2>1. CASE UNCHANGED vars
    BY <2>1 DEF vars
  <2>2. ASSUME NEW t \in Tags, NEW f \in BOOLEAN, Begin(t, f) PROVE ep' = ep
    BY <2>2 DEF Begin, logger
  <2>3. CASE FindHeld \/ Downloads
    BY <2>3 DEF FindHeld, Downloads, FindNone, CheckMismatch, CheckHeaderChanged, CheckSame,
          OpenPart, ReadBlock, ReceiveFull, ReceiveSegment, ReceiveVerified, ReceiveMismatch, logger
  <2>4. CASE StoreWhole \/ StoreAppend \/ WriteRecord
    BY <2>4 DEF StoreWhole, StoreAppend, WriteRecord, logger
  <2>5. CASE AfterRecord
    BY <1>3, <2>5 DEF Enables, AfterRecord, RemovePart, AllRemoved, EraseMemory, logger
  <2>6. CASE Ends
    BY <2>6 DEF Ends, PartTooLong, TearBlock, TearAppend, Interrupt, LeaveLogger, logger
  <2>7. CASE Environment
    BY <1>3, <2>7 DEF Enables, Environment, Log, EraseElsewhere, ChangeHeader, DamageImage, logger
  <2> QED
    BY <1>3, <2>1, <2>2, <2>3, <2>4, <2>5, <2>6, <2>7, NextByKind
<1> QED
  BY <1>2, <1>3

\* Records are only added, and only by WriteRecord.
Adds == WriteRecord /\ dl.data # <<>>

LEMMA RecordsKept ==
    ASSUME TypeOK, TagIsFresh, [Next]_vars
    PROVE  /\ ~ Adds => records' = records /\ Recorded' = Recorded
           /\ Adds => /\ tag \in Tags /\ tag \notin Recorded /\ Recorded' = Recorded \cup {tag}
                      /\ records'[tag] = [stem |-> Stem, index |-> NextIndex, sum |-> dl.data,
                                          header |-> dl.header, ep |-> ep]
           /\ \A t \in Recorded : t \in Recorded' /\ records'[t] = records[t]
<1>1. ASSUME ~ Adds PROVE records' = records
  <2>1. CASE UNCHANGED vars
    BY <2>1 DEF vars
  <2>2. ASSUME NEW t \in Tags, NEW f \in BOOLEAN, Begin(t, f) PROVE records' = records
    BY <2>2 DEF Begin, disk
  <2>3. CASE FindHeld \/ Downloads
    BY <2>3 DEF FindHeld, Downloads, FindNone, CheckMismatch, CheckHeaderChanged, CheckSame,
          OpenPart, ReadBlock, ReceiveFull, ReceiveSegment, ReceiveVerified, ReceiveMismatch, disk
  <2>4. CASE StoreWhole \/ StoreAppend \/ WriteRecord
    BY <1>1, <2>4 DEF StoreWhole, StoreAppend, WriteRecord, Adds
  <2>5. CASE AfterRecord
    BY <2>5 DEF AfterRecord, RemovePart, AllRemoved, EraseMemory, EnableLogger, disk
  <2>6. CASE Ends
    BY <2>6, EndsEffect
  <2>7. CASE Environment
    BY <2>7, EnvironmentEffect
  <2> QED
    BY <2>1, <2>2, <2>3, <2>4, <2>5, <2>6, <2>7, NextByKind
<1>2. CASE Adds
  <2> DEFINE r == [stem |-> Stem, index |-> NextIndex, sum |-> dl.data,
                   header |-> dl.header, ep |-> ep]
  <2>1. pc = "record" /\ dl.data # <<>> /\ records' = [records EXCEPT ![tag] = r]
    BY <1>2 DEF Adds, WriteRecord
  <2>2. tag \in Tags /\ tag \notin Recorded /\ Stem \in Tags
    BY <2>1, TypeOfStem DEF TagIsFresh
  <2>3. records'[tag] = r /\ \A t \in Tags : t # tag => records'[t] = records[t]
    BY <2>1, <2>2 DEF TypeOK
  <2>4. r.stem = Stem /\ Stem # NoTag
    BY <2>2, TypeOfConstants
  <2> HIDE DEF r
  <2>5. Recorded' = Recorded \cup {tag}
    BY <2>2, <2>3, <2>4 DEF Recorded
  <2>6. \A t \in Recorded : t \in Tags /\ t # tag
    BY <2>2 DEF Recorded
  <2>7. ~ (~ Adds)
    BY <1>2
  <2> QED
    BY <2>2, <2>3, <2>5, <2>6, <2>7 DEF r
<1>3. CASE ~ Adds
  BY <1>1, <1>3 DEF Recorded
<1> QED
  BY <1>2, <1>3

LEMMA HeldKept ==
    ASSUME TypeOK, [Next]_vars
    PROVE  held' = held \/ held' = NoDeployment \/ FindHeld
<1>1. CASE UNCHANGED vars
  BY <1>1 DEF vars
<1>2. ASSUME NEW t \in Tags, NEW f \in BOOLEAN, Begin(t, f) PROVE held' = held
  BY <1>2 DEF Begin
<1>3. CASE Downloads
  BY <1>3 DEF Downloads, FindNone, CheckMismatch, CheckHeaderChanged, CheckSame, NewDeployment,
        OpenPart, ReadBlock, ReceiveFull, ReceiveSegment, ReceiveVerified, ReceiveMismatch, local
<1>4. CASE StoreWhole \/ StoreAppend \/ WriteRecord
  BY <1>4 DEF StoreWhole, StoreAppend, WriteRecord, local
<1>5. CASE AfterRecord
  BY <1>5 DEF AfterRecord, RemovePart, AllRemoved, EraseMemory, EnableLogger, local
<1>6. CASE Ends
  BY <1>6, EndsEffect
<1>7. CASE Environment
  BY <1>7, EnvironmentEffect
<1> QED
  BY <1>1, <1>2, <1>3, <1>4, <1>5, <1>6, <1>7, NextByKind

\* An offload that extends a deployment began to do so in one of two ways.
LEMMA ExtendingKept ==
    ASSUME TypeOK, TagIsFresh, DownloadExtendsHeld, [Next]_vars, Extending'
    PROVE  /\ held' = held /\ ep' = ep
           /\ CheckSame \/ ReceiveVerified \/ Extending
<1>1. CASE UNCHANGED vars
  BY <1>1 DEF vars, Extending
<1>2. ASSUME NEW t \in Tags, NEW f \in BOOLEAN, Begin(t, f) PROVE FALSE
  BY <1>2 DEF Begin, TagIsFresh, Extending
<1>3. CASE FindHeld \/ FindNone \/ CheckMismatch \/ CheckHeaderChanged
  BY <1>3 DEF FindHeld, FindNone, CheckMismatch, CheckHeaderChanged, Extending, Downloading, NoDownload
<1>4. CASE CheckSame \/ ReceiveVerified
  BY <1>4 DEF CheckSame, ReceiveVerified, logger
<1>5. CASE OpenPart \/ ReadBlock
  BY <1>5 DEF OpenPart, ReadBlock, local, logger, Extending
<1>6. CASE ReceiveFull \/ ReceiveMismatch
  BY <1>6 DEF ReceiveFull, ReceiveMismatch, NewDeployment, DownloadExtendsHeld, Extending
<1>7. CASE ReceiveSegment
  BY <1>7 DEF ReceiveSegment, logger, Extending
<1>8. CASE StoreWhole \/ StoreAppend
  BY <1>8 DEF StoreWhole, StoreAppend, local, logger, Extending
<1>9. CASE WriteRecord \/ AfterRecord
  BY <1>9 DEF WriteRecord, AfterRecord, RemovePart, AllRemoved, EraseMemory, EnableLogger, Extending
<1>10. CASE Ends
  BY <1>10, EndsEffect DEF Extending
<1>11. CASE Environment
  <2>1. pc' = pc /\ held' = held /\ dl' = dl
    BY <1>11, EnvironmentEffect
  <2>2. Extending /\ pc # "idle"
    BY <2>1 DEF Extending
  <2>3. ep' = ep
    BY <1>11, <2>2 DEF Environment, Log, EraseElsewhere, EnableElsewhere, ChangeHeader, DamageImage, logger
  <2> QED
    BY <2>1, <2>2, <2>3
<1> QED
  BY <1>1, <1>2, <1>3, <1>4, <1>5, <1>6, <1>7, <1>8, <1>9, <1>10, <1>11, NextByKind DEF Downloads

-----------------------------------------------------------------------------
(* Every step keeps what is known of the records and of what is held.      *)

LEMMA TypeOfHeld ==
    ASSUME TypeOK, held # NoDeployment
    PROVE  held.stem \in Tags /\ held.data \in Bytes /\ Len(held.data) \in Nat
<1>1. held \in Deployment
  BY DEF TypeOK
<1> QED
  BY <1>1 DEF Deployment, Bytes

\* Records of a stem are of the deployment held under it.
LEMMA HeldByRecords ==
    ASSUME DeploymentsNotMerged, NEW e, Holds(e),
           NEW t \in Recorded, records[t].stem = held.stem
    PROVE  records[t].ep = e
  BY DEF DeploymentsNotMerged, Holds

LEMMA HoldsKept ==
    ASSUME TypeOK, TagIsFresh, [Next]_vars, NEW e, Holds(e), held' = held
    PROVE  Holds(e)'
  BY RecordsKept DEF Holds

LEMMA RecordsTrueStep ==
    ASSUME IInv, Truth, [Next]_vars
    PROVE  RecordsTrue' /\ DeploymentsNotMerged'
<1>1. TypeOK /\ TagIsFresh
  BY DEF IInv
<1>2. ep \in Nat /\ ep' \in Nat /\ ep <= ep' /\ \A t \in Recorded : records[t].ep \in Nat
  BY <1>1, EpochKept, TypeOfRecord DEF TypeOK, Epochs, Record
<1>3. RecordsTrue /\ DeploymentsNotMerged
  BY DEF Truth
<1>4. CASE ~ Adds
  <2>1. records' = records /\ Recorded' = Recorded
    BY <1>1, <1>4, RecordsKept
  <2> QED
    BY <1>2, <1>3, <2>1 DEF RecordsTrue, DeploymentsNotMerged
<1>5. CASE Adds
  <2>1. pc = "record" /\ dl.data # <<>> /\ ep' = ep
    BY <1>5 DEF Adds, WriteRecord, logger
  <2>2. IsMemoryOf(dl.data, ep) /\ IsHeaderOf(dl.header, ep)
    BY <2>1 DEF Truth, StoredTrue
  <2>3. /\ tag \notin Recorded /\ Recorded' = Recorded \cup {tag}
        /\ records'[tag].stem = Stem /\ records'[tag].sum = dl.data
        /\ records'[tag].header = dl.header /\ records'[tag].ep = ep
    BY <1>1, <1>5, RecordsKept
  <2>4. \A t \in Recorded : records'[t] = records[t]
    BY <1>1, RecordsKept
  <2>5. RecordsTrue'
    BY <1>2, <1>3, <2>1, <2>2, <2>3, <2>4 DEF RecordsTrue
  <2>6. ASSUME NEW t \in Recorded, records[t].stem = Stem PROVE records[t].ep = ep
    <3>1. held # NoDeployment /\ Stem = held.stem
      BY <1>1, <2>1, <2>6 DEF TagIsFresh, Stem
    <3>2. Holds(ep)
      BY <2>1, <3>1 DEF Truth, HeldNow, Extending
    <3> QED
      BY <1>3, <2>6, <3>1, <3>2, HeldByRecords
  <2>7. DeploymentsNotMerged'
    BY <1>3, <2>3, <2>4, <2>6 DEF DeploymentsNotMerged
  <2> QED
    BY <2>5, <2>7
<1> QED
  BY <1>4, <1>5

LEMMA HeldTrueStep ==
    ASSUME IInv, Truth, [Next]_vars
    PROVE  HeldTrue'
<1>1. TypeOK /\ TagIsFresh
  BY DEF IInv
<1>2. CASE held' = held
  BY <1>1, <1>2, HoldsKept DEF Truth, HeldTrue
<1>3. CASE held' = NoDeployment
  BY <1>3 DEF HeldTrue
<1>4. CASE FindHeld
  <2>1. PICK l \in Recorded : held' = HeldFrom(records[l])
    BY <1>4 DEF FindHeld
  <2>2. PICK e \in Epochs : e = records[l].ep
    BY <1>1, TypeOfRecord DEF Record
  <2>3. l \in Recorded' /\ records'[l] = records[l]
    BY <1>1, RecordsKept
  <2>4. Holds(e)'
    BY <2>1, <2>2, <2>3 DEF Holds, HeldFrom, Truth, RecordsTrue
  <2> QED
    BY <2>2, <2>4 DEF HeldTrue
<1> QED
  BY <1>1, <1>2, <1>3, <1>4, HeldKept

\* The deployment held is the logger's when header, or data under a new header, agree.
LEMMA SameHeldIsNow ==
    ASSUME HeadersDistinct, IInv, Truth, CheckSame
    PROVE  Holds(ep)
<1>1. TypeOK /\ held # NoDeployment /\ HeaderNow = held.header /\ ep \in Epochs
  BY DEF IInv, TypeOK, DownloadExtendsHeld, CheckSame
<1>2. PICK e \in Epochs : Holds(e)
  BY <1>1 DEF Truth, HeldTrue
<1>3. e = ep
  BY <1>1, <1>2, HeaderNowIsHeader, HeaderTells DEF Holds
<1> QED
  BY <1>2, <1>3

LEMMA VerifiedIsNow ==
    ASSUME HeadersDistinct, IInv, Truth, ReceiveVerified
    PROVE  /\ Holds(ep) /\ PartName = NewPart /\ Part \in Bytes /\ IsMemoryOf(Part, ep)
           /\ held # NoDeployment /\ Len(held.data) \in 1..Len(Part) /\ Part # <<>>
<1>1. /\ TypeOK /\ TagIsFresh /\ DownloadExtendsHeld /\ ep \in Epochs
      /\ pc = "block" /\ dl.kind = "full-verified" /\ Verified
  BY DEF IInv, TypeOK, ReceiveVerified
<1>2. held # NoDeployment /\ held.data # <<>>
  BY <1>1 DEF DownloadExtendsHeld, TagIsFresh
<1>3. PartName = NewPart /\ Part \in Bytes /\ IsMemoryOf(Part, ep)
  BY <1>1, TypeOfPart DEF PartName, Part, Truth, PartNow
<1>4. Len(held.data) \in 1..Len(Part) /\ Part # <<>>
  BY <1>1, <1>2, <1>3, TypeOfHeld DEF Verified, Bytes
<1>5. PICK e \in Epochs : Holds(e)
  BY <1>2 DEF Truth, HeldTrue
<1>6. CASE Len(held.data) = 1
  <2>1. SubSeq(Part, 1, 1) = held.header
    BY <1>1, <1>6 DEF Verified
  <2>2. IsHeaderOf(SubSeq(Part, 1, 1), ep)
    BY <1>3, <1>4, FirstIsHeader
  <2>3. e = ep
    BY <1>1, <1>5, <2>1, <2>2, HeaderTells DEF Holds
  <2> QED
    BY <1>2, <1>3, <1>4, <1>5, <2>3
<1>7. CASE Len(held.data) # 1
  <2> DEFINE m == Len(held.data)
             n == Len(Part)
  <2>0. n \in Nat /\ m \in 1..n /\ m # 1
    BY <1>3, <1>4, <1>7 DEF Bytes
  <2> HIDE DEF m, n
  <2>1. 2 \in 1..m /\ 2 \in 1..n /\ 2 # 1
    BY <2>0
  <2>2. Part[2] = held.data[2]
    BY <1>1, <2>1 DEF Verified, SameData, m
  <2>3. PICK v \in 0..1 : Part[2] = MemCell(ep, v, 2)
    BY <1>3, <2>1 DEF IsMemoryOf, n
  <2>4. PICK w \in 0..1 : held.data[2] = MemCell(e, w, 2)
    BY <1>5, <2>1 DEF Holds, IsMemoryOf, m
  <2>5. e = ep
    BY <1>1, <1>5, <2>2, <2>3, <2>4, SecondCellTells
  <2> QED
    BY <1>2, <1>3, <1>4, <1>5, <2>5
<1> QED
  BY <1>6, <1>7

LEMMA HeldNowStep ==
    ASSUME HeadersDistinct, IInv, Truth, [Next]_vars
    PROVE  HeldNow'
<1> SUFFICES ASSUME Extending' PROVE Holds(ep)'
  BY DEF HeldNow
<1>1. TypeOK /\ TagIsFresh /\ DownloadExtendsHeld
  BY DEF IInv
<1>2. held' = held /\ ep' = ep /\ (CheckSame \/ ReceiveVerified \/ Extending)
  BY <1>1, ExtendingKept
<1>3. Holds(ep)
  BY <1>2, SameHeldIsNow, VerifiedIsNow DEF Truth, HeldNow
<1> QED
  BY <1>1, <1>2, <1>3, RecordsKept DEF Holds

-----------------------------------------------------------------------------
(* Every step keeps what is known of the partial files.                    *)

\* A partial file is read on in one of two steps.
Reads(n) ==
    /\ pc = "block" /\ n \in 1..(total - Offset)
    /\ parts' = [parts EXCEPT ![PartName] = Part \o ReadData(Offset, n)]
    /\ UNCHANGED <<logger, records>>

LEMMA ReadBlockReads ==
    ASSUME TypeOK, DownloadExtendsHeld, ReadBlock \/ TearBlock
    PROVE  \E n \in Nat : Reads(n)
<1>1. pc = "block" /\ Offset < total /\ UNCHANGED <<logger, records>>
  BY DEF ReadBlock, TearBlock
<1>2. Offset \in Nat /\ total \in Nat /\ Chunk \in Nat \ {0}
  BY <1>1, TypeOfPart, StoreAssumption DEF TypeOK, StoreAssumption
<1>3. BlockSize \in 1..(total - Offset)
  BY <1>1, <1>2 DEF BlockSize, Lesser
<1>4. CASE ReadBlock
  <2>1. BlockSize \in Nat
    BY <1>2, <1>3
  <2>2. parts' = [parts EXCEPT ![PartName] = Part \o ReadData(Offset, BlockSize)]
    BY <1>4 DEF ReadBlock
  <2> QED
    BY <1>1, <1>3, <2>1, <2>2 DEF Reads
<1>5. CASE TearBlock
  <2>1. PICK n \in 1..(BlockSize - 1) :
           parts' = [parts EXCEPT ![PartName] = Part \o ReadData(Offset, n)]
    BY <1>5 DEF TearBlock
  <2>2. n \in 1..(total - Offset) /\ n \in Nat
    BY <1>2, <1>3, <2>1
  <2> QED
    BY <1>1, <2>1, <2>2 DEF Reads
<1> QED
  BY <1>4, <1>5

\* It is begun, with the header, in one.
Renews ==
    /\ OpenPart /\ ~ Reusable /\ PartName = NewPart /\ Start = 0
    /\ parts' = [parts EXCEPT ![NewPart] = HeaderNow]

LEMMA StartOfDownload ==
    ASSUME TypeOK, DownloadExtendsHeld, pc \in {"open", "block"}
    PROVE  /\ dl.kind = "incremental" =>
                /\ held # NoDeployment /\ Start = Len(held.data) /\ Start \in 1..MaxLen
                /\ PartName = <<held.stem, Start>> /\ held.stem \in Tags /\ PartName # NewPart
           /\ dl.kind # "incremental" => PartName = NewPart /\ Start = 0
<1>1. CASE dl.kind = "incremental"
  <2>1. held # NoDeployment /\ Start = Len(held.data) /\ Start \in 1..MaxLen
    BY <1>1 DEF DownloadExtendsHeld, Start
  <2>2. PartName = <<held.stem, Start>> /\ held.stem \in Tags
    BY <1>1, <2>1, TypeOfHeld DEF PartName
  <2> QED
    BY <1>1, <2>1, <2>2, TypeOfConstants DEF NewPart
<1>2. CASE dl.kind # "incremental"
  BY <1>2 DEF PartName, Start
<1> QED
  BY <1>1, <1>2

LEMMA OpenPartRenews ==
    ASSUME TypeOK, DownloadExtendsHeld, OpenPart
    PROVE  parts' = parts \/ Renews
<1>1. pc = "open"
  BY DEF OpenPart
<1>2. CASE Reusable
  BY <1>2 DEF OpenPart
<1>3. CASE ~ Reusable
  <2>1. ~ (Start > 0)
    BY <1>3 DEF Reusable
  <2>2. PartName = NewPart /\ Start = 0
    BY <1>1, <2>1, StartOfDownload, TypeOfConstants
  <2> QED
    BY <1>3, <2>2 DEF OpenPart, Renews
<1> QED
  BY <1>2, <1>3

LEMMA PartsKept ==
    ASSUME TypeOK, DownloadExtendsHeld, [Next]_vars
    PROVE  \/ parts' = parts
           \/ pc = "unlink" /\ \E p \in PartNames : parts' = [parts EXCEPT ![p] = <<>>]
           \/ Renews
           \/ \E n \in Nat : Reads(n)
<1>1. CASE UNCHANGED vars
  BY <1>1 DEF vars
<1>2. ASSUME NEW t \in Tags, NEW f \in BOOLEAN, Begin(t, f) PROVE parts' = parts
  BY <1>2 DEF Begin, disk
<1>3. CASE \/ FindHeld \/ FindNone \/ CheckMismatch \/ CheckHeaderChanged \/ CheckSame
           \/ ReceiveFull \/ ReceiveSegment \/ ReceiveVerified \/ ReceiveMismatch
  BY <1>3 DEF FindHeld, FindNone, CheckMismatch, CheckHeaderChanged, CheckSame,
        ReceiveFull, ReceiveSegment, ReceiveVerified, ReceiveMismatch, disk
<1>4. CASE OpenPart
  BY <1>4, OpenPartRenews
<1>5. CASE ReadBlock \/ TearBlock
  BY <1>5, ReadBlockReads
<1>6. CASE StoreWhole \/ StoreAppend \/ WriteRecord
  BY <1>6 DEF StoreWhole, StoreAppend, WriteRecord
<1>7. CASE AfterRecord
  BY <1>7 DEF AfterRecord, RemovePart, AllRemoved, EraseMemory, EnableLogger, disk
<1>8. CASE PartTooLong \/ TearAppend \/ Interrupt \/ LeaveLogger
  BY <1>8 DEF PartTooLong, TearAppend, Interrupt, LeaveLogger, disk
<1>9. CASE Environment
  BY <1>9 DEF Environment, Log, EraseElsewhere, EnableElsewhere, ChangeHeader, DamageImage, disk
<1> QED
  BY <1>1, <1>2, <1>3, <1>4, <1>5, <1>6, <1>7, <1>8, <1>9, NextByKind DEF Downloads, Ends

\* What a partial file holds of the logger's deployment, and what is read on to it.
LEMMA PartIsNow ==
    ASSUME IInv, Truth,
           pc = "block" \/ (pc = "open" /\ dl.kind = "incremental" /\ Part # <<>>)
    PROVE  IsSegmentOf(Part, ep, Start)
<1>1. TypeOK /\ DownloadExtendsHeld /\ pc \in {"open", "block"}
  BY DEF IInv
<1>2. Part \in Bytes /\ PartName \in PartNames
  BY <1>1, TypeOfPart
<1>3. CASE dl.kind # "incremental"
  <2>1. IsMemoryOf(Part, ep) /\ Start = 0
    BY <1>1, <1>3, StartOfDownload DEF Truth, PartNow, Part
  <2> QED
    BY <1>2, <2>1, SegmentFromStart
<1>4. CASE dl.kind = "incremental" /\ Part # <<>>
  <2>1. /\ held # NoDeployment /\ PartName = <<held.stem, Start>> /\ PartName # NewPart
    BY <1>1, <1>4, StartOfDownload
  <2>2. PICK t \in Recorded : records[t].stem = held.stem /\ IsSegmentOf(Part, records[t].ep, Start)
    BY <1>2, <1>4, <2>1 DEF Truth, PartsTrue, PartTrue, Part
  <2>3. Holds(ep)
    BY <1>1, <1>4, <2>1 DEF Truth, HeldNow, Extending
  <2>4. records[t].ep = ep
    BY <2>2, <2>3, HeldByRecords DEF Truth
  <2> QED
    BY <2>2, <2>4
<1>5. CASE dl.kind = "incremental" /\ Part = <<>>
  BY <1>5 DEF IsSegmentOf
<1> QED
  BY <1>3, <1>4, <1>5

LEMMA ReadsOn ==
    ASSUME IInv, Truth, NEW n \in Nat, Reads(n)
    PROVE  /\ PartName \in PartNames /\ parts'[PartName] = Part \o ReadData(Offset, n)
           /\ \A p \in PartNames \ {PartName} : parts'[p] = parts[p]
           /\ IsSegmentOf(parts'[PartName], ep, Start)
           /\ Start + Len(parts'[PartName]) = Offset + n
           /\ Offset + n \in Nat /\ Offset + n <= total
<1>1. TypeOK /\ DownloadExtendsHeld /\ pc = "block"
  BY DEF IInv, Reads
<1>2. Part \in Bytes /\ PartName \in PartNames /\ Start \in Nat /\ Offset = Start + Len(Part)
      /\ Len(Part) \in Nat /\ Offset \in Nat /\ total \in Nat
  BY <1>1, TypeOfPart DEF Offset, Bytes, TypeOK
<1>3. /\ parts'[PartName] = Part \o ReadData(Offset, n)
      /\ \A p \in PartNames \ {PartName} : parts'[p] = parts[p]
  BY <1>1, <1>2 DEF Reads, TypeOK
<1>4. IsSegmentOf(Part \o ReadData(Offset, n), ep, Start)
  BY <1>1, <1>2, PartIsNow, SegmentGrows
<1>5. ReadData(Offset, n) \in Bytes /\ Len(ReadData(Offset, n)) = n
  BY <1>1, <1>2, TypeOfReadData
<1>6. Len(Part \o ReadData(Offset, n)) = Len(Part) + n
  BY <1>2, <1>5 DEF Bytes
<1>7. n <= total - Offset
  BY <1>2 DEF Reads
<1>8. Start + Len(parts'[PartName]) = Offset + n
  BY <1>2, <1>3, <1>5, <1>6
<1>9. Offset + n \in Nat /\ Offset + n <= total
  BY <1>2, <1>7
<1>10. IsSegmentOf(parts'[PartName], ep, Start)
  BY <1>3, <1>4
<1> QED
  BY <1>2, <1>3, <1>8, <1>9, <1>10

LEMMA RenewedPart ==
    ASSUME TypeOK, Renews
    PROVE  /\ \A p \in PartNames \ {NewPart} : parts'[p] = parts[p]
           /\ parts'[NewPart] = HeaderNow /\ IsMemoryOf(parts'[NewPart], ep)
           /\ Len(parts'[NewPart]) = 1 /\ ep' = ep
<1>1. /\ \A p \in PartNames \ {NewPart} : parts'[p] = parts[p]
      /\ parts'[NewPart] = HeaderNow
  BY TypeOfConstants DEF Renews, TypeOK
<1>2. ep' = ep
  BY DEF Renews, OpenPart, logger
<1> QED
  BY <1>1, <1>2, HeaderNowIsHeader

\* A file kept as it is stays true, the epoch and the records having only grown.
LEMMA PartTrueKept ==
    ASSUME TypeOK, TagIsFresh, [Next]_vars, NEW p \in PartNames, PartTrue(p),
           parts'[p] = parts[p]
    PROVE  PartTrue(p)'
<1>1. ep \in Nat /\ ep' \in Nat /\ ep <= ep'
  BY EpochKept DEF TypeOK, Epochs
<1>2. \A e \in 1..ep : e \in 1..ep'
  BY <1>1
<1>3. \A t \in Recorded : t \in Recorded' /\ records'[t] = records[t]
  BY RecordsKept
<1> QED
  BY <1>2, <1>3 DEF PartTrue

LEMMA PartsTrueStep ==
    ASSUME IInv, Truth, [Next]_vars
    PROVE  PartsTrue'
<1> SUFFICES ASSUME NEW p \in PartNames PROVE PartTrue(p)'
  BY DEF PartsTrue
<1>1. TypeOK /\ TagIsFresh /\ DownloadExtendsHeld /\ ep \in 1..ep
  BY DEF IInv, TypeOK, Epochs
<1>2. CASE parts'[p] = parts[p]
  BY <1>1, <1>2, PartTrueKept DEF Truth, PartsTrue
<1>3. CASE parts'[p] = <<>>
  BY <1>3 DEF PartTrue
<1>4. CASE Renews /\ p = NewPart
  BY <1>1, <1>4, RenewedPart DEF PartTrue
<1>5. ASSUME NEW n \in Nat, Reads(n), p = PartName PROVE PartTrue(p)'
  <2>1. IsSegmentOf(parts'[p], ep, Start) /\ ep' = ep /\ pc = "block"
    BY <1>5, ReadsOn DEF Reads, logger
  <2>2. CASE dl.kind # "incremental"
    <3>1. p = NewPart /\ Start = 0
      BY <1>1, <1>5, <2>1, <2>2, StartOfDownload
    <3>2. parts'[p] \in Bytes
      BY <1>1, TypeStep DEF TypeOK
    <3>3. IsMemoryOf(parts'[p], ep)
      BY <2>1, <3>1, <3>2, SegmentFromStart
    <3> QED
      BY <1>1, <2>1, <3>1, <3>3 DEF PartTrue
  <2>3. CASE dl.kind = "incremental"
    <3>1. held # NoDeployment /\ p = <<held.stem, Start>> /\ p # NewPart
      BY <1>1, <1>5, <2>1, <2>3, StartOfDownload
    <3>2. Holds(ep)
      BY <2>1, <2>3, <3>1 DEF Truth, HeldNow, Extending
    <3>3. PICK t \in Recorded : records[t].stem = held.stem /\ records[t].ep = ep
      BY <3>2 DEF Holds
    <3>4. t \in Recorded' /\ records'[t] = records[t]
      BY <1>1, RecordsKept
    <3>5. p[1] = held.stem /\ p[2] = Start
      BY <3>1
    <3>6. /\ records'[t].stem = p[1] /\ IsSegmentOf(parts'[p], records'[t].ep, p[2])
      BY <2>1, <3>3, <3>4, <3>5
    <3> QED
      BY <3>1, <3>4, <3>6 DEF PartTrue
  <2> QED
    BY <2>2, <2>3
<1>6. parts' = parts => parts'[p] = parts[p]
  OBVIOUS
<1>7. ASSUME NEW q \in PartNames, parts' = [parts EXCEPT ![q] = <<>>]
      PROVE  parts'[p] = parts[p] \/ parts'[p] = <<>>
  BY <1>1, <1>7 DEF TypeOK
<1>8. (Renews /\ p # NewPart) => parts'[p] = parts[p]
  BY <1>1, RenewedPart
<1>9. ASSUME NEW n \in Nat, Reads(n), p # PartName PROVE parts'[p] = parts[p]
  BY <1>9, ReadsOn
<1> QED
  BY <1>1, <1>2, <1>3, <1>4, <1>5, <1>6, <1>7, <1>8, <1>9, PartsKept

\* A file resumed from its first byte has the header of the logger's deployment.
LEMMA ReusedIsNow ==
    ASSUME HeadersDistinct, IInv, Truth, pc = "open", dl.kind # "incremental", Reusable
    PROVE  PartName = NewPart /\ Start = 0 /\ Part # <<>> /\ IsMemoryOf(Part, ep)
<1>1. TypeOK /\ DownloadExtendsHeld /\ ep \in Epochs
  BY DEF IInv, TypeOK
<1>2. PartName = NewPart /\ Start = 0 /\ Part \in Bytes
  BY <1>1, StartOfDownload, TypeOfPart
<1>3. Part # <<>> /\ SubSeq(Part, 1, 1) = HeaderNow
  BY <1>2 DEF Reusable
<1>4. PICK e \in 1..ep : IsMemoryOf(Part, e)
  BY <1>2, <1>3, TypeOfConstants DEF Truth, PartsTrue, PartTrue, Part
<1>5. e \in Epochs
  BY <1>1, <1>4, TypeOfConstants DEF Epochs
<1>6. IsHeaderOf(HeaderNow, e) /\ IsHeaderOf(HeaderNow, ep)
  BY <1>1, <1>2, <1>3, <1>4, FirstIsHeader, HeaderNowIsHeader
<1>7. e = ep
  BY <1>1, <1>5, <1>6, HeaderTells
<1> QED
  BY <1>2, <1>3, <1>4, <1>7

LEMMA PartNowStep ==
    ASSUME HeadersDistinct, IInv, Truth, [Next]_vars
    PROVE  PartNow'
<1> SUFFICES ASSUME pc' = "block", dl'.kind # "incremental"
             PROVE  IsMemoryOf(parts'[NewPart], ep')
  BY DEF PartNow
<1>1. TypeOK /\ TagIsFresh /\ DownloadExtendsHeld /\ TypeOK'
  BY TypeStep DEF IInv
<1>2. CASE OpenPart
  <2>1. pc = "open" /\ dl.kind # "incremental" /\ ep' = ep
    BY <1>2 DEF OpenPart, local, logger
  <2>2. CASE Reusable
    <3>1. parts'[NewPart] = Part
      BY <1>2, <2>1, <2>2, ReusedIsNow DEF OpenPart, Part
    <3> QED
      BY <2>1, <2>2, <3>1, ReusedIsNow
  <2>3. CASE ~ Reusable
    <3>1. PartName = NewPart /\ Start = 0
      BY <1>1, <2>1, StartOfDownload
    <3>2. Renews
      BY <1>2, <2>3, <3>1 DEF OpenPart, Renews
    <3> QED
      BY <1>1, <3>2, RenewedPart
  <2> QED
    BY <2>2, <2>3
<1>3. CASE ReadBlock
  <2>1. pc = "block" /\ dl.kind # "incremental" /\ ep' = ep
    BY <1>3 DEF ReadBlock, local, logger
  <2>2. PartName = NewPart /\ Start = 0
    BY <1>1, <2>1, StartOfDownload
  <2>3. IsSegmentOf(parts'[NewPart], ep, 0)
    BY <1>1, <1>3, <2>2, ReadBlockReads, ReadsOn
  <2>4. parts'[NewPart] \in Bytes
    BY <1>1, TypeOfConstants DEF TypeOK
  <2> QED
    BY <2>1, <2>3, <2>4, SegmentFromStart
<1>4. CASE Environment \/ UNCHANGED vars
  <2>1. pc = "block" /\ dl.kind # "incremental"
    BY <1>4, EnvironmentEffect
  <2>2. parts' = parts /\ ep' = ep
    BY <1>4, <2>1 DEF vars, Environment, Log, EraseElsewhere, EnableElsewhere, ChangeHeader,
          DamageImage, disk, logger
  <2> QED
    BY <2>1, <2>2 DEF Truth, PartNow
<1>5. pc' = "block" => OpenPart \/ ReadBlock \/ Environment \/ UNCHANGED vars
  <2>1. ASSUME NEW t \in Tags, NEW f \in BOOLEAN, Begin(t, f) PROVE pc' # "block"
    BY <2>1 DEF Begin
  <2>2. FindHeld \/ FindNone \/ CheckMismatch \/ CheckHeaderChanged \/ CheckSame => pc' # "block"
    BY DEF FindHeld, FindNone, CheckMismatch, CheckHeaderChanged, CheckSame
  <2>3. ReceiveFull \/ ReceiveSegment \/ ReceiveVerified \/ ReceiveMismatch => pc' # "block"
    BY DEF ReceiveFull, ReceiveSegment, ReceiveVerified, ReceiveMismatch
  <2>4. StoreWhole \/ StoreAppend \/ WriteRecord \/ AfterRecord => pc' # "block"
    BY DEF StoreWhole, StoreAppend, WriteRecord, AfterRecord, RemovePart, AllRemoved,
           EraseMemory, EnableLogger
  <2>5. Ends => pc' # "block"
    BY EndsEffect
  <2> QED
    BY <2>1, <2>2, <2>3, <2>4, <2>5, NextByKind DEF Downloads
<1> QED
  BY <1>2, <1>3, <1>4, <1>5

-----------------------------------------------------------------------------
(* Every step keeps what is known of what is downloaded.                   *)

LEMMA SegmentReceived ==
    ASSUME IInv, Truth, ReceiveSegment
    PROVE  IsMemoryOf(held.data \o Part, ep) /\ IsHeaderOf(dl.header, ep)
<1>1. /\ TypeOK /\ DownloadExtendsHeld
      /\ pc = "block" /\ dl.kind = "incremental"
  BY DEF IInv, ReceiveSegment
<1>2. held # NoDeployment /\ Start = Len(held.data) /\ Part \in Bytes
  BY <1>1, StartOfDownload, TypeOfPart
<1>3. Holds(ep) /\ IsHeaderOf(dl.header, ep)
  BY <1>1, <1>2 DEF Truth, HeldNow, Extending, SegmentTrue
<1>4. held.data \in Bytes /\ IsMemoryOf(held.data, ep)
  BY <1>1, <1>2, <1>3, TypeOfHeld DEF Holds
<1>5. IsSegmentOf(Part, ep, Len(held.data))
  BY <1>1, <1>2, PartIsNow
<1> QED
  BY <1>2, <1>3, <1>4, <1>5, SegmentAppended

LEMMA AllReceived ==
    ASSUME IInv, Truth, ReceiveFull \/ ReceiveMismatch
    PROVE  IsMemoryOf(Part, ep) /\ IsHeaderOf(SubSeq(Part, 1, 1), ep)
<1>1. /\ TypeOK /\ DownloadExtendsHeld
      /\ pc = "block" /\ dl.kind # "incremental" /\ Offset = total /\ total > 0
  BY DEF IInv, DownloadExtendsHeld, ReceiveFull, ReceiveMismatch
<1>2. PartName = NewPart /\ Start = 0 /\ Part \in Bytes
  BY <1>1, StartOfDownload, TypeOfPart
<1>3. IsMemoryOf(Part, ep)
  BY <1>1, <1>2 DEF Truth, PartNow, Part
<1>4. Part # <<>>
  BY <1>1, <1>2 DEF Offset
<1> QED
  BY <1>2, <1>3, <1>4, FirstIsHeader

LEMMA VerifiedReceived ==
    ASSUME HeadersDistinct, IInv, Truth, ReceiveVerified
    PROVE  /\ IsMemoryOf(held.data \o SubSeq(Part, Len(held.data) + 1, Len(Part)), ep)
           /\ IsHeaderOf(SubSeq(Part, 1, 1), ep)
<1>1. /\ TypeOK /\ Holds(ep) /\ Part \in Bytes /\ IsMemoryOf(Part, ep)
      /\ held # NoDeployment /\ Len(held.data) \in 1..Len(Part) /\ Part # <<>>
  BY VerifiedIsNow DEF IInv
<1>2. held.data \in Bytes /\ IsMemoryOf(held.data, ep)
  BY <1>1, TypeOfHeld DEF Holds
<1> DEFINE n == Len(held.data)
           r == SubSeq(Part, n + 1, Len(Part))
<1>3. n \in 0..Len(Part)
  BY <1>1
<1> HIDE DEF n
<1>4. r \in Bytes /\ IsSegmentOf(r, ep, n)
  BY <1>1, <1>3, RestOfMemory
<1> HIDE DEF r
<1>5. IsMemoryOf(held.data \o r, ep)
  BY <1>2, <1>4, SegmentAppended DEF n
<1>6. IsHeaderOf(SubSeq(Part, 1, 1), ep)
  BY <1>1, FirstIsHeader
<1> QED
  BY <1>5, <1>6 DEF n, r

LEMMA StoredTrueStep ==
    ASSUME HeadersDistinct, IInv, Truth, [Next]_vars
    PROVE  StoredTrue'
<1> SUFFICES ASSUME pc' \in {"store", "record"}
             PROVE  IsMemoryOf(dl'.data, ep') /\ (dl'.data # <<>> => IsHeaderOf(dl'.header, ep'))
  BY DEF StoredTrue
<1>1. TypeOK /\ TagIsFresh /\ DownloadExtendsHeld /\ StoredTrue
  BY DEF IInv, Truth
<1>2. ASSUME NEW t \in Tags, NEW f \in BOOLEAN, Begin(t, f)
      PROVE  IsMemoryOf(dl'.data, ep') /\ dl'.data = <<>>
  <2>1. dl'.data = <<>>
    BY <1>1, <1>2 DEF Begin, TagIsFresh, NoDownload
  <2> QED
    BY <2>1 DEF IsMemoryOf
<1>3. CASE CheckSame
  <2>1. Holds(ep) /\ IsHeaderOf(HeaderNow, ep) /\ ep' = ep
    BY <1>1, <1>3, SameHeldIsNow, HeaderNowIsHeader DEF CheckSame, logger
  <2>2. dl'.data = held.data /\ dl'.header = HeaderNow
    BY <1>3 DEF CheckSame
  <2> QED
    BY <2>1, <2>2 DEF Holds
<1>4. CASE ReceiveFull \/ ReceiveMismatch
  <2>1. dl'.data = Part /\ dl'.header = SubSeq(Part, 1, 1) /\ ep' = ep
    BY <1>4 DEF ReceiveFull, ReceiveMismatch, logger
  <2> QED
    BY <1>4, <2>1, AllReceived
<1>5. CASE ReceiveSegment
  <2>1. dl'.data = held.data \o Part /\ dl'.header = dl.header /\ ep' = ep
    BY <1>1, <1>5 DEF ReceiveSegment, TypeOK, Downloaded, logger
  <2> QED
    BY <1>5, <2>1, SegmentReceived
<1>6. CASE ReceiveVerified
  <2>1. /\ dl'.data = held.data \o SubSeq(Part, Len(held.data) + 1, Len(Part))
        /\ dl'.header = SubSeq(Part, 1, 1) /\ ep' = ep
    BY <1>6 DEF ReceiveVerified, logger
  <2> QED
    BY <1>6, <2>1, VerifiedReceived
<1>7. CASE StoreWhole \/ StoreAppend
  <2>1. pc = "store" /\ dl' = dl /\ ep' = ep
    BY <1>7 DEF StoreWhole, StoreAppend, local, logger
  <2> QED
    BY <1>1, <2>1 DEF StoredTrue
<1>8. CASE Environment \/ UNCHANGED vars
  <2>1. pc' = pc /\ dl' = dl
    BY <1>8, EnvironmentEffect
  <2>2. ep' = ep
    BY <1>8, <2>1 DEF vars, Environment, Log, EraseElsewhere, EnableElsewhere, ChangeHeader,
          DamageImage, logger
  <2> QED
    BY <1>1, <2>1, <2>2 DEF StoredTrue
<1>9. FindHeld \/ FindNone \/ CheckMismatch \/ CheckHeaderChanged \/ OpenPart \/ ReadBlock => FALSE
  BY DEF FindHeld, FindNone, CheckMismatch, CheckHeaderChanged, OpenPart, ReadBlock
<1>10. WriteRecord \/ AfterRecord => FALSE
  BY DEF WriteRecord, AfterRecord, RemovePart, AllRemoved, EraseMemory, EnableLogger
<1>11. Ends => FALSE
  BY EndsEffect
<1> QED
  BY <1>2, <1>3, <1>4, <1>5, <1>6, <1>7, <1>8, <1>9, <1>10, <1>11, NextByKind DEF Downloads

LEMMA SegmentTrueStep ==
    ASSUME IInv, Truth, [Next]_vars
    PROVE  SegmentTrue'
<1> SUFFICES ASSUME pc' \in {"open", "block"}, dl'.kind = "incremental"
             PROVE  IsHeaderOf(dl'.header, ep') /\ Len(held'.data) <= total'
  BY DEF SegmentTrue
<1>1. TypeOK /\ TagIsFresh /\ DownloadExtendsHeld /\ SegmentTrue
  BY DEF IInv, Truth
<1>2. ASSUME NEW t \in Tags, NEW f \in BOOLEAN, Begin(t, f) PROVE FALSE
  BY <1>2 DEF Begin
<1>3. CASE CheckSame
  <2>1. held' = held /\ total' = total /\ ep' = ep /\ dl'.header = HeaderNow
    BY <1>3 DEF CheckSame, logger
  <2>2. Len(held.data) <= total
    <3>1. held # NoDeployment /\ total \in Nat
      BY <1>1, <1>3 DEF CheckSame, DownloadExtendsHeld, TypeOK
    <3>2. Len(held.data) \in Nat
      BY <1>1, <3>1, TypeOfHeld
    <3> QED
      BY <1>3, <3>1, <3>2 DEF CheckSame, SameHeld
  <2> QED
    BY <1>1, <2>1, <2>2, HeaderNowIsHeader
<1>4. CASE OpenPart \/ ReadBlock
  <2>1. pc \in {"open", "block"} /\ dl' = dl /\ held' = held /\ total' = total /\ ep' = ep
    BY <1>4 DEF OpenPart, ReadBlock, local, logger
  <2> QED
    BY <1>1, <2>1 DEF SegmentTrue
<1>5. CASE Environment \/ UNCHANGED vars
  <2>1. pc' = pc /\ dl' = dl /\ held' = held /\ total' = total
    BY <1>5, EnvironmentEffect
  <2>2. ep' = ep
    BY <1>5, <2>1 DEF vars, Environment, Log, EraseElsewhere, EnableElsewhere, ChangeHeader,
          DamageImage, logger
  <2> QED
    BY <1>1, <2>1, <2>2 DEF SegmentTrue
<1>6. FindHeld \/ FindNone \/ CheckMismatch \/ CheckHeaderChanged => FALSE
  <2>1. CASE FindHeld
    BY <1>1, <2>1 DEF FindHeld, Downloading, NoDownload
  <2>2. CASE FindNone \/ CheckMismatch \/ CheckHeaderChanged
    BY <2>2 DEF FindNone, CheckMismatch, CheckHeaderChanged, Downloading, NoDownload
  <2> QED
    BY <2>1, <2>2
<1>7. ReceiveFull \/ ReceiveSegment \/ ReceiveVerified \/ ReceiveMismatch => FALSE
  BY DEF ReceiveFull, ReceiveSegment, ReceiveVerified, ReceiveMismatch
<1>8. StoreWhole \/ StoreAppend \/ WriteRecord \/ AfterRecord => FALSE
  BY DEF StoreWhole, StoreAppend, WriteRecord, AfterRecord, RemovePart, AllRemoved,
         EraseMemory, EnableLogger
<1>9. Ends => FALSE
  BY EndsEffect
<1> QED
  BY <1>2, <1>3, <1>4, <1>5, <1>6, <1>7, <1>8, <1>9, NextByKind DEF Downloads

-----------------------------------------------------------------------------
(* Every step keeps the partial files within the logger's memory, so none  *)
(* is ever too long to be resumed.                                         *)

\* The memory of a deployment only grows, until it is erased.
LEMMA LimitKept ==
    ASSUME TypeOK, PartsFit, [Next]_vars, ~ Enables
    PROVE  /\ Limit' = 0 \/ (Limit > 0 /\ Limit <= Limit')
           /\ ~ Outside' => total' <= used' /\ (total' = 0 => used' = 0)
<1>1. used \in Nat /\ total \in Nat /\ used' = used'
  BY TypeOfConstants DEF TypeOK
<1>2. ~ Outside => total <= used /\ (total = 0 => used = 0)
  BY DEF PartsFit
<1>3. CASE UNCHANGED vars
  BY <1>1, <1>2, <1>3 DEF vars, Outside, Limit
<1>4. ASSUME NEW t \in Tags, NEW f \in BOOLEAN, Begin(t, f)
      PROVE  /\ Outside /\ total' = used /\ used' = used /\ pc' \in {"find", "record"}
  BY <1>4 DEF Begin, Outside, logger
<1>5. ASSUME NEW t \in Tags, NEW f \in BOOLEAN, Begin(t, f)
      PROVE  /\ Limit' = 0 \/ (Limit > 0 /\ Limit <= Limit')
             /\ ~ Outside' => total' <= used' /\ (total' = 0 => used' = 0)
  BY <1>1, <1>4, <1>5 DEF Outside, Limit
<1>6. ASSUME total' = total, used' = used, ~ Outside
      PROVE  /\ Limit' = 0 \/ (Limit > 0 /\ Limit <= Limit')
             /\ ~ Outside' => total' <= used' /\ (total' = 0 => used' = 0)
  BY <1>1, <1>2, <1>6 DEF Limit
<1>7. CASE FindHeld \/ Downloads
  BY <1>6, <1>7 DEF FindHeld, Downloads, FindNone, CheckMismatch, CheckHeaderChanged, CheckSame,
        OpenPart, ReadBlock, ReceiveFull, ReceiveSegment, ReceiveVerified, ReceiveMismatch,
        logger, local, Outside
<1>8. CASE StoreWhole \/ StoreAppend \/ WriteRecord
  BY <1>6, <1>8 DEF StoreWhole, StoreAppend, WriteRecord, logger, local, Outside
<1>9. CASE AfterRecord
  <2>1. CASE EraseMemory
    BY <2>1 DEF EraseMemory, Outside, Limit
  <2>2. CASE AllRemoved \/ \E p \in PartNames : RemovePart(p)
    BY <1>6, <2>2 DEF AllRemoved, RemovePart, logger, local, Outside
  <2> QED
    BY <1>9, <2>1, <2>2 DEF AfterRecord, Enables
<1>10. CASE Ends
  <2>1. used' = used /\ Outside'
    BY <1>10, EndsEffect DEF Ends, PartTooLong, TearBlock, TearAppend, Interrupt, LeaveLogger,
          logger, Outside
  <2> QED
    BY <1>1, <1>2, <2>1 DEF Limit
<1>11. CASE Environment
  <2>1. pc' = pc /\ total' = total
    BY <1>11, EnvironmentEffect
  <2>2. CASE EraseElsewhere
    BY <2>2 DEF EraseElsewhere, Outside, Limit
  <2>3. used' = used \/ (used > 0 /\ used' = used + 1) \/ EraseElsewhere
    BY <1>1, <1>11, TypeOfConstants DEF Enables, Environment, Log, ChangeHeader, DamageImage, logger
  <2>4. CASE used' = used \/ (used > 0 /\ used' = used + 1)
    BY <1>1, <1>2, <2>1, <2>4 DEF Outside, Limit
  <2> QED
    BY <2>2, <2>3, <2>4
<1> QED
  BY <1>3, <1>5, <1>7, <1>8, <1>9, <1>10, <1>11, NextByKind

LEMMA ReadsFit ==
    ASSUME IInv, Truth, NEW n \in Nat, Reads(n), [Next]_vars, Limit' > 0
    PROVE  Start + Len(parts'[PartName]) <= Limit'
<1>1. TypeOK /\ TypeOK' /\ PartsFit /\ pc = "block" /\ DownloadExtendsHeld
  BY TypeStep DEF IInv, Truth, Reads
<1>2. Limit = total /\ total \in Nat /\ Limit' \in Nat
  BY <1>1, TypeOfConstants DEF Limit, Outside, TypeOK
<1>3. ~ Enables
  BY <1>1 DEF Enables, EnableElsewhere, EnableLogger
<1>4. Limit <= Limit'
  BY <1>1, <1>2, <1>3, LimitKept
<1>5. /\ Start + Len(parts'[PartName]) = Offset + n
      /\ Offset + n \in Nat /\ Offset + n <= total
  BY ReadsOn
<1> QED
  BY <1>2, <1>4, <1>5

LEMMA NewFitsStep ==
    ASSUME HeadersDistinct, IInv, Truth, [Next]_vars, Limit' > 0
    PROVE  NewFits'
<1> SUFFICES ASSUME parts'[NewPart] # <<>>, IsMemoryOf(parts'[NewPart], ep')
             PROVE  Len(parts'[NewPart]) <= Limit'
  BY DEF NewFits
<1>1. /\ TypeOK /\ TypeOK' /\ PartsFit /\ DownloadExtendsHeld /\ NewPart \in PartNames
      /\ ep \in Epochs /\ ep \in Nat /\ ep' \in Epochs
  BY TypeStep, TypeOfConstants DEF IInv, Truth, TypeOK, Epochs
<1>2. Limit \in Nat /\ Limit' \in Nat
  BY <1>1, TypeOfConstants DEF Limit, TypeOK
<1>3. CASE Enables
  <2>1. parts'[NewPart] = parts[NewPart] /\ ep' = ep + 1
    BY <1>1, <1>3, EpochKept
  <2>2. PICK e \in 1..ep : IsMemoryOf(parts[NewPart], e)
    BY <1>1, <2>1 DEF Truth, PartsTrue, PartTrue
  <2>3. e \in Epochs /\ e # ep'
    BY <1>1, <2>1, <2>2, TypeOfConstants DEF Epochs
  <2>4. parts[NewPart] \in Bytes
    BY <1>1 DEF TypeOK
  <2> QED
    BY <1>1, <2>1, <2>2, <2>3, <2>4, MemoryTells
<1>4. ASSUME ~ Enables, parts'[NewPart] = parts[NewPart]
      PROVE  Len(parts'[NewPart]) <= Limit'
  <2>1. ep' = ep
    BY <1>1, <1>4, EpochKept
  <2>2. Limit > 0 /\ Limit <= Limit'
    BY <1>1, <1>2, <1>4, LimitKept
  <2>3. Len(parts[NewPart]) <= Limit
    BY <1>1, <1>4, <2>1, <2>2 DEF PartsFit, NewFits
  <2>4. Len(parts[NewPart]) \in Nat
    BY <1>1 DEF TypeOK, Bytes
  <2> QED
    BY <1>2, <1>4, <2>2, <2>3, <2>4
<1>5. CASE Renews
  <2>1. Len(parts'[NewPart]) = 1
    BY <1>1, <1>5, RenewedPart
  <2> QED
    BY <1>2, <2>1
<1>6. ASSUME NEW n \in Nat, Reads(n), PartName = NewPart
      PROVE  Len(parts'[NewPart]) <= Limit'
  <2>1. Start = 0
    BY <1>1, <1>6, StartOfDownload DEF Reads
  <2>2. Start + Len(parts'[NewPart]) <= Limit'
    BY <1>6, ReadsFit
  <2>3. Len(parts'[NewPart]) \in Nat
    BY <1>1 DEF TypeOK, Bytes
  <2> QED
    BY <2>1, <2>2, <2>3
<1>7. ASSUME NEW n \in Nat, Reads(n), PartName # NewPart
      PROVE  parts'[NewPart] = parts[NewPart]
  BY <1>1, <1>7, ReadsOn
<1>8. ASSUME NEW p \in PartNames, parts' = [parts EXCEPT ![p] = <<>>]
      PROVE  parts'[NewPart] = parts[NewPart]
  BY <1>1, <1>8 DEF TypeOK
<1> QED
  BY <1>1, <1>3, <1>4, <1>5, <1>6, <1>7, <1>8, PartsKept

LEMMA SegmentFitsStep ==
    ASSUME IInv, Truth, [Next]_vars, Limit' > 0, NEW t \in Recorded', NEW k \in 1..MaxLen
    PROVE  SegmentFits(t, k)'
<1> DEFINE s == records'[t].stem
           p == <<s, k>>
<1> SUFFICES ASSUME parts'[p] # <<>>, records'[t].ep = ep'
             PROVE  k + Len(parts'[p]) <= Limit'
  BY DEF SegmentFits
<1>1. /\ TypeOK /\ TypeOK' /\ TagIsFresh /\ PartsFit /\ DownloadExtendsHeld
      /\ ep \in Nat /\ MaxLen \in Nat
  BY TypeStep, TypeOfConstants DEF IInv, Truth, TypeOK, Epochs
<1>2. Limit \in Nat /\ Limit' \in Nat
  BY <1>1 DEF Limit, TypeOK
<1>3. t \in Tags /\ s \in Tags
  BY <1>1, TypeOfRecord DEF Recorded, TypeOK, NoRecord, Record
<1>4. p \in PartNames /\ p # NewPart
  BY <1>3, TypeOfConstants DEF PartNames, NewPart
<1>5. Len(parts'[p]) \in Nat
  BY <1>1, <1>4 DEF TypeOK, Bytes
<1> HIDE DEF p
<1>6. CASE Enables
  <2>1. ep' = ep + 1 /\ records' = records /\ t \in Recorded
    BY <1>1, <1>6, EpochKept DEF Recorded
  <2>2. records[t].ep <= ep
    BY <2>1 DEF Truth, RecordsTrue
  <2> QED
    BY <1>1, <2>1, <2>2
<1>7. ASSUME ~ Enables, parts'[p] = parts[p], NEW u \in Recorded,
             records[u].stem = s, records[u].ep = ep
      PROVE  k + Len(parts'[p]) <= Limit'
  <2>1. Limit > 0 /\ Limit <= Limit'
    BY <1>1, <1>2, <1>7, LimitKept
  <2>2. k + Len(parts[p]) <= Limit
    BY <1>7, <2>1 DEF PartsFit, SegmentFits, p, Truth
  <2> QED
    BY <1>2, <1>5, <1>7, <2>1, <2>2
<1>8. ASSUME ~ Enables, parts'[p] = parts[p]
      PROVE  k + Len(parts'[p]) <= Limit'
  <2>1. ep' = ep
    BY <1>1, <1>8, EpochKept
  <2>2. CASE t \in Recorded
    <3>1. records'[t] = records[t]
      BY <1>1, <2>2, RecordsKept
    <3> QED
      BY <1>7, <1>8, <2>1, <2>2, <3>1
  <2>3. CASE t \notin Recorded
    <3>1. Adds /\ t = tag /\ s = Stem
      BY <1>1, <2>3, RecordsKept
    <3>2. pc = "record" /\ dl.data # <<>>
      BY <3>1 DEF Adds, WriteRecord
    <3>3. PICK u \in Recorded : records[u].stem = s
      BY <1>4, <1>8, <3>1 DEF Truth, PartsTrue, PartTrue, p
    <3>4. held # NoDeployment /\ Stem = held.stem
      BY <1>1, <3>1, <3>2, <3>3 DEF TagIsFresh, Stem
    <3>5. Holds(ep)
      BY <3>2, <3>4 DEF Truth, HeldNow, Extending
    <3>6. records[u].ep = ep
      BY <3>1, <3>3, <3>4, <3>5, HeldByRecords DEF Truth
    <3> QED
      BY <1>7, <1>8, <3>3, <3>6
  <2> QED
    BY <2>2, <2>3
<1>9. ASSUME NEW n \in Nat, Reads(n), PartName = p
      PROVE  k + Len(parts'[p]) <= Limit'
  <2>1. PartName = <<held.stem, Start>>
    BY <1>1, <1>4, <1>9, StartOfDownload DEF Reads
  <2>2. k = Start
    BY <1>9, <2>1 DEF p
  <2> QED
    BY <1>9, <2>2, ReadsFit
<1>10. ASSUME NEW n \in Nat, Reads(n), PartName # p
       PROVE  parts'[p] = parts[p]
  BY <1>4, <1>10, ReadsOn
<1>11. ASSUME NEW q \in PartNames, parts' = [parts EXCEPT ![q] = <<>>]
       PROVE  parts'[p] = parts[p]
  BY <1>1, <1>4, <1>11 DEF TypeOK
<1>12. Renews => parts'[p] = parts[p]
  BY <1>1, <1>4, RenewedPart
<1> QED
  BY <1>1, <1>6, <1>8, <1>9, <1>10, <1>11, <1>12, PartsKept

LEMMA PartsFitStep ==
    ASSUME HeadersDistinct, IInv, Truth, [Next]_vars
    PROVE  PartsFit'
<1>1. TypeOK /\ PartsFit
  BY DEF IInv, Truth
<1>2. ~ Outside' => total' <= used' /\ (total' = 0 => used' = 0)
  BY <1>1, LimitKept, EpochKept
<1> QED
  BY <1>2, NewFitsStep, SegmentFitsStep DEF PartsFit

\* Neither a whole partial file nor one of a segment is too long.
LEMMA NeverTooLong ==
    ASSUME HeadersDistinct, IInv, Truth, PartTooLong
    PROVE  FALSE
<1>1. /\ TypeOK /\ DownloadExtendsHeld /\ pc = "open" /\ Reusable /\ Offset > total
      /\ PartsFit /\ SegmentTrue /\ ep \in Epochs
  BY DEF IInv, Truth, TypeOK, PartTooLong
<1>2. total \in Nat /\ total > 0 /\ Limit = total
  BY <1>1 DEF TypeOK, DownloadExtendsHeld, Limit, Outside
<1>3. /\ PartName \in PartNames /\ Part \in Bytes /\ Start \in Nat
      /\ Len(Part) \in Nat /\ Offset = Start + Len(Part)
  BY <1>1, TypeOfPart DEF Bytes, Offset
<1>4. CASE dl.kind # "incremental"
  <2>1. PartName = NewPart /\ Start = 0 /\ Part # <<>> /\ IsMemoryOf(Part, ep)
    BY <1>1, <1>4, ReusedIsNow
  <2>2. Len(Part) <= total
    BY <1>1, <1>2, <2>1 DEF PartsFit, NewFits, Part
  <2> QED
    BY <1>1, <1>2, <1>3, <2>1, <2>2
<1>5. CASE dl.kind = "incremental"
  <2>1. /\ held # NoDeployment /\ Start = Len(held.data) /\ Start \in 1..MaxLen
        /\ PartName = <<held.stem, Start>> /\ Start <= total
    BY <1>1, <1>5, StartOfDownload DEF SegmentTrue
  <2>2. Part # <<>>
    BY <1>1, <1>2, <1>3, <2>1
  <2>3. Holds(ep)
    BY <1>1, <1>5, <2>1 DEF Truth, HeldNow, Extending
  <2>4. PICK t \in Recorded : records[t].stem = held.stem /\ records[t].ep = ep
    BY <2>3 DEF Holds
  <2>5. Start + Len(Part) <= total
    BY <1>1, <1>2, <2>1, <2>2, <2>4 DEF PartsFit, SegmentFits, Part
  <2> QED
    BY <1>1, <1>2, <1>3, <2>5
<1> QED
  BY <1>4, <1>5

LEMMA NeverStuckStep ==
    ASSUME HeadersDistinct, IInv, Truth, [Next]_vars
    PROVE  NeverStuckOnPart'
<1>1. outcome' = outcome \/ outcome' \in {"none", "ok", "stopped"} \/ PartTooLong
  <2>1. ASSUME NEW t \in Tags, NEW f \in BOOLEAN, Begin(t, f) PROVE outcome' = "none"
    BY <2>1 DEF Begin
  <2>2. FindHeld \/ Downloads => outcome' = outcome
    BY DEF FindHeld, Downloads, FindNone, CheckMismatch, CheckHeaderChanged, CheckSame,
        OpenPart, ReadBlock, ReceiveFull, ReceiveSegment, ReceiveVerified, ReceiveMismatch
  <2>3. StoreWhole \/ StoreAppend \/ WriteRecord \/ AfterRecord => outcome' = outcome
    BY DEF StoreWhole, StoreAppend, WriteRecord, AfterRecord, RemovePart, AllRemoved,
           EraseMemory, EnableLogger
  <2>4. Ends => outcome' \in {"ok", "stopped"} \/ PartTooLong
    BY DEF Ends, TearBlock, TearAppend, Interrupt, LeaveLogger, EndWith
  <2>5. Environment \/ UNCHANGED vars => outcome' = outcome
    BY DEF vars, Environment, Log, EraseElsewhere, EnableElsewhere, ChangeHeader, DamageImage
  <2> QED
    BY <2>1, <2>2, <2>3, <2>4, <2>5, NextByKind
<1> QED
  BY <1>1, NeverTooLong DEF Truth, NeverStuckOnPart

-----------------------------------------------------------------------------
(* The theorems.                                                           *)

LEMMA InitTruth == Init => Truth
<1> SUFFICES ASSUME Init PROVE Truth
  OBVIOUS
<1>1. Recorded = {}
  BY DEF Init, Recorded, NoRecord
<1>2. \A p \in PartNames : parts[p] = <<>>
  BY DEF Init
<1>3. NewPart \in PartNames
  BY TypeOfConstants
<1>4. RecordsTrue /\ DeploymentsNotMerged
  BY <1>1 DEF RecordsTrue, DeploymentsNotMerged
<1>5. HeldTrue /\ HeldNow
  BY DEF Init, HeldTrue, HeldNow, Extending
<1>6. PartsTrue /\ PartNow
  BY <1>2 DEF Init, PartsTrue, PartTrue, PartNow
<1>7. StoredTrue /\ SegmentTrue /\ NeverStuckOnPart
  BY DEF Init, StoredTrue, SegmentTrue, NeverStuckOnPart
<1>8. PartsFit
  BY <1>1, <1>2, <1>3 DEF Init, PartsFit, NewFits, Outside
<1> QED
  BY <1>4, <1>5, <1>6, <1>7, <1>8 DEF Truth

\* Both strengthened invariants hold in every reachable state.
LEMMA TruthInvariance == HeadersDistinct => (Spec => [](IInv /\ Truth))
<1> SUFFICES ASSUME HeadersDistinct PROVE Spec => [](IInv /\ Truth)
  OBVIOUS
<1>1. IInv /\ Truth /\ [Next]_vars => IInv'
  BY TypeStep, FilesStep, FreshStep, HeldStep, DownloadStep DEF IInv, FilesInOrder
<1>2. IInv /\ Truth /\ [Next]_vars => Truth'
  BY RecordsTrueStep, HeldTrueStep, HeldNowStep, PartsTrueStep, PartNowStep, StoredTrueStep,
     SegmentTrueStep, PartsFitStep, NeverStuckStep DEF Truth
<1> QED
  BY InitIInv, InitTruth, <1>1, <1>2, PTL DEF Spec

\* What a record describes is memory of the deployment that was on the logger, all from
\* its first byte and none of another one, whatever was resumed or extended
\* (solo.download and L2Driver.download), if no two deployments share a header.
THEOREM RecordsStayTrue == HeadersDistinct => (Spec => []RecordsAreTrue)
<1>1. Truth => RecordsAreTrue
  BY DEF Truth, RecordsTrue, RecordsAreTrue
<1> QED
  BY TruthInvariance, <1>1, PTL

\* An erased and re-enabled logger never extends the old deployment's image
\* (L2Driver.download's identity checks), if no two deployments share a header.
THEOREM NeverMerged == HeadersDistinct => (Spec => []DeploymentsNotMerged)
<1>1. Truth => DeploymentsNotMerged
  BY DEF Truth
<1> QED
  BY TruthInvariance, <1>1, PTL

\* No partial file is ever too long to be resumed (solo.download), so no offload ends
\* in a state the tool does not leave by itself, if no two deployments share a header.
THEOREM NeverStuck == HeadersDistinct => (Spec => []NeverStuckOnPart)
<1>1. Truth => NeverStuckOnPart
  BY DEF Truth
<1> QED
  BY TruthInvariance, <1>1, PTL

-----------------------------------------------------------------------------
(***************************************************************************)
(* That nothing of a deployment is let go before it is saved: neither the  *)
(* logger's memory, nor the partial files, nor the tail of an image.       *)
(***************************************************************************)

\* The image of what is held is as it was held, or was cut short since.
HeldIsCut ==
    (pc \in {"check", "open", "block", "store"} /\ held # NoDeployment)
        => IsPrefix(image[held.stem], held.data)

\* All of the snapshot is downloaded, then stored, then recorded.
AllStored == pc \in {"store", "record"} => Len(dl.data) = total
AllRecorded ==
    (pc \in {"unlink", "configure"} /\ total > 0)
        => \E t \in Recorded : records[t].ep = ep /\ Len(records[t].sum) = total

Kept == HeldIsCut /\ AllStored /\ AllRecorded

-----------------------------------------------------------------------------
\* A file cut short is a prefix of what the file was a prefix of.
LEMMA CutPrefix ==
    ASSUME NEW f \in Bytes, NEW g \in Bytes, IsPrefix(f, g), NEW n \in 0..(Len(f) - 1)
    PROVE  IsPrefix(SubSeq(f, 1, n), g)
<1> DEFINE r == SubSeq(f, 1, n)
<1>1. Len(f) \in Nat /\ n \in Nat /\ n <= Len(f)
  BY DEF Bytes
<1>2. r \in Bytes /\ Len(r) = n /\ \A i \in 1..n : r[i] = f[i]
  BY <1>1, SubSeqProperties DEF Bytes
<1> HIDE DEF r
<1>3. Len(f) <= Len(g) /\ \A i \in 1..Len(f) : f[i] = g[i]
  BY PrefixByCell DEF Bytes
<1>4. Len(g) \in Nat
  BY DEF Bytes
<1>5. Len(r) <= Len(g) /\ \A i \in 1..Len(r) : r[i] = g[i]
  BY <1>1, <1>2, <1>3, <1>4
<1>6. IsPrefix(r, g)
  BY <1>2, <1>5, PrefixByCell DEF Bytes
<1> QED
  BY <1>6 DEF r

LEMMA CutStep ==
    ASSUME IInv, HeldIsCut, [Next]_vars
    PROVE  HeldIsCut'
<1> SUFFICES ASSUME pc' \in {"check", "open", "block", "store"}, held' # NoDeployment
             PROVE  IsPrefix(image'[held'.stem], held'.data)
  BY DEF HeldIsCut
<1>1. TypeOK /\ TagIsFresh /\ DownloadExtendsHeld
  BY DEF IInv
<1>2. ASSUME NEW t \in Tags, NEW f \in BOOLEAN, Begin(t, f) PROVE FALSE
  BY <1>1, <1>2 DEF Begin, TagIsFresh
<1>3. CASE FindHeld
  <2>1. PICK l \in Recorded : /\ held' = HeldFrom(records[l])
                              /\ image' = [image EXCEPT ![records[l].stem] = records[l].sum]
    BY <1>3 DEF FindHeld
  <2>2. records[l].stem \in Tags /\ records[l].sum \in Bytes
    BY <1>1, TypeOfRecord
  <2>3. image'[held'.stem] = records[l].sum /\ held'.data = records[l].sum
    BY <1>1, <2>1, <2>2 DEF TypeOK, HeldFrom
  <2> QED
    BY <2>2, <2>3, PrefixReflexive DEF Bytes
<1>4. CASE Downloads
  <2>1. image' = image /\ held' = held
    BY <1>4 DEF Downloads, FindNone, CheckMismatch, CheckHeaderChanged, CheckSame,
          OpenPart, ReadBlock, ReceiveFull, ReceiveSegment, ReceiveVerified,
          ReceiveMismatch, NewDeployment, disk, local
  <2>2. pc \in {"check", "open", "block"}
    BY <1>1, <1>4, <2>1 DEF Downloads, FindNone, CheckMismatch, CheckHeaderChanged, CheckSame,
          OpenPart, ReadBlock, ReceiveFull, ReceiveSegment, ReceiveVerified,
          ReceiveMismatch, DownloadExtendsHeld
  <2> QED
    BY <2>1, <2>2 DEF HeldIsCut
<1>5. StoreWhole \/ StoreAppend \/ WriteRecord \/ AfterRecord \/ Ends => FALSE
  BY EndsEffect DEF StoreWhole, StoreAppend, WriteRecord, AfterRecord, RemovePart, AllRemoved,
        EraseMemory, EnableLogger
<1>6. CASE Environment \/ UNCHANGED vars
  <2>1. pc' = pc /\ held' = held
    BY <1>6, EnvironmentEffect
  <2>2. IsPrefix(image[held.stem], held.data)
    BY <2>1 DEF HeldIsCut
  <2>3. held.stem \in Tags /\ held.data \in Bytes /\ image[held.stem] \in Bytes
    BY <1>1, <2>1, TypeOfHeld DEF TypeOK
  <2>4. CASE image' = image
    BY <2>1, <2>2, <2>4
  <2>5. ASSUME NEW s \in Tags, DamageImage(s) PROVE IsPrefix(image'[held.stem], held.data)
    <3>1. PICK n \in 0..(Len(image[s]) - 1) :
             image' = [image EXCEPT ![s] = SubSeq(image[s], 1, n)]
      BY <2>5 DEF DamageImage
    <3>2. CASE s = held.stem
      <4>1. image'[held.stem] = SubSeq(image[held.stem], 1, n)
        BY <1>1, <2>3, <3>1, <3>2 DEF TypeOK
      <4>2. n \in 0..(Len(image[held.stem]) - 1)
        BY <3>1, <3>2
      <4> QED
        BY <2>2, <2>3, <4>1, <4>2, CutPrefix
    <3>3. CASE s # held.stem
      <4>1. image'[held.stem] = image[held.stem]
        BY <1>1, <2>3, <3>1, <3>3 DEF TypeOK
      <4> QED
        BY <2>2, <4>1
    <3> QED
      BY <3>2, <3>3
  <2>6. image' = image \/ \E s \in Tags : DamageImage(s)
    BY <1>6 DEF vars, Environment, Log, EraseElsewhere, EnableElsewhere, ChangeHeader, disk
  <2> QED
    BY <2>1, <2>4, <2>5, <2>6
<1> QED
  BY <1>2, <1>3, <1>4, <1>5, <1>6, NextByKind

LEMMA RestOfFile ==
    ASSUME NEW f \in Bytes, NEW n \in 0..Len(f)
    PROVE  SubSeq(f, n + 1, Len(f)) \in Bytes /\ Len(SubSeq(f, n + 1, Len(f))) = Len(f) - n
<1>1. Len(f) \in Nat
  BY DEF Bytes
<1> QED
  BY <1>1, SubSeqProperties DEF Bytes

LEMMA StoredStep ==
    ASSUME IInv, AllStored, [Next]_vars
    PROVE  AllStored'
<1> SUFFICES ASSUME pc' \in {"store", "record"}
             PROVE  Len(dl'.data) = total'
  BY DEF AllStored
<1>1. TypeOK /\ TagIsFresh /\ DownloadExtendsHeld
  BY DEF IInv
<1>2. ASSUME NEW t \in Tags, NEW f \in BOOLEAN, Begin(t, f) PROVE Len(dl'.data) = total'
  <2>1. used = 0 /\ total' = used /\ dl'.data = <<>>
    BY <1>1, <1>2, TypeOfConstants DEF Begin, TagIsFresh, NoDownload, TypeOK
  <2> QED
    BY <2>1
<1>3. CASE CheckSame
  <2>1. /\ dl'.data = held.data /\ total' = total /\ ~ (total > Len(held.data))
        /\ total >= Len(held.data)
    BY <1>3 DEF CheckSame, SameHeld
  <2>2. Len(held.data) \in Nat /\ total \in Nat
    BY <1>1, <1>3, TypeOfHeld DEF CheckSame, DownloadExtendsHeld, TypeOK
  <2> QED
    BY <2>1, <2>2
<1>4. CASE ReceiveFull \/ ReceiveMismatch
  <2>1. /\ dl'.data = Part /\ total' = total /\ Offset = total
        /\ pc = "block" /\ dl.kind # "incremental"
    BY <1>4 DEF ReceiveFull, ReceiveMismatch
  <2>2. Start = 0 /\ Part \in Bytes
    BY <1>1, <2>1, StartOfDownload, TypeOfPart
  <2>3. Len(Part) = Offset
    BY <2>2 DEF Offset, Bytes
  <2> QED
    BY <2>1, <2>3
<1>5. CASE ReceiveSegment
  <2>1. /\ dl'.data = held.data \o Part /\ total' = total /\ Offset = total
        /\ pc = "block" /\ dl.kind = "incremental"
    BY <1>1, <1>5 DEF ReceiveSegment, TypeOK, Downloaded
  <2>2. held # NoDeployment /\ Start = Len(held.data) /\ Part \in Bytes
    BY <1>1, <2>1, StartOfDownload, TypeOfPart
  <2>3. held.data \in Bytes
    BY <1>1, <2>2, TypeOfHeld
  <2>4. Len(held.data \o Part) = Start + Len(Part)
    BY <2>2, <2>3 DEF Bytes
  <2> QED
    BY <2>1, <2>4 DEF Offset
<1>6. CASE ReceiveVerified
  <2> DEFINE n == Len(held.data)
             r == SubSeq(Part, n + 1, Len(Part))
  <2>1. /\ dl'.data = held.data \o r /\ total' = total /\ Offset = total
        /\ pc = "block" /\ dl.kind = "full-verified" /\ n <= Len(Part)
    BY <1>6 DEF ReceiveVerified, Verified
  <2>2. Start = 0 /\ Part \in Bytes /\ held # NoDeployment
    BY <1>1, <2>1, StartOfDownload, TypeOfPart DEF DownloadExtendsHeld
  <2>3. held.data \in Bytes /\ n \in Nat /\ Len(Part) \in Nat
    BY <1>1, <2>2, TypeOfHeld DEF Bytes
  <2> HIDE DEF n
  <2>4. Len(r) = Len(Part) - n /\ r \in Bytes
    BY <2>1, <2>2, <2>3, RestOfFile
  <2> HIDE DEF r
  <2>5. Len(held.data \o r) = n + Len(r)
    BY <2>3, <2>4 DEF Bytes, n
  <2>6. Len(Part) = Offset
    BY <2>2, <2>3 DEF Offset
  <2>7. n + Len(r) = total
    BY <2>1, <2>3, <2>4, <2>6
  <2> QED
    BY <2>1, <2>5, <2>7
<1>7. CASE StoreWhole \/ StoreAppend
  BY <1>7 DEF StoreWhole, StoreAppend, local, AllStored
<1>8. CASE Environment \/ UNCHANGED vars
  BY <1>8, EnvironmentEffect DEF AllStored
<1>9. FindHeld \/ FindNone \/ CheckMismatch \/ CheckHeaderChanged \/ OpenPart \/ ReadBlock => FALSE
  BY DEF FindHeld, FindNone, CheckMismatch, CheckHeaderChanged, OpenPart, ReadBlock
<1>10. WriteRecord \/ AfterRecord => FALSE
  BY DEF WriteRecord, AfterRecord, RemovePart, AllRemoved, EraseMemory, EnableLogger
<1>11. Ends => FALSE
  BY EndsEffect
<1> QED
  BY <1>2, <1>3, <1>4, <1>5, <1>6, <1>7, <1>8, <1>9, <1>10, <1>11, NextByKind DEF Downloads

LEMMA RecordedStep ==
    ASSUME IInv, AllStored, AllRecorded, [Next]_vars
    PROVE  AllRecorded'
<1> SUFFICES ASSUME pc' \in {"unlink", "configure"}, total' > 0
             PROVE  \E t \in Recorded' : records'[t].ep = ep' /\ Len(records'[t].sum) = total'
  BY DEF AllRecorded
<1>1. TypeOK /\ TagIsFresh
  BY DEF IInv
<1>2. CASE WriteRecord
  <2>1. pc = "record" /\ total' = total /\ ep' = ep /\ Len(dl.data) = total
    BY <1>2 DEF WriteRecord, local, logger, AllStored
  <2>2. Adds
    BY <1>2, <2>1 DEF Adds
  <2>3. tag \in Recorded' /\ records'[tag].sum = dl.data /\ records'[tag].ep = ep
    BY <1>1, <2>2, RecordsKept
  <2> QED
    BY <2>1, <2>3
<1>3. ASSUME pc \in {"unlink", "configure"}, total' = total, ep' = ep
      PROVE  \E t \in Recorded' : records'[t].ep = ep' /\ Len(records'[t].sum) = total'
  BY <1>1, <1>3, RecordsKept DEF AllRecorded
<1>4. CASE AfterRecord
  BY <1>3, <1>4 DEF AfterRecord, RemovePart, AllRemoved, EraseMemory, EnableLogger, logger, local
<1>5. CASE Environment \/ UNCHANGED vars
  <2>1. pc' = pc /\ total' = total
    BY <1>5, EnvironmentEffect
  <2>2. ep' = ep
    BY <1>5, <2>1 DEF vars, Environment, Log, EraseElsewhere, EnableElsewhere, ChangeHeader,
          DamageImage, logger
  <2> QED
    BY <1>3, <2>1, <2>2
<1>6. ASSUME NEW t \in Tags, NEW f \in BOOLEAN, Begin(t, f) PROVE FALSE
  BY <1>6 DEF Begin
<1>7. FindHeld \/ Downloads => FALSE
  BY DEF FindHeld, Downloads, FindNone, CheckMismatch, CheckHeaderChanged, CheckSame,
        OpenPart, ReadBlock, ReceiveFull, ReceiveSegment, ReceiveVerified, ReceiveMismatch
<1>8. StoreWhole \/ StoreAppend \/ Ends => FALSE
  BY EndsEffect DEF StoreWhole, StoreAppend
<1> QED
  BY <1>2, <1>4, <1>5, <1>6, <1>7, <1>8, NextByKind

\* Where nobody else damaged a file, what a record describes is in its image.
LEMMA RecordedIsSaved ==
    ASSUME IInv, Truth, lost = {}, NEW t \in Recorded, NEW n, Len(records[t].sum) >= n
    PROVE  Saved(records[t].ep, n)
<1>1. IsPrefix(records[t].sum, image[records[t].stem])
  BY DEF IInv, RecordsDescribePrefixes
<1>2. IsMemoryOf(records[t].sum, records[t].ep)
  BY DEF Truth, RecordsTrue
<1> QED
  BY <1>1, <1>2 DEF Saved, Recorded

LEMMA EraseStep ==
    ASSUME IInv, Truth, AllRecorded, pc = "configure"
    PROVE  Saved(ep, total) \/ total = 0 \/ lost # {}
<1> SUFFICES ASSUME total # 0, lost = {} PROVE Saved(ep, total)
  OBVIOUS
<1>1. total \in Nat /\ total > 0
  BY TypeOfConstants DEF IInv, TypeOK
<1>2. PICK t \in Recorded : records[t].ep = ep /\ Len(records[t].sum) = total
  BY <1>1 DEF AllRecorded
<1> QED
  BY <1>1, <1>2, RecordedIsSaved

LEMMA WholeStep ==
    ASSUME IInv, HeldIsCut, [Next]_vars, pc = "store", pc' = "record"
    PROVE  image'[Stem] = dl.data
<1>1. TypeOK /\ TagIsFresh /\ HeldIsOnDisk /\ DownloadExtendsHeld
  BY DEF IInv
<1>2. Stem \in Tags
  BY <1>1, TypeOfStem
<1>3. CASE StoreWhole
  BY <1>1, <1>2, <1>3 DEF StoreWhole, TypeOK
<1>4. CASE StoreAppend
  <2>1. /\ held # NoDeployment /\ Stem = held.stem /\ held.data \in Bytes
        /\ dl.offset = Len(held.data) /\ IsPrefix(held.data, dl.data)
    BY <1>1, <1>4, AppendToHeld DEF StoreAppend
  <2>2. IsPrefix(image[Stem], held.data) /\ Len(image[Stem]) = Len(held.data)
    BY <1>4, <2>1 DEF HeldIsCut, StoreAppend, Whole
  <2>3. image[Stem] \in Bytes /\ dl.data \in Bytes
    BY <1>1, <1>2 DEF TypeOK, Downloaded
  <2>4. image[Stem] = held.data
    <3>1. \A i \in 1..Len(held.data) : image[Stem][i] = held.data[i]
      BY <2>1, <2>2, <2>3, PrefixByCell DEF Bytes
    <3> QED
      BY <2>1, <2>2, <2>3, <3>1, SeqEqual DEF Bytes
  <2>5. image'[Stem] = held.data \o SubSeq(dl.data, Len(held.data) + 1, Len(dl.data))
    BY <1>1, <1>2, <1>4, <2>1, <2>4 DEF StoreAppend, Segment, TypeOK
  <2> QED
    BY <2>1, <2>3, <2>5, AppendRest DEF Bytes
<1>5. StoreWhole \/ StoreAppend
  <2>1. ASSUME NEW t \in Tags, NEW f \in BOOLEAN, Begin(t, f) PROVE FALSE
    BY <2>1 DEF Begin
  <2>2. FindHeld \/ Downloads => FALSE
    BY DEF FindHeld, Downloads, FindNone, CheckMismatch, CheckHeaderChanged, CheckSame,
        OpenPart, ReadBlock, ReceiveFull, ReceiveSegment, ReceiveVerified, ReceiveMismatch
  <2>3. WriteRecord \/ AfterRecord \/ Ends => FALSE
    BY EndsEffect DEF WriteRecord, AfterRecord, RemovePart, AllRemoved, EraseMemory, EnableLogger
  <2>4. Environment \/ UNCHANGED vars => FALSE
    BY EnvironmentEffect
  <2> QED
    BY <2>1, <2>2, <2>3, <2>4, NextByKind
<1> QED
  BY <1>3, <1>4, <1>5

-----------------------------------------------------------------------------
(* Partial files, which take headers that tell deployments apart.          *)

\* A file emptied after the record was of a deployment that is saved, or of another.
LEMMA UnlinkStep ==
    ASSUME HeadersDistinct, IInv, Truth, AllRecorded, lost = {}, total > 0, pc = "unlink",
           NEW p \in PartNames, parts[p] # <<>>
    PROVE  \/ Saved(ep, IF p = NewPart THEN Len(parts[p]) ELSE p[2] + Len(parts[p]))
           \/ p = NewPart /\ SubSeq(parts[p], 1, 1) # HeaderNow
           \/ \E t \in OfStem(p[1]) : records[t].ep # ep
<1>1. /\ TypeOK /\ PartsFit /\ PartsTrue /\ Limit = total /\ ep \in Epochs
      /\ total \in Nat /\ parts[p] \in Bytes /\ Len(parts[p]) \in Nat
  BY DEF IInv, Truth, Limit, Outside, TypeOK, Bytes
<1>2. PICK t \in Recorded : records[t].ep = ep /\ Len(records[t].sum) = total
  BY DEF AllRecorded
<1>3. ASSUME NEW n \in Nat, n <= total PROVE Saved(ep, n)
  BY <1>1, <1>2, <1>3, RecordedIsSaved
<1>4. CASE p = NewPart
  <2>1. PICK e \in 1..ep : IsMemoryOf(parts[p], e)
    BY <1>1, <1>4 DEF PartsTrue, PartTrue
  <2>2. e \in Epochs
    BY <1>1, <2>1, TypeOfConstants DEF Epochs
  <2>3. CASE e = ep
    <3>1. Len(parts[p]) <= total
      BY <1>1, <1>4, <2>1, <2>3 DEF PartsFit, NewFits
    <3> QED
      BY <1>1, <1>3, <1>4, <3>1
  <2>4. CASE e # ep
    <3>1. IsHeaderOf(SubSeq(parts[p], 1, 1), e) /\ IsHeaderOf(HeaderNow, ep)
      BY <1>1, <2>1, FirstIsHeader, HeaderNowIsHeader
    <3>2. SubSeq(parts[p], 1, 1) # HeaderNow
      BY <1>1, <2>2, <2>4, <3>1, HeaderTells
    <3> QED
      BY <1>4, <3>2
  <2> QED
    BY <2>3, <2>4
<1>5. CASE p # NewPart
  <2>1. PICK s \in Tags, k \in 1..MaxLen : p = <<s, k>>
    BY <1>5 DEF PartNames
  <2>2. p[1] = s /\ p[2] = k /\ k \in Nat
    BY <2>1, TypeOfConstants
  <2>3. PICK u \in Recorded : records[u].stem = s
    BY <1>1, <1>5, <2>2 DEF PartsTrue, PartTrue
  <2>4. u \in OfStem(s)
    BY <1>1, <2>3, TypeOfRecord
  <2>5. CASE records[u].ep = ep
    <3>1. k + Len(parts[p]) <= total
      BY <1>1, <2>1, <2>3, <2>5 DEF PartsFit, SegmentFits
    <3>2. k + Len(parts[p]) \in Nat
      BY <1>1, <2>2
    <3> QED
      BY <1>3, <1>5, <2>2, <3>1, <3>2
  <2>6. CASE records[u].ep # ep
    BY <2>2, <2>4, <2>6
  <2> QED
    BY <2>5, <2>6
<1> QED
  BY <1>4, <1>5

\* A file begun anew was of another deployment.
LEMMA RenewStep ==
    ASSUME IInv, Renews, Len(parts'[NewPart]) < Len(parts[NewPart])
    PROVE  SubSeq(parts[NewPart], 1, 1) # HeaderNow
<1>1. TypeOK /\ NewPart \in PartNames
  BY TypeOfConstants DEF IInv
<1>2. Len(parts'[NewPart]) = 1 /\ Part = parts[NewPart] /\ ~ Reusable
  BY <1>1, RenewedPart DEF Renews, Part
<1>3. Part # <<>>
  BY <1>2
<1> QED
  BY <1>2, <1>3 DEF Reusable

LEMMA PartialStep ==
    ASSUME HeadersDistinct, IInv, Truth, AllRecorded, [Next]_vars,
           NEW p \in PartNames, Len(parts'[p]) < Len(parts[p]), total > 0
    PROVE  \/ Saved(ep, IF p = NewPart THEN Len(parts[p]) ELSE p[2] + Len(parts[p]))
           \/ p = NewPart /\ SubSeq(parts[p], 1, 1) # HeaderNow
           \/ \E t \in OfStem(p[1]) : records[t].ep # ep
           \/ lost # {}
<1>1. TypeOK /\ TypeOK' /\ DownloadExtendsHeld
  BY TypeStep DEF IInv
<1>2. Len(parts[p]) \in Nat /\ Len(parts'[p]) \in Nat
  BY <1>1 DEF TypeOK, Bytes
<1>3. parts'[p] # parts[p] /\ parts[p] # <<>>
  BY <1>2
<1>4. CASE Renews
  <2>1. p = NewPart
    BY <1>1, <1>3, <1>4, RenewedPart
  <2> QED
    BY <1>4, <2>1, RenewStep
<1>5. ASSUME NEW n \in Nat, Reads(n) PROVE FALSE
  <2>1. p = PartName
    BY <1>3, <1>5, ReadsOn
  <2>2. pc = "block" /\ Start + Len(parts'[p]) = Offset + n
    BY <1>5, <2>1, ReadsOn DEF Reads
  <2>3. Offset = Start + Len(parts[p]) /\ Start \in Nat
    BY <1>1, <2>1, <2>2, TypeOfPart DEF Offset, Part
  <2> QED
    BY <1>2, <2>2, <2>3
<1>6. CASE pc = "unlink" /\ lost = {}
  BY <1>3, <1>6, UnlinkStep
<1> QED
  BY <1>1, <1>3, <1>4, <1>5, <1>6, PartsKept

-----------------------------------------------------------------------------
(* The theorems.                                                           *)

LEMMA KeptInvariance == Spec => [](IInv /\ Kept)
<1>1. Init => Kept
  BY DEF Init, Kept, HeldIsCut, AllStored, AllRecorded
<1>2. IInv /\ Kept /\ [Next]_vars => IInv'
  BY TypeStep, FilesStep, FreshStep, HeldStep, DownloadStep DEF IInv, FilesInOrder
<1>3. IInv /\ Kept /\ [Next]_vars => Kept'
  BY CutStep, StoredStep, RecordedStep DEF Kept
<1> QED
  BY InitIInv, <1>1, <1>2, <1>3, PTL DEF Spec

\* The configure step erases the logger's memory only when all that was in it at the
\* snapshot, cell for cell the memory of that deployment, is in an image that a record
\* describes ("saved before anything is written to the logger", cli.offload), whatever
\* was resumed, torn or extended on the way, if no two deployments share a header.
THEOREM ErasesOnlySaved == HeadersDistinct => (Spec => EraseOnlySaved)
<1> SUFFICES ASSUME HeadersDistinct PROVE Spec => EraseOnlySaved
  OBVIOUS
<1>1. ASSUME IInv, Truth, Kept, [Next]_vars
      PROVE  [(pc = "configure" /\ used > 0 /\ used' = 0)
               => (Saved(ep, total) \/ total = 0 \/ lost # {})]_vars
  BY <1>1, EraseStep DEF Kept
<1>2. IInv /\ Truth /\ Kept /\ [Next]_vars
        => [(pc = "configure" /\ used > 0 /\ used' = 0)
             => (Saved(ep, total) \/ total = 0 \/ lost # {})]_vars
  BY <1>1
<1> QED
  BY KeptInvariance, TruthInvariance, <1>2, PTL DEF Spec, EraseOnlySaved

\* Once stored, an image is exactly the dataset, though the file may have been cut
\* short between the check of _find_deployment and the append of _store_dataset.
THEOREM StoresMakeWhole == Spec => StoreMakesWhole
<1>1. ASSUME IInv, Kept, [Next]_vars
      PROVE  [(pc = "store" /\ pc' = "record") => image'[Stem] = dl.data]_vars
  BY <1>1, WholeStep DEF Kept
<1>2. IInv /\ Kept /\ [Next]_vars
        => [(pc = "store" /\ pc' = "record") => image'[Stem] = dl.data]_vars
  BY <1>1
<1> QED
  BY KeptInvariance, <1>2, PTL DEF Spec, StoreMakesWhole

\* Bytes that an interrupted offload left in a partial file are let go only when they
\* are saved or the logger holds another deployment (solo.download, cli.offload), if
\* no two deployments share a header.
THEOREM PartialBytesStay == HeadersDistinct => (Spec => PartialBytesKept)
<1> SUFFICES ASSUME HeadersDistinct PROVE Spec => PartialBytesKept
  OBVIOUS
<1> DEFINE Kind == \A p \in PartNames :
         (Len(parts'[p]) < Len(parts[p]) /\ total > 0)
            => \/ Saved(ep, IF p = NewPart THEN Len(parts[p]) ELSE p[2] + Len(parts[p]))
               \/ p = NewPart /\ SubSeq(parts[p], 1, 1) # HeaderNow
               \/ \E t \in OfStem(p[1]) : records[t].ep # ep
               \/ lost # {}
<1>1. IInv /\ Kept /\ Truth /\ [Next]_vars => Kind
  BY PartialStep DEF Kept
<1>2. IInv /\ Kept /\ Truth /\ [Next]_vars => [Kind]_vars
  BY <1>1
<1> QED
  BY KeptInvariance, TruthInvariance, <1>2, PTL DEF Spec, PartialBytesKept

-----------------------------------------------------------------------------
(* The store implements the archive.                                       *)

\* With no file damaged from outside and every record true, what is on disk is what
\* the records describe.
Described(e) ==
    {n \in 1..MaxLen : \E t \in Recorded : records[t].ep = e /\ Len(records[t].sum) >= n}

LEMMA TrueRecords ==
    /\ Truth => RecordsAreTrue
    /\ Truth' => RecordsAreTrue'
  BY DEF Truth, RecordsTrue, RecordsAreTrue

LEMMA DescribedIsOnDisk ==
    ASSUME RecordsDescribePrefixes, RecordsAreTrue, lost = {}, NEW e
    PROVE  OnDisk(e) = Max({0} \cup Described(e))
<1>1. ASSUME NEW n
      PROVE  Saved(e, n) <=> \E t \in Recorded : records[t].ep = e /\ Len(records[t].sum) >= n
  BY DEF RecordsDescribePrefixes, RecordsAreTrue, Saved
<1>2. {n \in 1..MaxLen : Saved(e, n)} = Described(e)
  BY <1>1 DEF Described
<1> QED
  BY <1>2 DEF OnDisk

LEMMA DescribedIsOnDiskNext ==
    ASSUME RecordsDescribePrefixes', RecordsAreTrue', lost' = {}, NEW e
    PROVE  OnDisk(e)' = Max({0} \cup Described(e)')
<1>1. ASSUME NEW n
      PROVE  Saved(e, n)' <=> \E t \in Recorded' : records'[t].ep = e /\ Len(records'[t].sum) >= n
  BY DEF RecordsDescribePrefixes, RecordsAreTrue, Saved
<1>2. {n \in 1..MaxLen : Saved(e, n)'} = Described(e)'
  BY <1>1 DEF Described
<1> QED
  BY <1>2 DEF OnDisk

\* It is all the places up to the last one.
LEMMA DescribedIsPrefix ==
    ASSUME TypeOK, NEW e, NEW m, m = Max({0} \cup Described(e))
    PROVE  m \in 0..MaxLen /\ \A n \in 1..MaxLen : n \in Described(e) <=> n <= m
<1> DEFINE S == {0} \cup Described(e)
<1>1. MaxLen \in Nat /\ S \subseteq 0..MaxLen /\ S # {}
  BY TypeOfConstants DEF Described
<1>2. PICK k \in S : \A n \in S : n <= k
  BY <1>1, GreatestExists
<1> HIDE DEF S
<1>3. k = m
  BY <1>1, <1>2, GreatestIs DEF S
<1>4. ASSUME NEW n \in 1..MaxLen, n <= m PROVE n \in Described(e)
  <2>1. m \in Described(e) /\ m \in Nat
    BY <1>1, <1>2, <1>3, <1>4 DEF S
  <2>2. PICK t \in Recorded : records[t].ep = e /\ Len(records[t].sum) >= m
    BY <2>1 DEF Described
  <2>3. Len(records[t].sum) \in Nat
    BY TypeOfRecord DEF Bytes
  <2>4. Len(records[t].sum) >= n
    BY <1>1, <1>4, <2>1, <2>2, <2>3
  <2> QED
    BY <1>4, <2>2, <2>4 DEF Described
<1>5. \A n \in Described(e) : n <= m
  BY <1>2, <1>3 DEF S
<1> QED
  BY <1>1, <1>2, <1>3, <1>4, <1>5

\* What is recorded anew is all of the snapshot.
LEMMA OnDiskGrows ==
    ASSUME IInv, IInv', Truth, Truth', AllStored, lost = {}, lost' = {}, [Next]_vars, Adds
    PROVE  /\ \A e \in Epochs : OnDisk(e)' = IF e = ep /\ OnDisk(ep) < total THEN total
                                            ELSE OnDisk(e)
           /\ \A e \in Epochs : OnDisk(e) \in 0..MaxLen
<1>1. /\ TypeOK /\ TagIsFresh /\ total \in 0..MaxLen /\ MaxLen \in Nat
      /\ pc = "record" /\ Len(dl.data) = total
  BY TypeOfConstants DEF IInv, TypeOK, Adds, WriteRecord, AllStored
<1>2. /\ Recorded' = Recorded \cup {tag} /\ \A t \in Recorded : records'[t] = records[t]
      /\ records'[tag].ep = ep /\ records'[tag].sum = dl.data
  BY <1>1, RecordsKept
<1> SUFFICES ASSUME NEW e \in Epochs
             PROVE  /\ OnDisk(e)' = IF e = ep /\ OnDisk(ep) < total THEN total ELSE OnDisk(e)
                    /\ OnDisk(e) \in 0..MaxLen
  OBVIOUS
<1> DEFINE m == OnDisk(e)
<1>3. m = Max({0} \cup Described(e)) /\ OnDisk(e)' = Max({0} \cup Described(e)')
  BY TrueRecords, DescribedIsOnDisk, DescribedIsOnDiskNext DEF IInv
<1> HIDE DEF m
<1>4. m \in 0..MaxLen /\ \A n \in 1..MaxLen : n \in Described(e) <=> n <= m
  BY <1>1, <1>3, DescribedIsPrefix
<1>5. ASSUME NEW n \in 1..MaxLen
      PROVE  n \in Described(e)' <=> n <= m \/ (e = ep /\ n <= total)
  <2>1. n \in Described(e)' <=> \E t \in Recorded' : records'[t].ep = e /\ Len(records'[t].sum) >= n
    BY DEF Described
  <2>2. n \in Described(e) <=> \E t \in Recorded : records[t].ep = e /\ Len(records[t].sum) >= n
    BY DEF Described
  <2>3. Len(dl.data) >= n <=> n <= total
    BY <1>1
  <2> QED
    BY <1>2, <1>4, <2>1, <2>2, <2>3
<1>6. Described(e)' \subseteq 1..MaxLen /\ Described(e) \subseteq 1..MaxLen
  BY DEF Described
<1>7. CASE e = ep /\ m < total
  <2>1. total \in {0} \cup Described(e)' /\ \A n \in {0} \cup Described(e)' : n <= total
    BY <1>1, <1>4, <1>5, <1>6, <1>7
  <2>2. {0} \cup Described(e)' \subseteq 0..MaxLen
    BY <1>1, <1>6
  <2>3. Max({0} \cup Described(e)') = total
    BY <1>1, <2>1, <2>2, GreatestIs
  <2> QED
    BY <1>3, <1>4, <1>7, <2>3 DEF m
<1>8. CASE ~ (e = ep /\ m < total)
  <2>1. \A n \in 1..MaxLen : n \in Described(e)' <=> n \in Described(e)
    BY <1>1, <1>4, <1>5, <1>8
  <2>2. Described(e)' = Described(e)
    BY <1>6, <2>1
  <2> QED
    BY <1>3, <1>4, <1>8, <2>2 DEF m
<1> QED
  BY <1>7, <1>8

LEMMA OnDiskKept ==
    ASSUME IInv, IInv', Truth, Truth', lost = {}, lost' = {}, records' = records, NEW e
    PROVE  OnDisk(e)' = OnDisk(e)
<1>1. Described(e)' = Described(e)
  BY DEF Described, Recorded
<1> QED
  BY <1>1, TrueRecords, DescribedIsOnDisk, DescribedIsOnDiskNext DEF IInv

\* The archive's promise, kept at the configure step.
LEMMA SavedIsOnDisk ==
    ASSUME IInv, Truth, lost = {}, NEW n \in 1..MaxLen, Saved(ep, n)
    PROVE  OnDisk(ep) >= n
<1>1. TypeOK /\ RecordsDescribePrefixes /\ RecordsAreTrue /\ MaxLen \in Nat
  BY TypeOfConstants, TrueRecords DEF IInv
<1> DEFINE m == OnDisk(ep)
<1>2. m = Max({0} \cup Described(ep)) /\ n \in Described(ep)
  BY <1>1, DescribedIsOnDisk DEF Saved, Described
<1> HIDE DEF m
<1>3. m \in 0..MaxLen /\ n <= m
  BY <1>1, <1>2, DescribedIsPrefix
<1> QED
  BY <1>1, <1>3 DEF m

LEMMA ArchiveInit == Init => lost = {} /\ Archive!Init
<1> SUFFICES ASSUME Init PROVE lost = {} /\ Archive!Init
  OBVIOUS
<1>1. Recorded = {} /\ lost = {} /\ RecordsDescribePrefixes /\ RecordsAreTrue
  BY InitIInv DEF Init, Recorded, NoRecord, IInv, RecordsAreTrue
<1>2. ASSUME NEW e PROVE OnDisk(e) = 0
  <2>1. {0} \cup Described(e) = {0}
    BY <1>1 DEF Described
  <2>2. Max({0}) = 0
    BY GreatestIs
  <2> QED
    BY <1>1, <2>1, <2>2, DescribedIsOnDisk
<1>3. [e \in Epochs |-> OnDisk(e)] = [e \in 1..MaxEpoch |-> 0]
  BY <1>2 DEF Epochs
<1> QED
  BY <1>1, <1>3 DEF Init, Archive!Init

LEMMA NoneLost ==
    ASSUME MaxLost = 0, lost = {}, [Next]_vars
    PROVE  lost' = {}
<1>1. ASSUME NEW s \in Tags, DamageImage(s) PROVE FALSE
  BY <1>1, FS_EmptySet DEF DamageImage
<1>2. CASE UNCHANGED vars
  BY <1>2 DEF vars
<1>3. ASSUME NEW t \in Tags, NEW f \in BOOLEAN, Begin(t, f) PROVE lost' = lost
  BY <1>3 DEF Begin, disk
<1>4. CASE FindHeld \/ Downloads
  BY <1>4 DEF FindHeld, Downloads, FindNone, CheckMismatch, CheckHeaderChanged, CheckSame,
        OpenPart, ReadBlock, ReceiveFull, ReceiveSegment, ReceiveVerified, ReceiveMismatch, disk
<1>5. CASE StoreWhole \/ StoreAppend \/ WriteRecord
  BY <1>5 DEF StoreWhole, StoreAppend, WriteRecord
<1>6. CASE AfterRecord
  BY <1>6 DEF AfterRecord, RemovePart, AllRemoved, EraseMemory, EnableLogger, disk
<1>7. CASE Ends
  BY <1>7 DEF Ends, PartTooLong, TearBlock, TearAppend, Interrupt, LeaveLogger, disk
<1>8. CASE Environment
  BY <1>1, <1>8 DEF Environment, Log, EraseElsewhere, EnableElsewhere, ChangeHeader, disk
<1> QED
  BY <1>2, <1>3, <1>4, <1>5, <1>6, <1>7, <1>8, NextByKind

\* A record makes all of the snapshot appear in the archive at once, and no other step
\* changes it.
LEMMA ArchiveStep ==
    ASSUME IInv, IInv', Truth, Truth', Kept, lost = {}, lost' = {}, [Next]_vars
    PROVE  [Archive!Next]_(Archive!vars)
<1> DEFINE attached == pc # "idle"
           saved == [e \in Epochs |-> OnDisk(e)]
<1>1. TypeOK /\ TagIsFresh /\ ep \in Epochs /\ total \in 0..MaxLen /\ MaxLen \in Nat
  BY TypeOfConstants DEF IInv, TypeOK
<1>2. CASE Adds
  <2>1. /\ pc = "record" /\ pc' = "unlink" /\ UNCHANGED <<ep, used, total>>
    BY <1>2 DEF Adds, WriteRecord, logger, local
  <2>2. /\ \A e \in Epochs : OnDisk(e)' = IF e = ep /\ OnDisk(ep) < total THEN total
                                          ELSE OnDisk(e)
    BY <1>2, OnDiskGrows DEF Kept
  <2>3. CASE OnDisk(ep) < total
    <3>1. saved' = [saved EXCEPT ![ep] = total]
      BY <1>1, <2>2, <2>3
    <3>2. saved[ep] = OnDisk(ep)
      BY <1>1
    <3>3. Archive!Save
      BY <2>1, <2>3, <3>1, <3>2 DEF Archive!Save
    <3> QED
      BY <3>3 DEF Archive!Next
  <2>4. CASE ~ (OnDisk(ep) < total)
    <3>1. saved' = saved
      BY <2>2, <2>4
    <3> QED
      BY <2>1, <3>1 DEF Archive!vars
  <2> QED
    BY <2>3, <2>4
<1>3. CASE ~ Adds
  <2>1. saved' = saved
    <3>1. records' = records
      BY <1>1, <1>3, RecordsKept
    <3>2. \A e \in Epochs : OnDisk(e)' = OnDisk(e)
      BY <3>1, OnDiskKept
    <3> QED
      BY <3>2
  <2> HIDE DEF saved
  <2>2. CASE UNCHANGED <<ep, used, total>> /\ (attached' <=> attached)
    BY <2>1, <2>2 DEF Archive!vars, saved
  <2>3. ASSUME NEW t \in Tags, NEW f \in BOOLEAN, Begin(t, f)
        PROVE  Archive!Attach
    BY <2>1, <2>3 DEF Begin, logger, Archive!Attach, saved
  <2>4. CASE FindHeld \/ Downloads
    BY <2>2, <2>4 DEF FindHeld, Downloads, FindNone, CheckMismatch, CheckHeaderChanged, CheckSame,
          OpenPart, ReadBlock, ReceiveFull, ReceiveSegment, ReceiveVerified, ReceiveMismatch,
          logger, local
  <2>5. CASE StoreWhole \/ StoreAppend \/ WriteRecord
    BY <2>2, <2>5 DEF StoreWhole, StoreAppend, WriteRecord, logger, local
  <2>6. CASE AllRemoved \/ \E p \in PartNames : RemovePart(p)
    BY <2>2, <2>6 DEF AllRemoved, RemovePart, logger, local
  <2>7. CASE EraseMemory
    <3>1. OnDisk(ep) >= total
      <4>1. Saved(ep, total) \/ total = 0
        BY <2>7, EraseStep DEF EraseMemory, Kept
      <4>2. CASE total = 0
        <5>1. OnDisk(ep) \in 0..MaxLen
          BY <1>1, TrueRecords, DescribedIsOnDisk, DescribedIsPrefix DEF IInv
        <5> QED
          BY <1>1, <4>2, <5>1
      <4>3. CASE total # 0
        BY <1>1, <4>1, <4>3, SavedIsOnDisk
      <4> QED
        BY <4>2, <4>3
    <3>2. saved[ep] = OnDisk(ep)
      BY <1>1 DEF saved
    <3>3. Archive!Erase
      BY <2>1, <2>7, <3>1, <3>2 DEF EraseMemory, local, Archive!Erase, saved
    <3> QED
      BY <3>3 DEF Archive!Next
  <2>8. CASE EnableLogger \/ EnableElsewhere
    <3>1. Archive!Enable
      BY <2>1, <2>8 DEF EnableLogger, EnableElsewhere, local, Archive!Enable, saved
    <3> QED
      BY <3>1 DEF Archive!Next
  <2>9. CASE Ends
    <3>1. pc # "idle" /\ pc' = "idle" /\ total' = 0 /\ UNCHANGED <<ep, used>>
      BY <2>9 DEF Ends, PartTooLong, TearBlock, TearAppend, Interrupt, LeaveLogger, EndWith, logger
    <3>2. Archive!Detach
      BY <2>1, <3>1 DEF Archive!Detach, saved
    <3> QED
      BY <3>2 DEF Archive!Next
  <2>10. CASE Log
    <3>1. Archive!Log
      BY <2>1, <2>10 DEF Log, local, Archive!Log, saved
    <3> QED
      BY <3>1 DEF Archive!Next
  <2>11. CASE EraseElsewhere
    <3>1. Archive!Erase
      BY <2>1, <2>11 DEF EraseElsewhere, local, Archive!Erase, saved
    <3> QED
      BY <3>1 DEF Archive!Next
  <2>12. CASE ChangeHeader \/ \E s \in Tags : DamageImage(s)
    BY <2>2, <2>12 DEF ChangeHeader, DamageImage, logger, local
  <2>13. CASE UNCHANGED vars
    BY <2>2, <2>13 DEF vars
  <2>14. Archive!Attach => Archive!Next
    BY DEF Archive!Next
  <2> QED
    BY <2>3, <2>4, <2>5, <2>6, <2>7, <2>8, <2>9, <2>10, <2>11, <2>12, <2>13, <2>14, NextByKind
       DEF AfterRecord, Environment
<1> QED
  BY <1>2, <1>3

\* The store keeps the archive's promise, as long as nobody else damages its files and
\* no two deployments share a header: of a deployment's memory what is on disk only
\* grows, by whole snapshots, and the tool erases a memory only once it is there.
THEOREM StoreImplementsArchive ==
    HeadersDistinct /\ MaxLost = 0 => (Spec => ImplementsArchive)
<1> SUFFICES ASSUME HeadersDistinct, MaxLost = 0 PROVE Spec => ImplementsArchive
  OBVIOUS
<1>1. lost = {} /\ [Next]_vars => (lost = {})'
  BY NoneLost
<1>2. IInv /\ IInv' /\ Truth /\ Truth' /\ Kept /\ lost = {} /\ (lost = {})' /\ [Next]_vars
        => [Archive!Next]_(Archive!vars)
  BY ArchiveStep
<1> QED
  BY KeptInvariance, TruthInvariance, ArchiveInit, <1>1, <1>2, PTL
     DEF Spec, ImplementsArchive, Archive!Spec
=============================================================================
