------------------------- MODULE DatasetStoreProofs -------------------------
(***************************************************************************)
(* Theorems about DatasetStore, for every value of its constants.          *)
(***************************************************************************)
EXTENDS DatasetStore, PrefixLemmas, FiniteSetTheorems

\* The cells of a file are those of dataset n of one deployment, from the first one on.
IsDatasetOf(f, e, n) == \A i \in 1..Len(f) : f[i] = [of |-> e, name |-> n, at |-> i]

\* A logger numbers its deployments as it is enabled, and an erase takes them all; so
\* the latest one in a memory tells what the others are.
Consecutive(of) == \A l \in 1..Len(of) : of[l] = of[1] + (l - 1)

\* The logger sends the head of this dataset.
HeadComes(n) == gen4 => Kind(n) \notin omits.heads

\* Datasets of one memory, that of the deployments `of`.
OfOneMemory(data, of) ==
    \A n \in Names : data[n] # <<>> =>
        /\ Label(n) <= Len(of)
        /\ HeadComes(n) => IsDatasetOf(data[n], of[Label(n)], n)
        /\ (MetasCome /\ ~ grows(n)) => Len(data[n]) = MetaLen[of[Label(n)]]

Deployments == [l \in 1..Len(memory) |-> memory[l].of]

-----------------------------------------------------------------------------
(* What is read.                                                           *)

MemoryInOrder ==
    \A l \in 1..Len(memory) :
        memory[l].of = (epoch - Len(memory)) + l /\ memory[l].of >= 1
        /\ memory[l].size[1] = MetaLen[memory[l].of]

Offloading == pc \in {"find", "check", "fetch", "store"}

\* The sizes reported are those of the memory, or what they were a little earlier.
WantIsThere ==
    Offloading => \A n \in Names : want[n] <= Sizes[n] /\ (~ grows(n) => want[n] = Sizes[n])

\* How much is to be read of a dataset, now or later.
Readable(n) == IF Offloading THEN want[n] ELSE Sizes[n]

\* A partial file holds one dataset of one deployment, and if that is on the logger, no
\* more than is to be read of it.
PartsAreTrue ==
    \A n \in Names : (HeadComes(n) /\ parts[n] # <<>>) =>
        LET e == parts[n][1].of
        IN  /\ e <= epoch /\ IsDatasetOf(parts[n], e, n)
            /\ (n \in Present /\ memory[Label(n)].of = e) => Len(parts[n]) <= Readable(n)

\* What was downloaded is what was asked for, or was cut short.
GotIsTrue ==
    /\ OfOneMemory(got, Deployments)
    /\ Offloading => \A n \in Names : Len(got[n]) <= want[n]

\* Of an identity that comes whole there is always something.
IdentitiesCome ==
    (MetasCome /\ pc = "fetch") => \A n \in Present : (n < at /\ ~ grows(n)) => got[n] # <<>>

-----------------------------------------------------------------------------
(* What is stored.                                                         *)

\* A tag is the offload's own: nothing on disk bears it before its record is written.
TagIsFresh ==
    /\ \A t \in Recorded : t \in started /\ records[t].stem \in started
    /\ pc = "idle" => held = NoDeployment /\ got = NoData
    /\ held # NoDeployment => held.stem \in started
    /\ Offloading =>
         /\ tag \in started /\ tag \notin Recorded
         /\ \A t \in Recorded : records[t].stem # tag
         /\ held # NoDeployment => held.stem # tag

\* The deployment on disk is its last record.
HeldIsLast ==
    /\ (pc = "check" /\ at # End) => held # NoDeployment
    /\ (pc \in {"check", "fetch", "store"} /\ held # NoDeployment)
        => \E l \in Recorded :
              /\ held = records[l]
              /\ \A u \in OfStem(held.stem) : records[u].index <= held.index

\* What is stored extends what is held, and is there as far as the loop has come.
StoredSoFar ==
    pc = "store" =>
        /\ held # NoDeployment => \A n \in Names : IsPrefix(held.data[n], got[n])
        /\ Stem \notin lost => \A n \in Names : n < at => IsPrefix(got[n], files[Stem][n])

\* A record's files are there, or were damaged.
RecordsDescribePrefixes ==
    \A t \in Recorded : records[t].stem \notin lost =>
        \A n \in Names : IsPrefix(records[t].data[n], files[records[t].stem][n])

\* The later record of a deployment extends the earlier one, dataset by dataset.
RecordsInOrder ==
    \A t, u \in Recorded :
        (records[t].stem = records[u].stem /\ records[t].index <= records[u].index)
            => \A n \in Names : IsPrefix(records[t].data[n], records[u].data[n])

\* There are as many numbers as records.
IndexIsBounded == \A t \in Recorded : records[t].index < Cardinality(Recorded)

RecordsOfOneMemory ==
    \A t \in Recorded : Consecutive(records[t].of) /\ OfOneMemory(records[t].data, records[t].of)

Reading == MemoryInOrder /\ WantIsThere /\ PartsAreTrue /\ GotIsTrue /\ IdentitiesCome
Storing == TagIsFresh /\ HeldIsLast
Records == IndexIsBounded /\ RecordsOfOneMemory
Extending == StoredSoFar /\ RecordsDescribePrefixes /\ RecordsInOrder

\* What holds of every logger, and of one that sends the identities whole.
IInv ==
    /\ TypeOK /\ Reading /\ Storing /\ Records /\ RecordsAreTrue
    /\ MetasCome => Extending

-----------------------------------------------------------------------------
(* Types of the operators the actions are built from.                      *)

LEMMA Constants ==
    /\ MaxEpoch \in Nat \ {0} /\ MaxLabels \in Nat \ {0} /\ MaxTag \in Nat
    /\ NoTag \notin Tags /\ End \in Nat /\ Names \subseteq 1..End
    /\ Names \subseteq Nat /\ End \notin Names /\ 1 \in 1..End
    /\ \A n \in Names : n + 1 \in 1..End
    /\ \A k \in 1..End : k # End => k \in Names
  BY DatasetAssumption DEF DatasetAssumption, NoTag, Tags, End, Names

\* A dataset's number tells its deployment and its kind.
LEMMA Labels ==
    ASSUME NEW n \in Names
    PROVE  /\ Label(n) \in 1..MaxLabels /\ Kind(n) \in 1..3
           /\ n = 3 * (Label(n) - 1) + Kind(n)
  BY Constants DEF Names, Label, Kind

LEMMA TypeOfEmpty ==
    /\ <<>> \in Bytes /\ Len(<<>>) = 0
    /\ NoData \in Data /\ NoSizes \in [Names -> Nat]
    /\ \A n \in Names : NoData[n] = <<>> /\ NoSizes[n] = 0
    /\ NoDeployment.data = NoData /\ NoDeployment.stem = NoTag /\ NoRecord = NoDeployment
    /\ NoDeployment \notin Record
<1>1. <<>> \in Bytes
  BY DEF Bytes
<1>2. NoDeployment \notin Record
  BY Constants DEF NoDeployment, NoRecord, Record
<1> QED
  BY <1>1, <1>2 DEF NoData, NoSizes, Data, NoDeployment, NoRecord

LEMMA TypeOfData ==
    ASSUME NEW d \in Data, NEW n \in Names
    PROVE  d[n] \in Bytes /\ Len(d[n]) \in Nat /\ (d[n] = <<>> <=> Len(d[n]) = 0)
<1>1. d[n] \in Seq(Cell)
  BY DEF Data, Bytes
<1> QED
  BY <1>1, EmptySeq DEF Bytes

LEMMA TypeOfRecord ==
    ASSUME TypeOK, NEW t \in Recorded
    PROVE  /\ t \in Tags /\ records[t] \in Record /\ records[t].stem \in Tags
           /\ records[t].index \in Nat /\ records[t].data \in Data
           /\ records[t].of \in Seq(Epochs) /\ records[t].sizes \in [Names -> Nat]
           /\ records[t] # NoDeployment
<1>1. t \in Tags /\ records[t] # NoRecord
  BY DEF Recorded, NoRecord
<1>2. records[t] \in Record
  BY <1>1 DEF TypeOK
<1> QED
  BY <1>1, <1>2 DEF Record, NoDeployment

LEMMA TypeOfHeld ==
    ASSUME TypeOK
    PROVE  /\ held.data \in Data
           /\ held # NoDeployment => held.stem \in Tags /\ held.index \in Nat
<1>1. CASE held = NoDeployment
  BY <1>1, TypeOfEmpty
<1>2. CASE held # NoDeployment
  BY <1>2 DEF TypeOK, Record
<1> QED
  BY <1>1, <1>2

LEMMA TypeOfMemory ==
    ASSUME TypeOK
    PROVE  /\ Len(memory) \in 0..MaxLabels
           /\ \A l \in 1..Len(memory) : memory[l].of \in Epochs /\ memory[l].size \in [1..3 -> Nat]
           /\ Deployments \in Seq(Epochs) /\ Len(Deployments) = Len(memory)
           /\ Present \subseteq Names
           /\ \A n \in Names : n \in Present <=> Label(n) <= Len(memory)
           /\ \A n \in Present : memory[Label(n)].of \in Epochs /\ Deployments[Label(n)] = memory[Label(n)].of
           /\ Sizes \in [Names -> Nat]
<1>1. Len(memory) \in 0..MaxLabels
  <2>1. Len(memory) \in Nat /\ Len(memory) <= IF gen4 THEN MaxLabels ELSE 1
    BY DEF TypeOK
  <2>2. CASE gen4
    BY <2>1, <2>2, Constants
  <2>3. CASE ~ gen4
    BY <2>1, <2>3, Constants
  <2> QED
    BY <2>2, <2>3
<1>2. \A l \in 1..Len(memory) : memory[l].of \in Epochs /\ memory[l].size \in [1..3 -> Nat]
  <2> DEFINE Held == [of : Epochs, size : [1..3 -> Nat]]
  <2>1. memory \in Seq(Held)
    BY DEF TypeOK
  <2>2. \A l \in 1..Len(memory) : memory[l] \in Held
    <3> HIDE DEF Held
    <3> QED
      BY <2>1
  <2> QED
    BY <2>2
<1>3. Deployments \in [1..Len(memory) -> Epochs]
  BY <1>2 DEF Deployments
<1>4. Deployments \in Seq(Epochs) /\ Len(Deployments) = Len(memory)
  BY <1>1, <1>3
<1>5. Present \subseteq Names
  BY <1>1, Constants DEF Present, Names
<1>6. \A n \in Names : n \in Present <=> Label(n) <= Len(memory)
  <2> SUFFICES ASSUME NEW n \in Names PROVE n \in Present <=> Label(n) <= Len(memory)
    OBVIOUS
  <2>1. Label(n) \in Nat /\ Kind(n) \in 1..3 /\ n = 3 * (Label(n) - 1) + Kind(n) /\ n \in 1..End
    BY Labels, Constants
  <2>2. n \in Present <=> n <= 3 * Len(memory)
    BY <1>1, <2>1 DEF Present
  <2> QED
    BY <1>1, <2>1, <2>2
<1>7. \A n \in Present : Label(n) \in 1..Len(memory) /\ Kind(n) \in 1..3
  BY <1>1, <1>5, <1>6, Labels
<1>8. Sizes \in [Names -> Nat]
  BY <1>2, <1>7 DEF Sizes
<1>9. \A n \in Present : memory[Label(n)].of \in Epochs
  BY <1>2, <1>7
<1>10. \A n \in Present : Deployments[Label(n)] = memory[Label(n)].of
  BY <1>7 DEF Deployments
<1> QED
  BY <1>1, <1>2, <1>4, <1>5, <1>6, <1>8, <1>9, <1>10

LEMMA TypeOfCells ==
    ASSUME TypeOK, NEW n \in Present, NEW s \in Nat
    PROVE  /\ Memory(n, s) \in Bytes /\ Len(Memory(n, s)) = s
           /\ IsDatasetOf(Memory(n, s), memory[Label(n)].of, n)
<1>1. n \in Names /\ memory[Label(n)].of \in Epochs
  BY TypeOfMemory
<1>2. Memory(n, s) \in [1..s -> Cell]
  BY <1>1 DEF Memory, Cell
<1>3. Memory(n, s) \in Bytes /\ Len(Memory(n, s)) = s
  BY <1>2 DEF Bytes
<1> QED
  BY <1>3 DEF Memory, IsDatasetOf

-----------------------------------------------------------------------------
(* What the operators the actions are built from choose and read.          *)

\* The loop over a deployment's datasets skips only the empty ones.
LEMMA NextIs ==
    ASSUME NEW d, NEW k \in 1..End
    PROVE  /\ NextOf(d, k) \in 1..End /\ k <= NextOf(d, k)
           /\ NextOf(d, k) # End => NextOf(d, k) \in Names /\ d[NextOf(d, k)] # <<>>
           /\ \A n \in Names : (n >= k /\ n < NextOf(d, k)) => d[n] = <<>>
<1> DEFINE T == {m \in Names : m >= k /\ d[m] # <<>>} \cup {End}
<1>1. T \subseteq 1..End /\ T \subseteq Nat /\ End \in T /\ k <= End
  <2>1. End \in Nat /\ k <= End /\ End \in 1..End
    BY Constants
  <2>2. T \subseteq 1..End
    BY <2>1, Constants
  <2> QED
    BY <2>1, <2>2
<1>2. Min(T) \in T /\ \A n \in T : Min(T) <= n
  BY <1>1, LeastIs
<1>3. NextOf(d, k) = Min(T)
  BY DEF NextOf
<1>4. ASSUME NEW n \in Names, n >= k, n < Min(T) PROVE d[n] = <<>>
  <2>1. n \in Nat /\ Min(T) \in Nat
    BY <1>1, <1>2, Constants
  <2>2. n \notin T
    BY <1>2, <1>4, <2>1
  <2> QED
    BY <1>4, <2>2
<1>5. Min(T) \in 1..End /\ k <= Min(T)
  BY <1>1, <1>2
<1>6. Min(T) # End => Min(T) \in Names /\ d[Min(T)] # <<>>
  BY <1>2
<1> HIDE DEF T
<1> QED
  BY <1>3, <1>4, <1>5, <1>6

\* The newest record is there to be found, if any is.
LEMMA NewestIs ==
    ASSUME Recorded # {}
    PROVE  \E t \in Recorded : NewestStem = records[t].stem
<1>1. Recorded \subseteq 0..MaxTag /\ MaxTag \in Nat
  BY Constants DEF Recorded, Tags
<1>2. \E t \in Recorded : \A u \in Recorded : u <= t
  BY <1>1, GreatestExists
<1> QED
  BY <1>2 DEF NewestStem

\* And so is the last one of its deployment.
LEMMA LatestIs ==
    ASSUME TypeOK, IndexIsBounded, NEW s, OfStem(s) # {}
    PROVE  /\ Latest(s) \in OfStem(s)
           /\ \A u \in OfStem(s) : records[u].index <= records[Latest(s)].index
<1>1. /\ OfStem(s) \subseteq Recorded /\ Recorded \subseteq Tags
      /\ \A u \in OfStem(s) : records[u].stem = s /\ records[u].index \in Nat
  BY TypeOfRecord DEF OfStem, Recorded
<1>2. Cardinality(Recorded) \in Nat
  <2>1. IsFiniteSet(Tags)
    BY Constants, FS_Interval DEF Tags
  <2> QED
    BY <1>1, <2>1, FS_Subset, FS_CardinalityType
<1> DEFINE Indices == {records[u].index : u \in OfStem(s)}
<1>3. Indices \subseteq 0..Cardinality(Recorded) /\ Indices # {}
  BY <1>1, <1>2 DEF IndexIsBounded
<1>4. PICK i \in Indices : \A j \in Indices : j <= i
  BY <1>2, <1>3, GreatestExists
<1> DEFINE Lasts == {u \in OfStem(s) : records[u].index = i}
<1>5. Lasts \subseteq 0..MaxTag /\ Lasts # {} /\ MaxTag \in Nat
  <2>1. Lasts # {}
    BY <1>4
  <2>2. Lasts \subseteq Tags
    BY <1>1
  <2> QED
    BY <2>1, <2>2, Constants DEF Tags
<1>6. PICK l \in Lasts : \A u \in Lasts : u <= l
  BY <1>5, GreatestExists
<1>7. l \in OfStem(s) /\ records[l].index = i /\ records[l].stem = s
  BY <1>1
<1>8. ASSUME NEW u \in OfStem(s)
      PROVE  records[u].index < i \/ (records[u].index = i /\ u <= l)
  <2>1. records[u].index <= i /\ records[u].index \in Nat /\ i \in Nat
    BY <1>1, <1>4
  <2> QED
    BY <1>6, <2>1
<1>9. IsLast(l)
  BY <1>7, <1>8 DEF IsLast
<1>10. Latest(s) \in OfStem(s) /\ IsLast(Latest(s))
  BY <1>7, <1>9 DEF Latest
<1>11. ASSUME NEW u \in OfStem(s) PROVE records[u].index <= records[Latest(s)].index
  <2>1. /\ records[Latest(s)].stem = s
        /\ records[u].index \in Nat /\ records[Latest(s)].index \in Nat
    BY <1>1, <1>10
  <2> QED
    BY <1>10, <2>1 DEF IsLast
<1> QED
  BY <1>10, <1>11

\* Of two files of one dataset, the shorter is a prefix of the longer.
LEMMA DatasetPrefix ==
    ASSUME NEW f \in Bytes, NEW g \in Bytes, NEW e, NEW n,
           IsDatasetOf(f, e, n), IsDatasetOf(g, e, n), Len(f) <= Len(g)
    PROVE  IsPrefix(f, g)
<1>1. Len(f) \in Nat /\ Len(g) \in Nat
  BY DEF Bytes
<1>2. ASSUME NEW i \in 1..Len(f) PROVE f[i] = g[i]
  <2>1. i \in 1..Len(g)
    BY <1>1
  <2>2. f[i] = [of |-> e, name |-> n, at |-> i] /\ g[i] = [of |-> e, name |-> n, at |-> i]
    BY <2>1 DEF IsDatasetOf
  <2> QED
    BY <2>2
<1> QED
  BY <1>2, PrefixByCell DEF Bytes

\* A head that does not come counts as one object cut short.
LEMMA HeadsAre ==
    ASSUME TypeOK, NEW n \in Names, NEW head \in Heads(n)
    PROVE  Missing(head) \in 0..MaxShort /\ (~ head => ~ HeadComes(n))
<1>1. cut \in 0..MaxShort /\ MaxShort \in Nat
  BY DatasetAssumption DEF TypeOK, DatasetAssumption
<1>2. head = TRUE \/ (head = FALSE /\ gen4 /\ Kind(n) \in omits.heads /\ cut < MaxShort)
  BY DEF Heads
<1>3. CASE head = TRUE
  BY <1>1, <1>3 DEF Missing
<1>4. CASE head = FALSE
  BY <1>1, <1>2, <1>4 DEF Missing, HeadComes
<1> QED
  BY <1>2, <1>3, <1>4

\* What is kept of a partial file is of the dataset that is read now, if its head came.
LEMMA OpenedIs ==
    ASSUME TypeOK, Reading, pc = "fetch", at \in Present, NEW head \in Heads(at)
    PROVE  /\ Opened(at, head) \in Bytes /\ Len(Opened(at, head)) \in Nat
           /\ want[at] = 0 => Opened(at, head) = <<>> \/ Opened(at, head) = parts[at]
           /\ want[at] > 0 => Len(Opened(at, head)) <= want[at]
           /\ want[at] > 0 /\ HeadComes(at) => IsDatasetOf(Opened(at, head), memory[Label(at)].of, at)
<1>1. at \in Names /\ want[at] \in Nat /\ parts \in Data
  BY TypeOfMemory DEF TypeOK
<1>2. parts[at] \in Bytes /\ Len(parts[at]) \in Nat /\ (parts[at] = <<>> <=> Len(parts[at]) = 0)
  BY <1>1, TypeOfData
<1>3. CASE Opened(at, head) = <<>>
  BY <1>1, <1>3, TypeOfEmpty DEF IsDatasetOf
<1>4. CASE Opened(at, head) = parts[at] /\ want[at] = 0
  BY <1>2, <1>4
<1>5. CASE Reusable(at, head) /\ Opened(at, head) = parts[at]
  <2>1. CASE ~ HeadComes(at)
    <3>1. Len(parts[at]) <= want[at]
      BY <1>5, <2>1 DEF Reusable, HeadComes
    <3> QED
      BY <1>2, <1>5, <2>1, <3>1
  <2>2. CASE HeadComes(at)
    <3>1. head /\ parts[at] # <<>> /\ SubSeq(parts[at], 1, 1) = Memory(at, 1)
      BY <1>1, <1>5, <2>2, HeadsAre DEF Reusable
    <3>2. SubSeq(parts[at], 1, 1)[1] = parts[at][1]
      BY <1>2, <3>1 DEF Bytes
    <3>3. parts[at][1].of = memory[Label(at)].of
      BY <3>1, <3>2 DEF Memory
    <3>4. IsDatasetOf(parts[at], memory[Label(at)].of, at) /\ Len(parts[at]) <= want[at]
      BY <1>1, <2>2, <3>1, <3>3 DEF Reading, PartsAreTrue, Readable, Offloading
    <3> QED
      BY <1>2, <1>5, <3>4
  <2> QED
    BY <2>1, <2>2
<1>6. \/ Opened(at, head) = <<>>
      \/ Opened(at, head) = parts[at] /\ (want[at] = 0 \/ Reusable(at, head))
  BY DEF Opened
<1> QED
  BY <1>3, <1>4, <1>5, <1>6

\* What is read after it makes it the dataset's first m cells.
LEMMA ReadToIs ==
    ASSUME TypeOK, Reading, pc = "fetch", at \in Present, want[at] > 0, NEW head \in Heads(at),
           NEW m \in Nat, Len(Opened(at, head)) <= m
    PROVE  /\ ReadTo(at, head, m) \in Bytes /\ Len(ReadTo(at, head, m)) = m
           /\ HeadComes(at) => IsDatasetOf(ReadTo(at, head, m), memory[Label(at)].of, at)
<1> DEFINE o == Opened(at, head)
<1> DEFINE k == Len(o)
<1> DEFINE r == SubSeq(Memory(at, m), k + 1, m)
<1>1. /\ o \in Bytes /\ k \in Nat /\ k <= m
      /\ HeadComes(at) => IsDatasetOf(o, memory[Label(at)].of, at)
  BY OpenedIs
<1>2. /\ Memory(at, m) \in Bytes /\ Len(Memory(at, m)) = m
      /\ IsDatasetOf(Memory(at, m), memory[Label(at)].of, at)
  BY TypeOfCells
<1>3. r \in Bytes /\ Len(r) = m - k
  <2>1. \A i \in (k + 1)..m : Memory(at, m)[i] \in Cell
    BY <1>1, <1>2 DEF Bytes
  <2>2. r \in Seq(Cell) /\ Len(r) = IF k + 1 <= m THEN m - (k + 1) + 1 ELSE 0
    <3> HIDE DEF k
    <3> QED
      BY <1>1, <2>1, SubSeqProperties
  <2> QED
    BY <1>1, <2>2 DEF Bytes
<1>4. ReadTo(at, head, m) = o \o r
  BY DEF ReadTo
<1>5. ReadTo(at, head, m) \in Bytes /\ Len(ReadTo(at, head, m)) = m
  <2> HIDE DEF o, r
  <2> QED
    BY <1>1, <1>3, <1>4 DEF Bytes
<1>6. ASSUME HeadComes(at) PROVE ReadTo(at, head, m) = Memory(at, m)
  <2>1. IsPrefix(o, Memory(at, m))
    BY <1>1, <1>2, <1>6, DatasetPrefix
  <2> QED
    BY <1>1, <1>2, <1>4, <2>1, AppendRest DEF Bytes
<1> QED
  BY <1>2, <1>5, <1>6

\* An empty dataset is not asked for.
LEMMA ReadNone ==
    ASSUME TypeOK, Reading, pc = "fetch", at \in Present, want[at] = 0, NEW head \in Heads(at)
    PROVE  ReadTo(at, head, 0) \in Bytes /\ ReadTo(at, head, 0) \in {<<>>, parts[at]}
<1>1. /\ Opened(at, head) \in Bytes /\ Len(Opened(at, head)) \in Nat
      /\ Opened(at, head) \in {<<>>, parts[at]}
  BY OpenedIs
<1>2. SubSeq(Memory(at, 0), Len(Opened(at, head)) + 1, 0) = <<>>
  BY <1>1
<1>3. Opened(at, head) \o <<>> = Opened(at, head)
  BY <1>1 DEF Bytes
<1> QED
  BY <1>1, <1>2, <1>3 DEF ReadTo

\* A deployment's identity is one of its datasets.
LEMMA IdentityIs ==
    ASSUME NEW d, NEW listed, listed \subseteq Names
    PROVE  IF \E n \in listed : ~ grows(n)
           THEN \E a \in listed : ~ grows(a) /\ identity(d, listed) = d[a]
           ELSE identity(d, listed) = <<>>
<1> DEFINE metas == {n \in listed : ~ grows(n)}
<1>1. metas \subseteq 0..End /\ End \in Nat
  <2>1. End \in Nat /\ Names \subseteq 0..End
    BY Constants
  <2> QED
    BY <2>1
<1>2. CASE metas # {}
  <2>1. PICK a \in metas : \A n \in metas : n <= a
    BY <1>1, <1>2, GreatestExists
  <2> HIDE DEF metas
  <2>2. Max(metas) = a
    BY <1>1, <2>1, GreatestIs
  <2> USE DEF metas
  <2>3. identity(d, listed) = d[a]
    BY <1>2, <2>2 DEF identity
  <2> QED
    BY <2>3
<1>3. CASE metas = {}
  BY <1>3 DEF identity
<1> QED
  BY <1>2, <1>3

\* Growth is all there is to check, where identities come whole: what has the same identity
\* and extends the growing datasets extends every dataset, of earlier deployments too.
LEMMA GrowthExtends ==
    ASSUME TypeOK, MetasCome,
           NEW old \in Data, NEW new \in Data, NEW p \in Seq(Epochs), NEW q \in Seq(Epochs),
           Consecutive(p), Consecutive(q), OfOneMemory(old, p), OfOneMemory(new, q), Growth(old, new),
           \A m \in Present : ~ grows(m) => new[m] # <<>>, NEW n \in Names
    PROVE  IsPrefix(old[n], new[n])
<1>1. /\ old[n] \in Bytes /\ new[n] \in Bytes /\ Len(old[n]) \in Nat /\ Len(new[n]) \in Nat
      /\ (new[n] = <<>> <=> Len(new[n]) = 0)
  BY TypeOfData
<1>2. CASE old[n] = <<>>
  BY <1>1, <1>2, PrefixReflexive DEF Bytes
<1>3. CASE old[n] # <<>> /\ grows(n)
  BY <1>3 DEF Growth, ListedIn
<1>4. CASE old[n] # <<>> /\ ~ grows(n)
  <2> DEFINE listed == ListedIn(old)
  <2>1. n \in listed /\ n \in Present /\ listed \subseteq Names /\ Present \subseteq Names
    BY <1>4, TypeOfMemory DEF Growth, ListedIn
  <2>2. PICK a \in listed : ~ grows(a) /\ identity(old, listed) = old[a]
    <3> HIDE DEF listed
    <3> QED
      BY <1>4, <2>1, IdentityIs
  <2>3. PICK b \in Present : ~ grows(b) /\ identity(new, Present) = new[b]
    BY <1>4, <2>1, IdentityIs
  <2>4. a \in Names /\ b \in Names /\ old[a] # <<>> /\ new[b] # <<>> /\ new[n] # <<>>
    BY <1>4, <2>1, <2>2, <2>3 DEF ListedIn
  <2>5. old[a] = new[b] /\ Len(old[a]) \in Nat \ {0} /\ Len(new[b]) \in Nat \ {0}
    <3>1. old[a] = new[b]
      BY <2>2, <2>3 DEF Growth
    <3> QED
      BY <2>4, <3>1, TypeOfData
  <2>6. HeadComes(a) /\ HeadComes(b) /\ HeadComes(n)
    BY <1>4, <2>2, <2>3 DEF HeadComes, MetasCome, grows
  <2>7. /\ old[a][1] = [of |-> p[Label(a)], name |-> a, at |-> 1]
        /\ new[b][1] = [of |-> q[Label(b)], name |-> b, at |-> 1]
    BY <2>4, <2>5, <2>6 DEF OfOneMemory, IsDatasetOf
  <2>8. a = b /\ p[Label(a)] = q[Label(a)]
    BY <2>5, <2>7
  <2>9. /\ Len(p) \in Nat /\ Len(q) \in Nat
        /\ Label(a) \in 1..Len(p) /\ Label(a) \in 1..Len(q)
        /\ Label(n) \in 1..Len(p) /\ Label(n) \in 1..Len(q)
    <3>1. Label(a) \in Nat \ {0} /\ Label(n) \in Nat \ {0}
      BY <2>4, Labels, Constants
    <3>2. Len(p) \in Nat /\ Len(q) \in Nat
      OBVIOUS
    <3>3. Label(a) <= Len(p) /\ Label(a) <= Len(q) /\ Label(n) <= Len(p) /\ Label(n) <= Len(q)
      BY <1>4, <2>4, <2>8 DEF OfOneMemory
    <3> QED
      BY <3>1, <3>2, <3>3
  <2>10. p[Label(n)] = q[Label(n)]
    <3>1. /\ p[Label(a)] = p[1] + (Label(a) - 1) /\ p[Label(n)] = p[1] + (Label(n) - 1)
          /\ q[Label(a)] = q[1] + (Label(a) - 1) /\ q[Label(n)] = q[1] + (Label(n) - 1)
      BY <2>9 DEF Consecutive
    <3>2. p[1] \in Int /\ q[1] \in Int
      <4>1. 1 \in 1..Len(p) /\ 1 \in 1..Len(q)
        BY <2>9
      <4>2. p[1] \in Epochs /\ q[1] \in Epochs
        BY <4>1
      <4> QED
        BY <4>2 DEF Epochs
    <3>3. Label(a) \in Int /\ Label(n) \in Int
      BY <2>9
    <3>4. p[1] + (Label(a) - 1) = q[1] + (Label(a) - 1)
      BY <2>8, <3>1
    <3>5. \A x, y, k \in Int : x + (k - 1) = y + (k - 1) => x = y
      OBVIOUS
    <3>6. p[1] = q[1]
      BY <3>2, <3>3, <3>4, <3>5
    <3> QED
      BY <3>1, <3>6
  <2>11. IsDatasetOf(old[n], p[Label(n)], n) /\ IsDatasetOf(new[n], p[Label(n)], n)
    BY <1>4, <2>4, <2>6, <2>10 DEF OfOneMemory
  <2>12. Len(old[n]) <= Len(new[n])
    <3>1. Len(old[n]) = MetaLen[p[Label(n)]] /\ Len(new[n]) = MetaLen[p[Label(n)]]
      BY <1>4, <2>4, <2>10 DEF OfOneMemory
    <3> QED
      BY <1>1, <3>1
  <2> QED
    BY <1>1, <2>11, <2>12, DatasetPrefix
<1> QED
  BY <1>2, <1>3, <1>4

\* What a step of the download leaves in the partial file it is about.
LEMMA FetchedIs ==
    ASSUME TypeOK, Reading, Fetch \/ FetchNoBytes \/ FetchStopped
    PROVE  /\ pc = "fetch" /\ at \in Present /\ at \in Names /\ want[at] \in Nat
           /\ cut' \in 0..MaxShort
           /\ \E f \in Bytes :
                /\ parts' = [parts EXCEPT ![at] = f]
                /\ want[at] > 0 => /\ Len(f) \in Nat /\ Len(f) <= want[at]
                                   /\ HeadComes(at) => IsDatasetOf(f, memory[Label(at)].of, at)
                /\ want[at] = 0 => f = <<>> \/ f = parts[at]
                /\ Fetch => /\ got' = [got EXCEPT ![at] = IF want[at] > 0 THEN f ELSE <<>>]
                            /\ want[at] > 0 => Len(f) = want[at]
                /\ FetchNoBytes => /\ got' = [got EXCEPT ![at] = IF want[at] > 0 THEN f ELSE <<>>]
                                   /\ ~ (MetasCome /\ ~ grows(at))
<1> DEFINE Leaves(f) ==
      /\ parts' = [parts EXCEPT ![at] = f]
      /\ want[at] > 0 => /\ Len(f) \in Nat /\ Len(f) <= want[at]
                         /\ HeadComes(at) => IsDatasetOf(f, memory[Label(at)].of, at)
      /\ want[at] = 0 => f = <<>> \/ f = parts[at]
      /\ Fetch => /\ got' = [got EXCEPT ![at] = IF want[at] > 0 THEN f ELSE <<>>]
                  /\ want[at] > 0 => Len(f) = want[at]
      /\ FetchNoBytes => /\ got' = [got EXCEPT ![at] = IF want[at] > 0 THEN f ELSE <<>>]
                         /\ ~ (MetasCome /\ ~ grows(at))
<1>1. pc = "fetch" /\ at \in Present /\ at \in Names /\ want[at] \in Nat /\ parts \in Data
  BY TypeOfMemory DEF Fetch, FetchNoBytes, FetchStopped, TypeOK
<1> SUFFICES cut' \in 0..MaxShort /\ \E f \in Bytes : Leaves(f)
  BY <1>1
<1>2. \A f : [parts EXCEPT ![at] = f][at] = f
  BY <1>1 DEF Data
<1>3. cut \in 0..MaxShort /\ MaxShort \in Nat
  BY DatasetAssumption DEF TypeOK, DatasetAssumption
<1>4. ASSUME NEW head \in Heads(at), NEW m \in 0..(want[at] - 1), m >= Len(Opened(at, head))
      PROVE  /\ want[at] > 0 /\ ReadTo(at, head, m) \in Bytes
             /\ Len(ReadTo(at, head, m)) \in Nat /\ Len(ReadTo(at, head, m)) <= want[at]
             /\ HeadComes(at) => IsDatasetOf(ReadTo(at, head, m), memory[Label(at)].of, at)
  <2>1. want[at] > 0 /\ m \in Nat /\ m <= want[at]
    BY <1>1
  <2>2. Len(Opened(at, head)) \in Nat
    BY <1>1, OpenedIs
  <2>3. Len(Opened(at, head)) <= m
    BY <1>4, <2>1, <2>2
  <2> QED
    BY <1>1, <2>1, <2>3, ReadToIs
<1>5. CASE Fetch
  <2>1. PICK head \in Heads(at) :
           parts' = [parts EXCEPT ![at] = ReadTo(at, head, want[at])] /\ cut' = Missing(head)
    BY <1>5 DEF Fetch
  <2> DEFINE f == ReadTo(at, head, want[at])
  <2>2. cut' \in 0..MaxShort
    BY <1>1, <2>1, HeadsAre
  <2>3. got' = [got EXCEPT ![at] = IF want[at] > 0 THEN f ELSE <<>>]
    BY <1>2, <1>5, <2>1 DEF Fetch
  <2>4. CASE want[at] > 0
    <3>1. Len(Opened(at, head)) <= want[at]
      BY <1>1, <2>4, OpenedIs
    <3>2. /\ f \in Bytes /\ Len(f) = want[at]
          /\ HeadComes(at) => IsDatasetOf(f, memory[Label(at)].of, at)
      BY <1>1, <2>4, <3>1, ReadToIs
    <3>3. ~ FetchNoBytes \/ ~ (MetasCome /\ ~ grows(at))
      <4>1. SUFFICES ASSUME FetchNoBytes PROVE ~ (MetasCome /\ ~ grows(at))
        OBVIOUS
      <4>2. gen4 /\ \E h \in Heads(at) : h => Kind(at) \in omits.short
        BY <4>1 DEF FetchNoBytes
      <4> QED
        BY <1>1, <4>2, HeadsAre DEF MetasCome, HeadComes, grows
    <3>4. FetchNoBytes => got' = [got EXCEPT ![at] = IF want[at] > 0 THEN f ELSE <<>>]
      BY <2>3
    <3>5. Leaves(f)
      <4> HIDE DEF f
      <4> QED
        BY <1>1, <2>1, <2>3, <2>4, <3>2, <3>3, <3>4 DEF f
    <3> QED
      BY <2>2, <3>2, <3>5
  <2>5. CASE want[at] = 0
    <3>1. f \in Bytes /\ f \in {<<>>, parts[at]}
      BY <1>1, <2>5, ReadNone
    <3>2. ~ FetchNoBytes
      BY <2>5 DEF FetchNoBytes
    <3>3. Leaves(f)
      BY <1>1, <2>1, <2>3, <2>5, <3>1, <3>2
    <3> QED
      BY <2>2, <3>1, <3>3
  <2> QED
    BY <1>1, <2>4, <2>5
<1>6. CASE FetchNoBytes /\ ~ Fetch
  <2>1. PICK head \in Heads(at), m \in 0..(want[at] - 1) :
           /\ head => Kind(at) \in omits.short /\ m >= 1
           /\ m >= Len(Opened(at, head))
           /\ parts' = [parts EXCEPT ![at] = ReadTo(at, head, m)]
    BY <1>6 DEF FetchNoBytes
  <2>2. ~ (MetasCome /\ ~ grows(at))
    BY <1>1, <1>6, <2>1, HeadsAre DEF FetchNoBytes, MetasCome, HeadComes, grows
  <2>3. got' = [got EXCEPT ![at] = ReadTo(at, head, m)]
    BY <1>2, <1>6, <2>1 DEF FetchNoBytes
  <2>4. cut' \in 0..MaxShort
    BY <1>3, <1>6 DEF FetchNoBytes
  <2> DEFINE f == ReadTo(at, head, m)
  <2>5. /\ want[at] > 0 /\ f \in Bytes /\ Len(f) \in Nat /\ Len(f) <= want[at]
        /\ HeadComes(at) => IsDatasetOf(f, memory[Label(at)].of, at)
    BY <1>4, <2>1
  <2>6. parts' = [parts EXCEPT ![at] = f]
    BY <2>1
  <2> HIDE DEF f
  <2>7. got' = [got EXCEPT ![at] = IF want[at] > 0 THEN f ELSE <<>>]
    BY <2>3, <2>5 DEF f
  <2>8. Leaves(f)
    BY <1>1, <1>6, <2>2, <2>5, <2>6, <2>7
  <2> QED
    BY <2>4, <2>5, <2>8
<1>7. CASE FetchStopped /\ ~ Fetch /\ ~ FetchNoBytes
  <2>1. PICK head \in Heads(at), m \in 0..(want[at] - 1) :
           /\ m >= Len(Opened(at, head))
           /\ parts' = [parts EXCEPT ![at] = ReadTo(at, head, m)] /\ cut' = Missing(head)
    BY <1>7 DEF FetchStopped
  <2>2. cut' \in 0..MaxShort
    BY <1>1, <2>1, HeadsAre
  <2>3. Leaves(ReadTo(at, head, m))
    BY <1>1, <1>4, <1>7, <2>1
  <2> QED
    BY <1>4, <2>1, <2>2, <2>3
<1> QED
  BY <1>5, <1>6, <1>7

-----------------------------------------------------------------------------
(* Writing files.                                                          *)

LEMMA FileWritten ==
    ASSUME NEW F \in [Tags -> Data], NEW s \in Tags, NEW n \in Names, NEW f \in Bytes,
           NEW G, G = [F EXCEPT ![s][n] = f]
    PROVE  /\ G \in [Tags -> Data] /\ G[s][n] = f
           /\ \A r \in Tags, m \in Names : (r # s \/ m # n) => G[r][m] = F[r][m]
<1>1. F[s] \in [Names -> Bytes]
  BY DEF Data
<1>2. [F[s] EXCEPT ![n] = f] \in Data
  BY <1>1 DEF Data
<1>3. G = [F EXCEPT ![s] = [F[s] EXCEPT ![n] = f]]
  OBVIOUS
<1>4. G \in [Tags -> Data] /\ G[s] = [F[s] EXCEPT ![n] = f]
  BY <1>2, <1>3
<1>5. \A r \in Tags : r # s => G[r] = F[r]
  BY <1>3
<1> QED
  BY <1>1, <1>4, <1>5

\* A file cut short is a file; the rest of a file is one too.
LEMMA PartOfFile ==
    ASSUME NEW f \in Bytes, NEW k \in Nat, NEW m \in 0..Len(f)
    PROVE  SubSeq(f, k + 1, m) \in Bytes
<1>1. Len(f) \in Nat /\ m \in Nat /\ m <= Len(f)
  BY DEF Bytes
<1> QED
  BY <1>1, SubSeqProperties DEF Bytes

LEMMA StemIsTag ==
    ASSUME TypeOK, TagIsFresh, pc = "store"
    PROVE  Stem \in Tags /\ Stem \in started /\ NextIndex \in Nat
<1>1. tag \in Tags /\ tag \in started
  BY DEF TagIsFresh, Offloading, TypeOK
<1>2. CASE held = NoDeployment
  BY <1>1, <1>2 DEF Stem, NextIndex
<1>3. CASE held # NoDeployment
  BY <1>3, TypeOfHeld DEF Stem, NextIndex, TagIsFresh
<1> QED
  BY <1>2, <1>3

\* Storing writes one file: whole, or after what is there of it.
LEMMA StoredIs ==
    ASSUME TypeOK, TagIsFresh, pc = "store", at \in Names, NEW m \in 0..Len(got[at])
    PROVE  \E f \in Bytes :
              /\ Stored(at, m) = [files EXCEPT ![Stem][at] = f]
              /\ f = IF Whole(at) THEN got[at]
                     ELSE files[Stem][at] \o SubSeq(got[at], Offset(at) + 1, m)
<1>1. Stem \in Tags /\ got[at] \in Bytes /\ files[Stem] \in Data /\ files \in [Tags -> Data]
  BY StemIsTag, TypeOfData DEF TypeOK
<1>2. files[Stem][at] \in Bytes /\ Offset(at) \in Nat
  BY <1>1, TypeOfData, TypeOfHeld DEF Offset
<1>3. SubSeq(got[at], Offset(at) + 1, m) \in Bytes
  BY <1>1, <1>2, PartOfFile
<1> DEFINE f == IF Whole(at) THEN got[at] ELSE files[Stem][at] \o SubSeq(got[at], Offset(at) + 1, m)
<1>4. f \in Bytes
  BY <1>1, <1>2, <1>3 DEF Bytes
<1>5. Stored(at, m) = [files EXCEPT ![Stem][at] = f]
  BY <1>1 DEF Stored, Data
<1> QED
  BY <1>4, <1>5

\* What is appended to is what was held, unless it was damaged.
LEMMA AppendedTo ==
    ASSUME TypeOK, Storing, StoredSoFar, RecordsDescribePrefixes,
           pc = "store", at \in Names, ~ Whole(at), Stem \notin lost
    PROVE  /\ held # NoDeployment /\ files[Stem][at] = held.data[at]
           /\ IsPrefix(held.data[at], got[at])
<1>1. held.data \in Data /\ got \in Data /\ files \in [Tags -> Data]
  BY TypeOfHeld DEF TypeOK
<1>2. held.data[at] \in Bytes /\ got[at] \in Bytes
  BY <1>1, TypeOfData
<1>3. Offset(at) # 0 /\ Len(files[Stem][at]) = Offset(at)
  BY DEF Whole
<1>4. held # NoDeployment /\ Offset(at) = Len(held.data[at])
  BY <1>3, TypeOfEmpty DEF Offset
<1>5. PICK l \in Recorded : held = records[l]
  BY <1>4 DEF Storing, HeldIsLast
<1>6. Stem = held.stem /\ Stem \in Tags
  BY <1>4, TypeOfHeld DEF Stem
<1>7. IsPrefix(held.data[at], files[Stem][at]) /\ files[Stem][at] \in Bytes
  BY <1>1, <1>5, <1>6, TypeOfData DEF RecordsDescribePrefixes
<1>8. files[Stem][at] = held.data[at]
  <2>1. \A i \in 1..Len(held.data[at]) : held.data[at][i] = files[Stem][at][i]
    BY <1>2, <1>7, PrefixByCell DEF Bytes
  <2> QED
    BY <1>2, <1>3, <1>4, <1>7, <2>1, SeqEqual DEF Bytes
<1> QED
  BY <1>4, <1>8 DEF StoredSoFar

\* So a dataset that is stored to its end is there as it was read.
LEMMA StoredWhole ==
    ASSUME TypeOK, Storing, StoredSoFar, RecordsDescribePrefixes,
           pc = "store", at \in Names, Stem \notin lost
    PROVE  Stored(at, Len(got[at])) = [files EXCEPT ![Stem][at] = got[at]]
<1>1. got[at] \in Bytes /\ Len(got[at]) \in 0..Len(got[at]) /\ held.data[at] \in Bytes
  BY TypeOfData, TypeOfHeld DEF TypeOK
<1>2. PICK f \in Bytes :
         /\ Stored(at, Len(got[at])) = [files EXCEPT ![Stem][at] = f]
         /\ f = IF Whole(at) THEN got[at]
                ELSE files[Stem][at] \o SubSeq(got[at], Offset(at) + 1, Len(got[at]))
  BY <1>1, StoredIs DEF Storing
<1>3. CASE Whole(at)
  BY <1>2, <1>3
<1>4. CASE ~ Whole(at)
  <2>1. files[Stem][at] = held.data[at] /\ IsPrefix(held.data[at], got[at]) /\ Offset(at) # 0
    BY <1>4, AppendedTo DEF Whole
  <2>2. Offset(at) = Len(held.data[at])
    BY <2>1 DEF Offset
  <2>3. f = got[at]
    BY <1>1, <1>2, <1>4, <2>1, <2>2, AppendRest DEF Bytes
  <2> QED
    BY <1>2, <2>3
<1> QED
  BY <1>3, <1>4

-----------------------------------------------------------------------------
(* The steps, by what they change.                                         *)

Logs == \E k \in 2..3 : Log(k)
Damages == \E s \in Tags, n \in Names : Damage(s, n)
Begins == \E t \in Tags : Begin(t)
Removes == \E n \in Names : RemovePart(n)
Starts == CannotTrust \/ Trust
Fetches == Fetch \/ FetchNoBytes
Ends == FetchStopped \/ StoreStopped \/ Finish \/ Interrupt

LEMMA NextByKind ==
    [Next]_vars =>
        \/ Logs \/ Erase \/ Enable \/ Damages
        \/ Begins \/ Find \/ CheckFile \/ Starts
        \/ Fetches \/ Receive \/ Store \/ WriteRecord \/ Removes
        \/ Ends \/ UNCHANGED vars
  BY DEF Next, Logs, Damages, Begins, Removes, Starts, Fetches, Ends

LEMMA EndsEffect ==
    ASSUME Ends
    PROVE  /\ pc # "idle" /\ pc' = "idle" /\ at' = 1 /\ tag' = NoTag /\ want' = NoSizes
           /\ held' = NoDeployment /\ got' = NoData
           /\ UNCHANGED <<gen4, omits, epoch, memory, records, lost, started>>
           /\ (parts' = parts /\ cut' = cut) \/ FetchStopped
           /\ files' = files \/ StoreStopped
  BY DEF Ends, FetchStopped, StoreStopped, Finish, Interrupt, Stop, logger, disk

\* What the open dataset's growth changes, and what it leaves.
LEMMA LogsEffect ==
    ASSUME TypeOK, Logs
    PROVE  /\ pc \in {"idle", "fetch"}
           /\ memory' \in Seq([of : Epochs, size : [1..3 -> Nat]]) /\ Len(memory') = Len(memory)
           /\ \A l \in 1..Len(memory) :
                 /\ memory'[l].of = memory[l].of /\ memory'[l].size[1] = memory[l].size[1]
                 /\ \A k \in 1..3 : memory[l].size[k] <= memory'[l].size[k]
           /\ UNCHANGED <<gen4, omits, epoch, disk, offloading>>
<1> DEFINE Deployment == [of : Epochs, size : [1..3 -> Nat]]
<1>1. PICK k \in 2..3 : Log(k)
  BY DEF Logs
<1>2. memory \in Seq(Deployment) /\ memory # <<>>
  BY <1>1 DEF Log, TypeOK
<1> DEFINE L == Len(memory)
<1>3. L \in Nat /\ L \in 1..L
  <2> HIDE DEF Deployment
  <2> QED
    BY <1>2, EmptySeq
<1>4. memory[L] \in Deployment
  <2> HIDE DEF Deployment
  <2> QED
    BY <1>2, <1>3
<1> DEFINE d == [memory[L] EXCEPT !.size[k] = @ + 1]
<1>5. memory' = [memory EXCEPT ![L] = d]
  BY <1>1 DEF Log
<1>6. memory[L].size \in [1..3 -> Nat] /\ memory[L].of \in Epochs
  BY <1>4
<1>7. /\ d \in Deployment /\ d.of = memory[L].of
      /\ d.size = [memory[L].size EXCEPT ![k] = @ + 1]
  BY <1>4, <1>6
<1>8. d.size[1] = memory[L].size[1] /\ \A j \in 1..3 : memory[L].size[j] <= d.size[j]
  BY <1>6, <1>7
<1> HIDE DEF Deployment, d
<1>9. memory' \in Seq(Deployment) /\ Len(memory') = L
  BY <1>2, <1>3, <1>5, <1>7
<1>10. \A l \in 1..L : memory'[l] = IF l = L THEN d ELSE memory[l]
  BY <1>2, <1>5
<1>11. ASSUME NEW l \in 1..L
       PROVE  /\ memory'[l].of = memory[l].of /\ memory'[l].size[1] = memory[l].size[1]
              /\ \A j \in 1..3 : memory[l].size[j] <= memory'[l].size[j]
  <2>1. CASE l = L
    BY <1>7, <1>8, <1>10, <2>1
  <2>2. CASE l # L
    <3>1. memory'[l] = memory[l] /\ memory[l] \in Deployment
      BY <1>2, <1>10, <2>2
    <3>2. memory[l].size \in [1..3 -> Nat]
      BY <3>1 DEF Deployment
    <3> QED
      BY <3>1, <3>2
  <2> QED
    BY <2>1, <2>2
<1> QED
  BY <1>1, <1>9, <1>11 DEF Log, Deployment

LEMMA EnableEffect ==
    ASSUME TypeOK, Enable
    PROVE  /\ pc = "idle" /\ epoch < MaxEpoch /\ epoch' = epoch + 1
           /\ Len(memory) + 1 <= IF gen4 THEN MaxLabels ELSE 1
           /\ memory' \in Seq([of : Epochs, size : [1..3 -> Nat]]) /\ Len(memory') = Len(memory) + 1
           /\ \A l \in 1..Len(memory) : memory'[l] = memory[l]
           /\ memory'[Len(memory) + 1] = [of |-> epoch + 1, size |-> <<MetaLen[epoch + 1], 0, 0>>]
           /\ MetaLen[epoch + 1] \in Nat
           /\ UNCHANGED <<gen4, omits, disk, offloading>>
<1> DEFINE Deployment == [of : Epochs, size : [1..3 -> Nat]]
<1> DEFINE d == [of |-> epoch + 1, size |-> <<MetaLen[epoch + 1], 0, 0>>]
<1>1. epoch \in Nat /\ epoch < MaxEpoch /\ MaxEpoch \in Nat
  BY Constants DEF Enable, TypeOK
<1>2. d \in Deployment /\ MetaLen[epoch + 1] \in Nat
  <2>1. epoch + 1 \in Epochs /\ MetaLen[epoch + 1] \in Nat
    BY <1>1, DatasetAssumption DEF Epochs, DatasetAssumption
  <2> QED
    BY <2>1
<1>3. memory \in Seq(Deployment) /\ memory' = Append(memory, d)
  BY DEF Enable, TypeOK
<1> HIDE DEF Deployment, d
<1>4. Len(memory) \in Nat
  BY <1>3
<1>5. /\ memory' \in Seq(Deployment) /\ Len(memory') = Len(memory) + 1
      /\ \A l \in 1..Len(memory) : memory'[l] = memory[l]
      /\ memory'[Len(memory) + 1] = d
  BY <1>2, <1>3
<1>6. Len(memory) + 1 <= IF gen4 THEN MaxLabels ELSE 1
  <2>1. Len(memory) < IF gen4 THEN MaxLabels ELSE 1
    BY DEF Enable
  <2>2. CASE gen4
    BY <1>4, <2>1, <2>2, Constants
  <2>3. CASE ~ gen4
    BY <1>4, <2>1, <2>3
  <2> QED
    BY <2>2, <2>3
<1> QED
  BY <1>2, <1>5, <1>6 DEF Enable, Deployment, d

-----------------------------------------------------------------------------
(* Every step keeps the types.                                             *)

LEMMA TypeInit == Init => TypeOK
<1> SUFFICES ASSUME Init PROVE TypeOK
  OBVIOUS
<1>1. memory \in Seq([of : Epochs, size : [1..3 -> Nat]]) /\ Len(memory) = 0
  BY DEF Init
<1>2. Len(memory) <= IF gen4 THEN MaxLabels ELSE 1
  <2>1. CASE gen4
    BY <1>1, <2>1, Constants
  <2>2. CASE ~ gen4
    BY <1>1, <2>2
  <2> QED
    BY <2>1, <2>2
<1>3. omits \in [short : SUBSET (1..3), heads : SUBSET (1..3)]
  BY DatasetAssumption DEF Init, Nothing, DatasetAssumption
<1>4. 0 \in 0..MaxEpoch /\ 0 \in 0..MaxShort /\ 1 \in 1..End
  BY Constants, DatasetAssumption DEF DatasetAssumption
<1> QED
  BY <1>1, <1>2, <1>3, <1>4, TypeOfEmpty DEF Init, TypeOK

\* The types of the variables of an offload.
LEMMA TypeEnds ==
    ASSUME TypeOK, Ends
    PROVE  /\ pc' \in {"idle"} /\ at' \in 1..End /\ started' \subseteq Tags /\ tag' \in {NoTag}
           /\ want' \in [Names -> Nat] /\ got' \in Data /\ held' \in {NoDeployment}
           /\ ~ FetchStopped => cut' \in 0..MaxShort
  BY EndsEffect, TypeOfEmpty, Constants DEF TypeOK

\* The file system's and the logger's own steps.
LEMMA TypeOutside ==
    ASSUME TypeOK, Logs \/ Erase \/ Enable \/ Damages
    PROVE  TypeOK'
<1>1. CASE Logs
  <2>1. /\ memory' \in Seq([of : Epochs, size : [1..3 -> Nat]]) /\ Len(memory') = Len(memory)
        /\ UNCHANGED <<gen4, omits, epoch, disk, offloading>>
    BY <1>1, LogsEffect
  <2>2. Len(memory') <= IF gen4' THEN MaxLabels ELSE 1
    BY <2>1 DEF TypeOK
  <2>3. omits' \in [short : SUBSET (1..3), heads : SUBSET (1..3)]
    BY <2>1 DEF TypeOK
  <2> QED
    BY <2>1, <2>2, <2>3 DEF TypeOK, disk, offloading
<1>2. CASE Erase
  <2>1. memory' = <<>> /\ Len(memory') = 0 /\ memory' \in Seq([of : Epochs, size : [1..3 -> Nat]])
    BY <1>2 DEF Erase
  <2>2. Len(memory') <= IF gen4 THEN MaxLabels ELSE 1
    <3>1. CASE gen4
      BY <2>1, <3>1, Constants
    <3>2. CASE ~ gen4
      BY <2>1, <3>2
    <3> QED
      BY <3>1, <3>2
  <2> QED
    BY <1>2, <2>1, <2>2 DEF Erase, TypeOK, disk, offloading
<1>3. CASE Enable
  <2>1. epoch' \in 0..MaxEpoch
    <3>1. epoch \in 0..MaxEpoch /\ MaxEpoch \in Nat
      BY Constants DEF TypeOK
    <3> QED
      BY <1>3, <3>1, EnableEffect
  <2>2. /\ memory' \in Seq([of : Epochs, size : [1..3 -> Nat]])
        /\ Len(memory') <= IF gen4 THEN MaxLabels ELSE 1
    BY <1>3, EnableEffect
  <2>3. UNCHANGED <<gen4, omits, disk, offloading>>
    BY <1>3, EnableEffect
  <2> QED
    BY <2>1, <2>2, <2>3 DEF TypeOK, disk, offloading
<1>4. ASSUME NEW s \in Tags, NEW n \in Names, Damage(s, n) PROVE TypeOK'
  <2>1. PICK m \in 0..(Len(files[s][n]) - 1) : files' = [files EXCEPT ![s][n] = SubSeq(@, 1, m)]
    BY <1>4 DEF Damage
  <2>2. files \in [Tags -> Data] /\ files[s] \in Data
    BY DEF TypeOK
  <2>3. files[s][n] \in Bytes /\ Len(files[s][n]) \in Nat
    BY <2>2, TypeOfData
  <2>4. m \in 0..Len(files[s][n]) /\ SubSeq(files[s][n], 1, m) \in Bytes
    BY <2>1, <2>3, PartOfFile
  <2>5. files' \in [Tags -> Data]
    BY <2>1, <2>2, <2>4, FileWritten
  <2> QED
    BY <1>4, <2>5 DEF Damage, TypeOK, logger, offloading
<1> QED
  BY <1>1, <1>2, <1>3, <1>4 DEF Damages

\* Looking for the deployment on disk.
LEMMA TypeFinding ==
    ASSUME TypeOK, Storing, IndexIsBounded, Begins \/ Find \/ CheckFile \/ Starts
    PROVE  TypeOK'
<1>1. Sizes \in [Names -> Nat]
  BY TypeOfMemory
<1>2. CASE Begins
  BY <1>1, <1>2 DEF Begins, Begin, TypeOK, logger, disk
<1>3. CASE Find
  <2>1. held' \in Record \cup {NoDeployment}
    <3>1. CASE Recorded = {}
      BY <1>3, <3>1 DEF Find
    <3>2. CASE Recorded # {}
      <4>1. PICK t \in Recorded : NewestStem = records[t].stem
        BY <3>2, NewestIs
      <4>2. t \in OfStem(NewestStem)
        BY <4>1 DEF OfStem
      <4>3. Latest(NewestStem) \in Recorded
        BY <4>2, LatestIs DEF OfStem
      <4> QED
        BY <1>3, <3>2, <4>3, TypeOfRecord DEF Find
    <3> QED
      BY <3>1, <3>2
  <2>2. at' \in 1..End
    BY <1>3, NextIs, Constants DEF Find
  <2> QED
    BY <1>3, <2>1, <2>2 DEF Find, TypeOK, logger, disk
<1>4. CASE CheckFile
  <2>1. at \in Names /\ held # NoDeployment /\ held.stem \in Tags /\ held.data \in Data
    <3>1. at \in 1..End /\ at # End /\ held # NoDeployment
      BY <1>4 DEF CheckFile, Storing, HeldIsLast, TypeOK
    <3> QED
      BY <3>1, TypeOfHeld, Constants
  <2>2. held.data[at] \in Bytes /\ at + 1 \in 1..End
    BY <2>1, TypeOfData, Constants
  <2>3. files' \in [Tags -> Data]
    <3>1. files \in [Tags -> Data] /\ files' = [files EXCEPT ![held.stem][at] = held.data[at]]
      BY <1>4 DEF CheckFile, TypeOK
    <3> QED
      BY <2>1, <2>2, <3>1, FileWritten
  <2>4. at' \in 1..End
    BY <1>4, <2>2, NextIs DEF CheckFile
  <2> QED
    BY <1>4, <2>3, <2>4 DEF CheckFile, TypeOK, logger
<1>5. CASE Starts
  <2>1. PICK h \in {held, NoDeployment} : StartDownload(h)
    BY <1>5 DEF Starts, CannotTrust, Trust
  <2>2. want' \in [Names -> Nat]
    BY <1>1, <2>1 DEF StartDownload, TypeOK
  <2> QED
    BY <2>1, <2>2, Constants DEF StartDownload, TypeOK, logger, disk
<1> QED
  BY <1>2, <1>3, <1>4, <1>5

\* Downloading it.
LEMMA TypeDownload ==
    ASSUME TypeOK, Reading, Fetches \/ FetchStopped \/ Receive \/ Removes
    PROVE  TypeOK'
<1>1. ASSUME NEW f \in Bytes, NEW n \in Names
      PROVE  [parts EXCEPT ![n] = f] \in Data /\ [got EXCEPT ![n] = f] \in Data
  BY <1>1 DEF TypeOK, Data
<1>2. CASE Fetches \/ FetchStopped
  <2>1. PICK f \in Bytes :
           /\ parts' = [parts EXCEPT ![at] = f]
           /\ Fetch => got' = [got EXCEPT ![at] = IF want[at] > 0 THEN f ELSE <<>>]
           /\ FetchNoBytes => got' = [got EXCEPT ![at] = IF want[at] > 0 THEN f ELSE <<>>]
    BY <1>2, FetchedIs DEF Fetches
  <2>2. at \in Names /\ at + 1 \in 1..End /\ cut' \in 0..MaxShort
    BY <1>2, FetchedIs, Constants DEF Fetches
  <2>3. (IF want[at] > 0 THEN f ELSE <<>>) \in Bytes
    BY TypeOfEmpty
  <2>4. parts' \in Data /\ (Fetches => got' \in Data)
    BY <1>1, <2>1, <2>2, <2>3 DEF Fetches
  <2>5. CASE Fetch
    BY <2>2, <2>4, <2>5 DEF Fetches, Fetch, TypeOK, logger
  <2>6. CASE FetchNoBytes
    BY <2>2, <2>4, <2>6 DEF Fetches, FetchNoBytes, TypeOK, logger
  <2>7. CASE FetchStopped
    <3>1. Ends
      BY <2>7 DEF Ends
    <3> QED
      BY <2>2, <2>4, <2>7, <3>1, TypeEnds DEF FetchStopped, TypeOK, logger
  <2> QED
    BY <1>2, <2>5, <2>6, <2>7 DEF Fetches
<1>3. CASE Receive
  <2>1. at' \in 1..End /\ held' \in Record \cup {NoDeployment}
    BY <1>3, NextIs, Constants DEF Receive, TypeOK
  <2> QED
    BY <1>3, <2>1 DEF Receive, TypeOK, logger, disk
<1>4. ASSUME NEW n \in Names, RemovePart(n) PROVE TypeOK'
  <2>1. parts' \in Data
    BY <1>1, <1>4, TypeOfEmpty DEF RemovePart
  <2> QED
    BY <1>4, <2>1 DEF RemovePart, TypeOK, logger, offloading
<1> QED
  BY <1>2, <1>3, <1>4 DEF Removes

\* Storing it.
LEMMA TypeStoring ==
    ASSUME TypeOK, TagIsFresh, Store \/ StoreStopped \/ WriteRecord \/ Finish \/ Interrupt
    PROVE  TypeOK'
<1>1. ASSUME pc = "store", at \in Names, NEW m \in 0..Len(got[at]) PROVE Stored(at, m) \in [Tags -> Data]
  <2>1. PICK f \in Bytes : Stored(at, m) = [files EXCEPT ![Stem][at] = f]
    BY <1>1, StoredIs
  <2>2. files \in [Tags -> Data] /\ Stem \in Tags
    BY <1>1, StemIsTag DEF TypeOK
  <2>3. [files EXCEPT ![Stem][at] = f] \in [Tags -> Data]
    BY <1>1, <2>2, FileWritten
  <2> QED
    BY <2>1, <2>3
<1>2. at # End => at \in Names /\ at + 1 \in 1..End /\ Len(got[at]) \in Nat
  <2>1. at # End => at \in Names
    BY Constants DEF TypeOK
  <2> QED
    BY <2>1, Constants, TypeOfData DEF TypeOK
<1>3. CASE Store
  <2>1. files' \in [Tags -> Data]
    BY <1>1, <1>2, <1>3 DEF Store
  <2>2. at' \in 1..End
    BY <1>2, <1>3, NextIs DEF Store
  <2> QED
    BY <1>3, <2>1, <2>2 DEF Store, TypeOK, logger
<1>4. CASE StoreStopped
  <2>1. PICK m \in (Offset(at) + 1)..Len(got[at]) : files' = Stored(at, m)
    BY <1>4 DEF StoreStopped
  <2>2. Offset(at) \in Nat
    BY <1>2, <1>4, TypeOfHeld, TypeOfData DEF StoreStopped, Offset
  <2>3. files' \in [Tags -> Data]
    BY <1>1, <1>2, <1>4, <2>1, <2>2 DEF StoreStopped
  <2>4. Ends
    BY <1>4 DEF Ends
  <2> QED
    BY <1>4, <2>3, <2>4, TypeEnds DEF StoreStopped, TypeOK, logger
<1>5. CASE WriteRecord
  <2>1. Stem \in Tags /\ NextIndex \in Nat
    BY <1>5, StemIsTag DEF WriteRecord
  <2>2. [l \in 1..Len(memory) |-> memory[l].of] \in Seq(Epochs)
    BY TypeOfMemory DEF Deployments
  <2>3. got \in Data /\ want \in [Names -> Nat]
    BY DEF TypeOK
  <2> DEFINE r == [stem |-> Stem, index |-> NextIndex, data |-> got,
                   of |-> [l \in 1..Len(memory) |-> memory[l].of], sizes |-> want,
                   short |-> \E n \in Names : Len(got[n]) < want[n]]
  <2>4. r \in Record
    BY <2>1, <2>2, <2>3 DEF Record
  <2>5. records' \in [Tags -> Record \cup {NoRecord}]
    <3>1. records' = records \/ records' = [records EXCEPT ![tag] = r]
      BY <1>5 DEF WriteRecord
    <3> HIDE DEF r
    <3> QED
      BY <2>4, <3>1 DEF TypeOK
  <2> QED
    BY <1>5, <2>5 DEF WriteRecord, TypeOK, logger
<1>6. CASE Finish \/ Interrupt
  <2>1. Ends
    BY <1>6 DEF Ends
  <2> QED
    BY <1>6, <2>1, TypeEnds DEF Finish, Interrupt, TypeOK, logger, disk
<1> QED
  BY <1>3, <1>4, <1>5, <1>6

LEMMA TypeStep ==
    ASSUME IInv, [Next]_vars
    PROVE  TypeOK'
<1>1. UNCHANGED vars => TypeOK'
  BY DEF vars, IInv, TypeOK
<1> QED
  BY <1>1, NextByKind, TypeOutside, TypeFinding, TypeDownload, TypeStoring
     DEF IInv, Storing, Records, Ends

-----------------------------------------------------------------------------
(* What is read is of the memory.                                          *)

LEMMA LoggerKept ==
    ASSUME [Next]_vars, ~ Logs, ~ Erase, ~ Enable
    PROVE  UNCHANGED <<gen4, omits, epoch, memory>>
<1>1. Damages \/ Begins \/ Removes => UNCHANGED <<gen4, omits, epoch, memory>>
  BY DEF Damages, Begins, Removes, Damage, Begin, RemovePart, logger
<1>2. Find \/ CheckFile \/ Starts \/ Receive \/ Store \/ WriteRecord \/ Fetches => UNCHANGED <<gen4, omits, epoch, memory>>
  BY DEF Find, CheckFile, Starts, CannotTrust, Trust, StartDownload, Receive, Store, WriteRecord,
         Fetches, Fetch, FetchNoBytes, logger
<1>3. Ends => UNCHANGED <<gen4, omits, epoch, memory>>
  BY EndsEffect
<1> QED
  BY <1>1, <1>2, <1>3, NextByKind DEF vars

LEMMA FamilyKept ==
    ASSUME TypeOK, [Next]_vars
    PROVE  /\ gen4' = gen4 /\ omits' = omits
           /\ HeadsCome' <=> HeadsCome
           /\ MetasCome' <=> MetasCome
<1>1. gen4' = gen4 /\ omits' = omits
  BY LoggerKept, LogsEffect, EnableEffect DEF Erase
<1> QED
  BY <1>1 DEF HeadsCome, MetasCome

\* An offload's steps to and fro, and who else may step meanwhile.
LEMMA OffloadingKept ==
    ASSUME [Next]_vars, Offloading'
    PROVE  /\ Begins \/ Offloading
           /\ ~ Erase /\ ~ Enable /\ ~ WriteRecord /\ ~ Removes /\ ~ Ends
           /\ (~ Begins /\ ~ Starts) => want' = want
<1>1. pc' \in {"find", "check", "fetch", "store"}
  BY DEF Offloading
<1>2. /\ Erase \/ Enable => pc' = "idle"
      /\ WriteRecord \/ Removes => pc' = "unlink"
      /\ Ends => pc' = "idle"
  BY EndsEffect DEF Erase, Enable, WriteRecord, Removes, RemovePart, offloading
<1>3. Logs \/ Damages => pc' = pc /\ want' = want
  BY DEF Logs, Damages, Log, Damage, offloading
<1>4. Find \/ CheckFile \/ Starts \/ Fetches \/ Receive \/ Store => Offloading
  BY DEF Find, CheckFile, Starts, CannotTrust, Trust, Fetches, Fetch, FetchNoBytes, Receive, Store, Offloading
<1>5. Find \/ CheckFile \/ Fetches \/ Receive \/ Store => want' = want
  BY DEF Find, CheckFile, Fetches, Fetch, FetchNoBytes, Receive, Store
<1>6. UNCHANGED vars => pc' = pc /\ want' = want
  BY DEF vars
<1>7. pc' = pc => Offloading
  BY <1>1 DEF Offloading
<1> QED
  BY <1>1, <1>2, <1>3, <1>4, <1>5, <1>6, <1>7, NextByKind

LEMMA MemoryInit == Init => MemoryInOrder
<1> SUFFICES ASSUME Init PROVE MemoryInOrder
  OBVIOUS
<1>1. Len(memory) = 0
  BY DEF Init
<1> QED
  BY <1>1 DEF MemoryInOrder

LEMMA MemoryStep ==
    ASSUME IInv, [Next]_vars
    PROVE  MemoryInOrder'
<1>1. TypeOK /\ MemoryInOrder
  BY DEF IInv, Reading
<1>2. CASE Logs
  <2>1. epoch' = epoch
    BY <1>1, <1>2, LogsEffect
  <2> QED
    BY <1>1, <1>2, <2>1, LogsEffect DEF MemoryInOrder
<1>3. CASE Erase
  <2>1. Len(memory') = 0
    BY <1>3 DEF Erase
  <2> QED
    BY <2>1 DEF MemoryInOrder
<1>4. CASE Enable
  <2>1. Len(memory) \in Nat /\ epoch \in Nat
    BY <1>1, TypeOfMemory DEF TypeOK
  <2>2. /\ epoch' = epoch + 1 /\ Len(memory') = Len(memory) + 1
        /\ \A l \in 1..Len(memory) : memory'[l] = memory[l]
        /\ memory'[Len(memory) + 1] = [of |-> epoch + 1, size |-> <<MetaLen[epoch + 1], 0, 0>>]
    BY <1>1, <1>4, EnableEffect
  <2> SUFFICES ASSUME NEW l \in 1..(Len(memory) + 1)
               PROVE  /\ memory'[l].of = ((epoch + 1) - (Len(memory) + 1)) + l
                      /\ memory'[l].of >= 1
                      /\ memory'[l].size[1] = MetaLen[memory'[l].of]
    BY <2>2 DEF MemoryInOrder
  <2>3. CASE l \in 1..Len(memory)
    <3>1. memory'[l] = memory[l]
      BY <2>2, <2>3
    <3>2. /\ memory[l].of = (epoch - Len(memory)) + l /\ memory[l].of >= 1
          /\ memory[l].size[1] = MetaLen[memory[l].of]
      BY <1>1, <2>3 DEF MemoryInOrder
    <3>3. (epoch - Len(memory)) + l = ((epoch + 1) - (Len(memory) + 1)) + l
      BY <2>1
    <3> QED
      BY <3>1, <3>2, <3>3
  <2>4. CASE l = Len(memory) + 1
    <3>1. memory'[l].of = epoch + 1 /\ memory'[l].size[1] = MetaLen[epoch + 1]
      BY <2>2, <2>4
    <3> QED
      BY <2>1, <2>4, <3>1
  <2> QED
    BY <2>1, <2>3, <2>4
<1>5. CASE UNCHANGED <<gen4, omits, epoch, memory>>
  BY <1>1, <1>5 DEF MemoryInOrder
<1> QED
  BY <1>2, <1>3, <1>4, <1>5, LoggerKept

\* While deployments stay in memory they keep their labels, and their sizes only grow.
LEMMA DatasetKept ==
    ASSUME IInv, [Next]_vars, NEW n \in Names, n \in Present', memory'[Label(n)].of <= epoch
    PROVE  /\ n \in Present /\ memory[Label(n)].of = memory'[Label(n)].of
           /\ Sizes[n] \in Nat /\ Sizes'[n] \in Nat /\ Sizes[n] <= Sizes'[n]
           /\ ~ grows(n) => Sizes'[n] = Sizes[n]
<1>1. TypeOK /\ TypeOK' /\ MemoryInOrder
  BY TypeStep DEF IInv, Reading
<1>2. Label(n) \in Nat \ {0} /\ Kind(n) \in 1..3 /\ n = 3 * (Label(n) - 1) + Kind(n)
  BY Labels
<1>3. Len(memory) \in Nat /\ epoch \in Nat /\ Sizes[n] \in Nat
  BY <1>1, TypeOfMemory DEF TypeOK
<1>4. Len(memory') \in Nat /\ Label(n) <= Len(memory')
  <2>1. Len(memory') \in Nat
    BY <1>1 DEF TypeOK
  <2>2. n <= 3 * Len(memory')
    BY <2>1 DEF Present
  <2> QED
    BY <1>2, <2>1, <2>2
<1>5. Sizes'[n] = memory'[Label(n)].size[Kind(n)]
  BY DEF Sizes
<1>6. n \in Present => Sizes[n] = memory[Label(n)].size[Kind(n)]
  BY DEF Sizes
<1>7. CASE Logs
  <2>1. n \in Present /\ Label(n) \in 1..Len(memory)
    BY <1>1, <1>2, <1>3, <1>4, <1>7, LogsEffect, TypeOfMemory
  <2>2. /\ memory[Label(n)].size[Kind(n)] <= memory'[Label(n)].size[Kind(n)]
        /\ memory'[Label(n)].of = memory[Label(n)].of
        /\ memory'[Label(n)].size[1] = memory[Label(n)].size[1]
    BY <1>1, <1>2, <1>7, <2>1, LogsEffect
  <2>3. memory'[Label(n)].size[Kind(n)] \in Nat
    <3> DEFINE D == [of : Epochs, size : [1..3 -> Nat]]
    <3>1. memory' \in Seq(D) /\ Label(n) \in 1..Len(memory')
      BY <1>2, <1>4, <1>1, <1>7, LogsEffect
    <3>2. memory'[Label(n)] \in D
      <4> HIDE DEF D
      <4> QED
        BY <3>1
    <3> QED
      BY <1>2, <3>2
  <2> QED
    BY <1>3, <1>5, <1>6, <2>1, <2>2, <2>3 DEF grows
<1>8. CASE Erase
  <2>1. memory' = <<>>
    BY <1>8 DEF Erase
  <2> QED
    BY <1>2, <1>4, <2>1
<1>9. CASE Enable
  <2>1. /\ Len(memory') = Len(memory) + 1
        /\ \A l \in 1..Len(memory) : memory'[l] = memory[l]
        /\ memory'[Len(memory) + 1].of = epoch + 1
    BY <1>1, <1>9, EnableEffect
  <2>2. Label(n) # Len(memory) + 1
    BY <1>3, <2>1
  <2>3. Label(n) \in 1..Len(memory) /\ memory'[Label(n)] = memory[Label(n)] /\ n \in Present
    BY <1>1, <1>2, <1>3, <1>4, <2>1, <2>2, TypeOfMemory
  <2> QED
    BY <1>3, <1>5, <1>6, <2>3
<1>10. CASE UNCHANGED <<gen4, omits, epoch, memory>>
  <2>1. n \in Present /\ Sizes'[n] = Sizes[n] /\ memory'[Label(n)].of = memory[Label(n)].of
    BY <1>5, <1>6, <1>10 DEF Present
  <2> QED
    BY <1>3, <2>1
<1> QED
  BY <1>7, <1>8, <1>9, <1>10, LoggerKept

LEMMA WantStep ==
    ASSUME IInv, [Next]_vars
    PROVE  WantIsThere'
<1> SUFFICES ASSUME Offloading', NEW n \in Names
             PROVE  want'[n] <= Sizes'[n] /\ (~ grows(n) => want'[n] = Sizes'[n])
  BY DEF WantIsThere
<1>1. TypeOK /\ TypeOK' /\ WantIsThere
  BY TypeStep DEF IInv, Reading
<1>2. Sizes[n] \in Nat /\ want[n] \in Nat
  BY <1>1, TypeOfMemory DEF TypeOK
<1>3. CASE Logs
  <2>1. want' = want /\ Offloading
    BY <1>3, OffloadingKept DEF Logs, Log, offloading, Offloading
  <2>2. Len(memory') = Len(memory) /\ Len(memory) \in Nat
    BY <1>1, <1>3, LogsEffect, TypeOfMemory
  <2>3. n \in Present' <=> n \in Present
    BY <2>2 DEF Present
  <2>4. CASE n \in Present
    <3>1. /\ Label(n) \in 1..Len(memory) /\ Kind(n) \in 1..3
      BY <1>1, <2>2, <2>4, Labels, TypeOfMemory
    <3>2. memory'[Label(n)].of <= epoch
      <4>1. /\ memory'[Label(n)].of = memory[Label(n)].of
            /\ memory[Label(n)].of = (epoch - Len(memory)) + Label(n)
        <5>1. MemoryInOrder
          BY DEF IInv, Reading
        <5> QED
          BY <1>1, <1>3, <3>1, <5>1, LogsEffect DEF MemoryInOrder
      <4>2. epoch \in Nat /\ Label(n) \in Nat /\ Label(n) <= Len(memory)
        BY <1>1, <2>2, <3>1 DEF TypeOK
      <4> QED
        BY <2>2, <4>1, <4>2
    <3>3. Sizes[n] <= Sizes'[n] /\ Sizes'[n] \in Nat /\ (~ grows(n) => Sizes'[n] = Sizes[n])
      BY <2>3, <2>4, <3>2, DatasetKept
    <3> QED
      BY <1>1, <1>2, <2>1, <3>3 DEF WantIsThere
  <2>5. CASE n \notin Present
    <3>1. Sizes[n] = 0 /\ Sizes'[n] = 0
      BY <2>3, <2>5 DEF Sizes
    <3> QED
      BY <1>1, <2>1, <3>1 DEF WantIsThere
  <2> QED
    BY <2>4, <2>5
<1>4. CASE ~ Logs
  <2>1. memory' = memory
    BY <1>4, OffloadingKept, LoggerKept
  <2>2. Sizes'[n] = Sizes[n]
    BY <2>1 DEF Sizes, Present
  <2>3. CASE Begins
    <3>1. want' = Sizes
      BY <2>3 DEF Begins, Begin
    <3> QED
      BY <1>2, <2>2, <3>1
  <2>4. CASE ~ Begins
    <3>1. want[n] <= Sizes[n] /\ (~ grows(n) => want[n] = Sizes[n])
      BY <1>1, <2>4, OffloadingKept DEF WantIsThere
    <3>2. want' = want \/ want' = Sizes
      BY <2>4, OffloadingKept DEF Starts, CannotTrust, Trust, StartDownload
    <3> QED
      BY <1>2, <2>2, <3>1, <3>2
  <2> QED
    BY <2>3, <2>4
<1> QED
  BY <1>3, <1>4

\* What may be read of a dataset does not shrink while its deployment is in memory.
LEMMA ReadableKept ==
    ASSUME IInv, [Next]_vars, NEW n \in Names, n \in Present', memory'[Label(n)].of <= epoch
    PROVE  /\ n \in Present /\ memory[Label(n)].of = memory'[Label(n)].of
           /\ Readable(n) \in Nat /\ Readable(n)' \in Nat /\ Readable(n) <= Readable(n)'
<1>1. TypeOK /\ TypeOK' /\ WantIsThere /\ WantIsThere'
  BY TypeStep, WantStep DEF IInv, Reading
<1>2. /\ n \in Present /\ memory[Label(n)].of = memory'[Label(n)].of
      /\ Sizes[n] \in Nat /\ Sizes'[n] \in Nat /\ Sizes[n] <= Sizes'[n]
  BY DatasetKept
<1>3. want[n] \in Nat /\ want'[n] \in Nat
  BY <1>1 DEF TypeOK
<1>4. Readable(n)' = IF Offloading' THEN want'[n] ELSE Sizes'[n]
  BY DEF Readable
<1>5. CASE Offloading' /\ Begins
  <2>1. want'[n] = Sizes[n] /\ ~ Offloading
    BY <1>5 DEF Begins, Begin, Offloading
  <2> QED
    BY <1>2, <1>3, <1>4, <1>5, <2>1 DEF Readable
<1>6. CASE Offloading' /\ ~ Begins
  <2>1. Offloading /\ want[n] <= Sizes[n]
    BY <1>1, <1>6, OffloadingKept DEF WantIsThere
  <2>2. want' = want \/ want' = Sizes
    BY <1>6, OffloadingKept DEF Starts, CannotTrust, Trust, StartDownload
  <2>3. Readable(n) = want[n] /\ Readable(n)' = want'[n]
    BY <1>4, <1>6, <2>1 DEF Readable
  <2> QED
    BY <1>2, <1>3, <2>1, <2>2, <2>3
<1>7. CASE ~ Offloading'
  <2>1. Readable(n)' = Sizes'[n]
    BY <1>4, <1>7
  <2>2. Readable(n) = Sizes[n] \/ (Readable(n) = want[n] /\ want[n] <= Sizes[n])
    BY <1>1 DEF Readable, WantIsThere
  <2> QED
    BY <1>2, <1>3, <2>1, <2>2
<1> QED
  BY <1>5, <1>6, <1>7

LEMMA PartsInit == Init => PartsAreTrue
  BY DEF Init, PartsAreTrue, NoData

LEMMA PartsStep ==
    ASSUME IInv, [Next]_vars
    PROVE  PartsAreTrue'
<1>1. TypeOK /\ TypeOK' /\ PartsAreTrue /\ Reading
  BY TypeStep DEF IInv, Reading
<1>2. epoch \in Nat /\ epoch' \in Nat /\ epoch <= epoch'
  <2>1. epoch \in Nat /\ epoch' \in Nat
    BY <1>1 DEF TypeOK
  <2>2. epoch' = epoch \/ epoch' = epoch + 1
    BY <1>1, LoggerKept, LogsEffect, EnableEffect DEF Erase
  <2> QED
    BY <2>1, <2>2
<1>3. gen4' = gen4 /\ omits' = omits
  BY <1>1, FamilyKept
<1> SUFFICES ASSUME NEW n \in Names, HeadComes(n)', parts'[n] # <<>>
             PROVE  LET e == parts'[n][1].of
                    IN  /\ e <= epoch' /\ IsDatasetOf(parts'[n], e, n)
                        /\ (n \in Present' /\ memory'[Label(n)].of = e) => Len(parts'[n]) <= Readable(n)'
  BY DEF PartsAreTrue
<1>4. HeadComes(n)
  BY <1>3 DEF HeadComes
<1>5. CASE parts'[n] = parts[n]
  <2> DEFINE e == parts[n][1].of
  <2>1. /\ e <= epoch /\ IsDatasetOf(parts[n], e, n)
        /\ (n \in Present /\ memory[Label(n)].of = e) => Len(parts[n]) <= Readable(n)
    BY <1>1, <1>4, <1>5 DEF PartsAreTrue
  <2>2. parts[n] \in Bytes /\ Len(parts[n]) \in Nat \ {0}
    BY <1>1, <1>5, TypeOfData DEF TypeOK
  <2>3. e \in Nat
    <3>1. parts[n][1] \in Cell
      BY <2>2 DEF Bytes
    <3> QED
      BY <3>1, Constants DEF Cell, Epochs
  <2>4. e <= epoch'
    BY <1>2, <2>1, <2>3
  <2>5. ASSUME n \in Present', memory'[Label(n)].of = e PROVE Len(parts[n]) <= Readable(n)'
    <3>1. /\ n \in Present /\ memory[Label(n)].of = e
          /\ Readable(n) \in Nat /\ Readable(n)' \in Nat /\ Readable(n) <= Readable(n)'
      BY <2>1, <2>5, ReadableKept
    <3> QED
      BY <2>1, <2>2, <3>1
  <2> QED
    BY <1>5, <2>1, <2>4, <2>5
<1>6. CASE parts'[n] # parts[n]
  <2>1. Fetches \/ FetchStopped
    <3>1. Removes => parts'[n] = parts[n]
      BY <1>1 DEF Removes, RemovePart, TypeOK, Data
    <3>2. Logs \/ Erase \/ Enable \/ Damages => parts' = parts
      BY DEF Logs, Damages, Log, Erase, Enable, Damage, disk
    <3>3. Begins \/ Find \/ CheckFile \/ Starts \/ Receive \/ Store \/ WriteRecord => parts' = parts
      BY DEF Begins, Begin, Find, CheckFile, Starts, CannotTrust, Trust, StartDownload, Receive,
             Store, WriteRecord, disk
    <3> QED
      BY <1>6, <3>1, <3>2, <3>3, EndsEffect, NextByKind DEF vars
  <2>2. /\ pc = "fetch" /\ at \in Present /\ at \in Names /\ want[at] \in Nat
        /\ parts \in Data
    BY <1>1, <2>1, FetchedIs DEF Fetches, TypeOK
  <2>3. PICK f \in Bytes :
           /\ parts' = [parts EXCEPT ![at] = f]
           /\ want[at] > 0 => /\ Len(f) \in Nat /\ Len(f) <= want[at]
                              /\ HeadComes(at) => IsDatasetOf(f, memory[Label(at)].of, at)
           /\ want[at] = 0 => f = <<>> \/ f = parts[at]
    BY <1>1, <2>1, FetchedIs DEF Fetches
  <2>4. n = at /\ f = parts'[n]
    BY <1>6, <2>2, <2>3 DEF Data
  <2>5. f # <<>> /\ f # parts[at]
    BY <1>6, <2>4
  <2>6. want[n] > 0 /\ Len(f) \in 1..want[n] /\ IsDatasetOf(f, memory[Label(n)].of, n)
    <3>1. want[at] > 0
      BY <2>2, <2>3, <2>5
    <3>2. Len(f) # 0
      BY <2>5 DEF Bytes
    <3> QED
      BY <1>4, <2>2, <2>3, <2>4, <3>1, <3>2
  <2> DEFINE e == memory[Label(n)].of
  <2>7. IsDatasetOf(f, e, n) /\ f[1].of = e
    <3>1. f[1] = [of |-> e, name |-> n, at |-> 1]
      BY <2>6 DEF IsDatasetOf
    <3> QED
      BY <2>6, <3>1
  <2>8. e \in Nat /\ e <= epoch
    <3>1. Len(memory) \in Nat /\ Label(n) \in 1..Len(memory)
      BY <1>1, <2>2, <2>4, Labels, TypeOfMemory
    <3>2. e = (epoch - Len(memory)) + Label(n) /\ e >= 1
      BY <1>1, <3>1 DEF Reading, MemoryInOrder
    <3> QED
      BY <1>2, <3>1, <3>2
  <2>9. ASSUME n \in Present', memory'[Label(n)].of = e PROVE Len(f) <= Readable(n)'
    <3>1. Readable(n) \in Nat /\ Readable(n)' \in Nat /\ Readable(n) <= Readable(n)'
      BY <2>8, <2>9, ReadableKept
    <3>2. Readable(n) = want[n]
      BY <2>2 DEF Readable, Offloading
    <3> QED
      BY <2>6, <3>1, <3>2
  <2> QED
    BY <1>2, <2>4, <2>7, <2>8, <2>9
<1> QED
  BY <1>5, <1>6

LEMMA GotInit == Init => GotIsTrue
<1> SUFFICES ASSUME Init PROVE GotIsTrue
  OBVIOUS
<1>1. got = NoData /\ ~ Offloading
  BY DEF Init, Offloading
<1> QED
  BY <1>1, TypeOfEmpty DEF GotIsTrue, OfOneMemory

\* Nothing is downloaded of a memory that was erased or added to since.
LEMMA DeploymentsKept ==
    ASSUME IInv, [Next]_vars
    PROVE  Deployments' = Deployments \/ got' = NoData
<1>1. TypeOK /\ TagIsFresh
  BY DEF IInv, Storing
<1>2. CASE Logs
  <2>1. Len(memory') = Len(memory) /\ \A l \in 1..Len(memory) : memory'[l].of = memory[l].of
    BY <1>1, <1>2, LogsEffect
  <2> QED
    BY <2>1 DEF Deployments
<1>3. CASE Erase \/ Enable
  BY <1>1, <1>3 DEF Erase, Enable, TagIsFresh, offloading
<1>4. CASE memory' = memory
  BY <1>4 DEF Deployments
<1> QED
  BY <1>2, <1>3, <1>4, LoggerKept

LEMMA GotKept ==
    ASSUME [Next]_vars, ~ Fetches, ~ Ends
    PROVE  got' = got
<1>1. Logs \/ Erase \/ Enable \/ Damages => got' = got
  BY DEF Logs, Damages, Log, Erase, Enable, Damage, offloading
<1>2. Begins \/ Find \/ CheckFile \/ Starts \/ Receive \/ Store \/ WriteRecord \/ Removes => got' = got
  BY DEF Begins, Begin, Find, CheckFile, Starts, CannotTrust, Trust, StartDownload, Receive,
         Store, WriteRecord, Removes, RemovePart, offloading
<1> QED
  BY <1>1, <1>2, NextByKind DEF vars

LEMMA GotStep ==
    ASSUME IInv, [Next]_vars
    PROVE  GotIsTrue'
<1>1. /\ TypeOK /\ TypeOK' /\ Reading /\ GotIsTrue /\ TagIsFresh /\ WantIsThere /\ WantIsThere'
      /\ gen4' = gen4 /\ omits' = omits /\ (MetasCome' <=> MetasCome)
  BY TypeStep, WantStep, FamilyKept DEF IInv, Reading, Storing
<1>2. CASE got' = NoData
  <2>1. \A n \in Names : got'[n] = <<>> /\ Len(got'[n]) = 0
    BY <1>2, TypeOfEmpty
  <2>2. OfOneMemory(got, Deployments)'
    BY <2>1 DEF OfOneMemory
  <2>3. \A n \in Names : Len(got'[n]) <= want'[n]
    BY <1>1, <2>1 DEF TypeOK
  <2> QED
    BY <2>2, <2>3 DEF GotIsTrue
<1>3. CASE Fetches
  <2>1. PICK f \in Bytes :
           /\ want[at] > 0 => /\ Len(f) \in Nat /\ Len(f) <= want[at]
                              /\ HeadComes(at) => IsDatasetOf(f, memory[Label(at)].of, at)
           /\ got' = [got EXCEPT ![at] = IF want[at] > 0 THEN f ELSE <<>>]
           /\ (MetasCome /\ ~ grows(at) /\ want[at] > 0) => Len(f) = want[at]
    BY <1>1, <1>3, FetchedIs DEF Fetches
  <2>2. /\ at \in Present /\ at \in Names /\ want[at] \in Nat /\ got \in Data /\ pc = "fetch"
        /\ want' = want /\ memory' = memory /\ gen4' = gen4 /\ omits' = omits
    BY <1>1, <1>3, FetchedIs DEF Fetches, TypeOK, Fetch, FetchNoBytes, logger
  <2>3. Deployments' = Deployments
    BY <2>2 DEF Deployments
  <2> DEFINE e == Deployments[Label(at)]
  <2>4. /\ Label(at) <= Len(Deployments) /\ Label(at) \in 1..Len(memory) /\ e = memory[Label(at)].of
    BY <1>1, <2>2, Labels, TypeOfMemory
  <2>5. got'[at] # <<>> => got'[at] = f /\ want[at] > 0
    BY <2>1, <2>2 DEF Data
  <2>6. Len(got'[at]) \in Nat /\ Len(got'[at]) <= want[at]
    <3>1. got'[at] \in Bytes /\ (got'[at] = <<>> => Len(got'[at]) = 0)
      BY <1>1, <2>2, TypeOfData DEF TypeOK
    <3>2. Len(got'[at]) \in Nat
      BY <3>1 DEF Bytes
    <3> QED
      BY <2>1, <2>2, <2>5, <3>1, <3>2
  <2>7. (got'[at] # <<>> /\ HeadComes(at)) => IsDatasetOf(got'[at], e, at)
    BY <2>1, <2>4, <2>5
  <2>8. (got'[at] # <<>> /\ MetasCome /\ ~ grows(at)) => Len(got'[at]) = MetaLen[e]
    <3>1. ~ grows(at) => want[at] = Sizes[at]
      BY <1>1, <2>2 DEF WantIsThere, Offloading
    <3>2. ~ grows(at) => Sizes[at] = MetaLen[e]
      BY <1>1, <2>2, <2>4 DEF Sizes, grows, Reading, MemoryInOrder
    <3> QED
      BY <2>1, <2>5, <3>1, <3>2
  <2>9. \A n \in Names : n # at => got'[n] = got[n]
    BY <2>1, <2>2 DEF Data
  <2>10. OfOneMemory(got, Deployments) /\ \A n \in Names : Len(got[n]) <= want[n]
    BY <1>1, <2>2 DEF GotIsTrue, Offloading
  <2>11. OfOneMemory(got, Deployments)'
    <3> SUFFICES ASSUME NEW n \in Names, got'[n] # <<>>
                 PROVE  /\ Label(n) <= Len(Deployments)
                        /\ HeadComes(n) => IsDatasetOf(got'[n], Deployments[Label(n)], n)
                        /\ (MetasCome /\ ~ grows(n)) => Len(got'[n]) = MetaLen[Deployments[Label(n)]]
      BY <1>1, <2>2, <2>3 DEF OfOneMemory, HeadComes
    <3>1. CASE n = at
      BY <2>4, <2>7, <2>8, <3>1
    <3>2. CASE n # at
      BY <2>9, <2>10, <3>2 DEF OfOneMemory
    <3> QED
      BY <3>1, <3>2
  <2>12. \A n \in Names : Len(got'[n]) <= want'[n]
    BY <2>2, <2>6, <2>9, <2>10
  <2> QED
    BY <2>3, <2>11, <2>12 DEF GotIsTrue
<1>4. CASE got' = got /\ got' # NoData
  <2>1. Deployments' = Deployments
    BY <1>4, DeploymentsKept
  <2>2. ASSUME Offloading', NEW n \in Names PROVE Len(got'[n]) <= want'[n]
    <3>1. ~ Begins
      BY <1>1, <1>4 DEF Begins, Begin, TagIsFresh
    <3>2. Offloading /\ Len(got[n]) <= want[n]
      BY <1>1, <2>2, <3>1, OffloadingKept DEF GotIsTrue
    <3>3. CASE want' = want
      BY <1>4, <3>2, <3>3
    <3>4. CASE want' # want
      <4>1. want' = Sizes
        BY <2>2, <3>1, <3>4, OffloadingKept DEF Starts, CannotTrust, Trust, StartDownload
      <4>2. want[n] <= Sizes[n] /\ want[n] \in Nat /\ Sizes[n] \in Nat /\ Len(got[n]) \in Nat
        BY <1>1, <3>2, TypeOfMemory, TypeOfData DEF WantIsThere, TypeOK
      <4> QED
        BY <1>4, <3>2, <4>1, <4>2
    <3> QED
      BY <3>3, <3>4
  <2>3. OfOneMemory(got, Deployments)'
    BY <1>1, <1>4, <2>1 DEF GotIsTrue, OfOneMemory, HeadComes
  <2> QED
    BY <2>2, <2>3 DEF GotIsTrue
<1> QED
  BY <1>2, <1>3, <1>4, GotKept, EndsEffect

LEMMA IdentitiesStep ==
    ASSUME IInv, [Next]_vars
    PROVE  IdentitiesCome'
<1> SUFFICES ASSUME MetasCome, pc' = "fetch", NEW n \in Present', n < at', ~ grows(n)
             PROVE  got'[n] # <<>>
  BY FamilyKept DEF IdentitiesCome, IInv
<1>1. TypeOK /\ Reading /\ WantIsThere /\ MemoryInOrder /\ IdentitiesCome /\ n \in Nat
  BY DEF IInv, Reading, Present
<1>2. CASE Starts
  <2>1. at' = 1
    BY <1>2 DEF Starts, CannotTrust, Trust, StartDownload
  <2> QED
    BY <2>1 DEF Present
<1>3. CASE Fetches
  <2>1. PICK f \in Bytes :
           /\ got' = [got EXCEPT ![at] = IF want[at] > 0 THEN f ELSE <<>>]
           /\ (MetasCome /\ ~ grows(at) /\ want[at] > 0) => Len(f) = want[at]
    BY <1>1, <1>3, FetchedIs DEF Fetches
  <2>2. /\ at \in Present /\ at \in Names /\ want[at] \in Nat /\ got \in Data /\ pc = "fetch"
        /\ memory' = memory /\ at' = at + 1
    BY <1>1, <1>3, FetchedIs DEF Fetches, TypeOK, Fetch, FetchNoBytes, logger
  <2>3. CASE n = at
    <3>1. Label(at) \in 1..Len(memory) /\ memory[Label(at)].of \in Epochs
      BY <1>1, <2>2, Labels, TypeOfMemory
    <3>2. want[at] = MetaLen[memory[Label(at)].of]
      BY <1>1, <2>2, <2>3, <3>1 DEF WantIsThere, Offloading, MemoryInOrder, Sizes, grows
    <3>3. want[at] > 0
      BY <3>1, <3>2, DatasetAssumption DEF DatasetAssumption, Epochs
    <3>4. got'[at] = f /\ Len(f) > 0
      BY <2>1, <2>2, <2>3, <3>3 DEF Data
    <3> QED
      BY <2>3, <3>4
  <2>4. CASE n # at
    <3>1. n < at /\ n \in Present /\ n \in Names
      BY <1>1, <2>2, <2>4, Constants, TypeOfMemory DEF Present
    <3>2. got'[n] = got[n]
      BY <2>1, <2>2, <2>4, <3>1 DEF Data
    <3> QED
      BY <1>1, <2>2, <3>1, <3>2 DEF IdentitiesCome
  <2> QED
    BY <2>3, <2>4
<1>4. CASE Logs \/ Damages \/ UNCHANGED vars
  <2>1. UNCHANGED <<pc, at, got>>
    BY <1>4 DEF Logs, Log, Damages, Damage, vars, offloading
  <2>2. Len(memory') = Len(memory)
    BY <1>1, <1>4, LogsEffect DEF Damages, Damage, vars, logger
  <2> QED
    BY <1>1, <2>1, <2>2 DEF IdentitiesCome, Present
<1>5. Erase \/ Enable \/ Begins \/ Find \/ CheckFile \/ Receive \/ Store \/ WriteRecord \/ Removes => pc' # "fetch"
  BY DEF Erase, Enable, Begins, Begin, Find, CheckFile, Receive, Store, WriteRecord, Removes,
         RemovePart, offloading
<1> QED
  BY <1>2, <1>3, <1>4, <1>5, EndsEffect, NextByKind

-----------------------------------------------------------------------------
(* What is held, and where what is read goes.                              *)

\* A record is written only of something that was read.
LEMMA RecordsKept ==
    ASSUME [Next]_vars, ~ WriteRecord \/ got = NoData
    PROVE  records' = records /\ Recorded' = Recorded
<1>1. Logs \/ Erase \/ Enable \/ Damages => records' = records
  BY DEF Logs, Damages, Log, Erase, Enable, Damage, disk
<1>2. Begins \/ Find \/ CheckFile \/ Starts \/ Fetches \/ Receive \/ Store \/ Removes => records' = records
  BY DEF Begins, Begin, Find, CheckFile, Starts, CannotTrust, Trust, StartDownload, Fetches, Fetch,
         FetchNoBytes, Receive, Store, Removes, RemovePart, disk
<1>3. (WriteRecord /\ got = NoData) => records' = records
  BY DEF WriteRecord
<1>4. records' = records
  BY <1>1, <1>2, <1>3, EndsEffect, NextByKind DEF vars
<1> QED
  BY <1>4 DEF Recorded

LEMMA RecordAdded ==
    ASSUME IInv, WriteRecord, got # NoData
    PROVE  /\ tag \in Tags \ Recorded /\ Stem \in Tags /\ NextIndex \in Nat
           /\ Recorded' = Recorded \cup {tag}
           /\ \A t \in Recorded : records'[t] = records[t]
           /\ records'[tag] = [stem |-> Stem, index |-> NextIndex, data |-> got, of |-> Deployments,
                               sizes |-> want, short |-> \E n \in Names : Len(got[n]) < want[n]]
           /\ pc = "store" /\ at = End /\ pc' = "unlink"
           /\ UNCHANGED <<memory, files, lost, started, tag, want, held, got>>
<1>1. TypeOK /\ TagIsFresh /\ pc = "store" /\ pc' = "unlink" /\ at = End
  BY DEF IInv, Storing, WriteRecord
<1>2. tag \in Tags \ Recorded
  BY <1>1 DEF TagIsFresh, Offloading, TypeOK
<1>3. Stem \in Tags /\ NextIndex \in Nat
  BY <1>1, StemIsTag
<1> DEFINE r == [stem |-> Stem, index |-> NextIndex, data |-> got, of |-> Deployments,
                 sizes |-> want, short |-> \E n \in Names : Len(got[n]) < want[n]]
<1>4. records' = [records EXCEPT ![tag] = r]
  BY DEF WriteRecord, Deployments
<1>5. r.stem # NoTag
  BY <1>3, Constants
<1> HIDE DEF r
<1>6. records'[tag] = r /\ \A t \in Tags : t # tag => records'[t] = records[t]
  BY <1>1, <1>2, <1>4 DEF TypeOK
<1>7. \A t \in Recorded : records'[t] = records[t]
  BY <1>2, <1>6 DEF Recorded
<1>8. Recorded' = Recorded \cup {tag}
  BY <1>2, <1>5, <1>6 DEF Recorded
<1> QED
  BY <1>1, <1>2, <1>3, <1>6, <1>7, <1>8 DEF WriteRecord, logger, r

LEMMA HeldKept ==
    ASSUME [Next]_vars, held' # NoDeployment, ~ Find
    PROVE  held' = held
<1>1. Logs \/ Erase \/ Enable \/ Damages => held' = held
  BY DEF Logs, Damages, Log, Erase, Enable, Damage, offloading
<1>2. Begins \/ CheckFile \/ Fetches \/ Store \/ WriteRecord \/ Removes => held' = held
  BY DEF Begins, Begin, CheckFile, Fetches, Fetch, FetchNoBytes, Store, WriteRecord,
         Removes, RemovePart, offloading
<1>3. Starts \/ Receive => held' = held
  BY DEF Starts, CannotTrust, Trust, StartDownload, Receive
<1> QED
  BY <1>1, <1>2, <1>3, EndsEffect, NextByKind DEF vars

\* What _find_deployment picks is the last record of its deployment.
LEMMA FindEffect ==
    ASSUME IInv, Find, held' # NoDeployment
    PROVE  \E l \in Recorded : /\ held' = records[l]
                               /\ \A u \in OfStem(held'.stem) : records[u].index <= held'.index
<1>1. TypeOK /\ IndexIsBounded
  BY DEF IInv, Records
<1>2. Recorded # {} /\ held' = records[Latest(NewestStem)]
  BY DEF Find
<1>3. PICK t \in Recorded : NewestStem = records[t].stem
  BY <1>2, NewestIs
<1>4. t \in OfStem(NewestStem)
  BY <1>3 DEF OfStem
<1>5. /\ Latest(NewestStem) \in OfStem(NewestStem)
      /\ \A u \in OfStem(NewestStem) : records[u].index <= records[Latest(NewestStem)].index
  BY <1>1, <1>4, LatestIs
<1>6. Latest(NewestStem) \in Recorded /\ records[Latest(NewestStem)].stem = NewestStem
  BY <1>5 DEF OfStem
<1> QED
  BY <1>2, <1>5, <1>6

LEMMA TagInit == Init => TagIsFresh
<1> SUFFICES ASSUME Init PROVE TagIsFresh
  OBVIOUS
<1>1. Recorded = {}
  BY TypeOfEmpty DEF Init, Recorded
<1> QED
  BY <1>1 DEF Init, TagIsFresh, Offloading

LEMMA TagStep ==
    ASSUME IInv, [Next]_vars
    PROVE  TagIsFresh'
<1>1. TypeOK /\ TagIsFresh
  BY DEF IInv, Storing
<1>2. Offloading' <=> pc' \in {"find", "check", "fetch", "store"}
  BY DEF Offloading
<1>3. CASE Begins
  <2>1. PICK t \in Tags : Begin(t)
    BY <1>3 DEF Begins
  <2>2. records' = records /\ Recorded' = Recorded /\ held' = held /\ held = NoDeployment
    BY <1>1, <2>1 DEF Begin, TagIsFresh, disk, Recorded
  <2>3. pc' # "idle" /\ (Offloading' => started' = started \cup {t}) /\ tag' = t /\ t \notin started
    BY <1>2, <2>1 DEF Begin
  <2>4. started \subseteq started'
    BY <2>1 DEF Begin
  <2> QED
    BY <1>1, <2>2, <2>3, <2>4 DEF TagIsFresh
<1>4. CASE WriteRecord /\ got # NoData
  <2>1. /\ Recorded' = Recorded \cup {tag} /\ \A t \in Recorded : records'[t] = records[t]
        /\ records'[tag].stem = Stem /\ pc = "store" /\ pc' = "unlink"
        /\ UNCHANGED <<started, held>>
    BY <1>4, RecordAdded
  <2>2. tag \in started /\ Stem \in started
    BY <1>1, <2>1, StemIsTag DEF TagIsFresh, Offloading
  <2> QED
    BY <1>1, <1>2, <2>1, <2>2 DEF TagIsFresh
<1>5. CASE Ends
  <2>1. ~ WriteRecord
    BY <1>5, EndsEffect DEF WriteRecord
  <2> QED
    BY <1>1, <1>2, <1>5, <2>1, EndsEffect, RecordsKept DEF TagIsFresh
<1>6. CASE ~ Begins /\ ~ (WriteRecord /\ got # NoData) /\ ~ Ends
  <2>1. records' = records /\ Recorded' = Recorded
    BY <1>6, RecordsKept
  <2>2. started' = started /\ tag' = tag
    <3>1. Logs \/ Erase \/ Enable \/ Damages => started' = started /\ tag' = tag
      BY DEF Logs, Damages, Log, Erase, Enable, Damage, offloading
    <3>2. Find \/ CheckFile \/ Starts \/ Fetches \/ Receive \/ Store \/ WriteRecord \/ Removes
            => started' = started /\ tag' = tag
      BY DEF Find, CheckFile, Starts, CannotTrust, Trust, StartDownload, Fetches, Fetch,
             FetchNoBytes, Receive, Store, WriteRecord, Removes, RemovePart, offloading
    <3> QED
      BY <1>6, <3>1, <3>2, NextByKind DEF vars
  <2>3. Offloading' => Offloading
    BY <1>6, OffloadingKept
  <2>4. held' # NoDeployment =>
           /\ held'.stem \in started
           /\ Offloading' => held'.stem # tag
    <3> SUFFICES ASSUME held' # NoDeployment
                 PROVE  held'.stem \in started /\ (Offloading' => held'.stem # tag)
      OBVIOUS
    <3>1. CASE Find
      <4>1. PICK l \in Recorded : held' = records[l]
        BY <3>1, FindEffect
      <4> QED
        BY <1>1, <2>3, <4>1 DEF TagIsFresh
    <3>2. CASE ~ Find
      BY <1>1, <2>3, <3>2, HeldKept DEF TagIsFresh
    <3> QED
      BY <3>1, <3>2
  <2>5. pc' = "idle" => held' = NoDeployment /\ got' = NoData
    <3>1. Logs \/ Erase \/ Enable \/ Damages => UNCHANGED <<pc, held, got>>
      BY DEF Logs, Damages, Log, Erase, Enable, Damage, offloading
    <3>2. Find \/ CheckFile \/ Starts \/ Fetches \/ Receive \/ Store \/ WriteRecord \/ Removes => pc' # "idle"
      BY DEF Find, CheckFile, Starts, CannotTrust, Trust, StartDownload, Fetches, Fetch,
             FetchNoBytes, Receive, Store, WriteRecord, Removes, RemovePart, offloading
    <3> QED
      BY <1>1, <1>6, <3>1, <3>2, NextByKind DEF vars, TagIsFresh
  <2> QED
    BY <1>1, <2>1, <2>2, <2>3, <2>4, <2>5 DEF TagIsFresh
<1> QED
  BY <1>3, <1>4, <1>5, <1>6

LEMMA HeldToCheck ==
    ASSUME IInv, [Next]_vars
    PROVE  (pc' = "check" /\ at' # End) => held' # NoDeployment
<1> SUFFICES ASSUME pc' = "check", at' # End PROVE held' # NoDeployment
  OBVIOUS
<1>1. CASE Find
  <2>1. at' = NextOf(held'.data, 1)
    BY <1>1 DEF Find
  <2>2. at' \in Names /\ held'.data[at'] # <<>>
    BY <2>1, NextIs, Constants
  <2> QED
    BY <2>2, TypeOfEmpty
<1>2. CASE CheckFile
  BY <1>2 DEF CheckFile, IInv, Storing, HeldIsLast
<1>3. CASE UNCHANGED <<pc, at, held>>
  BY <1>3 DEF IInv, Storing, HeldIsLast
<1>4. Logs \/ Erase \/ Enable \/ Damages => UNCHANGED <<pc, at, held>>
  BY DEF Logs, Damages, Log, Erase, Enable, Damage, offloading
<1>5. Begins \/ Starts \/ Fetches \/ Receive \/ Store \/ WriteRecord \/ Removes => pc' # "check"
  BY DEF Begins, Begin, Starts, CannotTrust, Trust, StartDownload, Fetches, Fetch, FetchNoBytes,
         Receive, Store, WriteRecord, Removes, RemovePart, offloading
<1> QED
  BY <1>1, <1>2, <1>3, <1>4, <1>5, EndsEffect, NextByKind DEF vars

LEMMA HeldStep ==
    ASSUME IInv, [Next]_vars
    PROVE  HeldIsLast'
<1> SUFFICES ASSUME pc' \in {"check", "fetch", "store"}, held' # NoDeployment
             PROVE  \E l \in Recorded' :
                       /\ held' = records'[l]
                       /\ \A u \in OfStem(held.stem)' : records'[u].index <= held'.index
  BY HeldToCheck DEF HeldIsLast
<1>1. TypeOK /\ HeldIsLast /\ TagIsFresh
  BY DEF IInv, Storing
<1>2. ~ WriteRecord /\ ~ Begins
  BY DEF WriteRecord, Begins, Begin
<1>3. records' = records /\ Recorded' = Recorded
  BY <1>2, RecordsKept
<1>4. OfStem(held.stem)' = {t \in Recorded : records[t].stem = held'.stem}
  BY <1>3 DEF OfStem
<1>5. CASE Find
  <2>1. PICK l \in Recorded : /\ held' = records[l]
                              /\ \A u \in OfStem(held'.stem) : records[u].index <= held'.index
    BY <1>5, FindEffect
  <2> QED
    BY <1>3, <1>4, <2>1 DEF OfStem
<1>6. CASE ~ Find
  <2>1. held' = held
    BY <1>6, HeldKept
  <2>2. pc \in {"check", "fetch", "store"}
    <3>1. Offloading
      BY <1>2, OffloadingKept DEF Offloading
    <3>2. pc # "find"
      <4>1. Logs \/ Damages => pc' = pc
        BY DEF Logs, Damages, Log, Damage, offloading
      <4>2. CheckFile \/ Starts \/ Fetches \/ Receive \/ Store => pc # "find"
        BY DEF CheckFile, Starts, CannotTrust, Trust, Fetches, Fetch, FetchNoBytes, Receive, Store
      <4>3. ~ Erase /\ ~ Enable /\ ~ Removes /\ ~ Ends
        BY OffloadingKept DEF Offloading
      <4> QED
        BY <1>2, <1>6, <4>1, <4>2, <4>3, NextByKind DEF vars
    <3> QED
      BY <3>1, <3>2 DEF Offloading
  <2>3. PICK l \in Recorded : /\ held = records[l]
                              /\ \A u \in OfStem(held.stem) : records[u].index <= held.index
    BY <1>1, <2>1, <2>2 DEF HeldIsLast
  <2> QED
    BY <1>3, <1>4, <2>1, <2>3 DEF OfStem
<1> QED
  BY <1>5, <1>6

LEMMA FilesKept ==
    ASSUME [Next]_vars
    PROVE  /\ lost \subseteq lost' /\ (~ Damages => lost' = lost)
           /\ (~ Damages /\ ~ CheckFile /\ ~ Store /\ ~ StoreStopped) => files' = files
<1>1. Logs \/ Erase \/ Enable => lost' = lost /\ files' = files
  BY DEF Logs, Log, Erase, Enable, disk
<1>2. Begins \/ Find \/ Starts \/ Fetches \/ Receive \/ WriteRecord \/ Removes => lost' = lost /\ files' = files
  BY DEF Begins, Begin, Find, Starts, CannotTrust, Trust, StartDownload, Fetches, Fetch,
         FetchNoBytes, Receive, WriteRecord, Removes, RemovePart, disk
<1>3. CheckFile \/ Store => lost' = lost
  BY DEF CheckFile, Store
<1>4. Damages => lost \subseteq lost'
  BY DEF Damages, Damage
<1> QED
  BY <1>1, <1>2, <1>3, <1>4, EndsEffect, NextByKind DEF vars

\* A file of a stem that counts as undamaged is not damaged by this step.
LEMMA DamagedElsewhere ==
    ASSUME TypeOK, Damages, NEW s \in Tags, s \notin lost', NEW n \in Names
    PROVE  files'[s][n] = files[s][n]
<1>1. PICK r \in Tags, m \in Names : Damage(r, m)
  BY DEF Damages
<1>2. r # s
  BY <1>1 DEF Damage
<1>3. PICK k \in 0..(Len(files[r][m]) - 1) : files' = [files EXCEPT ![r][m] = SubSeq(@, 1, k)]
  BY <1>1 DEF Damage
<1> QED
  BY <1>2, <1>3 DEF TypeOK

LEMMA MemoryIsConsecutive ==
    ASSUME TypeOK, MemoryInOrder
    PROVE  Consecutive(Deployments)
<1>1. Len(Deployments) = Len(memory) /\ Len(memory) \in Nat /\ epoch \in Nat
  BY TypeOfMemory DEF TypeOK
<1> SUFFICES ASSUME NEW k \in 1..Len(memory)
             PROVE  Deployments[k] = Deployments[1] + (k - 1)
  BY <1>1 DEF Consecutive
<1>2. 1 \in 1..Len(memory)
  BY <1>1
<1>3. Deployments[k] = (epoch - Len(memory)) + k /\ Deployments[1] = (epoch - Len(memory)) + 1
  BY <1>2 DEF Deployments, MemoryInOrder
<1> QED
  BY <1>1, <1>3

\* What is received for a deployment held extends every dataset of it.
LEMMA ReceivedExtends ==
    ASSUME IInv, MetasCome, Receive, held' # NoDeployment, NEW n \in Names
    PROVE  IsPrefix(held'.data[n], got[n])
<1>1. /\ TypeOK /\ HeldIsLast /\ RecordsOfOneMemory /\ MemoryInOrder /\ GotIsTrue /\ IdentitiesCome
      /\ held' = held /\ held # NoDeployment /\ pc = "fetch" /\ Growth(held.data, got)
  BY DEF IInv, Storing, Records, Reading, Receive
<1>2. PICK l \in Recorded : held = records[l]
  BY <1>1 DEF HeldIsLast
<1>3. held.data \in Data /\ held.of \in Seq(Epochs) /\ got \in Data /\ Deployments \in Seq(Epochs)
  BY <1>1, <1>2, TypeOfRecord, TypeOfMemory DEF TypeOK
<1>4. Consecutive(held.of) /\ OfOneMemory(held.data, held.of) /\ OfOneMemory(got, Deployments)
  BY <1>1, <1>2 DEF RecordsOfOneMemory, GotIsTrue
<1>5. Consecutive(Deployments)
  BY <1>1, MemoryIsConsecutive
<1>6. ASSUME NEW m \in Present, ~ grows(m) PROVE got[m] # <<>>
  <2>1. Len(memory) \in Nat /\ at \in 1..End /\ at \notin Present /\ m \in 1..(3 * Len(memory))
    BY <1>1, TypeOfMemory DEF Receive, Present, TypeOK
  <2>2. m < at
    BY <2>1, Constants DEF Present
  <2> QED
    BY <1>1, <1>6, <2>2 DEF IdentitiesCome
<1> QED
  BY <1>1, <1>3, <1>4, <1>5, <1>6, GrowthExtends

LEMMA StoredInit == Init => StoredSoFar
  BY DEF Init, StoredSoFar

LEMMA StoredStep ==
    ASSUME IInv, MetasCome, [Next]_vars
    PROVE  StoredSoFar'
<1>1. TypeOK /\ TypeOK' /\ TagIsFresh /\ Storing /\ StoredSoFar /\ RecordsDescribePrefixes
  BY TypeStep DEF IInv, Storing, Extending
<1>2. ASSUME pc' = "store" PROVE Receive \/ Store \/ Damages \/ UNCHANGED vars
  <2>1. Logs \/ Erase \/ Enable => pc' # "store"
    BY DEF Logs, Log, Erase, Enable, offloading
  <2>2. Begins \/ Find \/ CheckFile \/ Starts \/ Fetches \/ WriteRecord \/ Removes => pc' # "store"
    BY DEF Begins, Begin, Find, CheckFile, Starts, CannotTrust, Trust, StartDownload, Fetches, Fetch,
           FetchNoBytes, WriteRecord, Removes, RemovePart, offloading
  <2> QED
    BY <1>2, <2>1, <2>2, EndsEffect, NextByKind
<1>3. ASSUME pc' = "store", held' # NoDeployment, NEW n \in Names PROVE IsPrefix(held'.data[n], got'[n])
  <2>1. CASE Receive
    BY <1>3, <2>1, ReceivedExtends DEF Receive
  <2>2. CASE Store \/ Damages \/ UNCHANGED vars
    <3>1. pc = "store" /\ held' = held /\ got' = got
      BY <1>3, <2>2 DEF Store, Damages, Damage, vars, offloading
    <3> QED
      BY <1>1, <1>3, <3>1 DEF StoredSoFar
  <2> QED
    BY <1>2, <1>3, <2>1, <2>2
<1>4. ASSUME pc' = "store", Stem' \notin lost', NEW n \in Names, n < at'
      PROVE  IsPrefix(got'[n], files'[Stem'][n])
  <2>1. got' \in Data /\ got'[n] \in Bytes
    BY <1>1, TypeOfData DEF TypeOK
  <2>2. files' \in [Tags -> Data]
    BY <1>1 DEF TypeOK
  <2>3. CASE got'[n] = <<>>
    <3>1. Stem' \in Tags
      <4>1. TagIsFresh'
        BY TagStep
      <4>2. CASE held' = NoDeployment
        BY <1>1, <1>4, <4>1, <4>2 DEF Stem, TagIsFresh, Offloading, TypeOK
      <4>3. CASE held' # NoDeployment
        BY <1>1, <4>3 DEF Stem, TypeOK, Record
      <4> QED
        BY <4>2, <4>3
    <3>2. files'[Stem'][n] \in Bytes
      BY <2>2, <3>1 DEF Data
    <3> QED
      BY <2>3, <3>2, PrefixReflexive DEF Bytes
  <2>4. CASE Receive /\ got'[n] # <<>>
    <3>1. at' = NextOf(got, 1) /\ got' = got
      BY <2>4 DEF Receive
    <3>2. n >= 1
      BY DEF Names
    <3> QED
      BY <1>4, <2>4, <3>1, <3>2, NextIs, Constants
  <2>5. CASE Store /\ got'[n] # <<>>
    <3>1. /\ pc = "store" /\ at # End /\ files' = Stored(at, Len(got[at])) /\ at' = NextOf(got, at + 1)
          /\ UNCHANGED <<lost, tag, held, got>>
      BY <2>5 DEF Store
    <3>2. at \in Names /\ at + 1 \in 1..End
      BY <1>1, <3>1, Constants DEF TypeOK
    <3>3. Stem' = Stem /\ Stem \in Tags /\ Stem \notin lost
      BY <1>1, <1>4, <3>1, StemIsTag DEF Stem
    <3>4. files' = [files EXCEPT ![Stem][at] = got[at]]
      BY <1>1, <3>1, <3>2, <3>3, StoredWhole
    <3>5. CASE n = at
      <4>1. files'[Stem][n] = got[n]
        BY <1>1, <3>2, <3>3, <3>4, <3>5 DEF TypeOK, Data
      <4> QED
        BY <2>1, <3>1, <3>3, <4>1, PrefixReflexive DEF Bytes
    <3>6. CASE n < at
      <4>1. IsPrefix(got[n], files[Stem][n])
        BY <1>1, <3>1, <3>3, <3>6 DEF StoredSoFar
      <4>2. n # at
        BY <3>2, <3>6, Constants
      <4>3. files'[Stem][n] = files[Stem][n]
        BY <1>1, <3>2, <3>3, <3>4, <4>2 DEF TypeOK, Data
      <4> QED
        BY <3>1, <3>3, <4>1, <4>3
    <3>7. CASE n > at
      <4>1. n >= at + 1
        BY <3>2, <3>7, Constants
      <4> QED
        BY <1>4, <2>5, <3>1, <3>2, <4>1, NextIs
    <3> QED
      BY <3>2, <3>5, <3>6, <3>7, Constants
  <2>6. CASE (Damages \/ UNCHANGED vars) /\ got'[n] # <<>>
    <3>1. UNCHANGED <<pc, at, tag, held, got>>
      BY <2>6 DEF Damages, Damage, vars, offloading
    <3>2. Stem' = Stem /\ Stem \in Tags /\ Stem \notin lost /\ pc = "store"
      BY <1>1, <1>4, <3>1, StemIsTag, FilesKept DEF Stem
    <3>3. files'[Stem][n] = files[Stem][n]
      BY <1>1, <1>4, <2>6, <3>2, DamagedElsewhere DEF vars
    <3> QED
      BY <1>1, <1>4, <3>1, <3>2, <3>3 DEF StoredSoFar
  <2> QED
    BY <1>2, <1>4, <2>3, <2>4, <2>5, <2>6
<1> QED
  BY <1>3, <1>4 DEF StoredSoFar

-----------------------------------------------------------------------------
(* The records and the files they describe.                                *)

\* What is held extends what every record of its deployment describes.
LEMMA HeldExtends ==
    ASSUME IInv, MetasCome, pc \in {"check", "fetch", "store"}, held # NoDeployment,
           NEW t \in Recorded, records[t].stem = held.stem, NEW n \in Names
    PROVE  IsPrefix(records[t].data[n], held.data[n]) /\ records[t].index <= held.index
<1>1. PICK l \in Recorded : held = records[l] /\ \A u \in OfStem(held.stem) : records[u].index <= held.index
  BY DEF IInv, Storing, HeldIsLast
<1>2. t \in OfStem(held.stem)
  BY DEF OfStem
<1> QED
  BY <1>1, <1>2 DEF IInv, Extending, RecordsInOrder

LEMMA DescribesInit == Init => RecordsDescribePrefixes /\ RecordsInOrder /\ IndexIsBounded
                                 /\ RecordsOfOneMemory /\ RecordsAreTrue
<1> SUFFICES ASSUME Init
             PROVE  /\ RecordsDescribePrefixes /\ RecordsInOrder /\ IndexIsBounded
                    /\ RecordsOfOneMemory /\ RecordsAreTrue
  OBVIOUS
<1>1. Recorded = {}
  BY TypeOfEmpty DEF Init, Recorded
<1> QED
  BY <1>1 DEF RecordsDescribePrefixes, RecordsInOrder, IndexIsBounded, RecordsOfOneMemory, RecordsAreTrue

\* A step on the files keeps what a record describes.
LEMMA DescribedKept ==
    ASSUME IInv, MetasCome, [Next]_vars, NEW t \in Recorded, records[t].stem \notin lost', NEW n \in Names
    PROVE  IsPrefix(records[t].data[n], files'[records[t].stem][n])
<1>1. TypeOK /\ TypeOK' /\ TagIsFresh /\ Storing /\ StoredSoFar /\ RecordsDescribePrefixes
  BY TypeStep DEF IInv, Storing, Extending
<1> DEFINE s == records[t].stem
<1> DEFINE d == records[t].data[n]
<1>2. s \in Tags /\ records[t].data \in Data /\ d \in Bytes /\ s \notin lost
  BY <1>1, TypeOfRecord, TypeOfData, FilesKept
<1>3. IsPrefix(d, files[s][n]) /\ files[s][n] \in Bytes /\ files \in [Tags -> Data]
  BY <1>1, <1>2, TypeOfData DEF RecordsDescribePrefixes, TypeOK
<1>4. CASE files'[s][n] = files[s][n]
  BY <1>3, <1>4
<1>5. CASE Damages
  BY <1>1, <1>2, <1>4, <1>5, DamagedElsewhere
<1>6. CASE CheckFile
  <2>1. /\ pc = "check" /\ at \in Names /\ held # NoDeployment /\ held.stem \in Tags
        /\ files' = [files EXCEPT ![held.stem][at] = held.data[at]]
    <3>1. at \in 1..End /\ at # End /\ held # NoDeployment
      BY <1>1, <1>6 DEF CheckFile, Storing, HeldIsLast, TypeOK
    <3> QED
      BY <1>1, <1>6, <3>1, TypeOfHeld, Constants DEF CheckFile
  <2>2. CASE s = held.stem /\ n = at
    <3>1. files'[s][n] = held.data[n]
      BY <1>3, <2>1, <2>2 DEF Data
    <3> QED
      BY <2>1, <2>2, <3>1, HeldExtends
  <2>3. CASE ~ (s = held.stem /\ n = at)
    <3>1. files'[s][n] = files[s][n]
      BY <1>2, <1>3, <2>1, <2>3 DEF Data
    <3> QED
      BY <1>3, <3>1
  <2> QED
    BY <2>2, <2>3
<1>7. CASE Store \/ StoreStopped
  <2>1. pc = "store" /\ at \in Names /\ at # End
    BY <1>1, <1>7, Constants DEF Store, StoreStopped, TypeOK
  <2>2. got[at] \in Bytes /\ Len(got[at]) \in Nat
    BY <1>1, <2>1, TypeOfData DEF TypeOK
  <2>3. PICK m \in 0..Len(got[at]) :
           files' = Stored(at, m) /\ (m = Len(got[at]) \/ ~ Whole(at))
    <3>1. Offset(at) \in Nat
      BY <1>1, <2>1, TypeOfHeld, TypeOfData DEF Offset
    <3>2. CASE Store
      BY <2>2, <3>2 DEF Store
    <3>3. CASE StoreStopped
      <4>1. PICK m \in (Offset(at) + 1)..Len(got[at]) : files' = Stored(at, m)
        BY <3>3 DEF StoreStopped
      <4>2. m \in 0..Len(got[at])
        BY <2>2, <3>1, <4>1
      <4> QED
        BY <3>3, <4>1, <4>2 DEF StoreStopped
    <3> QED
      BY <1>7, <3>2, <3>3
  <2>4. PICK f \in Bytes :
           /\ Stored(at, m) = [files EXCEPT ![Stem][at] = f]
           /\ f = IF Whole(at) THEN got[at] ELSE files[Stem][at] \o SubSeq(got[at], Offset(at) + 1, m)
    BY <1>1, <2>1, StoredIs
  <2>5. Stem \in Tags
    BY <1>1, <2>1, StemIsTag
  <2>6. CASE s = Stem /\ n = at
    <3>1. files'[s][n] = f
      BY <1>3, <2>1, <2>3, <2>4, <2>5, <2>6 DEF Data
    <3>2. held # NoDeployment /\ held.stem = s
      BY <1>1, <2>1, <2>6 DEF Stem, TagIsFresh, Offloading
    <3>3. CASE Whole(at)
      <4>1. IsPrefix(d, held.data[n]) /\ IsPrefix(held.data[n], got[n]) /\ held.data[n] \in Bytes
        BY <1>1, <2>1, <3>2, HeldExtends, TypeOfHeld, TypeOfData DEF StoredSoFar
      <4>2. IsPrefix(d, got[n])
        BY <1>2, <2>2, <2>6, <4>1, PrefixTransitive DEF Bytes
      <4> QED
        BY <2>4, <2>6, <3>1, <3>3, <4>2
    <3>4. CASE ~ Whole(at)
      <4>1. Offset(at) \in Nat
        BY <1>1, <2>1, TypeOfHeld, TypeOfData DEF Offset
      <4>2. SubSeq(got[at], Offset(at) + 1, m) \in Bytes
        BY <2>2, <4>1, PartOfFile
      <4>3. IsPrefix(files[s][n], f)
        BY <1>3, <2>4, <2>6, <3>4, <4>2, PrefixAppend DEF Bytes
      <4> QED
        BY <1>2, <1>3, <3>1, <4>3, PrefixTransitive DEF Bytes
    <3> QED
      BY <3>3, <3>4
  <2>7. CASE ~ (s = Stem /\ n = at)
    <3>1. files'[s][n] = files[s][n]
      BY <1>2, <1>3, <2>1, <2>3, <2>4, <2>5, <2>7 DEF Data
    <3> QED
      BY <1>3, <3>1
  <2> QED
    BY <2>6, <2>7
<1> QED
  BY <1>4, <1>5, <1>6, <1>7, FilesKept

LEMMA DescribesStep ==
    ASSUME IInv, MetasCome, [Next]_vars
    PROVE  RecordsDescribePrefixes'
<1> SUFFICES ASSUME NEW t \in Recorded', records'[t].stem \notin lost', NEW n \in Names
             PROVE  IsPrefix(records'[t].data[n], files'[records'[t].stem][n])
  BY DEF RecordsDescribePrefixes
<1>1. CASE ~ WriteRecord \/ got = NoData
  BY <1>1, RecordsKept, DescribedKept
<1>2. CASE WriteRecord /\ got # NoData
  <2>1. /\ Recorded' = Recorded \cup {tag} /\ \A u \in Recorded : records'[u] = records[u]
        /\ records'[tag].stem = Stem /\ records'[tag].data = got
        /\ pc = "store" /\ at = End /\ files' = files /\ lost' = lost
    BY <1>2, RecordAdded
  <2>2. CASE t \in Recorded
    BY <2>1, <2>2, DescribedKept
  <2>3. CASE t = tag
    <3>1. n < End
      BY Constants
    <3> QED
      BY <2>1, <2>3, <3>1 DEF IInv, Extending, StoredSoFar
  <2> QED
    BY <2>1, <2>2, <2>3
<1> QED
  BY <1>1, <1>2

LEMMA OrderStep ==
    ASSUME IInv, MetasCome, [Next]_vars
    PROVE  RecordsInOrder'
<1>1. TypeOK /\ TagIsFresh /\ RecordsInOrder
  BY DEF IInv, Storing, Extending
<1>2. CASE ~ WriteRecord \/ got = NoData
  BY <1>1, <1>2, RecordsKept DEF RecordsInOrder
<1>3. CASE WriteRecord /\ got # NoData
  <2>1. /\ Recorded' = Recorded \cup {tag} /\ \A u \in Recorded : records'[u] = records[u]
        /\ records'[tag].stem = Stem /\ records'[tag].data = got /\ records'[tag].index = NextIndex
        /\ pc = "store" /\ tag \in Tags \ Recorded /\ NextIndex \in Nat
    BY <1>3, RecordAdded
  <2>2. got \in Data
    BY <1>1 DEF TypeOK
  <2>3. ASSUME NEW u \in Recorded, records[u].stem = Stem
        PROVE  records[u].index < NextIndex /\ \A n \in Names : IsPrefix(records[u].data[n], got[n])
    <3>1. held # NoDeployment /\ held.stem = Stem
      BY <1>1, <2>1, <2>3 DEF Stem, TagIsFresh, Offloading
    <3>2. /\ held.index \in Nat /\ held.data \in Data
          /\ records[u].index \in Nat /\ records[u].data \in Data
      BY <1>1, <3>1, TypeOfHeld, TypeOfRecord
    <3>3. ASSUME NEW n \in Names
          PROVE  records[u].index <= held.index /\ IsPrefix(records[u].data[n], got[n])
      <4>1. records[u].data[n] \in Bytes /\ held.data[n] \in Bytes /\ got[n] \in Bytes
        BY <2>2, <3>2, TypeOfData
      <4>2. IsPrefix(records[u].data[n], held.data[n]) /\ records[u].index <= held.index
        BY <2>1, <2>3, <3>1, HeldExtends
      <4>3. IsPrefix(held.data[n], got[n])
        BY <2>1, <3>1 DEF IInv, Extending, StoredSoFar
      <4> QED
        BY <4>1, <4>2, <4>3, PrefixTransitive DEF Bytes
    <3>4. 1 \in Names
      BY Constants DEF Names
    <3>5. NextIndex = held.index + 1
      BY <3>1 DEF NextIndex
    <3> QED
      BY <3>2, <3>3, <3>4, <3>5
  <2>4. \A n \in Names : IsPrefix(got[n], got[n])
    BY <2>2, TypeOfData, PrefixReflexive DEF Bytes
  <2>5. RecordsInOrder'
    <3> SUFFICES ASSUME NEW t \in Recorded', NEW u \in Recorded',
                        records'[t].stem = records'[u].stem, records'[t].index <= records'[u].index,
                        NEW n \in Names
                 PROVE  IsPrefix(records'[t].data[n], records'[u].data[n])
      BY DEF RecordsInOrder
    <3>1. CASE t \in Recorded /\ u \in Recorded
      BY <1>1, <2>1, <3>1 DEF RecordsInOrder
    <3>2. CASE t \in Recorded /\ u = tag
      BY <2>1, <2>3, <3>2
    <3>3. CASE t = tag /\ u \in Recorded
      <4>1. records[u].index < NextIndex /\ NextIndex <= records[u].index /\ records[u].index \in Nat
        BY <1>1, <2>1, <2>3, <3>3, TypeOfRecord
      <4> QED
        BY <2>1, <4>1
    <3>4. CASE t = tag /\ u = tag
      BY <2>1, <2>4, <3>4
    <3> QED
      BY <2>1, <3>1, <3>2, <3>3, <3>4
  <2> QED
    BY <2>5
<1> QED
  BY <1>2, <1>3

LEMMA IndexStep ==
    ASSUME IInv, [Next]_vars
    PROVE  IndexIsBounded'
<1>1. TypeOK /\ IndexIsBounded
  BY DEF IInv, Records
<1>2. CASE ~ WriteRecord \/ got = NoData
  BY <1>1, <1>2, RecordsKept DEF IndexIsBounded
<1>3. CASE WriteRecord /\ got # NoData
  <2>1. /\ Recorded' = Recorded \cup {tag} /\ \A u \in Recorded : records'[u] = records[u]
        /\ records'[tag].index = NextIndex /\ pc = "store" /\ tag \in Tags \ Recorded /\ NextIndex \in Nat
    BY <1>3, RecordAdded
  <2>2. IsFiniteSet(Recorded)
    <3>1. IsFiniteSet(Tags)
      BY Constants, FS_Interval DEF Tags
    <3>2. Recorded \subseteq Tags
      BY DEF Recorded
    <3> QED
      BY <3>1, <3>2, FS_Subset
  <2>3. Cardinality(Recorded') = Cardinality(Recorded) + 1 /\ Cardinality(Recorded) \in Nat
    BY <2>1, <2>2, FS_AddElement, FS_CardinalityType
  <2>4. NextIndex <= Cardinality(Recorded)
    <3>1. CASE held = NoDeployment
      BY <2>3, <3>1 DEF NextIndex
    <3>2. CASE held # NoDeployment
      <4>1. PICK l \in Recorded : held = records[l]
        BY <2>1, <3>2 DEF IInv, Storing, HeldIsLast
      <4>2. held.index < Cardinality(Recorded) /\ held.index \in Nat /\ NextIndex = held.index + 1
        BY <1>1, <3>2, <4>1, TypeOfRecord DEF IndexIsBounded, NextIndex
      <4> QED
        BY <2>3, <4>2
    <3> QED
      BY <3>1, <3>2
  <2>5. ASSUME NEW t \in Recorded' PROVE records'[t].index < Cardinality(Recorded')
    <3>1. CASE t \in Recorded
      <4>1. records'[t].index < Cardinality(Recorded) /\ records'[t].index \in Nat
        BY <1>1, <2>1, <3>1, TypeOfRecord DEF IndexIsBounded
      <4> QED
        BY <2>3, <4>1
    <3>2. CASE t = tag
      BY <2>1, <2>3, <2>4, <3>2
    <3> QED
      BY <2>1, <3>1, <3>2
  <2> QED
    BY <2>5 DEF IndexIsBounded
<1> QED
  BY <1>2, <1>3

\* What a record lists, and what the memory was.
LEMMA RecordWritten ==
    ASSUME IInv, WriteRecord, got # NoData
    PROVE  LET short == \E n \in Names : Len(got[n]) < want[n]
           IN  /\ records'[tag].data = got /\ records'[tag].of = Deployments
               /\ records'[tag].sizes = want /\ records'[tag].short = short
               /\ Consecutive(Deployments) /\ OfOneMemory(got, Deployments)
               /\ \A n \in Names : Len(got[n]) <= want[n]
<1> DEFINE short == \E n \in Names : Len(got[n]) < want[n]
<1> DEFINE r == [stem |-> Stem, index |-> NextIndex, data |-> got, of |-> Deployments,
                 sizes |-> want, short |-> short]
<1>1. records'[tag] = r /\ pc = "store"
  BY RecordAdded
<1>2. r.data = got /\ r.of = Deployments /\ r.sizes = want /\ r.short = short
  <2> HIDE DEF short
  <2> QED
    OBVIOUS
<1>3. /\ Consecutive(Deployments) /\ OfOneMemory(got, Deployments)
      /\ \A n \in Names : Len(got[n]) <= want[n]
  BY <1>1, MemoryIsConsecutive DEF IInv, Reading, GotIsTrue, Offloading
<1> HIDE DEF r, short
<1>4. /\ records'[tag].data = got /\ records'[tag].of = Deployments
      /\ records'[tag].sizes = want /\ records'[tag].short = short
  BY <1>1, <1>2
<1> USE DEF short
<1> QED
  BY <1>3, <1>4

LEMMA OneMemoryStep ==
    ASSUME IInv, [Next]_vars
    PROVE  RecordsOfOneMemory'
<1>1. TypeOK /\ RecordsOfOneMemory
  BY DEF IInv, Records
<1>2. gen4' = gen4 /\ omits' = omits /\ (MetasCome' <=> MetasCome)
  BY <1>1, FamilyKept
<1> SUFFICES ASSUME NEW t \in Recorded'
             PROVE  Consecutive(records'[t].of) /\ OfOneMemory(records'[t].data, records'[t].of)
  BY <1>2 DEF RecordsOfOneMemory, OfOneMemory, HeadComes
<1>3. CASE ~ WriteRecord \/ got = NoData
  BY <1>1, <1>3, RecordsKept DEF RecordsOfOneMemory
<1>4. CASE WriteRecord /\ got # NoData
  <2>1. Recorded' = Recorded \cup {tag} /\ \A u \in Recorded : records'[u] = records[u]
    BY <1>4, RecordAdded
  <2>2. CASE t \in Recorded
    BY <1>1, <2>1, <2>2 DEF RecordsOfOneMemory
  <2>3. CASE t = tag
    BY <1>4, <2>3, RecordWritten
  <2> QED
    BY <2>1, <2>2, <2>3
<1> QED
  BY <1>3, <1>4

LEMMA TruthStep ==
    ASSUME IInv, [Next]_vars
    PROVE  RecordsAreTrue'
<1>1. TypeOK /\ RecordsAreTrue
  BY DEF IInv
<1> SUFFICES ASSUME HeadsCome, HeadsCome' PROVE RecordsAreTrue'
  BY <1>1, FamilyKept DEF RecordsAreTrue
<1>2. CASE ~ WriteRecord \/ got = NoData
  BY <1>1, <1>2, RecordsKept DEF RecordsAreTrue
<1>3. CASE WriteRecord /\ got # NoData
  <2> DEFINE short == \E n \in Names : Len(got[n]) < want[n]
  <2>1. Recorded' = Recorded \cup {tag} /\ \A t \in Recorded : records'[t] = records[t]
    BY <1>3, RecordAdded
  <2>2. /\ records'[tag].data = got /\ records'[tag].of = Deployments
        /\ records'[tag].sizes = want /\ records'[tag].short = short
        /\ OfOneMemory(got, Deployments) /\ \A n \in Names : Len(got[n]) <= want[n]
    BY <1>3, RecordWritten
  <2> HIDE DEF short
  <2>3. ASSUME NEW n \in Names
        PROVE  /\ Len(got[n]) = want[n] \/ short
               /\ \A i \in 1..Len(got[n]) : got[n][i] = [of |-> Deployments[Label(n)], name |-> n, at |-> i]
    <3>1. Len(got[n]) \in Nat /\ want[n] \in Nat /\ (got[n] = <<>> <=> Len(got[n]) = 0)
      BY <1>1, TypeOfData DEF TypeOK
    <3>2. Len(got[n]) = want[n] \/ Len(got[n]) < want[n]
      BY <2>2, <3>1
    <3>3. Len(got[n]) < want[n] => short
      BY DEF short
    <3>4. HeadComes(n)
      BY DEF HeadComes, HeadsCome
    <3>5. ASSUME NEW i \in 1..Len(got[n]) PROVE got[n][i] = [of |-> Deployments[Label(n)], name |-> n, at |-> i]
      <4>1. got[n] # <<>>
        BY <3>1, <3>5
      <4> QED
        BY <2>2, <3>4, <4>1 DEF OfOneMemory, IsDatasetOf
    <3> QED
      BY <3>2, <3>3, <3>5
  <2>4. ASSUME NEW t \in Recorded', NEW n \in Names
        PROVE  /\ Len(records'[t].data[n]) = records'[t].sizes[n] \/ records'[t].short
               /\ \A i \in 1..Len(records'[t].data[n]) :
                     records'[t].data[n][i] = [of |-> records'[t].of[Label(n)], name |-> n, at |-> i]
    <3>1. CASE t \in Recorded
      BY <1>1, <2>1, <3>1 DEF RecordsAreTrue
    <3>2. CASE t = tag
      BY <2>1, <2>2, <2>3, <3>2
    <3> QED
      BY <2>1, <3>1, <3>2
  <2> QED
    BY <2>4 DEF RecordsAreTrue
<1> QED
  BY <1>2, <1>3

-----------------------------------------------------------------------------
(* The theorems.                                                           *)

LEMMA Invariance == Spec => []IInv
<1>1. Init => IInv
  <2> SUFFICES ASSUME Init PROVE IInv
    OBVIOUS
  <2>1. WantIsThere /\ HeldIsLast /\ IdentitiesCome
    BY DEF Init, WantIsThere, Offloading, HeldIsLast, IdentitiesCome
  <2> QED
    BY <2>1, TypeInit, MemoryInit, PartsInit, GotInit, TagInit, StoredInit, DescribesInit
       DEF IInv, Reading, Storing, Records, Extending
<1>2. IInv /\ [Next]_vars => IInv'
  <2> SUFFICES ASSUME IInv, [Next]_vars PROVE IInv'
    OBVIOUS
  <2>1. Reading'
    BY MemoryStep, WantStep, PartsStep, GotStep, IdentitiesStep DEF Reading
  <2>2. Storing'
    BY TagStep, HeldStep DEF Storing
  <2>3. Records'
    BY IndexStep, OneMemoryStep DEF Records
  <2>4. RecordsAreTrue'
    BY TruthStep
  <2>5. (MetasCome => Extending)'
    <3>1. MetasCome' <=> MetasCome
      BY FamilyKept DEF IInv
    <3> QED
      BY <3>1, StoredStep, DescribesStep, OrderStep DEF Extending
  <2> QED
    BY <2>1, <2>2, <2>3, <2>4, <2>5, TypeStep DEF IInv
<1> QED
  BY <1>1, <1>2, PTL DEF Spec

\* The store of several datasets keeps its types: cli.offload never builds a record, a
\* file name or a size that is none.
THEOREM TypeCorrect == Spec => []TypeOK
<1>1. IInv => TypeOK
  BY DEF IInv
<1> QED
  BY Invariance, <1>1, PTL

\* The datasets a record lists (WriteRecord in cli.offload) are of one memory, the one on
\* the logger at that offload, whatever partial files and files were on disk, for every
\* logger that sends the head of every object.
THEOREM RecordsStayTrue == Spec => []RecordsAreTrue
<1>1. IInv => RecordsAreTrue
  BY DEF IInv
<1> QED
  BY Invariance, <1>1, PTL

\* rbr-offload --rebuild finds the files of every record of an undamaged deployment, and
\* the last record's hold all that any other one described (_raw_files, _rebuild), for
\* every logger that sends its metadata whole; partial files resumed unchecked included.
THEOREM RecordsStayRebuildable == Spec => []RecordsRebuild
<1>1. ASSUME IInv PROVE RecordsRebuild
  <2> SUFFICES ASSUME MetasCome, NEW t \in Recorded, NEW u \in Recorded,
                      records[t].stem = records[u].stem, records[t].stem \notin lost
               PROVE  \E d \in Rebuild(t) : \A n \in Names : IsPrefix(records[u].data[n], d[n])
    BY DEF RecordsRebuild
  <2>1. TypeOK /\ RecordsDescribePrefixes /\ RecordsInOrder /\ IndexIsBounded
    BY <1>1 DEF IInv, Records, Extending
  <2> DEFINE l == Latest(records[t].stem)
  <2>2. t \in OfStem(records[t].stem) /\ u \in OfStem(records[t].stem)
    BY DEF OfStem
  <2>3. /\ l \in Recorded /\ records[l].stem = records[t].stem
        /\ records[u].index <= records[l].index
    BY <2>1, <2>2, LatestIs DEF OfStem
  <2> HIDE DEF l
  <2>4. ASSUME NEW r \in Recorded, records[r].stem = records[t].stem
        PROVE  RawFiles(records[r]) = {records[r].data}
    BY <2>1, <2>4 DEF RawFiles, Describes, RecordsDescribePrefixes
  <2>5. Rebuild(t) = {records[l].data}
    BY <2>3, <2>4 DEF Rebuild, l
  <2>6. \A n \in Names : IsPrefix(records[u].data[n], records[l].data[n])
    BY <2>1, <2>3 DEF RecordsInOrder
  <2> QED
    BY <2>5, <2>6
<1>2. IInv => RecordsRebuild
  BY <1>1
<1> QED
  BY Invariance, <1>2, PTL

=============================================================================
