---------------------------- MODULE PrefixLemmas ----------------------------
(***************************************************************************)
(* Facts about prefixes of sequences, and about least and greatest         *)
(* numbers, cited by the proofs about files and records.                   *)
(***************************************************************************)
EXTENDS Integers, Sequences, SequencesExt, SequenceTheorems, WellFoundedInduction, TLAPS

\* IsPrefix, cell by cell.
LEMMA PrefixByCell ==
    ASSUME NEW S, NEW s \in Seq(S), NEW t \in Seq(S)
    PROVE  IsPrefix(s, t) <=> (Len(s) <= Len(t) /\ \A i \in 1..Len(s) : s[i] = t[i])
<1>1. SubSeq(s, 1, Len(s)) = s
  OBVIOUS
<1>2. ASSUME Len(s) <= Len(t)
      PROVE  SubSeq(t, 1, Len(s)) = [i \in 1..Len(s) |-> t[i]]
  BY <1>2
<1>3. s = [i \in 1..Len(s) |-> s[i]]
  OBVIOUS
<1> QED
  BY <1>1, <1>2, <1>3 DEF IsPrefix

\* A file is a prefix of itself and the empty file of every file.
LEMMA PrefixReflexive ==
    ASSUME NEW S, NEW s \in Seq(S)
    PROVE  IsPrefix(s, s) /\ IsPrefix(<<>>, s)
<1>1. IsPrefix(s, s)
  BY PrefixByCell
<1> DEFINE e == <<>>
<1>2. e \in Seq(S) /\ Len(e) = 0
  OBVIOUS
<1>3. Len(e) <= Len(s) /\ \A i \in 1..Len(e) : e[i] = s[i]
  OBVIOUS
<1> HIDE DEF e
<1>4. IsPrefix(e, s)
  BY <1>2, <1>3, PrefixByCell
<1> QED
  BY <1>1, <1>4 DEF e

\* Prefixes of prefixes are prefixes.
LEMMA PrefixTransitive ==
    ASSUME NEW S, NEW s \in Seq(S), NEW t \in Seq(S), NEW u \in Seq(S),
           IsPrefix(s, t), IsPrefix(t, u)
    PROVE  IsPrefix(s, u)
  BY PrefixByCell

\* Appending keeps what was there.
LEMMA PrefixAppend ==
    ASSUME NEW S, NEW s \in Seq(S), NEW t \in Seq(S)
    PROVE  s \o t \in Seq(S) /\ IsPrefix(s, s \o t)
<1> DEFINE u == s \o t
<1>1. u \in Seq(S) /\ Len(s) <= Len(u)
  OBVIOUS
<1>2. \A i \in 1..Len(s) : s[i] = u[i]
  OBVIOUS
<1> HIDE DEF u
<1>3. IsPrefix(s, u)
  BY <1>1, <1>2, PrefixByCell
<1> QED
  BY <1>1, <1>3 DEF u

\* Appending the rest of a file to a prefix of it makes the file.
LEMMA AppendRest ==
    ASSUME NEW S, NEW s \in Seq(S), NEW t \in Seq(S), IsPrefix(s, t)
    PROVE  s \o SubSeq(t, Len(s) + 1, Len(t)) = t
<1>1. Len(s) <= Len(t) /\ \A i \in 1..Len(s) : s[i] = t[i]
  BY PrefixByCell
<1> DEFINE r == SubSeq(t, Len(s) + 1, Len(t))
<1>2. /\ r \in Seq(S) /\ Len(r) = Len(t) - Len(s)
      /\ \A i \in 1..Len(r) : r[i] = t[Len(s) + i]
  BY <1>1, SubSeqProperties
<1>3. Len(s \o r) = Len(t) /\ s \o r \in Seq(S)
  BY <1>1, <1>2
<1>4. ASSUME NEW i \in 1..Len(t) PROVE (s \o r)[i] = t[i]
  <2>1. CASE i <= Len(s)
    BY <1>1, <1>2, <2>1
  <2>2. CASE i > Len(s)
    <3>1. (s \o r)[i] = r[i - Len(s)]
      BY <1>1, <1>2, <2>2
    <3>2. i - Len(s) \in 1..Len(r)
      BY <1>1, <1>2, <2>2
    <3> HIDE DEF r
    <3> QED
      BY <1>1, <1>2, <3>1, <3>2
  <2> QED
    BY <2>1, <2>2
<1> HIDE DEF r
<1> QED
  BY <1>3, <1>4, SeqEqual DEF r

-----------------------------------------------------------------------------
\* Numbers have a least one ...
LEMMA LeastNat ==
    ASSUME NEW T, T \subseteq Nat, T # {}
    PROVE  \E m \in T : \A n \in T : m <= n
<1> DEFINE R == OpToRel(<, Nat)
<1>1. \A x, y \in Nat : y < x => <<y, x>> \in R
  BY DEF OpToRel
<1>2. IsWellFoundedOn(R, Nat)
  BY NatLessThanWellFounded
<1> HIDE DEF R
<1>3. PICK m \in T : \A n \in T : ~ (<<n, m>> \in R)
  BY <1>2, WFMin
<1>4. \A n \in T : ~ (n < m) /\ n \in Nat /\ m \in Nat
  BY <1>1, <1>3
<1> QED
  BY <1>3, <1>4

\* ... and, if they are bounded, a greatest one ...
LEMMA GreatestExists ==
    ASSUME NEW N \in Nat, NEW S, S \subseteq 0..N, S # {}
    PROVE  \E m \in S : \A n \in S : n <= m
<1> DEFINE T == {N - n : n \in S}
<1>1. ASSUME NEW n \in S PROVE n \in 0..N /\ N - n \in T /\ N - n \in Nat
  OBVIOUS
<1>2. T \subseteq Nat
  BY <1>1
<1>3. PICK s \in S : TRUE
  OBVIOUS
<1>4. T # {}
  BY <1>1, <1>3
<1>5. PICK t \in T : \A u \in T : t <= u
  BY <1>2, <1>4, LeastNat
<1>6. PICK m \in S : t = N - m
  BY <1>5
<1> HIDE DEF T
<1>7. ASSUME NEW n \in S PROVE n <= m
  BY <1>1, <1>5, <1>6
<1> QED
  BY <1>6, <1>7

\* ... which is what Max finds, as Min finds the least.
LEMMA GreatestIs ==
    ASSUME NEW N \in Nat, NEW S, S \subseteq 0..N, NEW m \in S, \A n \in S : n <= m
    PROVE  Max(S) = m
<1>1. \A n \in S : n \in Nat /\ m \in Nat
  OBVIOUS
<1>2. \A k \in S : (\A n \in S : k >= n) => k = m
  BY <1>1
<1>3. \A n \in S : m >= n
  BY <1>1
<1> QED
  BY <1>2, <1>3 DEF Max

LEMMA LeastIs ==
    ASSUME NEW T, T \subseteq Nat, T # {}
    PROVE  Min(T) \in T /\ \A n \in T : Min(T) <= n
  BY LeastNat DEF Min

=============================================================================
