------------------------- MODULE ClockHistoryProofs -------------------------
(***************************************************************************)
(* Theorems about ClockHistory, for every value of its constants, and the  *)
(* lemmas about the decoders of SampleTimes they rest on.                  *)
(***************************************************************************)
EXTENDS ClockHistory, PrefixLemmas, FiniteSetTheorems

(* Functions defined by recursion on 0..n, and induction along it.         *)

\* What holds at the beginning and at each number after one it holds at, holds throughout.
LEMMA StepByStep ==
    ASSUME NEW n \in Nat, NEW S, 0 \in S, \A i \in 1..n : i - 1 \in S => i \in S
    PROVE  \A i \in 0..n : i \in S
<1> DEFINE T == {i \in 0..n : i \notin S}
<1>1. SUFFICES ASSUME T # {} PROVE FALSE
  BY <1>1
<1>2. T \subseteq Nat
  OBVIOUS
<1>3. PICK m \in T : \A k \in T : m <= k
  BY <1>1, <1>2, LeastNat
<1>4. m \in 1..n /\ m - 1 \in 0..n
  BY <1>3
<1>5. m - 1 \in S
  BY <1>3, <1>4
<1> QED
  BY <1>3, <1>4, <1>5

\* A function can be defined step by step, each value from the one before.
Definable(n, A, base, G) ==
    \E f \in [0..n -> A] : f[0] = base /\ \A i \in 1..n : f[i] = G[i][f[i - 1]]

LEMMA Recursion ==
    ASSUME NEW n \in Nat, NEW A, NEW base \in A, NEW G \in [1..n -> [A -> A]]
    PROVE  Definable(n, A, base, G)
<1> DEFINE Upto(k, f) == f[0] = base /\ \A i \in 1..k : f[i] = G[i][f[i - 1]]
           S == {k \in 0..n : \E f \in [0..k -> A] : Upto(k, f)}
<1>1. 0 \in S
  <2>1. [i \in 0..0 |-> base] \in [0..0 -> A] /\ Upto(0, [i \in 0..0 |-> base])
    OBVIOUS
  <2>2. 0 \in 0..n
    OBVIOUS
  <2> QED
    BY ONLY <2>1, <2>2
<1>2. ASSUME NEW i \in 1..n, i - 1 \in S PROVE i \in S
  <2>1. PICK f \in [0..(i - 1) -> A] : Upto(i - 1, f)
    BY <1>2
  <2> DEFINE g == [k \in 0..i |-> IF k = i THEN G[i][f[i - 1]] ELSE f[k]]
  <2>2. f[i - 1] \in A /\ G[i][f[i - 1]] \in A
    OBVIOUS
  <2>3. g \in [0..i -> A]
    BY <2>2
  <2>4. g[0] = base
    BY <2>1
  <2>5. ASSUME NEW k \in 1..i PROVE g[k] = G[k][g[k - 1]]
    <3>1. k - 1 \in 0..(i - 1) /\ g[k - 1] = f[k - 1]
      OBVIOUS
    <3>2. CASE k = i
      <4>1. i \in 0..i /\ g[i] = G[i][f[i - 1]]
        OBVIOUS
      <4> QED
        BY <3>1, <3>2, <4>1
    <3>3. CASE k # i
      <4>1. k \in 1..(i - 1) /\ k \in 0..i
        BY <3>3
      <4>2. g[k] = f[k] /\ f[k] = G[k][f[k - 1]]
        BY <2>1, <3>3, <4>1
      <4> QED
        BY <3>1, <4>2
    <3> QED
      BY <3>2, <3>3
  <2>6. Upto(i, g)
    <3> HIDE DEF g
    <3> QED
      BY <2>4, <2>5
  <2>7. \E h \in [0..i -> A] : Upto(i, h)
    <3> HIDE DEF g, Upto
    <3> QED
      BY <2>3, <2>6
  <2>8. i \in 0..n
    OBVIOUS
  <2> HIDE DEF Upto
  <2> QED
    BY <2>7, <2>8, Zenon
<1>3. n \in S
  <2> HIDE DEF S
  <2>1. \A i \in 0..n : i \in S
    BY <1>1, <1>2, StepByStep
  <2> QED
    BY <2>1
<1> QED
  BY <1>3 DEF Definable

-----------------------------------------------------------------------------
(* InOrder, which Readings, Events and the bounds of the runs are made by. *)

\* The recursive function in its definition is one.
Builds(f, n, S) ==
    /\ f \in [0..n -> Seq(Nat)] /\ f[0] = <<>> /\ f[n] = InOrder(n, S)
    /\ \A i \in 1..n : f[i] = IF i \in S THEN Append(f[i - 1], i) ELSE f[i - 1]

LEMMA InOrderIs ==
    ASSUME NEW n \in Nat, NEW S
    PROVE  \E f : Builds(f, n, S)
<1> DEFINE G == [i \in 1..n |-> [s \in Seq(Nat) |-> IF i \in S THEN Append(s, i) ELSE s]]
           e == <<>>
           Def(f) == [i \in 0..n |-> IF i = 0 THEN <<>>
                                     ELSE IF i \in S THEN Append(f[i - 1], i) ELSE f[i - 1]]
           u == CHOOSE f : f = Def(f)
<1>1. /\ G \in [1..n -> [Seq(Nat) -> Seq(Nat)]]
      /\ \A i \in 1..n, s \in Seq(Nat) : G[i][s] = IF i \in S THEN Append(s, i) ELSE s
  OBVIOUS
<1>2. e \in Seq(Nat)
  OBVIOUS
<1> HIDE DEF G, e
<1>3. PICK f \in [0..n -> Seq(Nat)] : f[0] = e /\ \A i \in 1..n : f[i] = G[i][f[i - 1]]
  <2>1. Definable(n, Seq(Nat), e, G)
    BY <1>1, <1>2, Recursion
  <2> QED
    BY <2>1 DEF Definable
<1>4. \A i \in 1..n : f[i] = IF i \in S THEN Append(f[i - 1], i) ELSE f[i - 1]
  <2> TAKE i \in 1..n
  <2>1. i - 1 \in 0..n /\ f[i - 1] \in Seq(Nat)
    OBVIOUS
  <2> QED
    BY <1>1, <1>3, <2>1
<1>5. f = Def(f)
  <2>1. \A i \in 0..n : f[i] = IF i = 0 THEN <<>>
                               ELSE IF i \in S THEN Append(f[i - 1], i) ELSE f[i - 1]
    <3> TAKE i \in 0..n
    <3>1. i = 0 \/ i \in 1..n
      OBVIOUS
    <3> QED
      BY <1>3, <1>4, <3>1 DEF e
  <2> QED
    BY <2>1, Zenon
<1>6. u = Def(u)
  <2> HIDE DEF Def
  <2> QED
    BY <1>5
<1>7. InOrder(n, S) = u[n]
  BY DEF InOrder
<1> HIDE DEF u
<1>8. u[0] = <<>> /\ \A i \in 1..n : u[i] = IF i \in S THEN Append(u[i - 1], i) ELSE u[i - 1]
  <2>1. \A i \in 0..n : u[i] = Def(u)[i]
    BY <1>6
  <2>2. 0 \in 0..n /\ \A i \in 1..n : i \in 0..n /\ i # 0
    OBVIOUS
  <2> QED
    BY <2>1, <2>2
<1>9. \A i \in 0..n : u[i] = f[i]
  <2> DEFINE T == {i \in 0..n : u[i] = f[i]}
  <2>1. 0 \in T
    BY <1>3, <1>8 DEF e
  <2>2. ASSUME NEW i \in 1..n, i - 1 \in T PROVE i \in T
    <3>1. u[i - 1] = f[i - 1] /\ i \in 0..n
      BY <2>2
    <3> QED
      BY <1>4, <1>8, <3>1
  <2> HIDE DEF T
  <2>3. \A i \in 0..n : i \in T
    BY <2>1, <2>2, StepByStep
  <2> QED
    BY <2>3 DEF T
<1>10. f[n] = InOrder(n, S)
  <2>1. n \in 0..n
    OBVIOUS
  <2> QED
    BY <1>7, <1>9, <2>1
<1>11. Builds(f, n, S)
  BY <1>3, <1>4, <1>10 DEF Builds, e
<1> QED
  BY <1>11

\* So it goes on number by number.
LEMMA InOrderStep ==
    ASSUME NEW n \in Nat, NEW S
    PROVE  /\ InOrder(n, S) \in Seq(Nat)
           /\ n = 0 => InOrder(n, S) = <<>>
           /\ n # 0 => InOrder(n, S) = IF n \in S THEN Append(InOrder(n - 1, S), n) ELSE InOrder(n - 1, S)
<1>a. PICK f : Builds(f, n, S)
  BY InOrderIs
<1>1. /\ f \in [0..n -> Seq(Nat)] /\ f[0] = <<>> /\ InOrder(n, S) = f[n]
      /\ \A i \in 1..n : f[i] = IF i \in S THEN Append(f[i - 1], i) ELSE f[i - 1]
  BY <1>a DEF Builds
<1>2. ASSUME n # 0
      PROVE  InOrder(n - 1, S) = f[n - 1]
  <2>1. n - 1 \in Nat
    BY <1>2
  <2>a. PICK g : Builds(g, n - 1, S)
    BY <2>1, InOrderIs
  <2>2. /\ g \in [0..(n - 1) -> Seq(Nat)] /\ g[0] = <<>> /\ InOrder(n - 1, S) = g[n - 1]
        /\ \A i \in 1..(n - 1) : g[i] = IF i \in S THEN Append(g[i - 1], i) ELSE g[i - 1]
    BY <2>a DEF Builds
  <2> DEFINE T == {i \in 0..(n - 1) : g[i] = f[i]}
  <2>3. 0 \in T
    BY <1>1, <1>2, <2>2
  <2>4. ASSUME NEW i \in 1..(n - 1), i - 1 \in T PROVE i \in T
    <3>1. g[i - 1] = f[i - 1] /\ i \in 1..n /\ i \in 0..(n - 1)
      BY <2>4
    <3> QED
      BY <1>1, <2>2, <3>1
  <2> HIDE DEF T
  <2>5. \A i \in 0..(n - 1) : i \in T
    BY <2>1, <2>3, <2>4, StepByStep
  <2>6. n - 1 \in T
    BY <2>1, <2>5
  <2> QED
    BY <2>2, <2>6 DEF T
<1> QED
  <2>1. n \in 0..n /\ (n # 0 => n \in 1..n)
    OBVIOUS
  <2> QED
    BY <1>1, <1>2, <2>1

\* It lists the members of the set, each greater than the one before.
Lists(q, n, S) ==
    /\ q \in Seq(Nat)
    /\ \A i \in 1..Len(q) : q[i] \in S /\ q[i] \in 1..n
    /\ \A i, j \in 1..Len(q) : i < j => q[i] < q[j]
    /\ \A x \in 1..n : x \in S => \E i \in 1..Len(q) : q[i] = x

LEMMA InOrderLists ==
    ASSUME NEW n \in Nat, NEW S
    PROVE  Lists(InOrder(n, S), n, S)
<1> DEFINE T == {i \in 0..n : Lists(InOrder(i, S), i, S)}
<1>1. 0 \in T
  BY InOrderStep DEF Lists
<1>2. ASSUME NEW i \in 1..n, i - 1 \in T PROVE i \in T
  <2> DEFINE p == InOrder(i - 1, S)
             q == InOrder(i, S)
  <2>1. Lists(p, i - 1, S) /\ i \in Nat /\ i # 0 /\ i \in 0..n
    BY <1>2
  <2>2. q = IF i \in S THEN Append(p, i) ELSE p
    BY <2>1, InOrderStep
  <2> HIDE DEF p, q
  <2>3. CASE i \notin S
    <3>1. /\ q = p /\ \A x \in 1..(i - 1) : x \in 1..i
          /\ \A x \in 1..i : x \in S => x \in 1..(i - 1)
      BY <2>2, <2>3
    <3>2. Lists(q, i, S)
      BY <2>1, <3>1 DEF Lists
    <3> QED
      BY <2>1, <3>2 DEF q
  <2>4. CASE i \in S
    <3>1. /\ p \in Seq(Nat) /\ q \in Seq(Nat) /\ Len(q) = Len(p) + 1 /\ q[Len(q)] = i
          /\ \A k \in 1..Len(p) : q[k] = p[k]
      BY <2>1, <2>2, <2>4 DEF Lists
    <3>2. \A k \in 1..Len(q) : k \in 1..Len(p) \/ k = Len(q)
      BY <3>1
    <3>3. \A k \in 1..Len(q) : q[k] \in S /\ q[k] \in 1..i
      <4> TAKE k \in 1..Len(q)
      <4>1. CASE k = Len(q)
        BY <2>4, <3>1, <4>1
      <4>2. CASE k \in 1..Len(p)
        <5>1. p[k] \in S /\ p[k] \in 1..(i - 1)
          BY <2>1, <4>2 DEF Lists
        <5> QED
          BY <3>1, <4>2, <5>1
      <4> QED
        BY <3>2, <4>1, <4>2
    <3>4. ASSUME NEW k \in 1..Len(q), NEW l \in 1..Len(q), k < l PROVE q[k] < q[l]
      <4>1. k \in 1..Len(p) /\ q[k] = p[k] /\ p[k] \in 1..(i - 1)
        BY <2>1, <3>1, <3>2, <3>4 DEF Lists
      <4>2. CASE l = Len(q)
        BY <3>1, <4>1, <4>2
      <4>3. CASE l \in 1..Len(p)
        BY <2>1, <3>1, <3>4, <4>1, <4>3 DEF Lists
      <4> QED
        BY <3>2, <4>2, <4>3
    <3>5. ASSUME NEW x \in 1..i, x \in S PROVE \E k \in 1..Len(q) : q[k] = x
      <4>1. CASE x = i
        BY <3>1, <4>1
      <4>2. CASE x # i
        <5>1. PICK k \in 1..Len(p) : p[k] = x
          BY <2>1, <3>5, <4>2 DEF Lists
        <5> QED
          BY <3>1, <5>1
      <4> QED
        BY <4>1, <4>2
    <3>6. Lists(q, i, S)
      BY <3>1, <3>3, <3>4, <3>5 DEF Lists
    <3> QED
      BY <2>1, <3>6 DEF q
  <2> QED
    BY <2>3, <2>4
<1> HIDE DEF T
<1>3. \A i \in 0..n : i \in T
  BY <1>1, <1>2, StepByStep
<1>4. n \in T
  BY <1>3
<1> QED
  BY <1>4 DEF T

\* It looks at the members up to n only, ...
LEMMA InOrderSame ==
    ASSUME NEW n \in Nat, NEW S, NEW R, \A x \in 1..n : x \in S <=> x \in R
    PROVE  InOrder(n, S) = InOrder(n, R)
<1> DEFINE T == {i \in 0..n : InOrder(i, S) = InOrder(i, R)}
<1>1. 0 \in T
  BY InOrderStep
<1>2. ASSUME NEW i \in 1..n, i - 1 \in T PROVE i \in T
  <2>1. i \in Nat /\ i # 0 /\ i \in 0..n /\ InOrder(i - 1, S) = InOrder(i - 1, R)
    BY <1>2
  <2>2. i \in S <=> i \in R
    OBVIOUS
  <2>3. InOrder(i, S) = IF i \in S THEN Append(InOrder(i - 1, S), i) ELSE InOrder(i - 1, S)
    BY <2>1, InOrderStep
  <2>4. InOrder(i, R) = IF i \in R THEN Append(InOrder(i - 1, R), i) ELSE InOrder(i - 1, R)
    BY <2>1, InOrderStep
  <2> QED
    BY <2>1, <2>2, <2>3, <2>4
<1> HIDE DEF T
<1>3. \A i \in 0..n : i \in T
  BY <1>1, <1>2, StepByStep
<1>4. n \in T
  BY <1>3
<1> QED
  BY <1>4 DEF T

\* ... and greater numbers only add to its end.
LEMMA InOrderGrows ==
    ASSUME NEW m \in Nat, NEW n \in Nat, m <= n, NEW S
    PROVE  /\ IsPrefix(InOrder(m, S), InOrder(n, S))
           /\ \A i \in (Len(InOrder(m, S)) + 1)..Len(InOrder(n, S)) : InOrder(n, S)[i] > m
<1> DEFINE p == InOrder(m, S)
           q == InOrder(n, S)
           T == {d \in 0..(n - m) : IsPrefix(p, InOrder(m + d, S))}
<1>1. p \in Seq(Nat) /\ q \in Seq(Nat) /\ n - m \in Nat /\ m + (n - m) = n /\ m + 0 = m
  BY InOrderStep
<1>2. 0 \in T
  <2>1. IsPrefix(p, p)
    <3> HIDE DEF p
    <3> QED
      BY <1>1, PrefixReflexive
  <2> QED
    BY <1>1, <2>1
<1>3. ASSUME NEW d \in 1..(n - m), d - 1 \in T PROVE d \in T
  <2> DEFINE u == InOrder(m + (d - 1), S)
             v == InOrder(m + d, S)
  <2>1. m + d \in Nat /\ m + d # 0 /\ (m + d) - 1 = m + (d - 1) /\ m + (d - 1) \in Nat /\ d \in 0..(n - m)
    BY <1>1
  <2>2. IsPrefix(p, u)
    BY <1>3
  <2>3. u \in Seq(Nat) /\ v \in Seq(Nat)
    BY <2>1, InOrderStep
  <2>4. v = IF m + d \in S THEN Append(u, m + d) ELSE u
    <3> DEFINE k == m + d
    <3>1. k \in Nat /\ k # 0 /\ k - 1 = m + (d - 1)
      BY <2>1
    <3> HIDE DEF k
    <3>2. InOrder(k, S) = IF k \in S THEN Append(InOrder(k - 1, S), k) ELSE InOrder(k - 1, S)
      BY <3>1, InOrderStep
    <3>3. InOrder(k, S) = IF k \in S THEN Append(u, k) ELSE u
      BY <3>1, <3>2
    <3> QED
      BY <3>3 DEF k
  <2> HIDE DEF p, u, v
  <2>5. IsPrefix(u, v)
    <3>1. Len(u) <= Len(v) /\ \A i \in 1..Len(u) : u[i] = v[i]
      BY <2>1, <2>3, <2>4
    <3> QED
      BY <2>3, <3>1, PrefixByCell
  <2>6. IsPrefix(p, v)
    BY <1>1, <2>2, <2>3, <2>5, PrefixTransitive
  <2> QED
    BY <2>1, <2>6 DEF v
<1>4. IsPrefix(p, q)
  <2> HIDE DEF T
  <2>1. \A d \in 0..(n - m) : d \in T
    BY <1>1, <1>2, <1>3, StepByStep
  <2>2. n - m \in T
    BY <1>1, <2>1
  <2> QED
    BY <1>1, <2>2 DEF T
<1>5. Lists(p, m, S) /\ Lists(q, n, S)
  BY InOrderLists
<1> HIDE DEF p, q, T
<1>6. Len(p) <= Len(q) /\ \A i \in 1..Len(p) : p[i] = q[i]
  BY <1>1, <1>4, PrefixByCell
<1>7. ASSUME NEW i \in (Len(p) + 1)..Len(q), ~ (q[i] > m) PROVE FALSE
  <2>1. i \in 1..Len(q) /\ q[i] \in 1..m /\ q[i] \in S
    BY <1>1, <1>5, <1>7 DEF Lists
  <2>2. PICK j \in 1..Len(p) : p[j] = q[i]
    BY <1>5, <2>1 DEF Lists
  <2>3. j \in 1..Len(q) /\ j < i /\ q[j] = q[i]
    BY <1>1, <1>6, <2>1, <2>2
  <2>4. q[j] < q[i]
    BY <1>5, <2>1, <2>3 DEF Lists
  <2> QED
    BY <2>1, <2>3, <2>4
<1> QED
  BY <1>4, <1>7 DEF p, q

\* Only its last member can be n.
LEMMA InOrderLast ==
    ASSUME NEW n \in Nat \ {0}, NEW S
    PROVE  /\ Len(InOrder(n, S)) <= Len(InOrder(n - 1, S)) + 1
           /\ n \notin S => InOrder(n, S) = InOrder(n - 1, S)
<1>1. n - 1 \in Nat /\ n \in Nat /\ n # 0
  OBVIOUS
<1>2. InOrder(n - 1, S) \in Seq(Nat)
  BY <1>1, InOrderStep
<1>3. InOrder(n, S) = IF n \in S THEN Append(InOrder(n - 1, S), n) ELSE InOrder(n - 1, S)
  BY <1>1, InOrderStep
<1> QED
  BY <1>2, <1>3

-----------------------------------------------------------------------------
(* Division, whose result the provers know little of.                      *)

LEMMA TimesKeepsOrder ==
    ASSUME NEW c \in Nat, NEW a \in Nat, NEW b \in Nat, a <= b
    PROVE  a * c <= b * c
  OBVIOUS

LEMMA Division ==
    ASSUME NEW a \in Nat, NEW c \in Nat \ {0}
    PROVE  /\ a \div c \in Nat
           /\ (a \div c) * c <= a
           /\ a < ((a \div c) + 1) * c
  OBVIOUS

LEMMA DivisionKeepsOrder ==
    ASSUME NEW a \in Nat, NEW b \in Nat, NEW c \in Nat \ {0}, a <= b
    PROVE  a \div c <= b \div c
  BY Division

LEMMA DivisionOfOneLess ==
    ASSUME NEW a \in Nat, NEW c \in Nat \ {0}, a # 0
    PROVE  (a \div c) - 1 <= (a - 1) \div c
  BY Division

-----------------------------------------------------------------------------
(* An image, and the same image grown.                                     *)

Word == [kind : {"reading"}, clock : Nat, at : Nat, run : Nat]
        \cup [kind : {"event"}, type : Types, clock : Nat, ok : BOOLEAN]
        \cup [kind : {"stamp"}, clock : Nat]

IsImage(m) == m.nchan \in Nat \ {0} /\ m.enabled \in Nat /\ m.words \in Seq(Word)

Grew(m, l) ==
    /\ m.family = l.family /\ m.nchan = l.nchan /\ m.enabled = l.enabled
    /\ IsPrefix(m.words, l.words)

\* The places of the readings; decode_l2 does not know yet what the last word is.
Dropped(m) ==
    LET records == IF m.family = "l2" THEN L2Records(m) ELSE SoloRecords(m)
    IN  records \cup {i + 1 : i \in records}
Places(m) == DOMAIN m.words \ Dropped(m)
Settled(m) == IF m.family = "l2" /\ Len(m.words) > 0 THEN Len(m.words) - 1 ELSE Len(m.words)
Sure(m) == InOrder(Settled(m), Places(m))

\* Words that were there stay where they are.
LEMMA GrownWords ==
    ASSUME NEW m, NEW l, IsImage(m), IsImage(l), Grew(m, l)
    PROVE  /\ Len(m.words) \in Nat /\ Len(l.words) \in Nat /\ Len(m.words) <= Len(l.words)
           /\ DOMAIN m.words = 1..Len(m.words) /\ DOMAIN l.words = 1..Len(l.words)
           /\ \A i \in 1..Len(m.words) : i \in 1..Len(l.words) /\ m.words[i] = l.words[i]
<1>1. m.words \in Seq(Word) /\ l.words \in Seq(Word) /\ IsPrefix(m.words, l.words)
  BY DEF IsImage, Grew
<1>2. Len(m.words) <= Len(l.words) /\ \A i \in 1..Len(m.words) : m.words[i] = l.words[i]
  BY <1>1, PrefixByCell
<1> QED
  BY <1>1, <1>2

\* So they are the same records, the last one perhaps excepted.
LEMMA GrownRecords ==
    ASSUME NEW m, NEW l, IsImage(m), IsImage(l), Grew(m, l)
    PROVE  /\ \A i \in 1..Len(m.words) : i \in SoloRecords(m) <=> i \in SoloRecords(l)
           /\ \A i \in 1..(Len(m.words) - 1) : i \in L2Records(m) <=> i \in L2Records(l)
           /\ Len(m.words) \notin L2Records(m)
           /\ SoloRecords(l) \subseteq 1..Len(l.words) /\ L2Records(l) \subseteq SoloRecords(l)
  BY GrownWords DEF SoloRecords, L2Records, Marked, Valid

LEMMA GrownPlaces ==
    ASSUME NEW m, NEW l, IsImage(m), IsImage(l), Grew(m, l)
    PROVE  /\ Settled(m) \in Nat /\ Settled(m) <= Len(m.words) /\ Len(m.words) <= Settled(m) + 1
           /\ \A i \in 1..Settled(m) : i \in Places(m) <=> i \in Places(l)
<1>1. Settled(m) \in Nat /\ Settled(m) <= Len(m.words) /\ Len(m.words) <= Settled(m) + 1
  BY GrownWords DEF Settled
<1>2. ASSUME NEW i \in 1..Settled(m)
      PROVE  i \in Dropped(m) <=> i \in Dropped(l)
  <2>1. i \in 1..Len(m.words) /\ m.family = l.family /\ i - 1 \in Int
    BY <1>1, GrownWords DEF Grew
  <2>2. CASE m.family = "l2"
    <3>1. Dropped(m) = L2Records(m) \cup {k + 1 : k \in L2Records(m)}
      BY <2>2 DEF Dropped
    <3>2. Dropped(l) = L2Records(l) \cup {k + 1 : k \in L2Records(l)}
      BY <2>1, <2>2 DEF Dropped
    <3>3. i \in 1..(Len(m.words) - 1)
      BY <2>2, GrownWords DEF Settled
    <3>4. L2Records(m) \subseteq 1..Len(m.words) /\ L2Records(l) \subseteq 1..Len(l.words)
      BY GrownWords DEF L2Records, Marked
    <3>5. i \in L2Records(m) <=> i \in L2Records(l)
      BY <3>3, GrownRecords
    <3>6. ASSUME NEW k \in L2Records(m) \cup L2Records(l), i = k + 1
          PROVE  k \in L2Records(m) /\ k \in L2Records(l)
      <4>1. k \in 1..(Len(m.words) - 1)
        BY <3>3, <3>4, <3>6, GrownWords
      <4> QED
        BY <3>6, <4>1, GrownRecords
    <3> QED
      BY <3>1, <3>2, <3>5, <3>6
  <2>3. CASE m.family # "l2"
    <3>1. Dropped(m) = SoloRecords(m) \cup {k + 1 : k \in SoloRecords(m)}
      BY <2>3 DEF Dropped
    <3>2. Dropped(l) = SoloRecords(l) \cup {k + 1 : k \in SoloRecords(l)}
      BY <2>1, <2>3 DEF Dropped
    <3>4. SoloRecords(m) \subseteq 1..Len(m.words) /\ SoloRecords(l) \subseteq 1..Len(l.words)
      BY GrownWords DEF SoloRecords, Marked
    <3>5. i \in SoloRecords(m) <=> i \in SoloRecords(l)
      BY <2>1, GrownRecords
    <3>6. ASSUME NEW k \in SoloRecords(m) \cup SoloRecords(l), i = k + 1
          PROVE  k \in SoloRecords(m) /\ k \in SoloRecords(l)
      <4>1. k \in 1..Len(m.words)
        BY <2>1, <3>4, <3>6, GrownWords
      <4> QED
        BY <3>6, <4>1, GrownRecords
    <3> QED
      BY <3>1, <3>2, <3>5, <3>6
  <2> QED
    BY <2>2, <2>3
<1>3. ASSUME NEW i \in 1..Settled(m)
      PROVE  i \in DOMAIN m.words /\ i \in DOMAIN l.words
  BY <1>1, GrownWords
<1> QED
  BY <1>1, <1>2, <1>3 DEF Places

\* The readings that are sure begin the readings of both, and what follows them lies
\* behind the words that are settled.
SureOf(q, r, n) ==
    /\ r \in Seq(Nat) /\ Len(q) <= Len(r)
    /\ \A i \in 1..Len(q) : r[i] = q[i]
    /\ \A i \in (Len(q) + 1)..Len(r) : r[i] > n

LEMMA SureReadings ==
    ASSUME NEW m, NEW l, IsImage(m), IsImage(l), Grew(m, l)
    PROVE  /\ Sure(m) \in Seq(Nat)
           /\ \A i \in 1..Len(Sure(m)) : Sure(m)[i] \in 1..Settled(m) /\ Sure(m)[i] \in Places(m)
           /\ SureOf(Sure(m), Readings(m), Settled(m))
           /\ SureOf(Sure(m), Readings(l), Settled(m))
           /\ Len(Readings(m)) <= Len(Sure(m)) + (IF m.family = "l2" THEN 1 ELSE 0)
<1> DEFINE n == Settled(m)
           q == InOrder(n, Places(m))
<1>1. /\ n \in Nat /\ n <= Len(m.words) /\ Len(m.words) <= Len(l.words)
      /\ Len(m.words) \in Nat /\ Len(l.words) \in Nat
  BY GrownPlaces, GrownWords
<1>2. \A i \in 1..n : i \in Places(m) <=> i \in Places(l)
  BY GrownPlaces
<1>3. Readings(m) = InOrder(Len(m.words), Places(m)) /\ Readings(l) = InOrder(Len(l.words), Places(l))
  BY DEF Readings, Places, Dropped
<1>4. q = InOrder(n, Places(l))
  <2> HIDE DEF n
  <2> QED
    BY <1>1, <1>2, InOrderSame
<1>5. Lists(q, n, Places(m))
  <2> HIDE DEF n
  <2> QED
    BY <1>1, InOrderLists
<1>6. ASSUME NEW r, NEW k \in Nat, n <= k, NEW S, r = InOrder(k, S), q = InOrder(n, S)
      PROVE  SureOf(q, r, n)
  <2>1. IsPrefix(q, r) /\ \A i \in (Len(q) + 1)..Len(r) : r[i] > n
    <3> HIDE DEF n
    <3> QED
      BY <1>1, <1>6, InOrderGrows
  <2>2. q \in Seq(Nat) /\ r \in Seq(Nat)
    <3> HIDE DEF n
    <3> QED
      BY <1>1, <1>6, InOrderStep
  <2> HIDE DEF q
  <2>3. Len(q) <= Len(r) /\ \A i \in 1..Len(q) : q[i] = r[i]
    BY <2>1, <2>2, PrefixByCell
  <2> QED
    BY <2>1, <2>2, <2>3 DEF SureOf
<1>7. SureOf(q, Readings(m), n)
  <2> HIDE DEF n
  <2> QED
    BY <1>1, <1>3, <1>6
<1>8. SureOf(q, Readings(l), n)
  <2> HIDE DEF n
  <2>1. n <= Len(l.words)
    BY <1>1
  <2> QED
    BY <1>1, <1>3, <1>4, <1>6, <2>1
<1>9. Len(Readings(m)) <= Len(q) + (IF m.family = "l2" THEN 1 ELSE 0)
  <2>1. CASE m.family = "l2" /\ Len(m.words) > 0
    <3>1. n = Len(m.words) - 1 /\ Len(m.words) \in Nat \ {0}
      BY <1>1, <2>1 DEF Settled
    <3> HIDE DEF n
    <3> QED
      BY <1>3, <2>1, <3>1, InOrderLast
  <2>2. CASE ~ (m.family = "l2" /\ Len(m.words) > 0)
    <3>1. n = Len(m.words)
      BY <2>2 DEF Settled
    <3>2. Len(q) \in Nat
      BY <1>5 DEF Lists
    <3> HIDE DEF n
    <3> QED
      BY <1>3, <3>1, <3>2
  <2> QED
    BY <2>1, <2>2
<1> QED
  <2>1. q = Sure(m)
    BY DEF Sure
  <2> HIDE DEF q, n
  <2>2. q \in Seq(Nat) /\ \A i \in 1..Len(q) : q[i] \in 1..n /\ q[i] \in Places(m)
    BY <1>5 DEF Lists
  <2> QED
    BY <1>7, <1>8, <1>9, <2>1, <2>2 DEF n

LEMMA NumbersUpTo ==
    ASSUME NEW n \in Nat
    PROVE  IsFiniteSet(1..n) /\ Cardinality(1..n) = n
<1>1. 1 \in Int /\ n \in Int
  OBVIOUS
<1>2. IsFiniteSet(1..n) /\ Cardinality(1..n) = IF 1 > n THEN 0 ELSE n - 1 + 1
  BY <1>1, FS_Interval
<1> QED
  BY <1>2

-----------------------------------------------------------------------------
(* Events of a grown image.                                                *)

EventPlaces(m) == InOrder(Len(m.words), L2Records(m))
Before(r, x) == {j \in DOMAIN r : r[j] < x}

\* No valid event is found later among those that were there, ...
LEMMA GrownEventPlaces ==
    ASSUME NEW m, NEW l, IsImage(m), IsImage(l), Grew(m, l)
    PROVE  /\ EventPlaces(m) \in Seq(Nat) /\ EventPlaces(l) \in Seq(Nat)
           /\ Len(EventPlaces(m)) <= Len(EventPlaces(l))
           /\ \A e \in 1..Len(EventPlaces(m)) :
                 /\ EventPlaces(l)[e] = EventPlaces(m)[e]
                 /\ EventPlaces(m)[e] \in L2Records(m) /\ EventPlaces(m)[e] \in 1..(Len(m.words) - 1)
           /\ \A e \in (Len(EventPlaces(m)) + 1)..Len(EventPlaces(l)) :
                 EventPlaces(l)[e] \in L2Records(l) /\ EventPlaces(l)[e] >= Len(m.words)
<1> DEFINE n == Len(m.words)
           k == Len(l.words)
           b == IF n = 0 THEN 0 ELSE n - 1
           p == InOrder(n, L2Records(m))
           q == InOrder(k, L2Records(l))
<1>1. /\ n \in Nat /\ k \in Nat /\ b \in Nat /\ b <= k /\ n <= b + 1
      /\ \A i \in 1..b : i \in L2Records(m) <=> i \in L2Records(l)
      /\ n \notin L2Records(m)
  BY GrownWords, GrownRecords
<1>2. p = InOrder(b, L2Records(m))
  <2>1. CASE n = 0
    BY <2>1
  <2>2. CASE n # 0
    <3>1. n \in Nat \ {0} /\ b = n - 1
      BY <1>1, <2>2
    <3> HIDE DEF n, b
    <3> QED
      BY <1>1, <3>1, InOrderLast
  <2> QED
    BY <2>1, <2>2
<1> HIDE DEF n, k, b
<1>3. p = InOrder(b, L2Records(l))
  BY <1>1, <1>2, InOrderSame
<1>4. IsPrefix(p, q) /\ \A i \in (Len(p) + 1)..Len(q) : q[i] > b
  BY <1>1, <1>3, InOrderGrows
<1>5. Lists(p, n, L2Records(m)) /\ Lists(q, k, L2Records(l))
  BY <1>1, InOrderLists
<1>6. p = EventPlaces(m) /\ q = EventPlaces(l)
  BY DEF EventPlaces, n, k
<1> HIDE DEF p, q
<1>7. p \in Seq(Nat) /\ q \in Seq(Nat)
  BY <1>5 DEF Lists
<1>8. Len(p) <= Len(q) /\ \A i \in 1..Len(p) : p[i] = q[i]
  BY <1>4, <1>7, PrefixByCell
<1>9. ASSUME NEW e \in 1..Len(p)
      PROVE  q[e] = p[e] /\ p[e] \in L2Records(m) /\ p[e] \in 1..(n - 1)
  <2>1. q[e] = p[e] /\ p[e] \in L2Records(m) /\ p[e] \in 1..n
    BY <1>5, <1>8 DEF Lists
  <2> QED
    BY <1>1, <2>1
<1>10. ASSUME NEW e \in (Len(p) + 1)..Len(q)
       PROVE  q[e] \in L2Records(l) /\ q[e] >= n
  <2>1. e \in 1..Len(q) /\ q[e] > b
    BY <1>4, <1>7
  <2>2. q[e] \in L2Records(l) /\ q[e] \in 1..k
    BY <1>5, <2>1 DEF Lists
  <2> QED
    BY <1>1, <2>1, <2>2
<1> QED
  BY <1>6, <1>7, <1>8, <1>9, <1>10 DEF n

\* ... each has as many readings before it as it had, and a new one comes after all that
\* are sure.
LEMMA ReadingsBefore ==
    ASSUME NEW m, NEW l, IsImage(m), IsImage(l), Grew(m, l), NEW r, SureOf(Sure(m), r, Settled(m)), NEW x \in Nat
    PROVE  /\ IsFiniteSet(Before(r, x)) /\ Cardinality(Before(r, x)) \in Nat
           /\ x \in 1..(Len(m.words) - 1) => Before(r, x) = Before(Sure(m), x)
           /\ (x \in L2Records(l) /\ x >= Len(m.words)) => Cardinality(Before(r, x)) >= Len(Sure(m))
<1> DEFINE q == Sure(m)
           n == Settled(m)
<1>1. /\ n \in Nat /\ n <= Len(m.words) /\ Len(m.words) <= n + 1 /\ Len(m.words) \in Nat
      /\ q \in Seq(Nat) /\ \A i \in 1..Len(q) : q[i] \in 1..n /\ q[i] \in Places(m)
  BY GrownPlaces, GrownWords, SureReadings
<1>2. /\ r \in Seq(Nat) /\ Len(q) <= Len(r) /\ \A i \in 1..Len(q) : r[i] = q[i]
      /\ \A i \in (Len(q) + 1)..Len(r) : r[i] > n
  BY DEF SureOf
<1> HIDE DEF q, n
<1>3. IsFiniteSet(Before(r, x)) /\ Cardinality(Before(r, x)) \in Nat
  <2>1. Before(r, x) \subseteq 1..Len(r) /\ Len(r) \in Nat
    BY <1>2 DEF Before
  <2>2. IsFiniteSet(1..Len(r))
    BY <2>1, NumbersUpTo
  <2> QED
    BY <2>1, <2>2, FS_Subset, FS_CardinalityType
<1>4. ASSUME x \in 1..(Len(m.words) - 1)
      PROVE  Before(r, x) = Before(q, x)
  <2>0. /\ DOMAIN r = 1..Len(r) /\ DOMAIN q = 1..Len(q) /\ Len(r) \in Nat /\ Len(q) \in Nat
        /\ \A j \in 1..Len(r) : r[j] \in Nat
    BY <1>1, <1>2
  <2>1. ASSUME NEW j \in DOMAIN r, r[j] < x PROVE j \in DOMAIN q
    <3>1. ~ (r[j] > n)
      BY <1>1, <1>4, <2>0, <2>1
    <3>2. j \notin (Len(q) + 1)..Len(r)
      BY <1>2, <3>1
    <3> QED
      BY <2>0, <3>2
  <2>2. DOMAIN q \subseteq DOMAIN r /\ \A j \in DOMAIN q : r[j] = q[j]
    BY <1>2, <2>0
  <2> QED
    BY <2>1, <2>2 DEF Before
<1>5. ASSUME x \in L2Records(l), x >= Len(m.words)
      PROVE  Cardinality(Before(r, x)) >= Len(q)
  <2>1. ASSUME NEW j \in 1..Len(q) PROVE j \in Before(r, x)
    <3>1. q[j] \in 1..n /\ q[j] \in Places(m) /\ r[j] = q[j] /\ j \in DOMAIN r
      BY <1>1, <1>2
    <3>2. CASE q[j] # x
      BY <1>1, <1>5, <3>1, <3>2 DEF Before
    <3>3. CASE q[j] = x
      <4>1. n = Len(m.words) /\ x = Len(m.words) /\ x \in 1..Len(m.words)
        BY <1>1, <1>5, <3>1, <3>3
      <4>2. m.family # "l2"
        BY <4>1 DEF n, Settled
      <4>3. x \in SoloRecords(m)
        BY <1>5, <4>1, GrownRecords
      <4>4. x \in Dropped(m)
        BY <4>2, <4>3 DEF Dropped
      <4> QED
        BY <3>1, <3>3, <4>4 DEF Places
    <3> QED
      BY <3>2, <3>3
  <2>2. 1..Len(q) \subseteq Before(r, x)
    BY <2>1
  <2>3. Len(q) \in Nat /\ Cardinality(1..Len(q)) = Len(q)
    BY <1>1, NumbersUpTo
  <2>4. Cardinality(1..Len(q)) <= Cardinality(Before(r, x))
    BY <1>3, <2>2, FS_Subset
  <2> QED
    BY <1>3, <2>3, <2>4
<1> QED
  BY <1>3, <1>4, <1>5 DEF q

\* The sample sets that are sure.
SureSets(m) == Len(Sure(m)) \div m.nchan

LEMMA EventsAre ==
    ASSUME NEW m, IsImage(m)
    PROVE  /\ Events(m) = [e \in 1..Len(EventPlaces(m)) |->
                 [type |-> m.words[EventPlaces(m)[e]].type, clock |-> m.words[EventPlaces(m)[e]].clock,
                  end |-> EventPlaces(m)[e] + 1,
                  index |-> Cardinality(Before(Readings(m), EventPlaces(m)[e])) \div m.nchan]]
           /\ Len(EventPlaces(m)) \in Nat
<1>1. EventPlaces(m) \in Seq(Nat)
  <2>1. Len(m.words) \in Nat
    BY DEF IsImage
  <2> QED
    BY <2>1, InOrderStep DEF EventPlaces
<1>2. DOMAIN EventPlaces(m) = 1..Len(EventPlaces(m)) /\ Len(EventPlaces(m)) \in Nat
  BY <1>1
<1> QED
  BY <1>2 DEF Events, EventPlaces, Before

LEMMA GrownEvents ==
    ASSUME NEW m, NEW l, IsImage(m), IsImage(l), Grew(m, l)
    PROVE  /\ DOMAIN Events(m) = 1..Len(EventPlaces(m)) /\ DOMAIN Events(l) = 1..Len(EventPlaces(l))
           /\ Len(EventPlaces(m)) \in Nat /\ Len(EventPlaces(l)) \in Nat
           /\ Len(EventPlaces(m)) <= Len(EventPlaces(l))
           /\ \A e \in 1..Len(EventPlaces(m)) :
                 /\ Events(l)[e].type = Events(m)[e].type /\ Events(l)[e].clock = Events(m)[e].clock
                 /\ Events(l)[e].index = Events(m)[e].index
                 /\ Events(m)[e].clock \in Nat /\ Events(m)[e].index \in Nat
           /\ \A e \in (Len(EventPlaces(m)) + 1)..Len(EventPlaces(l)) : Events(l)[e].index >= SureSets(m)
<1> DEFINE p == EventPlaces(m)
           q == EventPlaces(l)
           c == m.nchan
<1>1. /\ p \in Seq(Nat) /\ q \in Seq(Nat) /\ Len(p) <= Len(q)
      /\ \A e \in 1..Len(p) : q[e] = p[e] /\ p[e] \in L2Records(m) /\ p[e] \in 1..(Len(m.words) - 1)
      /\ \A e \in (Len(p) + 1)..Len(q) : q[e] \in L2Records(l) /\ q[e] >= Len(m.words)
  BY GrownEventPlaces
<1>2. /\ Len(p) \in Nat /\ Len(q) \in Nat /\ c \in Nat \ {0} /\ c = l.nchan
      /\ Events(m) = [e \in 1..Len(p) |->
            [type |-> m.words[p[e]].type, clock |-> m.words[p[e]].clock, end |-> p[e] + 1,
             index |-> Cardinality(Before(Readings(m), p[e])) \div c]]
      /\ Events(l) = [e \in 1..Len(q) |->
            [type |-> l.words[q[e]].type, clock |-> l.words[q[e]].clock, end |-> q[e] + 1,
             index |-> Cardinality(Before(Readings(l), q[e])) \div c]]
  BY EventsAre DEF IsImage, Grew
<1> HIDE DEF p, q, c
<1>3. SureOf(Sure(m), Readings(m), Settled(m)) /\ SureOf(Sure(m), Readings(l), Settled(m))
      /\ Len(Sure(m)) \in Nat
  BY SureReadings
<1>4. ASSUME NEW e \in 1..Len(p)
      PROVE  /\ Events(l)[e].type = Events(m)[e].type /\ Events(l)[e].clock = Events(m)[e].clock
             /\ Events(l)[e].index = Events(m)[e].index
             /\ Events(m)[e].clock \in Nat /\ Events(m)[e].index \in Nat
  <2>1. e \in 1..Len(q) /\ q[e] = p[e] /\ p[e] \in 1..(Len(m.words) - 1) /\ p[e] \in Nat
    <3>1. Len(p) \in Nat /\ Len(q) \in Nat /\ Len(p) <= Len(q)
      BY <1>1, <1>2
    <3>2. q[e] = p[e] /\ p[e] \in 1..(Len(m.words) - 1)
      BY <1>1
    <3> QED
      BY <3>1, <3>2
  <2>2. l.words[p[e]] = m.words[p[e]] /\ p[e] \in 1..Len(m.words)
    BY <2>1, GrownWords
  <2>3. m.words[p[e]] \in Word
    BY <2>2 DEF IsImage
  <2>4. m.words[p[e]].clock \in Nat
    BY <2>3 DEF Word
  <2>5. /\ Before(Readings(m), p[e]) = Before(Readings(l), p[e])
        /\ Cardinality(Before(Readings(m), p[e])) \in Nat
    <3>1. Before(Readings(m), p[e]) = Before(Sure(m), p[e]) /\ Cardinality(Before(Readings(m), p[e])) \in Nat
      BY <1>3, <2>1, ReadingsBefore
    <3>2. Before(Readings(l), p[e]) = Before(Sure(m), p[e])
      BY <1>3, <2>1, ReadingsBefore
    <3> QED
      BY <3>1, <3>2
  <2>6. Cardinality(Before(Readings(m), p[e])) \div c \in Nat
    BY <1>2, <2>5, Division
  <2>7. Events(m)[e] = [type |-> m.words[p[e]].type, clock |-> m.words[p[e]].clock, end |-> p[e] + 1,
                        index |-> Cardinality(Before(Readings(m), p[e])) \div c]
    BY <1>2
  <2>8. Events(l)[e] = [type |-> m.words[p[e]].type, clock |-> m.words[p[e]].clock, end |-> p[e] + 1,
                        index |-> Cardinality(Before(Readings(m), p[e])) \div c]
    <3>1. Events(l)[e] = [type |-> l.words[q[e]].type, clock |-> l.words[q[e]].clock, end |-> q[e] + 1,
                          index |-> Cardinality(Before(Readings(l), q[e])) \div c]
      BY <1>2, <2>1
    <3>2. q[e] = p[e] /\ l.words[p[e]] = m.words[p[e]] /\ Before(Readings(m), p[e]) = Before(Readings(l), p[e])
      BY <2>1, <2>2, <2>5
    <3> QED
      BY <3>1, <3>2, Zenon
  <2> QED
    BY <2>4, <2>6, <2>7, <2>8
<1>5. ASSUME NEW e \in (Len(p) + 1)..Len(q)
      PROVE  Events(l)[e].index >= SureSets(m)
  <2>1. e \in 1..Len(q) /\ q[e] \in L2Records(l) /\ q[e] >= Len(m.words) /\ q[e] \in Nat
    BY <1>1, <1>2
  <2>2. Cardinality(Before(Readings(l), q[e])) \in Nat /\ Len(Sure(m)) <= Cardinality(Before(Readings(l), q[e]))
    BY <1>3, <2>1, ReadingsBefore
  <2>3. Len(Sure(m)) \div c <= Cardinality(Before(Readings(l), q[e])) \div c
    BY <1>2, <1>3, <2>2, DivisionKeepsOrder
  <2>4. Len(Sure(m)) \div c \in Nat /\ Cardinality(Before(Readings(l), q[e])) \div c \in Nat
    BY <1>2, <1>3, <2>2, Division
  <2>5. Events(l)[e].index = Cardinality(Before(Readings(l), q[e])) \div c
    BY <1>2, <2>1
  <2> QED
    BY <2>3, <2>4, <2>5 DEF SureSets, c
<1> QED
  BY <1>1, <1>2, <1>4, <1>5 DEF p, q

-----------------------------------------------------------------------------
(* Sample times of a grown image.                                          *)

SetsIn(m) == Len(Readings(m)) \div m.nchan
ClockOf(m, k) == IF m.family = "gen3" THEN m.words[Readings(m)[(k - 1) * m.nchan + 1]].clock
                 ELSE AnchoredTime(m, Events(m), k).clock

LEMMA ReadingsIn ==
    ASSUME NEW m, IsImage(m)
    PROVE  /\ Readings(m) \in Seq(Nat) /\ Len(Readings(m)) \in Nat /\ SetsIn(m) \in Nat
           /\ \A i \in 1..Len(Readings(m)) : Readings(m)[i] \in 1..Len(m.words)
<1>1. Len(m.words) \in Nat
  BY DEF IsImage
<1>2. Readings(m) = InOrder(Len(m.words), Places(m))
  BY DEF Readings, Places, Dropped
<1>3. Lists(Readings(m), Len(m.words), Places(m))
  BY <1>1, <1>2, InOrderLists
<1>4. Readings(m) \in Seq(Nat) /\ Len(Readings(m)) \in Nat
  BY <1>3 DEF Lists
<1>5. SetsIn(m) \in Nat
  BY <1>4, Division DEF SetsIn, IsImage
<1> QED
  BY <1>3, <1>4, <1>5 DEF Lists

LEMMA DecodedTimes ==
    ASSUME NEW m, IsImage(m)
    PROVE  Decoded(m).time = [k \in 1..SetsIn(m) |-> ClockOf(m, k)]
<1> DEFINE N == SetsIn(m)
<1>1. N \in Nat
  BY ReadingsIn
<1>2. SetStarts(m) = [k \in 1..N |-> Readings(m)[(k - 1) * m.nchan + 1]]
  BY DEF SetStarts, SetsIn
<1>3. SetEnds(m) = [k \in 1..N |-> Readings(m)[k * m.nchan]]
  BY DEF SetEnds, SetsIn
<1> HIDE DEF N
<1>4. Len(SetEnds(m)) = N
  BY <1>1, <1>3
<1>5. DOMAIN SetStarts(m) = 1..N
  BY <1>2
<1>6. CASE m.family = "gen3"
  <2>1. Decoded(m).time = [k \in DOMAIN SetStarts(m) |-> m.words[SetStarts(m)[k]].clock]
    BY <1>6 DEF Decoded, decode_easyparse
  <2> QED
    BY <1>2, <1>5, <1>6, <2>1 DEF ClockOf, N
<1>7. CASE m.family # "gen3"
  <2>1. Decoded(m).time = [k \in 1..N |-> [j \in 1..N |-> AnchoredTime(m, Events(m), j)][k].clock]
    BY <1>4, <1>7 DEF Decoded, DecodeWords
  <2> QED
    BY <1>7, <2>1 DEF ClockOf, N
<1> QED
  BY <1>6, <1>7

LEMMA MaxOf ==
    ASSUME NEW n \in Nat, NEW S, S \subseteq 1..n, S # {}
    PROVE  Max(S) \in S /\ \A i \in S : i <= Max(S)
<1>1. S \subseteq 0..n
  OBVIOUS
<1>2. PICK k \in S : \A i \in S : i <= k
  BY <1>1, GreatestExists
<1>3. Max(S) = k
  BY <1>1, <1>2, GreatestIs
<1> QED
  BY <1>2, <1>3

\* The events that set the clock for set k, of which the last one counts.
Anchors(events, k) == {e \in DOMAIN events : events[e].type \in ANCHOR_EVENTS /\ events[e].index < k}

LEMMA GrownClock ==
    ASSUME NEW m, NEW l, IsImage(m), IsImage(l), Grew(m, l), NEW k \in 1..SureSets(m), SureSets(m) \in Nat
    PROVE  AnchoredTime(l, Events(l), k).clock = AnchoredTime(m, Events(m), k).clock
<1> DEFINE E == Events(m)
           F == Events(l)
           n == Len(EventPlaces(m))
           a == SetOrNone(Anchors(E, k))
<1>1. /\ DOMAIN E = 1..n /\ DOMAIN F = 1..Len(EventPlaces(l)) /\ n \in Nat
      /\ Len(EventPlaces(l)) \in Nat /\ n <= Len(EventPlaces(l))
      /\ \A e \in 1..n : /\ F[e].type = E[e].type /\ F[e].clock = E[e].clock
                         /\ F[e].index = E[e].index /\ E[e].clock \in Nat /\ E[e].index \in Nat
      /\ \A e \in (n + 1)..Len(EventPlaces(l)) : F[e].index >= SureSets(m)
  BY GrownEvents
<1>2. m.enabled = l.enabled
  BY DEF Grew
<1> HIDE DEF E, F, n
<1>3. Anchors(F, k) = Anchors(E, k)
  <2>1. ASSUME NEW e \in Anchors(F, k) PROVE e \in 1..n
    <3>1. e \in 1..Len(EventPlaces(l)) /\ F[e].index < k
      BY <1>1, <2>1 DEF Anchors
    <3>2. CASE e \in (n + 1)..Len(EventPlaces(l))
      <4>1. k \in Int /\ k <= SureSets(m) /\ F[e].index >= SureSets(m)
        BY <1>1, <3>2
      <4>2. F[e].index \in Int
        <5>1. IsImage(l) /\ Grew(l, l)
          <6>1. IsPrefix(l.words, l.words)
            BY PrefixReflexive DEF IsImage
          <6> QED
            BY <6>1 DEF Grew
        <5> QED
          BY <3>1, <5>1, GrownEvents DEF F
      <4> QED
        BY <3>1, <4>1, <4>2
    <3> QED
      BY <1>1, <3>1, <3>2
  <2>2. ASSUME NEW e \in 1..n PROVE e \in Anchors(F, k) <=> e \in Anchors(E, k)
    <3>1. e \in 1..Len(EventPlaces(l))
      BY <1>1
    <3> QED
      BY <1>1, <3>1 DEF Anchors
  <2>3. Anchors(E, k) \subseteq 1..n
    BY <1>1 DEF Anchors
  <2> QED
    BY <2>1, <2>2, <2>3
<1>4. AnchoredTime(m, E, k).clock = IF a = 0 THEN m.enabled + k - 1 ELSE E[a].clock + k - 1 - E[a].index
  BY DEF AnchoredTime, Anchors
<1>5. AnchoredTime(l, F, k).clock =
         LET b == SetOrNone(Anchors(F, k))
         IN  IF b = 0 THEN l.enabled + k - 1 ELSE F[b].clock + k - 1 - F[b].index
  BY DEF AnchoredTime, Anchors
<1>6. a # 0 => a \in 1..n
  <2>1. CASE Anchors(E, k) = {}
    BY <2>1 DEF SetOrNone
  <2>2. CASE Anchors(E, k) # {}
    <3>1. Anchors(E, k) \subseteq 1..n
      BY <1>1 DEF Anchors
    <3>2. Max(Anchors(E, k)) \in Anchors(E, k)
      BY <1>1, <2>2, <3>1, MaxOf
    <3> QED
      BY <2>2, <3>1, <3>2 DEF SetOrNone
  <2> QED
    BY <2>1, <2>2
<1> HIDE DEF a
<1>7. AnchoredTime(l, F, k).clock = IF a = 0 THEN l.enabled + k - 1 ELSE F[a].clock + k - 1 - F[a].index
  BY <1>3, <1>5 DEF a
<1>8. a # 0 => F[a].clock = E[a].clock /\ F[a].index = E[a].index
  BY <1>1, <1>6
<1> QED
  BY <1>2, <1>4, <1>7, <1>8 DEF E, F

LEMMA GrewItself ==
    ASSUME NEW m, IsImage(m)
    PROVE  Grew(m, m)
<1>1. IsPrefix(m.words, m.words)
  BY PrefixReflexive DEF IsImage
<1> QED
  BY <1>1 DEF Grew

LEMMA SetFirst ==
    ASSUME NEW c \in Nat \ {0}, NEW n \in Nat, NEW N \in Nat, N * c <= n, NEW k \in 1..N
    PROVE  (k - 1) * c + 1 \in 1..n
<1>1. k \in Nat /\ k <= N /\ k - 1 \in Nat /\ c \in Nat
  OBVIOUS
<1>2. k * c <= N * c
  BY <1>1, TimesKeepsOrder
<1>3. (k - 1) * c + c = k * c
  BY <1>1
<1>4. (k - 1) * c \in Nat /\ k * c \in Nat /\ N * c \in Nat
  BY <1>1
<1> QED
  BY <1>2, <1>3, <1>4

LEMMA DecodedInOrder ==
    ASSUME NEW m, IsImage(m)
    PROVE  Decoded(m).time \in Seq(Int) /\ Len(Decoded(m).time) = SetsIn(m)
<1>1. SetsIn(m) \in Nat /\ Len(Readings(m)) \in Nat /\ m.nchan \in Nat \ {0}
  BY ReadingsIn DEF IsImage
<1>2. ASSUME NEW k \in 1..SetsIn(m) PROVE ClockOf(m, k) \in Int
  <2>1. CASE m.family = "gen3"
    <3>1. SetsIn(m) * m.nchan <= Len(Readings(m))
      BY <1>1, Division DEF SetsIn
    <3>2. (k - 1) * m.nchan + 1 \in 1..Len(Readings(m))
      BY <1>1, <3>1, SetFirst
    <3> DEFINE i == Readings(m)[(k - 1) * m.nchan + 1]
    <3>3. i \in 1..Len(m.words)
      BY <3>2, ReadingsIn
    <3> HIDE DEF i
    <3>4. m.words[i] \in Word
      BY <3>3 DEF IsImage
    <3>5. m.words[i].clock \in Int
      BY <3>4 DEF Word
    <3> QED
      BY <2>1, <3>5 DEF ClockOf, i
  <2>2. CASE m.family # "gen3"
    <3> DEFINE E == Events(m)
               n == Len(EventPlaces(m))
               a == SetOrNone(Anchors(E, k))
    <3>1. /\ DOMAIN E = 1..n /\ n \in Nat
          /\ \A e \in 1..n : E[e].clock \in Nat /\ E[e].index \in Nat
      BY GrewItself, GrownEvents
    <3> HIDE DEF E, n
    <3>2. AnchoredTime(m, E, k).clock = IF a = 0 THEN m.enabled + k - 1 ELSE E[a].clock + k - 1 - E[a].index
      BY DEF AnchoredTime, Anchors
    <3>3. a # 0 => a \in 1..n
      <4>1. CASE Anchors(E, k) = {}
        BY <4>1 DEF SetOrNone
      <4>2. CASE Anchors(E, k) # {}
        <5>1. Anchors(E, k) \subseteq 1..n
          BY <3>1 DEF Anchors
        <5>2. Max(Anchors(E, k)) \in Anchors(E, k)
          BY <3>1, <4>2, <5>1, MaxOf
        <5> QED
          BY <4>2, <5>1, <5>2 DEF SetOrNone
      <4> QED
        BY <4>1, <4>2
    <3> HIDE DEF a
    <3>4. m.enabled \in Nat
      BY DEF IsImage
    <3>5. AnchoredTime(m, E, k).clock \in Int
      BY <3>1, <3>2, <3>3, <3>4
    <3> QED
      BY <2>2, <3>5 DEF ClockOf, E
  <2> QED
    BY <2>1, <2>2
<1>3. Decoded(m).time = [k \in 1..SetsIn(m) |-> ClockOf(m, k)]
  BY DecodedTimes
<1> QED
  BY <1>1, <1>2, <1>3

LEMMA GrownTimes ==
    ASSUME NEW m, NEW l, IsImage(m), IsImage(l), Grew(m, l)
    PROVE  /\ SureSets(m) \in Nat /\ SureSets(m) <= SetsIn(m) /\ SureSets(m) <= SetsIn(l)
           /\ SetsIn(m) <= SureSets(m) + (IF m.family = "l2" THEN 1 ELSE 0)
           /\ \A k \in 1..SureSets(m) : ClockOf(l, k) = ClockOf(m, k)
<1> DEFINE q == Sure(m)
           r == Readings(m)
           s == Readings(l)
           c == m.nchan
<1>1. /\ q \in Seq(Nat) /\ Len(q) \in Nat /\ Len(r) \in Nat /\ Len(s) \in Nat
      /\ Len(q) <= Len(r) /\ Len(q) <= Len(s) /\ Len(r) <= Len(q) + (IF m.family = "l2" THEN 1 ELSE 0)
      /\ \A i \in 1..Len(q) : r[i] = q[i] /\ s[i] = q[i]
  BY SureReadings DEF SureOf
<1>2. c \in Nat \ {0} /\ l.nchan = c /\ m.family = l.family
  BY DEF IsImage, Grew
<1>3. SureSets(m) = Len(q) \div c /\ SetsIn(m) = Len(r) \div c /\ SetsIn(l) = Len(s) \div c
  BY <1>2 DEF SureSets, SetsIn
<1>a. \A i \in 1..Len(r) : r[i] \in 1..Len(m.words)
  BY ReadingsIn
<1> HIDE DEF q, r, s, c
<1>4. SureSets(m) \in Nat /\ SureSets(m) <= SetsIn(m) /\ SureSets(m) <= SetsIn(l) /\ SetsIn(m) \in Nat
  BY <1>1, <1>2, <1>3, Division, DivisionKeepsOrder
<1>5. SetsIn(m) <= SureSets(m) + (IF m.family = "l2" THEN 1 ELSE 0)
  <2>1. CASE Len(r) = Len(q)
    BY <1>3, <1>4, <2>1
  <2>2. CASE Len(r) = Len(q) + 1 /\ m.family = "l2"
    <3>1. Len(r) # 0 /\ Len(r) - 1 = Len(q)
      BY <1>1, <2>2
    <3>2. (Len(r) \div c) - 1 <= (Len(r) - 1) \div c
      BY <1>1, <1>2, <3>1, DivisionOfOneLess
    <3>3. SetsIn(m) - 1 <= SureSets(m)
      BY <1>3, <3>1, <3>2
    <3> QED
      BY <1>4, <2>2, <3>3
  <2> QED
    BY <1>1, <2>1, <2>2
<1>6. ASSUME NEW k \in 1..SureSets(m) PROVE ClockOf(l, k) = ClockOf(m, k)
  <2>1. CASE m.family = "gen3"
    <3>1. SureSets(m) * c <= Len(q)
      BY <1>1, <1>2, <1>3, Division
    <3> DEFINE i == (k - 1) * c + 1
    <3>2. i \in 1..Len(q)
      BY <1>1, <1>2, <1>4, <3>1, SetFirst
    <3>3. ClockOf(m, k) = m.words[r[i]].clock /\ ClockOf(l, k) = l.words[s[i]].clock
      BY <1>2, <2>1 DEF ClockOf, c, r, s
    <3> HIDE DEF i
    <3>4. r[i] = s[i] /\ r[i] \in 1..Len(m.words)
      BY <1>1, <1>a, <3>2
    <3>5. l.words[r[i]] = m.words[r[i]]
      BY <3>4, GrownWords
    <3> QED
      BY <3>3, <3>4, <3>5
  <2>2. CASE m.family # "gen3"
    BY <1>2, <1>4, <2>2, GrownClock DEF ClockOf
  <2> QED
    BY <2>1, <2>2
<1> QED
  BY <1>4, <1>5, <1>6

\* What a grown image is decoded to keeps every time, but perhaps the last one of L2.
LEMMA GrownDecoded ==
    ASSUME NEW m, NEW l, IsImage(m), IsImage(l), Grew(m, l)
    PROVE  IsPrefix(IF m.family = "l2" THEN SubSeq(Decoded(m).time, 1, Len(Decoded(m).time) - 1)
                    ELSE Decoded(m).time, Decoded(l).time)
<1> DEFINE t == Decoded(m).time
           u == Decoded(l).time
<1>1. t \in Seq(Int) /\ u \in Seq(Int) /\ Len(t) = SetsIn(m) /\ Len(u) = SetsIn(l)
  BY DecodedInOrder
<1>2. t = [k \in 1..SetsIn(m) |-> ClockOf(m, k)] /\ u = [k \in 1..SetsIn(l) |-> ClockOf(l, k)]
  BY DecodedTimes
<1> HIDE DEF t, u
<1>3. /\ SureSets(m) \in Nat /\ SureSets(m) <= SetsIn(m) /\ SureSets(m) <= SetsIn(l)
      /\ SetsIn(m) <= SureSets(m) + (IF m.family = "l2" THEN 1 ELSE 0)
      /\ \A k \in 1..SureSets(m) : ClockOf(l, k) = ClockOf(m, k)
  BY GrownTimes
<1>4. SetsIn(m) \in Nat /\ SetsIn(l) \in Nat
  BY ReadingsIn
<1>5. \A k \in 1..SureSets(m) : t[k] = u[k]
  BY <1>2, <1>3, <1>4
<1>6. CASE m.family # "l2"
  <2>1. Len(t) <= Len(u) /\ \A k \in 1..Len(t) : t[k] = u[k]
    BY <1>1, <1>3, <1>4, <1>5, <1>6
  <2>2. IsPrefix(t, u)
    BY <1>1, <2>1, PrefixByCell
  <2> QED
    BY <1>6, <2>2 DEF t, u
<1>7. CASE m.family = "l2"
  <2> DEFINE v == SubSeq(t, 1, Len(t) - 1)
  <2>1. /\ v \in Seq(Int) /\ Len(v) = IF Len(t) = 0 THEN 0 ELSE Len(t) - 1
        /\ \A k \in 1..Len(v) : v[k] = t[k]
    BY <1>1, <1>4
  <2> HIDE DEF v
  <2>2. Len(v) <= SureSets(m)
    BY <1>1, <1>3, <1>4, <1>7, <2>1
  <2>3. Len(v) <= Len(u) /\ \A k \in 1..Len(v) : v[k] = u[k]
    BY <1>1, <1>3, <1>4, <1>5, <2>1, <2>2
  <2>4. IsPrefix(v, u)
    BY <1>1, <2>1, <2>3, PrefixByCell
  <2> QED
    BY <1>7, <2>4 DEF t, u, v
<1> QED
  BY <1>6, <1>7

-----------------------------------------------------------------------------
(* Re-timing: what resolve_times returns, whatever events it is told of.   *)

Times(n, most) == [time : [1..n -> Int], kept : SUBSET (1..n), by : [1..n -> 0..most]]

\* No sample has been dropped that was re-timed, and none after the first e was touched.
UpTo(acc, n, e) ==
    /\ \A i \in 1..n : acc.by[i] # 0 => i \in acc.kept
    /\ \A i \in 1..n : i > e => acc.by[i] = 0 /\ i \in acc.kept

LEMMA Retimed ==
    ASSUME NEW n \in Nat, NEW most \in Nat, NEW views,
           DOMAIN views = 1..most, \A k \in 1..most : views[k].skew \in Int,
           NEW d, NEW starts, NEW acc \in Times(n, most), NEW i0 \in Nat, NEW i1 \in Nat
    PROVE  /\ Retime(d, views, starts, acc, i0, i1) \in Times(n, most)
           /\ (UpTo(acc, n, i0) /\ i0 <= i1) => UpTo(Retime(d, views, starts, acc, i0, i1), n, i1)
<1> DEFINE fix == d.reset \cap ((i0 + 1)..i1)
           usable == {k \in Candidates(views, starts, i0) :
                         views[k].measured /\ Consistent(acc.time, acc.kept, fix, views[k])}
           k == Max(usable)
           r == Retime(d, views, starts, acc, i0, i1)
<1>1. r = IF fix = {} THEN acc
          ELSE IF usable = {} THEN [acc EXCEPT !.kept = @ \ fix]
          ELSE [time |-> [i \in DOMAIN acc.time |->
                              IF i \in fix THEN acc.time[i] - views[k].skew ELSE acc.time[i]],
                kept |-> acc.kept,
                by |-> [i \in DOMAIN acc.by |-> IF i \in fix THEN k ELSE acc.by[i]]]
  BY DEF Retime
<1>2. usable \subseteq 1..most
  BY DEF Candidates
<1>3. fix \subseteq (i0 + 1)..i1
  OBVIOUS
<1> HIDE DEF fix, usable, r
<1>4. acc.time \in [1..n -> Int] /\ acc.kept \subseteq 1..n /\ acc.by \in [1..n -> 0..most]
  BY DEF Times
<1>5. usable # {} => k \in 1..most
  BY <1>2, MaxOf
<1> HIDE DEF k
<1>6. CASE fix = {}
  BY <1>1, <1>3, <1>4, <1>6 DEF UpTo, r
<1>7. CASE fix # {} /\ usable = {}
  <2>1. r = [acc EXCEPT !.kept = @ \ fix]
    BY <1>1, <1>7
  <2>2. r.time = acc.time /\ r.by = acc.by /\ r.kept = acc.kept \ fix /\ r \in Times(n, most)
    BY <2>1 DEF Times
  <2>3. ASSUME UpTo(acc, n, i0), i0 <= i1 PROVE UpTo(r, n, i1)
    <3>1. ASSUME NEW i \in 1..n, r.by[i] # 0 PROVE i \in r.kept
      BY <1>3, <2>2, <2>3, <3>1 DEF UpTo
    <3>2. ASSUME NEW i \in 1..n, i > i1 PROVE r.by[i] = 0 /\ i \in r.kept
      BY <1>3, <2>2, <2>3, <3>2 DEF UpTo
    <3> QED
      BY <3>1, <3>2 DEF UpTo
  <2> QED
    BY <2>2, <2>3 DEF r
<1>8. CASE fix # {} /\ usable # {}
  <2>1. r = [time |-> [i \in 1..n |->
                          IF i \in fix THEN acc.time[i] - views[k].skew ELSE acc.time[i]],
             kept |-> acc.kept,
             by |-> [i \in 1..n |-> IF i \in fix THEN k ELSE acc.by[i]]]
    BY <1>1, <1>4, <1>8
  <2>2. k \in 1..most /\ views[k].skew \in Int
    BY <1>5, <1>8
  <2>3. [i \in 1..n |-> IF i \in fix THEN acc.time[i] - views[k].skew ELSE acc.time[i]] \in [1..n -> Int]
    BY <1>4, <2>2
  <2>4. [i \in 1..n |-> IF i \in fix THEN k ELSE acc.by[i]] \in [1..n -> 0..most]
    BY <1>4, <2>2
  <2>5. r \in Times(n, most)
    BY <1>4, <2>1, <2>3, <2>4 DEF Times
  <2>6. r.kept = acc.kept /\ \A i \in 1..n : r.by[i] = IF i \in fix THEN k ELSE acc.by[i]
    BY <2>1
  <2>7. ASSUME UpTo(acc, n, i0), i0 <= i1 PROVE UpTo(r, n, i1)
    <3>1. ASSUME NEW i \in 1..n, r.by[i] # 0 PROVE i \in r.kept
      BY <1>3, <2>6, <2>7, <3>1 DEF UpTo
    <3>2. ASSUME NEW i \in 1..n, i > i1 PROVE r.by[i] = 0 /\ i \in r.kept
      BY <1>3, <2>6, <2>7, <3>2 DEF UpTo
    <3> QED
      BY <3>1, <3>2 DEF UpTo
  <2> QED
    BY <2>5, <2>7 DEF r
<1> QED
  BY <1>6, <1>7, <1>8

(* The passes, one for each run: where they begin and end, and what each makes of the  *)
(* one before.                                                                         *)

StartsOf(d, recs) == Bounds(Starts(d), offload_views(d, recs), Len(d.time))
EdgesOf(d, recs) == <<0>> \o InOrder(Len(d.time), {s.at : s \in StartsOf(d, recs)})
Passes(d, recs) == Len(EdgesOf(d, recs))
Edge(d, recs, s) == IF s = Passes(d, recs) + 1 THEN Len(d.time) ELSE EdgesOf(d, recs)[s]

\* They begin where a run of the clock does, the first one at the first sample, ...
EdgeFits(d, recs, s) ==
    LET i == Edge(d, recs, s)
        j == Edge(d, recs, s + 1)
    IN  /\ i \in 0..Len(d.time) /\ j \in 0..Len(d.time) /\ i <= j
        /\ i = 0 \/ \E t \in StartsOf(d, recs) : t.at = i
        /\ \A t \in StartsOf(d, recs) : ~ (i < t.at /\ t.at < j)
EdgesFit(d, recs) ==
    /\ Passes(d, recs) \in Nat \ {0}
    /\ Edge(d, recs, 1) = 0 /\ Edge(d, recs, Passes(d, recs) + 1) = Len(d.time)
    /\ \A s \in 1..Passes(d, recs) : EdgeFits(d, recs, s)

LEMMA StartsFit ==
    ASSUME NEW d, Len(d.time) \in Nat, NEW recs
    PROVE  \A s \in StartsOf(d, recs) : s.at \in 1..Len(d.time)
<1> DEFINE n == Len(d.time)
           views == offload_views(d, recs)
<1>1. \A i \in clock_runs(d.time) : i \in 1..n
  BY DEF clock_runs
<1> HIDE DEF views, n
<1>2. ASSUME NEW s \in Starts(d) PROVE s.at \in 1..n
  <2> DEFINE restarts(i) == {e \in DOMAIN d.events : d.events[e].type \in d.restarts /\ d.events[e].index = i}
  <2>1. PICK i \in clock_runs(d.time) \cup {j \in 1..n : restarts(j) # {}} :
           s = [at |-> i, event |-> IF restarts(i) = {} THEN 0 ELSE Min(restarts(i))]
    BY DEF Starts, n
  <2> HIDE DEF restarts
  <2> QED
    BY <1>1, <2>1
<1>3. \A s \in Bounds(Starts(d), views, n) : s \in Starts(d) \/ \E k \in DOMAIN views : views[k].samples \in 1..n /\ s.at = views[k].samples
  BY DEF Bounds
<1> QED
  BY <1>2, <1>3 DEF StartsOf, views, n

LEMMA EdgesAre ==
    ASSUME NEW d, d.time \in Seq(Int), NEW recs
    PROVE  EdgesFit(d, recs)
<1> DEFINE n == Len(d.time)
           starts == StartsOf(d, recs)
           S == {s.at : s \in starts}
           q == InOrder(n, S)
           b == EdgesOf(d, recs)
           N == Passes(d, recs)
<1>1. n \in Nat
  OBVIOUS
<1>2. \A t \in starts : t.at \in S /\ t.at \in 1..n
  BY <1>1, StartsFit
<1>3. \A x \in S : x \in 1..n /\ \E t \in starts : t.at = x
  BY <1>2
<1>4. Lists(q, n, S)
  <2> HIDE DEF n, S
  <2> QED
    BY <1>1, InOrderLists
<1>5. b = <<0>> \o q /\ N = Len(b)
  BY DEF EdgesOf, Passes
<1> HIDE DEF n, q, b, N, S, starts
<1>6. /\ q \in Seq(Nat) /\ Len(q) \in Nat /\ \A i \in 1..Len(q) : q[i] \in S /\ q[i] \in 1..n
      /\ \A i, j \in 1..Len(q) : i < j => q[i] < q[j]
      /\ \A x \in 1..n : x \in S => \E i \in 1..Len(q) : q[i] = x
  BY <1>4 DEF Lists
<1>7. N = Len(q) + 1 /\ b[1] = 0 /\ \A s \in 1..Len(q) : b[s + 1] = q[s]
  BY <1>5, <1>6
<1> DEFINE e(s) == IF s = N + 1 THEN n ELSE b[s]
<1>8. e(1) = 0 /\ e(N + 1) = n /\ N \in Nat \ {0}
  BY <1>6, <1>7
<1>9. ASSUME NEW s \in 1..(N + 1)
      PROVE  s = 1 \/ s = N + 1 \/ (s - 1 \in 1..Len(q) /\ e(s) = q[s - 1])
  <2>1. s # 1 /\ s # N + 1 => s - 1 \in 1..Len(q) /\ (s - 1) + 1 = s
    BY <1>6, <1>7
  <2>2. s # N + 1 => e(s) = b[s]
    OBVIOUS
  <2> QED
    BY <1>7, <2>1, <2>2
<1> HIDE DEF e
<1>10. ASSUME NEW s \in 1..(N + 1) PROVE e(s) \in 0..n /\ (s \in 1..N => e(s) = 0 \/ e(s) \in S)
  <2>1. s - 1 \in 1..Len(q) => q[s - 1] \in S /\ q[s - 1] \in 1..n
    BY <1>6
  <2>2. s \in 1..N => s # N + 1
    BY <1>6, <1>7
  <2> QED
    BY <1>1, <1>8, <1>9, <2>1, <2>2
<1>11. ASSUME NEW s \in 1..N
       PROVE  /\ e(s) <= e(s + 1)
              /\ \A x \in S : ~ (e(s) < x /\ x < e(s + 1))
  <2>1. s \in 1..(N + 1) /\ s + 1 \in 1..(N + 1) /\ (s + 1) - 1 = s /\ s # N + 1 /\ s + 1 # 1 /\ s \in Nat
    BY <1>6, <1>7
  <2>2. e(s) \in 0..n /\ e(s + 1) \in 0..n
    BY <1>10, <2>1
  <2>3. s + 1 # N + 1 => s \in 1..Len(q) /\ e(s + 1) = q[s]
    BY <1>9, <2>1
  <2>4. s # 1 => s - 1 \in 1..Len(q) /\ e(s) = q[s - 1]
    BY <1>9, <2>1
  <2>5. e(s) <= e(s + 1)
    <3>1. CASE s = 1 \/ s + 1 = N + 1
      BY <1>1, <1>8, <2>2, <3>1
    <3>2. CASE s # 1 /\ s + 1 # N + 1
      <4>1. s - 1 < s
        BY <2>1
      <4>2. q[s - 1] < q[s]
        BY <1>6, <2>3, <2>4, <3>2, <4>1
      <4> QED
        BY <2>2, <2>3, <2>4, <3>2, <4>2
    <3> QED
      BY <3>1, <3>2
  <2>6. ASSUME NEW x \in S, e(s) < x, x < e(s + 1) PROVE FALSE
    <3>1. x \in 1..n
      BY <1>3
    <3>2. PICK i \in 1..Len(q) : q[i] = x
      BY <1>6, <3>1
    <3>3. i >= s
      <4>1. s # 1 => ~ (i <= s - 1)
        <5>1. s # 1 /\ i < s - 1 => q[i] < q[s - 1]
          BY <1>6, <2>4
        <5>2. s # 1 /\ i = s - 1 => q[i] = q[s - 1]
          OBVIOUS
        <5> QED
          BY <2>1, <2>2, <2>4, <2>6, <3>1, <3>2, <5>1, <5>2
      <4> QED
        BY <2>1, <4>1
    <3>4. s + 1 # N + 1 => ~ (i >= s)
      <4>1. s + 1 # N + 1 /\ s < i => q[s] < q[i]
        BY <1>6, <2>3
      <4>2. s + 1 # N + 1 /\ s = i => q[s] = q[i]
        OBVIOUS
      <4> QED
        BY <2>1, <2>2, <2>3, <2>6, <3>1, <3>2, <4>1, <4>2
    <3>5. s + 1 = N + 1 => i < s
      BY <1>6, <1>7
    <3> QED
      BY <2>1, <3>3, <3>4, <3>5
  <2> QED
    BY <2>5, <2>6
<1>12. ASSUME NEW s \in 1..N PROVE EdgeFits(d, recs, s)
  <2>1. s \in 1..(N + 1) /\ s + 1 \in 1..(N + 1)
    BY <1>6, <1>7
  <2>2. e(s) = Edge(d, recs, s) /\ e(s + 1) = Edge(d, recs, s + 1)
    BY DEF e, Edge, N, n, b
  <2>3. e(s) \in 0..n /\ e(s + 1) \in 0..n /\ (e(s) = 0 \/ e(s) \in S)
    BY <1>10, <2>1
  <2>4. e(s) = 0 \/ \E t \in starts : t.at = e(s)
    BY <1>3, <2>3
  <2>5. \A t \in starts : ~ (e(s) < t.at /\ t.at < e(s + 1))
    BY <1>2, <1>11
  <2> QED
    BY <1>11, <2>2, <2>3, <2>4, <2>5 DEF EdgeFits, n, starts
<1>13. Edge(d, recs, 1) = e(1) /\ Edge(d, recs, N + 1) = e(N + 1)
  BY DEF e, Edge, N, n, b
<1> QED
  BY <1>8, <1>12, <1>13 DEF EdgesFit, N, n

\* ... and each re-times what the one before has left.
Unrolled(d, recs, f) ==
    LET N == Passes(d, recs)
        A == Times(Len(d.time), Len(recs))
    IN  /\ f \in [0..N -> A] /\ f[N] = resolve_times(d, recs)
        /\ f[0] = [time |-> d.time, kept |-> 1..Len(d.time), by |-> [i \in 1..Len(d.time) |-> 0]]
        /\ \A s \in 1..N : f[s] = Retime(d, offload_views(d, recs), StartsOf(d, recs), f[s - 1],
                                         Edge(d, recs, s), Edge(d, recs, s + 1))
Unrolls(d, recs) == \E f : Unrolled(d, recs, f)

\* Records as the lemmas need them.
Measured(recs) ==
    DOMAIN recs = 1..Len(recs) /\ Len(recs) \in Nat /\ \A k \in 1..Len(recs) : recs[k].skew \in Int

LEMMA PassByPass ==
    ASSUME NEW d, d.time \in Seq(Int), NEW recs, Measured(recs)
    PROVE  Unrolls(d, recs)
<1> DEFINE n == Len(d.time)
           most == Len(recs)
           A == Times(n, most)
           views == offload_views(d, recs)
           starts == StartsOf(d, recs)
           bounds == EdgesOf(d, recs)
           N == Len(bounds)
           upTo(s) == IF s = N THEN n ELSE bounds[s + 1]
           base == [time |-> d.time, kept |-> 1..n, by |-> [i \in 1..n |-> 0]]
           Def(f) == [s \in 0..N |-> IF s = 0 THEN base
                                     ELSE Retime(d, views, starts, f[s - 1], bounds[s], upTo(s))]
           u == CHOOSE f : f = Def(f)
           G == [s \in 1..N |-> [acc \in A |-> Retime(d, views, starts, acc, bounds[s], upTo(s))]]
<1>1. n \in Nat /\ most \in Nat
  BY DEF Measured
<1>2. DOMAIN views = 1..most /\ \A k \in 1..most : views[k].skew \in Int
  BY DEF offload_views, Measured
<1>3. resolve_times(d, recs) = u[N]
  BY DEF resolve_times, StartsOf, EdgesOf
<1>4. EdgesFit(d, recs) /\ N = Passes(d, recs)
  BY EdgesAre DEF Passes
<1>5. base \in A
  <2>1. d.time \in [1..n -> Int] /\ [i \in 1..n |-> 0] \in [1..n -> 0..most]
    BY <1>1
  <2> QED
    BY <2>1 DEF Times
<1> HIDE DEF n, most, views, starts, bounds, N, base
<1>6. N \in Nat \ {0}
  BY <1>4 DEF EdgesFit
<1>7. ASSUME NEW s \in 1..N
      PROVE  /\ bounds[s] = Edge(d, recs, s) /\ upTo(s) = Edge(d, recs, s + 1)
             /\ bounds[s] \in Nat /\ upTo(s) \in Nat
  <2>1. s # N + 1 /\ (s + 1 = N + 1 <=> s = N)
    BY <1>6
  <2>2. bounds[s] = Edge(d, recs, s) /\ upTo(s) = Edge(d, recs, s + 1)
    BY <1>4, <2>1 DEF Edge, n, bounds
  <2>3. EdgeFits(d, recs, s)
    BY <1>4 DEF EdgesFit
  <2> QED
    BY <2>2, <2>3 DEF EdgeFits
<1> HIDE DEF upTo
<1>8. ASSUME NEW s \in 1..N, NEW acc \in A
      PROVE  Retime(d, views, starts, acc, bounds[s], upTo(s)) \in A
  BY <1>1, <1>2, <1>7, Retimed
<1> HIDE DEF A
<1>9. /\ G \in [1..N -> [A -> A]]
      /\ \A s \in 1..N, acc \in A : G[s][acc] = Retime(d, views, starts, acc, bounds[s], upTo(s))
  BY <1>8
<1> HIDE DEF G
<1>10. PICK f \in [0..N -> A] : f[0] = base /\ \A s \in 1..N : f[s] = G[s][f[s - 1]]
  <2>1. Definable(N, A, base, G)
    BY <1>5, <1>6, <1>9, Recursion
  <2> QED
    BY <2>1 DEF Definable
<1>11. ASSUME NEW s \in 1..N
       PROVE  f[s] = Retime(d, views, starts, f[s - 1], bounds[s], upTo(s)) /\ f[s - 1] \in A
  <2>1. s - 1 \in 0..N
    BY <1>6
  <2> QED
    BY <1>9, <1>10, <2>1
<1>12. f = Def(f)
  <2>1. ASSUME NEW s \in 0..N
        PROVE  f[s] = IF s = 0 THEN base ELSE Retime(d, views, starts, f[s - 1], bounds[s], upTo(s))
    <3>1. s = 0 \/ s \in 1..N
      BY <1>6
    <3> QED
      BY <1>10, <1>11, <3>1
  <2> QED
    BY <2>1, Zenon
<1>13. u = Def(u)
  <2> HIDE DEF Def
  <2> QED
    BY <1>12
<1> HIDE DEF u
<1>14. u[0] = base /\ \A s \in 1..N : u[s] = Retime(d, views, starts, u[s - 1], bounds[s], upTo(s))
  <2>1. \A s \in 0..N : u[s] = Def(u)[s]
    BY <1>13
  <2>2. 0 \in 0..N /\ \A s \in 1..N : s \in 0..N /\ s # 0
    BY <1>6
  <2> QED
    BY <2>1, <2>2
<1>15. \A s \in 0..N : u[s] = f[s]
  <2> DEFINE T == {s \in 0..N : u[s] = f[s]}
  <2>1. 0 \in T
    BY <1>6, <1>10, <1>14
  <2>2. ASSUME NEW s \in 1..N, s - 1 \in T PROVE s \in T
    <3>1. u[s - 1] = f[s - 1] /\ s \in 0..N
      BY <2>2
    <3> QED
      BY <1>11, <1>14, <3>1
  <2> HIDE DEF T
  <2>3. \A s \in 0..N : s \in T
    BY <1>6, <2>1, <2>2, StepByStep
  <2> QED
    BY <2>3 DEF T
<1>16. f[N] = resolve_times(d, recs)
  BY <1>3, <1>6, <1>15
<1>17. \A s \in 1..N : f[s] = Retime(d, views, starts, f[s - 1], Edge(d, recs, s), Edge(d, recs, s + 1))
  BY <1>7, <1>11
<1>18. Unrolled(d, recs, f)
  BY <1>4, <1>10, <1>16, <1>17 DEF Unrolled, A, n, most, views, starts, base
<1> QED
  BY <1>18 DEF Unrolls

\* So the samples re-timed are kept ones, of the record.
LEMMA Resolved ==
    ASSUME NEW d, d.time \in Seq(Int), NEW recs, Measured(recs)
    PROVE  LET r == resolve_times(d, recs)
               n == Len(d.time)
           IN  r \in Times(n, Len(recs)) /\ UpTo(r, n, n)
<1> DEFINE n == Len(d.time)
           most == Len(recs)
           A == Times(n, most)
           N == Passes(d, recs)
           edge(s) == Edge(d, recs, s)
           views == offload_views(d, recs)
           starts == StartsOf(d, recs)
<1>1. PICK f : Unrolled(d, recs, f)
  BY PassByPass DEF Unrolls
<1>2. /\ f \in [0..N -> A] /\ f[N] = resolve_times(d, recs)
      /\ f[0] = [time |-> d.time, kept |-> 1..n, by |-> [i \in 1..n |-> 0]]
      /\ \A s \in 1..N : f[s] = Retime(d, views, starts, f[s - 1], edge(s), edge(s + 1))
  BY <1>1 DEF Unrolled
<1>3. EdgesFit(d, recs) /\ n \in Nat /\ most \in Nat
  BY EdgesAre DEF Measured
<1>4. N \in Nat \ {0} /\ edge(1) = 0 /\ edge(N + 1) = n
      /\ \A s \in 1..N : edge(s) \in Nat /\ edge(s + 1) \in Nat /\ edge(s) <= edge(s + 1)
  BY <1>3 DEF EdgesFit, EdgeFits
<1>5. DOMAIN views = 1..most /\ \A k \in 1..most : views[k].skew \in Int
  BY DEF offload_views, Measured
<1> HIDE DEF n, most, N, edge, views, starts
<1> DEFINE T == {s \in 0..N : UpTo(f[s], n, edge(s + 1))}
<1>6. 0 \in T
  <2>1. UpTo(f[0], n, 0)
    BY <1>2 DEF UpTo
  <2> QED
    BY <1>4, <2>1
<1>7. ASSUME NEW s \in 1..N, s - 1 \in T PROVE s \in T
  <2>1. (s - 1) + 1 = s /\ s \in 0..N /\ s - 1 \in 0..N
    BY <1>4
  <2>2. UpTo(f[s - 1], n, edge(s)) /\ f[s - 1] \in Times(n, most)
    BY <1>2, <1>7, <2>1 DEF A
  <2> HIDE DEF T, A
  <2> DEFINE acc == f[s - 1]
             i0 == edge(s)
             i1 == edge(s + 1)
  <2>3. f[s] = Retime(d, views, starts, acc, i0, i1) /\ i0 \in Nat /\ i1 \in Nat /\ i0 <= i1
    BY <1>2, <1>4
  <2> HIDE DEF acc, i0, i1
  <2>4. UpTo(Retime(d, views, starts, acc, i0, i1), n, i1)
    BY <1>3, <1>5, <2>2, <2>3, Retimed DEF acc, i0
  <2>5. UpTo(f[s], n, edge(s + 1))
    BY <2>3, <2>4 DEF i1
  <2> QED
    BY <2>1, <2>5 DEF T
<1>8. UpTo(f[N], n, n)
  <2> HIDE DEF T
  <2>1. \A s \in 0..N : s \in T
    BY <1>4, <1>6, <1>7, StepByStep
  <2>2. N \in T
    BY <1>4, <2>1
  <2> QED
    BY <1>4, <2>2 DEF T
<1> QED
  BY <1>2, <1>4, <1>8 DEF n, most

\* A sample re-timed has a candidate's skew: the current run of the offload that gave it is
\* the run of the sample, and brings a sample before it into the years after 2000.
RetimedBy(d, views, starts, acc, i) ==
    LET k == acc.by[i]
    IN  \E i0 \in 0..(i - 1) :
            /\ k \in Candidates(views, starts, i0) /\ views[k].measured
            /\ \A t \in starts : ~ (i0 < t.at /\ t.at < i)
            /\ acc.time[i] = d.time[i] - views[k].skew
            /\ \E f \in d.reset : f \in 1..i /\ d.time[f] - views[k].skew >= Y2001

\* No sample but those is touched, and those of a run have it from the same offload.
Told(d, views, starts, acc, n, e) ==
    /\ \A i \in 1..n : (i > e \/ i \notin d.reset) => acc.time[i] = d.time[i]
    /\ \A i \in 1..n : i \notin d.reset => acc.by[i] = 0
    /\ \A i \in 1..n : i <= e /\ i \in d.reset /\ i \in acc.kept => RetimedBy(d, views, starts, acc, i)
    /\ \A i, j \in 1..n :
          /\ i <= j /\ j <= e /\ i \in d.reset /\ j \in d.reset /\ i \in acc.kept /\ j \in acc.kept
          /\ \A t \in starts : ~ (i <= t.at /\ t.at < j)
          => acc.by[i] = acc.by[j]

LEMMA PassTells ==
    ASSUME NEW n \in Nat, NEW most \in Nat, NEW views,
           DOMAIN views = 1..most, \A k \in 1..most : views[k].skew \in Int,
           NEW d, NEW starts, \A t \in starts : t.at \in 1..n,
           NEW acc \in Times(n, most), NEW i0 \in 0..n, NEW i1 \in 0..n, i0 <= i1,
           i0 = 0 \/ \E t \in starts : t.at = i0,
           \A t \in starts : ~ (i0 < t.at /\ t.at < i1),
           Told(d, views, starts, acc, n, i0)
    PROVE  Told(d, views, starts, Retime(d, views, starts, acc, i0, i1), n, i1)
<1> DEFINE fix == d.reset \cap ((i0 + 1)..i1)
           usable == {k \in Candidates(views, starts, i0) :
                         views[k].measured /\ Consistent(acc.time, acc.kept, fix, views[k])}
           k == Max(usable)
           r == Retime(d, views, starts, acc, i0, i1)
<1>1. r = IF fix = {} THEN acc
          ELSE IF usable = {} THEN [acc EXCEPT !.kept = @ \ fix]
          ELSE [time |-> [i \in DOMAIN acc.time |->
                              IF i \in fix THEN acc.time[i] - views[k].skew ELSE acc.time[i]],
                kept |-> acc.kept,
                by |-> [i \in DOMAIN acc.by |-> IF i \in fix THEN k ELSE acc.by[i]]]
  BY DEF Retime
<1>2. usable \subseteq 1..most
  BY DEF Candidates
<1>3. \A i : i \in fix <=> i \in d.reset /\ i \in (i0 + 1)..i1
  OBVIOUS
<1>4. usable # {} => /\ k \in 1..most /\ k \in Candidates(views, starts, i0) /\ views[k].measured
                     /\ Consistent(acc.time, acc.kept, fix, views[k])
  <2>1. usable # {} => Max(usable) \in usable
    BY <1>2, MaxOf
  <2> QED
    BY <1>2, <2>1
<1> HIDE DEF fix, usable, r, k
<1>5. acc.time \in [1..n -> Int] /\ acc.kept \subseteq 1..n /\ acc.by \in [1..n -> 0..most]
  BY DEF Times
<1>6. /\ \A i \in 1..n : (i > i0 \/ i \notin d.reset) => acc.time[i] = d.time[i]
      /\ \A i \in 1..n : i \notin d.reset => acc.by[i] = 0
      /\ \A i \in 1..n : i <= i0 /\ i \in d.reset /\ i \in acc.kept => RetimedBy(d, views, starts, acc, i)
      /\ \A i, j \in 1..n :
            /\ i <= j /\ j <= i0 /\ i \in d.reset /\ j \in d.reset /\ i \in acc.kept /\ j \in acc.kept
            /\ \A t \in starts : ~ (i <= t.at /\ t.at < j)
            => acc.by[i] = acc.by[j]
  BY DEF Told
<1>7. \A i \in 1..n : i > i1 => i > i0 /\ i \notin fix
  BY <1>3
<1>8. \A i \in 1..n : i <= i1 /\ i \in d.reset /\ i \notin fix => i <= i0
  BY <1>3
<1>9. ASSUME \A i \in 1..n : i \in r.kept => i \in acc.kept /\ i \notin fix,
             r.time = acc.time, r.by = acc.by
      PROVE  Told(d, views, starts, r, n, i1)
  <2>1. \A i \in 1..n : RetimedBy(d, views, starts, acc, i) => RetimedBy(d, views, starts, r, i)
    BY <1>9 DEF RetimedBy
  <2>2. \A i \in 1..n : i <= i1 /\ i \in d.reset /\ i \in r.kept => i <= i0 /\ i \in acc.kept
    BY <1>8, <1>9
  <2>3. \A i \in 1..n : (i > i1 \/ i \notin d.reset) => r.time[i] = d.time[i]
    BY <1>6, <1>7, <1>9
  <2>4. \A i \in 1..n : i \notin d.reset => r.by[i] = 0
    BY <1>6, <1>9
  <2>5. \A i \in 1..n : i <= i1 /\ i \in d.reset /\ i \in r.kept => RetimedBy(d, views, starts, r, i)
    BY <1>6, <2>1, <2>2
  <2>6. ASSUME NEW i \in 1..n, NEW j \in 1..n, i <= j, j <= i1, i \in d.reset, j \in d.reset, i \in r.kept, j \in r.kept,
               \A t \in starts : ~ (i <= t.at /\ t.at < j)
        PROVE  r.by[i] = r.by[j]
    <3>1. j <= i0 /\ j \in acc.kept /\ i <= i1
      BY <2>2, <2>6
    <3>2. i \in acc.kept
      BY <2>2, <2>6, <3>1
    <3> QED
      BY <1>6, <1>9, <2>6, <3>1, <3>2
  <2> QED
    BY <2>3, <2>4, <2>5, <2>6 DEF Told
<1>10. CASE fix = {}
  <2>1. r = acc
    BY <1>1, <1>10
  <2>2. \A i \in 1..n : i \in r.kept => i \in acc.kept /\ i \notin fix
    BY <1>10, <2>1
  <2> QED
    BY <1>9, <2>1, <2>2 DEF r
<1>11. CASE fix # {} /\ usable = {}
  <2>1. r = [acc EXCEPT !.kept = @ \ fix]
    BY <1>1, <1>11
  <2>2. r.time = acc.time /\ r.by = acc.by /\ r.kept = acc.kept \ fix
    BY <2>1 DEF Times
  <2>3. \A i \in 1..n : i \in r.kept => i \in acc.kept /\ i \notin fix
    BY <2>2
  <2> QED
    BY <1>9, <2>2, <2>3 DEF r
<1>12. CASE fix # {} /\ usable # {}
  <2>1. r = [time |-> [i \in 1..n |->
                          IF i \in fix THEN acc.time[i] - views[k].skew ELSE acc.time[i]],
             kept |-> acc.kept,
             by |-> [i \in 1..n |-> IF i \in fix THEN k ELSE acc.by[i]]]
    BY <1>1, <1>5, <1>12
  <2>2. r.kept = acc.kept
        /\ \A i \in 1..n : /\ r.by[i] = IF i \in fix THEN k ELSE acc.by[i]
                           /\ r.time[i] = IF i \in fix THEN acc.time[i] - views[k].skew ELSE acc.time[i]
    BY <2>1
  <2> DEFINE first == Min(fix)
  <2>3. first \in fix /\ \A i \in fix : first <= i
    <3>1. \A i \in fix : i \in Nat
      BY <1>3
    <3>2. fix \subseteq Nat
      BY <3>1
    <3>3. PICK m \in fix : \A i \in fix : m <= i
      BY <1>12, <3>2, LeastNat
    <3>4. \A i \in fix : i \in Int
      BY <3>1
    <3>5. Min(fix) = m
      <4>1. \A x \in fix : (\A y \in fix : x <= y) => x = m
        BY <3>3, <3>4
      <4> QED
        BY <3>3, <4>1 DEF Min
    <3> QED
      BY <3>3, <3>5
  <2>4. acc.time[first] - views[k].skew >= Y2001
    BY <1>4, <1>12 DEF Consistent
  <2> HIDE DEF first
  <2>5. first \in d.reset /\ first \in 1..n /\ first > i0 /\ d.time[first] - views[k].skew >= Y2001
    <3>1. first \in d.reset /\ first \in 1..n /\ first > i0
      BY <1>3, <2>3
    <3> QED
      BY <1>6, <2>4, <3>1
  <2>6. ASSUME NEW i \in 1..n, i \in fix PROVE RetimedBy(d, views, starts, r, i)
    <3>1. i \in (i0 + 1)..i1 /\ i0 \in 0..(i - 1)
      BY <1>3, <2>6
    <3>2. r.by[i] = k /\ r.time[i] = d.time[i] - views[k].skew
      BY <1>6, <2>2, <2>6, <3>1
    <3>3. \A t \in starts : ~ (i0 < t.at /\ t.at < i)
      BY <3>1
    <3>4. first \in 1..i
      BY <2>3, <2>5, <2>6
    <3>5. \E f \in d.reset : f \in 1..i /\ d.time[f] - views[k].skew >= Y2001
      BY <2>5, <3>4
    <3> QED
      BY <1>4, <1>12, <3>1, <3>2, <3>3, <3>5 DEF RetimedBy
  <2>7. ASSUME NEW i \in 1..n, i \notin fix, RetimedBy(d, views, starts, acc, i) PROVE RetimedBy(d, views, starts, r, i)
    BY <2>2, <2>7 DEF RetimedBy
  <2>8. \A i \in 1..n : (i > i1 \/ i \notin d.reset) => r.time[i] = d.time[i]
    BY <1>3, <1>6, <1>7, <2>2
  <2>9. \A i \in 1..n : i \notin d.reset => r.by[i] = 0
    BY <1>3, <1>6, <2>2
  <2>10. \A i \in 1..n : i <= i1 /\ i \in d.reset /\ i \in r.kept => RetimedBy(d, views, starts, r, i)
    BY <1>6, <1>8, <2>2, <2>6, <2>7
  <2>11. ASSUME NEW i \in 1..n, NEW j \in 1..n, i <= j, j <= i1, i \in d.reset, j \in d.reset, i \in r.kept, j \in r.kept,
                \A t \in starts : ~ (i <= t.at /\ t.at < j)
         PROVE  r.by[i] = r.by[j]
    <3>1. CASE j <= i0
      <4>1. i \notin fix /\ j \notin fix
        BY <1>3, <2>11, <3>1
      <4>2. i \in acc.kept /\ j \in acc.kept
        BY <2>2, <2>11
      <4>3. acc.by[i] = acc.by[j]
        BY <1>6, <2>11, <3>1, <4>2
      <4> QED
        BY <2>2, <4>1, <4>3
    <3>2. CASE ~ (j <= i0)
      <4>1. j \in fix
        BY <1>8, <2>11, <3>2
      <4>2. ~ (i <= i0)
        BY <2>11, <3>2
      <4>3. i \in fix
        BY <1>3, <2>11, <4>2
      <4> QED
        BY <2>2, <4>1, <4>3
    <3> QED
      BY <3>1, <3>2
  <2> QED
    BY <2>8, <2>9, <2>10, <2>11 DEF Told, r
<1> QED
  BY <1>10, <1>11, <1>12

LEMMA ResolvedTells ==
    ASSUME NEW d, d.time \in Seq(Int), NEW recs, Measured(recs)
    PROVE  Told(d, offload_views(d, recs), StartsOf(d, recs), resolve_times(d, recs), Len(d.time), Len(d.time))
<1> DEFINE n == Len(d.time)
           most == Len(recs)
           A == Times(n, most)
           N == Passes(d, recs)
           edge(s) == Edge(d, recs, s)
           views == offload_views(d, recs)
           starts == StartsOf(d, recs)
<1>1. PICK f : Unrolled(d, recs, f)
  BY PassByPass DEF Unrolls
<1>2. /\ f \in [0..N -> A] /\ f[N] = resolve_times(d, recs)
      /\ f[0] = [time |-> d.time, kept |-> 1..n, by |-> [i \in 1..n |-> 0]]
      /\ \A s \in 1..N : f[s] = Retime(d, views, starts, f[s - 1], edge(s), edge(s + 1))
  BY <1>1 DEF Unrolled
<1>3. EdgesFit(d, recs) /\ n \in Nat /\ most \in Nat
  BY EdgesAre DEF Measured
<1>4. N \in Nat \ {0} /\ edge(1) = 0 /\ edge(N + 1) = n
      /\ \A s \in 1..N : /\ edge(s) \in 0..n /\ edge(s + 1) \in 0..n /\ edge(s) <= edge(s + 1)
                         /\ edge(s) = 0 \/ \E t \in starts : t.at = edge(s)
                         /\ \A t \in starts : ~ (edge(s) < t.at /\ t.at < edge(s + 1))
  BY <1>3 DEF EdgesFit, EdgeFits
<1>5. DOMAIN views = 1..most /\ \A k \in 1..most : views[k].skew \in Int
  BY DEF offload_views, Measured
<1>6. \A t \in starts : t.at \in 1..n
  BY <1>3, StartsFit
<1> HIDE DEF n, most, N, edge, views, starts
<1> DEFINE T == {s \in 0..N : Told(d, views, starts, f[s], n, edge(s + 1))}
<1>7. 0 \in T
  <2>1. /\ f[0].time = d.time
        /\ \A i \in 1..n : f[0].by[i] = 0 /\ ~ (i <= 0)
    BY <1>2, <1>3
  <2>2. Told(d, views, starts, f[0], n, 0)
    <3>1. \A i, j \in 1..n : ~ (j <= 0)
      BY <2>1
    <3> QED
      BY <2>1, <3>1 DEF Told
  <2> QED
    BY <1>4, <2>2
<1>8. ASSUME NEW s \in 1..N, s - 1 \in T PROVE s \in T
  <2>1. (s - 1) + 1 = s /\ s \in 0..N /\ s - 1 \in 0..N
    BY <1>4
  <2>2. Told(d, views, starts, f[s - 1], n, edge(s)) /\ f[s - 1] \in Times(n, most)
    BY <1>2, <1>8, <2>1 DEF A
  <2> HIDE DEF T, A
  <2> DEFINE acc == f[s - 1]
             i0 == edge(s)
             i1 == edge(s + 1)
  <2>3. /\ f[s] = Retime(d, views, starts, acc, i0, i1) /\ i0 \in 0..n /\ i1 \in 0..n /\ i0 <= i1
        /\ i0 = 0 \/ \E t \in starts : t.at = i0
        /\ \A t \in starts : ~ (i0 < t.at /\ t.at < i1)
    BY <1>2, <1>4
  <2> HIDE DEF acc, i0, i1
  <2>4. Told(d, views, starts, Retime(d, views, starts, acc, i0, i1), n, i1)
    BY <1>3, <1>5, <1>6, <2>2, <2>3, PassTells DEF acc, i0
  <2>5. Told(d, views, starts, f[s], n, edge(s + 1))
    BY <2>3, <2>4 DEF i1
  <2> QED
    BY <2>1, <2>5 DEF T
<1>9. Told(d, views, starts, f[N], n, n)
  <2> HIDE DEF T
  <2>1. \A s \in 0..N : s \in T
    BY <1>4, <1>7, <1>8, StepByStep
  <2>2. N \in T
    BY <1>4, <2>1
  <2> QED
    BY <1>4, <2>2 DEF T
<1> QED
  BY <1>2, <1>9 DEF n, views, starts

-----------------------------------------------------------------------------
(* The correction variables.                                               *)

\* A run re-timed begins before it ends, on the kept axis, and ends within it.
LEMMA CorrectionsFit ==
    ASSUME NEW n \in Nat, NEW most \in Nat, NEW r \in Times(n, most), UpTo(r, n, n)
    PROVE  \A c \in Corrections(r) : c.start < c.end /\ c.end <= Cardinality(r.kept)
<1> DEFINE of(k) == {i \in DOMAIN r.by : r.by[i] = k}
           Kept(i) == {k \in r.kept : k <= i}
<1>1. r.kept \subseteq 1..n /\ r.by \in [1..n -> 0..most] /\ DOMAIN r.by = 1..n
  BY DEF Times
<1>2. IsFiniteSet(r.kept)
  BY <1>1, NumbersUpTo, FS_Subset
<1>3. ASSUME NEW k \in {r.by[i] : i \in DOMAIN r.by} \ {0}
      PROVE  /\ _kept_index(r.kept, Min(of(k)) - 1) < _kept_index(r.kept, Max(of(k)))
             /\ _kept_index(r.kept, Max(of(k))) <= Cardinality(r.kept)
  <2> DEFINE a == Min(of(k))
             b == Max(of(k))
  <2>1. of(k) \subseteq 1..n /\ of(k) \subseteq Nat /\ of(k) # {} /\ of(k) \subseteq r.kept
    <3>1. of(k) \subseteq 1..n /\ k # 0
      BY <1>1
    <3>2. of(k) # {}
      OBVIOUS
    <3>3. of(k) \subseteq r.kept
      BY <3>1 DEF UpTo
    <3>4. of(k) \subseteq Nat
      BY <3>1
    <3> QED
      BY <3>1, <3>2, <3>3, <3>4
  <2> HIDE DEF of
  <2>2. a \in of(k) /\ b \in of(k) /\ a <= b
    <3>1. a \in of(k) /\ \A i \in of(k) : a <= i
      BY <2>1, LeastIs
    <3>2. b \in of(k)
      BY <2>1, MaxOf
    <3> QED
      BY <3>1, <3>2
  <2> HIDE DEF a, b
  <2>3. a \in Nat /\ b \in Nat /\ a \in r.kept /\ b \in r.kept
    BY <2>1, <2>2
  <2>4. Kept(a - 1) \subseteq Kept(b) /\ Kept(b) \subseteq r.kept /\ a \in Kept(b) /\ a \notin Kept(a - 1)
    BY <1>1, <2>2, <2>3
  <2> HIDE DEF Kept
  <2>5. IsFiniteSet(Kept(b)) /\ Cardinality(Kept(b)) <= Cardinality(r.kept)
    BY <1>2, <2>4, FS_Subset
  <2>6. /\ IsFiniteSet(Kept(a - 1)) /\ Cardinality(Kept(a - 1)) <= Cardinality(Kept(b))
        /\ Cardinality(Kept(a - 1)) # Cardinality(Kept(b))
    BY <2>4, <2>5, FS_Subset
  <2>7. Cardinality(Kept(a - 1)) \in Nat /\ Cardinality(Kept(b)) \in Nat
    BY <2>5, <2>6, FS_CardinalityType
  <2>8. Cardinality(Kept(a - 1)) < Cardinality(Kept(b))
    BY <2>6, <2>7
  <2> QED
    BY <2>5, <2>8 DEF _kept_index, Kept, a, b
<1>4. Corrections(r) = {[start |-> _kept_index(r.kept, Min(of(k)) - 1),
                         end |-> _kept_index(r.kept, Max(of(k))), offload |-> k] :
                            k \in {r.by[i] : i \in DOMAIN r.by} \ {0}}
  BY DEF Corrections
<1> HIDE DEF of
<1> QED
  BY <1>3, <1>4

\* What a file says of any image, whatever the offloads were.
FileFits(f) ==
    /\ DOMAIN f.by = DOMAIN f.time /\ f.kept \subseteq DOMAIN f.time
    /\ \A c \in f.corrections : c.start < c.end /\ c.end <= Cardinality(f.kept)

LEMMA NetCDFFits ==
    ASSUME NEW m, IsImage(m), NEW recs, DOMAIN recs = 1..Len(recs), Len(recs) \in Nat,
           \A k \in 1..Len(recs) : recs[k].skew \in Int
    PROVE  FileFits(NetCDF(m, recs)) /\ NetCDF(m, recs).logger = Decoded(m).time
<1> DEFINE d == Decoded(m)
           n == Len(d.time)
           r == resolve_times(d, recs)
<1>1. d.time \in Seq(Int) /\ n \in Nat
  BY DecodedInOrder
<1> HIDE DEF d
<1>2. r \in Times(n, Len(recs)) /\ UpTo(r, n, n)
  BY <1>1, Resolved DEF Measured
<1>3. NetCDF(m, recs) = [logger |-> d.time, time |-> r.time, kept |-> r.kept, by |-> r.by,
                         corrections |-> Corrections(r), refused |-> Refused(r)]
  BY DEF NetCDF, d
<1> HIDE DEF n, r
<1>4. \A c \in Corrections(r) : c.start < c.end /\ c.end <= Cardinality(r.kept)
  BY <1>1, <1>2, CorrectionsFit DEF n
<1>5. DOMAIN r.by = DOMAIN r.time /\ r.kept \subseteq DOMAIN r.time
  BY <1>2 DEF Times
<1> QED
  BY <1>3, <1>4, <1>5 DEF FileFits, d

-----------------------------------------------------------------------------
(* The invariant.                                                          *)

OffloadRecord == [bytes : Nat, at : Nat, by : Measures, skew : Int, run : Nat]

Loggers == {[family |-> s[1], nchan |-> s[2], enabled |-> e] : s \in Shapes, e \in {0, StartTime}}

LoggerIsOne ==
    /\ logger \in Loggers
    /\ status \in {"logging", "stopped"} /\ setByHand \in BOOLEAN
    /\ now \in Nat /\ clock \in 0..now /\ run \in Nat \ {0}

WordsAreThere == words \in Seq(Word) /\ words # <<>>

OffloadsFit ==
    /\ offloads \in Seq(OffloadRecord) /\ Len(offloads) <= MaxOffloads
    /\ \A k \in 1..Len(offloads) : offloads[k].bytes <= Len(words)

\* The file is still what the latest offload's image and the records give.
FileIsOfLatest ==
    /\ offloads = <<>> => file = NoFile
    /\ offloads # <<>> => file = NetCDF(Latest, offloads)

IInv == LoggerIsOne /\ WordsAreThere /\ OffloadsFit /\ FileIsOfLatest

\* What a logger with the given memory has is an image, and so is a part of it.
LEMMA ImageIs ==
    ASSUME LoggerIsOne, NEW w \in Seq(Word), NEW n \in 0..Len(w),
           NEW m, m = [family |-> logger.family, nchan |-> logger.nchan, enabled |-> logger.enabled,
                       words |-> SubSeq(w, 1, n)]
    PROVE  IsImage(m)
<1>1. logger.nchan \in Nat \ {0} /\ logger.enabled \in Nat
  <2>1. PICK s \in Shapes, e \in {0, StartTime} : logger = [family |-> s[1], nchan |-> s[2], enabled |-> e]
    BY DEF LoggerIsOne, Loggers
  <2>2. s \in {"solo", "l2", "gen3"} \X (Nat \ {0}) /\ StartTime \in Nat
    BY HistoryAssumption
  <2> QED
    BY <2>1, <2>2
<1>2. SubSeq(w, 1, n) \in Seq(Word)
  OBVIOUS
<1> QED
  BY <1>1, <1>2 DEF IsImage

LEMMA ImageGrew ==
    ASSUME NEW w \in Seq(Word), NEW k \in 0..Len(w), NEW n \in 0..Len(w), k <= n,
           NEW g, NEW m, m = [family |-> g.family, nchan |-> g.nchan, enabled |-> g.enabled,
                       words |-> SubSeq(w, 1, k)],
           NEW l, l = [family |-> g.family, nchan |-> g.nchan, enabled |-> g.enabled,
                       words |-> SubSeq(w, 1, n)]
    PROVE  Grew(m, l)
<1> DEFINE s == SubSeq(w, 1, k)
           t == SubSeq(w, 1, n)
<1>1. s \in Seq(Word) /\ t \in Seq(Word) /\ Len(s) = k /\ Len(t) = n
  OBVIOUS
<1>2. \A i \in 1..k : s[i] = w[i] /\ t[i] = w[i]
  OBVIOUS
<1>3. m.words = s /\ l.words = t /\ m.family = l.family /\ m.nchan = l.nchan /\ m.enabled = l.enabled
  OBVIOUS
<1> HIDE DEF s, t
<1>4. IsPrefix(s, t)
  BY <1>1, <1>2, PrefixByCell
<1> QED
  BY <1>3, <1>4 DEF Grew

LEMMA ImageWords ==
    ASSUME NEW n
    PROVE  Image(n) = [family |-> logger.family, nchan |-> logger.nchan, enabled |-> logger.enabled,
                       words |-> SubSeq(words, 1, n)]
  BY DEF Image

\* All but an offload only appends to the memory.
Appends ==
    /\ logger' = logger /\ offloads' = offloads /\ file' = file
    /\ \E x \in Seq(Word) : words' = words \o x

LEMMA EventWords ==
    ASSUME NEW type \in Types, NEW t \in Nat, NEW ok \in BOOLEAN
    PROVE  Event(type, t, ok) \in Seq(Word) /\ Event(type, t, ok) # <<>>
<1> DEFINE a == [kind |-> "event", type |-> type, clock |-> t, ok |-> ok]
           b == [kind |-> "stamp", clock |-> t]
<1>1. a \in Word /\ b \in Word
  BY DEF Word
<1>2. Event(type, t, ok) = <<a, b>>
  BY DEF Event
<1> HIDE DEF a, b
<1> QED
  BY <1>1, <1>2

LEMMA LoggerAppends ==
    ASSUME IInv,
           \/ Sample
           \/ \E gap \in 1..MaxGap, type \in RTC_RESET_EVENTS : LosePower(gap, type)
           \/ \E gap \in 1..MaxGap : CpuReset(gap)
           \/ Stop \/ SetClock \/ Wait \/ UNCHANGED vars
    PROVE  LoggerIsOne' /\ Appends
<1>1. LoggerIsOne /\ words \in Seq(Word) /\ now \in Nat /\ clock \in Nat /\ clock <= now /\ run \in Nat \ {0}
  BY DEF IInv, LoggerIsOne, WordsAreThere
<1>2. words' = words => \E x \in Seq(Word) : words' = words \o x
  <2> DEFINE e == <<>>
  <2>1. e \in Seq(Word) /\ words \o e = words
    BY <1>1
  <2> HIDE DEF e
  <2> QED
    BY <2>1
<1>3. ASSUME NEW type, NEW t \in Nat, type \in Types, Record(type, t)
      PROVE  \E x \in Seq(Word) : words' = words \o x
  <2>1. PICK ok \in BOOLEAN : words' = words \o Event(type, t, ok)
    BY <1>3 DEF Record
  <2> QED
    BY <1>3, <2>1, EventWords
<1>4. CASE Sample
  <2>1. SampleSet \in Seq(Word)
    <3>1. logger.nchan \in Nat
      <4>1. IsImage([family |-> logger.family, nchan |-> logger.nchan, enabled |-> logger.enabled,
                     words |-> SubSeq(words, 1, 0)])
        BY <1>1, ImageIs
      <4> QED
        BY <4>1 DEF IsImage
    <3>2. [kind |-> "reading", clock |-> clock, at |-> now, run |-> run] \in Word
      BY <1>1 DEF Word
    <3> QED
      BY <3>1, <3>2 DEF SampleSet
  <2> QED
    BY <1>1, <1>4, <2>1 DEF Sample, Appends, LoggerIsOne
<1>5. ASSUME NEW gap \in 1..MaxGap, NEW type \in RTC_RESET_EVENTS, LosePower(gap, type)
      PROVE  LoggerIsOne' /\ Appends
  <2>1. type \in Types
    BY DEF Types
  <2>2. \E x \in Seq(Word) : words' = words \o x
    BY <1>3, <1>5, <2>1 DEF LosePower
  <2>3. gap \in Nat
    BY HistoryAssumption
  <2> QED
    BY <1>1, <1>5, <2>2, <2>3 DEF LosePower, Appends, LoggerIsOne
<1>6. ASSUME NEW gap \in 1..MaxGap, CpuReset(gap)
      PROVE  LoggerIsOne' /\ Appends
  <2>1. "cpu_reset" \in Types
    BY DEF Types, ANCHOR_EVENTS
  <2>2. gap \in Nat /\ clock + gap \in Nat
    BY <1>1, HistoryAssumption
  <2>3. \E x \in Seq(Word) : words' = words \o x
    BY <1>3, <1>6, <2>1, <2>2 DEF CpuReset
  <2>4. clock + gap <= now + gap /\ now + gap \in Nat
    BY <1>1, <2>2
  <2>5. LoggerIsOne'
    BY <1>1, <1>6, <2>2, <2>4 DEF CpuReset, LoggerIsOne
  <2> QED
    BY <1>6, <2>3, <2>5 DEF CpuReset, Appends
<1>7. CASE Stop
  <2>1. "stop" \in Types
    BY DEF Types
  <2>2. \E x \in Seq(Word) : words' = words \o x
    BY <1>1, <1>3, <1>7, <2>1 DEF Stop
  <2> QED
    BY <1>1, <1>7, <2>2 DEF Stop, Appends, LoggerIsOne
<1>8. CASE SetClock
  BY <1>1, <1>2, <1>8 DEF SetClock, Appends, LoggerIsOne
<1>9. CASE Wait
  BY <1>1, <1>2, <1>9 DEF Wait, Appends, LoggerIsOne
<1>10. CASE UNCHANGED vars
  BY <1>1, <1>2, <1>10 DEF vars, Appends, LoggerIsOne
<1> QED
  BY <1>4, <1>5, <1>6, <1>7, <1>8, <1>9, <1>10

THEOREM Invariance == Spec => []IInv
<1>1. Init => IInv
  <2> SUFFICES ASSUME Init PROVE IInv
    OBVIOUS
  <2>1. logger \in Loggers /\ now = StartTime /\ clock = logger.enabled /\ run = 1
    BY DEF Init, Loggers
  <2>2. logger.enabled \in {0, StartTime} /\ StartTime \in Nat
    BY <2>1, HistoryAssumption DEF Loggers
  <2>3. LoggerIsOne
    <3>1. now \in Nat /\ clock \in 0..now /\ run \in Nat \ {0}
      BY <2>1, <2>2
    <3>2. status = "logging" /\ setByHand = FALSE
      BY DEF Init
    <3> QED
      BY <2>1, <3>1, <3>2 DEF LoggerIsOne
  <2>4. WordsAreThere
    <3>1. "sync" \in Types
      BY DEF Types, ANCHOR_EVENTS
    <3>2. PICK ok \in BOOLEAN : words = Event("sync", clock, ok)
      <4>1. CASE MaxCorrupt > 0
        BY <4>1 DEF Init
      <4>2. CASE ~ (MaxCorrupt > 0)
        <5>1. words = Event("sync", clock, TRUE)
          BY <4>2 DEF Init
        <5> QED
          BY <5>1
      <4> QED
        BY <4>1, <4>2
    <3>3. clock \in Nat
      BY <2>1, <2>2
    <3> QED
      BY <3>1, <3>2, <3>3, EventWords DEF WordsAreThere
  <2>5. OffloadsFit
    <3> DEFINE e == <<>>
    <3>1. e \in Seq(OffloadRecord) /\ Len(e) = 0 /\ MaxOffloads \in Nat
      BY HistoryAssumption
    <3>2. offloads = e
      BY DEF Init
    <3> HIDE DEF e
    <3> QED
      BY <3>1, <3>2 DEF OffloadsFit
  <2>6. FileIsOfLatest
    BY DEF Init, FileIsOfLatest
  <2> QED
    BY <2>3, <2>4, <2>5, <2>6 DEF IInv
<1>2. IInv /\ [Next]_vars => IInv'
  <2> SUFFICES ASSUME IInv, [Next]_vars PROVE IInv'
    OBVIOUS
  <2>1. /\ words \in Seq(Word) /\ words # <<>> /\ offloads \in Seq(OffloadRecord)
        /\ Len(offloads) \in Nat /\ Len(words) \in Nat /\ Len(words) >= 1
        /\ \A k \in 1..Len(offloads) : offloads[k] \in OffloadRecord /\ offloads[k].bytes <= Len(words)
    BY DEF IInv, WordsAreThere, OffloadsFit
  <2>2. ASSUME LoggerIsOne', Appends PROVE IInv'
    <3>1. PICK x \in Seq(Word) : words' = words \o x
      BY <2>2 DEF Appends
    <3>2. /\ words' \in Seq(Word) /\ words' # <<>> /\ Len(words') \in Nat /\ Len(words) <= Len(words')
          /\ \A i \in 1..Len(words) : words'[i] = words[i]
      BY <2>1, <3>1
    <3>3. OffloadsFit'
      <4>1. \A k \in 1..Len(offloads) : offloads[k].bytes \in Nat
        BY <2>1 DEF OffloadRecord
      <4>2. \A k \in 1..Len(offloads) : offloads[k].bytes <= Len(words')
        BY <2>1, <3>2, <4>1
      <4> QED
        BY <2>2, <4>2 DEF IInv, OffloadsFit, Appends
    <3>4. offloads # <<>> => Latest' = Latest
      <4> SUFFICES ASSUME offloads # <<>> PROVE Latest' = Latest
        OBVIOUS
      <4> DEFINE n == Last(offloads).bytes
      <4>1. n \in 0..Len(words)
        <5>1. Len(offloads) \in 1..Len(offloads)
          BY <2>1
        <5>2. offloads[Len(offloads)] \in OffloadRecord /\ offloads[Len(offloads)].bytes <= Len(words)
          BY <2>1, <5>1
        <5> QED
          BY <2>1, <5>2 DEF Last, OffloadRecord
      <4>2. Last(offloads)'.bytes = n
        BY <2>2 DEF Appends, Last
      <4> HIDE DEF n
      <4>3. SubSeq(words', 1, n) = SubSeq(words, 1, n)
        BY <2>1, <3>2, <4>1
      <4> QED
        BY <2>2, <4>2, <4>3 DEF Latest, Image, Appends, n
    <3>5. FileIsOfLatest'
      BY <2>2, <3>4 DEF IInv, FileIsOfLatest, Appends
    <3> QED
      BY <2>2, <3>2, <3>3, <3>5 DEF IInv, WordsAreThere
  <2>3. ASSUME NEW by \in Measures, NEW cut \in 0..1, Offload(by, Len(words) - cut)
        PROVE  IInv'
    <3> DEFINE n == Len(words) - cut
               o == [bytes |-> n, at |-> now, by |-> by, skew |-> IF by = "none" THEN 0 ELSE clock - now,
                     run |-> run]
    <3>1. /\ Len(offloads) < MaxOffloads /\ offloads' = Append(offloads, o)
          /\ file' = NetCDF(Image(n), offloads')
          /\ UNCHANGED <<logger, words, status, now, clock, run, setByHand>>
      BY <2>3 DEF Offload, Goes
    <3>2. n \in Nat /\ n <= Len(words)
      BY <2>1
    <3>3. o \in OffloadRecord
      BY <3>2 DEF OffloadRecord, IInv, LoggerIsOne
    <3>a. o.bytes = n
      OBVIOUS
    <3> HIDE DEF o, n
    <3>4. LoggerIsOne' /\ WordsAreThere'
      BY <3>1 DEF IInv, LoggerIsOne, WordsAreThere
    <3>5. /\ offloads' \in Seq(OffloadRecord) /\ Len(offloads') = Len(offloads) + 1
          /\ offloads'[Len(offloads')] = o
          /\ \A k \in 1..Len(offloads) : offloads'[k] = offloads[k]
      BY <2>1, <3>1, <3>3
    <3>6. OffloadsFit'
      <4>1. MaxOffloads \in Nat
        BY HistoryAssumption
      <4>2. Len(offloads') <= MaxOffloads
        BY <2>1, <3>1, <3>5, <4>1
      <4>3. ASSUME NEW k \in 1..Len(offloads') PROVE offloads'[k].bytes <= Len(words')
        <5>1. CASE k = Len(offloads')
          BY <3>1, <3>2, <3>a, <3>5, <5>1
        <5>2. CASE k \in 1..Len(offloads)
          BY <2>1, <3>1, <3>5, <5>2
        <5> QED
          BY <2>1, <3>5, <5>1, <5>2
      <4> QED
        BY <3>5, <4>2, <4>3 DEF OffloadsFit
    <3>7. FileIsOfLatest'
      <4>1. Last(offloads)' = o
        BY <3>5 DEF Last
      <4>2. Latest' = Image(n)
        BY <3>1, <3>a, <4>1 DEF Latest, Image
      <4>3. offloads' # <<>>
        BY <2>1, <3>5
      <4> QED
        BY <3>1, <4>2, <4>3 DEF FileIsOfLatest
    <3> QED
      BY <3>4, <3>6, <3>7 DEF IInv
  <2> QED
    BY <2>2, <2>3, LoggerAppends DEF Next
<1> QED
  BY <1>1, <1>2, PTL DEF Spec

\* The types, and that the correction variables of every file name a part of its time
\* axis, whatever was recorded.
THEOREM TypeCorrect == Spec => []TypeOK
<1>1. IInv => TypeOK
  <2> SUFFICES ASSUME IInv PROVE TypeOK
    OBVIOUS
  <2>1. /\ words \in Seq(Word) /\ offloads \in Seq(OffloadRecord) /\ Len(offloads) \in Nat
        /\ \A k \in 1..Len(offloads) : offloads[k] \in OffloadRecord /\ offloads[k].bytes <= Len(words)
    BY DEF IInv, WordsAreThere, OffloadsFit
  <2>2. \A i \in DOMAIN words : words[i].kind \in {"reading", "event", "stamp"}
    <3>1. \A i \in DOMAIN words : words[i] \in Word
      BY <2>1
    <3>2. \A w \in Word : w.kind \in {"reading", "event", "stamp"}
      BY DEF Word
    <3> QED
      BY <3>1, <3>2
  <2>3. FileFits(file)
    <3>1. CASE offloads = <<>>
      <4>1. file = NoFile
        BY <3>1 DEF IInv, FileIsOfLatest
      <4> QED
        BY <4>1 DEF NoFile, FileFits
    <3>2. CASE offloads # <<>>
      <4>1. file = NetCDF(Latest, offloads)
        BY <3>2 DEF IInv, FileIsOfLatest
      <4> DEFINE n == Last(offloads).bytes
      <4>2. n \in 0..Len(words)
        <5>1. Len(offloads) \in 1..Len(offloads)
          BY <2>1, <3>2
        <5> QED
          BY <2>1, <5>1 DEF Last, OffloadRecord
      <4> HIDE DEF n
      <4>3. IsImage(Latest)
        BY <2>1, <4>2, ImageWords, ImageIs DEF IInv, Latest, n
      <4>4. DOMAIN offloads = 1..Len(offloads) /\ \A k \in 1..Len(offloads) : offloads[k].skew \in Int
        BY <2>1 DEF OffloadRecord
      <4>5. FileFits(NetCDF(Latest, offloads))
        BY <2>1, <4>3, <4>4, NetCDFFits
      <4> QED
        BY <4>1, <4>5
    <3> QED
      BY <3>1, <3>2
  <2> QED
    BY <2>2, <2>3 DEF IInv, LoggerIsOne, Loggers, OffloadsFit, FileFits, TypeOK
<1> QED
  BY <1>1, Invariance, PTL

\* AppendKeepsSamples: what is appended to an image changes no time decoded before.
THEOREM AppendsKeepSamples == Spec => AppendKeepsSamples
<1> DEFINE Keeps == offloads # <<>> /\ file' # file =>
                      IsPrefix(IF logger.family = "l2" THEN SubSeq(file.logger, 1, Len(file.logger) - 1)
                               ELSE file.logger, file'.logger)
<1>1. IInv /\ [Next]_vars => [Keeps]_vars
  <2> SUFFICES ASSUME IInv, [Next]_vars, offloads # <<>>, file' # file
      PROVE  IsPrefix(IF logger.family = "l2" THEN SubSeq(file.logger, 1, Len(file.logger) - 1)
                      ELSE file.logger, file'.logger)
    OBVIOUS
  <2>1. PICK by \in Measures, cut \in 0..1 : Offload(by, Len(words) - cut)
    BY LoggerAppends DEF Next, Appends
  <2>2. /\ words \in Seq(Word) /\ words # <<>> /\ offloads \in Seq(OffloadRecord)
        /\ Len(offloads) \in Nat /\ Len(words) \in Nat /\ Len(words) >= 1 /\ LoggerIsOne
        /\ \A k \in 1..Len(offloads) : offloads[k] \in OffloadRecord /\ offloads[k].bytes <= Len(words)
    BY DEF IInv, WordsAreThere, OffloadsFit
  <2> DEFINE n == Len(words) - cut
             k == Last(offloads).bytes
             o == [bytes |-> n, at |-> now, by |-> by, skew |-> IF by = "none" THEN 0 ELSE clock - now,
                   run |-> run]
  <2>3. /\ offloads' = Append(offloads, o) /\ file' = NetCDF(Image(n), offloads')
        /\ \A i \in DOMAIN offloads : offloads[i].bytes <= n
    BY <2>1 DEF Offload
  <2>4. k \in 0..Len(words) /\ n \in 0..Len(words) /\ k <= n
    <3>1. Len(offloads) \in 1..Len(offloads) /\ DOMAIN offloads = 1..Len(offloads)
      BY <2>2
    <3>2. k \in Nat /\ k <= Len(words)
      BY <2>2, <3>1 DEF Last, OffloadRecord
    <3>3. k <= n
      BY <2>3, <3>1 DEF Last
    <3> QED
      BY <2>2, <3>2, <3>3
  <2>5. /\ DOMAIN offloads' = 1..Len(offloads') /\ Len(offloads') \in Nat
        /\ \A i \in 1..Len(offloads') : offloads'[i].skew \in Int
    <3>1. o \in OffloadRecord
      BY <2>4 DEF OffloadRecord, IInv, LoggerIsOne
    <3> HIDE DEF o
    <3>2. offloads' \in Seq(OffloadRecord)
      BY <2>2, <2>3, <3>1
    <3>3. \A i \in 1..Len(offloads') : offloads'[i] \in OffloadRecord
      BY <3>2
    <3>4. DOMAIN offloads' = 1..Len(offloads') /\ Len(offloads') \in Nat
      BY <3>2
    <3> QED
      BY <3>3, <3>4 DEF OffloadRecord
  <2>6. /\ DOMAIN offloads = 1..Len(offloads) /\ \A i \in 1..Len(offloads) : offloads[i].skew \in Int
    BY <2>2 DEF OffloadRecord
  <2> HIDE DEF n, k, o
  <2>7. Image(n) = [family |-> logger.family, nchan |-> logger.nchan, enabled |-> logger.enabled,
                    words |-> SubSeq(words, 1, n)]
    BY ImageWords
  <2>8. Image(k) = [family |-> logger.family, nchan |-> logger.nchan, enabled |-> logger.enabled,
                    words |-> SubSeq(words, 1, k)]
    BY ImageWords
  <2>9. IsImage(Image(n)) /\ IsImage(Image(k))
    BY <2>2, <2>4, <2>7, <2>8, ImageIs
  <2>10. Grew(Image(k), Image(n))
    BY <2>2, <2>4, <2>7, <2>8, ImageGrew
  <2>11. file.logger = Decoded(Image(k)).time
    <3>1. file = NetCDF(Image(k), offloads)
      BY DEF IInv, FileIsOfLatest, Latest, k
    <3> QED
      BY <2>2, <2>6, <2>9, <3>1, NetCDFFits
  <2>12. file'.logger = Decoded(Image(n)).time
    BY <2>3, <2>5, <2>9, NetCDFFits
  <2>13. Image(k).family = logger.family
    BY <2>8
  <2> QED
    BY <2>9, <2>10, <2>11, <2>12, <2>13, GrownDecoded
<1>2. Spec => [][Keeps]_vars
  BY <1>1, Invariance, PTL DEF Spec
<1> QED
  BY <1>2 DEF AppendKeepsSamples
-----------------------------------------------------------------------------
(* Counting the members of a set of numbers that lie below a number.       *)

Cnt(P, p) == Cardinality({i \in P : i < p})

LEMMA CntIs ==
    ASSUME NEW P, P \subseteq Nat, NEW p \in Nat
    PROVE  IsFiniteSet({i \in P : i < p}) /\ Cnt(P, p) \in Nat
<1>a. \A i \in P : i \in Nat
  OBVIOUS
<1>1. {i \in P : i < p} \in SUBSET Nat /\ \A i \in {j \in P : j < p} : i <= p
  <2>1. ASSUME NEW i \in P, i < p PROVE i <= p
    BY <1>a, <2>1
  <2> QED
    BY <1>a, <2>1
<1>2. IsFiniteSet({i \in P : i < p})
  BY <1>1, FS_BoundedSetOfNaturals
<1> QED
  BY <1>2, FS_CardinalityType DEF Cnt

LEMMA CntSame ==
    ASSUME NEW P, NEW Q, P \subseteq Nat, Q \subseteq Nat, NEW p \in Nat,
           \A i \in Nat : i < p => (i \in P <=> i \in Q)
    PROVE  Cnt(P, p) = Cnt(Q, p)
<1>1. {i \in P : i < p} = {i \in Q : i < p}
  OBVIOUS
<1> QED
  BY <1>1 DEF Cnt

LEMMA CntNext ==
    ASSUME NEW P, P \subseteq Nat, NEW p \in Nat
    PROVE  Cnt(P, p + 1) = Cnt(P, p) + (IF p \in P THEN 1 ELSE 0)
<1> DEFINE S == {i \in P : i < p}
           T == {i \in P : i < p + 1}
<1>a. \A i \in P : i \in Nat
  OBVIOUS
<1>1. IsFiniteSet(S) /\ Cardinality(S) \in Nat
  BY CntIs DEF Cnt
<1>2. CASE p \in P
  <2>1. \A i \in P : i < p + 1 <=> (i < p \/ i = p)
    BY <1>a
  <2>2. p \notin S /\ p \in T
    BY <1>2
  <2>3. T = S \cup {p}
    BY <1>2, <2>1
  <2> HIDE DEF S, T
  <2>4. Cardinality(T) = Cardinality(S) + 1
    BY <1>1, <2>2, <2>3, FS_AddElement
  <2> QED
    BY <1>2, <2>4 DEF Cnt, S, T
<1>3. CASE p \notin P
  <2>1. \A i \in P : i < p + 1 <=> i < p
    BY <1>a, <1>3
  <2>2. T = S
    BY <2>1
  <2> QED
    BY <1>1, <1>3, <2>2 DEF Cnt
<1> QED
  BY <1>2, <1>3

\* Counts grow, by no more than the way that is gone, by all of it through members, and
\* not at all where there are none.
LEMMA CntGrows ==
    ASSUME NEW P, P \subseteq Nat, NEW p \in Nat, NEW k \in Nat
    PROVE  /\ Cnt(P, p + k) \in Cnt(P, p)..(Cnt(P, p) + k)
           /\ (\A i \in p..(p + k - 1) : i \in P) => Cnt(P, p + k) = Cnt(P, p) + k
           /\ (\A i \in p..(p + k - 1) : i \notin P) => Cnt(P, p + k) = Cnt(P, p)
<1> DEFINE Holds(j) ==
             /\ Cnt(P, p + j) \in Cnt(P, p)..(Cnt(P, p) + j)
             /\ (\A i \in p..(p + j - 1) : i \in P) => Cnt(P, p + j) = Cnt(P, p) + j
             /\ (\A i \in p..(p + j - 1) : i \notin P) => Cnt(P, p + j) = Cnt(P, p)
           S == {j \in 0..k : Holds(j)}
<1>2. 0 \in S
  <2>1. p + 0 = p /\ 0 \in 0..k
    OBVIOUS
  <2>2. Cnt(P, p) \in Nat
    BY CntIs
  <2> QED
    BY <2>1, <2>2
<1>3. ASSUME NEW j \in 1..k, j - 1 \in S PROVE j \in S
  <2> DEFINE q == p + (j - 1)
  <2>1. Holds(j - 1) /\ q \in Nat /\ q + 1 = p + j
    BY <1>3
  <2>2. Cnt(P, p + j) = Cnt(P, p + (j - 1)) + (IF p + (j - 1) \in P THEN 1 ELSE 0)
    <3> HIDE DEF q
    <3>1. Cnt(P, q + 1) = Cnt(P, q) + (IF q \in P THEN 1 ELSE 0)
      BY <2>1, CntNext
    <3> QED
      BY <2>1, <3>1 DEF q
  <2>3. Cnt(P, p) \in Nat /\ Cnt(P, p + (j - 1)) \in Nat
    <3> HIDE DEF q
    <3>1. Cnt(P, q) \in Nat /\ Cnt(P, p) \in Nat
      BY <2>1, CntIs
    <3> QED
      BY <3>1 DEF q
  <2>4. Cnt(P, p + j) \in Cnt(P, p)..(Cnt(P, p) + j)
    BY <2>1, <2>2, <2>3
  <2>5. ASSUME \A i \in p..(p + j - 1) : i \in P PROVE Cnt(P, p + j) = Cnt(P, p) + j
    <3>1. p + (j - 1) \in P /\ \A i \in p..(p + (j - 1) - 1) : i \in P
      BY <2>5
    <3> QED
      BY <2>1, <2>2, <2>3, <3>1
  <2>6. ASSUME \A i \in p..(p + j - 1) : i \notin P PROVE Cnt(P, p + j) = Cnt(P, p)
    <3>1. p + (j - 1) \notin P /\ \A i \in p..(p + (j - 1) - 1) : i \notin P
      BY <2>6
    <3> QED
      BY <2>1, <2>2, <2>3, <3>1
  <2> QED
    BY <2>4, <2>5, <2>6
<1> HIDE DEF Holds
<1>4. \A j \in 0..k : j \in S
  <2> HIDE DEF S
  <2> QED
    BY <1>2, <1>3, StepByStep
<1>5. Holds(k)
  BY <1>4
<1> QED
  BY <1>5 DEF Holds

\* The same, between two places.
LEMMA CntBetween ==
    ASSUME NEW P, P \subseteq Nat, NEW p \in Nat, NEW q \in Nat, p <= q
    PROVE  /\ Cnt(P, p) \in Nat /\ Cnt(P, q) \in Nat /\ Cnt(P, p) <= Cnt(P, q)
           /\ Cnt(P, q) <= Cnt(P, p) + q - p
           /\ (\A i \in Nat : p <= i /\ i < q => i \in P) => Cnt(P, q) = Cnt(P, p) + q - p
           /\ (\A i \in Nat : p <= i /\ i < q => i \notin P) => Cnt(P, q) = Cnt(P, p)
           /\ \A i \in P : p <= i /\ i < q => Cnt(P, p) < Cnt(P, q)
<1> DEFINE k == q - p
<1>1. k \in Nat /\ p + k = q /\ Cnt(P, p) \in Nat /\ Cnt(P, q) \in Nat
  <2>1. Cnt(P, p) \in Nat /\ Cnt(P, q) \in Nat
    BY CntIs
  <2> QED
    BY <2>1
<1>2. \A i \in p..(p + k - 1) : i \in Nat /\ p <= i /\ i < q
  OBVIOUS
<1>3. ASSUME NEW i \in P, p <= i, i < q PROVE Cnt(P, p) < Cnt(P, q)
  <2>1. i \in Nat /\ i + 1 \in Nat /\ i - p \in Nat /\ p + (i - p) = i
        /\ q - (i + 1) \in Nat /\ i + 1 + (q - (i + 1)) = q
    BY <1>3
  <2>2. Cnt(P, i) >= Cnt(P, p) /\ Cnt(P, q) >= Cnt(P, i + 1) /\ Cnt(P, i) \in Nat
    <3>1. Cnt(P, i) \in Nat /\ Cnt(P, i + 1) \in Nat
      BY <2>1, CntIs
    <3>2. Cnt(P, p + (i - p)) \in Cnt(P, p)..(Cnt(P, p) + (i - p))
      BY ONLY <2>1, CntGrows, P \subseteq Nat, p \in Nat
    <3>3. Cnt(P, i + 1 + (q - (i + 1))) \in Cnt(P, i + 1)..(Cnt(P, i + 1) + (q - (i + 1)))
      BY ONLY <2>1, CntGrows, P \subseteq Nat
    <3> QED
      BY <1>1, <2>1, <3>1, <3>2, <3>3
  <2>3. Cnt(P, i + 1) = Cnt(P, i) + 1
    BY <1>3, <2>1, CntNext
  <2> QED
    BY <1>1, <2>2, <2>3
<1>4. Cnt(P, p + k) \in Cnt(P, p)..(Cnt(P, p) + k)
      /\ ((\A i \in p..(p + k - 1) : i \in P) => Cnt(P, p + k) = Cnt(P, p) + k)
      /\ ((\A i \in p..(p + k - 1) : i \notin P) => Cnt(P, p + k) = Cnt(P, p))
  BY <1>1, CntGrows
<1> HIDE DEF k
<1>5. k = q - p
  BY DEF k
<1> QED
  BY <1>1, <1>2, <1>3, <1>4, <1>5

-----------------------------------------------------------------------------
(* The readings and events of a memory, and what is appended to it.        *)

Reads(w) == {i \in DOMAIN w : w[i].kind = "reading"}
Resets(w) == {i \in DOMAIN w : w[i].kind = "event" /\ w[i].type \in RTC_RESET_EVENTS}

\* Of n channels, the sample sets stored before place p, and that none is half stored.
SetsBefore(w, n, p) == Cnt(Reads(w), p) \div n
Whole(w, n, p) == Cnt(Reads(w), p) = SetsBefore(w, n, p) * n

IsAnchor(w, a) == w[a].kind = "event" /\ w[a].type \in ANCHOR_EVENTS
LastAnchor(w, a, p) ==
    /\ a \in DOMAIN w /\ a < p /\ IsAnchor(w, a)
    /\ \A i \in DOMAIN w : a < i /\ i < p => ~ IsAnchor(w, i)

LEMMA PlacesAreNumbers ==
    ASSUME NEW w \in Seq(Word)
    PROVE  /\ DOMAIN w = 1..Len(w) /\ Len(w) \in Nat /\ Len(w) + 1 \in Nat
           /\ Reads(w) \subseteq Nat /\ Resets(w) \subseteq Nat
           /\ \A i \in Reads(w) : i \in 1..Len(w)
           /\ \A i \in Resets(w) : i \in 1..Len(w)
<1>1. DOMAIN w = 1..Len(w) /\ Len(w) \in Nat
  OBVIOUS
<1> QED
  BY <1>1 DEF Reads, Resets

\* A grown memory is the same below its old end.
Continues(v, w) == Len(w) <= Len(v) /\ \A i \in 1..Len(w) : v[i] = w[i]

LEMMA SameBelow ==
    ASSUME NEW w \in Seq(Word), NEW v \in Seq(Word), Continues(v, w), NEW p \in 0..(Len(w) + 1),
           NEW n \in Nat \ {0}
    PROVE  /\ Cnt(Reads(v), p) = Cnt(Reads(w), p) /\ Cnt(Resets(v), p) = Cnt(Resets(w), p)
           /\ SetsBefore(v, n, p) = SetsBefore(w, n, p)
           /\ Whole(v, n, p) <=> Whole(w, n, p)
           /\ \A a : LastAnchor(v, a, p) <=> LastAnchor(w, a, p)
<1>1. /\ DOMAIN w = 1..Len(w) /\ Len(w) \in Nat /\ DOMAIN v = 1..Len(v) /\ Len(v) \in Nat
      /\ Reads(w) \subseteq Nat /\ Resets(w) \subseteq Nat
      /\ Reads(v) \subseteq Nat /\ Resets(v) \subseteq Nat
  BY PlacesAreNumbers
<1>2. p \in Nat /\ Len(w) <= Len(v) /\ \A i \in 1..Len(w) : v[i] = w[i]
  BY <1>1 DEF Continues
<1>3. ASSUME NEW i \in Nat, i < p
      PROVE  i \in Reads(v) <=> i \in Reads(w)
  BY <1>1, <1>2, <1>3 DEF Reads
<1>4. ASSUME NEW i \in Nat, i < p
      PROVE  i \in Resets(v) <=> i \in Resets(w)
  BY <1>1, <1>2, <1>4 DEF Resets
<1>5. Cnt(Reads(v), p) = Cnt(Reads(w), p)
  BY <1>1, <1>2, <1>3, CntSame
<1>6. Cnt(Resets(v), p) = Cnt(Resets(w), p)
  BY <1>1, <1>2, <1>4, CntSame
<1>7. ASSUME NEW a PROVE LastAnchor(v, a, p) <=> LastAnchor(w, a, p)
  <2>1. \A i \in 1..Len(v) : i < p => i \in 1..Len(w)
    BY <1>1
  <2>2. \A i \in 1..Len(w) : i \in 1..Len(v) /\ (IsAnchor(v, i) <=> IsAnchor(w, i))
    BY <1>1, <1>2 DEF IsAnchor
  <2> QED
    BY <1>1, <2>1, <2>2 DEF LastAnchor
<1> QED
  BY <1>5, <1>6, <1>7 DEF SetsBefore, Whole

\* Two words of an event are appended.
IsEvent(v, p, type, t) ==
    /\ v[p].kind = "event" /\ v[p].type = type /\ v[p].clock = t
    /\ v[p + 1].kind = "stamp"

WithEvent(v, w, n, type, t) ==
    /\ v \in Seq(Word) /\ Len(v) = Len(w) + 2 /\ Continues(v, w)
    /\ IsEvent(v, Len(w) + 1, type, t)
    /\ Cnt(Reads(v), Len(w) + 3) = Cnt(Reads(w), Len(w) + 1)
    /\ SetsBefore(v, n, Len(w) + 3) = SetsBefore(w, n, Len(w) + 1)
    /\ Cnt(Resets(v), Len(w) + 3)
         = Cnt(Resets(w), Len(w) + 1) + (IF type \in RTC_RESET_EVENTS THEN 1 ELSE 0)
    /\ Cnt(Resets(v), Len(w) + 2) = Cnt(Resets(v), Len(w) + 3)
    /\ \A b \in Reads(v) : b \in Reads(w)
    /\ \A i \in Resets(v) : i \in Resets(w) \/ (i = Len(w) + 1 /\ type \in RTC_RESET_EVENTS)

LEMMA EventAppended ==
    ASSUME NEW w \in Seq(Word), NEW type \in Types, NEW t \in Nat, NEW ok \in BOOLEAN,
           NEW v, v = w \o Event(type, t, ok), NEW n \in Nat \ {0}
    PROVE  WithEvent(v, w, n, type, t)
<1> DEFINE a == [kind |-> "event", type |-> type, clock |-> t, ok |-> ok]
           s == [kind |-> "stamp", clock |-> t]
           l == Len(w)
<1>1. a \in Word /\ s \in Word
  BY DEF Word
<1>2. /\ a.kind = "event" /\ a.type = type /\ a.clock = t
      /\ s.kind = "stamp"
  OBVIOUS
<1>3. v = w \o <<a, s>>
  BY DEF Event
<1> HIDE DEF a, s
<1>4. /\ v \in Seq(Word) /\ Len(v) = Len(w) + 2 /\ v[Len(w) + 1] = a /\ v[Len(w) + 2] = s
      /\ \A i \in 1..Len(w) : v[i] = w[i]
  BY <1>1, <1>3
<1>5. Continues(v, w) /\ IsEvent(v, l + 1, type, t)
  BY <1>2, <1>4 DEF Continues, IsEvent
<1>6. /\ DOMAIN w = 1..l /\ l \in Nat /\ DOMAIN v = 1..(l + 2)
      /\ Reads(v) \subseteq Nat /\ Resets(v) \subseteq Nat
      /\ Reads(w) \subseteq Nat /\ Resets(w) \subseteq Nat
  BY <1>4, PlacesAreNumbers
<1>7. \A b \in Reads(v) : b \in Reads(w)
  BY <1>2, <1>4, <1>6 DEF Reads
<1>8. \A i \in Resets(v) : i \in Resets(w) \/ (i = l + 1 /\ type \in RTC_RESET_EVENTS)
  BY <1>2, <1>4, <1>6 DEF Resets
<1>9. l + 1 \notin Reads(v) /\ l + 2 \notin Reads(v) /\ l + 2 \notin Resets(v)
      /\ (l + 1 \in Resets(v) <=> type \in RTC_RESET_EVENTS)
  BY <1>2, <1>4, <1>6 DEF Reads, Resets
<1>10. Cnt(Reads(v), l + 1) = Cnt(Reads(w), l + 1) /\ Cnt(Resets(v), l + 1) = Cnt(Resets(w), l + 1)
  <2>1. l + 1 \in 0..(l + 1)
    BY <1>6
  <2> QED
    BY <1>4, <1>5, <2>1, SameBelow
<1>11. /\ Cnt(Reads(v), l + 2) = Cnt(Reads(v), l + 1) /\ Cnt(Reads(v), l + 3) = Cnt(Reads(v), l + 2)
       /\ Cnt(Resets(v), l + 3) = Cnt(Resets(v), l + 2)
       /\ Cnt(Resets(v), l + 2) = Cnt(Resets(v), l + 1) + (IF type \in RTC_RESET_EVENTS THEN 1 ELSE 0)
  <2> DEFINE p == l + 1
             q == l + 2
  <2>1. p \in Nat /\ q \in Nat /\ p + 1 = q /\ q + 1 = l + 3
    BY <1>6
  <2>2. p \notin Reads(v) /\ q \notin Reads(v) /\ q \notin Resets(v)
        /\ (p \in Resets(v) <=> type \in RTC_RESET_EVENTS)
    BY <1>9
  <2> HIDE DEF p, q
  <2>3. /\ Cnt(Reads(v), p + 1) = Cnt(Reads(v), p) + (IF p \in Reads(v) THEN 1 ELSE 0)
        /\ Cnt(Reads(v), q + 1) = Cnt(Reads(v), q) + (IF q \in Reads(v) THEN 1 ELSE 0)
        /\ Cnt(Resets(v), p + 1) = Cnt(Resets(v), p) + (IF p \in Resets(v) THEN 1 ELSE 0)
        /\ Cnt(Resets(v), q + 1) = Cnt(Resets(v), q) + (IF q \in Resets(v) THEN 1 ELSE 0)
    <3>1. Reads(v) \subseteq Nat /\ Resets(v) \subseteq Nat
      BY <1>6
    <3> QED
      BY <2>1, <3>1, CntNext
  <2>4. /\ Cnt(Reads(v), p) \in Nat /\ Cnt(Reads(v), q) \in Nat
        /\ Cnt(Resets(v), q) \in Nat
    BY <1>6, <2>1, CntIs
  <2>5. p = l + 1 /\ q = l + 2
    BY DEF p, q
  <2> QED
    BY <2>1, <2>2, <2>3, <2>4, <2>5
<1>12. Cnt(Reads(v), l + 3) = Cnt(Reads(w), l + 1)
  BY <1>10, <1>11
<1>13. Cnt(Resets(v), l + 3)
          = Cnt(Resets(w), l + 1) + (IF type \in RTC_RESET_EVENTS THEN 1 ELSE 0)
  BY <1>10, <1>11
<1> QED
  BY <1>4, <1>5, <1>7, <1>8, <1>11, <1>12, <1>13 DEF SetsBefore, WithEvent

\* Within a whole set the number of sets stays.
LEMMA WithinSet ==
    ASSUME NEW n \in Nat \ {0}, NEW q \in Nat, NEW i \in 0..n
    PROVE  /\ (q * n) \div n = q
           /\ i < n => (q * n + i) \div n = q
           /\ i = n => q * n + i = (q + 1) * n /\ (q * n + i) \div n = q + 1
<1>1. q * n \in Nat /\ (q + 1) * n = q * n + n /\ q + 1 \in Nat
  OBVIOUS
<1>2. ASSUME NEW c \in Nat, NEW p \in Nat, p * n <= c, c < (p + 1) * n PROVE c \div n = p
  BY <1>2
<1>3. (q * n) \div n = q
  BY <1>1, <1>2
<1>4. i < n => (q * n + i) \div n = q
  BY <1>1, <1>2
<1>5. ((q + 1) * n) \div n = q + 1
  BY <1>1, <1>2
<1> QED
  BY <1>1, <1>3, <1>4, <1>5

\* The readings of one set are appended.
WithSet(v, w, n, rd) ==
    /\ v \in Seq(Word) /\ Len(v) = Len(w) + n /\ Continues(v, w)
    /\ \A i \in (Len(w) + 1)..(Len(w) + n) : v[i] = rd
    /\ \A i \in (Len(w) + 1)..(Len(w) + n) : SetsBefore(v, n, i) = SetsBefore(w, n, Len(w) + 1)
    /\ SetsBefore(v, n, Len(w) + n + 1) = SetsBefore(w, n, Len(w) + 1) + 1
    /\ Whole(v, n, Len(w) + n + 1)
    /\ \A p \in (Len(w) + 1)..(Len(w) + n + 1) : Cnt(Resets(v), p) = Cnt(Resets(w), Len(w) + 1)
    /\ \A i \in Resets(v) : i \in Resets(w)
    /\ \A b \in Reads(v) : b \in Reads(w) \/ b \in (Len(w) + 1)..(Len(w) + n)

LEMMA SetAppended ==
    ASSUME NEW w \in Seq(Word), NEW n \in Nat \ {0}, NEW rd \in Word, rd.kind = "reading",
           NEW v, v = w \o [i \in 1..n |-> rd], Whole(w, n, Len(w) + 1)
    PROVE  WithSet(v, w, n, rd)
<1> DEFINE s == [i \in 1..n |-> rd]
           l == Len(w)
<1>1. s \in Seq(Word) /\ Len(s) = n /\ \A i \in 1..n : s[i] = rd
  OBVIOUS
<1>2. l \in Nat
  OBVIOUS
<1> HIDE DEF s
<1>3. /\ v \in Seq(Word) /\ Len(v) = l + n /\ \A i \in 1..l : v[i] = w[i]
      /\ \A i \in (l + 1)..(l + n) : v[i] = rd
  <2>1. v = w \o s
    BY DEF s
  <2>2. v \in Seq(Word) /\ Len(v) = l + n /\ \A i \in 1..l : v[i] = w[i]
    BY <1>1, <2>1
  <2>3. ASSUME NEW i \in (l + 1)..(l + n) PROVE v[i] = rd
    <3>1. i - l \in 1..n /\ v[i] = s[i - l]
      BY <1>1, <1>2, <2>1
    <3> QED
      BY <1>1, <3>1
  <2> QED
    BY <2>2, <2>3
<1>4. Continues(v, w)
  BY <1>2, <1>3 DEF Continues
<1> HIDE DEF l
<1>5. /\ DOMAIN w = 1..l /\ DOMAIN v = 1..(l + n) /\ l \in Nat
      /\ Reads(v) \subseteq Nat /\ Resets(v) \subseteq Nat
      /\ Reads(w) \subseteq Nat /\ Resets(w) \subseteq Nat
  BY <1>3, PlacesAreNumbers DEF l
<1>6. /\ \A i \in (l + 1)..(l + n) : i \in Reads(v) /\ i \notin Resets(v)
      /\ \A i \in Resets(v) : i \in Resets(w)
      /\ \A b \in Reads(v) : b \in Reads(w) \/ b \in (l + 1)..(l + n)
  BY <1>3, <1>5 DEF Reads, Resets
<1>7. Cnt(Reads(v), l + 1) = Cnt(Reads(w), l + 1) /\ Cnt(Resets(v), l + 1) = Cnt(Resets(w), l + 1)
  <2>1. l + 1 \in 0..(l + 1)
    BY <1>5
  <2> QED
    BY <1>3, <1>4, <2>1, SameBelow DEF l
<1> DEFINE q == SetsBefore(w, n, l + 1)
<1>8. q \in Nat /\ Cnt(Reads(w), l + 1) = q * n /\ l + 1 \in Nat
  <2>1. Cnt(Reads(w), l + 1) \in Nat
    <3>1. l + 1 \in Nat
      BY <1>5
    <3> QED
      BY <1>5, <3>1, CntIs
  <2> QED
    BY <1>5, <2>1, Division DEF Whole, SetsBefore, l
<1> HIDE DEF q
<1>9. ASSUME NEW p \in (l + 1)..(l + n + 1)
      PROVE  Cnt(Reads(v), p) = q * n + (p - (l + 1)) /\ Cnt(Resets(v), p) = Cnt(Resets(w), l + 1)
  <2>1. p \in Nat /\ l + 1 \in Nat /\ l + 1 <= p
    BY <1>5
  <2>2. ASSUME NEW i \in Nat, l + 1 <= i, i < p
        PROVE  i \in Reads(v) /\ i \notin Resets(v)
    <3>1. i \in (l + 1)..(l + n)
      BY <1>5, <2>2
    <3> QED
      BY <1>6, <3>1
  <2>3. Cnt(Reads(v), p) = Cnt(Reads(v), l + 1) + p - (l + 1)
    BY <1>5, <2>1, <2>2, CntBetween
  <2>4. Cnt(Resets(v), p) = Cnt(Resets(v), l + 1)
    BY <1>5, <2>1, <2>2, CntBetween
  <2>5. q * n \in Nat
    BY <1>8
  <2> QED
    BY <1>5, <1>7, <1>8, <2>3, <2>4, <2>5
<1>10. ASSUME NEW i \in (l + 1)..(l + n) PROVE SetsBefore(v, n, i) = q
  <2>1. i \in (l + 1)..(l + n + 1) /\ i - (l + 1) \in 0..n /\ i - (l + 1) < n
    BY <1>5
  <2>2. Cnt(Reads(v), i) = q * n + (i - (l + 1))
    BY <1>9, <2>1
  <2> DEFINE j == i - (l + 1)
  <2>3. j \in 0..n /\ j < n
    BY <2>1
  <2> HIDE DEF j
  <2>4. (q * n + j) \div n = q
    BY <1>8, <2>3, WithinSet
  <2> QED
    BY <2>2, <2>4 DEF SetsBefore, j
<1>11. SetsBefore(v, n, l + n + 1) = q + 1 /\ Whole(v, n, l + n + 1)
  <2>1. l + n + 1 \in (l + 1)..(l + n + 1) /\ (l + n + 1) - (l + 1) = n
    BY <1>5
  <2>2. Cnt(Reads(v), l + n + 1) = q * n + n
    BY <1>9, <2>1
  <2>3. q * n + n = (q + 1) * n /\ (q * n + n) \div n = q + 1
    <3>1. n \in 0..n
      OBVIOUS
    <3> QED
      BY <1>8, <3>1, WithinSet
  <2> QED
    BY <2>2, <2>3 DEF SetsBefore, Whole
<1> QED
  BY <1>3, <1>4, <1>6, <1>9, <1>10, <1>11 DEF l, q, WithSet

-----------------------------------------------------------------------------
(* The logger's memory and clock: what each sample, and each measurement,  *)
(* owes to the run of the clock it was made in.                            *)

End == Len(words) + 1
Runs(w, p) == 1 + Cnt(Resets(w), p)

\* An event is two words; sample sets are whole where an event begins, and at the end.
Layout ==
    /\ \A i \in DOMAIN words :
          /\ words[i].kind = "event" => /\ i + 1 \in DOMAIN words /\ words[i + 1].kind = "stamp"
                                        /\ Whole(words, logger.nchan, i)
          /\ words[i].kind = "stamp" => i - 1 \in DOMAIN words /\ words[i - 1].kind = "event"
    /\ Whole(words, logger.nchan, End)

\* A sample's clock is that of the last anchor, and one period for each set since.
ClockCounts ==
    /\ words[1].kind = "event" /\ words[1].type = "sync" /\ words[1].clock = logger.enabled
    /\ \A i \in DOMAIN words : words[i].kind = "event" /\ words[i].type = "sync" => i = 1
    /\ \A b \in Reads(words), a \in DOMAIN words :
          LastAnchor(words, a, b) =>
              words[b].clock = words[a].clock + SetsBefore(words, logger.nchan, b)
                                              - SetsBefore(words, logger.nchan, a)
    /\ status = "logging" => \A a \in DOMAIN words :
          LastAnchor(words, a, End) =>
              clock = words[a].clock + SetsBefore(words, logger.nchan, End)
                                     - SetsBefore(words, logger.nchan, a)

\* Each restart begins a run, and so does a clock set by hand, after which nothing is sampled.
RunsCounted ==
    /\ \A b \in Reads(words) : words[b].run = Runs(words, b)
    /\ run = Runs(words, End) + (IF setByHand THEN 1 ELSE 0)
    /\ setByHand => status = "stopped" /\ clock = now

\* A clock is right, or began at 0 since the logger was enabled.
RightRun(r) == r = 1 /\ logger.enabled # 0
ClockRight ==
    /\ now >= StartTime
    /\ RightRun(run) => clock = now
    /\ ~ RightRun(run) /\ ~ setByHand => clock <= now - StartTime
    /\ \A i \in DOMAIN words : words[i].kind = "event" =>
          /\ words[i].type \in ANCHOR_EVENTS /\ RightRun(Runs(words, i + 1)) => words[i].clock >= logger.enabled
          /\ words[i].type = "restarted" => words[i].clock = 0
    /\ \A b \in Reads(words) :
          /\ StartTime <= words[b].at /\ words[b].at < now
          /\ RightRun(words[b].run) => words[b].clock = words[b].at
          /\ ~ RightRun(words[b].run) => words[b].clock <= words[b].at - StartTime
          /\ words[b].run = run => words[b].clock - words[b].at = clock - now

\* What an offload measured is the skew of the run it was made in, at every sample of it.
SkewsMeasured ==
    \A k \in DOMAIN offloads :
        LET o == offloads[k]
        IN  /\ o.bytes \notin Resets(words)
            /\ o.run = Runs(words, o.bytes + 1) \/ (setByHand /\ o.run = run)
            /\ o.by # "none" =>
                  /\ o.run = run => o.skew = clock - now
                  /\ RightRun(o.run) => o.skew = 0
                  /\ \A b \in Reads(words) : words[b].run = o.run => o.skew = words[b].clock - words[b].at

Clocks == Layout /\ ClockCounts /\ RunsCounted /\ ClockRight /\ SkewsMeasured

(* The steps, by what they append.                                         *)

SetStep ==
    /\ status = "logging" /\ now' = now + 1 /\ clock' = clock + 1
    /\ words' = words \o [i \in 1..logger.nchan |-> [kind |-> "reading", clock |-> clock, at |-> now, run |-> run]]
    /\ UNCHANGED <<logger, status, run, setByHand, offloads>>

EventStep(type, t, ok) ==
    /\ status = "logging" /\ words' = words \o Event(type, t, ok)
    /\ UNCHANGED <<logger, setByHand, offloads>> /\ type # "sync"
    /\ now' \in Nat /\ clock' \in Nat /\ now <= now' /\ clock' <= now'
    /\ \/ /\ type \in RTC_RESET_EVENTS /\ t = 0 /\ clock' = 0 /\ run' = run + 1
          /\ status' = IF type = "restarted" THEN "logging" ELSE "stopped"
       \/ type = "cpu_reset" /\ t = clock' /\ clock' - now' = clock - now /\ UNCHANGED <<status, run>>
       \/ type = "stop" /\ t = clock /\ status' = "stopped" /\ UNCHANGED <<now, clock, run>>

StillStep ==
    /\ UNCHANGED <<logger, words, status, offloads>>
    /\ \/ clock' = now /\ now' = now /\ run' = run + 1 /\ setByHand' = TRUE /\ clock # now /\ status = "stopped"
       \/ status = "stopped" /\ now' = now + 1 /\ clock' = clock + 1 /\ UNCHANGED <<run, setByHand>>
       \/ UNCHANGED <<now, clock, run, setByHand>>

OffloadStep(by, n) ==
    /\ n \in {Len(words), Len(words) - 1} /\ (n < Len(words) => n \notin Resets(words))
    /\ offloads' = Append(offloads,
           [bytes |-> n, at |-> now, by |-> by, skew |-> IF by = "none" THEN 0 ELSE clock - now, run |-> run])
    /\ \A k \in DOMAIN offloads : offloads[k].bytes <= n
    /\ UNCHANGED <<logger, words, status, now, clock, run, setByHand>>

\* What the types of the state say of it.
LEMMA StateIs ==
    ASSUME IInv
    PROVE  /\ words \in Seq(Word) /\ Len(words) \in Nat /\ Len(words) >= 1 /\ DOMAIN words = 1..Len(words)
           /\ End \in Nat /\ logger.nchan \in Nat \ {0} /\ logger.enabled \in {0, StartTime}
           /\ StartTime \in Nat /\ StartTime # 0
           /\ now \in Nat /\ clock \in Nat /\ clock <= now /\ run \in Nat \ {0} /\ setByHand \in BOOLEAN
           /\ Reads(words) \subseteq Nat /\ Resets(words) \subseteq Nat
           /\ offloads \in Seq(OffloadRecord) /\ Len(offloads) \in Nat /\ DOMAIN offloads = 1..Len(offloads)
           /\ \A k \in 1..Len(offloads) : /\ offloads[k].bytes \in Nat /\ offloads[k].bytes <= Len(words)
                                          /\ offloads[k].skew \in Int /\ offloads[k].run \in Nat
                                          /\ offloads[k].at \in Nat
<1>1. /\ words \in Seq(Word) /\ words # <<>> /\ offloads \in Seq(OffloadRecord) /\ LoggerIsOne
      /\ \A k \in 1..Len(offloads) : offloads[k].bytes <= Len(words)
  BY DEF IInv, WordsAreThere, OffloadsFit
<1>2. PICK s \in Shapes, e \in {0, StartTime} : logger = [family |-> s[1], nchan |-> s[2], enabled |-> e]
  BY <1>1 DEF LoggerIsOne, Loggers
<1>3. s \in {"solo", "l2", "gen3"} \X (Nat \ {0}) /\ StartTime \in Nat /\ StartTime >= Y2001
  BY HistoryAssumption
<1>4. logger.nchan \in Nat \ {0} /\ logger.enabled \in {0, StartTime} /\ StartTime # 0
  BY <1>2, <1>3, TimesAssumption
<1>5. Len(words) \in Nat /\ Len(words) >= 1 /\ DOMAIN words = 1..Len(words) /\ End \in Nat
  BY <1>1 DEF End
<1>6. Len(offloads) \in Nat /\ DOMAIN offloads = 1..Len(offloads)
      /\ \A k \in 1..Len(offloads) : offloads[k] \in OffloadRecord
  BY <1>1
<1>7. /\ now \in Nat /\ clock \in Nat /\ clock <= now /\ run \in Nat \ {0} /\ setByHand \in BOOLEAN
  BY <1>1 DEF LoggerIsOne
<1>8. Reads(words) \subseteq Nat /\ Resets(words) \subseteq Nat
  BY <1>1, PlacesAreNumbers
<1>9. \A k \in 1..Len(offloads) : /\ offloads[k].bytes \in Nat /\ offloads[k].skew \in Int
                                  /\ offloads[k].run \in Nat /\ offloads[k].at \in Nat
  BY <1>6 DEF OffloadRecord
<1> QED
  BY <1>1, <1>3, <1>4, <1>5, <1>6, <1>7, <1>8, <1>9

LEMMA StepIs ==
    ASSUME IInv, [Next]_vars
    PROVE  \/ SetStep
           \/ \E type \in Types, t \in Nat, ok \in BOOLEAN : EventStep(type, t, ok)
           \/ StillStep
           \/ \E by \in Measures, n \in Nat : OffloadStep(by, n)
<1>1. /\ words \in Seq(Word) /\ Len(words) \in Nat /\ Len(words) >= 1 /\ DOMAIN words = 1..Len(words)
      /\ now \in Nat /\ clock \in Nat /\ clock <= now /\ run \in Nat
  BY StateIs
<1>2. CASE Sample
  BY <1>2 DEF Sample, SetStep, SampleSet
<1>3. ASSUME NEW gap \in 1..MaxGap, NEW type \in RTC_RESET_EVENTS, LosePower(gap, type)
      PROVE  \E u \in Types, t \in Nat, ok \in BOOLEAN : EventStep(u, t, ok)
  <2>1. PICK ok \in BOOLEAN : words' = words \o Event(type, 0, ok)
    BY <1>3 DEF LosePower, Record
  <2>2. type \in Types /\ type # "sync"
    BY DEF Types, RTC_RESET_EVENTS
  <2>3. now + gap \in Nat /\ now <= now + gap /\ 0 <= now + gap
    BY <1>1, HistoryAssumption
  <2>4. EventStep(type, 0, ok)
    BY <1>3, <2>1, <2>2, <2>3 DEF LosePower, EventStep
  <2> QED
    BY <2>2, <2>4
<1>4. ASSUME NEW gap \in 1..MaxGap, CpuReset(gap)
      PROVE  \E u \in Types, t \in Nat, ok \in BOOLEAN : EventStep(u, t, ok)
  <2>1. PICK ok \in BOOLEAN : words' = words \o Event("cpu_reset", clock + gap, ok)
    BY <1>4 DEF CpuReset, Record
  <2>2. "cpu_reset" \in Types
    BY DEF Types, ANCHOR_EVENTS
  <2>3. /\ now + gap \in Nat /\ now <= now + gap /\ clock + gap \in Nat /\ clock + gap <= now + gap
        /\ clock + gap - (now + gap) = clock - now
    BY <1>1, HistoryAssumption
  <2>4. EventStep("cpu_reset", clock + gap, ok)
    <3>1. /\ now' = now + gap /\ clock' = clock + gap /\ status = "logging"
          /\ UNCHANGED <<logger, status, run, setByHand, offloads>>
      BY <1>4 DEF CpuReset
    <3>2. clock' - now' = clock - now /\ now' \in Nat /\ clock' \in Nat /\ now <= now' /\ clock' <= now'
      BY <1>1, <2>3, <3>1
    <3> QED
      BY <2>1, <3>1, <3>2 DEF EventStep
  <2> QED
    BY <2>2, <2>3, <2>4
<1>5. ASSUME Stop
      PROVE  \E u \in Types, t \in Nat, ok \in BOOLEAN : EventStep(u, t, ok)
  <2>1. PICK ok \in BOOLEAN : words' = words \o Event("stop", clock, ok)
    BY <1>5 DEF Stop, Record
  <2>2. "stop" \in Types
    BY DEF Types
  <2>3. EventStep("stop", clock, ok)
    BY <1>1, <1>5, <2>1 DEF Stop, EventStep
  <2> QED
    BY <1>1, <2>2, <2>3
<1>6. CASE SetClock
  BY <1>6 DEF SetClock, StillStep
<1>7. CASE Wait
  BY <1>7 DEF Wait, StillStep
<1>8. CASE UNCHANGED vars
  BY <1>8 DEF vars, StillStep
<1>9. ASSUME NEW by \in Measures, NEW cut \in 0..1, Offload(by, Len(words) - cut)
      PROVE  \E u \in Measures, n \in Nat : OffloadStep(u, n)
  <2> DEFINE n == Len(words) - cut
  <2>1. n \in Nat /\ n \in {Len(words), Len(words) - 1}
    <3>1. cut = 0 \/ cut = 1
      OBVIOUS
    <3>2. CASE cut = 0
      BY <1>1, <3>2
    <3>3. CASE cut = 1
      BY <1>1, <3>3
    <3> QED
      BY <3>1, <3>2, <3>3
  <2>2. ASSUME n < Len(words) PROVE n \notin Resets(words)
    <3>1. n = Len(words) - 1 /\ ~ JustRestarted
      BY <1>1, <1>9, <2>1, <2>2 DEF Offload
    <3>2. n \notin Restarts(Memory)
      BY <3>1 DEF JustRestarted
    <3>3. Memory.words = SubSeq(words, 1, Len(words))
      BY DEF Memory, Image
    <3>4. Memory.words = words
      BY <1>1, <3>3
    <3> QED
      BY <1>1, <3>2, <3>4 DEF Restarts, Marked, Resets
  <2>3. OffloadStep(by, n)
    BY <1>9, <2>1, <2>2 DEF Offload, OffloadStep
  <2> QED
    BY <2>1, <2>3
<1> QED
  BY <1>2, <1>3, <1>4, <1>5, <1>6, <1>7, <1>8, <1>9 DEF Next

LEMMA LayoutKept ==
    ASSUME IInv, Layout, [Next]_vars
    PROVE  Layout'
<1> DEFINE n == logger.nchan
           l == Len(words)
<1>1. /\ words \in Seq(Word) /\ l \in Nat /\ DOMAIN words = 1..l /\ n \in Nat \ {0} /\ End = l + 1
  BY StateIs DEF End
<1>2. /\ Whole(words, n, l + 1)
      /\ \A i \in 1..l : /\ words[i].kind = "event" => /\ i + 1 \in 1..l /\ words[i + 1].kind = "stamp"
                                                       /\ Whole(words, n, i)
                         /\ words[i].kind = "stamp" => i - 1 \in 1..l /\ words[i - 1].kind = "event"
  BY <1>1 DEF Layout
<1> HIDE DEF n, l
<1>3. ASSUME words' \in Seq(Word), Continues(words', words), NEW i \in 1..l
      PROVE  /\ words'[i].kind = "event" => /\ i + 1 \in DOMAIN words' /\ words'[i + 1].kind = "stamp"
                                            /\ Whole(words', n, i)
             /\ words'[i].kind = "stamp" => i - 1 \in DOMAIN words' /\ words'[i - 1].kind = "event"
  <2>1. /\ DOMAIN words' = 1..Len(words') /\ Len(words') \in Nat
        /\ l <= Len(words') /\ \A j \in 1..l : words'[j] = words[j] /\ j \in DOMAIN words'
    BY <1>1, <1>3 DEF Continues, l
  <2>2. i \in 0..(Len(words) + 1)
    BY <1>1 DEF l
  <2>3. Whole(words', n, i) <=> Whole(words, n, i)
    BY <1>1, <1>3, <2>2, SameBelow
  <2> QED
    BY <1>2, <2>1, <2>3
<1>4. ASSUME words' \in Seq(Word), Continues(words', words) PROVE Whole(words', n, l + 1)
  <2>1. l + 1 \in 0..(Len(words) + 1)
    BY <1>1 DEF l
  <2> QED
    BY <1>1, <1>2, <1>4, <2>1, SameBelow
<1>5. CASE SetStep
  <2> DEFINE rd == [kind |-> "reading", clock |-> clock, at |-> now, run |-> run]
  <2>1. rd \in Word /\ rd.kind = "reading"
    BY StateIs DEF Word
  <2>2. words' = words \o [i \in 1..n |-> rd] /\ logger' = logger
    BY <1>5 DEF SetStep, n
  <2> HIDE DEF rd
  <2>3. /\ words' \in Seq(Word) /\ Len(words') = l + n /\ Continues(words', words)
        /\ \A i \in (l + 1)..(l + n) : words'[i] = rd
        /\ Whole(words', n, l + n + 1)
    <3>1. Whole(words, n, Len(words) + 1)
      BY <1>2 DEF l
    <3>2. WithSet(words', words, n, rd)
      BY <1>1, <2>1, <2>2, <3>1, SetAppended
    <3> QED
      BY <3>2 DEF WithSet, l
  <2>4. ASSUME NEW i \in DOMAIN words' PROVE i \in 1..l \/ words'[i].kind = "reading"
    <3>1. i \in 1..(l + n)
      BY <2>3
    <3> QED
      BY <1>1, <2>1, <2>3, <3>1
  <2>5. End' = l + n + 1 /\ n = logger'.nchan
    BY <2>2, <2>3 DEF End, n
  <2> QED
    BY <1>3, <2>3, <2>4, <2>5 DEF Layout
<1>6. ASSUME NEW type \in Types, NEW t \in Nat, NEW ok \in BOOLEAN, EventStep(type, t, ok)
      PROVE  Layout'
  <2>1. words' = words \o Event(type, t, ok) /\ logger' = logger
    BY <1>6 DEF EventStep
  <2>2. /\ words' \in Seq(Word) /\ Len(words') = l + 2 /\ Continues(words', words)
        /\ IsEvent(words', l + 1, type, t)
        /\ Cnt(Reads(words'), l + 3) = Cnt(Reads(words), l + 1)
        /\ SetsBefore(words', n, l + 3) = SetsBefore(words, n, l + 1)
    <3>1. WithEvent(words', words, n, type, t)
      BY <1>1, <2>1, EventAppended
    <3> QED
      BY <3>1 DEF WithEvent, l
  <2>3. Whole(words', n, l + 3)
    BY <1>2, <2>2 DEF Whole
  <2>4. /\ words'[l + 1].kind = "event" /\ words'[l + 2].kind = "stamp"
    BY <1>1, <2>2 DEF IsEvent
  <2>5. DOMAIN words' = 1..(l + 2) /\ l + 1 \in 1..(l + 2) /\ l + 2 \in 1..(l + 2)
        /\ (l + 1) + 1 = l + 2 /\ (l + 2) - 1 = l + 1
    BY <1>1, <2>2
  <2>6. ASSUME NEW i \in DOMAIN words' PROVE i \in 1..l \/ i = l + 1 \/ i = l + 2
    BY <1>1, <2>5
  <2>7. End' = l + 3 /\ n = logger'.nchan
    BY <1>1, <2>1, <2>2 DEF End, n
  <2>8. Whole(words', n, l + 1)
    BY <1>4, <2>2
  <2> QED
    BY <1>3, <2>2, <2>3, <2>4, <2>5, <2>6, <2>7, <2>8 DEF Layout
<1>7. CASE words' = words /\ logger' = logger
  BY <1>7 DEF Layout, End
<1> QED
  BY <1>5, <1>6, <1>7, StepIs DEF StillStep, OffloadStep

LEMMA SetsBeforeIs ==
    ASSUME NEW w \in Seq(Word), NEW n \in Nat \ {0}, NEW p \in Nat
    PROVE  SetsBefore(w, n, p) \in Nat
<1>1. Reads(w) \subseteq Nat
  BY PlacesAreNumbers
<1>2. Cnt(Reads(w), p) \in Nat
  BY <1>1, CntIs
<1> QED
  BY <1>2, Division DEF SetsBefore

LEMMA ClockCountsKept ==
    ASSUME IInv, Layout, ClockCounts, [Next]_vars
    PROVE  ClockCounts'
<1> DEFINE n == logger.nchan
           l == Len(words)
<1>1. /\ words \in Seq(Word) /\ l \in Nat /\ l >= 1 /\ DOMAIN words = 1..l /\ n \in Nat \ {0} /\ End = l + 1
      /\ clock \in Nat
  BY StateIs DEF End
<1>2. /\ Whole(words, n, l + 1)
      /\ words[1].kind = "event" /\ words[1].type = "sync" /\ words[1].clock = logger.enabled
      /\ \A i \in 1..l : words[i].kind = "event" /\ words[i].type = "sync" => i = 1
      /\ \A b \in Reads(words), a \in 1..l :
            LastAnchor(words, a, b) =>
                words[b].clock = words[a].clock + SetsBefore(words, n, b) - SetsBefore(words, n, a)
      /\ status = "logging" => \A a \in 1..l :
            LastAnchor(words, a, l + 1) =>
                clock = words[a].clock + SetsBefore(words, n, l + 1) - SetsBefore(words, n, a)
  BY <1>1 DEF Layout, ClockCounts
<1>3. \A i \in 1..l : words[i].clock \in Nat /\ SetsBefore(words, n, i) \in Nat
  <2> TAKE i \in 1..l
  <2>1. words[i] \in Word /\ i \in Nat
    BY <1>1
  <2> QED
    BY <1>1, <2>1, SetsBeforeIs DEF Word
<1>4. SetsBefore(words, n, l + 1) \in Nat
  <2>1. l + 1 \in Nat
    BY <1>1
  <2> QED
    BY <1>1, <2>1, SetsBeforeIs
<1>5. \A b \in Reads(words) : b \in 1..l
  BY <1>1 DEF Reads
<1> HIDE DEF n
<1>6. ASSUME words' \in Seq(Word), Continues(words', words)
      PROVE  /\ \A i \in 1..l : words'[i] = words[i] /\ SetsBefore(words', n, i) = SetsBefore(words, n, i)
             /\ SetsBefore(words', n, l + 1) = SetsBefore(words, n, l + 1)
             /\ \A p \in 1..(l + 1) : \A a : LastAnchor(words', a, p) => a \in 1..l /\ LastAnchor(words, a, p)
             /\ DOMAIN words' = 1..Len(words') /\ Len(words') \in Nat /\ l <= Len(words')
  <2>1. /\ DOMAIN words' = 1..Len(words') /\ Len(words') \in Nat
        /\ l <= Len(words') /\ \A j \in 1..l : words'[j] = words[j]
    BY <1>1, <1>6 DEF Continues
  <2>2. ASSUME NEW p \in 1..(l + 1)
        PROVE  /\ SetsBefore(words', n, p) = SetsBefore(words, n, p)
               /\ \A a : LastAnchor(words', a, p) => a \in 1..l /\ LastAnchor(words, a, p)
    <3>1. p \in 0..(Len(words) + 1)
      BY <1>1
    <3>2. /\ SetsBefore(words', n, p) = SetsBefore(words, n, p)
          /\ \A a : LastAnchor(words', a, p) <=> LastAnchor(words, a, p)
      BY <1>1, <1>6, <3>1, SameBelow
    <3>3. \A a : LastAnchor(words, a, p) => a \in 1..l
      BY <1>1 DEF LastAnchor
    <3> QED
      BY <3>2, <3>3
  <2>3. l + 1 \in 1..(l + 1) /\ \A i \in 1..l : i \in 1..(l + 1)
    BY <1>1
  <2> QED
    BY <2>1, <2>2, <2>3
<1> HIDE DEF l
<1>7. CASE SetStep
  <2> DEFINE rd == [kind |-> "reading", clock |-> clock, at |-> now, run |-> run]
  <2>1. rd \in Word /\ rd.kind = "reading" /\ rd.clock = clock
    BY StateIs DEF Word
  <2>2. /\ words' = words \o [i \in 1..n |-> rd] /\ logger' = logger /\ status' = status
        /\ status = "logging" /\ clock' = clock + 1
    BY <1>7 DEF SetStep, n
  <2> HIDE DEF rd
  <2>3. /\ words' \in Seq(Word) /\ Len(words') = l + n /\ Continues(words', words)
        /\ \A i \in (l + 1)..(l + n) : words'[i] = rd
        /\ \A i \in (l + 1)..(l + n) : SetsBefore(words', n, i) = SetsBefore(words, n, l + 1)
        /\ SetsBefore(words', n, l + n + 1) = SetsBefore(words, n, l + 1) + 1
        /\ \A b \in Reads(words') : b \in Reads(words) \/ b \in (l + 1)..(l + n)
    <3>1. Whole(words, n, Len(words) + 1)
      BY <1>2 DEF l
    <3>2. WithSet(words', words, n, rd)
      BY <1>1, <2>1, <2>2, <3>1, SetAppended
    <3> QED
      BY <3>2 DEF WithSet, l
  <2>4. \A i \in DOMAIN words' : i \in 1..l \/ (i \in (l + 1)..(l + n) /\ words'[i] = rd)
    BY <1>1, <2>3
  <2>5. ASSUME NEW p \in (l + 1)..(l + n + 1), NEW a, LastAnchor(words', a, p)
        PROVE  a \in 1..l /\ LastAnchor(words, a, l + 1)
    <3>1. a \in DOMAIN words' /\ a < p /\ IsAnchor(words', a)
          /\ \A i \in DOMAIN words' : a < i /\ i < p => ~ IsAnchor(words', i)
      BY <2>5 DEF LastAnchor
    <3>2. a \in 1..l
      BY <2>1, <2>4, <3>1 DEF IsAnchor
    <3>3. \A i \in 1..l : i \in DOMAIN words' /\ i < p /\ (IsAnchor(words', i) <=> IsAnchor(words, i))
      BY <1>1, <1>6, <2>3 DEF IsAnchor
    <3> QED
      BY <1>1, <3>1, <3>2, <3>3 DEF LastAnchor
  <2>6. ASSUME NEW b \in Reads(words'), NEW a \in DOMAIN words', LastAnchor(words', a, b)
        PROVE  words'[b].clock = words'[a].clock + SetsBefore(words', n, b) - SetsBefore(words', n, a)
    <3>1. CASE b \in Reads(words)
      <4>1. b \in 1..l /\ b \in 1..(l + 1)
        BY <1>1, <1>5, <3>1
      <4>2. a \in 1..l /\ LastAnchor(words, a, b)
        BY <1>6, <2>3, <2>6, <4>1
      <4> QED
        BY <1>2, <1>6, <2>3, <3>1, <4>1, <4>2
    <3>2. CASE b \in (l + 1)..(l + n)
      <4>1. b \in (l + 1)..(l + n + 1)
        BY <1>1, <3>2
      <4>2. a \in 1..l /\ LastAnchor(words, a, l + 1)
        BY <2>5, <2>6, <4>1
      <4> QED
        BY <1>2, <1>6, <2>1, <2>2, <2>3, <3>2, <4>2
    <3> QED
      BY <2>3, <3>1, <3>2
  <2>7. ASSUME NEW a \in DOMAIN words', LastAnchor(words', a, l + n + 1)
        PROVE  clock' = words'[a].clock + SetsBefore(words', n, l + n + 1) - SetsBefore(words', n, a)
    <3>1. l + n + 1 \in (l + 1)..(l + n + 1)
      BY <1>1
    <3>2. a \in 1..l /\ LastAnchor(words, a, l + 1)
      BY <2>5, <2>7, <3>1
    <3>3. clock = words[a].clock + SetsBefore(words, n, l + 1) - SetsBefore(words, n, a)
      BY <1>2, <2>2, <3>2
    <3>4. /\ words'[a] = words[a] /\ SetsBefore(words', n, a) = SetsBefore(words, n, a)
          /\ words[a].clock \in Nat /\ SetsBefore(words, n, a) \in Nat
      BY <1>3, <1>6, <2>3, <3>2
    <3>5. SetsBefore(words', n, l + n + 1) = SetsBefore(words, n, l + 1) + 1 /\ clock' = clock + 1
      BY <2>2, <2>3
    <3> QED
      BY <1>1, <1>4, <3>3, <3>4, <3>5
  <2>8. End' = l + n + 1 /\ n = logger'.nchan
    BY <2>2, <2>3 DEF End, n
  <2>9. \A i \in DOMAIN words' : words'[i].kind = "event" /\ words'[i].type = "sync" => i = 1
    BY <1>2, <1>6, <2>1, <2>3, <2>4
  <2>10. 1 \in 1..l /\ words'[1] = words[1]
    BY <1>1, <1>6, <2>3
  <2>11. words'[1].kind = "event" /\ words'[1].type = "sync" /\ words'[1].clock = logger'.enabled
    BY <1>2, <2>2, <2>10
  <2> QED
    BY <2>6, <2>7, <2>8, <2>9, <2>11 DEF ClockCounts
<1>8. ASSUME NEW type \in Types, NEW t \in Nat, NEW ok \in BOOLEAN, EventStep(type, t, ok)
      PROVE  ClockCounts'
  <2>1. words' = words \o Event(type, t, ok) /\ logger' = logger /\ type # "sync"
    BY <1>8 DEF EventStep
  <2>2. /\ words' \in Seq(Word) /\ Len(words') = l + 2 /\ Continues(words', words)
        /\ IsEvent(words', l + 1, type, t)
        /\ SetsBefore(words', n, l + 3) = SetsBefore(words, n, l + 1)
        /\ \A b \in Reads(words') : b \in Reads(words)
    <3>1. WithEvent(words', words, n, type, t)
      BY <1>1, <2>1, EventAppended
    <3> QED
      BY <3>1 DEF WithEvent, l
  <2>3. /\ words'[l + 1].kind = "event" /\ words'[l + 1].type = type /\ words'[l + 1].clock = t
        /\ words'[l + 2].kind = "stamp"
    BY <1>1, <2>2 DEF IsEvent
  <2>4. DOMAIN words' = 1..(l + 2)
    BY <1>1, <2>2
  <2>5. ASSUME NEW b \in Reads(words'), NEW a \in DOMAIN words', LastAnchor(words', a, b)
        PROVE  words'[b].clock = words'[a].clock + SetsBefore(words', n, b) - SetsBefore(words', n, a)
    <3>1. b \in Reads(words) /\ b \in 1..l /\ b \in 1..(l + 1)
      BY <1>1, <1>5, <2>2
    <3>2. a \in 1..l /\ LastAnchor(words, a, b)
      BY <1>6, <2>2, <2>5, <3>1
    <3> QED
      BY <1>2, <1>6, <2>2, <3>1, <3>2
  <2>6. ASSUME status' = "logging", NEW a \in DOMAIN words', LastAnchor(words', a, l + 3)
        PROVE  clock' = words'[a].clock + SetsBefore(words', n, l + 3) - SetsBefore(words', n, a)
    <3>1. (type = "restarted" \/ type = "cpu_reset") /\ clock' = t
      BY <1>8, <2>6 DEF EventStep, RTC_RESET_EVENTS
    <3>2. IsAnchor(words', l + 1) /\ ~ IsAnchor(words', l + 2) /\ l + 1 \in DOMAIN words' /\ l + 1 < l + 3
      BY <1>1, <2>3, <2>4, <3>1 DEF IsAnchor, ANCHOR_EVENTS, RESTART_EVENTS
    <3>3. a \in 1..(l + 2) /\ IsAnchor(words', a) /\ ~ (a < l + 1)
      BY <1>1, <2>4, <2>6, <3>2 DEF LastAnchor
    <3>4. a = l + 1
      BY <1>1, <3>2, <3>3
    <3>5. SetsBefore(words', n, l + 1) = SetsBefore(words, n, l + 1)
      BY <1>6, <2>2
    <3> QED
      BY <1>4, <2>2, <2>3, <3>1, <3>4, <3>5
  <2>7. End' = l + 3 /\ n = logger'.nchan
    BY <1>1, <2>1, <2>2 DEF End, n
  <2>8. ASSUME NEW i \in DOMAIN words', words'[i].kind = "event", words'[i].type = "sync" PROVE i = 1
    <3>1. i \in 1..l \/ i = l + 1 \/ i = l + 2
      BY <1>1, <2>4
    <3> QED
      BY <1>2, <1>6, <2>1, <2>2, <2>3, <2>8, <3>1
  <2>9. words'[1].kind = "event" /\ words'[1].type = "sync" /\ words'[1].clock = logger'.enabled
    <3>1. 1 \in 1..l /\ words'[1] = words[1]
      BY <1>1, <1>6, <2>2
    <3> QED
      BY <1>2, <2>1, <3>1
  <2> QED
    BY <2>5, <2>6, <2>7, <2>8, <2>9 DEF ClockCounts
<1>9. CASE words' = words /\ logger' = logger /\ status' = status /\ (clock' = clock \/ status = "stopped")
  BY <1>9 DEF ClockCounts, End
<1> QED
  BY <1>7, <1>8, <1>9, StepIs DEF StillStep, OffloadStep

\* What a step appends to is as it was, in every count.
LEMMA OldCounts ==
    ASSUME IInv, words' \in Seq(Word), Continues(words', words)
    PROVE  /\ \A i \in DOMAIN words : words'[i] = words[i] /\ i \in DOMAIN words'
           /\ \A p \in 0..End : Cnt(Resets(words'), p) = Cnt(Resets(words), p) /\ Runs(words', p) = Runs(words, p)
           /\ DOMAIN words' = 1..Len(words') /\ Len(words') \in Nat
<1>1. /\ words \in Seq(Word) /\ DOMAIN words = 1..Len(words) /\ Len(words) \in Nat /\ End = Len(words) + 1
      /\ logger.nchan \in Nat \ {0}
  BY StateIs DEF End
<1>2. DOMAIN words' = 1..Len(words') /\ Len(words') \in Nat
  OBVIOUS
<1>3. \A i \in DOMAIN words : words'[i] = words[i] /\ i \in DOMAIN words'
  BY <1>1, <1>2 DEF Continues
<1>4. \A p \in 0..(Len(words) + 1) : Cnt(Resets(words'), p) = Cnt(Resets(words), p)
  BY <1>1, SameBelow
<1> QED
  BY <1>1, <1>2, <1>3, <1>4 DEF Runs

LEMMA RunsAre ==
    ASSUME IInv, NEW p \in Nat
    PROVE  Runs(words, p) \in Nat \ {0} /\ (p <= End => Runs(words, p) <= Runs(words, End))
<1>1. Resets(words) \subseteq Nat /\ End \in Nat
  BY StateIs
<1>2. Cnt(Resets(words), p) \in Nat
  BY <1>1, CntIs
<1>3. p <= End => Cnt(Resets(words), p) <= Cnt(Resets(words), End) /\ Cnt(Resets(words), End) \in Nat
  BY <1>1, CntBetween
<1> QED
  BY <1>2, <1>3 DEF Runs

\* What a step appends, without its words.
LEMMA SetStepIs ==
    ASSUME IInv, Layout, RunsCounted, SetStep
    PROVE  /\ words' \in Seq(Word) /\ Continues(words', words)
           /\ \A b \in Reads(words') : \/ b \in Reads(words)
                                       \/ /\ words'[b].clock = clock /\ words'[b].at = now /\ words'[b].run = run
                                          /\ Runs(words', b) = Runs(words, End)
           /\ \A i \in DOMAIN words' : i \in DOMAIN words \/ words'[i].kind = "reading"
           /\ Runs(words', End') = Runs(words, End)
           /\ \A i \in Resets(words') : i \in Resets(words)
           /\ logger' = logger /\ status = "logging" /\ status' = status /\ setByHand = FALSE /\ setByHand' = FALSE
           /\ offloads' = offloads /\ run' = run /\ now' = now + 1 /\ clock' = clock + 1
<1> DEFINE n == logger.nchan
           l == Len(words)
           rd == [kind |-> "reading", clock |-> clock, at |-> now, run |-> run]
<1>1. /\ words \in Seq(Word) /\ l \in Nat /\ DOMAIN words = 1..l /\ n \in Nat \ {0} /\ End = l + 1
      /\ setByHand \in BOOLEAN
  BY StateIs DEF End
<1>2. rd \in Word /\ rd.kind = "reading" /\ rd.clock = clock /\ rd.at = now /\ rd.run = run
  BY StateIs DEF Word
<1>3. words' = words \o [i \in 1..n |-> rd] /\ Whole(words, n, Len(words) + 1)
  BY DEF SetStep, Layout, End
<1> HIDE DEF rd, n
<1>4. WithSet(words', words, n, rd)
  BY <1>1, <1>2, <1>3, SetAppended
<1>5. /\ words' \in Seq(Word) /\ Len(words') = l + n /\ Continues(words', words)
      /\ \A i \in (l + 1)..(l + n) : words'[i] = rd
      /\ \A p \in (l + 1)..(l + n + 1) : Cnt(Resets(words'), p) = Cnt(Resets(words), l + 1)
      /\ \A i \in Resets(words') : i \in Resets(words)
      /\ \A b \in Reads(words') : b \in Reads(words) \/ b \in (l + 1)..(l + n)
  BY <1>4 DEF WithSet
<1> HIDE DEF l
<1>6. \A p \in (l + 1)..(l + n + 1) : Runs(words', p) = Runs(words, End)
  BY <1>1, <1>5 DEF Runs
<1>7. Runs(words', End') = Runs(words, End)
  <2>1. End' = l + n + 1
    BY <1>5 DEF End
  <2>2. l + n + 1 \in (l + 1)..(l + n + 1)
    BY <1>1
  <2> QED
    BY <1>6, <2>1, <2>2
<1>8. ASSUME NEW b \in Reads(words'), b \notin Reads(words)
      PROVE  /\ words'[b].clock = clock /\ words'[b].at = now /\ words'[b].run = run
             /\ Runs(words', b) = Runs(words, End)
  <2>1. b \in (l + 1)..(l + n) /\ b \in (l + 1)..(l + n + 1)
    BY <1>1, <1>5, <1>8
  <2> QED
    BY <1>2, <1>5, <1>6, <2>1
<1>9. ASSUME NEW i \in DOMAIN words', i \notin DOMAIN words PROVE words'[i].kind = "reading"
  <2>1. i \in (l + 1)..(l + n)
    BY <1>1, <1>5, <1>9
  <2> QED
    BY <1>2, <1>5, <2>1
<1>10. /\ logger' = logger /\ status = "logging" /\ status' = status /\ setByHand' = setByHand
       /\ offloads' = offloads /\ run' = run /\ now' = now + 1 /\ clock' = clock + 1
  BY DEF SetStep
<1>11. setByHand = FALSE
  BY <1>1, <1>10 DEF RunsCounted
<1> QED
  BY <1>5, <1>7, <1>8, <1>9, <1>10, <1>11

LEMMA EventStepIs ==
    ASSUME IInv, RunsCounted, NEW type \in Types, NEW t \in Nat, NEW ok \in BOOLEAN, EventStep(type, t, ok)
    PROVE  /\ words' \in Seq(Word) /\ Continues(words', words) /\ IsEvent(words', End, type, t)
           /\ Reads(words') \subseteq Reads(words)
           /\ \A i \in DOMAIN words' : i \in DOMAIN words \/ i = End \/ words'[i].kind = "stamp"
           /\ Runs(words', End') = Runs(words, End) + (IF type \in RTC_RESET_EVENTS THEN 1 ELSE 0)
           /\ Runs(words', End + 1) = Runs(words', End')
           /\ \A i \in Resets(words') : i \in Resets(words) \/ i = End
           /\ setByHand = FALSE /\ setByHand' = FALSE
<1> DEFINE n == logger.nchan
           l == Len(words)
<1>1. /\ words \in Seq(Word) /\ l \in Nat /\ DOMAIN words = 1..l /\ n \in Nat \ {0} /\ End = l + 1
      /\ setByHand \in BOOLEAN
  BY StateIs DEF End
<1>2. words' = words \o Event(type, t, ok) /\ status = "logging" /\ setByHand' = setByHand
  BY DEF EventStep
<1>3. WithEvent(words', words, n, type, t)
  BY <1>1, <1>2, EventAppended
<1>4. /\ words' \in Seq(Word) /\ Len(words') = l + 2 /\ Continues(words', words)
      /\ IsEvent(words', l + 1, type, t)
      /\ Cnt(Resets(words'), l + 3)
           = Cnt(Resets(words), l + 1) + (IF type \in RTC_RESET_EVENTS THEN 1 ELSE 0)
      /\ Cnt(Resets(words'), l + 2) = Cnt(Resets(words'), l + 3)
      /\ \A b \in Reads(words') : b \in Reads(words)
      /\ \A i \in Resets(words') : i \in Resets(words) \/ i = l + 1
  BY <1>3 DEF WithEvent
<1> HIDE DEF l
<1>5. End' = l + 3 /\ End + 1 = l + 2
  BY <1>1, <1>4 DEF End
<1>6. Cnt(Resets(words), l + 1) \in Nat
  <2>1. Resets(words) \subseteq Nat /\ l + 1 \in Nat
    BY <1>1, StateIs
  <2> QED
    BY <2>1, CntIs
<1>7. \A i \in DOMAIN words' : i \in 1..l \/ i = l + 1 \/ i = l + 2
  BY <1>1, <1>4
<1>8. words'[l + 2].kind = "stamp"
  BY <1>1, <1>4 DEF IsEvent
<1>9. setByHand = FALSE
  BY <1>1, <1>2 DEF RunsCounted
<1> QED
  BY <1>1, <1>2, <1>4, <1>5, <1>6, <1>7, <1>8, <1>9 DEF Runs

LEMMA RunsCountedKept ==
    ASSUME IInv, Layout, RunsCounted, [Next]_vars
    PROVE  RunsCounted'
<1>1. /\ End \in Nat /\ run \in Nat /\ now \in Nat /\ setByHand \in BOOLEAN
      /\ \A b \in Reads(words) : b \in DOMAIN words /\ b \in 0..End
      /\ Runs(words, End) \in Nat
  <2>1. End \in Nat /\ DOMAIN words = 1..Len(words) /\ Len(words) \in Nat /\ run \in Nat
        /\ now \in Nat /\ setByHand \in BOOLEAN
    BY StateIs
  <2>2. Runs(words, End) \in Nat
    BY <2>1, RunsAre
  <2> QED
    BY <2>1, <2>2 DEF Reads, End
<1>2. /\ \A b \in Reads(words) : words[b].run = Runs(words, b)
      /\ run = Runs(words, End) + (IF setByHand THEN 1 ELSE 0)
      /\ setByHand => status = "stopped" /\ clock = now
  BY DEF RunsCounted
<1>3. ASSUME words' \in Seq(Word), Continues(words', words), NEW b \in Reads(words)
      PROVE  words'[b].run = Runs(words', b)
  BY <1>1, <1>2, <1>3, OldCounts
<1>4. CASE SetStep
  <2>1. /\ words' \in Seq(Word) /\ Continues(words', words)
        /\ \A b \in Reads(words') : b \in Reads(words)
                                    \/ (words'[b].run = run /\ Runs(words', b) = Runs(words, End))
        /\ Runs(words', End') = Runs(words, End)
        /\ setByHand = FALSE /\ setByHand' = FALSE /\ run' = run
    BY <1>4, SetStepIs
  <2>2. run = Runs(words, End)
    BY <1>1, <1>2, <2>1
  <2>3. ASSUME NEW b \in Reads(words') PROVE words'[b].run = Runs(words', b)
    BY <1>3, <2>1, <2>2
  <2> QED
    BY <1>1, <2>1, <2>2, <2>3 DEF RunsCounted
<1>5. ASSUME NEW type \in Types, NEW t \in Nat, NEW ok \in BOOLEAN, EventStep(type, t, ok)
      PROVE  RunsCounted'
  <2>1. /\ words' \in Seq(Word) /\ Continues(words', words) /\ Reads(words') \subseteq Reads(words)
        /\ Runs(words', End') = Runs(words, End) + (IF type \in RTC_RESET_EVENTS THEN 1 ELSE 0)
        /\ setByHand = FALSE /\ setByHand' = FALSE
    BY <1>5, EventStepIs
  <2>2. run' = IF type \in RTC_RESET_EVENTS THEN run + 1 ELSE run
    BY <1>5 DEF EventStep, RTC_RESET_EVENTS
  <2>3. run' = Runs(words', End')
    BY <1>1, <1>2, <2>1, <2>2
  <2>4. \A b \in Reads(words') : words'[b].run = Runs(words', b)
    BY <1>3, <2>1
  <2>5. Runs(words', End') \in Nat
    BY <1>1, <2>1
  <2> QED
    BY <2>1, <2>3, <2>4, <2>5 DEF RunsCounted
<1>6. CASE StillStep
  <2>1. words' = words /\ End' = End /\ status' = status
    BY <1>6 DEF StillStep, End
  <2>2. CASE clock' = now /\ now' = now /\ run' = run + 1 /\ setByHand' = TRUE /\ clock # now /\ status = "stopped"
    <3>1. setByHand = FALSE
      BY <1>1, <1>2, <2>2
    <3>2. run' = Runs(words, End) + 1
      BY <1>1, <1>2, <2>2, <3>1
    <3> QED
      BY <1>2, <2>1, <2>2, <3>2 DEF RunsCounted
  <2>3. CASE (clock = now => clock' = now') /\ UNCHANGED <<run, setByHand>>
    BY <1>2, <2>1, <2>3 DEF RunsCounted
  <2>4. now' = now + 1 /\ clock' = clock + 1 => (clock = now => clock' = now')
    OBVIOUS
  <2> QED
    BY <1>6, <2>2, <2>3, <2>4 DEF StillStep
<1>7. ASSUME NEW by, NEW n, OffloadStep(by, n) PROVE RunsCounted'
  BY <1>7 DEF OffloadStep, RunsCounted, End
<1> QED
  BY <1>4, <1>5, <1>6, <1>7, StepIs

\* Nothing was sampled, and nothing measured, in a run that is yet to come.
LEMMA NoRunAhead ==
    ASSUME IInv, RunsCounted, SkewsMeasured
    PROVE  /\ \A b \in Reads(words) : words[b].run <= run /\ (setByHand => words[b].run < run)
           /\ \A k \in DOMAIN offloads : offloads[k].run <= run
<1>1. /\ End \in Nat /\ run \in Nat /\ setByHand \in BOOLEAN /\ Runs(words, End) \in Nat
      /\ \A b \in Reads(words) : b \in Nat /\ b <= End
      /\ \A k \in DOMAIN offloads : offloads[k].bytes + 1 \in Nat /\ offloads[k].bytes + 1 <= End
  <2>1. End \in Nat /\ DOMAIN words = 1..Len(words) /\ Len(words) \in Nat /\ run \in Nat
        /\ setByHand \in BOOLEAN
        /\ \A k \in DOMAIN offloads : offloads[k].bytes \in Nat /\ offloads[k].bytes <= Len(words)
    BY StateIs
  <2>2. Runs(words, End) \in Nat
    BY <2>1, RunsAre
  <2> QED
    BY <2>1, <2>2 DEF Reads, End
<1>2. \A b \in Reads(words) : words[b].run <= Runs(words, End) /\ words[b].run \in Nat
  BY <1>1, RunsAre DEF RunsCounted
<1>3. Runs(words, End) <= run /\ (setByHand => Runs(words, End) < run)
  BY <1>1 DEF RunsCounted
<1>4. ASSUME NEW k \in DOMAIN offloads PROVE offloads[k].run <= run
  <2>1. offloads[k].run = Runs(words, offloads[k].bytes + 1) \/ offloads[k].run = run
    BY <1>4 DEF SkewsMeasured
  <2>2. /\ Runs(words, offloads[k].bytes + 1) <= Runs(words, End)
        /\ Runs(words, offloads[k].bytes + 1) \in Nat
    BY <1>1, RunsAre
  <2> QED
    BY <1>1, <1>3, <2>1, <2>2
<1> QED
  BY <1>1, <1>2, <1>3, <1>4

LEMMA TimeGoesOn ==
    ASSUME NEW t \in Nat, NEW u \in Nat, NEW c \in Nat, NEW d \in Nat, NEW s \in Nat, t <= u, t >= s
    PROVE  /\ u >= s /\ 0 <= u - s
           /\ d - u = c - t => (c = t => d = u) /\ (c <= t - s => d <= u - s)
  OBVIOUS

LEMMA ClockRightKept ==
    ASSUME IInv, Layout, RunsCounted, ClockRight, SkewsMeasured, [Next]_vars
    PROVE  ClockRight'
<1>1. /\ End \in Nat /\ End >= 1 /\ run \in Nat \ {0} /\ now \in Nat /\ clock \in Nat /\ clock <= now
      /\ setByHand \in BOOLEAN
      /\ DOMAIN words = 1..(End - 1) /\ \A b \in Reads(words) : b \in DOMAIN words
      /\ StartTime \in Nat /\ logger.enabled \in {0, StartTime}
  BY StateIs DEF Reads, End
<1>2. \A b \in Reads(words) : words[b].clock \in Nat /\ words[b].at \in Nat /\ words[b].run \in Nat
  <2> TAKE b \in Reads(words)
  <2>1. words[b] \in Word /\ words[b].kind = "reading"
    BY StateIs DEF Reads
  <2> QED
    BY <2>1 DEF Word
<1>3. /\ now >= StartTime
      /\ RightRun(run) => clock = now
      /\ ~ RightRun(run) /\ ~ setByHand => clock <= now - StartTime
      /\ \A i \in DOMAIN words : words[i].kind = "event" =>
            /\ words[i].type \in ANCHOR_EVENTS /\ RightRun(Runs(words, i + 1)) => words[i].clock >= logger.enabled
            /\ words[i].type = "restarted" => words[i].clock = 0
      /\ \A b \in Reads(words) :
            /\ StartTime <= words[b].at /\ words[b].at < now
            /\ RightRun(words[b].run) => words[b].clock = words[b].at
            /\ ~ RightRun(words[b].run) => words[b].clock <= words[b].at - StartTime
            /\ words[b].run = run => words[b].clock - words[b].at = clock - now
  BY DEF ClockRight
<1>4. ASSUME words' \in Seq(Word), Continues(words', words), NEW i \in DOMAIN words
      PROVE  /\ words'[i] = words[i] /\ Runs(words', i + 1) = Runs(words, i + 1)
  <2>1. i + 1 \in 0..End
    BY <1>1
  <2> QED
    BY <1>4, <2>1, OldCounts
<1>5. logger' = logger => \A r : (RightRun(r))' <=> RightRun(r)
  BY DEF RightRun
<1>6. CASE SetStep
  <2>1. /\ words' \in Seq(Word) /\ Continues(words', words)
        /\ \A b \in Reads(words') : \/ b \in Reads(words)
                                    \/ words'[b].clock = clock /\ words'[b].at = now /\ words'[b].run = run
        /\ \A i \in DOMAIN words' : i \in DOMAIN words \/ words'[i].kind = "reading"
        /\ logger' = logger /\ setByHand = FALSE /\ setByHand' = FALSE
        /\ run' = run /\ now' = now + 1 /\ clock' = clock + 1
    BY <1>6, SetStepIs
  <2>2. ASSUME NEW b \in Reads(words')
        PROVE  /\ StartTime <= words'[b].at /\ words'[b].at < now'
               /\ RightRun(words'[b].run) => words'[b].clock = words'[b].at
               /\ ~ RightRun(words'[b].run) => words'[b].clock <= words'[b].at - StartTime
               /\ words'[b].run = run' => words'[b].clock - words'[b].at = clock' - now'
    <3>1. CASE b \in Reads(words)
      <4>1. words'[b] = words[b]
        BY <1>1, <1>4, <2>1, <3>1
      <4> QED
        BY <1>1, <1>2, <1>3, <2>1, <3>1, <4>1
    <3>2. CASE words'[b].clock = clock /\ words'[b].at = now /\ words'[b].run = run
      BY <1>1, <1>3, <2>1, <3>2
    <3> QED
      BY <2>1, <3>1, <3>2
  <2>3. ASSUME NEW i \in DOMAIN words', words'[i].kind = "event"
        PROVE  /\ words'[i].type \in ANCHOR_EVENTS /\ RightRun(Runs(words', i + 1))
                     => words'[i].clock >= logger.enabled
               /\ words'[i].type = "restarted" => words'[i].clock = 0
    <3>1. i \in DOMAIN words
      BY <2>1, <2>3
    <3> QED
      BY <1>3, <1>4, <2>1, <2>3, <3>1
  <2>4. /\ now' >= StartTime /\ (RightRun(run') => clock' = now')
        /\ (~ RightRun(run') /\ ~ setByHand' => clock' <= now' - StartTime)
    BY <1>1, <1>3, <2>1
  <2> QED
    BY <1>5, <2>1, <2>2, <2>3, <2>4 DEF ClockRight
<1>7. ASSUME NEW type \in Types, NEW t \in Nat, NEW ok \in BOOLEAN, EventStep(type, t, ok)
      PROVE  ClockRight'
  <2>1. /\ words' \in Seq(Word) /\ Continues(words', words) /\ IsEvent(words', End, type, t)
        /\ Reads(words') \subseteq Reads(words)
        /\ \A i \in DOMAIN words' : i \in DOMAIN words \/ i = End \/ words'[i].kind = "stamp"
        /\ Runs(words', End') = Runs(words, End) + (IF type \in RTC_RESET_EVENTS THEN 1 ELSE 0)
        /\ Runs(words', End + 1) = Runs(words', End')
        /\ setByHand = FALSE /\ setByHand' = FALSE
    BY <1>7, EventStepIs
  <2>2. /\ logger' = logger /\ type # "sync" /\ now' \in Nat /\ clock' \in Nat /\ now <= now'
        /\ \/ type \in RTC_RESET_EVENTS /\ t = 0 /\ clock' = 0 /\ run' = run + 1
           \/ type = "cpu_reset" /\ t = clock' /\ clock' - now' = clock - now /\ run' = run
           \/ type = "stop" /\ t = clock /\ clock' = clock /\ now' = now /\ run' = run
    BY <1>7 DEF EventStep
  <2>3. /\ now' >= StartTime /\ (RightRun(run') => clock' = now')
        /\ (~ RightRun(run') /\ ~ setByHand' => clock' <= now' - StartTime)
    <3>a. /\ now' \in Nat /\ clock' \in Nat /\ now <= now' /\ now >= StartTime /\ StartTime \in Nat
          /\ now \in Nat /\ clock \in Nat
      BY <1>1, <1>3, <2>2
    <3>1. CASE clock' = 0 /\ run' = run + 1
      <4>1. ~ RightRun(run')
        BY <1>1, <3>1 DEF RightRun
      <4>2. now' >= StartTime /\ 0 <= now' - StartTime
        BY <3>a, TimeGoesOn
      <4> QED
        BY <3>1, <4>1, <4>2
    <3>2. CASE clock' - now' = clock - now /\ run' = run
      <4>1. RightRun(run') <=> RightRun(run)
        BY <3>2 DEF RightRun
      <4>2. now' >= StartTime /\ (clock = now => clock' = now')
            /\ (clock <= now - StartTime => clock' <= now' - StartTime)
        BY <3>a, <3>2, TimeGoesOn
      <4> QED
        BY <1>3, <2>1, <4>1, <4>2
    <3> QED
      BY <1>1, <2>2, <3>1, <3>2
  <2>4. run = Runs(words, End)
    BY <1>1, <2>1, RunsAre DEF RunsCounted
  <2>5. ASSUME NEW i \in DOMAIN words', words'[i].kind = "event"
        PROVE  /\ words'[i].type \in ANCHOR_EVENTS /\ RightRun(Runs(words', i + 1))
                     => words'[i].clock >= logger.enabled
               /\ words'[i].type = "restarted" => words'[i].clock = 0
    <3>1. CASE i \in DOMAIN words
      BY <1>3, <1>4, <2>1, <2>5, <3>1
    <3>2. CASE i = End
      <4>1. words'[i].type = type /\ words'[i].clock = t
        BY <2>1, <3>2 DEF IsEvent
      <4>2. type = "restarted" => t = 0
        BY <2>2 DEF RTC_RESET_EVENTS
      <4>3. ASSUME type \in ANCHOR_EVENTS, RightRun(Runs(words', i + 1)) PROVE t >= logger.enabled
        <5>1. type = "cpu_reset" \/ type = "restarted"
          BY <2>2, <4>3 DEF ANCHOR_EVENTS, RESTART_EVENTS
        <5>2. Runs(words', End') = 1
          BY <2>1, <3>2, <4>3 DEF RightRun
        <5>3. type # "restarted"
          BY <1>1, <2>1, <2>4, <5>2 DEF RTC_RESET_EVENTS
        <5>4. run = 1 /\ type = "cpu_reset" /\ type \notin RTC_RESET_EVENTS
          BY <1>1, <2>1, <2>4, <5>1, <5>2, <5>3 DEF RTC_RESET_EVENTS
        <5>5. RightRun(run') /\ t = clock'
          BY <2>2, <4>3, <5>4 DEF RightRun
        <5> QED
          BY <1>1, <2>2, <2>3, <5>5
      <4> QED
        BY <4>1, <4>2, <4>3
    <3>3. words'[i].kind # "stamp"
      BY <2>5
    <3> QED
      BY <2>1, <3>1, <3>2, <3>3
  <2>6. ASSUME NEW b \in Reads(words')
        PROVE  /\ StartTime <= words'[b].at /\ words'[b].at < now'
               /\ RightRun(words'[b].run) => words'[b].clock = words'[b].at
               /\ ~ RightRun(words'[b].run) => words'[b].clock <= words'[b].at - StartTime
               /\ words'[b].run = run' => words'[b].clock - words'[b].at = clock' - now'
    <3>1. b \in Reads(words) /\ words'[b] = words[b]
      BY <1>1, <1>4, <2>1
    <3>2. words[b].run <= run
      BY <3>1, NoRunAhead
    <3>3. words'[b].run = run' => words[b].run = run /\ clock' - now' = clock - now
      BY <1>1, <1>2, <2>2, <3>1, <3>2
    <3> QED
      BY <1>1, <1>2, <1>3, <2>2, <3>1, <3>3
  <2> QED
    BY <1>5, <2>2, <2>3, <2>5, <2>6 DEF ClockRight
<1>8. CASE StillStep
  <2>1. words' = words /\ logger' = logger
    BY <1>8 DEF StillStep
  <2>2. CASE clock' = now /\ now' = now /\ run' = run + 1 /\ setByHand' = TRUE
    <3>1. ~ RightRun(run')
      BY <1>1, <2>2 DEF RightRun
    <3>2. \A b \in Reads(words) : words[b].run # run'
      BY <1>1, <1>2, <2>2, NoRunAhead
    <3> QED
      BY <1>3, <1>5, <2>1, <2>2, <3>1, <3>2 DEF ClockRight
  <2>3. CASE now' \in {now, now + 1} /\ clock' - now' = clock - now /\ clock' \in Nat /\ UNCHANGED <<run, setByHand>>
    <3>1. now' >= StartTime /\ now' >= now /\ (clock = now => clock' = now')
          /\ (clock <= now - StartTime => clock' <= now' - StartTime)
      <4>1. now \in Nat /\ clock \in Nat /\ StartTime \in Nat /\ now >= StartTime
        BY <1>1, <1>3
      <4>2. (now' = now \/ now' = now + 1) /\ clock' - now' = clock - now /\ clock' \in Nat
        BY <2>3
      <4>3. now' \in Nat /\ now <= now' /\ now' >= StartTime
        BY <4>1, <4>2
      <4>4. (clock = now => clock' = now') /\ (clock <= now - StartTime => clock' <= now' - StartTime)
        BY <4>1, <4>2, <4>3, TimeGoesOn
      <4> QED
        BY <4>1, <4>3, <4>4
    <3>2. (RightRun(run') => clock' = now') /\ (~ RightRun(run') /\ ~ setByHand' => clock' <= now' - StartTime)
      BY <1>3, <2>3, <3>1 DEF RightRun
    <3>3. ASSUME NEW b \in Reads(words)
          PROVE  words[b].at < now' /\ (words[b].run = run' => words[b].clock - words[b].at = clock' - now')
      <4>1. words[b].at < now /\ words[b].at \in Nat /\ now' \in Nat
        BY <1>1, <1>2, <1>3, <2>3
      <4>2. words[b].at < now'
        BY <1>1, <3>1, <4>1
      <4> QED
        BY <1>3, <2>3, <4>2
    <3> QED
      BY <1>3, <1>5, <2>1, <3>1, <3>2, <3>3 DEF ClockRight
  <2>4. /\ now' = now + 1 /\ clock' = clock + 1 => now' \in {now, now + 1} /\ clock' - now' = clock - now /\ clock' \in Nat
        /\ now' = now /\ clock' = clock => now' \in {now, now + 1} /\ clock' - now' = clock - now /\ clock' \in Nat
    BY <1>1
  <2> QED
    BY <1>8, <2>2, <2>3, <2>4 DEF StillStep
<1>9. ASSUME NEW by, NEW n, OffloadStep(by, n) PROVE ClockRight'
  BY <1>9 DEF OffloadStep, ClockRight, RightRun
<1> QED
  BY <1>6, <1>7, <1>8, <1>9, StepIs

LEMMA SkewsKept ==
    ASSUME IInv, Layout, RunsCounted, ClockRight, SkewsMeasured, [Next]_vars
    PROVE  SkewsMeasured'
<1>1. /\ End \in Nat /\ End >= 1 /\ run \in Nat \ {0} /\ now \in Nat /\ clock \in Nat
      /\ DOMAIN words = 1..(End - 1) /\ \A b \in Reads(words) : b \in DOMAIN words
      /\ DOMAIN offloads = 1..Len(offloads) /\ Len(offloads) \in Nat
      /\ \A k \in DOMAIN offloads : /\ offloads[k].bytes \in Nat /\ offloads[k].bytes < End
                                    /\ offloads[k].bytes + 1 \in 0..End
                                    /\ offloads[k].skew \in Int /\ offloads[k].run \in Nat
  <2>1. /\ End = Len(words) + 1 /\ Len(words) \in Nat /\ Len(words) >= 1 /\ DOMAIN words = 1..Len(words)
        /\ \A k \in DOMAIN offloads : offloads[k].bytes \in Nat /\ offloads[k].bytes <= Len(words)
    BY StateIs DEF End
  <2>2. \A k \in DOMAIN offloads : offloads[k].bytes < End /\ offloads[k].bytes + 1 \in 0..End
    BY <2>1
  <2>3. /\ run \in Nat \ {0} /\ now \in Nat /\ clock \in Nat /\ DOMAIN offloads = 1..Len(offloads) /\ Len(offloads) \in Nat
        /\ \A k \in DOMAIN offloads : offloads[k].skew \in Int /\ offloads[k].run \in Nat
    BY StateIs
  <2>4. DOMAIN words = 1..(End - 1) /\ End \in Nat /\ End >= 1
    BY <2>1
  <2>5. \A b \in Reads(words) : b \in DOMAIN words
    BY DEF Reads
  <2> QED
    BY <2>1, <2>2, <2>3, <2>4, <2>5
<1>2. \A k \in DOMAIN offloads :
         /\ offloads[k].bytes \notin Resets(words)
         /\ offloads[k].run = Runs(words, offloads[k].bytes + 1) \/ (setByHand /\ offloads[k].run = run)
         /\ offloads[k].by # "none" =>
              /\ offloads[k].run = run => offloads[k].skew = clock - now
              /\ RightRun(offloads[k].run) => offloads[k].skew = 0
              /\ \A b \in Reads(words) : words[b].run = offloads[k].run => offloads[k].skew = words[b].clock - words[b].at
  BY DEF SkewsMeasured
<1>3. ASSUME words' \in Seq(Word), Continues(words', words)
      PROVE  /\ \A b \in Reads(words) : words'[b] = words[b]
             /\ \A k \in DOMAIN offloads : Runs(words', offloads[k].bytes + 1) = Runs(words, offloads[k].bytes + 1)
  BY <1>1, <1>3, OldCounts
<1>4. logger' = logger => \A r : (RightRun(r))' <=> RightRun(r)
  BY DEF RightRun
<1>5. CASE SetStep
  <2>1. /\ words' \in Seq(Word) /\ Continues(words', words)
        /\ \A b \in Reads(words') : \/ b \in Reads(words)
                                    \/ words'[b].clock = clock /\ words'[b].at = now /\ words'[b].run = run
        /\ \A i \in Resets(words') : i \in Resets(words)
        /\ logger' = logger /\ setByHand = FALSE /\ setByHand' = FALSE
        /\ offloads' = offloads /\ run' = run /\ now' = now + 1 /\ clock' = clock + 1
    BY <1>5, SetStepIs
  <2>2. ASSUME NEW k \in DOMAIN offloads, offloads[k].by # "none", NEW b \in Reads(words'),
               words'[b].run = offloads[k].run
        PROVE  offloads[k].skew = words'[b].clock - words'[b].at
    <3>1. CASE b \in Reads(words)
      BY <1>2, <1>3, <2>1, <2>2, <3>1
    <3>2. CASE words'[b].clock = clock /\ words'[b].at = now /\ words'[b].run = run
      BY <1>2, <2>2, <3>2
    <3> QED
      BY <2>1, <3>1, <3>2
  <2>3. clock' - now' = clock - now
    BY <1>1, <2>1
  <2> QED
    BY <1>2, <1>3, <1>4, <2>1, <2>2, <2>3 DEF SkewsMeasured
<1>6. ASSUME NEW type \in Types, NEW t \in Nat, NEW ok \in BOOLEAN, EventStep(type, t, ok)
      PROVE  SkewsMeasured'
  <2>1. /\ words' \in Seq(Word) /\ Continues(words', words) /\ Reads(words') \subseteq Reads(words)
        /\ \A i \in Resets(words') : i \in Resets(words) \/ i = End
        /\ setByHand = FALSE /\ setByHand' = FALSE
    BY <1>6, EventStepIs
  <2>2. /\ logger' = logger /\ offloads' = offloads
        /\ run' = run + 1 \/ (run' = run /\ clock' - now' = clock - now)
    BY <1>6 DEF EventStep
  <2>3. ASSUME NEW k \in DOMAIN offloads, offloads[k].by # "none", offloads[k].run = run'
        PROVE  offloads[k].skew = clock' - now'
    <3>1. offloads[k].run <= run
      BY NoRunAhead
    <3>2. run' = run
      BY <1>1, <2>2, <2>3, <3>1
    <3> QED
      BY <1>1, <1>2, <2>2, <2>3, <3>2
  <2>4. \A k \in DOMAIN offloads : offloads[k].bytes \notin Resets(words')
    BY <1>1, <1>2, <2>1
  <2> QED
    BY <1>2, <1>3, <1>4, <2>1, <2>2, <2>3, <2>4 DEF SkewsMeasured
<1>7. CASE StillStep
  <2>1. words' = words /\ logger' = logger /\ offloads' = offloads
    BY <1>7 DEF StillStep
  <2>2. \/ clock' = now /\ now' = now /\ run' = run + 1 /\ setByHand' = TRUE /\ setByHand = FALSE
        \/ clock' - now' = clock - now /\ UNCHANGED <<run, setByHand>>
    <3>1. now' = now + 1 /\ clock' = clock + 1 => clock' - now' = clock - now
      BY <1>1
    <3>2. clock # now => setByHand = FALSE
      BY StateIs DEF RunsCounted
    <3> QED
      BY <1>7, <3>1, <3>2 DEF StillStep
  <2>3. ASSUME NEW k \in DOMAIN offloads, offloads[k].by # "none", offloads[k].run = run'
        PROVE  offloads[k].skew = clock' - now'
    <3>1. offloads[k].run <= run
      BY NoRunAhead
    <3>2. run' = run /\ clock' - now' = clock - now
      BY <1>1, <2>2, <2>3, <3>1
    <3> QED
      BY <1>2, <2>3, <3>2
  <2>4. ASSUME NEW k \in DOMAIN offloads
        PROVE  offloads[k].run = Runs(words, offloads[k].bytes + 1) \/ (setByHand' /\ offloads[k].run = run')
    BY <1>2, <2>2
  <2> QED
    BY <1>2, <1>4, <2>1, <2>3, <2>4 DEF SkewsMeasured
<1>8. ASSUME NEW by \in Measures, NEW n \in Nat, OffloadStep(by, n)
      PROVE  SkewsMeasured'
  <2> DEFINE o == [bytes |-> n, at |-> now, by |-> by, skew |-> IF by = "none" THEN 0 ELSE clock - now, run |-> run]
  <2>1. /\ n \in {Len(words), Len(words) - 1} /\ (n < Len(words) => n \notin Resets(words))
        /\ offloads' = Append(offloads, o)
        /\ UNCHANGED <<logger, words, now, clock, run, setByHand>>
    BY <1>8 DEF OffloadStep
  <2>2. o.bytes = n /\ o.run = run /\ (o.by # "none" => o.skew = clock - now)
    OBVIOUS
  <2> HIDE DEF o
  <2>3. DOMAIN offloads' = 1..(Len(offloads) + 1)
        /\ \A k \in DOMAIN offloads' : offloads'[k] = IF k \in DOMAIN offloads THEN offloads[k] ELSE o
    <3>1. offloads \in Seq(OffloadRecord)
      BY StateIs
    <3> QED
      BY <1>1, <2>1, <3>1
  <2>4. n \notin Resets(words) /\ Runs(words, n + 1) = Runs(words, End)
    <3>1. /\ words \in Seq(Word) /\ DOMAIN words = 1..Len(words) /\ Len(words) \in Nat /\ End = Len(words) + 1
          /\ Resets(words) \subseteq Nat
      BY StateIs DEF End
    <3>2. Len(words) \notin Resets(words)
      <4>1. Len(words) + 1 \notin DOMAIN words
        BY <3>1
      <4> QED
        BY <4>1 DEF Layout, Resets
    <3>3. CASE n = Len(words)
      BY <3>1, <3>2, <3>3
    <3>4. CASE n = Len(words) - 1
      <4>1. n < Len(words) /\ n + 1 = Len(words)
        BY <3>1, <3>4
      <4> DEFINE p == Len(words)
      <4>2. p \in Nat /\ p \notin Resets(words) /\ p + 1 = End
        BY <3>1, <3>2
      <4> HIDE DEF p
      <4>3. Cnt(Resets(words), p + 1) = Cnt(Resets(words), p) + 0 /\ Cnt(Resets(words), p) \in Nat
        BY <3>1, <4>2, CntNext, CntIs
      <4>4. Cnt(Resets(words), End) = Cnt(Resets(words), p)
        BY <4>2, <4>3
      <4>5. n + 1 = p
        BY <4>1 DEF p
      <4> QED
        BY <2>1, <4>1, <4>4, <4>5 DEF Runs
    <3> QED
      BY <2>1, <3>3, <3>4
  <2>5. o.run = Runs(words, o.bytes + 1) \/ (setByHand /\ o.run = run)
    <3>1. setByHand \in BOOLEAN /\ Runs(words, End) \in Nat
      BY <1>1, StateIs, RunsAre
    <3>2. ~ setByHand => run = Runs(words, End)
      BY <3>1 DEF RunsCounted
    <3> QED
      BY <2>2, <2>4, <3>1, <3>2
  <2>6. ASSUME o.by # "none"
        PROVE  /\ o.skew = clock - now
               /\ RightRun(o.run) => o.skew = 0
               /\ \A b \in Reads(words) : words[b].run = o.run => o.skew = words[b].clock - words[b].at
    <3>1. o.skew = clock - now
      BY <2>2, <2>6
    <3>2. RightRun(run) => clock - now = 0
      BY <1>1 DEF ClockRight
    <3> QED
      BY <2>2, <3>1, <3>2 DEF ClockRight
  <2>7. ASSUME NEW k \in DOMAIN offloads'
        PROVE  /\ offloads'[k].bytes \notin Resets(words)
               /\ offloads'[k].run = Runs(words, offloads'[k].bytes + 1) \/ (setByHand /\ offloads'[k].run = run)
               /\ offloads'[k].by # "none" =>
                    /\ offloads'[k].run = run => offloads'[k].skew = clock - now
                    /\ RightRun(offloads'[k].run) => offloads'[k].skew = 0
                    /\ \A b \in Reads(words) : words[b].run = offloads'[k].run
                                                  => offloads'[k].skew = words[b].clock - words[b].at
    <3>1. CASE k \in DOMAIN offloads
      BY <1>2, <2>3, <3>1
    <3>2. CASE offloads'[k] = o
      BY <2>2, <2>4, <2>5, <2>6, <3>2
    <3> QED
      BY <2>3, <3>1, <3>2
  <2> QED
    BY <1>4, <2>1, <2>7 DEF SkewsMeasured
<1> QED
  BY <1>5, <1>6, <1>7, <1>8, StepIs

LEMMA ClocksBegin ==
    ASSUME Init, IInv
    PROVE  Clocks
<1>1. /\ now = StartTime /\ clock = logger.enabled /\ run = 1 /\ status = "logging" /\ setByHand = FALSE
      /\ offloads = <<>>
  BY DEF Init
<1>2. PICK ok \in BOOLEAN : words = Event("sync", clock, ok)
  <2>1. CASE MaxCorrupt > 0
    BY <2>1 DEF Init
  <2>2. CASE ~ (MaxCorrupt > 0)
    <3>1. words = Event("sync", clock, TRUE)
      BY <2>2 DEF Init
    <3> QED
      BY <3>1
  <2> QED
    BY <2>1, <2>2
<1>3. /\ logger.nchan \in Nat \ {0} /\ logger.enabled \in {0, StartTime} /\ StartTime \in Nat /\ StartTime # 0
      /\ clock \in Nat /\ words \in Seq(Word)
  BY StateIs
<1> DEFINE a == [kind |-> "event", type |-> "sync", clock |-> clock, ok |-> ok]
           s == [kind |-> "stamp", clock |-> clock]
           n == logger.nchan
<1>4. words = <<a, s>>
  BY <1>2 DEF Event
<1>5. a.kind = "event" /\ a.type = "sync" /\ a.clock = clock /\ s.kind = "stamp"
  OBVIOUS
<1> HIDE DEF a, s, n
<1>6. DOMAIN words = {1, 2} /\ words[1] = a /\ words[2] = s /\ End = 3
  BY <1>4 DEF End
<1>7. Reads(words) = {} /\ Resets(words) = {}
  BY <1>5, <1>6 DEF Reads, Resets, RTC_RESET_EVENTS
<1>8. \A p : Cnt({}, p) = 0
  <2> TAKE p
  <2>1. {i \in {} : i < p} = {}
    OBVIOUS
  <2> QED
    BY <2>1, FS_EmptySet DEF Cnt
<1>9. \A p : /\ Cnt(Reads(words), p) = 0 /\ Cnt(Resets(words), p) = 0
             /\ SetsBefore(words, n, p) = 0 /\ Whole(words, n, p) /\ Runs(words, p) = 1
  <2> TAKE p
  <2>1. Cnt(Reads(words), p) = 0 /\ Cnt(Resets(words), p) = 0
    BY <1>7, <1>8
  <2>2. n \in Nat \ {0}
    BY <1>3 DEF n
  <2>3. SetsBefore(words, n, p) = 0
    <3>1. 0 \div n = 0
      BY <2>2
    <3> QED
      BY <2>1, <3>1 DEF SetsBefore
  <2>4. Whole(words, n, p)
    BY <2>1, <2>2, <2>3 DEF Whole
  <2> QED
    BY <2>1, <2>3, <2>4 DEF Runs
<1>10. Layout
  BY <1>5, <1>6, <1>9 DEF Layout, n
<1>11. ClockCounts
  <2>1. \A i \in DOMAIN words : \A p : LastAnchor(words, i, p) => i = 1
    BY <1>5, <1>6 DEF LastAnchor, IsAnchor
  <2>2. words[1].clock + 0 - 0 = clock
    BY <1>3, <1>5, <1>6
  <2> QED
    BY <1>1, <1>5, <1>6, <1>7, <1>9, <2>1, <2>2 DEF ClockCounts, n
<1>12. RunsCounted
  BY <1>1, <1>7, <1>9 DEF RunsCounted
<1>13. ClockRight
  <2>1. RightRun(run) <=> logger.enabled # 0
    BY <1>1 DEF RightRun
  <2>2. words[1].clock = clock /\ words[1].type = "sync" /\ words[2].kind = "stamp"
    BY <1>5, <1>6
  <2> QED
    BY <1>1, <1>3, <1>6, <1>7, <2>1, <2>2 DEF ClockRight
<1>14. SkewsMeasured
  <2>1. DOMAIN offloads = {}
    BY <1>1
  <2> QED
    BY <2>1 DEF SkewsMeasured
<1> QED
  BY <1>10, <1>11, <1>12, <1>13, <1>14 DEF Clocks

LEMMA ClocksKept == Spec => []Clocks
<1>1. Init /\ IInv => Clocks
  BY ClocksBegin
<1>2. IInv /\ Clocks /\ [Next]_vars => Clocks'
  <2> SUFFICES ASSUME IInv, Clocks, [Next]_vars PROVE Clocks'
    OBVIOUS
  <2>1. Layout /\ ClockCounts /\ RunsCounted /\ ClockRight /\ SkewsMeasured
    BY DEF Clocks
  <2>2. Layout' /\ ClockCounts'
    BY <2>1, LayoutKept, ClockCountsKept
  <2>3. RunsCounted' /\ ClockRight' /\ SkewsMeasured'
    BY <2>1, RunsCountedKept, ClockRightKept, SkewsKept
  <2> QED
    BY <2>2, <2>3 DEF Clocks
<1> QED
  BY <1>1, <1>2, Invariance, PTL DEF Spec

\* What a skew was measured on: the record tells how the logger's clock stood to UTC at
\* each sample of the run of the clock that the offload was made in, of those stored
\* before it and of those stored after (ncwrite.skew_vs_utc, as rawbin.resolve_times
\* uses it).
THEOREM SkewsAreMeasured == Spec => []SkewsMeasured
<1>1. Clocks => SkewsMeasured
  BY DEF Clocks
<1> QED
  BY <1>1, ClocksKept, PTL

-----------------------------------------------------------------------------
(* When each word of the memory was stored, and the offloads made.         *)

\* The moment t at which a word of the memory was stored, and the clock c at it: how the
\* clock stood to UTC then is how it stood, and will stand, at every other sample of the
\* same run and at every offload made in it, and nothing stored later was stored sooner.
Moment(p, c, t) ==
    /\ StartTime <= t /\ t <= now
    /\ RightRun(Runs(words, p)) => c = t
    /\ ~ RightRun(Runs(words, p)) => c <= t - StartTime
    /\ Runs(words, p) = run => c - t = clock - now
    /\ \A d \in Reads(words) : d < p =>
          /\ SetsBefore(words, logger.nchan, d) < SetsBefore(words, logger.nchan, p) => words[d].at < t
          /\ Runs(words, d) = Runs(words, p) => words[d].clock - words[d].at = c - t
    /\ \A k \in DOMAIN offloads :
          /\ offloads[k].by # "none" /\ offloads[k].run = Runs(words, p) => offloads[k].skew = c - t
          /\ p <= offloads[k].bytes => t <= offloads[k].at

\* The clock as the anchors before it tell it.
ToldBefore(p, c) ==
    /\ p = 1 => c = logger.enabled
    /\ \A a \in DOMAIN words : LastAnchor(words, a, p) =>
          c = words[a].clock + SetsBefore(words, logger.nchan, p) - SetsBefore(words, logger.nchan, a)

HasMoment(p) == \E c, t \in Nat : Moment(p, c, t) /\ ToldBefore(p, c)

\* Each reading has a moment, and each event that is no restart.
Moments ==
    /\ \A b \in Reads(words) : Moment(b, words[b].clock, words[b].at)
    /\ \A p \in DOMAIN words : words[p].kind = "event" /\ p \notin Resets(words) => HasMoment(p)

OffloadAdded(o) ==
    /\ offloads' = Append(offloads, o) /\ o.run = run /\ o.at = now /\ o.bytes \in Nat
    /\ o.by # "none" => o.skew = clock - now
    /\ \A k \in DOMAIN offloads : offloads[k].bytes <= o.bytes

\* What any step does to the memory, the clock and the offloads.
StepDoes ==
    /\ words' \in Seq(Word) /\ Continues(words', words) /\ logger' = logger
    /\ now' \in Nat /\ clock' \in Nat /\ now <= now'
    /\ run' = run + 1 \/ (run' = run /\ clock' - now' = clock - now)
    /\ offloads' = offloads \/ \E o : OffloadAdded(o)

\* Every action of the specification is such a step.
LEMMA StepDoesIt ==
    ASSUME IInv, Layout, RunsCounted, [Next]_vars
    PROVE  StepDoes
<1>1. words \in Seq(Word) /\ Continues(words, words) /\ now \in Nat /\ clock \in Nat
  BY StateIs DEF Continues
<1>2. CASE SetStep
  <2>1. /\ words' \in Seq(Word) /\ Continues(words', words) /\ logger' = logger
        /\ offloads' = offloads /\ run' = run /\ now' = now + 1 /\ clock' = clock + 1
    BY <1>2, SetStepIs
  <2>2. now' \in Nat /\ clock' \in Nat /\ now <= now' /\ clock' - now' = clock - now
    BY <1>1, <2>1
  <2> QED
    BY <2>1, <2>2 DEF StepDoes
<1>3. ASSUME NEW type \in Types, NEW t \in Nat, NEW ok \in BOOLEAN, EventStep(type, t, ok)
      PROVE  StepDoes
  <2>1. words' \in Seq(Word) /\ Continues(words', words)
    BY <1>3, EventStepIs
  <2>2. /\ logger' = logger /\ offloads' = offloads /\ now' \in Nat /\ clock' \in Nat /\ now <= now'
        /\ run' = run + 1 \/ (run' = run /\ clock' - now' = clock - now)
    BY <1>3 DEF EventStep
  <2> QED
    BY <2>1, <2>2 DEF StepDoes
<1>4. CASE StillStep
  <2>1. words' = words /\ logger' = logger /\ offloads' = offloads
    BY <1>4 DEF StillStep
  <2>2. /\ now' \in Nat /\ clock' \in Nat /\ now <= now'
        /\ run' = run + 1 \/ (run' = run /\ clock' - now' = clock - now)
    BY <1>1, <1>4 DEF StillStep
  <2> QED
    BY <1>1, <2>1, <2>2 DEF StepDoes
<1>5. ASSUME NEW by \in Measures, NEW n \in Nat, OffloadStep(by, n)
      PROVE  StepDoes
  <2> DEFINE o == [bytes |-> n, at |-> now, by |-> by, skew |-> IF by = "none" THEN 0 ELSE clock - now, run |-> run]
  <2>1. /\ offloads' = Append(offloads, o) /\ \A k \in DOMAIN offloads : offloads[k].bytes <= n
        /\ UNCHANGED <<logger, words, now, clock, run>>
    BY <1>5 DEF OffloadStep
  <2>2. o.bytes = n /\ o.run = run /\ o.at = now /\ (o.by # "none" => o.skew = clock - now)
    OBVIOUS
  <2> HIDE DEF o
  <2>3. OffloadAdded(o)
    BY <2>1, <2>2 DEF OffloadAdded
  <2>4. words' \in Seq(Word) /\ Continues(words', words) /\ now' \in Nat /\ clock' \in Nat /\ now <= now'
    BY <1>1, <2>1
  <2> QED
    BY <2>1, <2>3, <2>4 DEF StepDoes
<1> QED
  BY <1>2, <1>3, <1>4, <1>5, StepIs

\* The offloads after a step.
LEMMA OffloadsNow ==
    ASSUME IInv, StepDoes, NEW k \in DOMAIN offloads'
    PROVE  \/ k \in DOMAIN offloads /\ offloads'[k] = offloads[k]
           \/ /\ k = Len(offloads) + 1 /\ offloads'[k].run = run /\ offloads'[k].at = now
              /\ offloads'[k].by # "none" => offloads'[k].skew = clock - now
              /\ \A j \in DOMAIN offloads : offloads[j].bytes <= offloads'[k].bytes
<1>1. offloads \in Seq(OffloadRecord) /\ Len(offloads) \in Nat /\ DOMAIN offloads = 1..Len(offloads)
  BY StateIs
<1>2. CASE offloads' = offloads
  BY <1>2
<1>3. ASSUME NEW o, OffloadAdded(o) PROVE offloads'[k] = (IF k \in DOMAIN offloads THEN offloads[k] ELSE o)
                                          /\ (k \notin DOMAIN offloads => k = Len(offloads) + 1)
  <2>1. offloads' = Append(offloads, o)
    BY <1>3 DEF OffloadAdded
  <2>2. k \in 1..(Len(offloads) + 1)
    BY <1>1, <2>1
  <2> QED
    BY <1>1, <2>1, <2>2
<1>4. CASE \E o : OffloadAdded(o)
  <2>1. PICK o : OffloadAdded(o)
    BY <1>4
  <2> QED
    BY <1>3, <2>1 DEF OffloadAdded
<1> QED
  BY <1>2, <1>4 DEF StepDoes

\* Below the end of the memory everything is as it was.
LEMMA OldWords ==
    ASSUME IInv, StepDoes, NEW p \in 1..End
    PROVE  /\ Runs(words', p) = Runs(words, p)
           /\ SetsBefore(words', logger'.nchan, p) = SetsBefore(words, logger.nchan, p)
           /\ \A d \in Reads(words') : d < p => d \in Reads(words)
           /\ \A d \in Reads(words) : d \in Reads(words') /\ words'[d] = words[d]
           /\ \A a \in DOMAIN words' : LastAnchor(words', a, p) => a \in DOMAIN words /\ LastAnchor(words, a, p)
<1>1. /\ words \in Seq(Word) /\ DOMAIN words = 1..Len(words) /\ Len(words) \in Nat /\ End = Len(words) + 1
      /\ logger.nchan \in Nat \ {0} /\ words' \in Seq(Word) /\ Continues(words', words) /\ logger' = logger
  BY StateIs DEF End, StepDoes
<1>2. /\ \A i \in DOMAIN words : words'[i] = words[i] /\ i \in DOMAIN words'
      /\ DOMAIN words' = 1..Len(words') /\ Len(words') \in Nat
  BY <1>1, OldCounts
<1>3. p \in 0..(Len(words) + 1) /\ p \in 0..End
  BY <1>1
<1>4. Runs(words', p) = Runs(words, p)
  BY <1>1, <1>3, OldCounts
<1>5. /\ SetsBefore(words', logger.nchan, p) = SetsBefore(words, logger.nchan, p)
      /\ \A a : LastAnchor(words', a, p) <=> LastAnchor(words, a, p)
  BY <1>1, <1>3, SameBelow
<1>6. \A d \in DOMAIN words' : d < p => d \in DOMAIN words
  BY <1>1, <1>2
<1> QED
  BY <1>1, <1>2, <1>4, <1>5, <1>6 DEF Reads, LastAnchor

\* A word that has a moment keeps it: later words, offloads and runs of the clock agree with it.
LEMMA MomentKept ==
    ASSUME IInv, RunsCounted, StepDoes, NEW p \in 1..(End - 1), NEW c \in Nat, NEW t \in Nat, Moment(p, c, t)
    PROVE  Moment(p, c, t)'
<1>1. /\ StartTime <= t /\ t <= now
      /\ RightRun(Runs(words, p)) => c = t
      /\ ~ RightRun(Runs(words, p)) => c <= t - StartTime
      /\ Runs(words, p) = run => c - t = clock - now
      /\ \A d \in Reads(words) : d < p =>
            /\ SetsBefore(words, logger.nchan, d) < SetsBefore(words, logger.nchan, p) => words[d].at < t
            /\ Runs(words, d) = Runs(words, p) => words[d].clock - words[d].at = c - t
      /\ \A k \in DOMAIN offloads :
            /\ offloads[k].by # "none" /\ offloads[k].run = Runs(words, p) => offloads[k].skew = c - t
            /\ p <= offloads[k].bytes => t <= offloads[k].at
  BY DEF Moment
<1>2. /\ End \in Nat /\ run \in Nat /\ now \in Nat /\ clock \in Nat /\ p \in 1..End /\ p \in Nat /\ p <= End
      /\ \A d \in Reads(words) : d \in 1..End
  <2>1. End \in Nat /\ run \in Nat /\ now \in Nat /\ clock \in Nat /\ End = Len(words) + 1 /\ DOMAIN words = 1..Len(words)
        /\ Len(words) \in Nat
    BY StateIs DEF End
  <2> QED
    BY <2>1 DEF Reads
<1>3. logger' = logger /\ now' \in Nat /\ clock' \in Nat /\ now <= now'
      /\ (run' = run + 1 \/ (run' = run /\ clock' - now' = clock - now))
  BY DEF StepDoes
<1>4. Runs(words', p) = Runs(words, p) /\ SetsBefore(words', logger'.nchan, p) = SetsBefore(words, logger.nchan, p)
      /\ \A d \in Reads(words') : d < p => d \in Reads(words)
  BY <1>2, OldWords
<1>5. \A d \in Reads(words) : /\ Runs(words', d) = Runs(words, d)
                              /\ SetsBefore(words', logger'.nchan, d) = SetsBefore(words, logger.nchan, d)
                              /\ words'[d] = words[d]
  BY <1>2, OldWords
<1>6. \A r : (RightRun(r))' <=> RightRun(r)
  BY <1>3 DEF RightRun
<1>7. Runs(words, p) <= run /\ Runs(words, p) \in Nat
  <2>1. Runs(words, p) <= Runs(words, End) /\ Runs(words, p) \in Nat /\ Runs(words, End) \in Nat
    BY <1>2, RunsAre
  <2>2. Runs(words, End) <= run
    BY <1>2, <2>1 DEF RunsCounted
  <2> QED
    BY <1>2, <2>1, <2>2
<1>8. Runs(words', p) = run' => c - t = clock' - now'
  BY <1>1, <1>2, <1>3, <1>4, <1>7
<1>9. ASSUME NEW d \in Reads(words'), d < p
      PROVE  /\ SetsBefore(words', logger'.nchan, d) < SetsBefore(words', logger'.nchan, p) => words'[d].at < t
             /\ Runs(words', d) = Runs(words', p) => words'[d].clock - words'[d].at = c - t
  BY <1>1, <1>4, <1>5, <1>9
<1>10. ASSUME NEW k \in DOMAIN offloads'
       PROVE  /\ offloads'[k].by # "none" /\ offloads'[k].run = Runs(words', p) => offloads'[k].skew = c - t
              /\ p <= offloads'[k].bytes => t <= offloads'[k].at
  <2>1. CASE k \in DOMAIN offloads /\ offloads'[k] = offloads[k]
    BY <1>1, <1>4, <2>1
  <2>2. CASE /\ k = Len(offloads) + 1 /\ offloads'[k].run = run /\ offloads'[k].at = now
             /\ offloads'[k].by # "none" => offloads'[k].skew = clock - now
    BY <1>1, <1>4, <2>2
  <2> QED
    BY <2>1, <2>2, OffloadsNow
<1>11. t <= now'
  BY <1>1, <1>2, <1>3
<1> QED
  BY <1>1, <1>4, <1>6, <1>8, <1>9, <1>10, <1>11 DEF Moment

\* What is appended changes no anchor before a word, nor the sets counted from it.
LEMMA ToldKept ==
    ASSUME IInv, StepDoes, NEW p \in 1..End, NEW c \in Nat, ToldBefore(p, c)
    PROVE  ToldBefore(p, c)'
<1>1. logger' = logger
  BY DEF StepDoes
<1>2. /\ DOMAIN words = 1..Len(words) /\ Len(words) \in Nat /\ End = Len(words) + 1
      /\ SetsBefore(words', logger'.nchan, p) = SetsBefore(words, logger.nchan, p)
      /\ \A a \in DOMAIN words' : LastAnchor(words', a, p) => a \in DOMAIN words /\ LastAnchor(words, a, p)
  BY StateIs, OldWords DEF End
<1>3. \A a \in DOMAIN words : /\ SetsBefore(words', logger'.nchan, a) = SetsBefore(words, logger.nchan, a)
                              /\ words'[a] = words[a]
  <2> TAKE a \in DOMAIN words
  <2>1. a \in 1..End
    BY <1>2
  <2>2. words'[a] = words[a]
    BY OldCounts DEF StepDoes
  <2> QED
    BY <2>1, <2>2, OldWords
<1> QED
  BY <1>1, <1>2, <1>3 DEF ToldBefore

\* What a step stores has the moment of the step.
LEMMA NewMoment ==
    ASSUME IInv, RunsCounted, ClockRight, SkewsMeasured, StepDoes, setByHand = FALSE,
           NEW p \in Nat, End <= p, Runs(words', p) = run, now' > now \/ now' = now,
           run' = run => clock' - now' = clock - now,
           \A d \in Reads(words') : d < p => \/ d \in Reads(words)
                                             \/ /\ words'[d].clock = clock /\ words'[d].at = now
                                                /\ SetsBefore(words', logger'.nchan, d) = SetsBefore(words', logger'.nchan, p),
           offloads' = offloads, NEW c \in Nat, c = clock, NEW t \in Nat, t = now
    PROVE  Moment(p, c, t)'
<1>1. /\ End \in Nat /\ run \in Nat /\ now \in Nat /\ clock \in Nat /\ logger.nchan \in Nat \ {0} /\ StartTime \in Nat
      /\ \A k \in DOMAIN offloads : offloads[k].bytes \in Nat /\ offloads[k].bytes < End
      /\ \A d \in Reads(words) : d \in 1..End /\ words[d].at \in Nat /\ words[d].clock \in Nat
      /\ words \in Seq(Word)
  <2>1. /\ End \in Nat /\ run \in Nat /\ now \in Nat /\ clock \in Nat /\ End = Len(words) + 1 /\ DOMAIN words = 1..Len(words)
        /\ Len(words) \in Nat /\ logger.nchan \in Nat \ {0} /\ words \in Seq(Word) /\ StartTime \in Nat
        /\ \A k \in DOMAIN offloads : offloads[k].bytes \in Nat /\ offloads[k].bytes <= Len(words)
    BY StateIs DEF End
  <2>2. \A d \in Reads(words) : words[d] \in Word /\ words[d].kind = "reading"
    BY <2>1 DEF Reads
  <2>3. \A d \in Reads(words) : words[d].at \in Nat /\ words[d].clock \in Nat
    BY <2>2 DEF Word
  <2> QED
    BY <2>1, <2>3 DEF Reads
<1>2. logger' = logger /\ now' \in Nat /\ clock' \in Nat /\ now <= now'
  BY DEF StepDoes
<1>3. \A r : (RightRun(r))' <=> RightRun(r)
  BY <1>2 DEF RightRun
<1>4. /\ now >= StartTime
      /\ RightRun(run) => clock = now
      /\ ~ RightRun(run) => clock <= now - StartTime
      /\ \A d \in Reads(words) : words[d].at < now /\ (words[d].run = run => words[d].clock - words[d].at = clock - now)
  BY DEF ClockRight
<1>5. \A d \in Reads(words) : words[d].run = Runs(words, d) /\ Runs(words', d) = Runs(words, d) /\ words'[d] = words[d]
  BY <1>1, OldWords DEF RunsCounted
<1>6. ASSUME NEW d \in Reads(words'), d < p
      PROVE  /\ SetsBefore(words', logger'.nchan, d) < SetsBefore(words', logger'.nchan, p) => words'[d].at < now
             /\ Runs(words', d) = Runs(words', p) => words'[d].clock - words'[d].at = clock - now
  <2>1. CASE d \in Reads(words)
    BY <1>4, <1>5, <2>1
  <2>2. CASE /\ words'[d].clock = clock /\ words'[d].at = now
             /\ SetsBefore(words', logger'.nchan, d) = SetsBefore(words', logger'.nchan, p)
    <3>1. \A s \in Nat : ~ (s < s)
      OBVIOUS
    <3>2. SetsBefore(words', logger'.nchan, d) \in Nat
      <4>1. d \in Nat /\ words' \in Seq(Word)
        BY DEF StepDoes, Reads
      <4> QED
        BY <1>1, <1>2, <4>1, SetsBeforeIs
    <3> QED
      BY <2>2, <3>1, <3>2
  <2> QED
    BY <1>6, <2>1, <2>2
<1>7. ASSUME NEW k \in DOMAIN offloads
      PROVE  /\ offloads[k].by # "none" /\ offloads[k].run = run => offloads[k].skew = clock - now
             /\ ~ (p <= offloads[k].bytes)
  BY <1>1 DEF SkewsMeasured
<1>8. Runs(words', p) = run' => clock - now = clock' - now'
  BY <1>1, <1>2 DEF StepDoes
<1>9. /\ RightRun(Runs(words', p)) => c = t
      /\ ~ RightRun(Runs(words', p)) => c <= t - StartTime
      /\ StartTime <= t /\ t <= now'
  BY <1>1, <1>2, <1>4
<1> QED
  BY <1>3, <1>6, <1>7, <1>8, <1>9 DEF Moment

\* A set is stored with the clock and the time of the step.
LEMMA SetMoments ==
    ASSUME IInv, Layout, RunsCounted, ClockRight, SkewsMeasured, SetStep, StepDoes,
           NEW b \in Reads(words'), b \notin Reads(words), NEW c, c = words'[b].clock, NEW t, t = words'[b].at
    PROVE  Moment(b, c, t)'
<1> DEFINE n == logger.nchan
           l == Len(words)
           rd == [kind |-> "reading", clock |-> clock, at |-> now, run |-> run]
<1>1. /\ words \in Seq(Word) /\ l \in Nat /\ n \in Nat \ {0} /\ End = l + 1 /\ run \in Nat /\ now \in Nat /\ clock \in Nat
  BY StateIs DEF End
<1>2. rd \in Word /\ rd.kind = "reading" /\ rd.clock = clock /\ rd.at = now
  BY StateIs DEF Word
<1>3. words' = words \o [i \in 1..n |-> rd] /\ Whole(words, n, Len(words) + 1)
  BY DEF SetStep, Layout, End
<1> HIDE DEF rd, n
<1>4. WithSet(words', words, n, rd)
  BY <1>1, <1>2, <1>3, SetAppended
<1>5. /\ \A i \in (l + 1)..(l + n) : words'[i] = rd
      /\ \A i \in (l + 1)..(l + n) : SetsBefore(words', n, i) = SetsBefore(words, n, l + 1)
      /\ \A p \in (l + 1)..(l + n + 1) : Cnt(Resets(words'), p) = Cnt(Resets(words), l + 1)
      /\ \A d \in Reads(words') : d \in Reads(words) \/ d \in (l + 1)..(l + n)
  BY <1>4 DEF WithSet
<1> HIDE DEF l
<1>6. b \in (l + 1)..(l + n) /\ b \in (l + 1)..(l + n + 1) /\ b \in Nat /\ End <= b
  BY <1>1, <1>5
<1>7. logger' = logger /\ setByHand = FALSE /\ offloads' = offloads /\ run' = run /\ now' = now + 1 /\ clock' = clock + 1
  BY SetStepIs
<1>8. Runs(words', b) = run
  <2>1. Runs(words', b) = Runs(words, End)
    BY <1>1, <1>5, <1>6 DEF Runs
  <2>2. Runs(words, End) \in Nat
    BY <1>1, StateIs, RunsAre
  <2> QED
    BY <1>7, <2>1, <2>2 DEF RunsCounted
<1>9. \A d \in Reads(words') : d < b =>
         \/ d \in Reads(words)
         \/ /\ words'[d].clock = clock /\ words'[d].at = now
            /\ SetsBefore(words', logger'.nchan, d) = SetsBefore(words', logger'.nchan, b)
  BY <1>2, <1>5, <1>6, <1>7 DEF n
<1>10. now' > now /\ clock' - now' = clock - now
  BY <1>1, <1>7
<1>11. c = clock /\ t = now /\ c \in Nat /\ t \in Nat
  BY <1>1, <1>2, <1>5, <1>6
<1> QED
  BY <1>6, <1>7, <1>8, <1>9, <1>10, <1>11, NewMoment

\* So is an event that is no restart: the clock at it is what the anchors before it tell.
LEMMA EventMoments ==
    ASSUME IInv, Layout, ClockCounts, RunsCounted, ClockRight, SkewsMeasured, StepDoes,
           NEW type \in Types, NEW t \in Nat, NEW ok \in BOOLEAN, EventStep(type, t, ok),
           NEW p \in DOMAIN words', p \notin DOMAIN words, words'[p].kind = "event", p \notin Resets(words')
    PROVE  HasMoment(p)'
<1>1. /\ words' \in Seq(Word) /\ Continues(words', words) /\ IsEvent(words', End, type, t)
      /\ Reads(words') \subseteq Reads(words)
      /\ \A i \in DOMAIN words' : i \in DOMAIN words \/ i = End \/ words'[i].kind = "stamp"
      /\ setByHand = FALSE
  BY EventStepIs
<1>2. p = End /\ type \notin RTC_RESET_EVENTS
  <2>1. p = End
    BY <1>1
  <2>2. words'[p].type = type
    BY <1>1, <2>1 DEF IsEvent
  <2> QED
    BY <2>1, <2>2 DEF Resets
<1>3. status = "logging" /\ offloads' = offloads /\ clock' - now' = clock - now /\ run' = run
  <2>1. status = "logging" /\ offloads' = offloads /\ clock \in Nat /\ now \in Nat
    BY StateIs DEF EventStep
  <2> QED
    BY <1>2, <2>1 DEF EventStep
<1>4. End \in Nat /\ End >= 2 /\ End \in 1..End /\ End <= End /\ run \in Nat /\ now \in Nat /\ clock \in Nat
      /\ DOMAIN words = 1..(End - 1) /\ \A i \in DOMAIN words : words[i].kind # "event" \/ i \in 1..End
  <2>1. End = Len(words) + 1 /\ Len(words) \in Nat /\ Len(words) >= 1 /\ DOMAIN words = 1..Len(words)
        /\ run \in Nat /\ now \in Nat /\ clock \in Nat
    BY StateIs DEF End
  <2> QED
    BY <2>1
<1>5. Runs(words', End) = run
  <2>1. Runs(words', End) = Runs(words, End) /\ Runs(words, End) \in Nat
    BY <1>4, OldWords, RunsAre
  <2> QED
    BY <1>1, <2>1 DEF RunsCounted
<1>6. now' > now \/ now' = now
  BY <1>4 DEF StepDoes
<1>7. \A d \in Reads(words') : d \in Reads(words)
  BY <1>1
<1>8. PICK c \in Nat, u \in Nat : c = clock /\ u = now
  BY <1>4
<1>9. Moment(p, c, u)'
  BY <1>1, <1>2, <1>3, <1>4, <1>5, <1>6, <1>7, <1>8, NewMoment
<1>10. ToldBefore(End, clock)
  BY <1>3, <1>4 DEF ToldBefore, ClockCounts
<1>11. ToldBefore(p, c)
  BY <1>2, <1>8, <1>10
<1>12. ToldBefore(p, c)'
  BY <1>2, <1>4, <1>11, ToldKept
<1> QED
  BY <1>9, <1>12 DEF HasMoment

\* Old words keep their moments, and the words that a step stores have one.
LEMMA MomentsKept ==
    ASSUME IInv, Clocks, Moments, [Next]_vars
    PROVE  Moments'
<1>1. Layout /\ ClockCounts /\ RunsCounted /\ ClockRight /\ SkewsMeasured
  BY DEF Clocks
<1>2. StepDoes
  BY <1>1, StepDoesIt
<1>3. /\ DOMAIN words = 1..(End - 1) /\ words \in Seq(Word) /\ words' \in Seq(Word)
      /\ \A i \in DOMAIN words : words'[i] = words[i] /\ i \in 1..End
  <2>1. End = Len(words) + 1 /\ Len(words) \in Nat /\ DOMAIN words = 1..Len(words) /\ words \in Seq(Word)
    BY StateIs DEF End
  <2>2. \A i \in DOMAIN words : words'[i] = words[i]
    BY <1>2, OldCounts DEF StepDoes
  <2> QED
    BY <1>2, <2>1, <2>2 DEF StepDoes
<1>4. ASSUME NEW b \in Reads(words) PROVE Moment(b, words[b].clock, words[b].at)'
  <2>1. b \in DOMAIN words /\ words[b] \in Word /\ words[b].kind = "reading"
    <3>1. \A w \in Seq(Word) : \A i \in DOMAIN w : w[i] \in Word
      OBVIOUS
    <3> QED
      BY <1>3, <3>1 DEF Reads
  <2>2. words[b].clock \in Nat /\ words[b].at \in Nat
    BY <2>1 DEF Word
  <2>3. PICK c \in Nat, t \in Nat : c = words[b].clock /\ t = words[b].at
    BY <2>2
  <2>4. Moment(b, c, t)
    BY <2>3 DEF Moments
  <2>5. Moment(b, c, t)'
    BY <1>1, <1>2, <1>3, <2>1, <2>4, MomentKept
  <2>6. c = words'[b].clock /\ t = words'[b].at
    BY <1>3, <2>1, <2>3
  <2> QED
    BY <2>5, <2>6
<1>5. ASSUME NEW p \in DOMAIN words, HasMoment(p) PROVE HasMoment(p)'
  <2>1. PICK c \in Nat, t \in Nat : Moment(p, c, t) /\ ToldBefore(p, c)
    BY <1>5 DEF HasMoment
  <2>2. Moment(p, c, t)' /\ ToldBefore(p, c)'
    BY <1>1, <1>2, <1>3, <2>1, MomentKept, ToldKept
  <2> QED
    BY <2>2 DEF HasMoment
<1>6. ASSUME NEW b \in Reads(words'), b \notin Reads(words) PROVE Moment(b, words[b].clock, words[b].at)'
  <2>1. CASE SetStep
    <3>1. PICK c, t : c = words'[b].clock /\ t = words'[b].at
      OBVIOUS
    <3>2. Moment(b, c, t)'
      BY <1>1, <1>2, <1>6, <2>1, <3>1, SetMoments
    <3> QED
      BY <3>1, <3>2
  <2>2. ASSUME NEW type \in Types, NEW t \in Nat, NEW ok \in BOOLEAN, EventStep(type, t, ok) PROVE FALSE
    BY <1>1, <1>6, <2>2, EventStepIs
  <2>3. CASE StillStep
    BY <1>6, <2>3 DEF StillStep
  <2>4. ASSUME NEW by \in Measures, NEW n \in Nat, OffloadStep(by, n) PROVE FALSE
    BY <1>6, <2>4 DEF OffloadStep
  <2> QED
    BY <2>1, <2>2, <2>3, <2>4, StepIs
<1>7. ASSUME NEW p \in DOMAIN words', p \notin DOMAIN words, words'[p].kind = "event", p \notin Resets(words')
      PROVE  HasMoment(p)'
  <2>1. CASE SetStep
    BY <1>1, <1>7, <2>1, SetStepIs
  <2>2. ASSUME NEW type \in Types, NEW t \in Nat, NEW ok \in BOOLEAN, EventStep(type, t, ok) PROVE HasMoment(p)'
    BY <1>1, <1>2, <1>7, <2>2, EventMoments
  <2>3. CASE StillStep
    BY <1>7, <2>3 DEF StillStep
  <2>4. ASSUME NEW by \in Measures, NEW n \in Nat, OffloadStep(by, n) PROVE FALSE
    BY <1>7, <2>4 DEF OffloadStep
  <2> QED
    BY <2>1, <2>2, <2>3, <2>4, StepIs
<1>8. ASSUME NEW b \in Reads(words') PROVE Moment(b, words[b].clock, words[b].at)'
  <2>1. CASE b \in Reads(words)
    BY <1>4, <2>1
  <2>2. CASE b \notin Reads(words)
    BY <1>6, <2>2
  <2> QED
    BY <2>1, <2>2
<1>9. ASSUME NEW p \in DOMAIN words', words'[p].kind = "event", p \notin Resets(words') PROVE HasMoment(p)'
  <2>1. CASE p \in DOMAIN words
    <3>1. words[p].kind = "event" /\ p \notin Resets(words)
      BY <1>3, <1>9, <2>1 DEF Resets
    <3> QED
      BY <1>5, <2>1, <3>1 DEF Moments
  <2>2. CASE p \notin DOMAIN words
    BY <1>7, <1>9, <2>2
  <2> QED
    BY <2>1, <2>2
<1> QED
  BY <1>8, <1>9 DEF Moments

\* The memory that a logger begins with.
LEMMA FirstWords ==
    ASSUME Init
    PROVE  /\ DOMAIN words = {1, 2} /\ words[1].kind = "event" /\ words[1].type = "sync" /\ words[1].clock = clock
           /\ words[2].kind = "stamp" /\ Reads(words) = {} /\ Resets(words) = {}
<1>1. \E ok \in BOOLEAN : words = Event("sync", clock, ok)
  <2>1. CASE MaxCorrupt > 0
    BY <2>1 DEF Init
  <2>2. CASE ~ (MaxCorrupt > 0)
    <3>1. words = Event("sync", clock, TRUE)
      BY <2>2 DEF Init
    <3> QED
      BY <3>1
  <2> QED
    BY <2>1, <2>2
<1>2. PICK ok \in BOOLEAN : words = Event("sync", clock, ok)
  BY <1>1
<1> DEFINE a == [kind |-> "event", type |-> "sync", clock |-> clock, ok |-> ok]
           s == [kind |-> "stamp", clock |-> clock]
<1>3. words = <<a, s>>
  BY <1>2 DEF Event
<1>4. a.kind = "event" /\ a.type = "sync" /\ a.clock = clock /\ s.kind = "stamp"
  OBVIOUS
<1> HIDE DEF a, s
<1>5. DOMAIN words = {1, 2} /\ words[1] = a /\ words[2] = s
  BY <1>3
<1>6. Reads(words) = {} /\ Resets(words) = {}
  BY <1>4, <1>5 DEF Reads, Resets, RTC_RESET_EVENTS
<1> QED
  BY <1>4, <1>5, <1>6

\* The memory of a new deployment holds one event, stored at its start.
LEMMA MomentsBegin ==
    ASSUME Init, IInv, Clocks
    PROVE  Moments
<1>1. /\ DOMAIN words = {1, 2} /\ words[1].kind = "event" /\ words[1].type = "sync" /\ words[1].clock = clock
      /\ words[2].kind = "stamp" /\ Reads(words) = {} /\ Resets(words) = {}
  BY FirstWords
<1>2. /\ now = StartTime /\ clock = logger.enabled /\ run = 1 /\ DOMAIN offloads = {} /\ now \in Nat /\ clock \in Nat
  BY StateIs DEF Init
<1>3. Runs(words, 1) = 1
  <2>1. {i \in Resets(words) : i < 1} = {}
    BY <1>1
  <2> QED
    BY <2>1, FS_EmptySet DEF Runs, Cnt
<1>4. Moment(1, clock, now)
  <2>1. /\ now >= StartTime /\ StartTime <= now
        /\ RightRun(run) => clock = now
        /\ ~ RightRun(run) => clock <= now - StartTime
    <3>1. ClockRight /\ setByHand = FALSE
      BY DEF Clocks, Init
    <3>2. now <= now
      BY <1>2
    <3> QED
      BY <1>2, <3>1, <3>2 DEF ClockRight
  <2>2. now <= now
    BY <1>2
  <2> QED
    BY <1>1, <1>2, <1>3, <2>1, <2>2 DEF Moment
<1>5. ToldBefore(1, clock)
  <2>1. \A a \in DOMAIN words : ~ LastAnchor(words, a, 1)
    BY <1>1 DEF LastAnchor
  <2> QED
    BY <1>2, <2>1 DEF ToldBefore
<1>6. HasMoment(1)
  BY <1>2, <1>4, <1>5 DEF HasMoment
<1> QED
  BY <1>1, <1>6 DEF Moments

\* Each word of the memory has a moment, in every state.
LEMMA MomentsAlways == Spec => []Moments
<1>1. Init /\ IInv /\ Clocks => Moments
  BY MomentsBegin
<1>2. IInv /\ Clocks /\ Moments /\ [Next]_vars => Moments'
  BY MomentsKept
<1> QED
  BY <1>1, <1>2, Invariance, ClocksKept, PTL DEF Spec

\* Offloads are in the order in which the memory and the runs of the clock grew, and two of
\* the same run measured the same skew.
OffloadsInOrder ==
    \A i, j \in DOMAIN offloads : i < j =>
        /\ offloads[i].bytes <= offloads[j].bytes /\ offloads[i].run <= offloads[j].run
        /\ offloads[i].by # "none" /\ offloads[j].by # "none" /\ offloads[i].run = offloads[j].run
             => offloads[i].skew = offloads[j].skew

\* An offload is appended with the run and the memory of its time, which never go back.
LEMMA OffloadsInOrderAlways == Spec => []OffloadsInOrder
<1>1. Init => OffloadsInOrder
  BY DEF Init, OffloadsInOrder
<1>2. IInv /\ Clocks /\ OffloadsInOrder /\ [Next]_vars => OffloadsInOrder'
  <2> SUFFICES ASSUME IInv, Clocks, OffloadsInOrder, [Next]_vars PROVE OffloadsInOrder'
    OBVIOUS
  <2>1. Layout /\ RunsCounted /\ SkewsMeasured
    BY DEF Clocks
  <2>2. StepDoes
    BY <2>1, StepDoesIt
  <2>3. /\ Len(offloads) \in Nat /\ DOMAIN offloads = 1..Len(offloads)
        /\ \A k \in DOMAIN offloads : offloads[k].run <= run
    BY <2>1, StateIs, NoRunAhead
  <2>4. ASSUME NEW i \in DOMAIN offloads', NEW j \in DOMAIN offloads', i < j
        PROVE  /\ offloads'[i].bytes <= offloads'[j].bytes /\ offloads'[i].run <= offloads'[j].run
               /\ offloads'[i].by # "none" /\ offloads'[j].by # "none" /\ offloads'[i].run = offloads'[j].run
                    => offloads'[i].skew = offloads'[j].skew
    <3>1. \/ j \in DOMAIN offloads /\ offloads'[j] = offloads[j]
          \/ /\ j = Len(offloads) + 1 /\ offloads'[j].run = run
             /\ offloads'[j].by # "none" => offloads'[j].skew = clock - now
             /\ \A k \in DOMAIN offloads : offloads[k].bytes <= offloads'[j].bytes
      BY <2>2, OffloadsNow
    <3>2. \/ i \in DOMAIN offloads /\ offloads'[i] = offloads[i]
          \/ i = Len(offloads) + 1
      BY <2>2, OffloadsNow
    <3>3. i \in DOMAIN offloads /\ offloads'[i] = offloads[i]
      BY <2>3, <2>4, <3>1, <3>2
    <3>4. CASE j \in DOMAIN offloads /\ offloads'[j] = offloads[j]
      BY <2>4, <3>3, <3>4 DEF OffloadsInOrder
    <3>5. CASE /\ offloads'[j].run = run
               /\ offloads'[j].by # "none" => offloads'[j].skew = clock - now
               /\ \A k \in DOMAIN offloads : offloads[k].bytes <= offloads'[j].bytes
      <4>1. offloads[i].by # "none" /\ offloads[i].run = run => offloads[i].skew = clock - now
        BY <2>1, <3>3 DEF SkewsMeasured
      <4> QED
        BY <2>3, <3>3, <3>5, <4>1
    <3> QED
      BY <3>1, <3>4, <3>5
  <2> QED
    BY <2>4 DEF OffloadsInOrder
<1> QED
  BY <1>1, <1>2, Invariance, ClocksKept, PTL DEF Spec

-----------------------------------------------------------------------------
(* The latest image: its sample sets and its events.                       *)

\* Of what is listed in order, as many lie before a place as there are smaller members.
Counted(q, n, S) ==
    /\ \A x \in 0..(n + 1) : Cardinality(Before(q, x)) = Cnt(S, x)
    /\ \A j \in 1..Len(q) : Cnt(S, q[j]) = j - 1

LEMMA ListCounts ==
    ASSUME NEW n \in Nat, NEW S, S \subseteq 1..n, NEW q, Lists(q, n, S)
    PROVE  Counted(q, n, S)
<1>1. /\ q \in Seq(Nat) /\ Len(q) \in Nat /\ DOMAIN q = 1..Len(q)
      /\ \A i \in 1..Len(q) : q[i] \in S /\ q[i] \in 1..n
      /\ \A i, j \in 1..Len(q) : i < j => q[i] < q[j]
      /\ \A x \in 1..n : x \in S => \E i \in 1..Len(q) : q[i] = x
  BY DEF Lists
<1>2. S \subseteq Nat /\ \A x \in S : x \in 1..n
  OBVIOUS
<1>3. \A x : Before(q, x) \subseteq 1..Len(q) /\ IsFiniteSet(Before(q, x)) /\ Cardinality(Before(q, x)) \in Nat
  <2> TAKE x
  <2>1. Before(q, x) \subseteq 1..Len(q)
    BY <1>1 DEF Before
  <2> QED
    BY <1>1, <2>1, NumbersUpTo, FS_Subset, FS_CardinalityType
<1> DEFINE T == {x \in 0..(n + 1) : Cardinality(Before(q, x)) = Cnt(S, x)}
<1>4. 0 \in T
  <2>1. \A j \in 1..Len(q) : ~ (q[j] < 0)
    BY <1>1
  <2>2. Before(q, 0) = {}
    BY <1>1, <2>1 DEF Before
  <2>3. {i \in S : i < 0} = {}
    <3>1. \A i \in S : ~ (i < 0)
      BY <1>2
    <3> QED
      BY <3>1
  <2>4. 0 \in 0..(n + 1)
    OBVIOUS
  <2> QED
    BY <2>2, <2>3, <2>4 DEF Cnt
<1>5. ASSUME NEW x \in 1..(n + 1), x - 1 \in T PROVE x \in T
  <2> DEFINE y == x - 1
  <2>1. y \in Nat /\ y + 1 = x /\ x \in 0..(n + 1) /\ Cardinality(Before(q, y)) = Cnt(S, y)
    BY <1>5
  <2> HIDE DEF y
  <2>2. Cnt(S, y + 1) = Cnt(S, y) + (IF y \in S THEN 1 ELSE 0)
    BY <1>2, <2>1, CntNext
  <2>3. \A j \in 1..Len(q) : q[j] < y + 1 <=> (q[j] < y \/ q[j] = y)
    BY <1>1, <2>1
  <2>4. CASE y \in S
    <3>1. PICK j \in 1..Len(q) : q[j] = y
      BY <1>1, <1>2, <2>4
    <3>2. \A i \in 1..Len(q) : q[i] = y => i = j
      BY <1>1, <3>1
    <3>3. Before(q, y + 1) = Before(q, y) \cup {j} /\ j \notin Before(q, y)
      <4>1. \A i \in 1..Len(q) : q[i] < y + 1 <=> (q[i] < y \/ i = j)
        BY <2>3, <3>1, <3>2
      <4>2. ~ (q[j] < y)
        BY <2>1, <3>1
      <4> QED
        BY <1>1, <4>1, <4>2 DEF Before
    <3>4. Cardinality(Before(q, y + 1)) = Cardinality(Before(q, y)) + 1
      BY <1>3, <3>3, FS_AddElement
    <3> QED
      BY <2>1, <2>2, <2>4, <3>4
  <2>5. CASE y \notin S
    <3>1. \A i \in 1..Len(q) : q[i] < y + 1 <=> q[i] < y
      BY <1>1, <2>3, <2>5
    <3>2. Before(q, y + 1) = Before(q, y)
      BY <1>1, <3>1 DEF Before
    <3> QED
      BY <1>3, <2>1, <2>2, <2>5, <3>2
  <2> QED
    BY <2>4, <2>5
<1>6. \A x \in 0..(n + 1) : Cardinality(Before(q, x)) = Cnt(S, x)
  <2>1. n + 1 \in Nat
    OBVIOUS
  <2> DEFINE l == n + 1
  <2> HIDE DEF l
  <2>2. \A x \in 1..l : x - 1 \in T => x \in T
    BY <1>5 DEF l
  <2> HIDE DEF T
  <2>3. \A x \in 0..l : x \in T
    BY <1>4, <2>1, <2>2, StepByStep DEF l
  <2> QED
    BY <2>3 DEF T, l
<1>7. ASSUME NEW j \in 1..Len(q) PROVE Cnt(S, q[j]) = j - 1
  <2>1. Before(q, q[j]) = 1..(j - 1)
    <3>1. \A i \in 1..Len(q) : q[i] < q[j] <=> i < j
      BY <1>1
    <3> QED
      BY <1>1, <3>1 DEF Before
  <2>2. Cardinality(1..(j - 1)) = j - 1
    <3>1. j - 1 \in Nat
      BY <1>1
    <3> QED
      BY <3>1, NumbersUpTo
  <2>3. q[j] \in 0..(n + 1)
    BY <1>1
  <2> QED
    BY <1>6, <2>1, <2>2, <2>3
<1> QED
  BY <1>6, <1>7 DEF Counted

Held == Last(offloads).bytes

LEMMA LatestIs ==
    ASSUME IInv, offloads # <<>>
    PROVE  /\ Held \in Nat /\ Held <= Len(words) /\ IsImage(Latest)
           /\ Latest.family = logger.family /\ Latest.nchan = logger.nchan /\ Latest.enabled = logger.enabled
           /\ Latest.words \in Seq(Word) /\ Len(Latest.words) = Held /\ DOMAIN Latest.words = 1..Held
           /\ \A i \in 1..Held : Latest.words[i] = words[i] /\ i \in DOMAIN words
           /\ Held = offloads[Len(offloads)].bytes /\ Len(offloads) \in DOMAIN offloads
<1>1. /\ words \in Seq(Word) /\ Len(words) \in Nat /\ DOMAIN words = 1..Len(words) /\ LoggerIsOne
      /\ offloads \in Seq(OffloadRecord) /\ Len(offloads) \in Nat /\ DOMAIN offloads = 1..Len(offloads)
      /\ \A k \in 1..Len(offloads) : offloads[k].bytes \in Nat /\ offloads[k].bytes <= Len(words)
  BY StateIs DEF IInv
<1>2. Len(offloads) \in 1..Len(offloads)
  BY <1>1
<1>3. Held = offloads[Len(offloads)].bytes
  BY DEF Held, Last
<1>4. Held \in 0..Len(words)
  BY <1>1, <1>2, <1>3
<1>5. Latest = [family |-> logger.family, nchan |-> logger.nchan, enabled |-> logger.enabled,
                words |-> SubSeq(words, 1, Held)]
  BY ImageWords DEF Latest, Held
<1>6. IsImage(Latest)
  BY <1>1, <1>4, <1>5, ImageIs
<1> HIDE DEF Held
<1> DEFINE s == SubSeq(words, 1, Held)
<1>7. s \in Seq(Word) /\ Len(s) = Held /\ \A i \in 1..Held : s[i] = words[i]
  BY <1>1, <1>4
<1> HIDE DEF s
<1>8. Latest.words = s /\ DOMAIN s = 1..Held
  BY <1>5, <1>7 DEF s
<1>9. Held \in Nat /\ Held <= Len(words) /\ \A i \in 1..Held : i \in DOMAIN words
  BY <1>1, <1>4
<1> QED
  BY <1>1, <1>2, <1>3, <1>5, <1>6, <1>7, <1>8, <1>9

\* No event that bears on the times is corrupt.
LEMMA LatestPlaces ==
    ASSUME IInv, Layout, offloads # <<>>, ~ CorruptMatters
    PROVE  /\ Places(Latest) \subseteq 1..Held
           /\ \A i \in 1..Held : i \in Places(Latest) <=>
                 (i \in Reads(words) \/ (logger.family = "l2" /\ i = Held /\ words[i].kind = "event"))
           /\ L2Records(Latest) \subseteq 1..Held
           /\ \A i \in L2Records(Latest) : i < Held /\ words[i].kind = "event"
           /\ \A i \in 1..Held : i < Held /\ words[i].kind = "event"
                 /\ words[i].type \in RTC_RESET_EVENTS \cup {"cpu_reset"} => i \in L2Records(Latest)
           /\ \A p \in 0..Held : Cnt(Places(Latest), p) = Cnt(Reads(words), p)
<1>1. /\ Held \in Nat /\ Held <= Len(words) /\ Latest.family = logger.family
      /\ DOMAIN Latest.words = 1..Held /\ Len(Latest.words) = Held
      /\ \A i \in 1..Held : Latest.words[i] = words[i] /\ i \in DOMAIN words
  BY LatestIs
<1>2. DOMAIN words = 1..Len(words) /\ Len(words) \in Nat /\ Reads(words) \subseteq Nat
  BY StateIs
<1>3. Marked(Latest) = {i \in 1..Held : words[i].kind = "event"}
  BY <1>1 DEF Marked
<1>4. L2Records(Latest) = {i \in 1..Held : words[i].kind = "event" /\ i < Held /\ words[i].ok}
  BY <1>1, <1>3 DEF L2Records, Valid
<1>5. \A i \in Marked(Latest) : (words[i].type \in RTC_RESET_EVENTS \cup {"cpu_reset"} \/ logger.family = "l2")
                                   => words[i].ok
  BY <1>1, <1>3 DEF CorruptMatters, Corrupt
<1>6. \A i \in 1..Held : words[i].kind = "stamp" <=> (i - 1 \in 1..Held /\ words[i - 1].kind = "event")
  <2> TAKE i \in 1..Held
  <2>1. i \in DOMAIN words /\ i <= Held
    BY <1>1
  <2>2. words[i].kind = "stamp" => i - 1 \in DOMAIN words /\ words[i - 1].kind = "event"
    BY <2>1 DEF Layout
  <2>3. ASSUME i - 1 \in 1..Held, words[i - 1].kind = "event" PROVE words[i].kind = "stamp"
    <3>1. i - 1 \in DOMAIN words /\ (i - 1) + 1 = i
      BY <1>1, <2>3
    <3>2. words[(i - 1) + 1].kind = "stamp"
      BY <2>3, <3>1 DEF Layout
    <3> QED
      BY <3>1, <3>2
  <2>4. i - 1 \in DOMAIN words => i - 1 \in 1..Held
    BY <1>1, <1>2, <2>1
  <2> QED
    BY <2>2, <2>3, <2>4
<1>7. \A i \in 1..Held : words[i].kind \in {"reading", "event", "stamp"}
  <2> TAKE i \in 1..Held
  <2>1. words[i] \in Word
    BY <1>1, StateIs
  <2> QED
    BY <2>1 DEF Word
<1>8. ASSUME NEW i \in 1..Held
      PROVE  i \in Places(Latest) <=>
                (i \in Reads(words) \/ (logger.family = "l2" /\ i = Held /\ words[i].kind = "event"))
  <2>1. i \in Reads(words) <=> words[i].kind = "reading"
    BY <1>1 DEF Reads
  <2>2. CASE logger.family = "l2"
    <3>1. Dropped(Latest) = L2Records(Latest) \cup {j + 1 : j \in L2Records(Latest)}
      BY <1>1, <2>2 DEF Dropped
    <3>2. i \in L2Records(Latest) <=> words[i].kind = "event" /\ i # Held
      BY <1>1, <1>3, <1>4, <1>5, <2>2
    <3>3. i \in {j + 1 : j \in L2Records(Latest)} <=> i - 1 \in L2Records(Latest)
      <4>1. \A j \in L2Records(Latest) : j \in Nat /\ (j + 1 = i => j = i - 1)
        BY <1>4
      <4>2. (i - 1) + 1 = i
        OBVIOUS
      <4> QED
        BY <4>1, <4>2
    <3>4. i - 1 \in L2Records(Latest) <=> words[i].kind = "stamp"
      <4>1. i - 1 \in 1..Held => i - 1 < Held
        BY <1>1
      <4>2. i - 1 \in L2Records(Latest) <=> i - 1 \in 1..Held /\ words[i - 1].kind = "event"
        BY <1>3, <1>4, <1>5, <2>2, <4>1
      <4> QED
        BY <1>6, <4>2
    <3>5. i \in Places(Latest) <=> ~ (i \in L2Records(Latest)) /\ ~ (words[i].kind = "stamp")
      BY <1>1, <3>1, <3>3, <3>4 DEF Places
    <3> QED
      BY <1>7, <2>1, <2>2, <3>2, <3>5
  <2>3. CASE logger.family # "l2"
    <3>1. Dropped(Latest) = Marked(Latest) \cup {j + 1 : j \in Marked(Latest)}
      BY <1>1, <2>3 DEF Dropped, SoloRecords
    <3>2. i \in {j + 1 : j \in Marked(Latest)} <=> i - 1 \in Marked(Latest)
      <4>1. \A j \in Marked(Latest) : j \in Nat /\ (j + 1 = i => j = i - 1)
        BY <1>3
      <4>2. (i - 1) + 1 = i
        OBVIOUS
      <4> QED
        BY <4>1, <4>2
    <3>3. i \in Places(Latest) <=> ~ (words[i].kind = "event") /\ ~ (words[i].kind = "stamp")
      BY <1>1, <1>3, <1>6, <3>1, <3>2 DEF Places
    <3> QED
      BY <1>7, <2>1, <2>3, <3>3
  <2> QED
    BY <2>2, <2>3
<1>9. Places(Latest) \subseteq 1..Held
  BY <1>1 DEF Places
<1>10. ASSUME NEW p \in 0..Held PROVE Cnt(Places(Latest), p) = Cnt(Reads(words), p)
  <2>1. Places(Latest) \subseteq Nat /\ p \in Nat
    BY <1>9
  <2>2. ASSUME NEW i \in Nat, i < p PROVE i \in Places(Latest) <=> i \in Reads(words)
    <3>1. i \in 1..Held => i # Held
      BY <1>1, <2>2
    <3>2. i \in Reads(words) => i \in 1..Held
      BY <1>1, <1>2, <2>2 DEF Reads
    <3> QED
      BY <1>8, <1>9, <3>1, <3>2
  <2> QED
    BY <1>2, <2>1, <2>2, CntSame
<1>11. \A i \in 1..Held : i < Held /\ words[i].kind = "event"
          /\ words[i].type \in RTC_RESET_EVENTS \cup {"cpu_reset"} => i \in L2Records(Latest)
  BY <1>3, <1>4, <1>5
<1> QED
  BY <1>4, <1>8, <1>9, <1>10, <1>11

\* The first word of sample set k, and the readings before it.
FirstOf(k) == Readings(Latest)[(k - 1) * logger.nchan + 1]
Sets == SetsIn(Latest)

LEMMA LatestSets ==
    ASSUME IInv, Layout, offloads # <<>>, ~ CorruptMatters
    PROVE  /\ Sets \in Nat
           /\ SetStarts(Latest) = [k \in 1..Sets |-> FirstOf(k)] /\ DOMAIN SetEnds(Latest) = 1..Sets
           /\ \A k \in 1..Sets : /\ FirstOf(k) \in Places(Latest) /\ FirstOf(k) \in 1..Held
                                 /\ Cnt(Reads(words), FirstOf(k)) = (k - 1) * logger.nchan
                                 /\ SetsBefore(words, logger.nchan, FirstOf(k)) = k - 1
                                 /\ SetEnds(Latest)[k] \in Places(Latest)
                                 /\ SetEnds(Latest)[k] \in 1..Held
                                 /\ FirstOf(k) <= SetEnds(Latest)[k]
                                 /\ Cnt(Reads(words), SetEnds(Latest)[k]) = k * logger.nchan - 1
           /\ \A p \in 0..Held : Cardinality(Before(Readings(Latest), p)) = Cnt(Reads(words), p)
<1> DEFINE n == logger.nchan
           r == Readings(Latest)
           P == Places(Latest)
<1>1. /\ Held \in Nat /\ IsImage(Latest) /\ Latest.nchan = n /\ Len(Latest.words) = Held /\ n \in Nat \ {0}
  BY LatestIs, StateIs
<1>2. /\ P \subseteq 1..Held /\ \A p \in 0..Held : Cnt(P, p) = Cnt(Reads(words), p)
  BY LatestPlaces
<1>3. /\ r \in Seq(Nat) /\ Len(r) \in Nat /\ Sets \in Nat /\ Sets = Len(r) \div n
  BY <1>1, ReadingsIn DEF Sets, SetsIn
<1>4. Lists(r, Held, P)
  <2>1. r = InOrder(Held, P)
    BY <1>1 DEF Readings, Places, Dropped
  <2> QED
    BY <1>1, <2>1, InOrderLists
<1>5. SetStarts(Latest) = [k \in 1..Sets |-> FirstOf(k)] /\ SetEnds(Latest) = [k \in 1..Sets |-> r[k * n]]
  BY <1>1 DEF SetStarts, SetEnds, FirstOf, Sets, SetsIn
<1> HIDE DEF n, r, P
<1>6. Counted(r, Held, P)
  BY <1>1, <1>2, <1>4, ListCounts
<1>7. \A j \in 1..Len(r) : r[j] \in P /\ r[j] \in 1..Held
  BY <1>4 DEF Lists
<1>8. \A j \in 1..Len(r) : Cnt(Reads(words), r[j]) = j - 1
  <2> TAKE j \in 1..Len(r)
  <2>1. r[j] \in 0..Held
    BY <1>7
  <2>2. Cnt(P, r[j]) = j - 1
    BY <1>6 DEF Counted
  <2> QED
    BY <1>2, <2>1, <2>2
<1>9. \A p \in 0..Held : Cardinality(Before(r, p)) = Cnt(Reads(words), p)
  <2> TAKE p \in 0..Held
  <2>1. p \in 0..(Held + 1)
    BY <1>1
  <2>2. Cardinality(Before(r, p)) = Cnt(P, p)
    BY <1>6, <2>1 DEF Counted
  <2> QED
    BY <1>2, <2>2
<1>10. Sets * n <= Len(r)
  BY <1>1, <1>3, Division
<1>11. ASSUME NEW k \in 1..Sets
       PROVE  /\ (k - 1) * n + 1 \in 1..Len(r) /\ k * n \in 1..Len(r) /\ (k - 1) * n + 1 <= k * n
  <2>1. (k - 1) * n + 1 \in 1..Len(r)
    BY <1>1, <1>3, <1>10, SetFirst
  <2>2. k * n <= Sets * n
    <3>1. k \in Nat /\ n \in Nat /\ k <= Sets
      BY <1>1, <1>3
    <3> QED
      BY <1>3, <3>1, TimesKeepsOrder
  <2>3. (k - 1) * n + n = k * n /\ (k - 1) * n \in Nat /\ k * n \in Nat /\ Sets * n \in Nat
    BY <1>1, <1>3
  <2>4. \A a, b, c, l \in Nat : a + n = b /\ b <= c /\ c <= l => b \in 1..l /\ a + 1 <= b
    BY <1>1
  <2> QED
    BY <1>3, <1>10, <2>1, <2>2, <2>3, <2>4
<1>12. ASSUME NEW k \in 1..Sets
       PROVE  /\ FirstOf(k) \in P /\ FirstOf(k) \in 1..Held /\ Cnt(Reads(words), FirstOf(k)) = (k - 1) * n
              /\ SetsBefore(words, n, FirstOf(k)) = k - 1
              /\ SetEnds(Latest)[k] \in P /\ SetEnds(Latest)[k] \in 1..Held
              /\ FirstOf(k) <= SetEnds(Latest)[k] /\ Cnt(Reads(words), SetEnds(Latest)[k]) = k * n - 1
  <2> DEFINE i == (k - 1) * n + 1
             j == k * n
  <2>1. i \in 1..Len(r) /\ j \in 1..Len(r) /\ i <= j /\ i - 1 = (k - 1) * n
    <3>1. (k - 1) * n \in Nat
      BY <1>1
    <3> QED
      BY <1>11, <3>1
  <2>2. FirstOf(k) = r[i] /\ SetEnds(Latest)[k] = r[j]
    BY <1>5 DEF FirstOf, n, r
  <2>3. j = k * n
    OBVIOUS
  <2> HIDE DEF i, j
  <2>4. r[i] <= r[j]
    <3>1. i = j \/ i < j
      BY <2>1
    <3>2. i < j => r[i] < r[j]
      BY <1>4, <2>1 DEF Lists
    <3> QED
      BY <1>7, <2>1, <3>1, <3>2
  <2>5. Cnt(Reads(words), r[i]) = (k - 1) * n /\ Cnt(Reads(words), r[j]) = k * n - 1
    BY <1>8, <2>1, <2>3
  <2>6. SetsBefore(words, n, r[i]) = k - 1
    <3>1. k - 1 \in Nat /\ 0 \in 0..n
      BY <1>1
    <3>2. ((k - 1) * n) \div n = k - 1
      BY <1>1, <3>1, WithinSet
    <3> QED
      BY <2>5, <3>2 DEF SetsBefore
  <2> QED
    BY <1>7, <2>1, <2>2, <2>4, <2>5, <2>6
<1>13. DOMAIN SetEnds(Latest) = 1..Sets
  BY <1>5
<1> QED
  BY <1>3, <1>5, <1>9, <1>12, <1>13 DEF n, r, P

\* The events of the record, by their places.
PlaceOf(e) == EventPlaces(Latest)[e]

LEMMA LatestEvents ==
    ASSUME IInv, Layout, offloads # <<>>, ~ CorruptMatters
    PROVE  LET E == Events(Latest)
               most == Len(EventPlaces(Latest))
           IN  /\ DOMAIN E = 1..most /\ most \in Nat /\ Len(E) = most
               /\ \A e \in 1..most : /\ PlaceOf(e) \in L2Records(Latest) /\ PlaceOf(e) \in 1..Held /\ PlaceOf(e) < Held
                                     /\ words[PlaceOf(e)].kind = "event"
                                     /\ E[e].type = words[PlaceOf(e)].type /\ E[e].clock = words[PlaceOf(e)].clock
                                     /\ E[e].end = PlaceOf(e) + 1
                                     /\ E[e].index = SetsBefore(words, logger.nchan, PlaceOf(e))
               /\ \A e, f \in 1..most : e < f => PlaceOf(e) < PlaceOf(f)
               /\ \A p \in L2Records(Latest) : \E e \in 1..most : PlaceOf(e) = p
<1> DEFINE q == EventPlaces(Latest)
           E == Events(Latest)
<1>1. /\ Held \in Nat /\ IsImage(Latest) /\ Latest.nchan = logger.nchan /\ Len(Latest.words) = Held
      /\ \A i \in 1..Held : Latest.words[i] = words[i]
  BY LatestIs
<1>2. /\ L2Records(Latest) \subseteq 1..Held
      /\ \A i \in L2Records(Latest) : i < Held /\ words[i].kind = "event"
  BY LatestPlaces
<1>3. Lists(q, Held, L2Records(Latest))
  BY <1>1, InOrderLists DEF EventPlaces
<1>4. /\ E = [e \in 1..Len(q) |->
                 [type |-> Latest.words[q[e]].type, clock |-> Latest.words[q[e]].clock, end |-> q[e] + 1,
                  index |-> Cardinality(Before(Readings(Latest), q[e])) \div logger.nchan]]
      /\ Len(q) \in Nat
  BY <1>1, EventsAre
<1>5. \A p \in 0..Held : Cardinality(Before(Readings(Latest), p)) = Cnt(Reads(words), p)
  BY LatestSets
<1> HIDE DEF q, E
<1>6. DOMAIN E = 1..Len(q) /\ Len(E) = Len(q)
  BY <1>4
<1>7. ASSUME NEW e \in 1..Len(q)
      PROVE  /\ q[e] \in L2Records(Latest) /\ q[e] \in 1..Held /\ q[e] < Held /\ words[q[e]].kind = "event"
             /\ E[e].type = words[q[e]].type /\ E[e].clock = words[q[e]].clock /\ E[e].end = q[e] + 1
             /\ E[e].index = SetsBefore(words, logger.nchan, q[e])
  <2>1. q[e] \in L2Records(Latest) /\ q[e] \in 1..Held
    BY <1>3 DEF Lists
  <2>2. q[e] \in 0..Held
    BY <2>1
  <2>3. Cardinality(Before(Readings(Latest), q[e])) = Cnt(Reads(words), q[e])
    BY <1>5, <2>2
  <2> QED
    BY <1>1, <1>2, <1>4, <2>1, <2>3 DEF SetsBefore
<1>8. /\ \A e, f \in 1..Len(q) : e < f => q[e] < q[f]
      /\ \A p \in L2Records(Latest) : \E e \in 1..Len(q) : q[e] = p
  BY <1>2, <1>3 DEF Lists
<1> QED
  BY <1>4, <1>6, <1>7, <1>8 DEF q, E, PlaceOf

\* An event lies before a reading just if no more sets lie before it.
LEMMA EventOrReading ==
    ASSUME IInv, Layout, NEW p \in DOMAIN words, words[p].kind = "event", NEW b \in Reads(words)
    PROVE  /\ p # b /\ p \in Nat /\ b \in Nat
           /\ SetsBefore(words, logger.nchan, p) \in Nat /\ SetsBefore(words, logger.nchan, b) \in Nat
           /\ p < b <=> SetsBefore(words, logger.nchan, p) <= SetsBefore(words, logger.nchan, b)
<1> DEFINE n == logger.nchan
           s == SetsBefore(words, n, p)
           t == SetsBefore(words, n, b)
           c == Cnt(Reads(words), p)
           d == Cnt(Reads(words), b)
<1>1. n \in Nat \ {0} /\ Reads(words) \subseteq Nat /\ p \in Nat /\ b \in Nat /\ words[b].kind = "reading"
  BY StateIs DEF Reads
<1>2. p # b
  BY <1>1
<1>3. c \in Nat /\ d \in Nat /\ s = c \div n /\ t = d \div n
  BY <1>1, CntIs DEF SetsBefore
<1>4. c = s * n
  BY DEF Layout, Whole
<1>5. ASSUME p < b PROVE s <= t
  <2>1. c <= d
    <3>1. p <= b
      BY <1>1, <1>5
    <3> QED
      BY <1>1, <3>1, CntBetween
  <2> HIDE DEF c, d, s, t, n
  <2> QED
    BY <1>1, <1>3, <2>1, DivisionKeepsOrder
<1>6. ASSUME b < p PROVE t < s
  <2>1. d < c
    BY <1>1, <1>6, CntBetween
  <2> HIDE DEF c, d, s, t, n
  <2>2. t \in Nat /\ s \in Nat /\ t * n <= d
    BY <1>1, <1>3, Division
  <2>3. t * n < s * n
    <3>1. t * n \in Nat /\ s * n \in Nat
      BY <1>1, <2>2
    <3> QED
      BY <1>3, <1>4, <2>1, <2>2, <3>1
  <2>4. s <= t => s * n <= t * n
    <3>1. n \in Nat
      BY <1>1
    <3> QED
      BY <2>2, <3>1, TimesKeepsOrder
  <2>5. t * n \in Nat /\ s * n \in Nat
    BY <1>1, <2>2
  <2> QED
    BY <2>2, <2>3, <2>4, <2>5
<1>7. s \in Nat /\ t \in Nat
  <2> HIDE DEF c, d, s, t, n
  <2> QED
    BY <1>1, <1>3, Division
<1> HIDE DEF s, t, c, d
<1>8. p < b <=> s <= t
  BY <1>1, <1>2, <1>5, <1>6, <1>7
<1> QED
  BY <1>1, <1>2, <1>7, <1>8 DEF s, t, n

\* So an event of the record lies before a sample set, also before one that is half of an
\* event cut off, just if no more sets lie before it.
LEMMA EventOrSet ==
    ASSUME IInv, Layout, offloads # <<>>, ~ CorruptMatters,
           NEW p \in 1..Held, p < Held, words[p].kind = "event", NEW k \in 1..Sets
    PROVE  /\ p # FirstOf(k) /\ p \in Nat /\ FirstOf(k) \in Nat /\ SetsBefore(words, logger.nchan, p) \in Nat
           /\ p < FirstOf(k) <=> SetsBefore(words, logger.nchan, p) <= k - 1
<1> DEFINE n == logger.nchan
           b == FirstOf(k)
<1>1. /\ Held \in Nat /\ b \in 1..Held /\ SetsBefore(words, n, b) = k - 1 /\ p \in DOMAIN words
      /\ b \in Reads(words) \/ b = Held
  BY LatestSets, LatestIs, LatestPlaces
<1>2. n \in Nat \ {0} /\ Reads(words) \subseteq Nat /\ p \in Nat /\ b \in Nat
  BY <1>1, StateIs
<1>3. CASE b \in Reads(words)
  BY <1>1, <1>2, <1>3, EventOrReading
<1>4. CASE b = Held
  <2>1. p < b /\ p <= b
    BY <1>1, <1>2, <1>4
  <2> HIDE DEF n, b
  <2>2. Cnt(Reads(words), p) <= Cnt(Reads(words), b) /\ Cnt(Reads(words), p) \in Nat /\ Cnt(Reads(words), b) \in Nat
    BY <1>2, <2>1, CntBetween
  <2>3. SetsBefore(words, n, p) <= SetsBefore(words, n, b)
    BY <1>2, <2>2, DivisionKeepsOrder DEF SetsBefore
  <2>4. SetsBefore(words, n, p) \in Nat
    BY <1>2, <2>2, Division DEF SetsBefore
  <2> QED
    BY <1>1, <1>2, <2>1, <2>3, <2>4 DEF n, b
<1> QED
  BY <1>1, <1>3, <1>4

\* The anchor of a sample set is the last one stored before it; only the first may be
\* corrupt.
AnchorOf(k) == SetOrNone(Anchors(Events(Latest), k))
Anchored(k) ==
    /\ AnchorOf(k) \in 0..Len(EventPlaces(Latest))
    /\ LastAnchor(words, IF AnchorOf(k) = 0 THEN 1 ELSE PlaceOf(AnchorOf(k)), FirstOf(k))

LEMMA AnchorIs ==
    ASSUME IInv, Layout, ClockCounts, offloads # <<>>, ~ CorruptMatters,
           NEW k \in 1..Sets, FirstOf(k) # 1
    PROVE  Anchored(k)
<1> DEFINE n == logger.nchan
           b == FirstOf(k)
           E == Events(Latest)
           most == Len(EventPlaces(Latest))
           A == Anchors(E, k)
           B == {i \in 1..Held : i < b /\ IsAnchor(words, i)}
<1>1. /\ Held \in Nat /\ b \in 1..Held /\ SetsBefore(words, n, b) = k - 1 /\ k \in Nat
      /\ \A i \in 1..Held : i \in DOMAIN words
  BY LatestSets, LatestIs
<1>2. /\ DOMAIN E = 1..most /\ most \in Nat
      /\ \A e \in 1..most : /\ PlaceOf(e) \in 1..Held
                            /\ words[PlaceOf(e)].kind = "event" /\ E[e].type = words[PlaceOf(e)].type
                            /\ E[e].index = SetsBefore(words, n, PlaceOf(e))
                            /\ PlaceOf(e) \in L2Records(Latest) /\ PlaceOf(e) < Held
  BY LatestEvents
<1>3. /\ \A e, f \in 1..most : e < f => PlaceOf(e) < PlaceOf(f)
      /\ \A p \in L2Records(Latest) : \E e \in 1..most : PlaceOf(e) = p
  BY LatestEvents
<1>4. /\ words[1].kind = "event" /\ words[1].type = "sync"
      /\ \A i \in DOMAIN words : words[i].kind = "event" /\ words[i].type = "sync" => i = 1
  BY DEF ClockCounts
<1>5. \A i \in 1..Held : i < Held /\ words[i].kind = "event"
        /\ words[i].type \in RTC_RESET_EVENTS \cup {"cpu_reset"} => i \in L2Records(Latest)
  BY LatestPlaces
<1> HIDE DEF b, n, E, most
<1>6. ASSUME NEW e \in 1..most
      PROVE  e \in A <=> PlaceOf(e) \in B
  <2>1. PlaceOf(e) \in DOMAIN words /\ words[PlaceOf(e)].kind = "event" /\ PlaceOf(e) \in 1..Held
    BY <1>1, <1>2
  <2>2. SetsBefore(words, n, PlaceOf(e)) \in Nat
        /\ (PlaceOf(e) < b <=> SetsBefore(words, n, PlaceOf(e)) <= k - 1)
    BY <1>2, <2>1, EventOrSet DEF b, n
  <2>3. e \in A <=> (E[e].type \in ANCHOR_EVENTS /\ E[e].index < k)
    BY <1>2 DEF Anchors
  <2>4. PlaceOf(e) \in B <=> (PlaceOf(e) < b /\ words[PlaceOf(e)].type \in ANCHOR_EVENTS)
    BY <2>1 DEF IsAnchor
  <2>5. E[e].index = SetsBefore(words, n, PlaceOf(e)) /\ E[e].type = words[PlaceOf(e)].type
    BY <1>2
  <2>6. SetsBefore(words, n, PlaceOf(e)) < k <=> SetsBefore(words, n, PlaceOf(e)) <= k - 1
    BY <1>1, <2>2
  <2> QED
    BY <2>2, <2>3, <2>4, <2>5, <2>6
<1>7. ASSUME NEW i \in B PROVE i = 1 \/ i \in L2Records(Latest)
  <2>1. i \in 1..Held /\ i < Held /\ words[i].kind = "event" /\ words[i].type \in ANCHOR_EVENTS /\ i \in DOMAIN words
    BY <1>1 DEF IsAnchor
  <2>2. words[i].type = "sync" \/ words[i].type \in RTC_RESET_EVENTS \cup {"cpu_reset"}
    BY <2>1 DEF ANCHOR_EVENTS, RESTART_EVENTS, RTC_RESET_EVENTS
  <2> QED
    BY <1>4, <1>5, <2>1, <2>2
<1>8. 1 \in B
  <2>1. b # 1 /\ b \in 1..Held
    BY <1>1 DEF b
  <2>2. 1 \in 1..Held /\ 1 < b
    BY <1>1, <2>1
  <2> QED
    BY <1>4, <2>2 DEF IsAnchor, ANCHOR_EVENTS
<1>9. ASSUME NEW i \in B, \A j \in B : j <= i PROVE LastAnchor(words, i, b)
  <2>1. \A j \in DOMAIN words : i < j /\ j < b /\ IsAnchor(words, j) => j \in B
    <3>1. DOMAIN words = 1..Len(words) /\ Len(words) \in Nat
      BY StateIs
    <3> QED
      BY <1>1, <3>1
  <2>2. \A j \in B : j \in Nat /\ j <= i /\ i \in Nat
    BY <1>9
  <2>3. \A j \in DOMAIN words : i < j /\ j < b => ~ IsAnchor(words, j)
    BY <2>1, <2>2
  <2> QED
    BY <1>1, <1>9, <2>3 DEF LastAnchor
<1>10. A \subseteq 1..most
  BY <1>2 DEF Anchors
<1> HIDE DEF A
<1>11. CASE A = {}
  <2>1. AnchorOf(k) = 0
    BY <1>11 DEF AnchorOf, SetOrNone, A, E
  <2>2. \A i \in B : i = 1
    <3> TAKE i \in B
    <3>1. i \notin L2Records(Latest)
      BY <1>3, <1>6, <1>11
    <3> QED
      BY <1>7, <3>1
  <2>3. LastAnchor(words, 1, b)
    <3>1. \A j \in B : j <= 1
      BY <2>2
    <3> QED
      BY <1>8, <1>9, <3>1
  <2>4. 0 \in 0..Len(EventPlaces(Latest))
    BY <1>2 DEF most
  <2> QED
    BY <2>1, <2>3, <2>4 DEF Anchored, b
<1>12. CASE A # {}
  <2>1. Max(A) \in A /\ (\A e \in A : e <= Max(A)) /\ AnchorOf(k) = Max(A)
    <3>1. Max(A) \in A /\ \A e \in A : e <= Max(A)
      BY <1>2, <1>10, <1>12, MaxOf
    <3>2. AnchorOf(k) = Max(A)
      BY <1>12 DEF AnchorOf, SetOrNone, A, E
    <3> QED
      BY <3>1, <3>2
  <2> DEFINE a == Max(A)
  <2>2. a \in A /\ (\A e \in A : e <= a) /\ AnchorOf(k) = a
    BY <2>1
  <2> HIDE DEF a
  <2>3. a \in 1..most /\ PlaceOf(a) \in B /\ PlaceOf(a) \in 1..Held
    BY <1>2, <1>6, <1>10, <2>2
  <2>4. ASSUME NEW j \in B PROVE j <= PlaceOf(a)
    <3>1. j \in 1..Held
      OBVIOUS
    <3>2. CASE j \in L2Records(Latest)
      <4>1. PICK f \in 1..most : PlaceOf(f) = j
        BY <1>3, <3>2
      <4>2. f \in A
        BY <1>6, <4>1
      <4>3. f = a \/ f < a
        BY <2>2, <2>3, <4>2
      <4>4. f < a => j < PlaceOf(a)
        BY <1>3, <2>3, <4>1
      <4> QED
        BY <2>3, <3>1, <4>1, <4>3, <4>4
    <3>3. CASE j = 1
      BY <2>3, <3>3
    <3> QED
      BY <1>7, <3>2, <3>3
  <2>5. LastAnchor(words, PlaceOf(a), b)
    BY <1>9, <2>3, <2>4
  <2>6. a # 0 /\ a \in 0..Len(EventPlaces(Latest))
    BY <1>2, <2>3 DEF most
  <2> QED
    BY <2>2, <2>5, <2>6 DEF Anchored, b
<1> QED
  BY <1>11, <1>12

LEMMA NoneBeforeTheFirst ==
    ASSUME IInv
    PROVE  SetsBefore(words, logger.nchan, 1) = 0
<1>1. \A i \in Reads(words) : i \in 1..Len(words)
  BY StateIs, PlacesAreNumbers
<1>2. {i \in Reads(words) : i < 1} = {}
  BY <1>1
<1>3. Cnt(Reads(words), 1) = 0
  BY <1>2, FS_EmptySet DEF Cnt
<1>4. logger.nchan \in Nat \ {0} /\ 0 \in Nat /\ 0 \in 0..logger.nchan
  BY StateIs
<1>5. (0 * logger.nchan) \div logger.nchan = 0 /\ 0 * logger.nchan = 0
  BY <1>4, WithinSet
<1> QED
  BY <1>3, <1>5 DEF SetsBefore

\* So the decoders tell what the anchors do, ...
LEMMA ToldClock ==
    ASSUME IInv, Layout, ClockCounts, offloads # <<>>, ~ CorruptMatters,
           logger.family # "gen3", NEW k \in 1..Sets, NEW c \in Nat, ToldBefore(FirstOf(k), c)
    PROVE  ClockOf(Latest, k) = c
<1> DEFINE n == logger.nchan
           b == FirstOf(k)
           E == Events(Latest)
           a == AnchorOf(k)
<1>1. /\ Latest.family = logger.family /\ Latest.nchan = n /\ Latest.enabled = logger.enabled
      /\ b \in 1..Held /\ Latest.words[b] = words[b]
      /\ SetsBefore(words, n, b) = k - 1
  BY LatestSets, LatestIs
<1>2. ClockOf(Latest, k) = IF a = 0 THEN logger.enabled + k - 1 ELSE E[a].clock + k - 1 - E[a].index
  BY <1>1 DEF ClockOf, AnchoredTime, AnchorOf, Anchors
<1>3. \A e \in 1..Len(EventPlaces(Latest)) :
         /\ E[e].clock = words[PlaceOf(e)].clock /\ E[e].index = SetsBefore(words, n, PlaceOf(e))
         /\ PlaceOf(e) \in 1..Held /\ PlaceOf(e) < Held
  BY LatestEvents
<1>4. words[1].clock = logger.enabled /\ SetsBefore(words, n, 1) = 0 /\ logger.enabled \in Nat /\ 1 \in DOMAIN words
  BY NoneBeforeTheFirst, StateIs DEF ClockCounts
<1>5. CASE b = 1
  <2>1. k - 1 = 0 /\ c = logger.enabled
    BY <1>1, <1>4, <1>5 DEF ToldBefore
  <2>2. a = 0
    <3>1. b \notin Reads(words) /\ Held = 1
      <4>1. b \notin Reads(words)
        BY <1>5 DEF ClockCounts, Reads
      <4> QED
        BY <1>5, <4>1, LatestSets, LatestPlaces
    <3>2. DOMAIN E = 1..Len(EventPlaces(Latest)) /\ Len(EventPlaces(Latest)) \in Nat
      BY LatestEvents
    <3>3. DOMAIN E = {}
      BY <1>3, <3>1, <3>2
    <3>4. Anchors(E, k) = {}
      BY <3>3 DEF Anchors
    <3> QED
      BY <3>4 DEF AnchorOf, SetOrNone
  <2> QED
    BY <1>2, <1>4, <2>1, <2>2
<1>6. CASE b # 1
  <2>1. Anchored(k)
    BY <1>6, AnchorIs
  <2>2. \A d \in DOMAIN words : LastAnchor(words, d, b) => c = words[d].clock + (k - 1) - SetsBefore(words, n, d)
    BY <1>1 DEF ToldBefore
  <2> HIDE DEF n, b, E, a
  <2>3. CASE a = 0
    <3>1. LastAnchor(words, 1, b)
      BY <2>1, <2>3 DEF Anchored, a, b
    <3>2. c = words[1].clock + (k - 1) - SetsBefore(words, n, 1)
      BY <1>4, <2>2, <3>1
    <3> QED
      BY <1>2, <1>4, <2>3, <3>2
  <2>4. CASE a # 0
    <3>1. a \in 1..Len(EventPlaces(Latest)) /\ LastAnchor(words, PlaceOf(a), b)
      <4>1. a \in 0..Len(EventPlaces(Latest)) /\ Len(EventPlaces(Latest)) \in Nat
        BY <2>1, LatestEvents DEF Anchored, a
      <4> QED
        BY <2>1, <2>4, <4>1 DEF Anchored, a, b
    <3>2. PlaceOf(a) \in DOMAIN words /\ c = words[PlaceOf(a)].clock + (k - 1) - SetsBefore(words, n, PlaceOf(a))
      BY <2>2, <3>1 DEF LastAnchor
    <3>3. E[a].clock = words[PlaceOf(a)].clock /\ E[a].index = SetsBefore(words, n, PlaceOf(a))
      BY <1>3, <3>1
    <3>4. words[PlaceOf(a)].clock \in Nat /\ SetsBefore(words, n, PlaceOf(a)) \in Nat
      <4>1. words \in Seq(Word) /\ words[PlaceOf(a)].kind = "event" /\ logger.nchan \in Nat \ {0} /\ DOMAIN words = 1..Len(words)
        BY <3>1, StateIs DEF LastAnchor, IsAnchor
      <4>2. words[PlaceOf(a)] \in Word /\ PlaceOf(a) \in Nat
        BY <3>2, <4>1
      <4>3. SetsBefore(words, n, PlaceOf(a)) \in Nat
        BY <4>1, <4>2, SetsBeforeIs DEF n
      <4> QED
        BY <4>2, <4>3 DEF Word
    <3> QED
      BY <1>2, <2>4, <3>2, <3>3, <3>4
  <2> QED
    BY <2>3, <2>4
<1> QED
  BY <1>5, <1>6

\* ... which is what the clock said.
LEMMA DecodedClock ==
    ASSUME IInv, Layout, ClockCounts, offloads # <<>>, ~ CorruptMatters,
           NEW k \in 1..Sets, FirstOf(k) \in Reads(words)
    PROVE  ClockOf(Latest, k) = words[FirstOf(k)].clock
<1>1. /\ Latest.family = logger.family /\ Latest.nchan = logger.nchan /\ FirstOf(k) \in 1..Held
      /\ Latest.words[FirstOf(k)] = words[FirstOf(k)]
  BY LatestSets, LatestIs
<1>2. CASE logger.family = "gen3"
  BY <1>1, <1>2 DEF ClockOf, FirstOf
<1>3. CASE logger.family # "gen3"
  <2> DEFINE b == FirstOf(k)
  <2>1. b # 1 /\ words[b] \in Word /\ words[b].kind = "reading"
    <3>1. \A w \in Seq(Word) : \A i \in DOMAIN w : w[i] \in Word
      OBVIOUS
    <3> QED
      BY <3>1, StateIs DEF ClockCounts, Reads
  <2>2. ToldBefore(b, words[b].clock)
    BY <2>1 DEF ToldBefore, ClockCounts
  <2>3. words[b].clock \in Nat
    BY <2>1 DEF Word
  <2> QED
    BY <1>3, <2>2, <2>3, ToldClock
<1> QED
  BY <1>2, <1>3

\* What the file says of the logger's clock.
LEMMA FileIs ==
    ASSUME IInv, offloads # <<>>
    PROVE  LET d == Decoded(Latest)
               r == resolve_times(d, offloads)
           IN  /\ file.logger = d.time /\ file.time = r.time /\ file.kept = r.kept /\ file.by = r.by
               /\ file.corrections = Corrections(r) /\ (file.refused <=> Refused(r))
               /\ d.time = [k \in 1..Sets |-> ClockOf(Latest, k)]
               /\ \A k \in 1..Sets : WordOf(k) = words[FirstOf(k)]
<1>1. file = NetCDF(Latest, offloads)
  BY DEF IInv, FileIsOfLatest
<1>2. IsImage(Latest) /\ Latest.nchan = logger.nchan
  BY LatestIs
<1>3. Decoded(Latest).time = [k \in 1..Sets |-> ClockOf(Latest, k)]
  BY <1>2, DecodedTimes DEF Sets
<1>4. SetStarts(Latest) = [k \in 1..Sets |-> FirstOf(k)]
  BY <1>2 DEF SetStarts, FirstOf, Sets, SetsIn
<1> QED
  BY <1>1, <1>3, <1>4 DEF NetCDF, WordOf

LEMMA RealIs ==
    ASSUME IInv, Layout, offloads # <<>>, ~ CorruptMatters, NEW k \in 1..Sets, Real(k)
    PROVE  FirstOf(k) \in Reads(words)
<1>1. FirstOf(k) \in 1..Held /\ \A i \in 1..Held : i \in DOMAIN words
  BY LatestSets, LatestIs
<1> QED
  BY <1>1, FileIs DEF Real, Reads

\* In every file, whatever happened to the logger and however its memory was read, the
\* samples stand at the times that its clock showed (rawbin.decode, decode_l2,
\* decode_easyparse).
THEOREM ClockIsDecoded == Spec => []DecodesTheClock
<1>1. IInv /\ Clocks => DecodesTheClock
  <2> SUFFICES ASSUME IInv, Clocks, offloads # <<>>, ~ CorruptMatters,
                      NEW k \in DOMAIN file.logger, Real(k)
               PROVE  file.logger[k] = WordOf(k).clock
    BY DEF DecodesTheClock
  <2>1. Layout /\ ClockCounts
    BY DEF Clocks
  <2>2. /\ file.logger = Decoded(Latest).time
        /\ Decoded(Latest).time = [j \in 1..Sets |-> ClockOf(Latest, j)]
        /\ \A j \in 1..Sets : WordOf(j) = words[FirstOf(j)]
    BY FileIs
  <2>3. k \in 1..Sets
    BY <2>2
  <2>4. FirstOf(k) \in Reads(words)
    BY <2>1, <2>3, RealIs
  <2>5. ClockOf(Latest, k) = words[FirstOf(k)].clock
    BY <2>1, <2>3, <2>4, DecodedClock
  <2> QED
    BY <2>2, <2>3, <2>5
<1> QED
  BY <1>1, Invariance, ClocksKept, PTL

-----------------------------------------------------------------------------
(* The sample times, where the record shows every restart of the clock.    *)

\* The latest offload has seen the most.
LEMMA HeldIsMost ==
    ASSUME IInv, OffloadsInOrder, NEW k \in DOMAIN offloads
    PROVE  offloads # <<>> /\ offloads[k].bytes \in 0..Held
<1>1. /\ offloads \in Seq(OffloadRecord) /\ Len(offloads) \in Nat /\ DOMAIN offloads = 1..Len(offloads)
      /\ \A j \in 1..Len(offloads) : offloads[j].bytes \in Nat
  BY StateIs
<1>2. offloads # <<>> /\ Len(offloads) \in DOMAIN offloads
  BY <1>1
<1>3. Held = offloads[Len(offloads)].bytes
  BY <1>2, LatestIs
<1>4. k = Len(offloads) \/ k < Len(offloads)
  BY <1>1
<1>5. offloads[k].bytes <= Held
  BY <1>1, <1>2, <1>3, <1>4 DEF OffloadsInOrder
<1> QED
  BY <1>1, <1>2, <1>3, <1>5

\* There is a file of a deployment whose record shows every restart, and which is shorter
\* than the year that a restarted clock takes to tell a time after 2000.
RecordShows ==
    /\ IInv /\ Clocks /\ Moments /\ OffloadsInOrder
    /\ offloads # <<>> /\ ~ CorruptMatters /\ RestartsApart /\ now < StartTime + Y2001

Rec == Decoded(Latest)
Views == offload_views(Rec, offloads)
Begins == StartsOf(Rec, offloads)

\* What the decoders return for it.
LEMMA RecIs ==
    ASSUME RecordShows
    PROVE  LET E == Events(Latest)
           IN  /\ Sets \in Nat /\ Rec.time = [k \in 1..Sets |-> ClockOf(Latest, k)] /\ Len(Rec.time) = Sets
               /\ Rec.time \in Seq(Int)
               /\ Rec.ends = SetEnds(Latest) /\ Len(Rec.ends) = Sets /\ DOMAIN Rec.ends = 1..Sets
               /\ DOMAIN Rec.events = 1..Len(E) /\ Len(Rec.events) = Len(E) /\ Len(E) \in Nat
               /\ \A e \in 1..Len(E) : Rec.events[e].end = E[e].end /\ Rec.events[e].type = E[e].type
               /\ logger.family # "gen3" => Rec.events = E /\ Rec.restarts = RTC_RESET_EVENTS
               /\ logger.family = "gen3" => Rec.reset = {k \in 1..Sets : Rec.time[k] < Y2001}
               /\ logger.family # "gen3" =>
                      Rec.reset = {k \in 1..Sets : \/ AnchoredTime(Latest, E, k).clock < Y2001
                                                   \/ AnchoredTime(Latest, E, k).reset}
<1>1. IInv /\ Layout /\ offloads # <<>> /\ ~ CorruptMatters
  BY DEF RecordShows, Clocks
<1>2. IsImage(Latest) /\ Latest.nchan = logger.nchan /\ Latest.family = logger.family
  BY <1>1, LatestIs
<1>3. Sets \in Nat /\ SetStarts(Latest) = [k \in 1..Sets |-> FirstOf(k)] /\ DOMAIN SetEnds(Latest) = 1..Sets
  BY <1>1, LatestSets
<1>4. Rec.time = [k \in 1..Sets |-> ClockOf(Latest, k)] /\ Rec.time \in Seq(Int) /\ Len(Rec.time) = Sets
  BY <1>2, DecodedTimes, DecodedInOrder DEF Rec, Sets
<1>5. DOMAIN Events(Latest) = 1..Len(Events(Latest)) /\ Len(Events(Latest)) \in Nat
  BY <1>1, LatestEvents
<1>6. Len(SetEnds(Latest)) = Sets
  <2>1. SetEnds(Latest) = [k \in 1..Sets |-> Readings(Latest)[k * Latest.nchan]]
    BY DEF SetEnds, Sets, SetsIn
  <2> QED
    BY <1>3, <2>1
<1>7. CASE logger.family = "gen3"
  <2> DEFINE E == Events(Latest)
             time == [k \in DOMAIN SetStarts(Latest) |-> Latest.words[SetStarts(Latest)[k]].clock]
             index == event_indices(time, [e \in DOMAIN E |-> E[e].clock])
  <2>1. Rec = [time |-> time, reset |-> {k \in DOMAIN time : time[k] < Y2001}, ends |-> SetEnds(Latest),
               events |-> [e \in DOMAIN E |-> [E[e] EXCEPT !.index = index[e]]],
               restarts |-> RESTART_EVENTS]
    BY <1>2, <1>7 DEF Rec, Decoded, decode_easyparse
  <2>2. DOMAIN time = 1..Sets
    BY <1>3
  <2> HIDE DEF index, time
  <2>3. /\ Rec.time = time /\ Rec.reset = {k \in 1..Sets : Rec.time[k] < Y2001} /\ Rec.ends = SetEnds(Latest)
        /\ Rec.events = [e \in DOMAIN E |-> [E[e] EXCEPT !.index = index[e]]]
    BY <2>1, <2>2
  <2>4. E = [e \in 1..Len(EventPlaces(Latest)) |->
                 [type |-> Latest.words[EventPlaces(Latest)[e]].type, clock |-> Latest.words[EventPlaces(Latest)[e]].clock,
                  end |-> EventPlaces(Latest)[e] + 1,
                  index |-> Cardinality(Before(Readings(Latest), EventPlaces(Latest)[e])) \div Latest.nchan]]
    BY <1>2, EventsAre
  <2>5. \A e \in DOMAIN E : [E[e] EXCEPT !.index = index[e]].end = E[e].end /\ [E[e] EXCEPT !.index = index[e]].type = E[e].type
    BY <2>4
  <2>6. Len(Rec.events) = Len(E) /\ DOMAIN Rec.events = 1..Len(E)
    <3> HIDE DEF E
    <3> QED
      BY <1>5, <2>3 DEF E
  <2> QED
    BY <1>3, <1>4, <1>5, <1>6, <1>7, <2>3, <2>5, <2>6
<1>8. CASE logger.family # "gen3"
  <2> DEFINE E == Events(Latest)
             n == Len(SetEnds(Latest))
             timed == [k \in 1..n |-> AnchoredTime(Latest, E, k)]
  <2>1. Rec = [time |-> [k \in 1..n |-> timed[k].clock],
               reset |-> {k \in 1..n : timed[k].clock < Y2001 \/ timed[k].reset},
               ends |-> SetEnds(Latest), events |-> E, restarts |-> RTC_RESET_EVENTS]
    BY <1>2, <1>8 DEF Rec, Decoded, DecodeWords
  <2>2. /\ Rec.ends = SetEnds(Latest) /\ Rec.events = E /\ Rec.restarts = RTC_RESET_EVENTS
        /\ Rec.reset = {k \in 1..n : timed[k].clock < Y2001 \/ timed[k].reset}
    BY <2>1
  <2>3. {k \in 1..n : timed[k].clock < Y2001 \/ timed[k].reset}
           = {k \in 1..n : AnchoredTime(Latest, E, k).clock < Y2001 \/ AnchoredTime(Latest, E, k).reset}
    OBVIOUS
  <2> HIDE DEF timed, E
  <2> QED
    BY <1>3, <1>4, <1>5, <1>6, <1>8, <2>2, <2>3 DEF E
<1> QED
  BY <1>7, <1>8

\* Of a list, the first so many that are counted.
LEMMA FirstOnes ==
    ASSUME NEW n \in Nat, NEW S, S \subseteq 1..n, \A i \in S, j \in 1..n : j < i => j \in S
    PROVE  Cardinality(S) \in 0..n /\ \A j \in 1..n : j \in S <=> j <= Cardinality(S)
<1>1. CASE S = {}
  <2>1. Cardinality(S) = 0
    BY <1>1, FS_EmptySet
  <2> QED
    BY <1>1, <2>1
<1>2. CASE S # {}
  <2>1. PICK m \in 1..n : m = Max(S) /\ m \in S /\ \A i \in S : i <= m
    BY <1>2, MaxOf
  <2>2. \A i \in S : i \in 1..m
    BY <2>1
  <2>3. \A j \in 1..m : j \in S
    BY <2>1
  <2>4. S = 1..m
    BY <2>2, <2>3
  <2>5. Cardinality(S) = m
    BY <2>4, NumbersUpTo
  <2> QED
    BY <2>1, <2>4, <2>5
<1> QED
  BY <1>1, <1>2

\* A view tells of the sample sets and the events stored whole before its offload.
LEMMA ViewsAre ==
    ASSUME RecordShows
    PROVE  /\ DOMAIN Views = 1..Len(offloads)
           /\ \A k \in 1..Len(offloads) :
                 /\ Views[k].skew = offloads[k].skew /\ (Views[k].measured <=> offloads[k].by # "none")
                 /\ Views[k].samples \in 0..Sets /\ Views[k].events \in 0..Len(Events(Latest))
                 /\ \A j \in 1..Sets : j <= Views[k].samples <=> SetEnds(Latest)[j] <= offloads[k].bytes
                 /\ \A e \in 1..Len(Events(Latest)) :
                        e <= Views[k].events <=> PlaceOf(e) < offloads[k].bytes
<1>1. IInv /\ Layout /\ offloads # <<>> /\ ~ CorruptMatters
  BY DEF RecordShows, Clocks
<1> DEFINE E == Events(Latest)
           l == Len(offloads)
<1>2. /\ Sets \in Nat /\ Rec.ends = SetEnds(Latest) /\ Len(Rec.ends) = Sets /\ DOMAIN Rec.ends = 1..Sets
      /\ DOMAIN Rec.events = 1..Len(E) /\ Len(Rec.events) = Len(E) /\ Len(E) \in Nat
      /\ \A e \in 1..Len(E) : Rec.events[e].end = E[e].end
  BY RecIs
<1>3. /\ \A e \in 1..Len(E) : PlaceOf(e) \in 1..Held /\ PlaceOf(e) < Held /\ E[e].end = PlaceOf(e) + 1
      /\ \A e, f \in 1..Len(E) : e < f => PlaceOf(e) < PlaceOf(f)
  BY <1>1, LatestEvents
<1>4. /\ \A k \in 1..Sets : /\ SetEnds(Latest)[k] \in 1..Held
                            /\ Cnt(Reads(words), SetEnds(Latest)[k]) = k * logger.nchan - 1
  BY <1>1, LatestSets
<1>5. /\ Held \in Nat /\ DOMAIN offloads = 1..l /\ l \in Nat /\ l \in 1..l /\ Held = offloads[l].bytes
      /\ logger.nchan \in Nat \ {0} /\ Reads(words) \subseteq Nat
      /\ \A k \in 1..l : offloads[k].bytes \in Nat
  BY <1>1, LatestIs, StateIs
<1>6. \A i, j \in 1..Sets : i < j => SetEnds(Latest)[i] < SetEnds(Latest)[j]
  <2> TAKE i, j \in 1..Sets
  <2> DEFINE a == SetEnds(Latest)[i]
             b == SetEnds(Latest)[j]
             n == logger.nchan
  <2>1. a \in 1..Held /\ b \in 1..Held /\ Cnt(Reads(words), a) = i * n - 1 /\ Cnt(Reads(words), b) = j * n - 1
    BY <1>4
  <2> HIDE DEF a, b, n
  <2>2. a \in Nat /\ b \in Nat /\ i \in Nat /\ j \in Nat /\ n \in Nat \ {0}
    BY <1>2, <1>5, <2>1 DEF n
  <2>3. b <= a => Cnt(Reads(words), b) <= Cnt(Reads(words), a)
    BY <1>5, <2>2, CntBetween
  <2>4. i < j => i * n + n <= j * n
    <3>1. i < j => (i + 1) * n <= j * n
      BY <2>2, TimesKeepsOrder
    <3>2. (i + 1) * n = i * n + n
      BY <2>2
    <3> QED
      BY <3>1, <3>2
  <2>5. i * n \in Nat /\ j * n \in Nat
    BY <2>2
  <2>6. i < j => a < b
    BY <2>1, <2>2, <2>3, <2>4, <2>5
  <2> QED
    BY <2>6 DEF a, b
<1>7. ASSUME NEW k \in 1..l
      PROVE  /\ DOMAIN Views = 1..l
             /\ Views[k].skew = offloads[k].skew /\ (Views[k].measured <=> offloads[k].by # "none")
             /\ Views[k].samples = Seen(Rec, offloads, k).samples
             /\ Views[k].events = Seen(Rec, offloads, k).events
  <2> HIDE DEF l
  <2>1. k \in DOMAIN offloads /\ DOMAIN offloads = 1..l
    BY <1>5
  <2> QED
    BY <2>1 DEF Views, offload_views
<1>8. ASSUME NEW k \in 1..l
      PROVE  /\ Views[k].samples \in 0..Sets /\ Views[k].events \in 0..Len(E)
             /\ \A j \in 1..Sets : j <= Views[k].samples <=> SetEnds(Latest)[j] <= offloads[k].bytes
             /\ \A e \in 1..Len(E) : e <= Views[k].events <=> PlaceOf(e) < offloads[k].bytes
  <2> HIDE DEF l
  <2>1. CASE k = l
    <3>1. Views[k].samples = Sets /\ Views[k].events = Len(E) /\ offloads[k].bytes = Held
      BY <1>2, <1>5, <1>7, <2>1 DEF Seen, l
    <3>2. \A j \in 1..Sets : SetEnds(Latest)[j] <= Held
      BY <1>4, <1>5
    <3> HIDE DEF E
    <3> QED
      BY <1>2, <1>3, <1>5, <3>1, <3>2
  <2>2. CASE k # l
    <3> DEFINE bytes == offloads[k].bytes
               S == {j \in 1..Sets : SetEnds(Latest)[j] <= bytes}
               T == {e \in 1..Len(E) : PlaceOf(e) < bytes}
    <3>1. bytes \in Nat
      BY <1>5
    <3>2. T = {e \in 1..Len(E) : E[e].end <= bytes}
      <4>1. \A e \in 1..Len(E) : PlaceOf(e) < bytes <=> E[e].end <= bytes
        BY <1>3, <1>5, <3>1
      <4> QED
        BY <4>1
    <3>3. Views[k].samples = Cardinality(S) /\ Views[k].events = Cardinality(T)
      <4>1. T = {e \in DOMAIN Rec.events : Rec.events[e].end <= bytes}
        BY <1>2, <3>2
      <4>2. S = {j \in DOMAIN Rec.ends : Rec.ends[j] <= bytes}
        BY <1>2
      <4> HIDE DEF S, T
      <4> QED
        BY <1>7, <2>2, <4>1, <4>2 DEF Seen, l
    <3> HIDE DEF bytes, E
    <3>4. \A i \in S, j \in 1..Sets : j < i => j \in S
      <4> TAKE i \in S, j \in 1..Sets
      <4>1. i \in 1..Sets /\ SetEnds(Latest)[i] <= bytes /\ SetEnds(Latest)[i] \in Nat /\ SetEnds(Latest)[j] \in Nat
        BY <1>4, <1>5
      <4>2. j < i => SetEnds(Latest)[j] < SetEnds(Latest)[i]
        BY <1>6, <4>1
      <4> QED
        BY <3>1, <4>1, <4>2
    <3>5. \A i \in T, j \in 1..Len(E) : j < i => j \in T
      <4> TAKE i \in T, j \in 1..Len(E)
      <4>1. i \in 1..Len(E) /\ PlaceOf(i) < bytes /\ PlaceOf(i) \in Nat /\ PlaceOf(j) \in Nat
        BY <1>3, <1>5
      <4>2. j < i => PlaceOf(j) < PlaceOf(i)
        BY <1>3, <4>1
      <4> QED
        BY <3>1, <4>1, <4>2
    <3>6. S \subseteq 1..Sets /\ T \subseteq 1..Len(E)
      OBVIOUS
    <3>7. /\ \A j \in 1..Sets : j \in S <=> SetEnds(Latest)[j] <= bytes
          /\ \A e \in 1..Len(E) : e \in T <=> PlaceOf(e) < bytes
      OBVIOUS
    <3> HIDE DEF S, T
    <3>8. Cardinality(S) \in 0..Sets /\ \A j \in 1..Sets : j \in S <=> j <= Cardinality(S)
      BY <1>2, <3>4, <3>6, FirstOnes
    <3>9. Cardinality(T) \in 0..Len(E) /\ \A e \in 1..Len(E) : e \in T <=> e <= Cardinality(T)
      BY <1>2, <3>5, <3>6, FirstOnes
    <3> QED
      BY <3>3, <3>7, <3>8, <3>9 DEF bytes
  <2> QED
    BY <2>1, <2>2
<1>9. DOMAIN Views = 1..l
  BY <1>5, <1>7
<1> QED
  BY <1>7, <1>8, <1>9

\* When set k was sampled, and which run of the clock it is of.  Where decode_l2 has made
\* the set of half an event, it stands at the moment of the event.
RunAt(k) == Runs(words, FirstOf(k))
At(k) == IF FirstOf(k) \in Reads(words) THEN words[FirstOf(k)].at
         ELSE CHOOSE t \in Nat : \E c \in Nat : Moment(FirstOf(k), c, t) /\ ToldBefore(FirstOf(k), c)

\* The time that a set is decoded to is what the clock showed at the set's moment.
LEMMA StandsAt ==
    ASSUME RecordShows, NEW k \in 1..Sets
    PROVE  Rec.time[k] \in Nat /\ At(k) \in Nat /\ Moment(FirstOf(k), Rec.time[k], At(k))
<1> DEFINE b == FirstOf(k)
<1>1. IInv /\ Layout /\ ClockCounts /\ SkewsMeasured /\ Moments /\ offloads # <<>> /\ ~ CorruptMatters
  BY DEF RecordShows, Clocks
<1>2. Rec.time[k] = ClockOf(Latest, k)
  BY RecIs
<1>3. CASE b \in Reads(words)
  <2>1. words[b] \in Word /\ words[b].kind = "reading"
    <3>1. \A w \in Seq(Word) : \A i \in DOMAIN w : w[i] \in Word
      OBVIOUS
    <3> QED
      BY <1>1, <1>3, <3>1, StateIs DEF Reads
  <2>2. words[b].clock \in Nat /\ words[b].at \in Nat
    BY <2>1 DEF Word
  <2>3. Moment(b, words[b].clock, words[b].at)
    BY <1>1, <1>3 DEF Moments
  <2>4. ClockOf(Latest, k) = words[b].clock /\ At(k) = words[b].at
    BY <1>1, <1>3, DecodedClock DEF At
  <2> QED
    BY <1>2, <2>2, <2>3, <2>4
<1>4. CASE b \notin Reads(words)
  <2>1. /\ b \in 1..Held /\ b \in Places(Latest) /\ b \in DOMAIN words
    BY <1>1, LatestSets, LatestIs
  <2>2. logger.family = "l2" /\ b = Held /\ words[b].kind = "event"
    BY <1>1, <1>4, <2>1, LatestPlaces
  <2>3. b \notin Resets(words)
    BY <1>1, <2>2, LatestIs DEF SkewsMeasured
  <2>4. HasMoment(b)
    BY <1>1, <2>1, <2>2, <2>3 DEF Moments
  <2>5. At(k) = CHOOSE t \in Nat : \E c \in Nat : Moment(b, c, t) /\ ToldBefore(b, c)
    BY <1>4 DEF At
  <2>6. At(k) \in Nat /\ \E c \in Nat : Moment(b, c, At(k)) /\ ToldBefore(b, c)
    BY <2>4, <2>5 DEF HasMoment
  <2>7. PICK c \in Nat : Moment(b, c, At(k)) /\ ToldBefore(b, c)
    BY <2>6
  <2>8. ClockOf(Latest, k) = c
    BY <1>1, <2>2, <2>7, ToldClock
  <2> QED
    BY <1>2, <2>6, <2>7, <2>8
<1> QED
  BY <1>3, <1>4

\* Of two sample sets the later one lies behind, and only the last may be half of an event.
LEMMA FirstsInOrder ==
    ASSUME RecordShows, NEW f \in 1..Sets, NEW k \in 1..Sets, f < k
    PROVE  FirstOf(f) \in Nat /\ FirstOf(k) \in Nat /\ FirstOf(f) < FirstOf(k) /\ FirstOf(f) \in Reads(words)
<1>1. IInv /\ Layout /\ offloads # <<>> /\ ~ CorruptMatters
  BY DEF RecordShows, Clocks
<1> DEFINE a == FirstOf(f)
           b == FirstOf(k)
           n == logger.nchan
<1>2. /\ a \in Places(Latest) /\ a \in 1..Held /\ Cnt(Reads(words), a) = (f - 1) * n
      /\ b \in 1..Held /\ Cnt(Reads(words), b) = (k - 1) * n
      /\ Sets \in Nat
  BY <1>1, LatestSets
<1>3. n \in Nat \ {0} /\ Reads(words) \subseteq Nat /\ Held \in Nat
  BY <1>1, StateIs, LatestIs
<1> HIDE DEF a, b, n
<1>4. f - 1 \in Nat /\ k - 1 \in Nat /\ (f - 1) + 1 <= k - 1 /\ (f - 1) + 1 \in Nat /\ a \in Nat /\ b \in Nat
  BY <1>2, <1>3
<1>5. (f - 1) * n + n <= (k - 1) * n
  <2>1. ((f - 1) + 1) * n <= (k - 1) * n
    BY <1>3, <1>4, TimesKeepsOrder
  <2>2. ((f - 1) + 1) * n = (f - 1) * n + n
    BY <1>3, <1>4
  <2> QED
    BY <2>1, <2>2
<1>6. (f - 1) * n \in Nat /\ (k - 1) * n \in Nat
  BY <1>3, <1>4
<1>7. b <= a => Cnt(Reads(words), b) <= Cnt(Reads(words), a)
  BY <1>3, <1>4, CntBetween
<1>8. a < b
  BY <1>2, <1>3, <1>4, <1>5, <1>6, <1>7
<1>9. a \in Reads(words)
  <2>1. a \in Reads(words) \/ a = Held
    BY <1>1, <1>2, LatestPlaces
  <2> QED
    BY <1>2, <1>3, <1>8, <2>1
<1> QED
  BY <1>4, <1>8, <1>9 DEF a, b

\* A sample set that ends between two places counts for the later one only.
LEMMA SetCounts ==
    ASSUME RecordShows, NEW m \in 1..Sets, NEW p \in 1..Held
    PROVE  /\ SetsBefore(words, logger.nchan, p) \in Nat /\ SetsBefore(words, logger.nchan, p) <= Sets
           /\ SetEnds(Latest)[m] < p => m <= SetsBefore(words, logger.nchan, p)
           /\ p <= SetEnds(Latest)[m] => SetsBefore(words, logger.nchan, p) < m
<1>1. IInv /\ Layout /\ offloads # <<>> /\ ~ CorruptMatters
  BY DEF RecordShows, Clocks
<1> DEFINE x == SetEnds(Latest)[m]
           n == logger.nchan
           c == Cnt(Reads(words), p)
           r == Len(Readings(Latest))
<1>2. /\ x \in Places(Latest) /\ x \in 1..Held /\ Cnt(Reads(words), x) = m * n - 1
      /\ \A q \in 0..Held : Cardinality(Before(Readings(Latest), q)) = Cnt(Reads(words), q)
  BY <1>1, LatestSets
<1>3. n \in Nat \ {0} /\ Reads(words) \subseteq Nat /\ Held \in Nat /\ IsImage(Latest) /\ Latest.nchan = n
  BY <1>1, StateIs, LatestIs
<1>4. r \in Nat /\ Sets = r \div n /\ Sets \in Nat /\ DOMAIN Readings(Latest) = 1..r
  BY <1>3, ReadingsIn DEF Sets, SetsIn
<1>5. c <= r /\ c \in Nat
  <2>1. Before(Readings(Latest), p) \subseteq 1..r
    BY <1>4 DEF Before
  <2>2. IsFiniteSet(1..r) /\ Cardinality(1..r) = r
    BY <1>4, NumbersUpTo
  <2>3. Cardinality(Before(Readings(Latest), p)) <= r /\ Cardinality(Before(Readings(Latest), p)) \in Nat
    BY <2>1, <2>2, FS_Subset, FS_CardinalityType
  <2>4. p \in 0..Held
    OBVIOUS
  <2> QED
    BY <1>2, <2>3, <2>4
<1> HIDE DEF x, n, r
<1>6. p \in Nat /\ x \in Nat /\ m \in Nat /\ m * n \in Nat /\ m - 1 \in Nat /\ m # 0
  BY <1>2, <1>3, <1>4
<1>7. ASSUME x < p PROVE m * n <= c
  <2>1. x \in Reads(words)
    <3>1. x \in Reads(words) \/ x = Held
      BY <1>1, <1>2, LatestPlaces
    <3> QED
      BY <1>2, <1>3, <1>7, <3>1
  <2>2. Cnt(Reads(words), x) < Cnt(Reads(words), p)
    <3>1. x <= p
      BY <1>6, <1>7
    <3>2. \A i \in Reads(words) : x <= i /\ i < p => Cnt(Reads(words), x) < Cnt(Reads(words), p)
      BY <1>3, <1>6, <3>1, CntBetween
    <3> QED
      BY <1>6, <1>7, <2>1, <3>2
  <2> QED
    BY <1>2, <1>5, <1>6, <2>2
<1>8. ASSUME p <= x PROVE c < m * n
  <2>1. Cnt(Reads(words), p) <= Cnt(Reads(words), x)
    BY <1>3, <1>6, <1>8, CntBetween
  <2> QED
    BY <1>2, <1>5, <1>6, <2>1
<1> HIDE DEF c
<1>9. SetsBefore(words, n, p) = c \div n
  BY DEF SetsBefore, c
<1>10. c \div n \in Nat /\ (c \div n) * n <= c /\ c < ((c \div n) + 1) * n
  BY <1>3, <1>5, Division
<1>11. c \div n <= Sets
  BY <1>3, <1>4, <1>5, DivisionKeepsOrder
<1>12. x < p => m <= c \div n
  <2> DEFINE s == c \div n
  <2>1. s \in Nat /\ s + 1 \in Nat /\ c < (s + 1) * n
    BY <1>10
  <2> HIDE DEF s
  <2>2. s + 1 <= m => (s + 1) * n <= m * n
    BY <1>3, <1>6, <2>1, TimesKeepsOrder
  <2>3. (s + 1) * n \in Nat
    BY <1>3, <2>1
  <2>4. x < p => m <= s
    BY <1>5, <1>6, <1>7, <2>1, <2>2, <2>3
  <2> QED
    BY <2>4 DEF s
<1>13. p <= x => c \div n < m
  <2> DEFINE s == c \div n
  <2>1. s \in Nat /\ s * n <= c
    BY <1>10
  <2> HIDE DEF s
  <2>2. m <= s => m * n <= s * n
    BY <1>3, <1>6, <2>1, TimesKeepsOrder
  <2>3. s * n \in Nat
    BY <1>3, <2>1
  <2>4. p <= x => s < m
    BY <1>5, <1>6, <1>8, <2>1, <2>2, <2>3
  <2> QED
    BY <2>4 DEF s
<1> QED
  BY <1>9, <1>10, <1>11, <1>12, <1>13 DEF n, x

\* So they are of ever later times, and of later clocks too while the clock runs.
LEMMA TimesGoUp ==
    ASSUME RecordShows, NEW f \in 1..Sets, NEW k \in 1..Sets, f < k
    PROVE  /\ At(f) < At(k) /\ RunAt(f) \in Nat \ {0} /\ RunAt(k) \in Nat \ {0} /\ RunAt(f) <= RunAt(k)
           /\ RunAt(f) = RunAt(k) => Rec.time[f] < Rec.time[k]
<1> DEFINE a == FirstOf(f)
           b == FirstOf(k)
<1>1. IInv /\ Layout /\ offloads # <<>> /\ ~ CorruptMatters
  BY DEF RecordShows, Clocks
<1>2. a \in Nat /\ b \in Nat /\ a < b /\ a \in Reads(words)
  BY FirstsInOrder
<1>3. SetsBefore(words, logger.nchan, a) = f - 1 /\ SetsBefore(words, logger.nchan, b) = k - 1
      /\ Sets \in Nat
  BY <1>1, LatestSets
<1>4. f \in Nat /\ k \in Nat /\ f - 1 < k - 1
  BY <1>3
<1>5. /\ Rec.time[f] \in Nat /\ At(f) \in Nat /\ Rec.time[k] \in Nat /\ At(k) \in Nat
      /\ Moment(b, Rec.time[k], At(k)) /\ Moment(a, Rec.time[f], At(f))
  BY StandsAt
<1>6. At(f) = words[a].at /\ Rec.time[f] = words[a].clock
  <2>1. Layout /\ ClockCounts
    BY DEF RecordShows, Clocks
  <2>2. ClockOf(Latest, f) = words[a].clock
    BY <1>1, <1>2, <2>1, DecodedClock
  <2>3. Rec.time[f] = ClockOf(Latest, f)
    BY RecIs
  <2> QED
    BY <1>2, <2>2, <2>3 DEF At
<1>7. /\ SetsBefore(words, logger.nchan, a) < SetsBefore(words, logger.nchan, b) => words[a].at < At(k)
      /\ Runs(words, a) = Runs(words, b) => words[a].clock - words[a].at = Rec.time[k] - At(k)
  BY <1>2, <1>5 DEF Moment
<1>8. At(f) < At(k)
  BY <1>3, <1>4, <1>6, <1>7
<1>9. RunAt(f) \in Nat \ {0} /\ RunAt(k) \in Nat \ {0}
  BY <1>1, <1>2, RunsAre DEF RunAt
<1>10. RunAt(f) <= RunAt(k)
  <2>1. Resets(words) \subseteq Nat /\ a <= b
    BY <1>1, <1>2, StateIs
  <2> HIDE DEF a, b
  <2>2. Cnt(Resets(words), a) <= Cnt(Resets(words), b) /\ Cnt(Resets(words), a) \in Nat /\ Cnt(Resets(words), b) \in Nat
    BY <1>2, <2>1, CntBetween
  <2> QED
    BY <2>2 DEF RunAt, Runs, a, b
<1>11. RunAt(f) = RunAt(k) => Rec.time[f] - At(f) = Rec.time[k] - At(k)
  BY <1>6, <1>7 DEF RunAt
<1> QED
  BY <1>5, <1>8, <1>9, <1>10, <1>11

\* Half an event at the very beginning has no event before it.
LEMMA FirstHasNoAnchor ==
    ASSUME IInv, Layout, ClockCounts, offloads # <<>>, ~ CorruptMatters,
           NEW k \in 1..Sets, FirstOf(k) = 1
    PROVE  AnchorOf(k) = 0
<1> DEFINE E == Events(Latest)
<1>1. Held = 1
  <2>1. FirstOf(k) \notin Reads(words)
    BY DEF ClockCounts, Reads
  <2> QED
    BY <2>1, LatestSets, LatestPlaces
<1>2. /\ DOMAIN E = 1..Len(EventPlaces(Latest)) /\ Len(EventPlaces(Latest)) \in Nat
      /\ \A e \in 1..Len(EventPlaces(Latest)) : PlaceOf(e) \in 1..Held /\ PlaceOf(e) < Held
  BY LatestEvents
<1>3. DOMAIN E = {}
  BY <1>1, <1>2
<1>4. Anchors(E, k) = {}
  BY <1>3 DEF Anchors
<1> QED
  BY <1>4 DEF AnchorOf, SetOrNone

\* The samples the decoders take to be on a reset clock are just those that are.
LEMMA ResetIs ==
    ASSUME RecordShows, NEW k \in 1..Sets
    PROVE  /\ Rec.time[k] \in Nat /\ At(k) \in Nat
           /\ k \in Rec.reset <=> ~ RightRun(RunAt(k))
           /\ k \in Rec.reset => Rec.time[k] < Y2001
           /\ k \notin Rec.reset => Rec.time[k] = At(k) /\ Rec.time[k] >= Y2001
<1>1. IInv /\ Layout /\ ClockCounts /\ ClockRight /\ offloads # <<>> /\ ~ CorruptMatters
      /\ now < StartTime + Y2001
  BY DEF RecordShows, Clocks
<1> DEFINE b == FirstOf(k)
           E == Events(Latest)
           a == AnchorOf(k)
           right == RightRun(RunAt(k))
<1>2. b \in 1..Held /\ b \in Nat /\ Len(words) \in Nat /\ words \in Seq(Word) /\ DOMAIN words = 1..Len(words)
  BY <1>1, LatestSets, LatestIs, StateIs
<1>3. Rec.time[k] \in Nat /\ At(k) \in Nat /\ Moment(b, Rec.time[k], At(k))
  BY StandsAt
<1>5. /\ StartTime <= At(k) /\ At(k) <= now
      /\ right => Rec.time[k] = At(k)
      /\ ~ right => Rec.time[k] <= At(k) - StartTime
  BY <1>3 DEF Moment, RunAt
<1>6. now \in Nat /\ StartTime \in Nat /\ Y2001 \in Nat /\ StartTime >= Y2001 /\ logger.enabled \in {0, StartTime}
  BY <1>1, StateIs, TimesAssumption, HistoryAssumption
<1>7. ~ right => Rec.time[k] < Y2001
  BY <1>1, <1>3, <1>5, <1>6
<1>8. right => Rec.time[k] = At(k) /\ Rec.time[k] >= Y2001 /\ ~ (Rec.time[k] < Y2001)
  BY <1>3, <1>5, <1>6
<1>9. CASE logger.family = "gen3"
  <2>1. k \in Rec.reset <=> Rec.time[k] < Y2001
    BY <1>9, RecIs
  <2> QED
    BY <1>3, <1>7, <1>8, <2>1
<1>10. CASE logger.family # "gen3"
  <2>1. k \in Rec.reset <=> AnchoredTime(Latest, E, k).clock < Y2001 \/ AnchoredTime(Latest, E, k).reset
    BY <1>10, RecIs
  <2>2. AnchoredTime(Latest, E, k).clock = Rec.time[k]
    <3>1. ClockOf(Latest, k) = AnchoredTime(Latest, E, k).clock
      BY <1>1, <1>10, LatestIs DEF ClockOf
    <3> QED
      BY <3>1, RecIs
  <2>3. ASSUME right PROVE ~ AnchoredTime(Latest, E, k).reset
    <3>1. AnchoredTime(Latest, E, k).reset <=> (a # 0 /\ E[a].clock < logger.enabled)
      <4>1. Latest.enabled = logger.enabled
        BY <1>1, LatestIs
      <4>2. a = SetOrNone({e \in DOMAIN E : E[e].type \in ANCHOR_EVENTS /\ E[e].index < k})
        BY DEF AnchorOf, Anchors
      <4> QED
        BY <4>1, <4>2 DEF AnchoredTime
    <3>2. a # 0 => Anchored(k)
      <4>1. b = 1 => a = 0
        BY <1>1, FirstHasNoAnchor
      <4> QED
        BY <1>1, <4>1, AnchorIs
    <3> HIDE DEF a
    <3>3. SUFFICES ASSUME a # 0 PROVE ~ (E[a].clock < logger.enabled)
      BY <3>1
    <3> DEFINE p == PlaceOf(a)
    <3>4. a \in 1..Len(E) /\ Len(E) = Len(EventPlaces(Latest))
      <4>1. a \in 0..Len(EventPlaces(Latest)) /\ Len(EventPlaces(Latest)) \in Nat /\ Len(E) = Len(EventPlaces(Latest))
        BY <1>1, <3>2, <3>3, LatestEvents DEF Anchored, a
      <4> QED
        BY <3>3, <4>1
    <3>5. E[a].clock = words[p].clock /\ LastAnchor(words, p, b)
      <4>1. E[a].clock = words[p].clock
        BY <1>1, <3>4, LatestEvents
      <4> QED
        BY <3>2, <3>3, <4>1 DEF Anchored, a
    <3> HIDE DEF p
    <3>6. p \in 1..Len(words) /\ p < b /\ words[p].kind = "event" /\ words[p].type \in ANCHOR_EVENTS
      BY <1>2, <3>5 DEF LastAnchor, IsAnchor
    <3>7. RightRun(Runs(words, p + 1))
      <4>1. Runs(words, b) = 1 /\ logger.enabled # 0
        BY <2>3 DEF RightRun, RunAt
      <4> DEFINE q == p + 1
      <4>2. q \in Nat /\ b \in Nat /\ q <= b /\ Resets(words) \subseteq Nat
        BY <1>1, <1>2, <3>6, StateIs
      <4> HIDE DEF q, b
      <4>3. Cnt(Resets(words), q) \in Nat /\ Cnt(Resets(words), b) \in Nat /\ Cnt(Resets(words), q) <= Cnt(Resets(words), b)
        BY <4>2, CntBetween
      <4>4. Cnt(Resets(words), q) = 0
        BY <4>1, <4>3 DEF Runs
      <4>5. Runs(words, q) = 1
        BY <4>4 DEF Runs
      <4> QED
        BY <4>1, <4>5 DEF RightRun, q
    <3>8. words[p].clock >= logger.enabled
      BY <1>1, <1>2, <3>6, <3>7 DEF ClockRight
    <3>9. words[p].clock \in Nat /\ logger.enabled \in Nat
      <4>1. words[p] \in Word
        BY <1>2, <3>6
      <4> QED
        BY <1>6, <3>6, <4>1 DEF Word
    <3> QED
      BY <3>5, <3>8, <3>9
  <2> HIDE DEF E, b, right
  <2> QED
    BY <1>3, <1>7, <1>8, <2>1, <2>2, <2>3 DEF right
<1> QED
  BY <1>9, <1>10

\* A skew measured in a run is that of each sample of the run, and no sample that an offload
\* saw is later than the offload.
LEMMA SkewAt ==
    ASSUME RecordShows, NEW k \in 1..Sets, NEW o \in 1..Len(offloads)
    PROVE  /\ offloads[o].by # "none" /\ offloads[o].run = RunAt(k) => offloads[o].skew = Rec.time[k] - At(k)
           /\ k <= Views[o].samples => At(k) <= offloads[o].at
           /\ At(k) >= Y2001 /\ At(k) \in Nat /\ Rec.time[k] \in Nat
           /\ offloads[o].skew \in Int /\ offloads[o].at \in Nat
<1> DEFINE b == FirstOf(k)
<1>1. IInv /\ Layout /\ offloads # <<>> /\ ~ CorruptMatters
  BY DEF RecordShows, Clocks
<1>2. Rec.time[k] \in Nat /\ At(k) \in Nat /\ Moment(b, Rec.time[k], At(k))
  BY StandsAt
<1>3. /\ b \in Nat /\ SetEnds(Latest)[k] \in Nat /\ b <= SetEnds(Latest)[k] /\ offloads[o].bytes \in Nat
      /\ offloads[o].skew \in Int /\ offloads[o].at \in Nat /\ o \in DOMAIN offloads
      /\ StartTime \in Nat /\ Y2001 \in Nat /\ StartTime >= Y2001
  <2>1. b \in 1..Held /\ SetEnds(Latest)[k] \in 1..Held /\ b <= SetEnds(Latest)[k]
    BY <1>1, LatestSets
  <2>2. /\ offloads[o].bytes \in Nat /\ offloads[o].skew \in Int /\ offloads[o].at \in Nat /\ o \in DOMAIN offloads
        /\ StartTime \in Nat
    BY <1>1, StateIs
  <2>3. Y2001 \in Nat /\ StartTime >= Y2001
    BY TimesAssumption, HistoryAssumption
  <2> QED
    BY <2>1, <2>2, <2>3
<1>4. k <= Views[o].samples <=> SetEnds(Latest)[k] <= offloads[o].bytes
  BY ViewsAre
<1> HIDE DEF b
<1>5. /\ offloads[o].by # "none" /\ offloads[o].run = Runs(words, b) => offloads[o].skew = Rec.time[k] - At(k)
      /\ b <= offloads[o].bytes => At(k) <= offloads[o].at
      /\ StartTime <= At(k)
  BY <1>2, <1>3 DEF Moment, b
<1> QED
  BY <1>2, <1>3, <1>4, <1>5 DEF RunAt, b

\* Restarts in the record, where each stands between sample sets of its own.
LEMMA RestartsAre ==
    ASSUME RecordShows
    PROVE  Restarts(Latest) = {p \in Resets(words) : p <= Held}
<1>1. IInv /\ offloads # <<>>
  BY DEF RecordShows
<1>2. /\ Held \in Nat /\ DOMAIN Latest.words = 1..Held
      /\ \A i \in 1..Held : Latest.words[i] = words[i] /\ i \in DOMAIN words
      /\ \A i \in Resets(words) : i \in 1..Len(words)
  BY <1>1, LatestIs, StateIs, PlacesAreNumbers
<1>3. \A i \in Resets(words) : i <= Held => i \in 1..Held
  BY <1>1, <1>2, StateIs
<1> QED
  BY <1>2, <1>3 DEF Restarts, Marked, Resets

\* A Gen3 record that shows every restart has one at most.
LEMMA OneRestartOfGen3 ==
    ASSUME RecordShows, logger.family = "gen3", NEW p \in Restarts(Latest)
    PROVE  /\ \A q \in Restarts(Latest) : q = p
           /\ logger.enabled # 0 /\ words[p].type = "restarted"
<1> DEFINE R == Restarts(Latest)
<1>1. IInv /\ offloads # <<>> /\ RestartsApart
  BY DEF RecordShows
<1>2. R \subseteq 1..Held /\ Held \in Nat
  BY <1>1, LatestIs DEF Restarts, Marked
<1>3. IsFiniteSet(R) /\ Cardinality(R) \in Nat
  <2> HIDE DEF R
  <2> QED
    BY <1>2, NumbersUpTo, FS_Subset, FS_CardinalityType
<1>4. Cardinality(R) + (IF logger.enabled = 0 THEN 1 ELSE 0) <= 1 /\ words[p].type = "restarted"
  BY <1>1 DEF RestartsApart
<1> HIDE DEF R
<1>5. Cardinality({p}) = 1 /\ IsFiniteSet({p}) /\ {p} \subseteq R
  BY FS_Singleton DEF R
<1>6. Cardinality({p}) <= Cardinality(R)
  BY <1>3, <1>5, FS_Subset
<1>7. logger.enabled # 0 /\ Cardinality(R) = 1
  BY <1>3, <1>4, <1>5, <1>6
<1>8. R = {p}
  BY <1>3, <1>5, <1>7, FS_Subset
<1> QED
  BY <1>4, <1>7, <1>8 DEF R

\* Restarts that the record shows have sets between them.
LEMMA RestartsHaveSets ==
    ASSUME RecordShows, NEW p \in Resets(words), p <= Held
    PROVE  /\ \A q \in Resets(words) : q < p =>
                  SetsBefore(words, logger.nchan, q) < SetsBefore(words, logger.nchan, p)
           /\ logger.enabled = 0 => SetsBefore(words, logger.nchan, p) # 0
<1>1. IInv /\ Layout /\ offloads # <<>> /\ ~ CorruptMatters /\ RestartsApart
  BY DEF RecordShows, Clocks
<1>2. /\ Held \in Nat /\ DOMAIN words = 1..Len(words) /\ Resets(words) \subseteq Nat
      /\ \A i \in Resets(words) : i \in 1..Len(words)
      /\ Sets \in Nat /\ DOMAIN SetEnds(Latest) = 1..Sets
      /\ \A k \in 1..Sets : SetEnds(Latest)[k] \in 1..Held
  BY <1>1, LatestIs, LatestSets, StateIs, PlacesAreNumbers
<1>3. logger.family # "gen3" =>
         /\ \A i, j \in Restarts(Latest) : i < j => SetBetween(i, j)
         /\ logger.enabled = 0 => \A i \in Restarts(Latest) : SetBetween(0, i)
  BY <1>1 DEF RestartsApart
<1>4. p \in Restarts(Latest) /\ p \in 1..Held
  BY <1>2, RestartsAre
<1>5. ASSUME logger.family # "gen3", NEW q \in Resets(words), q < p
      PROVE  SetsBefore(words, logger.nchan, q) < SetsBefore(words, logger.nchan, p)
  <2>1. q \in Nat /\ p \in Nat /\ q <= Held /\ q \in 1..Held
    BY <1>2, <1>4, <1>5
  <2>2. q \in Restarts(Latest)
    BY <2>1, RestartsAre
  <2>3. PICK m \in 1..Sets : q < SetEnds(Latest)[m] /\ SetEnds(Latest)[m] < p
    BY <1>2, <1>3, <1>4, <1>5, <2>2 DEF SetBetween
  <2>4. q <= SetEnds(Latest)[m]
    BY <1>2, <2>1, <2>3
  <2>5. SetsBefore(words, logger.nchan, q) \in Nat /\ SetsBefore(words, logger.nchan, q) < m
    BY <2>1, <2>4, SetCounts
  <2>6. SetsBefore(words, logger.nchan, p) \in Nat /\ m <= SetsBefore(words, logger.nchan, p)
    BY <1>4, <2>3, SetCounts
  <2> QED
    BY <2>5, <2>6
<1>6. ASSUME logger.family # "gen3", logger.enabled = 0 PROVE SetsBefore(words, logger.nchan, p) # 0
  <2>1. PICK m \in 1..Sets : SetEnds(Latest)[m] < p
    BY <1>2, <1>3, <1>4, <1>6 DEF SetBetween
  <2>2. SetsBefore(words, logger.nchan, p) \in Nat /\ m <= SetsBefore(words, logger.nchan, p)
    BY <1>4, <2>1, SetCounts
  <2> QED
    BY <2>2
<1>7. CASE logger.family = "gen3"
  <2>1. ASSUME NEW q \in Resets(words), q < p PROVE FALSE
    <3>1. q \in Nat /\ q <= Held /\ p # q
      BY <1>2, <1>4, <2>1
    <3>2. q \in Restarts(Latest)
      BY <2>1, <3>1, RestartsAre
    <3> QED
      BY <1>4, <1>7, <3>1, <3>2, OneRestartOfGen3
  <2> QED
    BY <1>4, <1>7, <2>1, OneRestartOfGen3
<1> QED
  BY <1>5, <1>6, <1>7

-----------------------------------------------------------------------------
(* Where event_indices places the event of a restart.                      *)

\* Where event_indices looks for an event, whose clock says x, from run r of the record on.
RunStarts(t) == <<0>> \o InOrder(Len(t), clock_runs(t))
RunCount(t) == Len(RunStarts(t))
BeginOf(t, r) == t[RunStarts(t)[r] + 1]
Onward(t, r, x) ==
    Min({RunCount(t)} \cup {q \in r..RunCount(t) : ~ (x < Y2001 /\ Y2001 <= BeginOf(t, q))})
PlaceIn(t, r, x) ==
    IF BeginOf(t, r) < Y2001 /\ Y2001 <= x THEN RunStarts(t)[r]
    ELSE IF x < Y2001 /\ Y2001 <= BeginOf(t, r)
         THEN IF r = RunCount(t) THEN Len(t) ELSE RunStarts(t)[r + 1]
    ELSE RunStarts(t)[r]
             + Cardinality({i \in (RunStarts(t)[r] + 1)..(IF r = RunCount(t) THEN Len(t) ELSE RunStarts(t)[r + 1]) :
                               t[i] < x})

LEMMA OnwardIs ==
    ASSUME NEW t \in Seq(Int), NEW r \in 1..RunCount(t), NEW x
    PROVE  /\ RunCount(t) \in Nat \ {0} /\ Onward(t, r, x) \in 1..RunCount(t)
           /\ Onward(t, r, x) = RunCount(t) \/ ~ (x < Y2001 /\ Y2001 <= BeginOf(t, Onward(t, r, x)))
<1> DEFINE last == RunCount(t)
           S == {last} \cup {q \in r..last : ~ (x < Y2001 /\ Y2001 <= BeginOf(t, q))}
<1>1. last \in Nat \ {0}
  <2>1. InOrder(Len(t), clock_runs(t)) \in Seq(Nat)
    BY InOrderStep
  <2> QED
    BY <2>1 DEF RunStarts, RunCount
<1> HIDE DEF last
<1>2. \A q \in S : q \in 1..last /\ (q = last \/ ~ (x < Y2001 /\ Y2001 <= BeginOf(t, q)))
  BY <1>1 DEF last
<1>3. S # {} /\ Onward(t, r, x) = Min(S)
  BY DEF Onward, last
<1> HIDE DEF S
<1>4. S \subseteq Nat
  BY <1>1, <1>2
<1>5. Min(S) \in S
  BY <1>3, <1>4, LeastIs
<1> QED
  BY <1>1, <1>2, <1>3, <1>5 DEF last

\* Each event is placed in the run looked for from some run on.
EventPlaced(t, clocks, e) ==
    \E r \in 1..RunCount(t) : event_indices(t, clocks)[e] = PlaceIn(t, Onward(t, r, clocks[e]), clocks[e])

LEMMA EventIndex ==
    ASSUME NEW t \in Seq(Int), t # <<>>, NEW clocks \in Seq(Int), NEW e \in 1..Len(clocks)
    PROVE  EventPlaced(t, clocks, e)
<1> DEFINE n == Len(clocks)
           last == RunCount(t)
           A == 1..last
           Back(i, r) == /\ i > 1 /\ clocks[i] < Y2001 /\ r < last
                         /\ clocks[i] < clocks[i - 1] - Jitter
           From(i, r) == IF Back(i, r) THEN r + 1 ELSE r
           Def(f) == [i \in 0..n |-> IF i = 0 THEN 1 ELSE Onward(t, From(i, f[i - 1]), clocks[i])]
           u == CHOOSE f : f = Def(f)
           G == [i \in 1..n |-> [r \in A |-> Onward(t, From(i, r), clocks[i])]]
<1>1. n \in Nat /\ DOMAIN clocks = 1..n
  OBVIOUS
<1>2. event_indices(t, clocks) = [i \in DOMAIN clocks |-> IF t = <<>> THEN 0 ELSE PlaceIn(t, u[i], clocks[i])]
  BY DEF event_indices, PlaceIn, Onward, BeginOf, RunStarts, RunCount
<1>3. last \in Nat \ {0}
  <2>1. InOrder(Len(t), clock_runs(t)) \in Seq(Nat)
    BY InOrderStep
  <2> QED
    BY <2>1 DEF RunStarts, RunCount
<1> HIDE DEF n, last
<1>4. ASSUME NEW i \in 1..n, NEW r \in A PROVE From(i, r) \in A /\ Onward(t, From(i, r), clocks[i]) \in A
  <2>1. From(i, r) \in A
    BY <1>3
  <2> HIDE DEF From
  <2> QED
    BY <2>1, OnwardIs DEF last
<1> HIDE DEF From
<1>5. 1 \in A
  BY <1>3
<1> HIDE DEF A
<1>6. /\ G \in [1..n -> [A -> A]]
      /\ \A i \in 1..n, r \in A : G[i][r] = Onward(t, From(i, r), clocks[i])
  BY <1>4
<1> HIDE DEF G
<1>7. PICK f \in [0..n -> A] : f[0] = 1 /\ \A i \in 1..n : f[i] = G[i][f[i - 1]]
  <2>1. Definable(n, A, 1, G)
    BY <1>1, <1>5, <1>6, Recursion
  <2> QED
    BY <2>1 DEF Definable
<1>8. ASSUME NEW i \in 1..n
       PROVE  f[i] = Onward(t, From(i, f[i - 1]), clocks[i]) /\ f[i - 1] \in A
  <2>1. i - 1 \in 0..n
    BY <1>1
  <2> QED
    BY <1>6, <1>7, <2>1
<1>9. f = Def(f)
  <2>1. ASSUME NEW i \in 0..n
        PROVE  f[i] = IF i = 0 THEN 1 ELSE Onward(t, From(i, f[i - 1]), clocks[i])
    <3>1. i = 0 \/ i \in 1..n
      BY <1>1
    <3> QED
      BY <1>7, <1>8, <3>1
  <2> QED
    BY <2>1, Zenon
<1>10. u = Def(u)
  <2> HIDE DEF Def
  <2> QED
    BY <1>9
<1> HIDE DEF u
<1>11. u[0] = 1 /\ \A i \in 1..n : u[i] = Onward(t, From(i, u[i - 1]), clocks[i])
  <2>1. \A i \in 0..n : u[i] = Def(u)[i]
    BY <1>10
  <2>2. 0 \in 0..n /\ \A i \in 1..n : i \in 0..n /\ i # 0
    BY <1>1
  <2> QED
    BY <2>1, <2>2
<1> DEFINE T == {i \in 0..n : u[i] \in A}
<1>12. 0 \in T
  BY <1>1, <1>5, <1>11
<1>13. ASSUME NEW i \in 1..n, i - 1 \in T PROVE i \in T
  <2>1. u[i - 1] \in A /\ i \in 0..n
    BY <1>13
  <2>2. u[i] \in A
    BY <1>4, <1>11, <2>1
  <2> QED
    BY <2>1, <2>2
<1>14. ASSUME NEW i \in 1..n PROVE u[i - 1] \in A
  <2> HIDE DEF T
  <2>1. \A j \in 0..n : j \in T
    BY <1>1, <1>12, <1>13, StepByStep
  <2>2. i - 1 \in T
    BY <1>1, <2>1
  <2> QED
    BY <2>2 DEF T
<1> HIDE DEF T
<1>15. e \in 1..n /\ e \in DOMAIN clocks
  BY DEF n
<1> DEFINE r == From(e, u[e - 1])
<1>16. r \in A
  BY <1>4, <1>14, <1>15
<1>17. event_indices(t, clocks)[e] = PlaceIn(t, Onward(t, r, clocks[e]), clocks[e])
  BY <1>2, <1>11, <1>15
<1> HIDE DEF r
<1> QED
  BY <1>16, <1>17 DEF EventPlaced, A, last

\* Where the clock restarted once, the event of the restart is placed between the samples
\* before and after it.
OneRestart(t, j) ==
    /\ j \in 0..Len(t)
    /\ \A k \in 1..Len(t) : /\ t[k] >= 0 /\ (k <= j => t[k] >= Y2001) /\ (j < k => t[k] < Y2001)
    /\ \A f, k \in 1..Len(t) : f < k /\ (k <= j \/ j < f) => t[f] < t[k]

\* Times that step back once make two runs, and those that do not make one.
LEMMA RunsOfOneRestart ==
    ASSUME NEW t \in Seq(Int), NEW j, OneRestart(t, j)
    PROVE  IF j \in 1..(Len(t) - 1)
           THEN RunCount(t) = 2 /\ RunStarts(t)[1] = 0 /\ RunStarts(t)[2] = j
           ELSE RunCount(t) = 1 /\ RunStarts(t)[1] = 0
<1> DEFINE n == Len(t)
           q == InOrder(n, clock_runs(t))
<1>1. n \in Nat /\ j \in 0..n /\ Y2001 \in Nat /\ \A k \in 1..n : t[k] \in Int
  BY TimesAssumption DEF OneRestart
<1>2. Lists(q, n, clock_runs(t))
  BY <1>1, InOrderLists
<1>3. RunStarts(t) = <<0>> \o q
  BY DEF RunStarts
<1>4. ASSUME NEW i \in 1..(n - 1) PROVE i \in clock_runs(t) <=> i = j
  <2>1. i \in 1..n /\ i + 1 \in 1..n /\ i < i + 1
    BY <1>1
  <2>2. CASE i = j
    <3>1. t[i] >= Y2001 /\ t[i + 1] < Y2001
      BY <1>1, <2>1, <2>2 DEF OneRestart
    <3> QED
      BY <1>1, <2>1, <2>2, <3>1 DEF clock_runs
  <2>3. CASE i # j
    <3>1. i + 1 <= j \/ j < i
      BY <1>1, <2>1, <2>3
    <3>2. t[i] < t[i + 1]
      BY <2>1, <3>1 DEF OneRestart
    <3> QED
      BY <1>1, <2>1, <2>3, <3>2 DEF clock_runs
  <2> QED
    BY <2>2, <2>3
<1>5. clock_runs(t) \subseteq 1..(n - 1)
  BY DEF clock_runs
<1> HIDE DEF n, q
<1>6. /\ q \in Seq(Nat) /\ \A i \in 1..Len(q) : q[i] \in clock_runs(t)
      /\ \A i, k \in 1..Len(q) : i < k => q[i] < q[k]
      /\ \A x \in 1..n : x \in clock_runs(t) => \E i \in 1..Len(q) : q[i] = x
  BY <1>2 DEF Lists
<1>7. \A i \in 1..Len(q) : q[i] = j /\ j \in 1..(n - 1)
  BY <1>4, <1>5, <1>6
<1>8. PICK l \in Nat : l = Len(q)
  BY <1>6
<1>9. ~ (l > 1)
  <2>1. ASSUME l > 1 PROVE FALSE
    <3>1. 1 \in 1..Len(q) /\ 2 \in 1..Len(q) /\ 1 < 2
      BY <1>8, <2>1
    <3>2. q[1] < q[2] /\ q[1] = j /\ q[2] = j
      BY <1>6, <1>7, <3>1
    <3> QED
      BY <1>1, <3>2
  <2> QED
    BY <2>1
<1>10. RunCount(t) = 1 + l /\ RunStarts(t)[1] = 0 /\ (l = 1 => RunStarts(t)[2] = q[1])
  <2>1. RunStarts(t) = <<0>> \o q /\ RunCount(t) = Len(<<0>> \o q)
    BY <1>3 DEF RunCount
  <2>2. Len(<<0>> \o q) = 1 + l /\ (<<0>> \o q)[1] = 0 /\ (l = 1 => (<<0>> \o q)[2] = q[1])
    BY <1>6, <1>8
  <2> QED
    BY <2>1, <2>2
<1>11. CASE j \in 1..(n - 1)
  <2>1. j \in clock_runs(t) /\ j \in 1..n
    BY <1>1, <1>4, <1>11
  <2>2. PICK i \in 1..Len(q) : q[i] = j
    BY <1>6, <2>1
  <2>3. i \in 1..l
    BY <1>8, <2>2
  <2>4. l = 1
    BY <1>9, <2>3
  <2>5. q[1] = j
    BY <1>7, <1>8, <2>3, <2>4
  <2> QED
    BY <1>10, <1>11, <2>4, <2>5 DEF n
<1>12. CASE j \notin 1..(n - 1)
  <2>1. l = 0
    <3>1. l # 0 => 1 \in 1..Len(q)
      BY <1>8
    <3> QED
      BY <1>7, <1>12, <3>1
  <2> QED
    BY <1>10, <1>12, <2>1 DEF n
<1> QED
  BY <1>11, <1>12

\* event_indices places the event of such a restart where the times step back.
LEMMA IndexOfRestart ==
    ASSUME NEW t \in Seq(Int), NEW clocks \in Seq(Int), NEW e \in 1..Len(clocks), clocks[e] = 0,
           NEW j, OneRestart(t, j)
    PROVE  event_indices(t, clocks)[e] = j
<1> DEFINE n == Len(t)
<1>1. /\ n \in Nat /\ j \in 0..n /\ Y2001 \in Nat \ {0} /\ \A k \in 1..n : t[k] \in Int /\ t[k] >= 0
      /\ \A k \in 1..n : (k <= j => t[k] >= Y2001) /\ (j < k => t[k] < Y2001)
  BY TimesAssumption DEF OneRestart
<1>2. CASE t = <<>>
  <2>1. e \in DOMAIN clocks
    OBVIOUS
  <2>2. event_indices(t, clocks)[e] = 0
    BY <1>2, <2>1 DEF event_indices
  <2>3. n = 0
    BY <1>2
  <2> HIDE DEF n
  <2> QED
    BY <1>1, <2>2, <2>3
<1>3. CASE t # <<>>
  <2> DEFINE last == RunCount(t)
             starts == RunStarts(t)
  <2>1. n # 0
    BY <1>3
  <2>2. PICK r \in 1..last : event_indices(t, clocks)[e] = PlaceIn(t, Onward(t, r, 0), 0)
    BY <1>3, EventIndex DEF EventPlaced
  <2> DEFINE q == Onward(t, r, 0)
  <2>3. q \in 1..last /\ (q = last \/ ~ (0 < Y2001 /\ Y2001 <= BeginOf(t, q)))
    BY <2>2, OnwardIs
  <2>4. IF j \in 1..(n - 1) THEN last = 2 /\ starts[1] = 0 /\ starts[2] = j ELSE last = 1 /\ starts[1] = 0
    BY RunsOfOneRestart
  <2> HIDE DEF q, n
  <2>5. PlaceIn(t, q, 0) = IF 0 < Y2001 /\ Y2001 <= BeginOf(t, q)
                           THEN IF q = last THEN n ELSE starts[q + 1]
                           ELSE starts[q] + Cardinality({i \in (starts[q] + 1)..(IF q = last THEN n ELSE starts[q + 1]) : t[i] < 0})
    BY <1>1 DEF PlaceIn, n
  <2>6. BeginOf(t, q) = t[starts[q] + 1]
    BY DEF BeginOf
  <2>7. \A a \in 0..n : Cardinality({i \in (a + 1)..n : t[i] < 0}) = 0
    <3> TAKE a \in 0..n
    <3>1. \A i \in (a + 1)..n : i \in 1..n
      BY <1>1
    <3>2. \A i \in (a + 1)..n : ~ (t[i] < 0)
      BY <1>1, <3>1
    <3>3. {i \in (a + 1)..n : t[i] < 0} = {}
      BY <3>2
    <3> QED
      BY <3>3, FS_EmptySet
  <2> HIDE DEF last, starts
  <2>8. CASE j \in 1..(n - 1)
    <3>1. last = 2 /\ starts[1] = 0 /\ starts[2] = j /\ 1 \in 1..n /\ 1 <= j /\ j + 1 \in 1..n /\ j < j + 1 /\ j \in 0..n
      BY <1>1, <2>1, <2>4, <2>8
    <3>2. q = 2
      <4>1. t[1] >= Y2001 /\ 0 < Y2001
        BY <1>1, <3>1
      <4>2. q = 1 => BeginOf(t, q) = t[1]
        BY <2>6, <3>1
      <4>3. q # 1
        BY <1>1, <2>3, <3>1, <4>1, <4>2
      <4> QED
        BY <2>3, <3>1, <4>3
    <3>3. BeginOf(t, q) = t[j + 1] /\ t[j + 1] < Y2001 /\ t[j + 1] \in Int
      BY <1>1, <2>6, <3>1, <3>2
    <3>4. PlaceIn(t, q, 0) = j + Cardinality({i \in (j + 1)..n : t[i] < 0})
      <4>1. ~ (0 < Y2001 /\ Y2001 <= BeginOf(t, q))
        BY <1>1, <3>3
      <4>2. (IF q = last THEN n ELSE starts[q + 1]) = n /\ starts[q] = j
        BY <3>1, <3>2
      <4> QED
        BY <2>5, <4>1, <4>2
    <3>5. Cardinality({i \in (j + 1)..n : t[i] < 0}) = 0
      BY <2>7, <3>1
    <3>6. PlaceIn(t, q, 0) = j
      BY <1>1, <3>4, <3>5
    <3> QED
      BY <2>2, <3>6 DEF q
  <2>9. CASE j \notin 1..(n - 1)
    <3>1. last = 1 /\ starts[1] = 0 /\ q = 1 /\ 1 \in 1..n /\ 0 \in 0..n
      BY <1>1, <2>1, <2>3, <2>4, <2>9
    <3>2. BeginOf(t, q) = t[1] /\ t[1] \in Int
      BY <1>1, <2>6, <3>1
    <3>3. CASE Y2001 <= t[1]
      <4>1. j = n
        BY <1>1, <2>1, <2>9, <3>1, <3>2, <3>3
      <4>2. PlaceIn(t, q, 0) = n
        BY <1>1, <2>5, <3>1, <3>2, <3>3
      <4> QED
        BY <2>2, <4>1, <4>2 DEF q
    <3>4. CASE ~ (Y2001 <= t[1])
      <4>1. j = 0
        BY <1>1, <2>1, <2>9, <3>1, <3>2, <3>4
      <4>2. PlaceIn(t, q, 0) = 0 + Cardinality({i \in (0 + 1)..n : t[i] < 0})
        BY <1>1, <2>5, <3>1, <3>2, <3>4
      <4> QED
        BY <2>2, <2>7, <3>1, <4>1, <4>2 DEF q
    <3> QED
      BY <3>3, <3>4
  <2> QED
    BY <2>8, <2>9
<1> QED
  BY <1>2, <1>3

-----------------------------------------------------------------------------
(* The runs of the clock, as the record shows them.                        *)

\* Gen3's event_indices finds the place of the one restart there may be.
LEMMA Gen3Events ==
    ASSUME RecordShows, logger.family = "gen3"
    PROVE  LET E == Events(Latest)
           IN  /\ Rec.restarts = RESTART_EVENTS
               /\ \A e \in 1..Len(E) : Rec.events[e].index = event_indices(Rec.time, [i \in 1..Len(E) |-> E[i].clock])[e]
<1>1. IInv /\ Layout /\ offloads # <<>> /\ ~ CorruptMatters
  BY DEF RecordShows, Clocks
<1>2. IsImage(Latest) /\ Latest.family = logger.family
  BY <1>1, LatestIs
<1> DEFINE E == Events(Latest)
           time == [k \in DOMAIN SetStarts(Latest) |-> Latest.words[SetStarts(Latest)[k]].clock]
           index == event_indices(time, [e \in DOMAIN E |-> E[e].clock])
<1>3. Rec = [time |-> time, reset |-> {k \in DOMAIN time : time[k] < Y2001}, ends |-> SetEnds(Latest),
             events |-> [e \in DOMAIN E |-> [E[e] EXCEPT !.index = index[e]]],
             restarts |-> RESTART_EVENTS]
  BY <1>2 DEF Rec, Decoded, decode_easyparse
<1>4. DOMAIN E = 1..Len(E) /\ Len(E) \in Nat
  BY <1>1, LatestEvents
<1>5. E = [e \in 1..Len(EventPlaces(Latest)) |->
               [type |-> Latest.words[EventPlaces(Latest)[e]].type, clock |-> Latest.words[EventPlaces(Latest)[e]].clock,
                end |-> EventPlaces(Latest)[e] + 1,
                index |-> Cardinality(Before(Readings(Latest), EventPlaces(Latest)[e])) \div Latest.nchan]]
  BY <1>2, EventsAre
<1> HIDE DEF time, index
<1>6. Rec.time = time /\ Rec.restarts = RESTART_EVENTS /\ Rec.events = [e \in DOMAIN E |-> [E[e] EXCEPT !.index = index[e]]]
  BY <1>3
<1>7. \A e \in DOMAIN E : [E[e] EXCEPT !.index = index[e]].index = index[e]
  BY <1>5
<1>8. index = event_indices(Rec.time, [e \in 1..Len(E) |-> E[e].clock])
  BY <1>4, <1>6 DEF index
<1> HIDE DEF E
<1>9. \A e \in 1..Len(E) : Rec.events[e].index = index[e]
  BY <1>4, <1>6, <1>7
<1> QED
  BY <1>6, <1>8, <1>9 DEF E

\* So it gives Gen3's restart the number of sets that were stored before it.
LEMMA RestartIndex ==
    ASSUME RecordShows, logger.family = "gen3", NEW e \in 1..Len(Events(Latest)), PlaceOf(e) \in Resets(words)
    PROVE  Rec.events[e].index = SetsBefore(words, logger.nchan, PlaceOf(e))
<1>1. IInv /\ Layout /\ ClockRight /\ offloads # <<>> /\ ~ CorruptMatters
  BY DEF RecordShows, Clocks
<1> DEFINE E == Events(Latest)
           p == PlaceOf(e)
           R == Resets(words)
           j == SetsBefore(words, logger.nchan, p)
           clocks == [i \in 1..Len(E) |-> E[i].clock]
<1>2. /\ p \in 1..Held /\ p < Held /\ words[p].kind = "event" /\ E[e].clock = words[p].clock /\ Len(E) \in Nat
      /\ \A i \in 1..Len(E) : E[i].clock = words[PlaceOf(i)].clock /\ PlaceOf(i) \in 1..Held
      /\ Held \in Nat /\ \A i \in 1..Held : i \in DOMAIN words
  BY <1>1, LatestEvents, LatestIs
<1>3. p \in Restarts(Latest)
  <2>1. p <= Held
    BY <1>2
  <2> QED
    BY <2>1, RestartsAre
<1>4. (\A q \in Restarts(Latest) : q = p) /\ logger.enabled # 0 /\ words[p].type = "restarted"
  BY <1>3, OneRestartOfGen3
<1>5. clocks[e] = 0
  BY <1>1, <1>2, <1>4 DEF ClockRight
<1>6. clocks \in Seq(Int) /\ Len(clocks) = Len(E)
  <2>1. \A i \in 1..Len(E) : E[i].clock \in Int
    <3> TAKE i \in 1..Len(E)
    <3>1. E[i].clock = words[PlaceOf(i)].clock /\ PlaceOf(i) \in DOMAIN words
      BY <1>2
    <3>2. words[PlaceOf(i)] \in Word
      <4>1. \A w \in Seq(Word) : \A x \in DOMAIN w : w[x] \in Word
        OBVIOUS
      <4> QED
        BY <1>1, <3>1, <4>1, StateIs
    <3> QED
      BY <3>1, <3>2 DEF Word
  <2> HIDE DEF E
  <2>2. clocks \in [1..Len(E) -> Int]
    BY <2>1
  <2> QED
    BY <1>2, <2>2
<1>7. /\ Rec.time \in Seq(Int) /\ Len(Rec.time) = Sets /\ Sets \in Nat
      /\ \A k \in 1..Sets : Rec.time[k] \in Nat /\ At(k) \in Nat
  BY RecIs, ResetIs
<1>8. ASSUME NEW k \in 1..Sets
      PROVE  IF k <= j THEN RunAt(k) = 1 ELSE RunAt(k) = 2
  <2> DEFINE b == FirstOf(k)
  <2>1. b \in 1..Held /\ b \in Nat /\ R \subseteq Nat /\ p \in Nat /\ p \in R
    <3>1. b \in 1..Held
      BY <1>1, LatestSets
    <3>2. R \subseteq Nat
      BY <1>1, StateIs
    <3> HIDE DEF b, R
    <3>3. p \in R
      BY DEF R
    <3> HIDE DEF p
    <3> QED
      BY <1>2, <3>1, <3>2, <3>3
  <2>2. j \in Nat /\ (p < b <=> j <= k - 1) /\ p # b /\ k \in Nat
    BY <1>1, <1>2, EventOrSet
  <2>3. \A q \in R : q < b => q = p
    <3> TAKE q \in R
    <3>1. q < b => q <= Held
      BY <1>2, <2>1
    <3>2. q < b => q \in Restarts(Latest)
      BY <3>1, RestartsAre
    <3> QED
      BY <1>4, <3>2
  <2> HIDE DEF b, j, R, p
  <2>4. CASE k <= j
    <3>1. \A q \in R : ~ (q < b)
      BY <2>1, <2>2, <2>3, <2>4
    <3>2. {q \in R : q < b} = {}
      BY <3>1
    <3>3. Cnt(R, b) = 0
      BY <3>2, FS_EmptySet DEF Cnt
    <3>4. Runs(words, b) = 1
      BY <3>3 DEF Runs, R
    <3> QED
      BY <2>4, <3>4 DEF RunAt, b
  <2>5. CASE ~ (k <= j)
    <3>1. p < b
      BY <2>2, <2>5
    <3>2. {q \in R : q < b} = {p}
      BY <2>1, <2>3, <3>1
    <3>3. Cnt(R, b) = 1
      BY <3>2, FS_Singleton DEF Cnt
    <3>4. Runs(words, b) = 2
      BY <3>3 DEF Runs, R
    <3> QED
      BY <2>5, <3>4 DEF RunAt, b
  <2> QED
    BY <2>4, <2>5
<1>9. j \in 0..Sets
  <2>1. Sets # 0 => j \in Nat /\ j <= Sets
    <3>1. Sets # 0 => 1 \in 1..Sets
      BY <1>7
    <3> QED
      BY <1>2, <3>1, SetCounts
  <2>2. Sets = 0 => j = 0
    <3>1. IsImage(Latest) /\ Latest.nchan = logger.nchan /\ logger.nchan \in Nat \ {0} /\ Reads(words) \subseteq Nat
      BY <1>1, LatestIs, StateIs
    <3> DEFINE r == Len(Readings(Latest))
               n == logger.nchan
    <3>2. r \in Nat /\ Sets = r \div n /\ DOMAIN Readings(Latest) = 1..r
      BY <3>1, ReadingsIn DEF Sets, SetsIn
    <3>3. Cnt(Reads(words), p) = Cardinality(Before(Readings(Latest), p)) /\ Cnt(Reads(words), p) \in Nat
      <4>1. p \in 0..Held /\ p \in Nat
        BY <1>2
      <4> QED
        BY <1>1, <3>1, <4>1, LatestSets, CntIs
    <3> HIDE DEF r
    <3>4. Cardinality(Before(Readings(Latest), p)) <= r
      <4>1. Before(Readings(Latest), p) \subseteq 1..r
        BY <3>2 DEF Before
      <4>2. IsFiniteSet(1..r) /\ Cardinality(1..r) = r
        BY <3>2, NumbersUpTo
      <4> QED
        BY <4>1, <4>2, FS_Subset
    <3> DEFINE c == Cnt(Reads(words), p)
    <3>5. c \in Nat /\ c <= r /\ j = c \div n
      BY <3>3, <3>4 DEF SetsBefore
    <3> HIDE DEF c, n, j
    <3>6. c \div n \in Nat /\ c \div n <= r \div n
      BY <3>1, <3>2, <3>5, Division, DivisionKeepsOrder DEF n
    <3> QED
      BY <3>2, <3>5, <3>6
  <2> HIDE DEF j
  <2> QED
    BY <1>7, <2>1, <2>2
<1>10. OneRestart(Rec.time, j)
  <2> HIDE DEF j
  <2>1. RightRun(1) /\ ~ RightRun(2)
    BY <1>4 DEF RightRun
  <2>2. ASSUME NEW k \in 1..Sets
        PROVE  Rec.time[k] >= 0 /\ (k <= j => Rec.time[k] >= Y2001) /\ (j < k => Rec.time[k] < Y2001)
    <3>1. k \in Rec.reset <=> ~ RightRun(RunAt(k))
      BY ResetIs
    <3>2. (k \in Rec.reset => Rec.time[k] < Y2001) /\ (k \notin Rec.reset => Rec.time[k] >= Y2001) /\ Rec.time[k] \in Nat
      BY ResetIs
    <3>3. j < k <=> ~ (k <= j)
      BY <1>7, <1>9
    <3> QED
      BY <1>8, <2>1, <3>1, <3>2, <3>3
  <2>3. ASSUME NEW f \in 1..Sets, NEW k \in 1..Sets, f < k, k <= j \/ j < f PROVE Rec.time[f] < Rec.time[k]
    <3>1. RunAt(f) = RunAt(k)
      <4>1. (k <= j => f <= j) /\ (j < f => ~ (f <= j) /\ ~ (k <= j))
        BY <1>7, <1>9, <2>3
      <4> QED
        BY <1>8, <2>3, <4>1
    <3> QED
      BY <2>3, <3>1, TimesGoUp
  <2> QED
    BY <1>7, <1>9, <2>2, <2>3 DEF OneRestart
<1>11. event_indices(Rec.time, clocks)[e] = j
  <2>1. e \in 1..Len(clocks)
    BY <1>6
  <2> HIDE DEF j, clocks
  <2> QED
    BY <1>5, <1>6, <1>7, <1>10, <2>1, IndexOfRestart
<1>12. Rec.events[e].index = event_indices(Rec.time, clocks)[e]
  BY Gen3Events
<1> QED
  BY <1>11, <1>12

\* The events that the decoders take for restarts are those of restarts, and in their places.
LEMMA RestartEvents ==
    ASSUME RecordShows, NEW e \in 1..Len(Events(Latest))
    PROVE  LET E == Events(Latest)
           IN  /\ Rec.events[e].type \in Rec.restarts <=> words[PlaceOf(e)].type \in RTC_RESET_EVENTS
               /\ words[PlaceOf(e)].type \in RTC_RESET_EVENTS =>
                      /\ Rec.events[e].index = SetsBefore(words, logger.nchan, PlaceOf(e))
                      /\ PlaceOf(e) \in Resets(words)
<1>1. IInv /\ Layout /\ offloads # <<>> /\ ~ CorruptMatters
  BY DEF RecordShows, Clocks
<1> DEFINE E == Events(Latest)
           n == logger.nchan
<1>2. /\ Rec.events[e].type = E[e].type
      /\ logger.family # "gen3" => Rec.events = E /\ Rec.restarts = RTC_RESET_EVENTS
  BY RecIs
<1>3. /\ PlaceOf(e) \in 1..Held /\ words[PlaceOf(e)].kind = "event"
      /\ E[e].type = words[PlaceOf(e)].type
      /\ E[e].index = SetsBefore(words, n, PlaceOf(e))
      /\ Held \in Nat /\ \A i \in 1..Held : i \in DOMAIN words
  BY <1>1, LatestEvents, LatestIs
<1>4. words[PlaceOf(e)].type \in RTC_RESET_EVENTS => PlaceOf(e) \in Resets(words)
  BY <1>3 DEF Resets
<1>5. CASE logger.family # "gen3"
  BY <1>2, <1>3, <1>4, <1>5
<1>6. CASE logger.family = "gen3"
  <2>1. Rec.restarts = RESTART_EVENTS
    BY <1>6, Gen3Events
  <2>2. PlaceOf(e) \in Resets(words) => Rec.events[e].index = SetsBefore(words, n, PlaceOf(e))
    BY <1>6, RestartIndex
  <2>3. PlaceOf(e) \in Resets(words) => words[PlaceOf(e)].type = "restarted"
    <3>1. PlaceOf(e) <= Held
      BY <1>3
    <3>2. PlaceOf(e) \in Resets(words) => PlaceOf(e) \in Restarts(Latest)
      BY <3>1, RestartsAre
    <3> QED
      BY <1>6, <3>2, OneRestartOfGen3
  <2>4. Rec.events[e].type = words[PlaceOf(e)].type
    BY <1>2, <1>3
  <2> QED
    BY <1>4, <2>1, <2>2, <2>3, <2>4 DEF RESTART_EVENTS, RTC_RESET_EVENTS
<1> QED
  BY <1>5, <1>6

\* Between two sets of different runs of the clock lies a restart.
LEMMA RestartBetween ==
    ASSUME RecordShows, NEW f \in 1..Sets, NEW k \in 1..Sets, f < k, RunAt(f) # RunAt(k)
    PROVE  \E p \in Resets(words) : p < Held /\ SetsBefore(words, logger.nchan, p) \in f..(k - 1)
<1> DEFINE a == FirstOf(f)
           b == FirstOf(k)
           R == Resets(words)
<1>1. IInv /\ Layout /\ offloads # <<>> /\ ~ CorruptMatters
  BY DEF RecordShows, Clocks
<1>2. a \in Nat /\ b \in Nat /\ a < b /\ b \in 1..Held /\ Held \in Nat /\ f \in Nat /\ k \in Nat
  <2>1. a \in Nat /\ b \in Nat /\ a < b
    BY FirstsInOrder
  <2>2. b \in 1..Held /\ Held \in Nat
    BY <1>1, LatestSets, LatestIs
  <2>3. Sets \in Nat
    BY RecIs
  <2> QED
    BY <2>1, <2>2, <2>3
<1>3. R \subseteq Nat /\ \A p \in R : p \in 1..Len(words) /\ words[p].kind = "event"
  BY <1>1, StateIs, PlacesAreNumbers DEF Resets
<1> HIDE DEF R, a, b
<1>4. Cnt(R, a) # Cnt(R, b)
  BY DEF RunAt, Runs, R, a, b
<1>5. PICK p \in R : a <= p /\ p < b
  <2>1. (\A i \in Nat : a <= i /\ i < b => i \notin R) => Cnt(R, b) = Cnt(R, a)
    <3>1. a <= b
      BY <1>2
    <3> QED
      BY <1>2, <1>3, <3>1, CntBetween
  <2> QED
    BY <1>4, <2>1
<1>6. p \in Nat /\ p < Held /\ p \in 1..Held /\ words[p].kind = "event" /\ ~ (p < a)
  <2>1. p \in 1..Len(words) /\ Len(words) \in Nat /\ words[p].kind = "event"
    BY <1>1, <1>3, StateIs
  <2> QED
    BY <1>2, <1>5, <2>1
<1> DEFINE j == SetsBefore(words, logger.nchan, p)
<1>7. j \in Nat /\ (p < a <=> j <= f - 1) /\ (p < b <=> j <= k - 1)
  BY <1>1, <1>6, EventOrSet DEF a, b
<1>8. j \in f..(k - 1)
  <2> HIDE DEF j
  <2> QED
    BY <1>2, <1>5, <1>6, <1>7
<1> QED
  BY <1>6, <1>8 DEF R

\* A run begins at each restart after the first set, and an event that a run begins with is
\* a restart; without an event one begins only where the clock was set before the next offload.
SetSeen(j) == j \in 1..(Len(offloads) - 1) /\ Views[j + 1].clock_set_before

LEMMA BeginsAre ==
    ASSUME RecordShows
    PROVE  /\ \A s \in Begins : s.event # 0 =>
                 /\ s.event \in 1..Len(Events(Latest)) /\ PlaceOf(s.event) \in Resets(words)
                 /\ PlaceOf(s.event) \in 1..Held
                 /\ SetsBefore(words, logger.nchan, PlaceOf(s.event)) = s.at
           /\ \A s \in Begins : s.event = 0 => \E j : SetSeen(j) /\ s.at = Views[j].samples
           /\ \A p \in Resets(words) : p < Held /\ SetsBefore(words, logger.nchan, p) \in 1..Sets =>
                 \E s \in Begins : /\ s.at = SetsBefore(words, logger.nchan, p)
                                   /\ s.event \in 1..Len(Events(Latest)) /\ PlaceOf(s.event) <= p
<1>1. IInv /\ Layout /\ offloads # <<>> /\ ~ CorruptMatters
  BY DEF RecordShows, Clocks
<1> DEFINE E == Events(Latest)
           n == logger.nchan
           restarts(i) == {e \in 1..Len(E) : words[PlaceOf(e)].type \in RTC_RESET_EVENTS
                                                /\ SetsBefore(words, n, PlaceOf(e)) = i}
<1>2. /\ Len(Rec.time) = Sets /\ Sets \in Nat
      /\ DOMAIN Rec.events = 1..Len(E) /\ Len(E) \in Nat
      /\ \A e \in 1..Len(E) : Rec.events[e].type = E[e].type
      /\ logger.family # "gen3" => Rec.events = E /\ Rec.restarts = RTC_RESET_EVENTS
  BY RecIs
<1>3. /\ \A e \in 1..Len(E) : /\ PlaceOf(e) \in 1..Held /\ words[PlaceOf(e)].kind = "event"
                              /\ E[e].type = words[PlaceOf(e)].type
                              /\ E[e].index = SetsBefore(words, n, PlaceOf(e))
      /\ \A e, f \in 1..Len(E) : e < f => PlaceOf(e) < PlaceOf(f)
      /\ \A p \in L2Records(Latest) : \E e \in 1..Len(E) : PlaceOf(e) = p
      /\ Held \in Nat /\ \A i \in 1..Held : i \in DOMAIN words
  BY <1>1, LatestEvents, LatestIs
<1>a. ASSUME NEW e \in 1..Len(E)
      PROVE  /\ Rec.events[e].type \in Rec.restarts <=> words[PlaceOf(e)].type \in RTC_RESET_EVENTS
             /\ words[PlaceOf(e)].type \in RTC_RESET_EVENTS => Rec.events[e].index = SetsBefore(words, n, PlaceOf(e))
  BY <1>a, RestartEvents
<1> HIDE DEF E, n
<1>4. \A i : {e \in DOMAIN Rec.events : Rec.events[e].type \in Rec.restarts /\ Rec.events[e].index = i} = restarts(i)
  <2> TAKE i
  <2>1. \A e \in 1..Len(E) : /\ Rec.events[e].type \in Rec.restarts <=> words[PlaceOf(e)].type \in RTC_RESET_EVENTS
                             /\ words[PlaceOf(e)].type \in RTC_RESET_EVENTS => Rec.events[e].index = SetsBefore(words, n, PlaceOf(e))
    BY <1>a
  <2> QED
    BY <1>2, <2>1
<1>5. Starts(Rec) = {[at |-> i, event |-> IF restarts(i) = {} THEN 0 ELSE Min(restarts(i))] :
                       i \in clock_runs(Rec.time) \cup {j \in 1..Sets : restarts(j) # {}}}
  <2> HIDE DEF restarts
  <2> QED
    BY <1>2, <1>4 DEF Starts
<1>6. Begins = Bounds(Starts(Rec), Views, Sets)
  BY <1>2 DEF Begins, StartsOf, Views
<1>7. \A i : restarts(i) \subseteq Nat /\ (restarts(i) # {} => Min(restarts(i)) \in restarts(i) /\ \A e \in restarts(i) : Min(restarts(i)) <= e)
  <2> TAKE i
  <2>1. restarts(i) \subseteq Nat
    BY <1>2
  <2> HIDE DEF restarts
  <2> QED
    BY <2>1, LeastIs
<1>b. ASSUME NEW s \in Starts(Rec)
      PROVE  /\ restarts(s.at) # {} => s.event = Min(restarts(s.at)) /\ s.event \in restarts(s.at)
             /\ restarts(s.at) = {} => s.event = 0 /\ s.at \in clock_runs(Rec.time)
  <2> HIDE DEF restarts
  <2>1. PICK i \in clock_runs(Rec.time) \cup {j \in 1..Sets : restarts(j) # {}} :
              s = [at |-> i, event |-> IF restarts(i) = {} THEN 0 ELSE Min(restarts(i))]
    BY <1>5
  <2>2. s.at = i /\ s.event = IF restarts(i) = {} THEN 0 ELSE Min(restarts(i))
    BY <2>1
  <2> QED
    BY <1>7, <2>1, <2>2
<1>8. ASSUME NEW s \in Begins, s.event # 0
      PROVE  /\ s.event \in 1..Len(E) /\ PlaceOf(s.event) \in Resets(words) /\ PlaceOf(s.event) \in 1..Held
             /\ SetsBefore(words, n, PlaceOf(s.event)) = s.at
  <2>1. s \in Starts(Rec)
    BY <1>6, <1>8 DEF Bounds
  <2>2. s.event \in restarts(s.at)
    BY <1>8, <1>b, <2>1
  <2>3. s.event \in 1..Len(E) /\ words[PlaceOf(s.event)].type \in RTC_RESET_EVENTS
        /\ SetsBefore(words, n, PlaceOf(s.event)) = s.at
    BY <2>2
  <2> QED
    BY <1>3, <2>3 DEF Resets
<1>c. ASSUME NEW p \in Resets(words), p < Held
      PROVE  \E e \in restarts(SetsBefore(words, n, p)) : PlaceOf(e) = p
  <2>1. p \in 1..Len(words) /\ p \in 1..Held /\ words[p].kind = "event" /\ words[p].type \in RTC_RESET_EVENTS
    <3>1. p \in 1..Len(words)
      BY <1>1, StateIs, PlacesAreNumbers
    <3> QED
      BY <1>3, <1>c, <3>1 DEF Resets
  <2>2. p \in L2Records(Latest)
    BY <1>1, <1>c, <2>1, LatestPlaces
  <2>3. PICK e \in 1..Len(E) : PlaceOf(e) = p
    BY <1>3, <2>2
  <2> QED
    BY <2>1, <2>3
<1>9. ASSUME NEW p \in Resets(words), p < Held, SetsBefore(words, n, p) \in 1..Sets
      PROVE  \E s \in Begins : s.at = SetsBefore(words, n, p) /\ s.event \in 1..Len(E) /\ PlaceOf(s.event) <= p
  <2> DEFINE j == SetsBefore(words, n, p)
  <2>3. PICK e \in restarts(j) : PlaceOf(e) = p
    BY <1>9, <1>c
  <2>4. e \in 1..Len(E) /\ p \in Nat
    BY <1>3, <2>3
  <2> HIDE DEF j, restarts
  <2> DEFINE f == Min(restarts(j))
  <2>5. restarts(j) # {} /\ f \in restarts(j) /\ f <= e
    BY <1>7, <2>3
  <2> DEFINE s == [at |-> j, event |-> IF restarts(j) = {} THEN 0 ELSE Min(restarts(j))]
  <2>6. s \in Starts(Rec)
    <3>1. j \in {i \in 1..Sets : restarts(i) # {}}
      BY <1>9, <2>5 DEF j
    <3> QED
      BY <1>5, <3>1
  <2>7. s.at = j /\ s.event = f
    BY <2>5
  <2> HIDE DEF s, f
  <2>8. s \in Begins
    BY <1>6, <2>6 DEF Bounds
  <2>9. f \in 1..Len(E)
    BY <2>5 DEF restarts
  <2>10. PlaceOf(f) <= p
    <3>1. f = e \/ f < e
      BY <1>2, <2>4, <2>5, <2>9
    <3>2. PlaceOf(f) \in Nat
      BY <1>3, <2>9
    <3> QED
      BY <1>3, <2>3, <2>4, <2>9, <3>1, <3>2
  <2> QED
    BY <2>7, <2>8, <2>9, <2>10 DEF j
<1>10. ASSUME NEW s \in Begins, s.event = 0
       PROVE  \E j : SetSeen(j) /\ s.at = Views[j].samples
  <2>1. CASE s \in Starts(Rec)
    <3> DEFINE i == s.at
    <3>1. restarts(i) = {} /\ i \in clock_runs(Rec.time)
      <4>1. restarts(i) # {} => s.event \in 1..Len(E)
        BY <1>b, <2>1
      <4> HIDE DEF restarts
      <4> QED
        BY <1>2, <1>10, <1>b, <2>1, <4>1
    <3>2. i \in 1..Sets /\ i + 1 \in 1..Sets /\ i < i + 1 /\ Rec.time[i + 1] < Rec.time[i]
      BY <1>2, <3>1 DEF clock_runs
    <3> HIDE DEF i, restarts
    <3> DEFINE i1 == i + 1
    <3>3. RunAt(i) # RunAt(i1)
      <4>1. Rec.time[i] \in Nat /\ Rec.time[i1] \in Nat
        BY <3>2, ResetIs
      <4>2. RunAt(i) = RunAt(i1) => Rec.time[i] < Rec.time[i1]
        BY <3>2, TimesGoUp
      <4> QED
        BY <3>2, <4>1, <4>2
    <3>4. i1 \in 1..Sets /\ i < i1 /\ i..(i1 - 1) = {i}
      BY <1>2, <3>2
    <3> HIDE DEF i1
    <3>5. PICK p \in Resets(words) : p < Held /\ SetsBefore(words, n, p) \in i..(i1 - 1)
      BY <3>2, <3>3, <3>4, RestartBetween DEF n
    <3>6. SetsBefore(words, n, p) = i
      BY <3>4, <3>5
    <3>7. \E e \in restarts(SetsBefore(words, n, p)) : PlaceOf(e) = p
      BY <1>c, <3>5
    <3> QED
      BY <3>1, <3>6, <3>7
  <2>2. CASE s \notin Starts(Rec)
    <3>1. PICK j \in DOMAIN Views : j < Len(Views) /\ Views[j + 1].clock_set_before /\ s.at = Views[j].samples
      BY <1>6, <2>2 DEF Bounds
    <3>2. DOMAIN Views = 1..Len(offloads) /\ Len(offloads) \in Nat
      BY <1>1, ViewsAre, StateIs
    <3>3. Len(Views) = Len(offloads)
      BY <3>2
    <3>4. j \in 1..(Len(offloads) - 1)
      BY <3>1, <3>2, <3>3
    <3> QED
      BY <3>1, <3>4 DEF SetSeen
  <2> QED
    BY <2>1, <2>2
<1> HIDE DEF restarts
<1> QED
  BY <1>8, <1>9, <1>10 DEF E, n

\* The clock was set by hand where a view says so: no restart has gone unseen.
LEMMA SetByHand ==
    ASSUME RecordShows, NEW j, SetSeen(j)
    PROVE  /\ setByHand /\ offloads[j + 1].run = run /\ offloads[j].run < run
           /\ j \in 1..Len(offloads) /\ j + 1 \in 1..Len(offloads)
<1>1. IInv /\ Layout /\ RunsCounted /\ SkewsMeasured /\ OffloadsInOrder /\ offloads # <<>> /\ ~ CorruptMatters
  BY DEF RecordShows, Clocks
<1> DEFINE l == Len(offloads)
           k == j + 1
           R == Resets(words)
<1>2. l \in Nat /\ DOMAIN offloads = 1..l /\ DOMAIN Views = 1..l
  BY <1>1, StateIs, ViewsAre
<1>3. j \in 1..l /\ k \in 1..l /\ j < k /\ k > 1 /\ k - 1 = j /\ Views[k].clock_set_before
  BY <1>2 DEF SetSeen
<1> HIDE DEF l, k
<1>4. /\ skew_jump(offloads[j], offloads[k])
      /\ ~ \E e \in (Views[j].events + 1)..Views[k].events : Rec.events[e].type \in Rec.restarts
  <2> DEFINE seen == [i \in DOMAIN offloads |-> Seen(Rec, offloads, i)]
             resetBetween(a, b) == \E e \in (a + 1)..b : Rec.events[e].type \in Rec.restarts
  <2>1. Views = [i \in DOMAIN offloads |->
            [samples |-> seen[i].samples, events |-> seen[i].events, at |-> offloads[i].at,
             measured |-> offloads[i].by # "none", skew |-> offloads[i].skew,
             clock_set_before |->
                /\ i > 1 /\ skew_jump(offloads[i - 1], offloads[i])
                /\ ~ resetBetween(seen[i - 1].events, seen[i].events)]]
    BY DEF Views, offload_views
  <2> HIDE DEF seen, resetBetween
  <2>2. Views[k].clock_set_before = (/\ k > 1 /\ skew_jump(offloads[k - 1], offloads[k])
                                     /\ ~ resetBetween(seen[k - 1].events, seen[k].events))
    BY <1>2, <1>3, <2>1
  <2>3. Views[j].events = seen[j].events /\ Views[k].events = seen[k].events
    BY <1>2, <1>3, <2>1
  <2>4. skew_jump(offloads[j], offloads[k]) /\ ~ resetBetween(seen[j].events, seen[k].events)
    BY <1>3, <2>2
  <2> QED
    BY <2>3, <2>4 DEF resetBetween
<1>5. /\ offloads[j].run \in Nat /\ offloads[k].run \in Nat /\ run \in Nat
      /\ offloads[j].bytes \in Nat /\ offloads[k].bytes \in Nat /\ R \subseteq Nat
  BY <1>1, <1>2, <1>3, StateIs
<1>6. offloads[j].run < offloads[k].run
  <2>1. offloads[j].by # "none" /\ offloads[k].by # "none" /\ offloads[j].skew # offloads[k].skew
    BY <1>4 DEF skew_jump
  <2> QED
    BY <1>1, <1>2, <1>3, <1>5, <2>1 DEF OffloadsInOrder
<1>7. offloads[j].run <= run /\ offloads[k].run <= run
  BY <1>1, <1>2, <1>3, NoRunAhead
<1>8. SUFFICES ASSUME ~ (setByHand /\ offloads[k].run = run) PROVE FALSE
  BY <1>3, <1>5, <1>6, <1>7 DEF k, l
<1> DEFINE m == offloads[j].bytes
           q == offloads[k].bytes
           m1 == m + 1
           q1 == q + 1
<1>9. offloads[j].run = Runs(words, m1) /\ offloads[k].run = Runs(words, q1) /\ q \notin R /\ m \in 0..Held /\ q \in 0..Held
  <2>1. /\ offloads[j].run = Runs(words, m1) \/ (setByHand /\ offloads[j].run = run)
        /\ offloads[k].run = Runs(words, q1) \/ (setByHand /\ offloads[k].run = run)
        /\ q \notin R
    BY <1>1, <1>2, <1>3 DEF SkewsMeasured
  <2>2. m \in 0..Held /\ q \in 0..Held
    BY <1>1, <1>2, <1>3, HeldIsMost
  <2> QED
    BY <1>5, <1>6, <1>7, <1>8, <2>1, <2>2
<1>10. m \in Nat /\ q \in Nat /\ m1 \in Nat /\ q1 \in Nat /\ m <= q /\ m1 <= q1 /\ m1 = m + 1 /\ q1 = q + 1 /\ q <= Held /\ Held \in Nat
  <2>1. m <= q
    BY <1>1, <1>2, <1>3 DEF OffloadsInOrder
  <2>2. Held \in Nat
    BY <1>1, LatestIs
  <2> QED
    BY <1>5, <1>9, <2>1, <2>2
<1> HIDE DEF m, q, m1, q1, R
<1>11. Cnt(R, m1) # Cnt(R, q1)
  BY <1>5, <1>6, <1>9 DEF Runs, R
<1>12. PICK p \in R : m1 <= p /\ p < q1
  <2>1. (\A i \in Nat : m1 <= i /\ i < q1 => i \notin R) => Cnt(R, q1) = Cnt(R, m1)
    BY <1>5, <1>10, CntBetween
  <2> QED
    BY <1>11, <2>1
<1>13. p \in Nat /\ m < p /\ p < q /\ p < Held
  BY <1>5, <1>9, <1>10, <1>12
<1>14. p \in 1..Held /\ words[p].kind = "event" /\ words[p].type \in RTC_RESET_EVENTS
  BY <1>10, <1>13 DEF R, Resets
<1>15. p \in L2Records(Latest)
  BY <1>1, <1>13, <1>14, LatestPlaces
<1>16. PICK e \in 1..Len(Events(Latest)) : PlaceOf(e) = p
  BY <1>1, <1>15, LatestEvents
<1>17. Rec.events[e].type \in Rec.restarts
  BY <1>14, <1>16, RestartEvents
<1>18. /\ Views[j].events \in Nat /\ Views[k].events \in Nat
       /\ e <= Views[j].events <=> p < m
       /\ e <= Views[k].events <=> p < q
  <2>1. /\ Views[j].events \in 0..Len(Events(Latest)) /\ Views[k].events \in 0..Len(Events(Latest))
        /\ e <= Views[j].events <=> PlaceOf(e) < offloads[j].bytes
        /\ e <= Views[k].events <=> PlaceOf(e) < offloads[k].bytes
    BY <1>3, ViewsAre DEF l
  <2>2. Len(Events(Latest)) \in Nat
    BY RecIs
  <2> QED
    BY <1>16, <2>1, <2>2 DEF m, q
<1>19. e \in Nat
  BY <1>16
<1>20. e \in (Views[j].events + 1)..Views[k].events
  BY <1>10, <1>13, <1>18, <1>19
<1> QED
  BY <1>4, <1>17, <1>20

\* Where no run begins between two sets they are of the same run of the clock.
LEMMA OneRun ==
    ASSUME RecordShows, NEW i \in 1..Sets, NEW k \in 1..Sets, i <= k,
           \A t \in Begins : ~ (i <= t.at /\ t.at < k)
    PROVE  RunAt(i) = RunAt(k)
<1>1. Sets \in Nat /\ i \in Nat /\ k \in Nat
  BY RecIs
<1>2. SUFFICES ASSUME RunAt(i) # RunAt(k) PROVE FALSE
  OBVIOUS
<1>3. i < k
  <2>1. i # k
    BY <1>2
  <2> QED
    BY <1>1, <2>1
<1>4. PICK p \in Resets(words) : p < Held /\ SetsBefore(words, logger.nchan, p) \in i..(k - 1)
  BY <1>2, <1>3, RestartBetween
<1>5. SetsBefore(words, logger.nchan, p) \in 1..Sets
  BY <1>1, <1>4
<1>6. PICK s \in Begins : s.at = SetsBefore(words, logger.nchan, p)
  BY <1>4, <1>5, BeginsAre
<1>7. i <= s.at /\ s.at < k
  BY <1>1, <1>4, <1>6
<1> QED
  BY <1>7

\* An offload measured the run of the clock that sample k is of: its current run begins
\* before k, no other one begins between, and its skew takes a sample up to k past 2000.
Gives(i0, o, k) ==
    /\ i0 \in 0..(k - 1) /\ o \in Candidates(Views, Begins, i0) /\ Views[o].measured
    /\ \A t \in Begins : ~ (i0 < t.at /\ t.at < k)
    /\ \E f \in Rec.reset : f \in 1..k /\ Rec.time[f] - Views[o].skew >= Y2001

\* That skew is not that of a clock that is right, or was set.
RestartMeasured(o) ==
    /\ o \in 1..Len(offloads) /\ offloads[o].bytes \in 0..Held /\ offloads[o].by # "none"
    /\ ~ RightRun(offloads[o].run)
    /\ offloads[o].run = Runs(words, offloads[o].bytes + 1) /\ offloads[o].bytes \notin Resets(words)

LEMMA SkewOfARestart ==
    ASSUME RecordShows, NEW k \in 1..Sets, NEW i0, NEW o, Gives(i0, o, k)
    PROVE  RestartMeasured(o)
<1>1. IInv /\ RunsCounted /\ SkewsMeasured /\ OffloadsInOrder /\ offloads # <<>>
  BY DEF RecordShows, Clocks
<1>2. DOMAIN Views = 1..Len(offloads)
  BY ViewsAre
<1>3. o \in 1..Len(offloads)
  BY <1>2 DEF Gives, Candidates
<1>4. Views[o].skew = offloads[o].skew /\ offloads[o].by # "none"
  BY <1>3, ViewsAre DEF Gives
<1>5. /\ offloads[o].bytes \in Nat /\ offloads[o].skew \in Int /\ DOMAIN offloads = 1..Len(offloads)
      /\ now \in Nat /\ clock \in Nat
  BY <1>1, <1>3, StateIs
<1>6. offloads[o].bytes \in 0..Held
  BY <1>1, <1>3, <1>5, HeldIsMost
<1>7. offloads[o].skew # 0
  <2>1. PICK f \in Rec.reset : f \in 1..k /\ Rec.time[f] - offloads[o].skew >= Y2001
    BY <1>4 DEF Gives
  <2>2. f \in 1..Sets
    BY <2>1, RecIs
  <2>3. Rec.time[f] < Y2001 /\ Rec.time[f] \in Nat
    BY <2>1, <2>2, ResetIs
  <2> QED
    BY <1>5, <2>1, <2>3, TimesAssumption
<1>8. /\ offloads[o].bytes \notin Resets(words)
      /\ offloads[o].run = Runs(words, offloads[o].bytes + 1) \/ (setByHand /\ offloads[o].run = run)
      /\ offloads[o].run = run => offloads[o].skew = clock - now
      /\ RightRun(offloads[o].run) => offloads[o].skew = 0
  BY <1>1, <1>3, <1>4, <1>5 DEF SkewsMeasured
<1>9. ~ (setByHand /\ offloads[o].run = run)
  <2>1. setByHand => clock = now
    BY <1>1 DEF RunsCounted
  <2> QED
    BY <1>5, <1>7, <1>8, <2>1
<1> QED
  BY <1>3, <1>4, <1>6, <1>7, <1>8, <1>9 DEF RestartMeasured

\* The segments of the record do not mislead: the skew is of the run that the sample is of.
LEMMA SkewIsOwn ==
    ASSUME RecordShows, NEW k \in 1..Sets, k \in Rec.reset, NEW i0, NEW o, Gives(i0, o, k)
    PROVE  offloads[o].run = RunAt(k)
<1>1. IInv /\ Layout /\ RunsCounted /\ SkewsMeasured /\ offloads # <<>> /\ ~ CorruptMatters
  BY DEF RecordShows, Clocks
<1> DEFINE b == FirstOf(k)
           n == logger.nchan
           m == offloads[o].bytes
           R == Resets(words)
<1>2. /\ o \in 1..Len(offloads) /\ m \in 0..Held /\ ~ RightRun(offloads[o].run)
      /\ offloads[o].run = Runs(words, m + 1) /\ m \notin R
  BY SkewOfARestart DEF RestartMeasured
<1>3. b \in 1..Held /\ SetsBefore(words, n, b) = k - 1 /\ ~ RightRun(Runs(words, b))
  <2>1. b \in 1..Held /\ SetsBefore(words, n, b) = k - 1
    BY <1>1, LatestSets
  <2> QED
    BY <2>1, ResetIs DEF RunAt
<1>4. Held \in Nat /\ R \subseteq Nat /\ Sets \in Nat /\ k \in Nat /\ k # 0 /\ k <= Sets
  BY <1>1, LatestIs, StateIs, RecIs
<1> HIDE DEF b
<1>6. Runs(words, m + 1) = Runs(words, b)
  <2> DEFINE p0 == m + 1
             seen == {s \in Begins : Saw(Views[o], s)}
  <2>1. p0 \in Nat /\ b \in Nat /\ m \in Nat /\ p0 = m + 1
    BY <1>2, <1>3, <1>4
  <2>2. i0 \in 0..(k - 1) /\ SetOrNone({s.at : s \in seen}) = i0 /\ \A t \in Begins : ~ (i0 < t.at /\ t.at < k)
    BY DEF Gives, Candidates
  <2>3. \A s \in Begins : s.at \in 1..Sets
    BY RecIs, StartsFit DEF Begins
  <2>4. /\ DOMAIN Views = 1..Len(offloads) /\ Views[o].samples \in 0..Sets
        /\ \A j \in 1..Sets : j <= Views[o].samples <=> SetEnds(Latest)[j] <= m
        /\ \A e \in 1..Len(Events(Latest)) : e <= Views[o].events <=> PlaceOf(e) < m
    BY <1>2, ViewsAre
  <2>5. Cnt(R, p0) \in Nat /\ Cnt(R, b) \in Nat
    <3> HIDE DEF p0, R
    <3> QED
      BY <1>4, <2>1, CntIs
  <2>6. ASSUME NEW p \in R, p < Held
        PROVE  /\ p \in 1..Held /\ p \in Nat /\ SetsBefore(words, n, p) \in 0..Sets
               /\ (p < b <=> SetsBefore(words, n, p) <= k - 1) /\ p # b
    <3>1. p \in 1..Len(words) /\ words[p].kind = "event" /\ DOMAIN words = 1..Len(words)
      BY <1>1, StateIs, PlacesAreNumbers DEF Resets
    <3>2. p \in 1..Held
      BY <1>1, <1>4, <2>6, <3>1, StateIs
    <3>3. SetsBefore(words, n, p) \in Nat /\ SetsBefore(words, n, p) <= Sets
      BY <3>2, SetCounts
    <3>4. p # b /\ (p < b <=> SetsBefore(words, n, p) <= k - 1)
      BY <1>1, <2>6, <3>1, <3>2, EventOrSet DEF b
    <3> QED
      BY <1>3, <1>4, <3>2, <3>3, <3>4
  <2> HIDE DEF p0, n, R, m
  <2>7. ASSUME Cnt(R, b) < Cnt(R, p0) PROVE FALSE
    <3>1. b <= p0
      <4>1. p0 <= b => Cnt(R, p0) <= Cnt(R, b)
        BY <1>4, <2>1, CntBetween
      <4> QED
        BY <2>1, <2>5, <2>7, <4>1
    <3>2. PICK p \in R : b <= p /\ p < p0
      <4>1. (\A i \in Nat : b <= i /\ i < p0 => i \notin R) => Cnt(R, p0) = Cnt(R, b)
        BY <1>4, <2>1, <3>1, CntBetween
      <4> QED
        BY <2>5, <2>7, <4>1
    <3>3. p \in Nat /\ p < m /\ p < Held
      BY <1>2, <1>4, <2>1, <3>2
    <3> DEFINE j == SetsBefore(words, n, p)
    <3>4. j \in 0..Sets
      BY <2>6, <3>3
    <3>6. ~ (p < b)
      BY <2>1, <3>2, <3>3
    <3>7. j \in 1..Sets /\ j >= k
      <4>1. ~ (j <= k - 1)
        BY <2>6, <3>3, <3>6
      <4> HIDE DEF j
      <4> QED
        BY <1>4, <3>4, <4>1
    <3>8. PICK s \in Begins : s.at = j /\ s.event \in 1..Len(Events(Latest)) /\ PlaceOf(s.event) <= p
      BY <3>3, <3>7, BeginsAre DEF n, R
    <3>9. PlaceOf(s.event) < m
      <4>1. PlaceOf(s.event) \in 1..Held
        <5>1. s.event # 0
          BY <3>8
        <5> QED
          BY <3>8, <5>1, BeginsAre
      <4> QED
        BY <2>1, <3>3, <3>8, <4>1
    <3>10. Saw(Views[o], s)
      BY <2>4, <3>8, <3>9 DEF Saw
    <3> DEFINE T == {t.at : t \in seen}
    <3>11. j \in T /\ T \subseteq 1..Sets
      BY <2>3, <3>8, <3>10
    <3> HIDE DEF T, seen
    <3>12. Max(T) >= j /\ Max(T) = i0
      BY <1>4, <2>2, <3>11, MaxOf DEF SetOrNone, T
    <3> HIDE DEF j
    <3> QED
      BY <1>4, <2>2, <3>7, <3>12
  <2>8. ASSUME Cnt(R, p0) < Cnt(R, b) PROVE FALSE
    <3>1. p0 <= b
      <4>1. b <= p0 => Cnt(R, b) <= Cnt(R, p0)
        BY <1>4, <2>1, CntBetween
      <4> QED
        BY <2>1, <2>5, <2>8, <4>1
    <3>2. PICK p \in R : p0 <= p /\ p < b
      <4>1. (\A i \in Nat : p0 <= i /\ i < b => i \notin R) => Cnt(R, b) = Cnt(R, p0)
        BY <1>4, <2>1, <3>1, CntBetween
      <4> QED
        BY <2>5, <2>8, <4>1
    <3>3. p \in Nat /\ m < p /\ p < Held
      BY <1>3, <1>4, <2>1, <3>2
    <3> DEFINE j == SetsBefore(words, n, p)
    <3>4. j \in 0..Sets /\ p \in 1..Held /\ (p < b <=> j <= k - 1)
      BY <2>6, <3>3
    <3>5. j <= i0
      <4>1. SUFFICES ASSUME i0 < j PROVE FALSE
        BY <2>2, <3>4
      <4>2. j \in 1..Sets /\ j < k
        <5> HIDE DEF j
        <5> QED
          BY <1>4, <2>2, <3>2, <3>4, <4>1
      <4>3. PICK s \in Begins : s.at = j
        BY <3>3, <4>2, BeginsAre DEF n, R
      <4> QED
        BY <2>2, <4>1, <4>2, <4>3
    <3>6. /\ \A q \in R : q < p => SetsBefore(words, n, q) < j
          /\ logger.enabled = 0 => j # 0
      <4>1. p \in Resets(words) /\ p <= Held
        BY <1>4, <3>3 DEF R
      <4> QED
        BY <4>1, RestartsHaveSets DEF n, R
    <3> HIDE DEF j
    <3>7. CASE i0 = 0
      <4>1. j = 0 /\ logger.enabled # 0
        BY <3>4, <3>5, <3>6, <3>7
      <4>2. ASSUME NEW q \in R, q < p0 PROVE FALSE
        <5>1. q < p /\ q < Held
          BY <1>4, <2>1, <3>2, <3>3, <4>2
        <5>2. SetsBefore(words, n, q) < j /\ SetsBefore(words, n, q) \in 0..Sets
          BY <2>6, <3>6, <5>1
        <5> QED
          BY <4>1, <5>2
      <4>3. {q \in R : q < p0} = {}
        BY <4>2
      <4>4. Cnt(R, p0) = 0
        BY <4>3, FS_EmptySet DEF Cnt
      <4>5. Runs(words, m + 1) = 1
        BY <4>4 DEF Runs, p0, R
      <4> QED
        BY <1>2, <4>1, <4>5 DEF RightRun
    <3>8. CASE i0 # 0
      <4> DEFINE T == {t.at : t \in seen}
      <4>1. T \subseteq 1..Sets
        BY <2>3
      <4> HIDE DEF T
      <4>2. T # {} /\ Max(T) = i0
        BY <2>2, <3>8 DEF SetOrNone, T
      <4>3. i0 \in T
        BY <1>4, <4>1, <4>2, MaxOf
      <4>4. PICK s \in Begins : s.at = i0 /\ Saw(Views[o], s)
        BY <4>3 DEF T
      <4>5. CASE s.event # 0
        <5> DEFINE q == PlaceOf(s.event)
        <5>1. /\ s.event \in 1..Len(Events(Latest)) /\ q \in R /\ q \in 1..Held
              /\ SetsBefore(words, n, q) = i0
          BY <4>4, <4>5, BeginsAre DEF n, R
        <5>2. q < m
          BY <2>4, <4>4, <4>5, <5>1 DEF Saw
        <5> HIDE DEF q
        <5>3. q < p
          BY <2>1, <3>3, <5>1, <5>2
        <5>4. i0 < j
          BY <3>6, <5>1, <5>3
        <5> QED
          BY <2>2, <3>4, <3>5, <5>4
      <4>6. CASE s.event = 0
        <5> DEFINE i == i0 + 1
        <5>1. i0 < Views[o].samples /\ i0 \in 1..Sets
          BY <2>3, <4>4, <4>6 DEF Saw
        <5>2. i \in 1..Sets /\ i <= Views[o].samples
          BY <1>4, <2>4, <5>1
        <5> HIDE DEF i
        <5>3. SetEnds(Latest)[i] <= m /\ SetEnds(Latest)[i] \in 1..Held
          BY <1>1, <2>4, <5>2, LatestSets
        <5>4. SetEnds(Latest)[i] < p
          BY <2>1, <3>3, <5>3
        <5>5. i <= j
          BY <3>4, <5>2, <5>4, SetCounts DEF n, j
        <5> QED
          BY <2>2, <3>4, <3>5, <5>5 DEF i
      <4> QED
        BY <4>5, <4>6
    <3> QED
      BY <3>7, <3>8
  <2>9. Cnt(R, p0) = Cnt(R, b)
    BY <2>5, <2>7, <2>8
  <2> QED
    BY <2>9 DEF Runs, R, p0
<1> QED
  BY <1>2, <1>6 DEF RunAt, b

\* So a sample that is re-timed has its true time.
LEMMA RetimedIsTrue ==
    ASSUME RecordShows, NEW k \in 1..Sets, k \in Rec.reset, NEW acc, RetimedBy(Rec, Views, Begins, acc, k)
    PROVE  acc.time[k] = At(k) /\ offloads[acc.by[k]].run = RunAt(k) /\ acc.by[k] \in 1..Len(offloads)
<1> DEFINE o == acc.by[k]
<1>1. PICK i0 \in 0..(k - 1) : Gives(i0, o, k) /\ acc.time[k] = Rec.time[k] - Views[o].skew
  BY DEF RetimedBy, Gives
<1>2. offloads[o].run = RunAt(k)
  BY <1>1, SkewIsOwn
<1>3. o \in 1..Len(offloads) /\ offloads[o].by # "none"
  BY <1>1, SkewOfARestart DEF RestartMeasured
<1> HIDE DEF o
<1>4. Views[o].skew = offloads[o].skew
  BY <1>3, ViewsAre
<1>5. offloads[o].skew = Rec.time[k] - At(k) /\ Rec.time[k] \in Nat /\ At(k) \in Nat
  BY <1>2, <1>3, SkewAt
<1>6. acc.time[k] = At(k)
  BY <1>1, <1>4, <1>5
<1> QED
  BY <1>2, <1>3, <1>6 DEF o

\* An offload that measured the run of a set, and saw the set unless nobody ever set the
\* clock, has for its current run the one that the record shows for the set.
LEMMA IsCandidate ==
    ASSUME RecordShows, NEW k \in 1..Sets, NEW o \in 1..Len(offloads), offloads[o].run = RunAt(k),
           k <= Views[o].samples \/ ~ setByHand,
           NEW i0 \in 0..(k - 1), i0 = 0 \/ \E t \in Begins : t.at = i0,
           \A t \in Begins : ~ (i0 < t.at /\ t.at < k)
    PROVE  o \in Candidates(Views, Begins, i0)
<1>1. IInv /\ Layout /\ RunsCounted /\ SkewsMeasured /\ OffloadsInOrder /\ offloads # <<>> /\ ~ CorruptMatters
  BY DEF RecordShows, Clocks
<1> DEFINE b == FirstOf(k)
           n == logger.nchan
           m == offloads[o].bytes
           R == Resets(words)
           p0 == m + 1
<1>2. /\ Held \in Nat /\ R \subseteq Nat /\ Sets \in Nat /\ k \in Nat /\ i0 \in Nat /\ i0 < k
      /\ \A s \in Begins : s.at \in 1..Sets
  <2>1. Held \in Nat
    BY <1>1, LatestIs
  <2>2. R \subseteq Nat
    BY <1>1, StateIs
  <2>3. Sets \in Nat /\ \A s \in Begins : s.at \in 1..Sets
    BY RecIs, StartsFit DEF Begins
  <2> QED
    BY <2>1, <2>2, <2>3
<1>3. b \in Nat /\ b <= End /\ End \in Nat /\ run \in Nat
  <2>1. b \in 1..Held /\ Held <= Len(words)
    BY <1>1, LatestSets, LatestIs
  <2>2. End \in Nat /\ Len(words) \in Nat /\ run \in Nat
    BY <1>1, StateIs
  <2> QED
    BY <1>2, <2>1, <2>2 DEF End
<1>4. setByHand => RunAt(k) < run
  <2>1. Runs(words, b) \in Nat \ {0} /\ Runs(words, b) <= Runs(words, End) /\ Runs(words, End) \in Nat \ {0}
    BY <1>1, <1>3, RunsAre
  <2>2. setByHand => run = Runs(words, End) + 1
    BY <1>1 DEF RunsCounted
  <2> QED
    BY <1>3, <2>1, <2>2 DEF RunAt
<1>5. o \in DOMAIN offloads /\ DOMAIN offloads = 1..Len(offloads) /\ m \in Nat /\ Len(offloads) \in Nat
      /\ \A i \in 1..Len(offloads) : offloads[i].bytes \in Nat /\ offloads[i].run \in Nat
  BY <1>1, StateIs
<1>6. Runs(words, p0) = Runs(words, b) /\ m \notin R
  <2>1. offloads[o].run = Runs(words, p0) \/ (setByHand /\ offloads[o].run = run)
    BY <1>1, <1>5 DEF SkewsMeasured
  <2>2. m \notin R
    BY <1>1, <1>5 DEF SkewsMeasured
  <2>3. offloads[o].run \in Nat
    BY <1>5
  <2> QED
    BY <1>3, <1>4, <2>1, <2>2, <2>3 DEF RunAt
<1>7. ASSUME NEW q \in R PROVE q < b <=> q < m
  <2>1. p0 \in Nat /\ q \in Nat /\ q # m /\ (q < p0 <=> q < m)
    BY <1>2, <1>5, <1>6
  <2> HIDE DEF p0, R, b, m
  <2>2. Cnt(R, p0) \in Nat /\ Cnt(R, b) \in Nat
    BY <1>2, <1>3, <2>1, CntIs
  <2>3. Cnt(R, p0) = Cnt(R, b)
    BY <1>6, <2>2 DEF Runs, R
  <2>4. b <= p0 => ~ (b <= q /\ q < p0)
    <3>1. b <= p0 => \A i \in R : b <= i /\ i < p0 => Cnt(R, b) < Cnt(R, p0)
      BY <1>2, <1>3, <2>1, CntBetween
    <3> QED
      BY <2>2, <2>3, <3>1
  <2>5. p0 <= b => ~ (p0 <= q /\ q < b)
    <3>1. p0 <= b => \A i \in R : p0 <= i /\ i < b => Cnt(R, p0) < Cnt(R, b)
      BY <1>2, <1>3, <2>1, CntBetween
    <3> QED
      BY <2>2, <2>3, <3>1
  <2> QED
    BY <1>3, <2>1, <2>4, <2>5
<1>8. /\ DOMAIN Views = 1..Len(offloads) /\ Views[o].samples \in 0..Sets
      /\ \A e \in 1..Len(Events(Latest)) : e <= Views[o].events <=> PlaceOf(e) < m
      /\ \A i \in 1..Len(offloads) : /\ Views[i].samples \in 0..Sets
                                     /\ \A x \in 1..Sets : x <= Views[i].samples <=> SetEnds(Latest)[x] <= offloads[i].bytes
  BY ViewsAre
<1>9. ASSUME NEW s \in Begins, s.event # 0
      PROVE  Saw(Views[o], s) <=> s.at < k
  <2> DEFINE q == PlaceOf(s.event)
  <2>1. s.event \in 1..Len(Events(Latest)) /\ q \in R /\ q \in 1..Held /\ SetsBefore(words, n, q) = s.at
    BY <1>9, BeginsAre
  <2>2. q < Held /\ words[q].kind = "event"
    BY <1>1, <2>1, LatestEvents
  <2>3. Saw(Views[o], s) <=> q < m
    BY <1>8, <1>9, <2>1 DEF Saw
  <2> HIDE DEF q, R, m
  <2>4. q < b <=> s.at <= k - 1
    BY <1>1, <2>1, <2>2, EventOrSet
  <2>5. s.at \in Nat
    BY <1>2
  <2> HIDE DEF b
  <2> QED
    BY <1>2, <1>7, <2>1, <2>3, <2>4, <2>5
<1> DEFINE T == {s.at : s \in {r \in Begins : Saw(Views[o], r)}}
<1>10. T \subseteq 1..Sets
  BY <1>2
<1>11. ASSUME i0 # 0 PROVE i0 \in T
  <2>1. PICK s \in Begins : s.at = i0
    BY <1>11
  <2>2. CASE s.event # 0
    BY <1>2, <1>9, <2>1, <2>2
  <2>3. CASE s.event = 0
    <3>1. PICK j : SetSeen(j)
      BY <2>3, BeginsAre
    <3>2. setByHand
      BY <3>1, SetByHand
    <3>3. i0 < Views[o].samples
      BY <1>2, <1>8, <3>2
    <3>4. Saw(Views[o], s)
      BY <2>1, <2>3, <3>3 DEF Saw
    <3> QED
      BY <2>1, <3>4
  <2> QED
    BY <2>2, <2>3
<1>12. ASSUME NEW s \in Begins, Saw(Views[o], s) PROVE s.at <= i0
  <2>1. s.at \in Nat
    BY <1>2
  <2>2. SUFFICES ASSUME k <= s.at PROVE FALSE
    BY <1>2, <2>1
  <2>3. CASE s.event # 0
    BY <1>2, <1>9, <1>12, <2>1, <2>2, <2>3
  <2>4. CASE s.event = 0
    <3>1. PICK j : SetSeen(j) /\ s.at = Views[j].samples
      BY <2>4, BeginsAre
    <3>2. /\ setByHand /\ offloads[j + 1].run = run
          /\ j \in 1..Len(offloads) /\ j + 1 \in 1..Len(offloads)
      BY <3>1, SetByHand
    <3>3. Views[j].samples < Views[o].samples
      BY <1>12, <2>4, <3>1 DEF Saw
    <3>4. offloads[o].run < run
      BY <1>4, <3>2
    <3>5. o <= j
      <4>1. ~ (o = j + 1)
        BY <1>3, <1>5, <3>2, <3>4
      <4>2. j + 1 < o => offloads[j + 1].run <= offloads[o].run
        BY <1>1, <1>5, <3>2 DEF OffloadsInOrder
      <4> HIDE DEF m
      <4> QED
        BY <1>3, <1>5, <3>2, <3>4, <4>1, <4>2
    <3>6. m <= offloads[j].bytes
      <4>1. o < j => m <= offloads[j].bytes
        BY <1>1, <1>5, <3>2 DEF OffloadsInOrder
      <4>2. o < j \/ o = j
        BY <1>5, <3>2, <3>5
      <4> QED
        BY <1>5, <4>1, <4>2
    <3> DEFINE x == Views[o].samples
    <3>7. x \in 1..Sets
      BY <1>2, <1>8, <3>2, <3>3
    <3>8. SetEnds(Latest)[x] <= m /\ SetEnds(Latest)[x] \in 1..Held
      <4>1. x <= x
        BY <3>7
      <4> HIDE DEF x
      <4>2. SetEnds(Latest)[x] \in 1..Held
        BY <1>1, <3>7, LatestSets
      <4> QED
        BY <1>8, <3>7, <4>1, <4>2 DEF x
    <3>9. SetEnds(Latest)[x] <= offloads[j].bytes
      BY <1>2, <1>5, <3>2, <3>6, <3>8
    <3>10. x <= Views[j].samples
      BY <1>8, <3>2, <3>7, <3>9
    <3> QED
      BY <1>2, <1>8, <3>2, <3>3, <3>10
  <2> QED
    BY <2>3, <2>4
<1>13. \A x \in T : x <= i0
  BY <1>12
<1> HIDE DEF T
<1>14. SetOrNone(T) = i0
  <2>1. CASE T = {}
    BY <1>11, <2>1 DEF SetOrNone
  <2>2. CASE T # {}
    <3>1. Max(T) \in T /\ \A x \in T : x <= Max(T)
      BY <1>2, <1>10, <2>2, MaxOf
    <3>2. Max(T) <= i0 /\ Max(T) \in 1..Sets
      BY <1>10, <1>13, <3>1
    <3>3. i0 # 0 => i0 <= Max(T)
      BY <1>11, <3>1
    <3>4. Max(T) = i0
      BY <1>2, <3>2, <3>3
    <3> QED
      BY <2>2, <3>4 DEF SetOrNone
  <2> QED
    BY <2>1, <2>2
<1> QED
  BY <1>5, <1>8, <1>14 DEF Candidates, T

-----------------------------------------------------------------------------
(* Re-timing, pass by pass: what it keeps and which times it gives.        *)

\* A pass over the sets after i0, up to i1: as the record shows, they are all of one run.
Pass(i0, i1) ==
    /\ i0 \in 0..Sets /\ i1 \in 0..Sets /\ i0 <= i1
    /\ i0 = 0 \/ \E t \in Begins : t.at = i0
    /\ \A t \in Begins : ~ (i0 < t.at /\ t.at < i1)

LEMMA OnePass ==
    ASSUME RecordShows, NEW i0, NEW i1, Pass(i0, i1), NEW i \in (i0 + 1)..i1, NEW k \in (i0 + 1)..i1
    PROVE  RunAt(i) = RunAt(k) /\ i \in 1..Sets /\ k \in 1..Sets
<1>1. Sets \in Nat /\ i0 \in Nat /\ i1 \in Nat /\ i1 <= Sets /\ i \in 1..Sets /\ k \in 1..Sets /\ i0 < i /\ i0 < k /\ i <= i1 /\ k <= i1
  BY RecIs DEF Pass
<1>2. \A s \in Begins : s.at \in 1..Sets
  BY RecIs, StartsFit DEF Begins
<1>3. /\ \A t \in Begins : ~ (i <= t.at /\ t.at < k)
      /\ \A t \in Begins : ~ (k <= t.at /\ t.at < i)
  BY <1>1, <1>2 DEF Pass
<1>4. i <= k \/ k <= i
  BY <1>1
<1> QED
  BY <1>1, <1>3, <1>4, OneRun

\* Some offload measured the run of set k, and saw the set unless nobody ever set the clock.
Tells(o, k) ==
    /\ o \in 1..Len(offloads) /\ offloads[o].by # "none" /\ offloads[o].run = RunAt(k)
    /\ k <= Views[o].samples \/ ~ setByHand

\* A view is of the time of its offload.
LEMMA ViewTimes ==
    ASSUME RecordShows, NEW o \in 1..Len(offloads)
    PROVE  Views[o].at = offloads[o].at
<1>1. IInv
  BY DEF RecordShows
<1>2. o \in DOMAIN offloads
  BY <1>1, StateIs
<1> QED
  BY <1>2 DEF Views, offload_views

\* The kept samples that the passes before have done with have their true times.
LEMMA DoneIsTrue ==
    ASSUME RecordShows, NEW e, NEW acc, Told(Rec, Views, Begins, acc, Sets, e),
           NEW k \in 1..Sets, k \in acc.kept, k <= e \/ k \notin Rec.reset
    PROVE  acc.time[k] = At(k)
<1>1. CASE k \notin Rec.reset
  <2>1. acc.time[k] = Rec.time[k]
    BY <1>1 DEF Told
  <2> QED
    BY <1>1, <2>1, ResetIs
<1>2. CASE k \in Rec.reset
  <2>1. RetimedBy(Rec, Views, Begins, acc, k)
    BY <1>2 DEF Told
  <2> QED
    BY <1>2, <2>1, RetimedIsTrue
<1> QED
  BY <1>1, <1>2

\* Such an offload can re-time the samples of the pass that set k is in.
Fix(i0, i1) == Rec.reset \cap ((i0 + 1)..i1)

\* It is a candidate of the pass, and agrees with every sample that the passes before it kept.
LEMMA TellsTheTime ==
    ASSUME RecordShows, NEW i0, NEW i1, Pass(i0, i1),
           NEW acc \in Times(Sets, Len(offloads)), Told(Rec, Views, Begins, acc, Sets, i0),
           NEW k \in Fix(i0, i1), NEW o, Tells(o, k)
    PROVE  /\ o \in Candidates(Views, Begins, i0) /\ Views[o].measured
           /\ Consistent(acc.time, acc.kept, Fix(i0, i1), Views[o])
<1> DEFINE fix == Fix(i0, i1)
           first == Min(fix)
           before == SetOrNone({i \in acc.kept : i < first})
           seen == {i \in fix : i <= Views[o].samples}
           skew == offloads[o].skew
<1>1. Sets \in Nat /\ i0 \in Nat /\ i1 \in Nat /\ i1 <= Sets /\ i0 <= i1
  BY RecIs DEF Pass
<1>2. /\ o \in 1..Len(offloads) /\ Views[o].skew = skew /\ Views[o].measured /\ Views[o].at = offloads[o].at
      /\ Views[o].samples \in 0..Sets
  BY ViewsAre, ViewTimes DEF Tells
<1>3. \A i \in fix : i \in (i0 + 1)..i1 /\ i \in Rec.reset /\ i \in 1..Sets
  BY <1>1 DEF Fix
<1>4. o \in Candidates(Views, Begins, i0)
  <2>1. k \in (i0 + 1)..i1 /\ k \in 1..Sets
    BY <1>3
  <2>2. i0 \in 0..(k - 1) /\ k <= i1
    BY <1>1, <2>1
  <2>3. \A t \in Begins : t.at \in 1..Sets
    BY RecIs, StartsFit DEF Begins
  <2>4. \A t \in Begins : ~ (i0 < t.at /\ t.at < k)
    BY <1>1, <2>1, <2>2, <2>3 DEF Pass
  <2> QED
    BY <1>2, <2>1, <2>2, <2>4, IsCandidate DEF Pass, Tells
<1>5. ASSUME NEW i \in fix
      PROVE  /\ acc.time[i] - skew = At(i) /\ At(i) \in Nat /\ At(i) >= Y2001
             /\ i <= Views[o].samples => At(i) <= offloads[o].at
  <2>1. i \in (i0 + 1)..i1 /\ i \in 1..Sets /\ k \in (i0 + 1)..i1 /\ i > i0
    BY <1>1, <1>3
  <2>2. offloads[o].run = RunAt(i) /\ offloads[o].by # "none"
    BY <2>1, OnePass DEF Tells
  <2>3. acc.time[i] = Rec.time[i]
    BY <2>1 DEF Told
  <2>4. skew = Rec.time[i] - At(i) /\ At(i) \in Nat /\ Rec.time[i] \in Nat /\ At(i) >= Y2001
        /\ (i <= Views[o].samples => At(i) <= offloads[o].at)
    BY <1>2, <2>1, <2>2, SkewAt
  <2> HIDE DEF skew
  <2> QED
    BY <2>3, <2>4
<1> HIDE DEF fix, skew
<1>6. first \in fix /\ \A i \in fix : first <= i
  <2>1. fix \subseteq Nat /\ fix # {}
    BY <1>3 DEF fix
  <2> QED
    BY <2>1, LeastIs
<1> HIDE DEF first
<1>7. before # 0 => before \in acc.kept /\ before < first
  <2> DEFINE S == {i \in acc.kept : i < first}
  <2>1. S \subseteq 1..Sets
    BY DEF Times
  <2> HIDE DEF S
  <2>2. S # {} => Max(S) \in S
    BY <1>1, <2>1, MaxOf
  <2>3. SetOrNone(S) # 0 => SetOrNone(S) \in S
    BY <2>2 DEF SetOrNone
  <2> QED
    BY <2>3 DEF S
<1> HIDE DEF before
<1>8. before # 0 => acc.time[first] - skew > acc.time[before]
  <2>1. SUFFICES ASSUME before # 0 PROVE acc.time[first] - skew > acc.time[before]
    OBVIOUS
  <2>2. before \in acc.kept /\ before < first /\ before \in 1..Sets /\ first \in 1..Sets
    BY <1>3, <1>6, <1>7, <2>1 DEF Times
  <2>3. before <= i0 \/ before \notin Rec.reset
    <3>1. before \notin fix
      BY <1>3, <1>6, <2>2
    <3>2. first <= i1
      BY <1>3, <1>6
    <3> QED
      BY <1>1, <2>2, <3>1, <3>2 DEF fix, Fix
  <2>4. acc.time[before] = At(before)
    BY <2>2, <2>3, DoneIsTrue
  <2>5. At(before) < At(first) /\ At(before) \in Nat /\ At(first) \in Nat
    BY <2>2, TimesGoUp, StandsAt
  <2>6. acc.time[first] - skew = At(first)
    BY <1>5, <1>6
  <2> QED
    BY <2>4, <2>5, <2>6
<1>9. seen # {} => acc.time[Max(seen)] - skew <= offloads[o].at + Slack
  <2>1. seen \subseteq 1..Sets
    BY <1>3
  <2>2. \A i \in seen : i \in fix /\ i <= Views[o].samples
    OBVIOUS
  <2> HIDE DEF seen
  <2>3. SUFFICES ASSUME seen # {} PROVE acc.time[Max(seen)] - skew <= offloads[o].at + Slack
    OBVIOUS
  <2> DEFINE x == Max(seen)
  <2>4. x \in fix /\ x <= Views[o].samples
    BY <1>1, <2>1, <2>2, <2>3, MaxOf
  <2>5. acc.time[x] - skew = At(x) /\ At(x) \in Nat /\ At(x) <= offloads[o].at
    BY <1>5, <2>4
  <2>6. offloads[o].at \in Nat /\ Slack \in Nat
    <3>1. k \in 1..Sets
      BY <1>3 DEF fix
    <3> QED
      BY <1>2, <3>1, SkewAt, TimesAssumption
  <2> HIDE DEF x
  <2>7. acc.time[x] - skew <= offloads[o].at + Slack
    BY <2>5, <2>6
  <2> QED
    BY <2>7 DEF x
<1>10. acc.time[first] - skew >= Y2001
  BY <1>5, <1>6
<1>11. Consistent(acc.time, acc.kept, fix, Views[o])
  BY <1>2, <1>8, <1>9, <1>10 DEF Consistent, first, before
<1> QED
  BY <1>2, <1>4, <1>11 DEF fix

\* So no pass drops a sample that an offload tells the time of, nor one on a right clock.
Keeps(acc, e) ==
    /\ \A k \in 1..Sets : k \notin Rec.reset => k \in acc.kept
    /\ \A k \in 1..Sets, o \in 1..Len(offloads) : k <= e /\ Tells(o, k) => k \in acc.kept

LEMMA PassKeeps ==
    ASSUME RecordShows, NEW i0, NEW i1, Pass(i0, i1),
           NEW acc \in Times(Sets, Len(offloads)), Told(Rec, Views, Begins, acc, Sets, i0),
           UpTo(acc, Sets, i0), Keeps(acc, i0)
    PROVE  Keeps(Retime(Rec, Views, Begins, acc, i0, i1), i1)
<1> DEFINE fix == Fix(i0, i1)
           usable == {k \in Candidates(Views, Begins, i0) :
                         Views[k].measured /\ Consistent(acc.time, acc.kept, fix, Views[k])}
           l == Max(usable)
           r == Retime(Rec, Views, Begins, acc, i0, i1)
<1>1. r = IF fix = {} THEN acc
          ELSE IF usable = {} THEN [acc EXCEPT !.kept = @ \ fix]
          ELSE [time |-> [i \in DOMAIN acc.time |->
                              IF i \in fix THEN acc.time[i] - Views[l].skew ELSE acc.time[i]],
                kept |-> acc.kept,
                by |-> [i \in DOMAIN acc.by |-> IF i \in fix THEN l ELSE acc.by[i]]]
  BY DEF Retime, Fix
<1>2. ASSUME NEW k \in fix, NEW o, Tells(o, k) PROVE usable # {}
  <2>1. o \in usable
    BY <1>2, TellsTheTime
  <2> QED
    BY <2>1
<1>3. \A k \in fix : k \in Rec.reset
  BY DEF Fix
<1> HIDE DEF fix, usable, l, r
<1>4. r.kept = acc.kept \/ (usable = {} /\ r.kept = acc.kept \ fix)
  <2>1. CASE fix = {}
    BY <1>1, <2>1
  <2>2. CASE fix # {} /\ usable = {}
    <3>1. r = [acc EXCEPT !.kept = @ \ fix]
      BY <1>1, <2>2
    <3>2. r.kept = acc.kept \ fix
      BY <3>1 DEF Times
    <3> QED
      BY <2>2, <3>2
  <2>3. CASE fix # {} /\ usable # {}
    BY <1>1, <2>3
  <2> QED
    BY <2>1, <2>2, <2>3
<1>5. ASSUME NEW k \in 1..Sets, k \notin Rec.reset PROVE k \in r.kept
  <2>1. k \in acc.kept
    BY <1>5 DEF Keeps
  <2> QED
    BY <1>3, <1>4, <1>5, <2>1
<1>6. ASSUME NEW k \in 1..Sets, NEW o \in 1..Len(offloads), k <= i1, Tells(o, k) PROVE k \in r.kept
  <2>1. k \in acc.kept
    <3>1. Sets \in Nat /\ i0 \in Nat
      BY RecIs DEF Pass
    <3>2. k <= i0 \/ k > i0
      BY <3>1
    <3> QED
      BY <1>6, <3>2 DEF Keeps, UpTo
  <2>2. k \in fix => usable # {}
    BY <1>2, <1>6
  <2> QED
    BY <1>4, <2>1, <2>2
<1> QED
  BY <1>5, <1>6 DEF Keeps, r

Result == resolve_times(Rec, offloads)

\* Pass by pass, every sample that some offload tells the time of is kept.
LEMMA ResultKeeps ==
    ASSUME RecordShows
    PROVE  Keeps(Result, Sets)
<1> DEFINE most == Len(offloads)
           A == Times(Sets, most)
           N == Passes(Rec, offloads)
           edge(s) == Edge(Rec, offloads, s)
<1>1. Rec.time \in Seq(Int) /\ Len(Rec.time) = Sets /\ Sets \in Nat
  BY RecIs
<1>2. Measured(offloads)
  BY StateIs DEF RecordShows, Measured
<1>3. PICK f : Unrolled(Rec, offloads, f)
  BY <1>1, <1>2, PassByPass DEF Unrolls
<1>4. /\ f \in [0..N -> A] /\ f[N] = Result
      /\ f[0] = [time |-> Rec.time, kept |-> 1..Sets, by |-> [i \in 1..Sets |-> 0]]
      /\ \A s \in 1..N : f[s] = Retime(Rec, Views, Begins, f[s - 1], edge(s), edge(s + 1))
  BY <1>1, <1>3 DEF Unrolled, Result, Views, Begins
<1>5. EdgesFit(Rec, offloads) /\ most \in Nat
  BY <1>1, <1>2, EdgesAre DEF Measured
<1>6. N \in Nat \ {0} /\ edge(1) = 0 /\ edge(N + 1) = Sets
      /\ \A s \in 1..N : Pass(edge(s), edge(s + 1))
  BY <1>1, <1>5 DEF EdgesFit, EdgeFits, Pass, Begins
<1>7. DOMAIN Views = 1..most /\ \A k \in 1..most : Views[k].skew \in Int
  BY <1>2, ViewsAre DEF Measured
<1>8. \A t \in Begins : t.at \in 1..Sets
  BY <1>1, StartsFit DEF Begins
<1> HIDE DEF most, N, edge
<1> DEFINE T == {s \in 0..N : /\ Told(Rec, Views, Begins, f[s], Sets, edge(s + 1))
                              /\ UpTo(f[s], Sets, edge(s + 1)) /\ Keeps(f[s], edge(s + 1))}
<1>9. 0 \in T
  <2>1. /\ f[0].time = Rec.time /\ f[0].kept = 1..Sets
        /\ \A i \in 1..Sets : f[0].by[i] = 0 /\ ~ (i <= 0)
    BY <1>1, <1>4
  <2>2. Told(Rec, Views, Begins, f[0], Sets, 0)
    <3>1. \A i, j \in 1..Sets : ~ (j <= 0)
      BY <2>1
    <3> QED
      BY <2>1, <3>1 DEF Told
  <2>3. UpTo(f[0], Sets, 0) /\ Keeps(f[0], 0)
    BY <2>1 DEF UpTo, Keeps
  <2> QED
    BY <1>6, <2>2, <2>3
<1>10. ASSUME NEW s \in 1..N, s - 1 \in T PROVE s \in T
  <2>1. (s - 1) + 1 = s /\ s \in 0..N /\ s - 1 \in 0..N
    BY <1>6
  <2>2. /\ Told(Rec, Views, Begins, f[s - 1], Sets, edge(s)) /\ f[s - 1] \in Times(Sets, most)
        /\ UpTo(f[s - 1], Sets, edge(s)) /\ Keeps(f[s - 1], edge(s))
    BY <1>4, <1>10, <2>1 DEF A
  <2> HIDE DEF T, A
  <2> DEFINE acc == f[s - 1]
             i0 == edge(s)
             i1 == edge(s + 1)
  <2>3. f[s] = Retime(Rec, Views, Begins, acc, i0, i1) /\ Pass(i0, i1)
    BY <1>4, <1>6
  <2> HIDE DEF acc, i0, i1
  <2>4. /\ i0 \in 0..Sets /\ i1 \in 0..Sets /\ i0 <= i1 /\ i0 \in Nat /\ i1 \in Nat
        /\ i0 = 0 \/ \E t \in Begins : t.at = i0
        /\ \A t \in Begins : ~ (i0 < t.at /\ t.at < i1)
    BY <1>1, <2>3 DEF Pass
  <2>5. Told(Rec, Views, Begins, acc, Sets, i0) /\ acc \in Times(Sets, most) /\ UpTo(acc, Sets, i0) /\ Keeps(acc, i0)
    BY <2>2 DEF acc, i0
  <2>6. Told(Rec, Views, Begins, Retime(Rec, Views, Begins, acc, i0, i1), Sets, i1)
    BY <1>1, <1>5, <1>7, <1>8, <2>4, <2>5, PassTells
  <2>7. UpTo(Retime(Rec, Views, Begins, acc, i0, i1), Sets, i1)
    BY <1>1, <1>5, <1>7, <2>4, <2>5, Retimed
  <2>8. Keeps(Retime(Rec, Views, Begins, acc, i0, i1), i1)
    BY <2>3, <2>5, PassKeeps DEF most
  <2>9. Told(Rec, Views, Begins, f[s], Sets, edge(s + 1)) /\ UpTo(f[s], Sets, edge(s + 1)) /\ Keeps(f[s], edge(s + 1))
    BY <2>3, <2>6, <2>7, <2>8 DEF i1
  <2> QED
    BY <2>1, <2>9 DEF T
<1>11. Keeps(f[N], Sets)
  <2> HIDE DEF T
  <2>1. \A s \in 0..N : s \in T
    BY <1>6, <1>9, <1>10, StepByStep
  <2>2. N \in T
    BY <1>6, <2>1
  <2> QED
    BY <1>6, <2>2 DEF T
<1> QED
  BY <1>4, <1>11

\* What was re-timed was so by an offload of its own run, and if two samples were by the
\* same offload then all between that are kept were.
LEMMA ResultIs ==
    ASSUME RecordShows
    PROVE  /\ Result.kept \subseteq 1..Sets /\ DOMAIN Result.by = 1..Sets /\ Sets \in Nat
           /\ \A k \in 1..Sets : Result.by[k] # 0 => k \in Result.kept /\ k \in Rec.reset
           /\ \A k \in 1..Sets : k \notin Rec.reset => Result.time[k] = Rec.time[k]
           /\ \A k \in 1..Sets : k \in Rec.reset /\ k \in Result.kept =>
                 /\ \E i0 \in 0..(k - 1) : Gives(i0, Result.by[k], k)
                 /\ Result.time[k] = Rec.time[k] - Views[Result.by[k]].skew
           /\ \A i, j \in 1..Sets :
                 /\ i <= j /\ i \in Rec.reset /\ j \in Rec.reset /\ i \in Result.kept /\ j \in Result.kept
                 /\ \A t \in Begins : ~ (i <= t.at /\ t.at < j)
                 => Result.by[i] = Result.by[j]
<1>1. Rec.time \in Seq(Int) /\ Len(Rec.time) = Sets /\ Sets \in Nat
  BY RecIs
<1>2. Measured(offloads)
  BY StateIs DEF RecordShows, Measured
<1>3. Result \in Times(Sets, Len(offloads)) /\ UpTo(Result, Sets, Sets)
  BY <1>1, <1>2, Resolved DEF Result
<1>4. Told(Rec, Views, Begins, Result, Sets, Sets)
  BY <1>1, <1>2, ResolvedTells DEF Result, Views, Begins
<1>5. Result.kept \subseteq 1..Sets /\ DOMAIN Result.by = 1..Sets
  BY <1>3 DEF Times
<1>6. /\ \A i \in 1..Sets : (i > Sets \/ i \notin Rec.reset) => Result.time[i] = Rec.time[i]
      /\ \A i \in 1..Sets : i \notin Rec.reset => Result.by[i] = 0
      /\ \A i \in 1..Sets : i <= Sets /\ i \in Rec.reset /\ i \in Result.kept => RetimedBy(Rec, Views, Begins, Result, i)
      /\ \A i, j \in 1..Sets :
            /\ i <= j /\ j <= Sets /\ i \in Rec.reset /\ j \in Rec.reset /\ i \in Result.kept /\ j \in Result.kept
            /\ \A t \in Begins : ~ (i <= t.at /\ t.at < j)
            => Result.by[i] = Result.by[j]
  BY <1>4 DEF Told
<1>7. \A i \in 1..Sets : i <= Sets
  BY <1>1
<1>8. \A k \in 1..Sets : Result.by[k] # 0 => k \in Result.kept
  BY <1>3 DEF UpTo
<1>9. ASSUME NEW k \in 1..Sets, k \in Rec.reset, k \in Result.kept
      PROVE  /\ \E i0 \in 0..(k - 1) : Gives(i0, Result.by[k], k)
             /\ Result.time[k] = Rec.time[k] - Views[Result.by[k]].skew
  <2>1. RetimedBy(Rec, Views, Begins, Result, k)
    BY <1>6, <1>7, <1>9
  <2> QED
    BY <2>1 DEF RetimedBy, Gives
<1> QED
  BY <1>1, <1>5, <1>6, <1>7, <1>8, <1>9

\* So each sample that is kept has its true time, and one re-timed that of its own run.
LEMMA TimeIsTrue ==
    ASSUME RecordShows, NEW k \in 1..Sets, k \in Result.kept
    PROVE  /\ Result.time[k] = At(k)
           /\ Result.by[k] # 0 => offloads[Result.by[k]].run = RunAt(k)
<1>1. Told(Rec, Views, Begins, Result, Sets, Sets)
  <2>1. Measured(offloads)
    BY StateIs DEF RecordShows, Measured
  <2> QED
    BY <2>1, RecIs, ResolvedTells DEF Result, Views, Begins
<1>2. k <= Sets
  BY RecIs
<1>3. Result.time[k] = At(k)
  BY <1>1, <1>2, DoneIsTrue
<1>4. ASSUME Result.by[k] # 0 PROVE offloads[Result.by[k]].run = RunAt(k)
  <2>1. k \in Rec.reset
    BY <1>1, <1>4 DEF Told
  <2>2. RetimedBy(Rec, Views, Begins, Result, k)
    BY <1>1, <1>2, <2>1 DEF Told
  <2> QED
    BY <2>1, <2>2, RetimedIsTrue
<1> QED
  BY <1>3, <1>4

\* A set that is no half of an event is a sample, of that time and run.
LEMMA Sampled ==
    ASSUME RecordShows, NEW k \in 1..Sets, FirstOf(k) \in Reads(words)
    PROVE  At(k) = words[FirstOf(k)].at /\ RunAt(k) = words[FirstOf(k)].run
<1>1. RunsCounted
  BY DEF RecordShows, Clocks
<1> QED
  BY <1>1 DEF At, RunAt, RunsCounted

\* The kept sample that has index i on the axis of those kept.
LEMMA KeptIs ==
    ASSUME NEW n \in Nat, NEW kept, kept \subseteq 1..n, NEW x \in 1..n, NEW y \in 1..n,
           NEW i \in (_kept_index(kept, x - 1) + 1).._kept_index(kept, y)
    PROVE  /\ \E z \in kept : _kept_index(kept, z) = i
           /\ \A z \in kept : _kept_index(kept, z) = i => x <= z /\ z <= y
<1>1. kept \subseteq Nat /\ \A z \in kept : z \in 1..n
  OBVIOUS
<1> DEFINE c(z) == Cnt(kept, z)
<1>2. ASSUME NEW z \in Nat PROVE _kept_index(kept, z) = c(z + 1) /\ c(z + 1) \in Nat
  <2>1. {k \in kept : k <= z} = {k \in kept : k < z + 1}
    <3>1. \A k \in kept : k <= z <=> k < z + 1
      BY <1>1
    <3> QED
      BY <3>1
  <2> DEFINE p == z + 1
  <2>2. p \in Nat
    OBVIOUS
  <2> HIDE DEF p
  <2>3. Cnt(kept, p) \in Nat
    BY <1>1, <2>2, CntIs
  <2> QED
    BY <2>1, <2>3 DEF _kept_index, Cnt, p
<1>3. x - 1 \in Nat /\ y \in Nat /\ x \in Nat
  OBVIOUS
<1> DEFINE lo == _kept_index(kept, x - 1)
           hi == _kept_index(kept, y)
<1>4. lo \in Nat /\ hi \in Nat
  BY <1>2, <1>3
<1>5. i \in Nat /\ lo < i /\ i <= hi
  BY <1>4
<1> HIDE DEF lo, hi
<1>6. ASSUME NEW z \in kept, _kept_index(kept, z) = i PROVE x <= z /\ z <= y
  <2>1. z \in Nat /\ z + 1 \in Nat /\ y + 1 \in Nat /\ c(z + 1) = i /\ c(y + 1) = hi /\ c((x - 1) + 1) = lo
        /\ (x - 1) + 1 = x
    BY <1>1, <1>2, <1>3, <1>6 DEF lo, hi
  <2>2. c(x) = lo
    BY <2>1
  <2> DEFINE p == z + 1
             q == y + 1
  <2>3. p \in Nat /\ q \in Nat /\ c(p) = i /\ c(q) = hi /\ (z < x <=> p <= x) /\ (y < z <=> q <= z) /\ z < p
        /\ (q <= z => q <= p)
    BY <1>3, <2>1
  <2> HIDE DEF p, q, c
  <2>4. p <= x => c(p) <= c(x)
    BY <1>1, <1>3, <2>3, CntBetween DEF c
  <2>5. q <= z => c(q) < c(p)
    <3>1. q <= p => \A k \in kept : q <= k /\ k < p => Cnt(kept, q) < Cnt(kept, p)
      BY <1>1, <2>3, CntBetween
    <3> QED
      BY <1>6, <2>3, <3>1 DEF c
  <2> QED
    BY <1>3, <1>4, <1>5, <2>1, <2>2, <2>3, <2>4, <2>5
<1>7. \E z \in kept : _kept_index(kept, z) = i
  <2> DEFINE V == {v \in Nat : c(v + 1) >= i}
  <2>1. V \subseteq Nat /\ y \in V
    BY <1>2, <1>3, <1>5 DEF hi
  <2> HIDE DEF V
  <2>2. PICK v \in V : \A u \in V : v <= u
    BY <2>1, LeastNat
  <2>3. v \in Nat /\ c(v + 1) >= i
    BY <2>2 DEF V
  <2>4. c(v + 1) = c(v) + (IF v \in kept THEN 1 ELSE 0) /\ c(v) \in Nat
    BY <1>1, <2>3, CntNext, CntIs
  <2>5. c(v) < i
    <3>1. CASE v = 0
      <4>1. {k \in kept : k < 0} = {}
        <5>1. \A k \in kept : ~ (k < 0)
          BY <1>1
        <5> QED
          BY <5>1
      <4>2. c(0) = 0
        BY <4>1, FS_EmptySet DEF Cnt
      <4> QED
        BY <1>4, <1>5, <3>1, <4>2
    <3>2. CASE v # 0
      <4> DEFINE u == v - 1
      <4>1. u \in Nat /\ u + 1 = v /\ u < v
        BY <2>3, <3>2
      <4> HIDE DEF u
      <4>2. u \notin V
        BY <2>2, <2>3, <4>1
      <4>3. ~ (c(u + 1) >= i)
        BY <4>1, <4>2 DEF V
      <4> QED
        BY <1>5, <2>4, <4>1, <4>3
    <3> QED
      BY <3>1, <3>2
  <2>6. v \in kept /\ c(v + 1) = i
    <3> HIDE DEF c
    <3> QED
      BY <1>5, <2>3, <2>4, <2>5
  <2> QED
    BY <1>2, <2>3, <2>6
<1> QED
  BY <1>6, <1>7

\* Those between two samples that one offload re-timed were re-timed by it.
LEMMA RunsAreWhole ==
    ASSUME RecordShows, NEW x \in 1..Sets, NEW y \in 1..Sets, NEW z \in 1..Sets, x <= z, z <= y,
           Result.by[x] # 0, Result.by[x] = Result.by[y], z \in Result.kept
    PROVE  Result.by[z] = Result.by[x]
<1> DEFINE o == Result.by[x]
<1>1. Sets \in Nat /\ x \in Nat /\ y \in Nat /\ z \in Nat
  BY ResultIs
<1>2. x \in Result.kept /\ x \in Rec.reset /\ y \in Result.kept /\ y \in Rec.reset
  BY ResultIs
<1>3. PICK i0 \in 0..(x - 1) : Gives(i0, o, x)
  BY <1>2, ResultIs
<1>4. PICK j0 \in 0..(y - 1) : Gives(j0, o, y)
  BY <1>2, ResultIs
<1>5. i0 = j0
  BY <1>3, <1>4 DEF Gives, Candidates
<1>6. \A t \in Begins : ~ (j0 < t.at /\ t.at < y) /\ t.at \in 1..Sets
  BY <1>4, RecIs, StartsFit DEF Gives, Begins
<1>7. \A t \in Begins : ~ (x <= t.at /\ t.at < z)
  BY <1>1, <1>3, <1>5, <1>6
<1>8. z \in Rec.reset
  <2>1. RunAt(x) = RunAt(z)
    BY <1>7, OneRun
  <2> QED
    BY <1>2, <2>1, ResetIs
<1> QED
  BY <1>2, <1>7, <1>8, ResultIs

\* What a correction says of the samples it covers.
Covers(c, i, kept, by) ==
    /\ \E z \in kept : _kept_index(kept, z) = i
    /\ \A z \in kept : _kept_index(kept, z) = i => by[z] = c.offload

LEMMA CorrectionsCover ==
    ASSUME RecordShows, NEW c \in Corrections(Result), NEW i \in (c.start + 1)..c.end
    PROVE  Covers(c, i, Result.kept, Result.by) /\ c.offload # 0
<1> DEFINE of(k) == {j \in DOMAIN Result.by : Result.by[j] = k}
<1>1. PICK k \in {Result.by[j] : j \in DOMAIN Result.by} \ {0} :
         c = [start |-> _kept_index(Result.kept, Min(of(k)) - 1), end |-> _kept_index(Result.kept, Max(of(k))),
              offload |-> k]
  BY DEF Corrections
<1>2. DOMAIN Result.by = 1..Sets /\ Sets \in Nat /\ Result.kept \subseteq 1..Sets
  BY ResultIs
<1>3. of(k) \subseteq 1..Sets /\ of(k) # {} /\ of(k) \subseteq Nat
  <2>1. of(k) \subseteq 1..Sets /\ of(k) # {}
    BY <1>2
  <2> HIDE DEF of
  <2> QED
    BY <1>2, <2>1
<1> DEFINE x == Min(of(k))
           y == Max(of(k))
<1>4. x \in of(k) /\ y \in of(k) /\ x <= y /\ \A j \in of(k) : x <= j
  <2> HIDE DEF of
  <2>1. x \in of(k) /\ \A j \in of(k) : x <= j
    BY <1>3, LeastIs
  <2>2. y \in of(k)
    BY <1>2, <1>3, MaxOf
  <2> QED
    BY <2>1, <2>2
<1>5. x \in 1..Sets /\ y \in 1..Sets /\ Result.by[x] = k /\ Result.by[y] = k /\ k # 0
  BY <1>2, <1>4
<1>6. c.start = _kept_index(Result.kept, x - 1) /\ c.end = _kept_index(Result.kept, y) /\ c.offload = k
  BY <1>1
<1> HIDE DEF x, y, of
<1>7. i \in (_kept_index(Result.kept, x - 1) + 1).._kept_index(Result.kept, y)
  BY <1>6
<1>8. /\ \E z \in Result.kept : _kept_index(Result.kept, z) = i
      /\ \A z \in Result.kept : _kept_index(Result.kept, z) = i => x <= z /\ z <= y
  BY <1>2, <1>5, <1>7, KeptIs
<1>9. ASSUME NEW z \in Result.kept, _kept_index(Result.kept, z) = i PROVE Result.by[z] = k
  <2>1. x <= z /\ z <= y /\ z \in 1..Sets
    BY <1>2, <1>8, <1>9
  <2> QED
    BY <1>5, <2>1, RunsAreWhole
<1> QED
  BY <1>5, <1>6, <1>8, <1>9 DEF Covers

\* Whatever happened to the clock of a logger, where the record shows each restart of it,
\* the file gives each sample that it keeps its true time, and lists over each re-timed
\* sample the offload whose skew it was given, which was made in the sample's own run of
\* the clock (rawbin.resolve_time_arrays, ncwrite._correction_variables); in a deployment
\* shorter than the year a restarted clock takes to tell a time after 2000.
THEOREM TimesStayTrue == Spec => [](now < StartTime + Y2001 => TimesAreTrue)
<1>1. ASSUME IInv, Clocks, Moments, OffloadsInOrder, now < StartTime + Y2001 PROVE TimesAreTrue
  <2>1. SUFFICES ASSUME Shown
                 PROVE  /\ \A k \in file.kept : Real(k) => file.time[k] = WordOf(k).at
                        /\ \A c \in file.corrections : \A i \in (c.start + 1)..c.end :
                              /\ file.by[KeptAt(i)] = c.offload
                              /\ Real(KeptAt(i)) => offloads[c.offload].run = WordOf(KeptAt(i)).run
    BY DEF TimesAreTrue
  <2>2. RecordShows /\ IInv /\ Layout /\ offloads # <<>> /\ ~ CorruptMatters
    BY <1>1, <2>1 DEF Shown, Written, RecordShows, Clocks
  <2>3. /\ file.time = Result.time /\ file.kept = Result.kept /\ file.by = Result.by
        /\ file.corrections = Corrections(Result)
        /\ \A k \in 1..Sets : WordOf(k) = words[FirstOf(k)]
    BY <2>2, FileIs DEF Result, Rec
  <2>4. Result.kept \subseteq 1..Sets
    BY <2>2, ResultIs
  <2>5. ASSUME NEW k \in file.kept, Real(k)
        PROVE  /\ file.time[k] = WordOf(k).at
               /\ file.by[k] # 0 => offloads[file.by[k]].run = WordOf(k).run
    <3>1. k \in 1..Sets /\ k \in Result.kept
      BY <2>3, <2>4, <2>5
    <3>2. FirstOf(k) \in Reads(words)
      BY <2>2, <2>5, <3>1, RealIs
    <3>3. At(k) = words[FirstOf(k)].at /\ RunAt(k) = words[FirstOf(k)].run
      BY <2>2, <3>1, <3>2, Sampled
    <3> QED
      BY <2>2, <2>3, <3>1, <3>3, TimeIsTrue
  <2>6. ASSUME NEW c \in file.corrections, NEW i \in (c.start + 1)..c.end
        PROVE  /\ file.by[KeptAt(i)] = c.offload
               /\ Real(KeptAt(i)) => offloads[c.offload].run = WordOf(KeptAt(i)).run
    <3>1. Covers(c, i, file.kept, file.by) /\ c.offload # 0
      BY <2>2, <2>3, CorrectionsCover
    <3> DEFINE z == KeptAt(i)
    <3>2. z \in file.kept /\ _kept_index(file.kept, z) = i
      BY <3>1 DEF Covers, KeptAt
    <3>3. file.by[z] = c.offload
      BY <3>1, <3>2 DEF Covers
    <3> HIDE DEF z
    <3>4. Real(z) => offloads[c.offload].run = WordOf(z).run
      BY <2>5, <3>1, <3>2, <3>3
    <3> QED
      BY <3>3, <3>4 DEF z
  <2> QED
    BY <2>5, <2>6
<1>2. IInv /\ Clocks /\ Moments /\ OffloadsInOrder => (now < StartTime + Y2001 => TimesAreTrue)
  BY <1>1
<1> QED
  BY <1>2, Invariance, ClocksKept, MomentsAlways, OffloadsInOrderAlways, PTL

\* Kept samples are ever later, so the file is never refused.
LEMMA NotRefused ==
    ASSUME RecordShows
    PROVE  ~ Refused(Result)
<1>1. Result.kept \subseteq 1..Sets
  BY ResultIs
<1>2. SUFFICES ASSUME NEW i \in Result.kept, NEW j \in Result.kept, i < j, Result.time[i] >= Result.time[j] PROVE FALSE
  BY DEF Refused
<1>3. i \in 1..Sets /\ j \in 1..Sets
  BY <1>1
<1>4. Result.time[i] = At(i) /\ Result.time[j] = At(j)
  BY <1>3, TimeIsTrue
<1>5. At(i) < At(j) /\ At(i) \in Nat /\ At(j) \in Nat
  BY <1>2, <1>3, TimesGoUp, StandsAt
<1> QED
  BY <1>2, <1>4, <1>5

\* Nothing recoverable is lost: where the record shows every restart the file is written,
\* and it holds each sample of a run of the clock whose skew some offload measured, if that
\* offload saw the sample or nobody set the clock since (rawbin.resolve_time_arrays and
\* _starts, ncwrite.offload_views); in a deployment shorter than the year a restarted clock
\* takes to tell a time after 2000.
THEOREM MeasuredRunsStayKept == Spec => [](now < StartTime + Y2001 => MeasuredRunsAreKept)
<1>1. ASSUME IInv, Clocks, Moments, OffloadsInOrder, now < StartTime + Y2001 PROVE MeasuredRunsAreKept
  <2>1. SUFFICES ASSUME offloads # <<>>, ~ CorruptMatters, RestartsApart
                 PROVE  /\ ~ file.refused
                        /\ \A k \in DOMAIN file.time, o \in DOMAIN offloads :
                              Real(k) /\ offloads[o].by # "none" /\ offloads[o].run = WordOf(k).run
                                  /\ (SetEnds(Latest)[k] <= offloads[o].bytes \/ ~ setByHand) => k \in file.kept
    BY DEF MeasuredRunsAreKept
  <2>2. RecordShows /\ Layout
    BY <1>1, <2>1 DEF RecordShows, Clocks
  <2>3. /\ file.time = Result.time /\ file.kept = Result.kept /\ (file.refused <=> Refused(Result))
        /\ \A k \in 1..Sets : WordOf(k) = words[FirstOf(k)]
    BY <1>1, <2>1, FileIs DEF Result, Rec
  <2>4. ~ file.refused
    BY <2>2, <2>3, NotRefused
  <2>5. ASSUME NEW k \in DOMAIN file.time, NEW o \in DOMAIN offloads,
               Real(k), offloads[o].by # "none", offloads[o].run = WordOf(k).run,
               SetEnds(Latest)[k] <= offloads[o].bytes \/ ~ setByHand
        PROVE  k \in file.kept
    <3>1. k \in 1..Sets
      <4>1. Measured(offloads)
        BY <1>1, StateIs DEF Measured
      <4>2. Result \in Times(Sets, Len(offloads))
        BY <2>2, <4>1, RecIs, Resolved DEF Result
      <4> QED
        BY <2>3, <2>5, <4>2 DEF Times
    <3>2. o \in 1..Len(offloads)
      BY <1>1, StateIs
    <3>3. FirstOf(k) \in Reads(words)
      BY <1>1, <2>1, <2>2, <2>5, <3>1, RealIs
    <3>4. offloads[o].run = RunAt(k)
      BY <2>2, <2>3, <2>5, <3>1, <3>3, Sampled
    <3>5. Tells(o, k)
      BY <2>2, <2>5, <3>1, <3>2, <3>4, ViewsAre DEF Tells
    <3>6. k <= Sets
      BY <2>2, <3>1, RecIs
    <3> QED
      BY <2>2, <2>3, <3>1, <3>2, <3>5, <3>6, ResultKeeps DEF Keeps
  <2> QED
    BY <2>4, <2>5
<1>2. IInv /\ Clocks /\ Moments /\ OffloadsInOrder => (now < StartTime + Y2001 => MeasuredRunsAreKept)
  BY <1>1
<1> QED
  BY <1>2, Invariance, ClocksKept, MomentsAlways, OffloadsInOrderAlways, PTL
=============================================================================
