----------------------------- MODULE ListsProofs -----------------------------
(* Lemmas about lists that hold nothing twice, about lists put one after the *)
(* other, and about induction on numbers, for the proofs of the other modules. *)
EXTENDS Lists, Integers, SequenceTheorems, WellFoundedInduction, TLAPS

\* A locator that is put at the head of a list it was not in.
LEMMA HeadOk ==
    ASSUME NEW S, NEW s \in Seq(S), IsInjective(s), NEW l \in S, l \notin ToSet(s)
    PROVE  /\ <<l>> \o s \in Seq(S)
           /\ <<l>> \o s # <<>>
           /\ (<<l>> \o s)[1] = l
           /\ ToSet(<<l>> \o s) = {l} \cup ToSet(s)
           /\ IsInjective(<<l>> \o s)
<1> DEFINE w == <<l>> \o s
           n == Len(s)
<1>1. n \in Nat /\ DOMAIN s = 1..n
  OBVIOUS
<1>2. w \in Seq(S) /\ Len(w) = n + 1 /\ DOMAIN w = 1..(n + 1) /\ w # <<>>
  OBVIOUS
<1>3. w[1] = l /\ \A i \in 2..(n + 1) : w[i] = s[i - 1]
  BY <1>1
<1>4. ToSet(w) = {l} \cup ToSet(s)
  <2>1. ASSUME NEW x \in ToSet(w) PROVE x \in {l} \cup ToSet(s)
    <3>1. PICK i \in 1..(n + 1) : x = w[i]
      BY <1>2, <2>1 DEF ToSet
    <3>2. i = 1 \/ (i \in 2..(n + 1) /\ i - 1 \in 1..n)
      BY <1>1
    <3> QED
      BY <1>1, <1>3, <3>1, <3>2 DEF ToSet
  <2>2. l \in ToSet(w)
    BY <1>1, <1>2, <1>3 DEF ToSet
  <2>3. ASSUME NEW x \in ToSet(s) PROVE x \in ToSet(w)
    <3>1. PICK i \in 1..n : x = s[i]
      BY <1>1, <2>3 DEF ToSet
    <3>2. i + 1 \in 2..(n + 1) /\ (i + 1) - 1 = i /\ i + 1 \in DOMAIN w
      BY <1>1, <1>2
    <3>3. w[i + 1] = x
      BY <1>3, <3>1, <3>2
    <3> QED
      BY <3>2, <3>3 DEF ToSet
  <2> QED
    BY <2>1, <2>2, <2>3
<1>5. IsInjective(w)
  <2> SUFFICES ASSUME NEW i \in 1..(n + 1), NEW j \in 1..(n + 1), w[i] = w[j]
               PROVE  i = j
    BY <1>2 DEF IsInjective
  <2>1. \A k \in 1..n : s[k] # l
    BY <1>1 DEF ToSet
  <2>2. CASE i = 1 \/ j = 1
    <3>1. \A k \in 2..(n + 1) : w[k] # l
      BY <1>1, <1>3, <2>1
    <3> QED
      BY <1>1, <1>3, <2>2, <3>1
  <2>3. CASE i # 1 /\ j # 1
    <3>1. i \in 2..(n + 1) /\ j \in 2..(n + 1) /\ i - 1 \in 1..n /\ j - 1 \in 1..n
      BY <1>1, <2>3
    <3>2. s[i - 1] = s[j - 1]
      BY <1>3, <3>1
    <3>3. i - 1 = j - 1
      BY <1>1, <3>1, <3>2 DEF IsInjective
    <3> QED
      BY <3>1, <3>3
  <2> QED
    BY <2>2, <2>3
<1> QED
  BY <1>2, <1>3, <1>4, <1>5

\* Taking a locator out of a list removes that locator and no other.
LEMMA WithoutOk ==
    ASSUME NEW S, NEW s \in Seq(S), IsInjective(s), NEW l
    PROVE  /\ Without(s, l) \in Seq(S)
           /\ ToSet(Without(s, l)) = ToSet(s) \ {l}
           /\ IsInjective(Without(s, l))
<1>1. CASE l \notin ToSet(s)
  BY <1>1 DEF Without
<1>2. CASE l \in ToSet(s)
  <2> DEFINE at0 == CHOOSE i \in DOMAIN s : s[i] = l
             n == Len(s)
             w == RemoveAt(s, at0)
  <2>1. at0 \in DOMAIN s /\ s[at0] = l
    BY <1>2 DEF ToSet
  <2>8. Without(s, l) = w
    BY <1>2, Zenon DEF Without
  <2> HIDE DEF at0
  <2>2. n \in Nat /\ DOMAIN s = 1..n /\ at0 \in 1..n /\ (\A i \in 1..n : s[i] \in S)
    BY <2>1
  <2> DEFINE a == SubSeq(s, 1, at0 - 1)
             b == SubSeq(s, at0 + 1, n)
  <2>9. a \in Seq(S) /\ Len(a) = at0 - 1 /\ \A i \in 1..(at0 - 1) : a[i] = s[i]
    BY <2>2
  <2>10. b \in Seq(S) /\ Len(b) = n - at0 /\ \A i \in 1..(n - at0) : b[i] = s[at0 + i]
    <3>1. at0 + 1 \in Int /\ n \in Int /\ \A i \in (at0 + 1)..n : s[i] \in S
      BY <2>2
    <3>2. b \in Seq(S)
      BY <3>1, SubSeqProperties
    <3>3. Len(b) = IF at0 + 1 <= n THEN n - (at0 + 1) + 1 ELSE 0
      BY <3>1, SubSeqProperties
    <3>4. \A i \in 1..(n - (at0 + 1) + 1) : b[i] = s[(at0 + 1) + i - 1]
      BY <3>1, SubSeqProperties
    <3> HIDE DEF b
    <3>5. Len(b) = n - at0
      <4> HIDE DEF n
      <4>1. CASE at0 + 1 <= n
        <5>1. Len(b) = n - (at0 + 1) + 1
          BY <3>3, <4>1
        <5> QED
          BY <2>2, <5>1
      <4>2. CASE ~(at0 + 1 <= n)
        <5>1. Len(b) = 0
          BY <3>3, <4>2
        <5> QED
          BY <2>2, <4>2, <5>1
      <4> QED
        BY <4>1, <4>2
    <3>6. ASSUME NEW i \in 1..(n - at0) PROVE b[i] = s[at0 + i]
      <4>1. i \in 1..(n - (at0 + 1) + 1) /\ (at0 + 1) + i - 1 = at0 + i
        BY <2>2, <3>6
      <4> QED
        BY <3>4, <4>1
    <3> QED
      BY <3>2, <3>5, <3>6
  <2>11. w = a \o b
    BY DEF RemoveAt
  <2> HIDE DEF a, b
  <2>12. w \in Seq(S) /\ Len(w) = Len(a) + Len(b)
    BY <2>9, <2>10, <2>11, ConcatProperties
  <2>13. Len(w) = n - 1
    BY <2>2, <2>9, <2>10, <2>12
  <2>3. w \in Seq(S) /\ DOMAIN w = 1..(n - 1)
    BY <2>12, <2>13, LenProperties
  <2>4. \A i \in 1..(n - 1) : w[i] = IF i < at0 THEN s[i] ELSE s[i + 1]
    <3> SUFFICES ASSUME NEW i \in 1..(n - 1)
                 PROVE  w[i] = IF i < at0 THEN s[i] ELSE s[i + 1]
      OBVIOUS
    <3>1. CASE i < at0
      BY <2>2, <2>9, <2>10, <2>11, <3>1
    <3>2. CASE ~(i < at0)
      <4>1. i - (at0 - 1) \in 1..(n - at0) /\ at0 + (i - (at0 - 1)) = i + 1
        BY <2>2, <3>2
      <4>2. w[i] = b[i - (at0 - 1)]
        BY <2>2, <2>9, <2>10, <2>11, <3>2
      <4> QED
        BY <2>10, <3>2, <4>1, <4>2
    <3> QED
      BY <3>1, <3>2
  <2> HIDE DEF w
  <2>5. \A i, j \in 1..n : s[i] = s[j] => i = j
    BY <2>2 DEF IsInjective
  <2>6. ToSet(w) = ToSet(s) \ {l}
    <3>1. ASSUME NEW i \in 1..(n - 1) PROVE w[i] \in ToSet(s) \ {l}
      <4>1. i \in 1..n /\ i + 1 \in 1..n
        BY <2>2, <3>1
      <4>2. CASE i < at0
        BY <2>1, <2>2, <2>4, <2>5, <3>1, <4>1, <4>2 DEF ToSet
      <4>3. CASE ~(i < at0)
        <5>1. i + 1 # at0
          BY <2>2, <3>1, <4>3
        <5> QED
          BY <2>1, <2>2, <2>4, <2>5, <3>1, <4>1, <4>3, <5>1 DEF ToSet
      <4> QED
        BY <4>2, <4>3
    <3>2. ASSUME NEW j \in 1..n, s[j] # l PROVE s[j] \in ToSet(w)
      <4>1. CASE j < at0
        <5>1. j \in 1..(n - 1)
          BY <2>2, <3>2, <4>1
        <5> QED
          BY <2>3, <2>4, <4>1, <5>1 DEF ToSet
      <4>2. CASE at0 < j
        <5>1. j - 1 \in 1..(n - 1) /\ ~(j - 1 < at0) /\ (j - 1) + 1 = j
          BY <2>2, <3>2, <4>2
        <5>2. w[j - 1] = s[j]
          BY <2>4, <5>1
        <5> QED
          BY <2>3, <5>1, <5>2 DEF ToSet
      <4> QED
        BY <2>1, <2>2, <3>2, <4>1, <4>2
    <3> QED
      BY <2>2, <2>3, <3>1, <3>2 DEF ToSet
  <2>7. IsInjective(w)
    <3> SUFFICES ASSUME NEW i \in 1..(n - 1), NEW j \in 1..(n - 1), w[i] = w[j]
                 PROVE  i = j
      BY <2>3 DEF IsInjective
    <3>1. i \in 1..n /\ i + 1 \in 1..n /\ j \in 1..n /\ j + 1 \in 1..n
      BY <2>2
    <3>2. w[i] = IF i < at0 THEN s[i] ELSE s[i + 1]
      BY <2>4
    <3>3. w[j] = IF j < at0 THEN s[j] ELSE s[j + 1]
      BY <2>4
    <3> QED
      <4>1. CASE i < at0 /\ j < at0
        BY <2>5, <3>1, <3>2, <3>3, <4>1
      <4>2. CASE ~(i < at0) /\ ~(j < at0)
        <5>1. i + 1 = j + 1
          BY <2>5, <3>1, <3>2, <3>3, <4>2
        <5> QED
          BY <5>1
      <4>3. CASE i < at0 /\ ~(j < at0)
        <5>1. i = j + 1
          BY <2>5, <3>1, <3>2, <3>3, <4>3
        <5> QED
          BY <2>2, <4>3, <5>1
      <4>4. CASE ~(i < at0) /\ j < at0
        <5>1. i + 1 = j
          BY <2>5, <3>1, <3>2, <3>3, <4>4
        <5> QED
          BY <2>2, <4>4, <5>1
      <4> QED
        BY <4>1, <4>2, <4>3, <4>4
  <2> QED
    BY <2>3, <2>6, <2>7, <2>8
<1> QED
  BY <1>1, <1>2

\* Taking something out of a list leaves a list of the same things.
LEMMA WithoutTyped ==
    ASSUME NEW S, NEW s \in Seq(S), NEW l
    PROVE  Without(s, l) \in Seq(S)
<1>1. CASE l \notin ToSet(s)
  BY <1>1 DEF Without
<1>2. CASE l \in ToSet(s)
  <2> DEFINE at0 == CHOOSE i \in DOMAIN s : s[i] = l
             n == Len(s)
             a == SubSeq(s, 1, at0 - 1)
             b == SubSeq(s, at0 + 1, n)
  <2>1. at0 \in DOMAIN s
    BY <1>2 DEF ToSet
  <2>2. Without(s, l) = RemoveAt(s, at0)
    BY <1>2, Zenon DEF Without
  <2> HIDE DEF at0
  <2>3. n \in Nat /\ at0 \in 1..n /\ \A i \in 1..n : s[i] \in S
    BY <2>1
  <2>4. a \in Seq(S)
    <3>1. \A i \in 1..(at0 - 1) : s[i] \in S
      BY <2>3
    <3> QED
      BY <2>3, <3>1, SubSeqProperties
  <2>5. b \in Seq(S)
    <3>1. \A i \in (at0 + 1)..n : s[i] \in S
      BY <2>3
    <3> QED
      BY <2>3, <3>1, SubSeqProperties
  <2>6. RemoveAt(s, at0) = a \o b
    BY DEF RemoveAt
  <2> HIDE DEF a, b
  <2> QED
    BY <2>2, <2>4, <2>5, <2>6
<1> QED
  BY <1>1, <1>2

\* Something is put at the end of a list it was not in.
LEMMA AppendOk ==
    ASSUME NEW S, NEW s \in Seq(S), IsInjective(s), NEW l \in S, l \notin ToSet(s)
    PROVE  /\ Append(s, l) \in Seq(S)
           /\ ToSet(Append(s, l)) = ToSet(s) \cup {l}
           /\ IsInjective(Append(s, l))
<1> DEFINE w == Append(s, l)
           n == Len(s)
<1>1. /\ w \in Seq(S) /\ n \in Nat /\ DOMAIN s = 1..n /\ DOMAIN w = 1..(n + 1)
      /\ w[n + 1] = l /\ \A i \in 1..n : w[i] = s[i]
  OBVIOUS
<1>2. \A i \in 1..n : s[i] # l
  BY <1>1 DEF ToSet
<1> HIDE DEF w
<1>3. ToSet(w) = ToSet(s) \cup {l}
  <2>1. 1..(n + 1) = 1..n \cup {n + 1}
    BY <1>1
  <2> QED
    BY <1>1, <2>1 DEF ToSet
<1>4. IsInjective(w)
  <2> SUFFICES ASSUME NEW i \in 1..(n + 1), NEW j \in 1..(n + 1), w[i] = w[j]
               PROVE  i = j
    BY <1>1 DEF IsInjective
  <2>1. (i = n + 1 \/ i \in 1..n) /\ (j = n + 1 \/ j \in 1..n)
    BY <1>1
  <2> QED
    BY <1>1, <1>2, <2>1 DEF IsInjective
<1> QED
  BY <1>1, <1>3, <1>4 DEF w

\* The head of a list is taken off.
LEMMA TailOk ==
    ASSUME NEW S, NEW s \in Seq(S), s # <<>>
    PROVE  /\ Head(s) \in ToSet(s) /\ Head(s) \in S
           /\ Tail(s) \in Seq(S)
           /\ ToSet(s) = {Head(s)} \cup ToSet(Tail(s))
           /\ IsInjective(s) => IsInjective(Tail(s)) /\ Head(s) \notin ToSet(Tail(s))
<1> DEFINE n == Len(s)
           w == Tail(s)
<1>1. /\ n \in Nat /\ n >= 1 /\ DOMAIN s = 1..n /\ Head(s) = s[1]
      /\ w \in Seq(S) /\ DOMAIN w = 1..(n - 1) /\ \A i \in 1..(n - 1) : w[i] = s[i + 1]
  OBVIOUS
<1> HIDE DEF w
<1>2. Head(s) \in ToSet(s) /\ Head(s) \in S
  BY <1>1 DEF ToSet
<1>3. ToSet(s) = {Head(s)} \cup ToSet(w)
  <2>1. ASSUME NEW i \in 1..n PROVE s[i] \in {Head(s)} \cup ToSet(w)
    <3>1. CASE i = 1
      BY <1>1, <3>1
    <3>2. CASE i # 1
      <4>1. i - 1 \in 1..(n - 1) /\ (i - 1) + 1 = i
        BY <1>1, <3>2
      <4>2. w[i - 1] = s[i]
        BY <1>1, <4>1
      <4> QED
        BY <1>1, <4>1, <4>2 DEF ToSet
    <3> QED
      BY <3>1, <3>2
  <2>2. ASSUME NEW i \in 1..(n - 1) PROVE w[i] \in ToSet(s)
    <3>1. i + 1 \in 1..n
      BY <1>1
    <3> QED
      BY <1>1, <3>1 DEF ToSet
  <2> QED
    BY <1>1, <1>2, <2>1, <2>2 DEF ToSet
<1>4. ASSUME IsInjective(s) PROVE IsInjective(w) /\ Head(s) \notin ToSet(w)
  <2>1. \A i, j \in 1..n : s[i] = s[j] => i = j
    BY <1>1, <1>4 DEF IsInjective
  <2>2. \A i \in 1..(n - 1) : i + 1 \in 1..n /\ i + 1 # 1
    BY <1>1
  <2>3. IsInjective(w)
    <3> SUFFICES ASSUME NEW i \in 1..(n - 1), NEW j \in 1..(n - 1), w[i] = w[j]
                 PROVE  i = j
      BY <1>1 DEF IsInjective
    <3>1. i + 1 = j + 1
      BY <1>1, <2>1, <2>2
    <3> QED
      BY <3>1
  <2>4. Head(s) \notin ToSet(w)
    <3>1. 1 \in 1..n
      BY <1>1
    <3> QED
      BY <1>1, <2>1, <2>2, <3>1 DEF ToSet
  <2> QED
    BY <2>3, <2>4
<1> QED
  BY <1>1, <1>2, <1>3, <1>4 DEF w

\* The empty list and the lists of one element, by their sets.
LEMMA ShortLists ==
    ASSUME NEW S, NEW s \in Seq(S)
    PROVE  /\ ToSet(s) = {} <=> s = <<>>
           /\ ToSet(<<>>) = {} /\ IsInjective(<<>>)
           /\ \A l : ToSet(<<l>>) = {l} /\ IsInjective(<<l>>)
           /\ \A l : IsInjective(s) /\ ToSet(s) = {l} => s = <<l>>
<1> DEFINE n == Len(s)
<1>1. n \in Nat /\ DOMAIN s = 1..n
  OBVIOUS
<1>2. ToSet(<<>>) = {} /\ IsInjective(<<>>)
  BY DEF ToSet, IsInjective
<1>3. \A l : ToSet(<<l>>) = {l} /\ IsInjective(<<l>>)
  BY DEF ToSet, IsInjective
<1>4. ASSUME s # <<>> PROVE 1 \in 1..n /\ s[1] \in ToSet(s)
  BY <1>1, <1>4 DEF ToSet
<1>5. ASSUME NEW l, IsInjective(s), ToSet(s) = {l} PROVE s = <<l>>
  <2>1. s # <<>>
    BY <1>2, <1>5
  <2>2. 1 \in 1..n /\ s[1] = l
    BY <1>4, <1>5, <2>1
  <2>3. \A i \in 1..n : i = 1
    <3>1. \A i \in 1..n : s[i] = l
      BY <1>1, <1>5 DEF ToSet
    <3> QED
      BY <1>1, <1>5, <2>2, <3>1 DEF IsInjective
  <2>4. n = 1
    <3>1. n \in 1..n
      BY <1>1, <2>2
    <3> QED
      BY <2>3, <3>1
  <2> QED
    BY <2>2, <2>4
<1> QED
  BY <1>2, <1>3, <1>4, <1>5

\* A set of natural numbers has a least element: what takes the place of
\* induction here.
LEMMA LeastElement ==
    ASSUME NEW T \in SUBSET Nat, T # {}
    PROVE  \E k \in T : \A m \in T : k <= m
<1> DEFINE R == OpToRel(<, Nat)
<1>1. \E k \in T : \A m \in T : ~(<<m, k>> \in R)
  BY NatLessThanWellFounded, WFMin
<1>2. PICK k \in T : \A m \in T : ~(<<m, k>> \in R)
  BY <1>1
<1>3. \A m \in T : ~(m < k)
  BY <1>2 DEF OpToRel
<1> QED
  BY <1>3

\* A set of positions in a list has a last one.
LEMMA LastPosition ==
    ASSUME NEW n \in Nat, NEW S \in SUBSET (1..n), S # {}
    PROVE  Max(S) \in S /\ \A y \in S : Max(S) >= y
<1> DEFINE T == {k \in Nat : n - k \in S}
<1>1. T # {}
  <2>1. PICK y \in S : TRUE
    OBVIOUS
  <2>2. n - y \in Nat /\ n - (n - y) = y
    BY <2>1
  <2> QED
    BY <2>1, <2>2
<1>2. PICK k \in T : \A m \in T : k <= m
  BY <1>1, LeastElement
<1>3. ASSUME NEW y \in S PROVE n - k >= y
  <2>1. n - y \in Nat /\ n - (n - y) = y
    OBVIOUS
  <2>2. n - y \in T
    BY <2>1
  <2>3. k \in Nat /\ k <= n - y
    BY <1>2, <2>2
  <2> QED
    BY <2>1, <2>3
<1> QED
  BY <1>2, <1>3 DEF Max

\* A set of positions in a list has a first one.
LEMMA FirstPosition ==
    ASSUME NEW n \in Nat, NEW S \in SUBSET (1..n), S # {}
    PROVE  Min(S) \in S /\ \A y \in S : Min(S) <= y
<1>1. S \in SUBSET Nat
  OBVIOUS
<1>2. PICK k \in S : \A m \in S : k <= m
  BY <1>1, LeastElement
<1> QED
  BY <1>2 DEF Min

\* Induction up to n: a set that holds 0, and with each number the next one.
LEMMA UpTo ==
    ASSUME NEW n \in Nat, NEW T, 0 \in T, \A k \in 1..n : k - 1 \in T => k \in T
    PROVE  \A k \in 0..n : k \in T
<1> DEFINE U == {k \in 0..n : k \notin T}
<1> SUFFICES ASSUME U # {} PROVE FALSE
  OBVIOUS
<1>1. U \in SUBSET Nat
  OBVIOUS
<1>2. PICK m \in U : \A j \in U : m <= j
  <2> HIDE DEF U
  <2> QED
    BY <1>1, LeastElement
<1>3. m \in 1..n /\ m \notin T /\ m - 1 \in 0..n /\ ~(m <= m - 1)
  OBVIOUS
<1>4. m - 1 \in T
  BY <1>2, <1>3
<1> QED
  BY <1>3, <1>4

\* f is the function on 0..n with value b at 0 whose k-th value step[k] makes
\* of the one before.
Follows(f, n, S, b, step) ==
    f \in [0..n -> S] /\ f[0] = b /\ \A k \in 1..n : f[k] = step[k][f[k - 1]]

\* There is such a function.
LEMMA StepByStep ==
    ASSUME NEW S, NEW n \in Nat, NEW b \in S, NEW step \in [1..n -> [S -> S]]
    PROVE  \E f : Follows(f, n, S, b, step)
<1> DEFINE Steps(f, m) == f[0] = b /\ \A k \in 1..m : f[k] = step[k][f[k - 1]]
           T == {m \in 0..n : \E f \in [0..m -> S] : Steps(f, m)}
<1>1. 0 \in T
  <2> DEFINE f == [k \in 0..0 |-> b]
  <2>1. f \in [0..0 -> S] /\ Steps(f, 0)
    OBVIOUS
  <2> HIDE DEF f
  <2> QED
    BY <2>1
<1>2. ASSUME NEW m \in 1..n, m - 1 \in T PROVE m \in T
  <2>1. PICK g \in [0..(m - 1) -> S] : Steps(g, m - 1)
    BY <1>2
  <2> DEFINE f == [k \in 0..m |-> IF k = m THEN step[m][g[m - 1]] ELSE g[k]]
  <2>2. step[m][g[m - 1]] \in S
    BY <2>1
  <2>3. f \in [0..m -> S]
    BY <2>1, <2>2
  <2>4. f[0] = b
    BY <2>1
  <2>5. ASSUME NEW k \in 1..m PROVE f[k] = step[k][f[k - 1]]
    <3>1. CASE k = m
      BY <3>1
    <3>2. CASE k # m
      <4>1. k \in 1..(m - 1) /\ k - 1 # m /\ k \in 0..m /\ k - 1 \in 0..m
        BY <3>2
      <4>2. f[k] = g[k] /\ f[k - 1] = g[k - 1]
        BY <3>2, <4>1
      <4> QED
        BY <2>1, <4>1, <4>2
    <3> QED
      BY <3>1, <3>2
  <2> HIDE DEF f
  <2>6. Steps(f, m)
    BY <2>4, <2>5
  <2> HIDE DEF Steps
  <2>7. \E h \in [0..m -> S] : Steps(h, m)
    BY <2>3, <2>6
  <2>8. m \in 0..n
    OBVIOUS
  <2> QED
    BY <2>7, <2>8
<1>3. n \in T
  <2>1. n \in 0..n
    OBVIOUS
  <2> HIDE DEF T
  <2>2. \A k \in 0..n : k \in T
    BY <1>1, <1>2, UpTo
  <2> QED
    BY <2>1, <2>2
<1>4. PICK f \in [0..n -> S] : Steps(f, n)
  BY <1>3
<1>5. Follows(f, n, S, b, step)
  BY <1>4 DEF Follows
<1> QED
  BY <1>5

\* The dimensions of an array have a largest.
LEMMA LargestDim ==
    ASSUME NEW d \in Seq(Nat \ {0}), NEW c \in Nat
    PROVE  /\ Max({c} \cup ToSet(d)) \in Nat
           /\ \A i \in 1..Len(d) : d[i] <= Max({c} \cup ToSet(d))
           /\ c <= Max({c} \cup ToSet(d))
<1> DEFINE n == Len(d)
           U == {c} \cup ToSet(d)
           T == {k \in 0..n : \E m \in U : m >= c /\ \A i \in 1..k : d[i] <= m}
<1>1. n \in Nat /\ (\A i \in 1..n : d[i] \in Nat \ {0} /\ d[i] \in U) /\ c \in U
  BY DEF ToSet
<1>2. \A x \in U : x \in Nat /\ (x = c \/ \E i \in 1..n : x = d[i])
  BY <1>1 DEF ToSet
<1> HIDE DEF U, n
<1>3. 0 \in T
  BY <1>1
<1>4. ASSUME NEW k \in 1..n, k - 1 \in T PROVE k \in T
  <2>1. PICK m \in U : m >= c /\ \A i \in 1..(k - 1) : d[i] <= m
    BY <1>4
  <2>2. k \in 0..n /\ d[k] \in U /\ d[k] \in Nat /\ m \in Nat /\ c \in Nat
    BY <1>1, <1>2
  <2>3. \A i \in 1..k : d[i] \in Nat /\ (i = k \/ i \in 1..(k - 1))
    BY <1>1
  <2>4. CASE d[k] <= m
    BY <2>1, <2>2, <2>3, <2>4
  <2>5. CASE ~(d[k] <= m)
    <3>1. d[k] >= c /\ \A i \in 1..k : d[i] <= d[k]
      BY <2>1, <2>2, <2>3, <2>5
    <3> QED
      BY <2>2, <3>1
  <2> QED
    BY <2>4, <2>5
<1>5. n \in T
  <2> HIDE DEF T
  <2>1. \A k \in 0..n : k \in T
    BY <1>1, <1>3, <1>4, UpTo
  <2> QED
    BY <1>1, <2>1
<1>6. PICK m \in U : m >= c /\ \A i \in 1..n : d[i] <= m
  BY <1>5
<1>7. \A y \in U : m >= y
  BY <1>1, <1>2, <1>6
<1>8. Max(U) \in U /\ \A y \in U : Max(U) >= y
  BY <1>7 DEF Max
<1> QED
  BY <1>1, <1>2, <1>8 DEF U, n

-----------------------------------------------------------------------------
(* Lists put one after the other *)

\* What FlattenSeq computes on the way.
Flattens(g, ss, S) ==
    /\ g \in [0..Len(ss) -> Seq(S)] /\ g[0] = <<>>
    /\ \A k \in 1..Len(ss) : g[k] = g[k - 1] \o ss[k]

LEMMA FlatSteps ==
    ASSUME NEW S, NEW ss \in Seq(Seq(S))
    PROVE  /\ \E g : Flattens(g, ss, S)
           /\ \A g : Flattens(g, ss, S) => FlattenSeq(ss) = g[Len(ss)]
<1> DEFINE n == Len(ss)
           B == Seq(S)
           step == [k \in 1..n |-> [x \in B |-> x \o ss[k]]]
           Eq(f) == f = [i \in 1..n |-> IF i = 1 THEN ss[1] ELSE f[i - 1] \o ss[i]]
<1>1. n \in Nat /\ <<>> \in B /\ \A k \in 1..n : ss[k] \in B
  OBVIOUS
<1>2. \A x, y \in B : x \o y \in B
  OBVIOUS
<1>3. step \in [1..n -> [B -> B]]
  BY <1>1, <1>2
<1>4. \E g : Flattens(g, ss, S)
  <2>1. PICK g : Follows(g, n, B, <<>>, step)
    <3> HIDE DEF step, n, B
    <3> QED
      BY <1>1, <1>3, StepByStep
  <2>2. g \in [0..n -> B] /\ g[0] = <<>> /\ \A k \in 1..n : g[k] = step[k][g[k - 1]]
    <3> HIDE DEF step, n, B
    <3> QED
      BY <2>1 DEF Follows
  <2>3. ASSUME NEW k \in 1..n PROVE g[k] = g[k - 1] \o ss[k]
    <3>1. k - 1 \in 0..n
      BY <1>1
    <3>2. g[k - 1] \in B
      BY <2>2, <3>1
    <3>3. step[k] = [x \in B |-> x \o ss[k]]
      OBVIOUS
    <3> HIDE DEF step
    <3> QED
      BY <2>2, <3>2, <3>3
  <2> QED
    BY <2>2, <2>3 DEF Flattens
<1>5. ASSUME NEW g, Flattens(g, ss, S) PROVE FlattenSeq(ss) = g[n]
  <2>1. g \in [0..n -> B] /\ g[0] = <<>> /\ \A k \in 1..n : g[k] = g[k - 1] \o ss[k]
    BY <1>5 DEF Flattens
  <2>2. CASE n = 0
    BY <2>1, <2>2 DEF FlattenSeq
  <2>3. CASE n # 0
    <3> DEFINE h == [k \in 1..n |-> g[k]]
    <3>1. g[1] = ss[1]
      <4>1. 1 \in 1..n /\ ss[1] \in B
        BY <1>1, <2>3
      <4>2. g[1] = g[1 - 1] \o ss[1]
        BY <2>1, <4>1
      <4>3. 1 - 1 = 0
        OBVIOUS
      <4>4. <<>> \o ss[1] = ss[1]
        BY <4>1
      <4> QED
        BY <2>1, <4>2, <4>3, <4>4
    <3>2. ASSUME NEW k \in 1..n, k # 1 PROVE h[k] = h[k - 1] \o ss[k]
      <4>1. k - 1 \in 1..n
        BY <1>1, <3>2
      <4> QED
        BY <2>1, <4>1
    <3>3. \E f : Eq(f)
      <4>1. Eq(h)
        BY <3>1, <3>2
      <4> HIDE DEF h, Eq
      <4> QED
        BY <4>1
    <3> DEFINE f == CHOOSE f : Eq(f)
    <3>4. Eq(f)
      <4> HIDE DEF Eq
      <4> QED
        BY <3>3
    <3> HIDE DEF f
    <3> DEFINE T == {k \in 0..n : k # 0 => f[k] = g[k]}
    <3>5. ASSUME NEW k \in 1..n, k - 1 \in T PROVE k \in T
      <4>1. f[k] = IF k = 1 THEN ss[1] ELSE f[k - 1] \o ss[k]
        BY <3>4
      <4>2. CASE k = 1
        BY <3>1, <4>1, <4>2
      <4>3. CASE k # 1
        <5>1. k - 1 # 0
          BY <4>3
        <5>2. f[k - 1] = g[k - 1]
          BY <3>5, <5>1
        <5>3. f[k] = g[k]
          BY <2>1, <4>1, <4>3, <5>2
        <5> QED
          BY <1>1, <5>3
      <4> QED
        BY <4>2, <4>3
    <3>6. n \in T
      <4>1. 0 \in T
        BY <1>1
      <4> HIDE DEF T, n
      <4>2. \A k \in 0..n : k \in T
        BY <1>1, <3>5, <4>1, UpTo
      <4> QED
        BY <1>1, <4>2
    <3>7. FlattenSeq(ss) = f[n]
      BY <2>3 DEF FlattenSeq, f
    <3> QED
      BY <2>3, <3>6, <3>7
  <2> QED
    BY <2>2, <2>3
<1> QED
  BY <1>4, <1>5

\* One more at the end.
LEMMA FlatAppend ==
    ASSUME NEW S, NEW ss \in Seq(Seq(S)), NEW t \in Seq(S)
    PROVE  /\ FlattenSeq(ss) \in Seq(S)
           /\ FlattenSeq(Append(ss, t)) = FlattenSeq(ss) \o t
           /\ ss = <<>> => FlattenSeq(ss) = <<>>
<1> DEFINE n == Len(ss)
           tt == Append(ss, t)
<1>1. n \in Nat /\ tt \in Seq(Seq(S)) /\ Len(tt) = n + 1
  OBVIOUS
<1>2. (\A k \in 1..n : tt[k] = ss[k]) /\ tt[n + 1] = t
  OBVIOUS
<1> HIDE DEF tt
<1>3. PICK g : Flattens(g, tt, S)
  BY <1>1, FlatSteps
<1>4. /\ g \in [0..(n + 1) -> Seq(S)] /\ g[0] = <<>>
      /\ \A k \in 1..(n + 1) : g[k] = g[k - 1] \o tt[k]
  BY <1>1, <1>3 DEF Flattens
<1> DEFINE h == [k \in 0..n |-> g[k]]
<1>5. Flattens(h, ss, S)
  <2>1. h \in [0..n -> Seq(S)] /\ h[0] = <<>>
    BY <1>1, <1>4
  <2>2. ASSUME NEW k \in 1..n PROVE h[k] = h[k - 1] \o ss[k]
    <3>1. k \in 1..(n + 1) /\ k \in 0..n /\ k - 1 \in 0..n
      BY <1>1
    <3>2. h[k] = g[k] /\ h[k - 1] = g[k - 1]
      BY <3>1
    <3>3. g[k] = g[k - 1] \o tt[k] /\ tt[k] = ss[k]
      BY <1>2, <1>4, <3>1
    <3> QED
      BY <3>2, <3>3
  <2> QED
    BY <2>1, <2>2 DEF Flattens
<1>6. FlattenSeq(ss) = h[n] /\ h[n] = g[n] /\ g[n] \in Seq(S)
  <2>1. h[n] = g[n] /\ g[n] \in Seq(S)
    BY <1>1, <1>4
  <2> HIDE DEF h
  <2> QED
    BY <1>5, <2>1, FlatSteps
<1>7. FlattenSeq(tt) = g[n + 1]
  BY <1>1, <1>3, FlatSteps
<1>8. g[n + 1] = g[n] \o t
  <2>1. n + 1 \in 1..(n + 1) /\ (n + 1) - 1 = n
    BY <1>1
  <2>2. g[n + 1] = g[(n + 1) - 1] \o tt[n + 1]
    BY <1>4, <2>1
  <2> QED
    BY <1>2, <2>1, <2>2
<1>9. ss = <<>> => FlattenSeq(ss) = <<>>
  BY DEF FlattenSeq
<1> QED
  BY <1>6, <1>7, <1>8, <1>9 DEF tt

\* The first k of the lists put one after the other.
FlatTo(ss, k) == FlattenSeq(SubSeq(ss, 1, k))

LEMMA FlatToOk ==
    ASSUME NEW S, NEW ss \in Seq(Seq(S))
    PROVE  /\ FlatTo(ss, 0) = <<>> /\ FlatTo(ss, Len(ss)) = FlattenSeq(ss)
           /\ \A k \in 0..Len(ss) : FlatTo(ss, k) \in Seq(S)
           /\ \A k \in 1..Len(ss) : ss[k] \in Seq(S) /\ FlatTo(ss, k) = FlatTo(ss, k - 1) \o ss[k]
<1> DEFINE n == Len(ss)
           first(k) == SubSeq(ss, 1, k)
<1>1. n \in Nat /\ \A k \in 1..n : ss[k] \in Seq(S)
  OBVIOUS
<1>2. first(0) = <<>> /\ first(n) = ss
  OBVIOUS
<1>3. \A k \in 0..n : first(k) \in Seq(Seq(S))
  OBVIOUS
<1>4. \A k \in 1..n : first(k) = Append(first(k - 1), ss[k])
  OBVIOUS
<1>5. <<>> \in Seq(S) /\ <<>> \in Seq(Seq(S)) /\ 0 \in 0..n
  OBVIOUS
<1> HIDE DEF first, n
<1>6. FlattenSeq(first(0)) = <<>>
  BY <1>2, <1>5, FlatAppend
<1>7. \A k \in 0..n : FlattenSeq(first(k)) \in Seq(S)
  BY <1>3, <1>5, FlatAppend
<1>8. ASSUME NEW k \in 1..n PROVE FlattenSeq(first(k)) = FlattenSeq(first(k - 1)) \o ss[k]
  <2>1. k - 1 \in 0..n /\ ss[k] \in Seq(S)
    BY <1>1
  <2> QED
    BY <1>3, <1>4, <2>1, FlatAppend
<1> QED
  BY <1>1, <1>2, <1>6, <1>7, <1>8 DEF FlatTo, first, n

LEMMA FlatConcat ==
    ASSUME NEW S, NEW a \in Seq(Seq(S)), NEW b \in Seq(Seq(S))
    PROVE  FlattenSeq(a \o b) = FlattenSeq(a) \o FlattenSeq(b)
<1> DEFINE n == Len(b)
           both(k) == a \o SubSeq(b, 1, k)
           T == {k \in 0..n : FlattenSeq(both(k)) = FlattenSeq(a) \o FlatTo(b, k)}
<1>1. n \in Nat /\ both(0) = a /\ both(n) = a \o b
  OBVIOUS
<1>2. \A k \in 0..n : both(k) \in Seq(Seq(S))
  OBVIOUS
<1>3. ASSUME NEW k \in 1..n PROVE both(k) = Append(both(k - 1), b[k])
  <2> DEFINE x == SubSeq(b, 1, k - 1)
  <2>1. SubSeq(b, 1, k) = Append(x, b[k]) /\ x \in Seq(Seq(S)) /\ b[k] \in Seq(S)
    OBVIOUS
  <2> HIDE DEF x
  <2>2. a \o Append(x, b[k]) = Append(a \o x, b[k])
    BY <2>1
  <2> QED
    BY <2>1, <2>2 DEF x
<1>4. FlattenSeq(a) \in Seq(S)
  BY FlatAppend
<1> HIDE DEF both
<1>5. 0 \in T
  <2>1. FlattenSeq(a) \o <<>> = FlattenSeq(a)
    BY <1>4
  <2>2. FlatTo(b, 0) = <<>>
    BY FlatToOk
  <2> HIDE DEF n
  <2>3. 0 \in 0..n
    BY <1>1
  <2> QED
    BY <1>1, <2>1, <2>2, <2>3
<1>6. ASSUME NEW k \in 1..n, k - 1 \in T PROVE k \in T
  <2>0. k - 1 \in 0..n /\ k \in 0..n /\ k \in 1..Len(b) /\ k - 1 \in 0..Len(b)
    BY <1>1
  <2>1. b[k] \in Seq(S) /\ FlatTo(b, k - 1) \in Seq(S)
    BY <2>0, FlatToOk
  <2>2. FlattenSeq(both(k)) = FlattenSeq(both(k - 1)) \o b[k]
    BY <1>2, <1>3, <2>0, <2>1, FlatAppend
  <2>3. FlatTo(b, k) = FlatTo(b, k - 1) \o b[k]
    BY <2>0, FlatToOk
  <2>4. (FlattenSeq(a) \o FlatTo(b, k - 1)) \o b[k] = FlattenSeq(a) \o (FlatTo(b, k - 1) \o b[k])
    <3> DEFINE x == FlattenSeq(a)
               y == FlatTo(b, k - 1)
               z == b[k]
    <3>1. x \in Seq(S) /\ y \in Seq(S) /\ z \in Seq(S)
      BY <1>4, <2>1
    <3> HIDE DEF x, y, z
    <3>2. (x \o y) \o z = x \o (y \o z)
      BY <3>1
    <3> QED
      BY <3>2 DEF x, y, z
  <2>5. FlattenSeq(both(k)) = FlattenSeq(a) \o FlatTo(b, k)
    BY <1>6, <2>2, <2>3, <2>4
  <2> QED
    BY <2>0, <2>5
<1>7. n \in T
  <2> HIDE DEF T, n
  <2>1. \A k \in 0..n : k \in T
    BY <1>1, <1>5, <1>6, UpTo
  <2> QED
    BY <1>1, <2>1
<1> QED
  BY <1>1, <1>7, FlatToOk

\* The elements of a list but the first p, one by one.
LEMMA FlatRest ==
    ASSUME NEW S, NEW t \in Seq(S), NEW p \in 0..Len(t), NEW m,
           m = [i \in 1..Len(t) |-> IF i <= p THEN <<>> ELSE <<t[i]>>]
    PROVE  m \in Seq(Seq(S)) /\ FlattenSeq(m) = SubSeq(t, p + 1, Len(t))
<1> DEFINE n == Len(t)
           T == {k \in 0..n : FlatTo(m, k) = SubSeq(t, p + 1, k)}
<1>1. n \in Nat /\ (\A i \in 1..n : t[i] \in S) /\ p \in 0..n
  OBVIOUS
<1>2. m \in Seq(Seq(S)) /\ Len(m) = n
  <2>1. \A i \in 1..n : (IF i <= p THEN <<>> ELSE <<t[i]>>) \in Seq(S)
    BY <1>1
  <2>2. m \in [1..n -> Seq(S)]
    BY <2>1
  <2> QED
    BY <1>1, <2>2
<1>3. ASSUME NEW k \in 1..n PROVE FlatTo(m, k) = FlatTo(m, k - 1) \o (IF k <= p THEN <<>> ELSE <<t[k]>>)
  <2>1. m[k] = IF k <= p THEN <<>> ELSE <<t[k]>>
    OBVIOUS
  <2>2. k \in 1..Len(m)
    BY <1>2
  <2>3. FlatTo(m, k) = FlatTo(m, k - 1) \o m[k]
    BY <1>2, <2>2, FlatToOk
  <2> QED
    BY <2>1, <2>3
<1>4. \A k \in 0..n : FlatTo(m, k) \in Seq(S)
  BY <1>2, FlatToOk
<1>5. 0 \in T
  <2>1. FlatTo(m, 0) = <<>>
    BY <1>2, FlatToOk
  <2>2. SubSeq(t, p + 1, 0) = <<>> /\ 0 \in 0..n
    BY <1>1
  <2> QED
    BY <2>1, <2>2
<1>6. ASSUME NEW k \in 1..n, k - 1 \in T PROVE k \in T
  <2> DEFINE x == FlatTo(m, k - 1)
  <2>1. x \in Seq(S) /\ x = SubSeq(t, p + 1, k - 1)
    BY <1>1, <1>4, <1>6
  <2>2. FlatTo(m, k) = x \o (IF k <= p THEN <<>> ELSE <<t[k]>>)
    BY <1>3
  <2> HIDE DEF x
  <2>3. ASSUME k <= p PROVE FlatTo(m, k) = SubSeq(t, p + 1, k)
    <3>1. x \o <<>> = x
      BY <2>1
    <3>2. SubSeq(t, p + 1, k - 1) = <<>> /\ SubSeq(t, p + 1, k) = <<>>
      BY <1>1, <2>3
    <3> QED
      BY <2>1, <2>2, <2>3, <3>1, <3>2
  <2>4. ASSUME ~(k <= p) PROVE FlatTo(m, k) = SubSeq(t, p + 1, k)
    <3>1. SubSeq(t, p + 1, k) = SubSeq(t, p + 1, k - 1) \o <<t[k]>>
      BY <1>1, <2>4
    <3> QED
      BY <2>1, <2>2, <2>4, <3>1
  <2>5. FlatTo(m, k) = SubSeq(t, p + 1, k)
    BY <2>3, <2>4
  <2> QED
    BY <1>1, <2>5
<1>7. n \in T
  <2> HIDE DEF T, n
  <2>1. \A k \in 0..n : k \in T
    BY <1>1, <1>5, <1>6, UpTo
  <2> QED
    BY <1>1, <2>1
<1>8. FlattenSeq(m) = FlatTo(m, n)
  BY <1>2, FlatToOk
<1> QED
  BY <1>2, <1>7, <1>8

-----------------------------------------------------------------------------
(* Lists: their parts *)

\* Lists of none, one or two elements.
LEMMA OneOrTwo ==
    ASSUME NEW S, NEW a \in S, NEW b \in S
    PROVE  <<>> \in Seq(S) /\ <<a>> \in Seq(S) /\ <<a, b>> \in Seq(S)
OBVIOUS

\* Two lists one after the other.
LEMMA JoinOk ==
    ASSUME NEW S, NEW a \in Seq(S), NEW b \in Seq(S)
    PROVE  /\ a \o b \in Seq(S) /\ Len(a \o b) = Len(a) + Len(b)
           /\ \A i \in 1..Len(a) : (a \o b)[i] = a[i]
           /\ \A i \in 1..Len(b) : (a \o b)[Len(a) + i] = b[i]
OBVIOUS

\* One more element after two lists.
LEMMA AppendJoin ==
    ASSUME NEW S, NEW a \in Seq(S), NEW b \in Seq(S), NEW c \in S
    PROVE  Append(a \o b, c) = a \o (b \o <<c>>)
BY SMTT(40)

\* A list but its last element.
LEMMA FrontJoin ==
    ASSUME NEW S, NEW a \in Seq(S), NEW c \in S
    PROVE  Front(a \o <<c>>) = a /\ a \o <<c>> # <<>> /\ a \o <<c>> = Append(a, c)
<1>1. a \o <<c>> = Append(a, c)
  OBVIOUS
<1>2. Append(a, c) \in Seq(S) /\ Len(Append(a, c)) = Len(a) + 1 /\ Append(a, c) # <<>>
  OBVIOUS
<1>3. SubSeq(Append(a, c), 1, Len(a)) = a
  OBVIOUS
<1>4. (Len(a) + 1) - 1 = Len(a)
  OBVIOUS
<1> QED
  BY <1>1, <1>2, <1>3, <1>4 DEF Front

\* Three lists one after the other.
LEMMA JoinJoin ==
    ASSUME NEW S, NEW a \in Seq(S), NEW b \in Seq(S), NEW c \in Seq(S)
    PROVE  (a \o b) \o c = a \o (b \o c) /\ a \o <<>> = a /\ <<>> \o a = a
OBVIOUS

\* A list is what is before its last element, and that.
LEMMA FrontLast ==
    ASSUME NEW S, NEW a \in Seq(S), a # <<>>
    PROVE  LET m == Len(a)
               f == SubSeq(a, 1, m - 1)
           IN /\ m \in Nat \ {0} /\ f \in Seq(S) /\ a[m] \in S /\ a = Append(f, a[m])
              /\ Len(f) = m - 1 /\ \A i \in 1..(m - 1) : f[i] = a[i]
<1> DEFINE m == Len(a)
           f == SubSeq(a, 1, m - 1)
<1>1. m \in Nat \ {0} /\ a[m] \in S
  OBVIOUS
<1>2. f \in Seq(S) /\ Len(f) = m - 1 /\ \A i \in 1..(m - 1) : f[i] = a[i]
  <2>1. f \in Seq(S) /\ Len(f) = m - 1
    <3> DEFINE k == m - 1
    <3>1. k \in 0..Len(a)
      BY <1>1
    <3> HIDE DEF m, k
    <3>2. SubSeq(a, 1, k) \in Seq(S) /\ Len(SubSeq(a, 1, k)) = k
      BY <3>1
    <3> QED
      BY <3>2 DEF k
  <2>2. \A i \in 1..(m - 1) : f[i] = a[i]
    BY <1>1
  <2> QED
    BY <2>1, <2>2
<1>3. a = Append(f, a[m])
  <2> HIDE DEF f
  <2> DEFINE w == Append(f, a[m])
  <2>1. w \in Seq(S) /\ Len(w) = m /\ w[m] = a[m] /\ \A i \in 1..(m - 1) : w[i] = a[i]
    BY <1>1, <1>2
  <2>2. \A i \in 1..m : i = m \/ i \in 1..(m - 1)
    BY <1>1
  <2> HIDE DEF w
  <2>3. \A i \in 1..m : w[i] = a[i]
    BY <2>1, <2>2
  <2>4. w = a
    BY <2>1, <2>3
  <2> QED
    BY <2>4 DEF w
<1> QED
  BY <1>1, <1>2, <1>3

\* The list t is a and then b.
Joined(t, a, b, S) ==
    /\ t \in Seq(S) /\ Len(t) = Len(a) + Len(b)
    /\ \A i \in 1..Len(a) : t[i] = a[i]
    /\ \A i \in 1..Len(b) : t[Len(a) + i] = b[i]

LEMMA JoinedOk ==
    ASSUME NEW S, NEW a \in Seq(S), NEW b \in Seq(S)
    PROVE  Joined(a \o b, a, b, S)
BY JoinOk DEF Joined
=============================================================================
