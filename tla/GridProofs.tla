----------------------------- MODULE GridProofs -----------------------------
(***************************************************************************)
(* Proofs about arrays of any number of axes: Grids, and with it Alter and   *)
(* Shapes, for any shapes.                                                   *)
(*                                                                         *)
(* Grids: elements are stored in the order of their subscripts compared from  *)
(* the last axis to the first, and dat1Index2Coords is the inverse of the     *)
(* position.  The functions are recursive; what they compute is proved by     *)
(* induction on sets of numbers (lemma UpTo), and that they exist, by         *)
(* building them step by step.                                               *)
(*                                                                         *)
(* Alter: a cell that holds components stops the loop that deletes.  Arrays   *)
(* that differ on the last axis only number the elements they share alike,    *)
(* so what is kept of the storage is what is kept of the array.               *)
(*                                                                         *)
(* Shapes: every locator refers to a box of the array, of which it knows the  *)
(* corners.  HDF5 selects the same box, in the same order; a slice is a box   *)
(* in a box; and a box without gaps is a row of elements one after the other, *)
(* from its first corner to its last.                                         *)
(***************************************************************************)
EXTENDS Alter, Shapes, ListsProofs, FiniteSetTheorems

-----------------------------------------------------------------------------
(* Grids *)

\* The numbers of elements in the first axes, each from the one before.
LEMMA StridesOk ==
    ASSUME NEW d \in Seq(Nat \ {0})
    PROVE  /\ Strides(d) \in [0..Len(d) -> Nat \ {0}]
           /\ Strides(d)[0] = 1
           /\ \A k \in 1..Len(d) : Strides(d)[k] = Strides(d)[k - 1] * d[k]
<1> DEFINE n == Len(d)
           S == Nat \ {0}
           step == [k \in 1..n |-> [x \in S |-> x * d[k]]]
           Eq(f) == f = [k \in 0..n |-> IF k = 0 THEN 1 ELSE f[k - 1] * d[k]]
<1>1. n \in Nat /\ \A k \in 1..n : d[k] \in S
  OBVIOUS
<1>2. \A x, y \in S : x * y \in S
  OBVIOUS
<1>3. step \in [1..n -> [S -> S]]
  BY <1>1, <1>2
<1>4. PICK g : Follows(g, n, S, 1, step)
  <2>1. 1 \in S /\ n \in Nat
    OBVIOUS
  <2> HIDE DEF step, n, S
  <2> QED
    BY <1>3, <2>1, StepByStep
<1>5. g \in [0..n -> S] /\ g[0] = 1 /\ \A k \in 1..n : g[k] = step[k][g[k - 1]]
  <2> HIDE DEF step, n, S
  <2> QED
    BY <1>4 DEF Follows
<1>6. ASSUME NEW k \in 1..n PROVE g[k] = g[k - 1] * d[k]
  <2>1. k - 1 \in 0..n
    BY <1>1
  <2>2. g[k - 1] \in S
    BY <1>5, <2>1
  <2>3. step[k] = [x \in S |-> x * d[k]]
    OBVIOUS
  <2> HIDE DEF step
  <2> QED
    BY <1>5, <2>3, <2>2
<1> HIDE DEF step
<1>7. Eq(g)
  BY <1>1, <1>5, <1>6
<1>8. Strides(d) = CHOOSE f : Eq(f)
  BY DEF Strides
<1>9. Eq(Strides(d))
  <2> HIDE DEF Eq
  <2> QED
    BY <1>7, <1>8
<1> DEFINE s == Strides(d)
           T == {k \in 0..n : s[k] = g[k]}
<1> HIDE DEF S
<1>10. DOMAIN s = 0..n /\ s[0] = 1 /\ \A k \in 1..n : s[k] = s[k - 1] * d[k]
  <2>1. s = [k \in 0..n |-> IF k = 0 THEN 1 ELSE s[k - 1] * d[k]]
    BY <1>9
  <2> HIDE DEF s
  <2>2. DOMAIN s = 0..n /\ \A k \in 0..n : s[k] = IF k = 0 THEN 1 ELSE s[k - 1] * d[k]
    BY <2>1
  <2>3. 0 \in 0..n /\ \A k \in 1..n : k \in 0..n /\ k # 0
    BY <1>1
  <2> QED
    BY <2>2, <2>3
<1> HIDE DEF s
<1>11. \A k \in 0..n : k \in T
  <2>1. 0 \in T
    BY <1>1, <1>5, <1>10
  <2>2. ASSUME NEW k \in 1..n, k - 1 \in T PROVE k \in T
    BY <1>6, <1>10, <2>2
  <2> HIDE DEF T
  <2> QED
    BY <1>1, <2>1, <2>2, UpTo
<1>12. \A k \in 0..n : s[k] \in S
  BY <1>5, <1>11
<1>13. s \in [0..n -> S]
  BY <1>9, <1>10, <1>12 DEF s
<1> QED
  BY <1>10, <1>13 DEF s, S

\* The places in the first axes, each from the one before.
LEMMA PlacesOk ==
    ASSUME NEW d \in Seq(Nat \ {0}), NEW s \in [1..Len(d) -> Int]
    PROVE  /\ Places(d, s) \in [0..Len(d) -> Int]
           /\ Places(d, s)[0] = 1
           /\ \A k \in 1..Len(d) :
                 Places(d, s)[k] = Places(d, s)[k - 1] + (s[k] - 1) * Strides(d)[k - 1]
<1> DEFINE n == Len(d)
           p == Strides(d)
           step == [k \in 1..n |-> [x \in Int |-> x + (s[k] - 1) * p[k - 1]]]
           Eq(f) == f = [k \in 0..n |-> IF k = 0 THEN 1 ELSE f[k - 1] + (s[k] - 1) * p[k - 1]]
<1>1. n \in Nat /\ \A k \in 1..n : s[k] \in Int /\ k - 1 \in 0..n /\ k \in 0..n /\ k # 0
  OBVIOUS
<1>2. p \in [0..n -> Nat \ {0}]
  BY StridesOk
<1> HIDE DEF n, p
<1>3. ASSUME NEW k \in 1..n, NEW x \in Int PROVE x + (s[k] - 1) * p[k - 1] \in Int
  <2>1. s[k] \in Int /\ p[k - 1] \in Int
    BY <1>1, <1>2
  <2>2. \A a, b, c \in Int : a + (b - 1) * c \in Int
    OBVIOUS
  <2> QED
    BY <2>1, <2>2
<1>4. step \in [1..n -> [Int -> Int]]
  BY <1>3
<1>5. PICK g : Follows(g, n, Int, 1, step)
  <2>1. 1 \in Int
    OBVIOUS
  <2> HIDE DEF step
  <2> QED
    BY <1>1, <1>4, <2>1, StepByStep
<1>6. g \in [0..n -> Int] /\ g[0] = 1 /\ \A k \in 1..n : g[k] = step[k][g[k - 1]]
  <2> HIDE DEF step
  <2> QED
    BY <1>5 DEF Follows
<1>7. ASSUME NEW k \in 1..n PROVE g[k] = g[k - 1] + (s[k] - 1) * p[k - 1]
  <2>1. g[k - 1] \in Int
    BY <1>1, <1>6
  <2>2. step[k] = [x \in Int |-> x + (s[k] - 1) * p[k - 1]]
    OBVIOUS
  <2> HIDE DEF step
  <2> QED
    BY <1>6, <2>1, <2>2
<1> HIDE DEF step
<1>8. Eq(g)
  BY <1>1, <1>6, <1>7
<1>9. Places(d, s) = CHOOSE f : Eq(f)
  BY DEF Places, n, p
<1>10. Eq(Places(d, s))
  <2> HIDE DEF Eq
  <2> QED
    BY <1>8, <1>9
<1> DEFINE q == Places(d, s)
<1>11. q = [k \in 0..n |-> IF k = 0 THEN 1 ELSE q[k - 1] + (s[k] - 1) * p[k - 1]]
  BY <1>10
<1> HIDE DEF q
<1>12. DOMAIN q = 0..n /\ \A k \in 0..n : q[k] = IF k = 0 THEN 1 ELSE q[k - 1] + (s[k] - 1) * p[k - 1]
  BY <1>11
<1>13. q[0] = 1 /\ \A k \in 1..n : q[k] = q[k - 1] + (s[k] - 1) * p[k - 1]
  <2>1. 0 \in 0..n
    BY <1>1
  <2> QED
    BY <1>1, <1>12, <2>1
<1> DEFINE T == {k \in 0..n : q[k] \in Int}
<1>14. \A k \in 0..n : k \in T
  <2>1. 0 \in T
    BY <1>1, <1>13
  <2>2. ASSUME NEW k \in 1..n, k - 1 \in T PROVE k \in T
    <3>1. q[k - 1] \in Int
      BY <2>2
    <3>2. q[k] \in Int
      BY <1>3, <1>13, <3>1
    <3> QED
      BY <1>1, <3>2
  <2> HIDE DEF T
  <2> QED
    BY <1>1, <2>1, <2>2, UpTo
<1>15. \A k \in 0..n : q[k] \in Int
  BY <1>14
<1>16. q \in [0..n -> Int]
  BY <1>11, <1>12, <1>15
<1> QED
  BY <1>13, <1>16 DEF q, n, p

\* Subscripts that fit the dimensions of an array.
Fits(d, s) == s \in [1..Len(d) -> Nat] /\ \A k \in 1..Len(d) : 1 <= s[k] /\ s[k] <= d[k]

\* What it is to be the subscripts of an element.
LEMMA SubscriptsOk ==
    ASSUME NEW d \in Seq(Nat \ {0}), NEW s
    PROVE  s \in Subscripts(d) <=> Fits(d, s)
<1> DEFINE n == Len(d)
           M == Max({0} \cup ToSet(d))
<1>1. M \in Nat /\ \A i \in 1..n : d[i] <= M
  BY LargestDim
<1>2. DOMAIN d = 1..n /\ \A i \in 1..n : d[i] \in Nat
  OBVIOUS
<1> HIDE DEF M, n
<1>3. s \in Subscripts(d) <=> s \in [1..n -> 1..M] /\ \A i \in 1..n : s[i] <= d[i]
  BY <1>2 DEF Subscripts, M
<1>4. ASSUME s \in [1..n -> 1..M], \A i \in 1..n : s[i] <= d[i] PROVE Fits(d, s)
  <2>1. \A i \in 1..n : s[i] \in Nat /\ 1 <= s[i]
    BY <1>1, <1>4
  <2> QED
    BY <1>4, <2>1 DEF Fits, n
<1>5. ASSUME Fits(d, s) PROVE s \in [1..n -> 1..M] /\ \A i \in 1..n : s[i] <= d[i]
  <2>1. s \in [1..n -> Nat] /\ \A i \in 1..n : 1 <= s[i] /\ s[i] <= d[i]
    BY <1>5 DEF Fits, n
  <2>2. \A i \in 1..n : s[i] \in 1..M
    BY <1>1, <1>2, <2>1
  <2> QED
    BY <2>1, <2>2
<1> QED
  BY <1>3, <1>4, <1>5

\* The place of subscripts in the first axes lies between 1 and the number of
\* elements there.
LEMMA PlaceBounds ==
    ASSUME NEW d \in Seq(Nat \ {0}), NEW s, Fits(d, s)
    PROVE  /\ \A k \in 0..Len(d) : /\ Places(d, s)[k] \in Nat
                                   /\ 1 <= Places(d, s)[k] /\ Places(d, s)[k] <= Strides(d)[k]
           /\ Position(d, s) \in 1..Product(d)
<1> DEFINE n == Len(d)
           p == Strides(d)
           q == Places(d, s)
           T == {k \in 0..n : 1 <= q[k] /\ q[k] <= p[k]}
<1>1. s \in [1..n -> Int] /\ \A k \in 1..n : s[k] \in Nat /\ 1 <= s[k] /\ s[k] <= d[k] /\ d[k] \in Nat
  BY DEF Fits
<1>2. p \in [0..n -> Nat \ {0}] /\ p[0] = 1 /\ \A k \in 1..n : p[k] = p[k - 1] * d[k]
  BY StridesOk
<1>3. q \in [0..n -> Int] /\ q[0] = 1 /\ \A k \in 1..n : q[k] = q[k - 1] + (s[k] - 1) * p[k - 1]
  BY <1>1, PlacesOk
<1>4. n \in Nat
  OBVIOUS
<1> HIDE DEF n, p, q
<1>5. 0 \in T
  BY <1>2, <1>3, <1>4
<1>6. ASSUME NEW k \in 1..n, k - 1 \in T PROVE k \in T
  <2> DEFINE a == q[k - 1]
             b == p[k - 1]
             x == s[k]
             y == d[k]
  <2>1. a \in Int /\ b \in Nat /\ 1 <= a /\ a <= b /\ x \in Nat /\ y \in Nat /\ 1 <= x /\ x <= y
    BY <1>1, <1>2, <1>3, <1>6
  <2>2. q[k] = a + (x - 1) * b /\ p[k] = b * y
    BY <1>2, <1>3
  <2> HIDE DEF a, b, x, y
  <2>3. (x - 1) * b \in Nat /\ b * (y - x) \in Nat
    <3>1. \A i, j \in Nat : i * j \in Nat
      OBVIOUS
    <3>2. x - 1 \in Nat /\ y - x \in Nat
      BY <2>1
    <3> QED
      BY <2>1, <3>1, <3>2
  <2>4. b * y = (x - 1) * b + b + b * (y - x)
    <3>1. \A i, j, l \in Int : j * l = (i - 1) * j + j + j * (l - i)
      OBVIOUS
    <3> QED
      BY <2>1, <3>1
  <2>5. 1 <= q[k] /\ q[k] <= p[k]
    <3> DEFINE u == (x - 1) * b
               v == b * (y - x)
    <3>1. u \in Nat /\ v \in Nat /\ q[k] = a + u /\ p[k] = u + b + v
      BY <2>2, <2>3, <2>4
    <3> HIDE DEF u, v
    <3> QED
      BY <2>1, <3>1
  <2> QED
    BY <1>4, <2>5
<1>7. \A k \in 0..n : k \in T
  <2> HIDE DEF T
  <2> QED
    BY <1>4, <1>5, <1>6, UpTo
<1>8. \A k \in 0..n : q[k] \in Nat /\ 1 <= q[k] /\ q[k] <= p[k]
  BY <1>3, <1>7
<1>9. n \in 0..n /\ Position(d, s) = q[n] /\ Product(d) = p[n]
  BY <1>4 DEF Position, Product, n, p, q
<1>10. Position(d, s) \in 1..Product(d)
  BY <1>2, <1>8, <1>9
<1> QED
  BY <1>8, <1>10 DEF n, p, q

\* Subscripts come one before the other if they differ on a last axis, and the
\* first is smaller there.
Precedes(n, s, t) == \E k \in 1..n : s[k] < t[k] /\ \A j \in (k + 1)..n : s[j] = t[j]

\* Of two different subscripts the one comes before the other: look at the last
\* axis on which they differ.
LEMMA LastDifference ==
    ASSUME NEW n \in Nat, NEW s \in [1..n -> Nat], NEW t \in [1..n -> Nat], s # t
    PROVE  Precedes(n, s, t) \/ Precedes(n, t, s)
<1> DEFINE D == {k \in 1..n : s[k] # t[k]}
           m == Max(D)
<1>1. D # {} /\ D \in SUBSET (1..n)
  OBVIOUS
<1>2. m \in D /\ \A y \in D : m >= y
  <2> HIDE DEF D
  <2> QED
    BY <1>1, LastPosition
<1>3. m \in 1..n /\ s[m] # t[m] /\ s[m] \in Nat /\ t[m] \in Nat
  <2> HIDE DEF m
  <2> QED
    BY <1>2
<1>4. ASSUME NEW j \in (m + 1)..n PROVE s[j] = t[j]
  <2>1. j \in 1..n /\ ~(m >= j)
    <3> HIDE DEF m
    <3> QED
      BY <1>3
  <2> QED
    BY <1>2, <2>1
<1>5. s[m] < t[m] \/ t[m] < s[m]
  <2> HIDE DEF m
  <2> QED
    BY <1>3
<1> HIDE DEF m
<1> QED
  BY <1>3, <1>4, <1>5 DEF Precedes

\* What comes before has the smaller position.
LEMMA EarlierPlace ==
    ASSUME NEW d \in Seq(Nat \ {0}), NEW s, NEW t, Fits(d, s), Fits(d, t),
           Precedes(Len(d), s, t)
    PROVE  Position(d, s) < Position(d, t)
<1> DEFINE n == Len(d)
           p == Strides(d)
           qs == Places(d, s)
           qt == Places(d, t)
<1>1. PICK k \in 1..n : s[k] < t[k] /\ \A j \in (k + 1)..n : s[j] = t[j]
  BY DEF Precedes
<1>2. s \in [1..n -> Int] /\ t \in [1..n -> Int] /\ s[k] \in Nat /\ t[k] \in Nat /\ 1 <= s[k]
  BY DEF Fits
<1>3. p \in [0..n -> Nat \ {0}]
  BY StridesOk
<1>4. qs \in [0..n -> Int] /\ \A j \in 1..n : qs[j] = qs[j - 1] + (s[j] - 1) * p[j - 1]
  BY <1>2, PlacesOk
<1>5. qt \in [0..n -> Int] /\ \A j \in 1..n : qt[j] = qt[j - 1] + (t[j] - 1) * p[j - 1]
  BY <1>2, PlacesOk
<1>6. \A j \in 0..n : qs[j] \in Nat /\ qt[j] \in Nat /\ qs[j] <= p[j] /\ 1 <= qt[j]
  BY PlaceBounds
<1>7. n \in Nat
  OBVIOUS
<1>8. n \in 0..n /\ Position(d, s) = qs[n] /\ Position(d, t) = qt[n]
  BY <1>7 DEF Position
<1> DEFINE T == {j \in 0..n : j >= k => qs[j] < qt[j]}
<1> HIDE DEF n, p, qs, qt
<1>9. qs[k] < qt[k]
  <2> DEFINE a == qs[k - 1]
             c == qt[k - 1]
             b == p[k - 1]
             x == s[k]
             y == t[k]
  <2>1. k - 1 \in 0..n
    BY <1>7
  <2>2. a \in Nat /\ c \in Nat /\ b \in Nat /\ a <= b /\ 1 <= c /\ x \in Nat /\ y \in Nat /\ x < y
    BY <1>1, <1>2, <1>3, <1>6, <2>1
  <2>3. qs[k] = a + (x - 1) * b /\ qt[k] = c + (y - 1) * b
    BY <1>4, <1>5
  <2> HIDE DEF a, b, c, x, y
  <2>4. (y - 1) * b = (x - 1) * b + b + (y - x - 1) * b
    <3>1. \A i, j, l \in Int : (i - 1) * l = (j - 1) * l + l + (i - j - 1) * l
      OBVIOUS
    <3> QED
      BY <2>2, <3>1
  <2>5. (y - x - 1) * b \in Nat
    <3>1. \A i, j \in Nat : i * j \in Nat
      OBVIOUS
    <3>2. y - x - 1 \in Nat
      BY <2>2
    <3> QED
      BY <2>2, <3>1, <3>2
  <2> DEFINE u == (x - 1) * b
             v == (y - x - 1) * b
             w == (y - 1) * b
  <2>6. u \in Int
    <3>1. \A i, j \in Int : (i - 1) * j \in Int
      OBVIOUS
    <3> QED
      BY <2>2, <3>1
  <2>7. w = u + b + v /\ v \in Nat /\ qs[k] = a + u /\ qt[k] = c + w
    BY <2>3, <2>4, <2>5
  <2> HIDE DEF u, v, w
  <2> QED
    BY <2>2, <2>6, <2>7
<1>10. 0 \in T
  BY <1>7
<1>11. ASSUME NEW j \in 1..n, j - 1 \in T PROVE j \in T
  <2>1. CASE j = k
    BY <1>7, <1>9, <2>1
  <2>2. CASE j < k
    BY <1>7, <2>2
  <2>3. CASE j > k
    <3>1. j \in (k + 1)..n /\ j - 1 \in 0..n /\ j - 1 >= k /\ j \in 0..n
      BY <1>7, <2>3
    <3>2. qs[j - 1] < qt[j - 1] /\ s[j] = t[j]
      BY <1>1, <1>11, <3>1
    <3> DEFINE e == (s[j] - 1) * p[j - 1]
    <3>3. qs[j] = qs[j - 1] + e /\ qt[j] = qt[j - 1] + e
      BY <1>4, <1>5, <3>2
    <3>4. e \in Int
      <4>1. \A i, l \in Int : (i - 1) * l \in Int
        OBVIOUS
      <4>2. s[j] \in Int /\ p[j - 1] \in Int
        BY <1>2, <1>3, <3>1
      <4> QED
        BY <4>1, <4>2
    <3>5. qs[j - 1] \in Int /\ qt[j - 1] \in Int
      BY <1>6, <3>1
    <3> HIDE DEF e
    <3> QED
      BY <3>1, <3>2, <3>3, <3>4, <3>5
  <2> QED
    BY <1>7, <2>1, <2>2, <2>3
<1>12. \A j \in 0..n : j \in T
  <2> HIDE DEF T
  <2> QED
    BY <1>7, <1>10, <1>11, UpTo
<1> QED
  BY <1>7, <1>8, <1>12

\* The order of positions is that of the subscripts; different subscripts have
\* different positions.
LEMMA PositionOrder ==
    ASSUME NEW d \in Seq(Nat \ {0}), NEW s, NEW t, Fits(d, s), Fits(d, t)
    PROVE  /\ Position(d, s) < Position(d, t) <=> Precedes(Len(d), s, t)
           /\ Position(d, s) = Position(d, t) <=> s = t
<1>1. Len(d) \in Nat /\ s \in [1..Len(d) -> Nat] /\ t \in [1..Len(d) -> Nat]
  BY DEF Fits
<1>2. Position(d, s) \in Nat /\ Position(d, t) \in Nat
  <2>1. Position(d, s) \in 1..Product(d) /\ Position(d, t) \in 1..Product(d)
    BY PlaceBounds
  <2> QED
    BY <2>1
<1>3. Precedes(Len(d), s, t) => Position(d, s) < Position(d, t)
  BY EarlierPlace
<1>4. Precedes(Len(d), t, s) => Position(d, t) < Position(d, s)
  BY EarlierPlace
<1>5. s # t => Precedes(Len(d), s, t) \/ Precedes(Len(d), t, s)
  BY <1>1, LastDifference
<1> QED
  BY <1>2, <1>3, <1>4, <1>5

\* Division with remainder.
LEMMA Division ==
    ASSUME NEW a \in Nat, NEW b \in Nat \ {0}
    PROVE  /\ a \div b \in Nat
           /\ (a \div b) * b \in Nat
           /\ (a \div b) * b <= a
           /\ a < (a \div b) * b + b
  OBVIOUS

\* A quotient is smaller than the other factor.
LEMMA QuotientBound ==
    ASSUME NEW q \in Nat, NEW a \in Nat, NEW b \in Nat \ {0}, NEW m \in Nat,
           q * b <= a, a < b * m
    PROVE  q < m
<1> SUFFICES ASSUME m <= q PROVE FALSE
  OBVIOUS
<1>1. q * b = b * m + (q - m) * b
  <2>1. \A i, j, l \in Int : i * j = j * l + (i - l) * j
    OBVIOUS
  <2> QED
    BY <2>1
<1>2. (q - m) * b \in Nat
  <2>1. \A i, j \in Nat : i * j \in Nat
    OBVIOUS
  <2>2. q - m \in Nat
    OBVIOUS
  <2> QED
    BY <2>1, <2>2
<1> DEFINE u == b * m
           v == (q - m) * b
           w == q * b
<1>3. u \in Int
  <2>1. \A i, j \in Int : i * j \in Int
    OBVIOUS
  <2> QED
    BY <2>1
<1>4. w = u + v /\ w <= a /\ a < u /\ v \in Nat
  BY <1>1, <1>2
<1> HIDE DEF u, v, w
<1> QED
  BY <1>3, <1>4

\* What is left of an element number, from the last axis to the first.
LEMMA RemaindersOk ==
    ASSUME NEW d \in Seq(Nat \ {0}), d # <<>>, NEW idx \in Nat \ {0}
    PROVE  /\ Remainders(idx, d) \in [1..Len(d) -> Nat \ {0}]
           /\ Remainders(idx, d)[Len(d)] = idx
           /\ \A c \in 1..(Len(d) - 1) :
                 Remainders(idx, d)[c] =
                     Remainders(idx, d)[c + 1]
                     - ((Remainders(idx, d)[c + 1] - 1) \div Strides(d)[c]) * Strides(d)[c]
<1> DEFINE n == Len(d)
           p == Strides(d)
           S == Nat \ {0}
           L(c, x) == x - ((x - 1) \div p[c]) * p[c]
           step == [k \in 1..(n - 1) |-> [x \in S |-> L(n - k, x)]]
           Eq(f) == f = [c \in 1..n |-> IF c = n THEN idx ELSE L(c, f[c + 1])]
<1>1. n \in Nat /\ n >= 1 /\ n - 1 \in Nat /\ idx \in S
  OBVIOUS
<1>2. p \in [0..n -> S]
  BY StridesOk
<1> HIDE DEF n, p
<1>3. ASSUME NEW c \in 1..n, NEW x \in S PROVE L(c, x) \in S
  <2>1. p[c] \in S /\ x - 1 \in Nat
    BY <1>1, <1>2
  <2> DEFINE e == ((x - 1) \div p[c]) * p[c]
  <2>2. e \in Nat /\ e <= x - 1
    BY <2>1, Division
  <2> HIDE DEF e
  <2>3. x - e \in S
    BY <2>2
  <2> QED
    BY <2>3 DEF e
<1> HIDE DEF L
<1>4. step \in [1..(n - 1) -> [S -> S]]
  <2>1. \A k \in 1..(n - 1) : n - k \in 1..n
    BY <1>1
  <2> HIDE DEF S
  <2>2. \A k \in 1..(n - 1) : \A x \in S : L(n - k, x) \in S
    BY <1>3, <2>1
  <2> QED
    BY <2>2
<1>5. PICK h : Follows(h, n - 1, S, idx, step)
  <2> HIDE DEF step, S
  <2> QED
    BY <1>1, <1>4, StepByStep
<1>6. h \in [0..(n - 1) -> S] /\ h[0] = idx /\ \A k \in 1..(n - 1) : h[k] = step[k][h[k - 1]]
  <2> HIDE DEF step, S
  <2> QED
    BY <1>5 DEF Follows
<1> DEFINE g == [c \in 1..n |-> h[n - c]]
<1>7. g[n] = idx
  BY <1>1, <1>6
<1>8. ASSUME NEW c \in 1..n, c # n PROVE g[c] = L(c, g[c + 1])
  <2>1. n - c \in 1..(n - 1) /\ (n - c) - 1 \in 0..(n - 1) /\ n - (n - c) = c
        /\ c + 1 \in 1..n /\ n - (c + 1) = (n - c) - 1
    BY <1>1, <1>8
  <2>2. g[c] = h[n - c] /\ g[c + 1] = h[(n - c) - 1]
    BY <2>1
  <2>3. h[(n - c) - 1] \in S
    BY <1>6, <2>1
  <2>4. step[n - c] = [x \in S |-> L(n - (n - c), x)]
    BY <2>1
  <2> HIDE DEF step, g, S
  <2>5. h[n - c] = step[n - c][h[(n - c) - 1]]
    BY <1>6, <2>1
  <2>6. step[n - c][h[(n - c) - 1]] = L(c, h[(n - c) - 1])
    BY <2>1, <2>3, <2>4
  <2> QED
    BY <2>2, <2>5, <2>6
<1>9. Eq(g)
  <2>1. \A c \in 1..n : g[c] = IF c = n THEN idx ELSE L(c, g[c + 1])
    <3> HIDE DEF g
    <3> QED
      BY <1>7, <1>8
  <2>2. DOMAIN g = 1..n /\ g = [c \in 1..n |-> g[c]]
    OBVIOUS
  <2> HIDE DEF g
  <2> QED
    BY <2>1, <2>2
<1>10. Remainders(idx, d) = CHOOSE f : Eq(f)
  BY DEF Remainders, n, p, L
<1>11. Eq(Remainders(idx, d))
  <2> HIDE DEF Eq
  <2> QED
    BY <1>9, <1>10
<1> DEFINE r == Remainders(idx, d)
<1>12. r = [c \in 1..n |-> IF c = n THEN idx ELSE L(c, r[c + 1])]
  BY <1>11
<1> HIDE DEF r
<1>13. DOMAIN r = 1..n /\ \A c \in 1..n : r[c] = IF c = n THEN idx ELSE L(c, r[c + 1])
  BY <1>12
<1> DEFINE T == {k \in 0..(n - 1) : r[n - k] \in S}
<1>14. \A k \in 0..(n - 1) : k \in T
  <2>1. 0 \in T
    BY <1>1, <1>13
  <2>2. ASSUME NEW k \in 1..(n - 1), k - 1 \in T PROVE k \in T
    <3>1. n - k \in 1..n /\ n - k # n /\ n - (k - 1) = n - k + 1 /\ k \in 0..(n - 1)
      BY <1>1
    <3>2. r[n - k + 1] \in S
      BY <2>2, <3>1
    <3> HIDE DEF S
    <3>3. r[n - k] = L(n - k, r[n - k + 1])
      BY <1>13, <3>1
    <3>4. r[n - k] \in S
      BY <1>3, <3>1, <3>2, <3>3
    <3> QED
      BY <3>1, <3>4
  <2> HIDE DEF T
  <2> QED
    BY <1>1, <2>1, <2>2, UpTo
<1>15. ASSUME NEW c \in 1..n PROVE r[c] \in S
  <2>1. n - c \in 0..(n - 1) /\ n - (n - c) = c
    BY <1>1
  <2>2. r[n - (n - c)] \in S
    BY <1>14, <2>1
  <2> QED
    BY <2>1, <2>2
<1>16. r \in [1..n -> S]
  BY <1>12, <1>13, <1>15
<1>17. r[n] = idx
  BY <1>1, <1>13
<1>18. ASSUME NEW c \in 1..(n - 1)
       PROVE  r[c] = r[c + 1] - ((r[c + 1] - 1) \div p[c]) * p[c]
  <2>1. c \in 1..n /\ c # n
    BY <1>1
  <2>2. r[c] = L(c, r[c + 1])
    BY <1>13, <2>1
  <2> QED
    BY <2>2 DEF L
<1> QED
  BY <1>16, <1>17, <1>18 DEF r, n, p

\* The subscripts that an element number gives have that number as position,
\* and fit the dimensions on all axes but perhaps the last.
LEMMA CoordsPlace ==
    ASSUME NEW d \in Seq(Nat \ {0}), d # <<>>, NEW idx \in Nat \ {0}
    PROVE  /\ Index2Coords(idx, d) \in [1..Len(d) -> Nat \ {0}]
           /\ Position(d, Index2Coords(idx, d)) = idx
           /\ \A k \in 1..(Len(d) - 1) : Index2Coords(idx, d)[k] <= d[k]
           /\ (Index2Coords(idx, d)[Len(d)] - 1) * Strides(d)[Len(d) - 1] <= idx - 1
<1> DEFINE n == Len(d)
           p == Strides(d)
           r == Remainders(idx, d)
           c == Index2Coords(idx, d)
           q == Places(d, c)
<1>1. n \in Nat /\ n >= 1 /\ DOMAIN d = 1..n /\ \A k \in 1..n : d[k] \in Nat \ {0}
  OBVIOUS
<1>2. p \in [0..n -> Nat \ {0}] /\ p[0] = 1 /\ \A k \in 1..n : p[k] = p[k - 1] * d[k]
  BY StridesOk
<1>3. /\ r \in [1..n -> Nat \ {0}] /\ r[n] = idx
      /\ \A k \in 1..(n - 1) : r[k] = r[k + 1] - ((r[k + 1] - 1) \div p[k]) * p[k]
  BY RemaindersOk
<1>4. c = [k \in 1..n |-> IF k = 1 THEN r[1] ELSE (r[k] - 1) \div p[k - 1] + 1]
  BY <1>1 DEF Index2Coords
<1> HIDE DEF n, p, r, c, q
<1>5. ASSUME NEW k \in 1..n
      PROVE  /\ c[k] \in Nat \ {0} /\ c[k] - 1 = (r[k] - 1) \div p[k - 1]
             /\ (c[k] - 1) * p[k - 1] \in Nat /\ (c[k] - 1) * p[k - 1] <= r[k] - 1
             /\ r[k] - 1 < (c[k] - 1) * p[k - 1] + p[k - 1]
  <2> DEFINE a == r[k] - 1
             b == p[k - 1]
             x == a \div b
  <2>1. a \in Nat /\ b \in Nat \ {0}
    BY <1>1, <1>2, <1>3
  <2>2. x \in Nat /\ x * b \in Nat /\ x * b <= a /\ a < x * b + b
    BY <2>1, Division
  <2>3. CASE k = 1
    <3>1. b = 1 /\ c[k] = r[k] /\ r[k] \in Nat \ {0}
      BY <1>1, <1>2, <1>3, <1>4, <2>3
    <3>2. \A i \in Nat : i \div 1 = i /\ i * 1 = i
      OBVIOUS
    <3>3. x = a
      BY <2>1, <3>1, <3>2
    <3> HIDE DEF x
    <3>4. c[k] - 1 = x
      BY <3>1, <3>3
    <3>5. (c[k] - 1) * b = x * b
      BY <3>4
    <3> QED
      BY <2>2, <3>1, <3>4, <3>5 DEF x
  <2>4. CASE k # 1
    <3>1. c[k] = x + 1
      BY <1>4, <2>4
    <3> HIDE DEF x
    <3>2. c[k] - 1 = x /\ c[k] \in Nat \ {0}
      BY <2>2, <3>1
    <3>3. (c[k] - 1) * b = x * b
      BY <3>2
    <3> QED
      BY <2>2, <3>2, <3>3 DEF x
  <2> QED
    BY <2>3, <2>4
<1>6. c \in [1..n -> Nat \ {0}]
  BY <1>4, <1>5
<1>7. q \in [0..n -> Int] /\ q[0] = 1 /\ \A k \in 1..n : q[k] = q[k - 1] + (c[k] - 1) * p[k - 1]
  <2>1. c \in [1..n -> Int]
    BY <1>6
  <2> QED
    BY <2>1, PlacesOk DEF q, n, p
<1> DEFINE T == {k \in 0..n : k >= 1 => q[k] = r[k]}
<1>8. \A k \in 0..n : k \in T
  <2>1. 0 \in T
    BY <1>1
  <2>2. ASSUME NEW k \in 1..n, k - 1 \in T PROVE k \in T
    <3>1. CASE k = 1
      <4>1. q[1] = 1 + (c[1] - 1) * 1 /\ c[1] = r[1] /\ c[1] \in Nat
        BY <1>1, <1>2, <1>4, <1>6, <1>7
      <4>2. \A i \in Nat : 1 + (i - 1) * 1 = i
        OBVIOUS
      <4>3. q[1] = r[1]
        BY <4>1, <4>2
      <4> QED
        BY <1>1, <3>1, <4>3
    <3>2. CASE k # 1
      <4>1. k - 1 \in 1..(n - 1) /\ (k - 1) + 1 = k /\ k - 1 >= 1 /\ k \in 0..n
        BY <1>1, <3>2
      <4> DEFINE e == (c[k] - 1) * p[k - 1]
      <4>2. q[k - 1] = r[k - 1]
        BY <2>2, <4>1
      <4>3. r[k - 1] = r[k] - e
        <5>1. r[k - 1] = r[k] - ((r[k] - 1) \div p[k - 1]) * p[k - 1]
          <6>1. r[k - 1] = r[(k - 1) + 1] - ((r[(k - 1) + 1] - 1) \div p[k - 1]) * p[k - 1]
            BY <1>3, <4>1
          <6> QED
            BY <4>1, <6>1
        <5>2. c[k] - 1 = (r[k] - 1) \div p[k - 1]
          BY <1>5
        <5> QED
          BY <5>1, <5>2
      <4>4. q[k] = q[k - 1] + e
        BY <1>7
      <4>5. e \in Nat /\ r[k] \in Nat /\ r[k - 1] \in Nat
        <5>1. r[k] \in Nat /\ r[k - 1] \in Nat
          <6>1. k \in 1..n /\ k - 1 \in 1..n
            BY <1>1, <4>1
          <6>2. r[k] \in Nat \ {0} /\ r[k - 1] \in Nat \ {0}
            BY <1>3, <6>1
          <6> QED
            BY <6>2
        <5>2. e \in Nat
          BY <1>5, <4>1
        <5> QED
          BY <5>1, <5>2
      <4> HIDE DEF e
      <4>6. q[k] = r[k]
        BY <4>2, <4>3, <4>4, <4>5
      <4> QED
        BY <4>1, <4>6
    <3> QED
      BY <3>1, <3>2
  <2> HIDE DEF T
  <2> QED
    BY <1>1, <2>1, <2>2, UpTo
<1>9. Position(d, c) = idx
  <2>1. n \in 0..n /\ q[n] = r[n]
    BY <1>1, <1>8
  <2> QED
    BY <1>3, <2>1 DEF Position, q, n
<1>10. ASSUME NEW k \in 1..(n - 1) PROVE c[k] <= d[k]
  <2> DEFINE x == c[k] - 1
             b == p[k - 1]
             a == r[k] - 1
  <2>1. k \in 1..n /\ k + 1 \in 1..n /\ k - 1 \in 0..n /\ k \in 0..n /\ (k + 1) - 1 = k
    BY <1>1
  <2>2. x \in Nat /\ b \in Nat \ {0} /\ a \in Nat /\ d[k] \in Nat /\ x * b <= a
    <3>1. x * b <= a
      BY <1>5, <2>1
    <3>2. b \in Nat \ {0} /\ d[k] \in Nat
      BY <1>1, <1>2, <2>1
    <3>3. x \in Nat /\ a \in Nat
      BY <1>3, <1>6, <2>1
    <3> QED
      BY <3>1, <3>2, <3>3
  <2>3. a < b * d[k]
    <3> DEFINE e == ((r[k + 1] - 1) \div p[k]) * p[k]
    <3>1. r[k] = r[k + 1] - e
      BY <1>3
    <3>2. r[k + 1] - 1 \in Nat /\ p[k] \in Nat \ {0} /\ r[k + 1] \in Nat
      <4>1. r[k + 1] \in Nat \ {0}
        BY <1>3, <2>1
      <4>2. p[k] \in Nat \ {0}
        BY <1>2, <2>1
      <4> QED
        BY <4>1, <4>2
    <3>3. e \in Nat /\ r[k + 1] - 1 < e + p[k]
      BY <3>2, Division
    <3>4. p[k] = b * d[k] /\ r[k] \in Nat
      BY <1>2, <1>3, <2>1
    <3> HIDE DEF e, b
    <3>5. r[k] - 1 < p[k]
      BY <3>1, <3>2, <3>3, <3>4
    <3> QED
      BY <3>4, <3>5
  <2> HIDE DEF b, a, x
  <2>4. x < d[k]
    BY <2>2, <2>3, QuotientBound
  <2> QED
    BY SMTT(40), <1>6, <2>1, <2>2, <2>4 DEF x
<1>11. (c[n] - 1) * p[n - 1] <= idx - 1
  <2>1. n \in 1..n
    BY <1>1
  <2> QED
    BY <1>3, <1>5, <2>1
<1> QED
  BY <1>6, <1>9, <1>10, <1>11 DEF n, p, c

\* dat1Index2Coords is the inverse of the position.
LEMMA CoordsOk ==
    ASSUME NEW d \in Seq(Nat \ {0}), NEW idx \in 1..Product(d)
    PROVE  Fits(d, Index2Coords(idx, d)) /\ Position(d, Index2Coords(idx, d)) = idx
<1> DEFINE n == Len(d)
           p == Strides(d)
           c == Index2Coords(idx, d)
<1>1. n \in Nat /\ DOMAIN d = 1..n /\ \A k \in 1..n : d[k] \in Nat \ {0}
  OBVIOUS
<1>2. p \in [0..n -> Nat \ {0}] /\ p[0] = 1 /\ \A k \in 1..n : p[k] = p[k - 1] * d[k]
  BY StridesOk
<1>3. Product(d) = p[n] /\ Product(d) \in Nat /\ idx \in Nat \ {0} /\ idx <= p[n]
  <2>1. Product(d) = p[n]
    BY DEF Product
  <2>2. p[n] \in Nat
    <3> HIDE DEF p, n
    <3> QED
      BY <1>1, <1>2
  <2> HIDE DEF p, n
  <2> QED
    BY <2>1, <2>2
<1>4. CASE d = <<>>
  <2>1. n = 0 /\ p[n] = 1
    BY <1>2, <1>4
  <2>2. idx = 1
    <3> HIDE DEF p, n
    <3> QED
      BY <1>3, <2>1
  <2>3. c \in [1..n -> Nat] /\ 1..n = {}
    BY <1>1, <2>1 DEF Index2Coords
  <2>4. Fits(d, c)
    BY <2>3 DEF Fits
  <2>5. Position(d, c) = 1
    <3>1. Position(d, c) \in 1..1
      BY <1>3, <2>1, <2>4, PlaceBounds
    <3> QED
      BY <3>1
  <2> QED
    BY <2>2, <2>4, <2>5
<1>5. CASE d # <<>>
  <2>1. n >= 1 /\ n \in 1..n /\ n - 1 \in 0..n
    BY <1>1, <1>5
  <2>2. /\ c \in [1..n -> Nat \ {0}] /\ Position(d, c) = idx
        /\ \A k \in 1..(n - 1) : c[k] <= d[k]
        /\ (c[n] - 1) * p[n - 1] <= idx - 1
    BY <1>3, <1>5, CoordsPlace
  <2> HIDE DEF c, p, n
  <2>3. c[n] <= d[n]
    <3> DEFINE x == c[n] - 1
               b == p[n - 1]
               m == d[n]
    <3>1. x \in Nat /\ b \in Nat \ {0} /\ m \in Nat /\ x * b <= idx - 1 /\ idx - 1 \in Nat
      BY <1>1, <1>2, <1>3, <2>1, <2>2
    <3>2. p[n] = b * m /\ p[n] \in Nat
      BY <1>2, <2>1
    <3> HIDE DEF x, b, m
    <3>3. idx - 1 < b * m
      BY <1>3, <3>2
    <3>4. x < m
      BY <3>1, <3>3, QuotientBound
    <3> QED
      BY <2>1, <2>2, <3>1, <3>4 DEF x, m
  <2>4. \A k \in 1..n : 1 <= c[k] /\ c[k] <= d[k]
    <3>1. \A k \in 1..n : k = n \/ k \in 1..(n - 1)
      BY <1>1
    <3>2. \A k \in 1..n : c[k] \in Nat \ {0}
      BY <2>2
    <3>3. \A k \in 1..n : 1 <= c[k]
      BY <3>2
    <3>4. \A k \in 1..n : c[k] <= d[k]
      BY <2>2, <2>3, <3>1
    <3> QED
      BY <3>3, <3>4
  <2>5. Fits(d, c)
    <3>1. c \in [1..n -> Nat]
      BY <2>2
    <3> QED
      BY <2>4, <3>1 DEF Fits, n
  <2> QED
    BY <2>2, <2>5 DEF c
<1> QED
  BY <1>4, <1>5

\* Grids that differ on the last axis only: the same subscripts have the same
\* position, and those of the one fit the other if their position does.
LEMMA SameButLast ==
    ASSUME NEW d \in Seq(Nat \ {0}), NEW e \in Seq(Nat \ {0}), Len(d) = Len(e), d # e,
           \A k \in 1..(Len(d) - 1) : d[k] = e[k],
           NEW s, Fits(e, s)
    PROVE  /\ Fits(d, s) <=> Position(e, s) <= Product(d)
           /\ Position(d, s) = Position(e, s)
<1> DEFINE n == Len(d)
           pd == Strides(d)
           pe == Strides(e)
           qd == Places(d, s)
           qe == Places(e, s)
<1>1. n \in Nat /\ n = Len(e) /\ \A k \in 1..n : d[k] \in Nat \ {0} /\ e[k] \in Nat \ {0}
  OBVIOUS
<1>2. pd \in [0..n -> Nat \ {0}] /\ pd[0] = 1 /\ \A k \in 1..n : pd[k] = pd[k - 1] * d[k]
  BY StridesOk
<1>3. pe \in [0..n -> Nat \ {0}] /\ pe[0] = 1 /\ \A k \in 1..n : pe[k] = pe[k - 1] * e[k]
  BY <1>1, StridesOk
<1>4. s \in [1..n -> Int] /\ \A k \in 1..n : s[k] \in Nat /\ 1 <= s[k] /\ s[k] <= e[k]
  <2>1. s \in [1..n -> Nat] /\ \A k \in 1..n : 1 <= s[k] /\ s[k] <= e[k]
    BY <1>1 DEF Fits
  <2> HIDE DEF n
  <2>2. \A k \in 1..n : s[k] \in Nat
    BY <2>1
  <2>3. s \in [1..n -> Int]
    BY <2>1, <2>2
  <2> QED
    BY <2>1, <2>2, <2>3
<1>5. qd \in [0..n -> Int] /\ qd[0] = 1 /\ \A k \in 1..n : qd[k] = qd[k - 1] + (s[k] - 1) * pd[k - 1]
  BY <1>4, PlacesOk
<1>6. qe \in [0..n -> Int] /\ qe[0] = 1 /\ \A k \in 1..n : qe[k] = qe[k - 1] + (s[k] - 1) * pe[k - 1]
  BY <1>1, <1>4, PlacesOk
<1>7. n >= 1
  <2> SUFFICES ASSUME n = 0 PROVE FALSE
    BY <1>1
  <2>1. \A q \in Seq(Nat \ {0}) : q # <<>> => Len(q) >= 1
    OBVIOUS
  <2>2. ~(Len(d) >= 1) /\ ~(Len(e) >= 1)
    BY <1>1
  <2>3. d = <<>> /\ e = <<>>
    BY <2>1, <2>2, Zenon
  <2> QED
    BY <2>3
<1>8. \A k \in 0..n : qe[k] \in Nat /\ 1 <= qe[k]
  BY <1>1, PlaceBounds
<1> HIDE DEF n, pd, pe, qd, qe
<1>9. \A k \in 1..(n - 1) : d[k] = e[k]
  BY DEF n
<1> DEFINE T == {k \in 0..n : k # n => pd[k] = pe[k]}
<1>10. \A k \in 0..n : k \in T
  <2>1. 0 \in T
    BY <1>1, <1>2, <1>3
  <2>2. ASSUME NEW k \in 1..n, k - 1 \in T PROVE k \in T
    <3>1. k \in 0..n /\ k - 1 \in 0..n /\ k - 1 # n /\ (k # n => k \in 1..(n - 1))
      BY <1>1
    <3>2. pd[k - 1] = pe[k - 1]
      BY <2>2, <3>1
    <3>3. k # n => pd[k] = pe[k]
      BY <1>2, <1>3, <1>9, <3>1, <3>2
    <3> QED
      BY <3>1, <3>3
  <2> HIDE DEF T
  <2> QED
    BY <1>1, <2>1, <2>2, UpTo
<1> DEFINE U == {k \in 0..n : qd[k] = qe[k]}
<1>11. \A k \in 0..n : k \in U
  <2>1. 0 \in U
    BY <1>1, <1>5, <1>6
  <2>2. ASSUME NEW k \in 1..n, k - 1 \in U PROVE k \in U
    <3>1. k \in 0..n /\ k - 1 \in 0..n /\ k - 1 # n
      BY <1>1
    <3>2. pd[k - 1] = pe[k - 1] /\ qd[k - 1] = qe[k - 1]
      BY <1>10, <2>2, <3>1
    <3>3. qd[k] = qe[k]
      BY <1>5, <1>6, <3>1, <3>2
    <3> QED
      BY <3>1, <3>3
  <2> HIDE DEF U
  <2> QED
    BY <1>1, <2>1, <2>2, UpTo
<1>12. Position(d, s) = Position(e, s)
  <2>1. n \in 0..n
    BY <1>1
  <2>2. qd[n] = qe[n]
    BY <1>11, <2>1
  <2> QED
    BY <1>1, <2>2 DEF Position, qd, qe, n
<1>13. ASSUME Fits(d, s) PROVE Position(e, s) <= Product(d)
  <2>1. Position(d, s) \in 1..Product(d)
    BY <1>13, PlaceBounds
  <2> QED
    BY <1>12, <2>1
<1>14. ASSUME ~Fits(d, s) PROVE ~(Position(e, s) <= Product(d))
  <2>1. n \in 1..n /\ n \in 0..n /\ n - 1 \in 0..n /\ n - 1 # n
    BY <1>1, <1>7
  <2>2. s[n] > d[n]
    <3> SUFFICES ASSUME s[n] <= d[n] PROVE FALSE
      BY SMTT(40), <1>1, <1>4, <2>1
    <3>1. \A k \in 1..n : k = n \/ k \in 1..(n - 1)
      BY <1>1
    <3>2. \A k \in 1..n : 1 <= s[k] /\ s[k] <= d[k]
      BY <1>4, <1>9, <3>1
    <3>3. s \in [1..n -> Nat]
      BY <1>4
    <3> QED
      BY <1>14, <3>2, <3>3 DEF Fits, n
  <2> DEFINE b == pe[n - 1]
             x == s[n]
             m == d[n]
             a == qe[n - 1]
  <2>3. b \in Nat /\ x \in Nat /\ m \in Nat /\ a \in Nat /\ 1 <= a /\ x > m
    <3>1. b \in Nat
      BY <1>3, <2>1
    <3>2. x \in Nat /\ m \in Nat
      BY <1>1, <1>4, <2>1
    <3>3. a \in Nat /\ 1 <= a
      BY <1>8, <2>1
    <3> QED
      BY <2>2, <3>1, <3>2, <3>3
  <2>4. qe[n] = a + (x - 1) * b /\ pd[n] = b * m
    BY <1>2, <1>6, <1>10, <2>1
  <2> HIDE DEF b, x, m, a
  <2>5. (x - 1) * b = b * m + (x - 1 - m) * b
    <3>1. \A i, j, l \in Int : (i - 1) * j = j * l + (i - 1 - l) * j
      OBVIOUS
    <3> QED
      BY <2>3, <3>1
  <2>6. (x - 1 - m) * b \in Nat /\ b * m \in Nat
    <3>1. \A i, j \in Nat : i * j \in Nat
      OBVIOUS
    <3>2. x - 1 - m \in Nat
      BY <2>3
    <3> QED
      BY <2>3, <3>1, <3>2
  <2> DEFINE u == (x - 1 - m) * b
             v == b * m
             w == (x - 1) * b
  <2>7. u \in Nat /\ v \in Nat /\ w = v + u /\ qe[n] = a + w /\ pd[n] = v
    BY <2>4, <2>5, <2>6
  <2> HIDE DEF u, v, w
  <2>8. ~(qe[n] <= pd[n])
    BY <2>3, <2>7
  <2> QED
    BY <1>1, <2>8 DEF Position, Product, qe, pd, n
<1> QED
  BY <1>12, <1>13, <1>14

\* An array has at least one element.
LEMMA ProductOk ==
    ASSUME NEW d \in Seq(Nat \ {0})
    PROVE  Product(d) \in Nat \ {0}
<1>1. Len(d) \in 0..Len(d)
  OBVIOUS
<1> QED
  BY <1>1, StridesOk DEF Product

\* The numbers in S up to x.
Below(S, x) == {e \in S : e <= x}

\* The numbers of a list in increasing order are counted by their place in it.
LEMMA Ranked ==
    ASSUME NEW m \in Nat, NEW g \in [1..m -> Int],
           \A i, j \in 1..m : i < j => g[i] < g[j],
           NEW S, S = {g[i] : i \in 1..m}
    PROVE  /\ IsFiniteSet(S) /\ Cardinality(S) = m
           /\ \A i \in 1..m : Cardinality(Below(S, g[i])) = i
<1>1. ASSUME NEW k \in 0..m
      PROVE  IsFiniteSet({g[i] : i \in 1..k}) /\ Cardinality({g[i] : i \in 1..k}) = k
  <2> DEFINE R == {g[i] : i \in 1..k}
             f == [i \in 1..k |-> g[i]]
  <2>1. \A i \in 1..k : i \in 1..m
    OBVIOUS
  <2>2. f \in [1..k -> R]
    OBVIOUS
  <2>3. ASSUME NEW i \in 1..k, NEW j \in 1..k, f[i] = f[j] PROVE i = j
    <3>1. i \in 1..m /\ j \in 1..m /\ g[i] = g[j] /\ g[i] \in Int /\ g[j] \in Int
      BY <2>1, <2>3
    <3>2. ~(i < j) /\ ~(j < i)
      BY <3>1
    <3> QED
      BY <3>1, <3>2
  <2>4. \A r \in R : \E i \in 1..k : f[i] = r
    OBVIOUS
  <2> HIDE DEF f, R
  <2>5. f \in Bijection(1..k, R)
    BY <2>2, <2>3, <2>4 DEF Bijection, Injection, IsInjective, Surjection
  <2>6. ExistsBijection(1..k, R)
    BY <2>5 DEF ExistsBijection
  <2>7. IsFiniteSet(1..k) /\ Cardinality(1..k) = k
    BY FS_Interval
  <2>8. IsFiniteSet(R) /\ Cardinality(R) = k
    BY <2>6, <2>7, FS_Bijection
  <2> QED
    BY <2>8 DEF R
<1>2. IsFiniteSet(S) /\ Cardinality(S) = m
  <2>1. m \in 0..m
    OBVIOUS
  <2> QED
    BY <1>1, <2>1
<1>3. ASSUME NEW i \in 1..m PROVE Cardinality(Below(S, g[i])) = i
  <2>1. ASSUME NEW j \in 1..m PROVE g[j] <= g[i] <=> j <= i
    <3>1. g[i] \in Int /\ g[j] \in Int
      OBVIOUS
    <3>2. (i < j => g[i] < g[j]) /\ (j < i => g[j] < g[i]) /\ (i = j => g[i] = g[j])
      OBVIOUS
    <3> QED
      BY <3>1, <3>2
  <2>2. Below(S, g[i]) = {g[j] : j \in 1..i}
    <3>1. \A j \in 1..i : j \in 1..m /\ j <= i
      OBVIOUS
    <3>2. \A j \in 1..m : j <= i => j \in 1..i
      OBVIOUS
    <3> QED
      BY <2>1, <3>1, <3>2 DEF Below
  <2>3. i \in 0..m
    OBVIOUS
  <2> QED
    BY <1>1, <2>2, <2>3
<1> QED
  BY <1>2, <1>3

\* Every element has a number, which gives its subscripts.
LEMMA CoordsInverse ==
    ASSUME NEW d \in Seq(Nat \ {0}), NEW s \in Subscripts(d)
    PROVE  Position(d, s) \in 1..Product(d) /\ Index2Coords(Position(d, s), d) = s
<1> DEFINE i == Position(d, s)
<1>1. Fits(d, s) /\ i \in 1..Product(d)
  BY SubscriptsOk, PlaceBounds
<1>2. Fits(d, Index2Coords(i, d)) /\ Position(d, Index2Coords(i, d)) = i
  BY <1>1, CoordsOk
<1>3. Index2Coords(i, d) = s
  BY <1>1, <1>2, PositionOrder
<1> QED
  BY <1>1, <1>3

\* What increases with the position in a grid is counted by the position.
LEMMA RankedBy ==
    ASSUME NEW d \in Seq(Nat \ {0}), NEW w \in [Subscripts(d) -> Int],
           \A s, t \in Subscripts(d) : Position(d, s) < Position(d, t) => w[s] < w[t],
           NEW S, S = {w[s] : s \in Subscripts(d)}
    PROVE  /\ IsFiniteSet(S) /\ Cardinality(S) = Product(d)
           /\ \A s \in Subscripts(d) : Cardinality(Below(S, w[s])) = Position(d, s)
<1> DEFINE m == Product(d)
           g == [i \in 1..m |-> w[Index2Coords(i, d)]]
<1>1. m \in Nat
  BY ProductOk
<1>2. \A i \in 1..m : Index2Coords(i, d) \in Subscripts(d) /\ Position(d, Index2Coords(i, d)) = i
  BY CoordsOk, SubscriptsOk
<1>3. \A s \in Subscripts(d) :
         Position(d, s) \in 1..m /\ Index2Coords(Position(d, s), d) = s
  BY CoordsInverse
<1> HIDE DEF m
<1>4. g \in [1..m -> Int]
  BY <1>2
<1>5. \A i, j \in 1..m : i < j => g[i] < g[j]
  BY <1>2
<1>6. S = {g[i] : i \in 1..m}
  <2>1. ASSUME NEW s \in Subscripts(d) PROVE \E i \in 1..m : w[s] = g[i]
    <3>1. g[Position(d, s)] = w[s]
      BY <1>3
    <3> QED
      BY <1>3, <3>1
  <2>2. ASSUME NEW i \in 1..m PROVE \E s \in Subscripts(d) : w[s] = g[i]
    BY <1>2
  <2> HIDE DEF g
  <2> QED
    BY <2>1, <2>2
<1>7. /\ IsFiniteSet(S) /\ Cardinality(S) = m
      /\ \A i \in 1..m : Cardinality(Below(S, g[i])) = i
  <2> HIDE DEF g
  <2> QED
    BY ZenonT(40), <1>1, <1>4, <1>5, <1>6, Ranked
<1>8. ASSUME NEW s \in Subscripts(d) PROVE Cardinality(Below(S, w[s])) = Position(d, s)
  <2>1. g[Position(d, s)] = w[s]
    BY <1>3
  <2> QED
    BY <1>3, <1>7, <2>1
<1> QED
  BY <1>7, <1>8 DEF m

\* A grid has as many subscripts as elements.
LEMMA GridSize ==
    ASSUME NEW d \in Seq(Nat \ {0})
    PROVE  IsFiniteSet(Subscripts(d)) /\ Cardinality(Subscripts(d)) = Product(d)
<1> DEFINE m == Product(d)
           f == [i \in 1..m |-> Index2Coords(i, d)]
<1>1. m \in Nat /\ m > 0
  BY ProductOk
<1>2. \A i \in 1..m : Index2Coords(i, d) \in Subscripts(d) /\ Position(d, Index2Coords(i, d)) = i
  BY CoordsOk, SubscriptsOk
<1>3. \A s \in Subscripts(d) :
         Position(d, s) \in 1..m /\ Index2Coords(Position(d, s), d) = s
  BY CoordsInverse
<1> HIDE DEF m
<1>4. f \in [1..m -> Subscripts(d)]
  BY <1>2
<1>5. \A i, j \in 1..m : f[i] = f[j] => i = j
  BY <1>2
<1>6. \A s \in Subscripts(d) : \E i \in 1..m : f[i] = s
  BY <1>3
<1> HIDE DEF f
<1>7. f \in Bijection(1..m, Subscripts(d))
  BY <1>4, <1>5, <1>6 DEF Bijection, Injection, IsInjective, Surjection
<1>8. ExistsBijection(1..m, Subscripts(d))
  BY <1>7 DEF ExistsBijection
<1>9. IsFiniteSet(1..m) /\ Cardinality(1..m) = m
  BY <1>1, FS_Interval
<1> QED
  BY <1>8, <1>9, FS_Bijection DEF m

\* A scalar has one element, with no subscripts.
LEMMA ScalarGrid ==
    /\ Product(<<>>) = 1 /\ Subscripts(<<>>) = {<<>>} /\ Position(<<>>, <<>>) = 1
<1> DEFINE d == <<>>
<1>1. d \in Seq(Nat \ {0}) /\ Len(d) = 0 /\ 1..0 = {}
  OBVIOUS
<1>2. Product(d) = 1
  BY <1>1, StridesOk DEF Product
<1>3. <<>> \in Subscripts(d)
  <2>1. Fits(d, <<>>)
    BY <1>1 DEF Fits
  <2> QED
    BY <1>1, <2>1, SubscriptsOk
<1>4. ASSUME NEW s \in Subscripts(d) PROVE s = <<>>
  <2>1. Fits(d, s) /\ Fits(d, <<>>)
    BY <1>1, <1>3, SubscriptsOk
  <2>2. s \in [1..0 -> Nat] /\ <<>> \in [1..0 -> Nat]
    BY <1>1, <2>1 DEF Fits
  <2> QED
    BY <1>1, <2>2
<1>5. Position(d, <<>>) \in 1..1
  BY <1>1, <1>2, <1>3, CoordsInverse
<1>6. Position(d, <<>>) = 1
  BY <1>5
<1> QED
  BY <1>2, <1>3, <1>4, <1>6

\* The position in an array of one axis is the subscript.
LEMMA VectorGrid ==
    ASSUME NEW m \in Nat \ {0}
    PROVE  /\ <<m>> \in Seq(Nat \ {0}) /\ Product(<<m>>) = m
           /\ Subscripts(<<m>>) = {<<i>> : i \in 1..m}
           /\ \A i \in Int : Position(<<m>>, <<i>>) = i
<1> DEFINE d == <<m>>
<1>1. d \in Seq(Nat \ {0}) /\ Len(d) = 1 /\ d[1] = m
  OBVIOUS
<1> HIDE DEF d
<1>2. Strides(d)[0] = 1 /\ Strides(d)[1] = Strides(d)[1 - 1] * d[1]
  BY <1>1, StridesOk
<1>3. \A i \in Nat : 1 * i = i /\ 1 - 1 = 0
  OBVIOUS
<1>4. Product(d) = m
  BY <1>1, <1>2, <1>3 DEF Product
<1>5. ASSUME NEW i \in Int PROVE Position(d, <<i>>) = i
  <2> DEFINE s == <<i>>
  <2>1. s \in [1..1 -> Int] /\ s[1] = i
    OBVIOUS
  <2> HIDE DEF s
  <2>2. Places(d, s)[0] = 1 /\ Places(d, s)[1] = Places(d, s)[1 - 1] + (s[1] - 1) * Strides(d)[1 - 1]
    <3>1. s \in [1..Len(d) -> Int] /\ 1 \in 1..Len(d)
      BY <1>1, <2>1
    <3>2. \A k \in 1..Len(d) :
            Places(d, s)[k] = Places(d, s)[k - 1] + (s[k] - 1) * Strides(d)[k - 1]
      BY <1>1, <3>1, PlacesOk
    <3>3. Places(d, s)[0] = 1
      BY <1>1, <3>1, PlacesOk
    <3> QED
      BY <3>1, <3>2, <3>3
  <2>3. \A j \in Int : 1 + (j - 1) * 1 = j
    OBVIOUS
  <2>4. Places(d, s)[1] = i
    BY <1>2, <2>1, <2>2, <2>3
  <2> QED
    BY <1>1, <2>4 DEF Position, s
<1>6. ASSUME NEW i \in 1..m PROVE <<i>> \in Subscripts(d)
  <2>1. <<i>> \in [1..1 -> Nat] /\ <<i>>[1] = i
    OBVIOUS
  <2>2. Fits(d, <<i>>)
    BY <1>1, <2>1 DEF Fits
  <2> QED
    BY <1>1, <2>2, SubscriptsOk
<1>7. ASSUME NEW s \in Subscripts(d) PROVE \E i \in 1..m : s = <<i>>
  <2>1. s \in [1..1 -> Nat] /\ 1 <= s[1] /\ s[1] <= m
    BY <1>1, SubscriptsOk DEF Fits
  <2>2. s[1] \in 1..m
    BY <2>1
  <2>3. s = <<s[1]>>
    BY <2>1
  <2> QED
    BY <2>2, <2>3
<1> QED
  BY <1>1, <1>4, <1>5, <1>6, <1>7 DEF d

\* The first element has the subscripts 1, the last the dimensions.
LEMMA Corners ==
    ASSUME NEW d \in Seq(Nat \ {0})
    PROVE  /\ [i \in 1..Len(d) |-> 1] \in Subscripts(d)
           /\ Position(d, [i \in 1..Len(d) |-> 1]) = 1
           /\ d \in Subscripts(d) /\ Position(d, d) = Product(d)
<1> DEFINE n == Len(d)
           m == Product(d)
           ones == [i \in 1..n |-> 1]
           s == Index2Coords(1, d)
           t == Index2Coords(m, d)
<1>1. m \in Nat \ {0} /\ 1 \in 1..m /\ m \in 1..m
  BY ProductOk
<1>2. Fits(d, s) /\ Position(d, s) = 1
  BY <1>1, CoordsOk
<1>3. Fits(d, t) /\ Position(d, t) = m
  BY <1>1, CoordsOk
<1>4. n \in Nat /\ d \in [1..n -> Nat] /\ \A i \in 1..n : 1 <= d[i]
  OBVIOUS
<1>5. Fits(d, ones)
  BY <1>4 DEF Fits
<1>6. Fits(d, d)
  BY <1>4 DEF Fits
<1>7. Position(d, ones) \in 1..m /\ Position(d, d) \in 1..m
  BY <1>5, <1>6, PlaceBounds
<1>8. ~Precedes(n, s, ones)
  <2> SUFFICES ASSUME NEW k \in 1..n, s[k] < ones[k] PROVE FALSE
    BY DEF Precedes
  <2>1. ones[k] = 1 /\ s[k] \in Nat /\ 1 <= s[k]
    BY <1>2 DEF Fits
  <2> HIDE DEF s, ones
  <2> QED
    BY <2>1
<1>9. ~Precedes(n, d, t)
  <2> SUFFICES ASSUME NEW k \in 1..n, d[k] < t[k] PROVE FALSE
    BY DEF Precedes
  <2>1. d[k] \in Nat /\ t[k] \in Nat /\ t[k] <= d[k]
    BY <1>3, <1>4 DEF Fits
  <2> HIDE DEF t
  <2> QED
    BY <2>1
<1> HIDE DEF m, ones, s, t
<1>10. ~(1 < Position(d, ones))
  BY <1>2, <1>5, <1>8, PositionOrder
<1>11. ~(Position(d, d) < m)
  BY <1>3, <1>6, <1>9, PositionOrder
<1>12. Position(d, ones) = 1 /\ Position(d, d) = m
  BY <1>1, <1>7, <1>10, <1>11
<1>13. ones \in Subscripts(d) /\ d \in Subscripts(d)
  BY <1>5, <1>6, SubscriptsOk
<1> QED
  BY <1>12, <1>13 DEF m, ones

\* A part of a grid that has as many elements is all of it.
LEMMA WholePart ==
    ASSUME NEW d \in Seq(Nat \ {0}), NEW e \in Seq(Nat \ {0}), Len(d) = Len(e),
           \A i \in 1..Len(d) : d[i] <= e[i]
    PROVE  /\ Product(d) <= Product(e)
           /\ Product(d) = Product(e) => \A i \in 1..Len(d) : d[i] = e[i]
<1> DEFINE n == Len(d)
           p == Strides(d)
           q == Strides(e)
           T == {k \in 0..n : p[k] <= q[k] /\ (p[k] = q[k] => \A i \in 1..k : d[i] = e[i])}
<1>1. n \in Nat /\ n = Len(e) /\ \A k \in 1..n : d[k] \in Nat \ {0} /\ e[k] \in Nat \ {0} /\ d[k] <= e[k]
  OBVIOUS
<1>2. p \in [0..n -> Nat \ {0}] /\ p[0] = 1 /\ \A k \in 1..n : p[k] = p[k - 1] * d[k]
  BY StridesOk
<1>3. q \in [0..n -> Nat \ {0}] /\ q[0] = 1 /\ \A k \in 1..n : q[k] = q[k - 1] * e[k]
  BY <1>1, StridesOk
<1> HIDE DEF p, q, n
<1>4. 0 \in T
  BY <1>1, <1>2, <1>3
<1>5. ASSUME NEW k \in 1..n, k - 1 \in T PROVE k \in T
  <2> DEFINE a == p[k - 1]
             b == q[k - 1]
             x == d[k]
             y == e[k]
  <2>1. k - 1 \in 0..n /\ k \in 0..n
    BY <1>1
  <2>2. a \in Nat \ {0} /\ b \in Nat \ {0} /\ x \in Nat \ {0} /\ y \in Nat \ {0} /\ x <= y /\ a <= b
    BY <1>1, <1>2, <1>3, <1>5, <2>1
  <2>3. p[k] = a * x /\ q[k] = b * y
    BY <1>2, <1>3
  <2>4. a = b => \A i \in 1..(k - 1) : d[i] = e[i]
    BY <1>5
  <2> HIDE DEF a, b
  <2>5. b * y = a * x + (b - a) * y + a * (y - x)
    <3>1. \A i, j, l, m \in Int : j * m = i * l + (j - i) * m + i * (m - l)
      OBVIOUS
    <3> HIDE DEF x, y
    <3> QED
      BY <2>2, <3>1
  <2>6. (b - a) * y \in Nat /\ a * (y - x) \in Nat /\ a * x \in Nat
    <3>1. \A i, j \in Nat : i * j \in Nat
      OBVIOUS
    <3>2. b - a \in Nat /\ y - x \in Nat
      BY <2>2
    <3> HIDE DEF x, y
    <3> QED
      BY <2>2, <3>1, <3>2
  <2>7. (b - a) * y = 0 => a = b
    <3>1. \A i \in Nat, j \in Nat \ {0} : i * j = 0 => i = 0
      OBVIOUS
    <3>2. b - a \in Nat
      BY <2>2
    <3> HIDE DEF x, y
    <3>3. (b - a) * y = 0 => b - a = 0
      BY <2>2, <3>1, <3>2
    <3> QED
      BY <2>2, <3>3
  <2>8. a * (y - x) = 0 => x = y
    <3>1. \A i \in Nat, j \in Nat \ {0} : j * i = 0 => i = 0
      OBVIOUS
    <3>2. y - x \in Nat
      BY <2>2
    <3> HIDE DEF x, y
    <3>3. a * (y - x) = 0 => y - x = 0
      BY <2>2, <3>1, <3>2
    <3> QED
      BY <2>2, <3>3
  <2> DEFINE u == (b - a) * y
             v == a * (y - x)
             w == a * x
             z == b * y
  <2>9. /\ z = w + u + v /\ u \in Nat /\ v \in Nat /\ w \in Nat
        /\ p[k] = w /\ q[k] = z /\ (u = 0 => a = b) /\ (v = 0 => x = y)
    BY <2>3, <2>5, <2>6, <2>7, <2>8
  <2> HIDE DEF u, v, w, z
  <2>10. p[k] <= q[k] /\ (p[k] = q[k] => a = b /\ x = y)
    BY <2>9
  <2>11. a = b /\ x = y => \A i \in 1..k : d[i] = e[i]
    <3>1. \A i \in 1..k : i = k \/ i \in 1..(k - 1)
      BY <1>1
    <3> QED
      BY <2>4, <3>1
  <2> QED
    BY <2>1, <2>10, <2>11
<1>6. n \in T
  <2> HIDE DEF T
  <2>1. \A k \in 0..n : k \in T
    BY <1>1, <1>4, <1>5, UpTo
  <2> QED
    BY <1>1, <2>1
<1> QED
  BY <1>1, <1>6 DEF Product, p, q, n

\* Subscripts moved by the corner lo of a box.
Shift(lo, s) == [i \in DOMAIN s |-> s[i] + lo[i] - 1]

\* A box in an array: its elements come in the order of their subscripts in it.
LEMMA ShiftOrder ==
    ASSUME NEW d \in Seq(Nat \ {0}), NEW e \in Seq(Nat \ {0}), Len(e) = Len(d),
           NEW lo \in [1..Len(d) -> Nat \ {0}], \A i \in 1..Len(d) : lo[i] + e[i] - 1 <= d[i]
    PROVE  /\ \A s \in Subscripts(e) : Shift(lo, s) \in Subscripts(d)
           /\ \A s, t \in Subscripts(e) :
                 Position(e, s) < Position(e, t)
                 => Position(d, Shift(lo, s)) < Position(d, Shift(lo, t))
<1> DEFINE n == Len(d)
<1>1. n \in Nat /\ n = Len(e) /\ \A i \in 1..n : d[i] \in Nat /\ e[i] \in Nat /\ lo[i] \in Nat /\ 1 <= lo[i]
  <2>1. \A i \in 1..n : lo[i] \in Nat \ {0}
    OBVIOUS
  <2>2. n \in Nat /\ n = Len(e) /\ \A i \in 1..n : d[i] \in Nat /\ e[i] \in Nat
    OBVIOUS
  <2> HIDE DEF n
  <2> QED
    BY <2>1, <2>2
<1>2. \A i \in 1..n : lo[i] + e[i] - 1 <= d[i]
  OBVIOUS
<1>3. ASSUME NEW s \in Subscripts(e)
      PROVE  /\ Fits(e, s) /\ Fits(d, Shift(lo, s))
             /\ \A i \in 1..n : Shift(lo, s)[i] = s[i] + lo[i] - 1 /\ s[i] \in Nat
  <2>1. Fits(e, s)
    BY SubscriptsOk
  <2>2. s \in [1..n -> Nat] /\ \A i \in 1..n : 1 <= s[i] /\ s[i] <= e[i]
    BY <1>1, <2>1 DEF Fits
  <2>3. Shift(lo, s) = [i \in 1..n |-> s[i] + lo[i] - 1]
    BY <2>2 DEF Shift
  <2> HIDE DEF n
  <2>4. ASSUME NEW i \in 1..n
        PROVE  s[i] + lo[i] - 1 \in Nat /\ 1 <= s[i] + lo[i] - 1 /\ s[i] + lo[i] - 1 <= d[i]
    <3>1. s[i] \in Nat /\ lo[i] \in Nat /\ 1 <= s[i] /\ s[i] <= e[i] /\ 1 <= lo[i]
          /\ e[i] \in Nat /\ d[i] \in Nat /\ lo[i] + e[i] - 1 <= d[i]
      BY <1>1, <1>2, <2>2
    <3> QED
      BY SMTT(40), <3>1
  <2>5. Fits(d, Shift(lo, s))
    BY <2>3, <2>4 DEF Fits, n
  <2> QED
    BY <2>1, <2>2, <2>3, <2>5
<1>4. ASSUME NEW s \in Subscripts(e), NEW t \in Subscripts(e), Position(e, s) < Position(e, t)
      PROVE  Position(d, Shift(lo, s)) < Position(d, Shift(lo, t))
  <2>1. Fits(e, s) /\ Fits(e, t) /\ Fits(d, Shift(lo, s)) /\ Fits(d, Shift(lo, t))
    BY <1>3
  <2>2. Precedes(n, s, t)
    BY <1>1, <1>4, <2>1, PositionOrder
  <2> HIDE DEF n
  <2>3. PICK k \in 1..n : s[k] < t[k] /\ \A j \in (k + 1)..n : s[j] = t[j]
    BY <2>2 DEF Precedes
  <2>4. Shift(lo, s)[k] < Shift(lo, t)[k]
    <3>1. /\ Shift(lo, s)[k] = s[k] + lo[k] - 1 /\ Shift(lo, t)[k] = t[k] + lo[k] - 1
          /\ s[k] \in Nat /\ t[k] \in Nat /\ lo[k] \in Nat
      BY <1>1, <1>3
    <3> QED
      BY <2>3, <3>1
  <2>5. ASSUME NEW j \in (k + 1)..n PROVE Shift(lo, s)[j] = Shift(lo, t)[j]
    <3>1. j \in 1..n
      BY <1>1
    <3> QED
      BY <1>3, <2>3, <3>1
  <2>6. Precedes(n, Shift(lo, s), Shift(lo, t))
    BY <2>4, <2>5 DEF Precedes
  <2> QED
    BY <2>1, <2>6, PositionOrder DEF n
<1> QED
  BY <1>3, <1>4, SubscriptsOk

-----------------------------------------------------------------------------
(* Alter *)

\* No component is deleted.
NoneLost == \A s \in DOMAIN cells : cells[s] => s \in DOMAIN cells' /\ cells'[s]

\* An error that is not "lost" leaves the array as it was.
LeftAsItWas == outcome' \in ErrorAlone => UNCHANGED <<there, values, size>>
FoundInLeft ==
    outcome' = "lost" /\ ~unwritten' => \E d \in leftover' : SavedIn(d)

\* New cells take nothing from those that are there.
LEMMA ExtendSafe ==
    ASSUME NEW new, Extend(new)
    PROVE  NoneLost /\ (outcome' \in ErrorAlone => UNCHANGED size)
<1>1. PICK added : cells' = [s \in DOMAIN cells \cup added |-> s \in DOMAIN cells /\ cells[s]]
  BY DEF Extend
<1>2. NoneLost
  BY <1>1 DEF NoneLost
<1>3. outcome' \in ErrorAlone => UNCHANGED size
  BY DEF Extend, ErrorAlone
<1> QED
  BY <1>2, <1>3

\* A cell that holds components stops the loop that deletes, so it is not one
\* of those deleted before.
LEMMA ShrinkSafe ==
    ASSUME NEW new, Shrink(new)
    PROVE  NoneLost /\ (outcome' \in ErrorAlone => UNCHANGED size)
<1> DEFINE from == Product(new) + 1
           bad == {s \in CellsFrom(size, from) : s \in DOMAIN cells => cells[s]}
           gone == CellsUntil(size, from, bad)
<1>1. cells' = Restrict(cells, DOMAIN cells \ gone)
  BY DEF Shrink
<1>2. ASSUME NEW s \in DOMAIN cells, cells[s] PROVE s \notin gone
  <2> SUFFICES ASSUME s \in gone PROVE FALSE
    OBVIOUS
  <2>1. PICK m \in from..Product(size) : s = Index2Coords(m, size) /\ \A i \in from..m : Index2Coords(i, size) \notin bad
    BY DEF CellsUntil
  <2>2. s \in bad
    BY <1>2, <2>1 DEF CellsFrom
  <2>3. m \in from..m
    BY <2>1
  <2> QED
    BY <2>1, <2>2, <2>3
<1>3. NoneLost
  <2> HIDE DEF gone
  <2> QED
    BY <1>1, <1>2 DEF NoneLost, Restrict
<1>4. outcome' \in ErrorAlone => UNCHANGED size
  BY DEF Shrink, ErrorAlone
<1> QED
  BY <1>3, <1>4

\* What a step of an altered array relies on.
AInv ==
    /\ sort \in {"primitive", "structure"}
    /\ size \in AlterShape
    /\ cells \in [DOMAIN cells -> BOOLEAN]
    /\ values = Undefined \/ values \in [1..Product(size) -> Nat]
    /\ sort = "structure" => values = Undefined

\* A new array is what AInv says.
LEMMA AltInit == AInit => AInv
<1> SUFFICES ASSUME AInit PROVE AInv
  OBVIOUS
<1>1. cells \in [DOMAIN cells -> BOOLEAN]
  BY DEF AInit
<1> QED
  BY <1>1 DEF AInit, AInv

\* A primitive that was made longer or shorter holds numbers still.
LEMMA ResizedOk ==
    ASSUME AInv, NEW new \in AlterShape
    PROVE  Resized(new) = Undefined \/ Resized(new) \in [1..Product(new) -> Nat]
<1>1. CASE values = Undefined
  BY <1>1 DEF Resized
<1>2. CASE values # Undefined
  <2>1. size \in Seq(Nat \ {0})
    BY AlterAssumption DEF AInv
  <2> DEFINE m == Product(size)
  <2>2. m \in Nat
    BY <2>1, ProductOk
  <2> HIDE DEF m
  <2>3. values \in [1..m -> Nat] /\ Len(values) = m
    <3>1. values \in [1..m -> Nat]
      BY <1>2 DEF AInv, m
    <3> QED
      BY <2>2, <3>1
  <2>4. ASSUME NEW i \in 1..Product(new) PROVE (IF i <= Len(values) THEN values[i] ELSE 0) \in Nat
    BY <2>2, <2>3
  <2>5. Resized(new) = [i \in 1..Product(new) |-> IF i <= Len(values) THEN values[i] ELSE 0]
    BY <1>2 DEF Resized
  <2> QED
    BY <2>4, <2>5
<1> QED
  BY <1>1, <1>2

\* What unmapping stores is numbers too, if not all of them.
LEMMA TornOk ==
    ASSUME AInv, NEW new \in AlterShape, NEW held \in {Resized(new)} \cup Torn(new)
    PROVE  held = Undefined \/ held \in [1..Product(new) -> Nat]
<1>1. CASE held = Resized(new)
  BY <1>1, ResizedOk
<1>2. CASE held \in Torn(new) /\ held # Undefined
  <2>1. values # Undefined /\ \E k \in 0..(Product(new) - 1) :
            held = [n \in 1..Product(new) |-> IF n <= k THEN Resized(new)[n] ELSE 0]
    BY <1>2 DEF Torn
  <2>2. PICK k \in 0..(Product(new) - 1) :
            held = [n \in 1..Product(new) |-> IF n <= k THEN Resized(new)[n] ELSE 0]
    BY <2>1
  <2>3. Resized(new) \in [1..Product(new) -> Nat]
    <3>1. Product(new) \in Nat \ {0}
      BY AlterAssumption, ProductOk
    <3>2. 1 \in DOMAIN Resized(new)
      BY <2>1, <3>1 DEF Resized
    <3>3. DOMAIN Undefined = {}
      BY DEF Undefined
    <3> QED
      BY <3>2, <3>3, ResizedOk
  <2> HIDE DEF Resized
  <2> QED
    BY <2>2, <2>3
<1> QED
  BY <1>1, <1>2

\* Every call keeps AInv.
LEMMA AltStep == AInv /\ [ANext]_avars => AInv'
<1> SUFFICES ASSUME AInv, [ANext]_avars PROVE AInv'
  OBVIOUS
<1>1. ASSUME NEW new \in AlterShape, DatAlter(new) PROVE AInv'
  <2>1. CASE AlterStructure(new)
    <3>1. values' = Undefined /\ sort' = sort /\ (size' = new \/ size' = size)
      BY <2>1 DEF AlterStructure, Extend, Shrink, AInv
    <3>2. cells' \in [DOMAIN cells' -> BOOLEAN]
      <4>1. Extend(new) => cells' \in [DOMAIN cells' -> BOOLEAN]
        BY DEF Extend
      <4>2. Shrink(new) => cells' \in [DOMAIN cells' -> BOOLEAN]
        <5> SUFFICES ASSUME Shrink(new) PROVE cells' \in [DOMAIN cells' -> BOOLEAN]
          OBVIOUS
        <5>1. PICK S : cells' = Restrict(cells, DOMAIN cells \ S)
          BY DEF Shrink
        <5>2. cells' = [s \in DOMAIN cells \ S |-> cells[s]]
          BY <5>1 DEF Restrict
        <5> QED
          BY <5>2 DEF AInv
      <4>3. UNCHANGED cells => cells' \in [DOMAIN cells' -> BOOLEAN]
        BY DEF AInv
      <4> QED
        BY <2>1, <4>1, <4>2, <4>3 DEF AlterStructure
    <3> QED
      BY <3>1, <3>2 DEF AInv
  <2>2. CASE AlterPrimitive(new)
    <3>1. sort' = "primitive" /\ UNCHANGED cells
      BY <2>2 DEF AlterPrimitive
    <3>2. \/ values' \in {Resized(new)} \cup Torn(new) /\ size' = new
          \/ UNCHANGED <<values, size>>
      BY <2>2 DEF AlterPrimitive, NotMade, NotCopied, NotErased, NotRenamed, Failed, Replaced
    <3>3. size' \in AlterShape /\ (values' = Undefined \/ values' \in [1..Product(size') -> Nat])
      BY <3>2, TornOk DEF AInv
    <3> QED
      BY <3>1, <3>3 DEF AInv
  <2>3. CASE Reject("DIMIN")
    BY <2>3 DEF Reject, AInv
  <2> QED
    BY <1>1, <2>1, <2>2, <2>3 DEF DatAlter
<1>2. ASSUME PutAll PROVE AInv'
  <2>1. size \in Seq(Nat \ {0})
    BY AlterAssumption DEF AInv
  <2>2. values' = [n \in 1..Product(size) |-> n] /\ UNCHANGED <<sort, size, cells>> /\ sort = "primitive"
    BY <1>2 DEF PutAll
  <2>3. \A n \in 1..Product(size) : n \in Nat
    BY <2>1, ProductOk
  <2>4. values' \in [1..Product(size') -> Nat]
    BY <2>2, <2>3
  <2> QED
    BY <2>2, <2>4 DEF AInv
<1>3. ASSUME PutInCell PROVE AInv'
  BY <1>3 DEF PutInCell, AInv
<1>4. ASSUME FindAgain PROVE AInv'
  BY <1>4 DEF FindAgain, Reject, AInv
<1>5. CASE UNCHANGED avars
  BY <1>5 DEF avars, AInv
<1> QED
  BY <1>1, <1>2, <1>3, <1>4, <1>5 DEF ANext

\* The values of the new dataset agree with the old ones as far as they go.
LEMMA ResizedSaves ==
    ASSUME NEW new, size \in Seq(Nat \ {0}), new \in Seq(Nat \ {0}),
           values = Undefined \/ values \in [1..Product(size) -> Nat]
    PROVE  SavedIn([size |-> new, values |-> Resized(new)])
<1> DEFINE m == Product(size)
<1>1. m \in Nat /\ Product(new) \in Nat \ {0}
  BY ProductOk
<1>2. CASE values = Undefined
  BY <1>2 DEF SavedIn, Undefined
<1>3. CASE values # Undefined
  <2> HIDE DEF m
  <2>1. values \in [1..m -> Nat] /\ Len(values) = m
    <3>1. values \in [1..m -> Nat]
      BY <1>3 DEF m
    <3> QED
      BY <1>1, <3>1
  <2>2. Resized(new) = [n \in 1..Product(new) |-> IF n <= m THEN values[n] ELSE 0]
    BY <1>3, <2>1 DEF Resized
  <2>3. Resized(new) # Undefined
    <3>1. 1 \in DOMAIN Resized(new)
      BY <1>1, <2>2
    <3>2. DOMAIN Undefined = {}
      BY DEF Undefined
    <3> QED
      BY <3>1, <3>2
  <2>4. \A n \in DOMAIN values \cap DOMAIN Resized(new) : Resized(new)[n] = values[n]
    BY <1>1, <2>1, <2>2
  <2> QED
    BY <2>3, <2>4 DEF SavedIn
<1> QED
  BY <1>2, <1>3

\* Nor does a primitive lose anything that HDF5 could write: if the renaming
\* fails, the values are in what is left.
LEMMA AlterSafe ==
    ASSUME AInv, NEW new \in AlterShape, DatAlter(new)
    PROVE  NoneLost /\ LeftAsItWas /\ FoundInLeft
<1>1. CASE Accepted(new) /\ AlterStructure(new)
  <2>1. UNCHANGED <<there, values>>
    BY <1>1 DEF AlterStructure
  <2>2. NoneLost /\ (outcome' \in ErrorAlone => UNCHANGED size)
    BY <1>1, ExtendSafe, ShrinkSafe DEF AlterStructure, NoneLost
  <2>3. outcome' # "lost"
    BY <1>1 DEF AlterStructure, Extend, Shrink
  <2> QED
    BY <2>1, <2>2, <2>3 DEF LeftAsItWas, FoundInLeft
<1>2. CASE Accepted(new) /\ AlterPrimitive(new)
  <2>1. NoneLost
    BY <1>2 DEF AlterPrimitive, NoneLost
  <2>2. LeftAsItWas
    BY <1>2 DEF AlterPrimitive, NotMade, NotCopied, NotErased, NotRenamed, Failed, Replaced,
                LeftAsItWas, ErrorAlone
  <2>3. ASSUME outcome' = "lost", ~unwritten' PROVE \E d \in leftover' : SavedIn(d)
    <3>1. leftover' = Dataset(new, Resized(new))
      BY <1>2, <2>3 DEF AlterPrimitive, NotMade, NotCopied, NotErased, NotRenamed, Failed, Replaced
    <3>2. SavedIn([size |-> new, values |-> Resized(new)])
      BY AlterAssumption, ResizedSaves DEF AInv
    <3> QED
      BY <3>1, <3>2 DEF Dataset
  <2> QED
    BY <2>1, <2>2, <2>3 DEF FoundInLeft
<1>3. CASE ~Accepted(new)
  BY <1>3 DEF DatAlter, Reject, NoneLost, LeftAsItWas, FoundInLeft
<1> QED
  BY <1>1, <1>2, <1>3 DEF DatAlter

\* AlteredSafely: datAlter never deletes a component of a structure array, also
\* when it fails, leaves a primitive as it was if it fails before the very end,
\* and has its values under the temporary name if the renaming fails, unless
\* HDF5 could not write them; for arrays of any dimensions.
THEOREM AlteringIsSafe == ASpec => AlteredSafely
<1> DEFINE Safe == /\ \A s \in DOMAIN cells : cells[s] => s \in DOMAIN cells' /\ cells'[s]
                   /\ outcome' \in ErrorAlone => UNCHANGED <<there, values, size>>
                   /\ outcome' = "lost" /\ ~unwritten' => \E d \in leftover' : SavedIn(d)
<1>1. AInv /\ [ANext]_avars => [Safe]_avars
  <2> SUFFICES ASSUME AInv, ANext PROVE Safe
    OBVIOUS
  <2>1. ASSUME NEW new \in AlterShape, DatAlter(new) PROVE Safe
    BY <2>1, AlterSafe DEF NoneLost, LeftAsItWas, FoundInLeft
  <2>2. PutAll => Safe
    BY DEF PutAll, ErrorAlone
  <2>3. PutInCell => Safe
    BY DEF PutInCell, ErrorAlone
  <2>4. FindAgain => Safe
    BY DEF FindAgain, Reject, ErrorAlone
  <2> QED
    BY <2>1, <2>2, <2>3, <2>4 DEF ANext
<1>2. ASpec => []AInv
  BY AltInit, AltStep, PTL DEF ASpec
<1> QED
  BY <1>1, <1>2, PTL DEF ASpec, AlteredSafely

\* What AlteredRight says of a step.
Altered ==
    outcome' = "OK" /\ ~unwritten' /\ size' # size /\ AllButLast(size') = AllButLast(size)
Kept ==
    \A s \in Subscripts(size') : Holding(s)' = IF s \in Subscripts(size) THEN Holding(s)
                                               ELSE IF sort = "structure" THEN FALSE ELSE 0

\* Two arrays whose dimensions differ on the last axis only: an element of the
\* one is one of the other if its position is.
LEMMA Regrown ==
    ASSUME NEW d \in Seq(Nat \ {0}), NEW e \in Seq(Nat \ {0}), Len(d) = Len(e), d # e,
           AllButLast(e) = AllButLast(d), NEW s \in Subscripts(e)
    PROVE  /\ s \in Subscripts(d) <=> Position(e, s) <= Product(d)
           /\ Position(d, s) = Position(e, s)
           /\ Position(e, s) \in 1..Product(e)
<1> DEFINE n == Len(d)
<1>1. n \in Nat
  OBVIOUS
<1>2. ASSUME NEW k \in 1..(n - 1) PROVE d[k] = e[k]
  <2>1. AllButLast(d)[k] = d[k]
    BY DEF AllButLast
  <2>2. AllButLast(e)[k] = e[k]
    BY DEF AllButLast
  <2> QED
    BY <2>1, <2>2
<1>3. Fits(e, s)
  BY SubscriptsOk
<1>4. (Fits(d, s) <=> Position(e, s) <= Product(d)) /\ Position(d, s) = Position(e, s)
  BY <1>2, <1>3, SameButLast
<1>5. Position(e, s) \in 1..Product(e)
  BY <1>3, PlaceBounds
<1> QED
  BY <1>4, <1>5, SubscriptsOk

\* The cells of a grid from a place on: those whose position is not before it.
LEMMA CellsFromOk ==
    ASSUME NEW d \in Seq(Nat \ {0}), NEW from \in Nat \ {0}, NEW s \in Subscripts(d)
    PROVE  s \in CellsFrom(d, from) <=> Position(d, s) >= from
<1>1. Position(d, s) \in 1..Product(d) /\ Product(d) \in Nat
  BY CoordsInverse, ProductOk
<1>2. ASSUME s \in CellsFrom(d, from) PROVE Position(d, s) >= from
  <2>1. PICK i \in from..Product(d) : s = Index2Coords(i, d)
    BY <1>2 DEF CellsFrom
  <2>2. i \in 1..Product(d)
    BY <1>1, <2>1
  <2>3. Position(d, s) = i
    BY <2>1, <2>2, CoordsOk
  <2> QED
    BY <2>1, <2>3
<1>3. ASSUME Position(d, s) >= from PROVE s \in CellsFrom(d, from)
  <2> DEFINE i == Position(d, s)
  <2>1. s = Index2Coords(i, d)
    BY CoordsInverse
  <2>2. i \in from..Product(d)
    BY <1>1, <1>3
  <2> HIDE DEF i
  <2> QED
    BY <2>1, <2>2 DEF CellsFrom
<1> QED
  BY <1>2, <1>3

\* And they are subscripts of the grid.
LEMMA CellsFromIn ==
    ASSUME NEW d \in Seq(Nat \ {0}), NEW from \in Nat \ {0}
    PROVE  CellsFrom(d, from) \subseteq Subscripts(d) /\ CellsUntil(d, from, {}) = CellsFrom(d, from)
<1>1. ASSUME NEW s \in CellsFrom(d, from) PROVE s \in Subscripts(d)
  <2>1. PICK i \in from..Product(d) : s = Index2Coords(i, d)
    BY <1>1 DEF CellsFrom
  <2>2. i \in 1..Product(d)
    BY <2>1, ProductOk
  <2> QED
    BY <2>1, <2>2, CoordsOk, SubscriptsOk
<1>2. CellsUntil(d, from, {}) = CellsFrom(d, from)
  BY DEF CellsUntil, CellsFrom
<1> QED
  BY <1>1, <1>2

\* A structure array that was made longer.
LEMMA ExtendRight ==
    ASSUME AInv, NEW new \in AlterShape, Len(new) = Len(size), Product(new) > Product(size),
           Extend(new), sort = "structure", sort' = sort, Altered
    PROVE  Kept /\ (Complete => Complete')
<1> DEFINE from == Product(size) + 1
           made == CellsFrom(new, from)
<1>1. size \in Seq(Nat \ {0}) /\ new \in Seq(Nat \ {0})
  BY AlterAssumption DEF AInv
<1>2. Product(size) \in Nat \ {0} /\ Product(new) \in Nat \ {0} /\ from \in Nat \ {0}
  BY <1>1, ProductOk
<1>3. /\ size' = new /\ new # size
      /\ cells' = [s \in DOMAIN cells \cup made |-> s \in DOMAIN cells /\ cells[s]]
      /\ made \cap DOMAIN cells = {}
  <2> DEFINE bad == CellsFrom(new, from) \cap DOMAIN cells
  <2>1. bad = {}
    BY DEF Extend, Altered
  <2>2. cells' = [s \in DOMAIN cells \cup CellsUntil(new, from, bad) |-> s \in DOMAIN cells /\ cells[s]]
    BY DEF Extend
  <2>3. CellsUntil(new, from, {}) = made
    BY <1>1, <1>2, CellsFromIn
  <2>4. size' = new /\ new # size
    BY <2>1 DEF Extend, Altered
  <2> QED
    BY <2>1, <2>2, <2>3, <2>4
<1>4. AllButLast(new) = AllButLast(size)
  BY <1>3 DEF Altered
<1>6. ASSUME NEW s \in Subscripts(new) PROVE s \in Subscripts(size) \/ s \in made
  <2>1. s \in Subscripts(size) <=> Position(new, s) <= Product(size)
    BY <1>1, <1>3, <1>4, Regrown
  <2>2. s \in made <=> Position(new, s) >= from
    BY <1>1, <1>2, CellsFromOk
  <2>3. Position(new, s) \in Nat
    BY <1>1, <1>3, <1>4, Regrown
  <2> QED
    BY <1>2, <2>1, <2>2, <2>3
<1>7. ASSUME NEW s \in Subscripts(size) PROVE s \in Subscripts(new)
  <2>1. s \in Subscripts(new) <=> Position(size, s) <= Product(new)
    BY <1>1, <1>3, <1>4, Regrown
  <2>2. Position(size, s) \in 1..Product(size)
    BY <1>1, <1>3, <1>4, Regrown
  <2> QED
    BY <1>2, <2>1, <2>2
<1>8. made \subseteq Subscripts(new)
  BY <1>1, <1>2, CellsFromIn
<1> HIDE DEF from, made
<1>9. ASSUME Complete PROVE Complete'
  <2>1. DOMAIN cells = Subscripts(size)
    BY <1>9 DEF Complete
  <2>2. DOMAIN cells' = Subscripts(new)
    BY <1>3, <1>6, <1>7, <1>8, <2>1
  <2> QED
    BY <1>3, <2>2 DEF Complete
<1>10. ASSUME NEW s \in Subscripts(size')
       PROVE  Holding(s)' = IF s \in Subscripts(size) THEN Holding(s) ELSE FALSE
  <2>1. Holding(s)' = (s \in DOMAIN cells' /\ cells'[s])
    BY DEF Holding
  <2>2. Holding(s) = (s \in DOMAIN cells /\ cells[s])
    BY DEF Holding
  <2>3. s \in Subscripts(size) \/ s \notin DOMAIN cells
    BY <1>3, <1>6, <1>10
  <2>4. s \in DOMAIN cells' => cells'[s] = (s \in DOMAIN cells /\ cells[s])
    BY <1>3
  <2>5. s \in DOMAIN cells => s \in DOMAIN cells'
    BY <1>3
  <2> QED
    BY <2>1, <2>2, <2>3, <2>4, <2>5
<1>11. Kept
  BY <1>10 DEF Kept
<1> QED
  BY <1>9, <1>11

\* A structure array that was made shorter.
LEMMA ShrinkRight ==
    ASSUME AInv, NEW new \in AlterShape, Len(new) = Len(size), Product(new) < Product(size),
           Shrink(new), sort = "structure", sort' = sort, Altered
    PROVE  Kept /\ (Complete => Complete')
<1> DEFINE from == Product(new) + 1
           gone == CellsFrom(size, from)
<1>1. size \in Seq(Nat \ {0}) /\ new \in Seq(Nat \ {0})
  BY AlterAssumption DEF AInv
<1>2. Product(size) \in Nat \ {0} /\ Product(new) \in Nat \ {0} /\ from \in Nat \ {0}
  BY <1>1, ProductOk
<1>3. /\ size' = new /\ new # size
      /\ cells' = [s \in DOMAIN cells \ gone |-> cells[s]]
  <2> DEFINE bad == {s \in CellsFrom(size, from) : s \in DOMAIN cells => cells[s]}
  <2>1. bad = {}
    BY DEF Shrink, Altered
  <2>2. cells' = Restrict(cells, DOMAIN cells \ CellsUntil(size, from, bad))
    BY DEF Shrink
  <2>3. CellsUntil(size, from, {}) = gone
    BY <1>1, <1>2, CellsFromIn
  <2>4. size' = new /\ new # size
    BY <2>1 DEF Shrink, Altered
  <2>5. cells' = Restrict(cells, DOMAIN cells \ gone)
    BY <2>1, <2>2, <2>3
  <2> HIDE DEF gone
  <2> QED
    BY <2>4, <2>5 DEF Restrict
<1>4. AllButLast(new) = AllButLast(size)
  BY <1>3 DEF Altered
<1>6. ASSUME NEW s \in Subscripts(size) PROVE s \in Subscripts(new) <=> s \notin gone
  <2>1. s \in Subscripts(new) <=> Position(size, s) <= Product(new)
    BY <1>1, <1>3, <1>4, Regrown
  <2>2. s \in gone <=> Position(size, s) >= from
    BY <1>1, <1>2, CellsFromOk
  <2>3. Position(size, s) \in Nat
    BY <1>1, <1>3, <1>4, Regrown
  <2> QED
    BY <1>2, <2>1, <2>2, <2>3
<1>7. ASSUME NEW s \in Subscripts(new) PROVE s \in Subscripts(size)
  <2>1. s \in Subscripts(size) <=> Position(new, s) <= Product(size)
    BY <1>1, <1>3, <1>4, Regrown
  <2>2. Position(new, s) \in 1..Product(new)
    BY <1>1, <1>3, <1>4, Regrown
  <2> QED
    BY <1>2, <2>1, <2>2
<1> HIDE DEF from, gone
<1>8. ASSUME Complete PROVE Complete'
  <2>1. DOMAIN cells = Subscripts(size)
    BY <1>8 DEF Complete
  <2>2. DOMAIN cells' = Subscripts(new)
    BY <1>3, <1>6, <1>7, <2>1
  <2> QED
    BY <1>3, <2>2 DEF Complete
<1>9. ASSUME NEW s \in Subscripts(size')
      PROVE  Holding(s)' = IF s \in Subscripts(size) THEN Holding(s) ELSE FALSE
  <2>1. s \in Subscripts(size) /\ s \notin gone
    BY <1>3, <1>6, <1>7, <1>9
  <2>2. Holding(s)' = (s \in DOMAIN cells' /\ cells'[s])
    BY DEF Holding
  <2>3. Holding(s) = (s \in DOMAIN cells /\ cells[s])
    BY DEF Holding
  <2>4. s \in DOMAIN cells <=> s \in DOMAIN cells'
    BY <1>3, <2>1
  <2>5. s \in DOMAIN cells' => cells'[s] = cells[s]
    BY <1>3
  <2> QED
    BY <2>1, <2>2, <2>3, <2>4, <2>5
<1>10. Kept
  BY <1>9 DEF Kept
<1> QED
  BY <1>8, <1>10

\* A primitive of another size.
LEMMA ResizeRight ==
    ASSUME AInv, NEW new \in AlterShape, Len(new) = Len(size),
           values' = Resized(new), size' = new, sort = "primitive", sort' = sort, Altered
    PROVE  Kept /\ (Complete => Complete')
<1> DEFINE m == Product(size)
<1>1. size \in Seq(Nat \ {0}) /\ new \in Seq(Nat \ {0})
  BY AlterAssumption DEF AInv
<1>2. m \in Nat \ {0} /\ Product(new) \in Nat \ {0}
  BY <1>1, ProductOk
<1>3. Complete'
  BY DEF Complete
<1>4. new # size /\ AllButLast(new) = AllButLast(size)
  BY DEF Altered
<1>5. ASSUME NEW s \in Subscripts(new)
      PROVE  Holding(s)' = IF s \in Subscripts(size) THEN Holding(s) ELSE 0
  <2>1. CASE values = Undefined
    BY <2>1 DEF Holding, Resized
  <2>2. CASE values # Undefined
    <3> HIDE DEF m
    <3>1. values \in [1..m -> Nat] /\ Len(values) = m
      <4>1. values \in [1..m -> Nat]
        BY <2>2 DEF AInv, m
      <4> QED
        BY <1>2, <4>1
    <3>2. values' = [n \in 1..Product(new) |-> IF n <= m THEN values[n] ELSE 0]
      BY <2>2, <3>1 DEF Resized
    <3>3. DOMAIN values' = 1..Product(new) /\ 1 \in 1..Product(new)
      BY <1>2, <3>2
    <3>4. values' # Undefined
      <4>1. DOMAIN Undefined = {}
        BY DEF Undefined
      <4> QED
        BY <3>3, <4>1
    <3>5. /\ s \in Subscripts(size) <=> Position(new, s) <= m
          /\ Position(size, s) = Position(new, s) /\ Position(new, s) \in 1..Product(new)
      BY <1>1, <1>4, Regrown DEF m
    <3>6. Holding(s)' = values'[Position(new, s)]
      BY <3>4 DEF Holding
    <3>7. Holding(s) = values[Position(size, s)]
      BY <2>2 DEF Holding
    <3>8. values'[Position(new, s)] = IF Position(new, s) <= m THEN values[Position(new, s)] ELSE 0
      BY <3>2, <3>5
    <3> QED
      BY <3>5, <3>6, <3>7, <3>8
  <2> QED
    BY <2>1, <2>2
<1>6. Kept
  BY <1>5 DEF Kept
<1> QED
  BY <1>3, <1>6

\* datAlter: an array that was made longer or shorter on its last axis has under
\* each subscript what it had there, whatever was done to it before and however
\* often, unless HDF5 could not write the values; what is new holds nothing; and
\* a complete structure array stays so.
THEOREM AlteringIsRight == ASpec => AlteredRight
<1> DEFINE Right ==
        /\ outcome' = "OK" /\ ~unwritten'
        /\ size' # size /\ AllButLast(size') = AllButLast(size)
        => /\ \A s \in Subscripts(size') : Holding(s)' = IF s \in Subscripts(size) THEN Holding(s)
                                                          ELSE IF sort = "structure" THEN FALSE ELSE 0
           /\ Complete => Complete'
<1>1. AInv /\ [ANext]_avars => [Right]_avars
  <2> SUFFICES ASSUME AInv, ANext, Altered PROVE Kept /\ (Complete => Complete')
    BY DEF Altered, Kept
  <2>1. ASSUME NEW new \in AlterShape, DatAlter(new) PROVE Kept /\ (Complete => Complete')
    <3>1. Accepted(new)
      BY <2>1 DEF DatAlter, Reject, Altered
    <3>2. Len(new) = Len(size)
      BY <3>1 DEF Accepted
    <3>3. CASE AlterStructure(new)
      <4>1. sort = "structure" /\ sort' = sort
        BY <3>3 DEF AlterStructure
      <4>2. \/ Product(new) > Product(size) /\ Extend(new)
            \/ Product(new) < Product(size) /\ Shrink(new)
        BY <3>3 DEF AlterStructure, Altered
      <4> QED
        BY <3>2, <4>1, <4>2, ExtendRight, ShrinkRight
    <3>4. CASE AlterPrimitive(new)
      <4>1. sort = "primitive" /\ sort' = sort /\ values' = Resized(new) /\ size' = new
        BY <3>4 DEF AlterPrimitive, NotMade, NotCopied, NotErased, NotRenamed, Failed, Replaced,
                    Altered
      <4> QED
        BY <3>2, <4>1, ResizeRight
    <3> QED
      BY <2>1, <3>1, <3>3, <3>4 DEF DatAlter
  <2>2. ~PutAll /\ ~PutInCell /\ ~FindAgain
    BY DEF PutAll, PutInCell, FindAgain, Reject, Altered
  <2> QED
    BY <2>1, <2>2 DEF ANext
<1>2. ASpec => []AInv
  BY AltInit, AltStep, PTL DEF ASpec
<1> QED
  BY <1>1, <1>2, PTL DEF ASpec, AlteredRight

-----------------------------------------------------------------------------
(* Shapes *)

\* The coordinates from 0, in HDF5 order, of the element with subscripts s, and
\* its subscripts.
LEMMA RowMajorOk ==
    ASSUME NEW ext \in Seq(Nat \ {0}), NEW p \in [1..Len(ext) -> Nat]
    PROVE  RowMajor(ext, p) = Position(Reverse(ext), [i \in 1..Len(ext) |-> p[Len(ext) - i + 1] + 1]) - 1
<1> DEFINE n == Len(ext)
           d == Reverse(ext)
           s == [i \in 1..n |-> p[n - i + 1] + 1]
           r == Strides(d)
           q == Places(d, s)
           step == [k \in 1..n |-> [x \in Nat |-> x * ext[k] + p[k]]]
           Eq(f) == f = [k \in 0..n |-> IF k = 0 THEN 0 ELSE f[k - 1] * ext[k] + p[k]]
           u == CHOOSE f : Eq(f)
<1>1. n \in Nat /\ \A k \in 1..n : ext[k] \in Nat \ {0} /\ p[k] \in Nat /\ n - k + 1 \in 1..n
  OBVIOUS
<1>2. /\ d \in Seq(Nat \ {0}) /\ Len(d) = n
      /\ \A k \in 1..n : d[k] = ext[n - k + 1]
  <2>1. d = [i \in 1..n |-> ext[n - i + 1]]
    BY <1>1 DEF Reverse
  <2>2. \A i \in 1..n : ext[n - i + 1] \in Nat \ {0}
    BY <1>1
  <2>3. d \in [1..n -> Nat \ {0}]
    BY <2>1, <2>2
  <2> HIDE DEF d, n
  <2> QED
    BY <1>1, <2>1, <2>3
<1>3. s \in [1..n -> Int] /\ \A k \in 1..n : s[k] - 1 = p[n - k + 1]
  <2> HIDE DEF n
  <2>1. \A k \in 1..n : p[n - k + 1] \in Nat
    BY <1>1
  <2> QED
    BY <2>1
<1> HIDE DEF n, d, s
<1>4. r \in [0..n -> Nat \ {0}] /\ r[0] = 1 /\ \A k \in 1..n : r[k] = r[k - 1] * d[k]
  BY <1>2, StridesOk
<1>5. q \in [0..n -> Int] /\ q[0] = 1 /\ \A k \in 1..n : q[k] = q[k - 1] + (s[k] - 1) * r[k - 1]
  BY <1>2, <1>3, PlacesOk
<1> HIDE DEF r, q
<1>6. \A k \in 1..n : \A x \in Nat : x * ext[k] + p[k] \in Nat
  <2>1. \A a, b, c \in Nat : a * b + c \in Nat
    OBVIOUS
  <2> QED
    BY <1>1, <2>1
<1>7. step \in [1..n -> [Nat -> Nat]]
  BY <1>6
<1>8. PICK g : Follows(g, n, Nat, 0, step)
  <2>1. 0 \in Nat
    OBVIOUS
  <2> HIDE DEF step
  <2> QED
    BY <1>1, <1>7, <2>1, StepByStep
<1>9. g \in [0..n -> Nat] /\ g[0] = 0 /\ \A k \in 1..n : g[k] = step[k][g[k - 1]]
  <2> HIDE DEF step
  <2> QED
    BY <1>8 DEF Follows
<1>10. ASSUME NEW k \in 1..n PROVE g[k] = g[k - 1] * ext[k] + p[k]
  <2>1. k - 1 \in 0..n
    BY <1>1
  <2>2. g[k - 1] \in Nat
    BY <1>9, <2>1
  <2>3. step[k] = [x \in Nat |-> x * ext[k] + p[k]]
    OBVIOUS
  <2> HIDE DEF step
  <2> QED
    BY <1>9, <2>2, <2>3
<1> HIDE DEF step
<1>11. Eq(g)
  BY <1>1, <1>9, <1>10
<1>12. Eq(u)
  <2> HIDE DEF Eq
  <2> QED
    BY <1>11
<1>13. RowMajor(ext, p) = u[n]
  BY DEF RowMajor, n
<1>14. u = [k \in 0..n |-> IF k = 0 THEN 0 ELSE u[k - 1] * ext[k] + p[k]]
  BY <1>12
<1> HIDE DEF u
<1>15. u[0] = 0 /\ \A k \in 1..n : u[k] = u[k - 1] * ext[k] + p[k]
  <2>1. \A k \in 0..n : u[k] = IF k = 0 THEN 0 ELSE u[k - 1] * ext[k] + p[k]
    BY <1>14
  <2>2. 0 \in 0..n /\ \A k \in 1..n : k \in 0..n /\ k # 0
    BY <1>1
  <2> QED
    BY <2>1, <2>2
<1> DEFINE T == {k \in 0..n : u[k] \in Nat /\ u[k] * r[n - k] + q[n - k] = q[n]}
<1>16. 0 \in T
  <2>1. r[n - 0] \in Nat /\ q[n - 0] \in Int /\ n - 0 = n /\ 0 \in 0..n
    BY <1>1, <1>4, <1>5
  <2>2. \A a \in Nat, b \in Int : 0 * a + b = b
    OBVIOUS
  <2> QED
    BY <1>15, <2>1, <2>2
<1>17. ASSUME NEW k \in 1..n, k - 1 \in T PROVE k \in T
  <2> DEFINE m == n - k + 1
             a == u[k - 1]
             x == ext[k]
             y == p[k]
             b == r[n - k]
             c == q[n - k]
  <2>1. m \in 1..n /\ m - 1 = n - k /\ n - (k - 1) = m /\ n - m + 1 = k /\ n - k \in 0..n /\ k \in 0..n
    BY <1>1
  <2>2. a \in Nat /\ a * r[m] + q[m] = q[n]
    BY <1>17, <2>1
  <2>3. x \in Nat /\ y \in Nat /\ b \in Nat /\ c \in Int
    BY <1>1, <1>4, <1>5, <2>1
  <2>4. d[m] = x /\ s[m] - 1 = y
    BY <1>2, <1>3, <2>1
  <2>5. r[m] = b * x /\ q[m] = c + y * b
    BY <1>4, <1>5, <2>1, <2>4
  <2>6. u[k] = a * x + y
    BY <1>15
  <2> HIDE DEF a, x, y, b, c
  <2>7. a * (b * x) + (c + y * b) = (a * x + y) * b + c
    BY <2>2, <2>3
  <2>8. a * x + y \in Nat
    <3>1. \A i, j, l \in Nat : i * j + l \in Nat
      OBVIOUS
    <3> QED
      BY <2>2, <2>3, <3>1
  <2>9. u[k] \in Nat /\ u[k] * b + c = q[n]
    BY <2>2, <2>5, <2>6, <2>7, <2>8
  <2> QED
    BY <2>1, <2>9 DEF b, c
<1>18. n \in T
  <2> HIDE DEF T
  <2>1. \A k \in 0..n : k \in T
    BY <1>1, <1>16, <1>17, UpTo
  <2> QED
    BY <1>1, <2>1
<1>19. u[n] + 1 = q[n] /\ u[n] \in Nat
  <2>1. u[n] \in Nat /\ u[n] * r[0] + q[0] = q[n]
    BY <1>1, <1>18
  <2>2. \A i \in Nat : i * 1 + 1 = i + 1
    OBVIOUS
  <2> QED
    BY <1>4, <1>5, <2>1, <2>2
<1>20. Position(d, s) = q[n]
  BY <1>2 DEF Position, q
<1>21. u[n] = Position(d, s) - 1
  BY <1>19, <1>20
<1> QED
  BY <1>13, <1>21 DEF d, s, n

-----------------------------------------------------------------------------
\* A box in an array of dimensions d.
BoxIn(d, b) ==
    /\ d \in Seq(Nat \ {0})
    /\ b.lower \in [1..Len(d) -> Nat] /\ b.upper \in [1..Len(d) -> Nat]
    /\ \A i \in 1..Len(d) : 1 <= b.lower[i] /\ b.lower[i] <= b.upper[i] /\ b.upper[i] <= d[i]

\* The numbers, from 0, of its elements.
BoxElements(d, b) == {Position(d, InDataset(b, s)) - 1 : s \in Subscripts(Extent(b))}

\* What is asked for, if it is the box.
BoxWant(d, b) == [s \in Subscripts(Extent(b)) |-> Position(d, InDataset(b, s)) - 1]

\* The shape of a box, from its corners.
LEMMA BoxExtent ==
    ASSUME NEW d, NEW b, BoxIn(d, b)
    PROVE  /\ Extent(b) \in Seq(Nat \ {0}) /\ Len(Extent(b)) = Len(d) /\ Len(d) \in Nat
           /\ \A i \in 1..Len(d) : /\ Extent(b)[i] = b.upper[i] - b.lower[i] + 1
                                   /\ b.lower[i] + Extent(b)[i] - 1 = b.upper[i]
<1> DEFINE n == Len(d)
<1>1. /\ d \in Seq(Nat \ {0}) /\ b.lower \in [1..n -> Nat] /\ b.upper \in [1..n -> Nat]
      /\ \A i \in 1..n : 1 <= b.lower[i] /\ b.lower[i] <= b.upper[i] /\ b.upper[i] <= d[i]
  BY DEF BoxIn
<1>2. n \in Nat
  BY <1>1
<1> HIDE DEF n
<1>3. Extent(b) = [i \in 1..n |-> b.upper[i] - b.lower[i] + 1]
  BY <1>1 DEF Extent
<1>4. \A i \in 1..n : /\ b.upper[i] - b.lower[i] + 1 \in Nat \ {0}
                      /\ b.lower[i] + (b.upper[i] - b.lower[i] + 1) - 1 = b.upper[i]
  <2>1. \A x, y \in Nat : x <= y => y - x + 1 \in Nat \ {0} /\ x + (y - x + 1) - 1 = y
    OBVIOUS
  <2>2. \A i \in 1..n : b.lower[i] \in Nat /\ b.upper[i] \in Nat
    BY <1>1
  <2> QED
    BY <1>1, <2>1, <2>2
<1>5. Extent(b) \in [1..n -> Nat \ {0}]
  BY <1>3, <1>4
<1>6. Extent(b) \in Seq(Nat \ {0}) /\ Len(Extent(b)) = n
  BY <1>2, <1>5
<1> QED
  BY <1>2, <1>3, <1>4, <1>6 DEF n

\* In a box, elements are found in the order of their subscripts.
LEMMA BoxOrder ==
    ASSUME NEW d, NEW b, BoxIn(d, b)
    PROVE  /\ \A s \in Subscripts(Extent(b)) : InDataset(b, s) \in Subscripts(d)
           /\ \A s, t \in Subscripts(Extent(b)) :
                 Position(Extent(b), s) < Position(Extent(b), t)
                 => Position(d, InDataset(b, s)) < Position(d, InDataset(b, t))
<1> DEFINE e == Extent(b)
           lo == b.lower
<1>1. d \in Seq(Nat \ {0}) /\ e \in Seq(Nat \ {0}) /\ Len(e) = Len(d)
  BY BoxExtent DEF BoxIn
<1>2. lo \in [1..Len(d) -> Nat \ {0}]
  <2>1. lo \in [1..Len(d) -> Nat] /\ \A i \in 1..Len(d) : 1 <= lo[i]
    BY DEF BoxIn
  <2> HIDE DEF lo
  <2>2. \A i \in 1..Len(d) : lo[i] \in Nat \ {0}
    BY <2>1
  <2> QED
    BY <2>1, <2>2
<1>3. \A i \in 1..Len(d) : lo[i] + e[i] - 1 <= d[i]
  <2>1. \A i \in 1..Len(d) : lo[i] + e[i] - 1 = b.upper[i]
    BY BoxExtent
  <2> QED
    BY <2>1 DEF BoxIn
<1> HIDE DEF e, lo
<1>4. /\ \A s \in Subscripts(e) : Shift(lo, s) \in Subscripts(d)
      /\ \A s, t \in Subscripts(e) :
            Position(e, s) < Position(e, t)
            => Position(d, Shift(lo, s)) < Position(d, Shift(lo, t))
  BY <1>1, <1>2, <1>3, ShiftOrder
<1>5. \A s : InDataset(b, s) = Shift(lo, s)
  BY DEF InDataset, Shift, lo
<1> QED
  BY <1>4, <1>5 DEF e

\* What SelectionRight says of what is asked for, w, in an array of shape e, and
\* what is selected.
Right(w, e, S) ==
    /\ DOMAIN w = Subscripts(e)
    /\ Cardinality(S) = Cardinality(DOMAIN w)
    /\ \A s \in DOMAIN w : /\ w[s] \in S
                           /\ Cardinality({x \in S : x <= w[s]}) = Position(e, s)

\* What a box is said to select is selected, in that order.
LEMMA BoxRight ==
    ASSUME NEW d, NEW b, BoxIn(d, b)
    PROVE  /\ Right(BoxWant(d, b), Extent(b), BoxElements(d, b))
           /\ BoxWant(d, b) \in [Subscripts(Extent(b)) -> Nat]
           /\ \A s, t \in Subscripts(Extent(b)) :
                 Position(Extent(b), s) < Position(Extent(b), t) => BoxWant(d, b)[s] < BoxWant(d, b)[t]
<1> DEFINE e == Extent(b)
           w == BoxWant(d, b)
           S == BoxElements(d, b)
<1>1. d \in Seq(Nat \ {0}) /\ e \in Seq(Nat \ {0})
  BY BoxExtent DEF BoxIn
<1>2. w = [s \in Subscripts(e) |-> Position(d, InDataset(b, s)) - 1]
  BY DEF BoxWant
<1>3. S = {w[s] : s \in Subscripts(e)}
  <2>1. \A s \in Subscripts(e) : w[s] = Position(d, InDataset(b, s)) - 1
    BY <1>2
  <2>2. S = {Position(d, InDataset(b, s)) - 1 : s \in Subscripts(e)}
    BY DEF BoxElements
  <2> HIDE DEF w, S, e
  <2> QED
    BY <2>1, <2>2
<1> HIDE DEF w, S
<1>4. \A s \in Subscripts(e) : Position(d, InDataset(b, s)) \in Nat \ {0}
  <2> SUFFICES ASSUME NEW s \in Subscripts(e) PROVE Position(d, InDataset(b, s)) \in Nat \ {0}
    OBVIOUS
  <2>1. InDataset(b, s) \in Subscripts(d)
    BY BoxOrder
  <2>2. Position(d, InDataset(b, s)) \in 1..Product(d) /\ Product(d) \in Nat
    BY <1>1, <2>1, CoordsInverse, ProductOk
  <2> HIDE DEF e
  <2> QED
    BY <2>2
<1>5. \A s, t \in Subscripts(e) :
         Position(e, s) < Position(e, t)
         => Position(d, InDataset(b, s)) < Position(d, InDataset(b, t))
  BY BoxOrder
<1> HIDE DEF e
<1>6. w \in [Subscripts(e) -> Nat]
  <2>1. \A s \in Subscripts(e) : Position(d, InDataset(b, s)) - 1 \in Nat
    BY <1>4
  <2> QED
    BY <1>2, <2>1
<1>7. \A s, t \in Subscripts(e) : Position(e, s) < Position(e, t) => w[s] < w[t]
  <2> SUFFICES ASSUME NEW s \in Subscripts(e), NEW t \in Subscripts(e),
                      Position(e, s) < Position(e, t)
               PROVE  w[s] < w[t]
    OBVIOUS
  <2>1. w[s] = Position(d, InDataset(b, s)) - 1 /\ w[t] = Position(d, InDataset(b, t)) - 1
    BY <1>2
  <2>2. Position(d, InDataset(b, s)) < Position(d, InDataset(b, t))
    BY <1>5
  <2>3. Position(d, InDataset(b, s)) \in Nat /\ Position(d, InDataset(b, t)) \in Nat
    BY <1>4
  <2> QED
    BY <2>1, <2>2, <2>3
<1>8. w \in [Subscripts(e) -> Int]
  BY <1>6
<1>9. /\ IsFiniteSet(S) /\ Cardinality(S) = Product(e)
      /\ \A s \in Subscripts(e) : Cardinality(Below(S, w[s])) = Position(e, s)
  BY <1>1, <1>3, <1>7, <1>8, RankedBy
<1>10. Cardinality(Subscripts(e)) = Product(e)
  BY <1>1, GridSize
<1>11. DOMAIN w = Subscripts(e)
  BY <1>2
<1>12. \A s \in DOMAIN w : w[s] \in S
  BY <1>3, <1>11
<1>13. Right(w, e, S)
  BY <1>9, <1>10, <1>11, <1>12 DEF Right, Below
<1> QED
  BY <1>6, <1>7, <1>13 DEF e, w, S

\* A dataspace with one box selected, or all of it.
SpaceOk(sp) ==
    /\ sp.ext \in Seq(Nat \ {0})
    /\ sp.all \in BOOLEAN
    /\ ~sp.all => /\ sp.start \in [1..Len(sp.ext) -> Nat] /\ sp.stop \in [1..Len(sp.ext) -> Nat]
                  /\ \A i \in 1..Len(sp.ext) : sp.start[i] <= sp.stop[i] /\ sp.stop[i] < sp.ext[i]

\* The dimensions, in HDS order, and the bounds of what is selected.
SpaceGrid(sp) == Transposed(sp.ext)

SpaceBounds(sp) ==
    LET d == SpaceGrid(sp)
    IN IF sp.all
       THEN [lower |-> [i \in DOMAIN d |-> 1], upper |-> d]
       ELSE [lower |-> Transposed([i \in DOMAIN d |-> sp.start[i] + 1]),
             upper |-> Transposed([i \in DOMAIN d |-> sp.stop[i] + 1])]

\* The axes in the other order.
LEMMA TransposedOk ==
    ASSUME NEW S, NEW s \in Seq(S)
    PROVE  /\ Transposed(s) \in Seq(S) /\ Len(Transposed(s)) = Len(s)
           /\ Transposed(s) \in [1..Len(s) -> S]
           /\ \A i \in 1..Len(s) : /\ Len(s) - i + 1 \in 1..Len(s)
                                   /\ Len(s) - (Len(s) - i + 1) + 1 = i
                                   /\ Transposed(s)[i] = s[Len(s) - i + 1]
<1> DEFINE n == Len(s)
           t == Transposed(s)
<1>1. n \in Nat /\ \A k \in 1..n : s[k] \in S
  OBVIOUS
<1>2. t = [i \in 1..n |-> s[(n - i) + 1]]
  BY DEF Transposed, Reverse
<1> HIDE DEF n, t
<1>3. \A i \in 1..n : n - i + 1 \in 1..n /\ n - (n - i + 1) + 1 = i
  BY <1>1
<1>4. t \in [1..n -> S]
  BY <1>1, <1>2, <1>3
<1>5. t \in Seq(S) /\ Len(t) = n
  BY <1>1, <1>4
<1> QED
  BY <1>2, <1>3, <1>4, <1>5 DEF n, t

\* The bounds of a dataspace are a box.
LEMMA SpaceBox ==
    ASSUME NEW sp, SpaceOk(sp)
    PROVE  /\ BoxIn(SpaceGrid(sp), SpaceBounds(sp))
           /\ sp.all => /\ SpaceBounds(sp).lower = [i \in 1..Len(SpaceGrid(sp)) |-> 1]
                        /\ SpaceBounds(sp).upper = SpaceGrid(sp)
           /\ ~sp.all =>
                 \A i \in 1..Len(SpaceGrid(sp)) :
                    /\ SpaceBounds(sp).lower[i] = sp.start[Len(SpaceGrid(sp)) - i + 1] + 1
                    /\ SpaceBounds(sp).upper[i] = sp.stop[Len(SpaceGrid(sp)) - i + 1] + 1
<1> DEFINE d == SpaceGrid(sp)
           n == Len(d)
           b == SpaceBounds(sp)
<1>1. d \in Seq(Nat \ {0}) /\ n = Len(sp.ext) /\ \A i \in 1..n : d[i] = sp.ext[n - i + 1]
  <2>1. sp.ext \in Seq(Nat \ {0}) /\ d = Transposed(sp.ext)
    BY DEF SpaceOk, SpaceGrid
  <2> HIDE DEF d
  <2> QED
    BY <2>1, TransposedOk
<1>2. n \in Nat /\ DOMAIN d = 1..n /\ \A i \in 1..n : d[i] \in Nat \ {0}
  BY <1>1
<1>3. b = IF sp.all
          THEN [lower |-> [i \in DOMAIN d |-> 1], upper |-> d]
          ELSE [lower |-> Transposed([i \in DOMAIN d |-> sp.start[i] + 1]),
                upper |-> Transposed([i \in DOMAIN d |-> sp.stop[i] + 1])]
  BY DEF SpaceBounds
<1>4. CASE sp.all
  <2>1. b.lower = [i \in 1..n |-> 1] /\ b.upper = d
    BY <1>2, <1>3, <1>4
  <2> HIDE DEF d, n, b
  <2>2. b.lower \in [1..n -> Nat] /\ b.upper \in [1..n -> Nat]
    <3>1. d \in [1..n -> Nat]
      BY <1>1, <1>2 DEF n
    <3> QED
      BY <2>1, <3>1
  <2>3. \A i \in 1..n : 1 <= b.lower[i] /\ b.lower[i] <= b.upper[i] /\ b.upper[i] <= d[i]
    BY <1>2, <2>1
  <2>4. BoxIn(d, b)
    BY <1>1, <2>2, <2>3 DEF BoxIn, n
  <2> QED
    BY <1>4, <2>1, <2>4 DEF d, n, b
<1>5. CASE ~sp.all
  <2>1. n = Len(sp.ext)
    BY <1>1
  <2>2. /\ sp.start \in [1..n -> Nat] /\ sp.stop \in [1..n -> Nat]
        /\ \A i \in 1..n : sp.start[i] <= sp.stop[i] /\ sp.stop[i] < sp.ext[i]
    <3> HIDE DEF n
    <3> QED
      BY <1>5, <2>1 DEF SpaceOk
  <2> DEFINE p == [i \in 1..n |-> sp.start[i] + 1]
             q == [i \in 1..n |-> sp.stop[i] + 1]
  <2>3. b.lower = Transposed(p) /\ b.upper = Transposed(q)
    BY <1>2, <1>3, <1>5
  <2> HIDE DEF d, n, b
  <2>4. p \in Seq(Nat) /\ Len(p) = n /\ q \in Seq(Nat) /\ Len(q) = n
    <3>1. \A i \in 1..n : sp.start[i] \in Nat /\ sp.stop[i] \in Nat
      BY <2>2
    <3>2. \A i \in 1..n : sp.start[i] + 1 \in Nat /\ sp.stop[i] + 1 \in Nat
      BY <3>1
    <3>3. p \in [1..n -> Nat] /\ q \in [1..n -> Nat]
      BY <3>2
    <3> HIDE DEF p, q
    <3> QED
      BY <1>2, <3>3
  <2>5. /\ b.lower \in [1..n -> Nat] /\ b.upper \in [1..n -> Nat]
        /\ \A i \in 1..n : /\ n - i + 1 \in 1..n
                           /\ b.lower[i] = p[n - i + 1] /\ b.upper[i] = q[n - i + 1]
    <3> HIDE DEF p, q
    <3>1. ASSUME NEW t \in Seq(Nat), Len(t) = n
          PROVE  /\ Transposed(t) \in [1..n -> Nat]
                 /\ \A i \in 1..n : n - i + 1 \in 1..n /\ Transposed(t)[i] = t[n - i + 1]
      <4>1. /\ Transposed(t) \in [1..Len(t) -> Nat]
            /\ \A i \in 1..Len(t) : /\ Len(t) - i + 1 \in 1..Len(t)
                                    /\ Transposed(t)[i] = t[Len(t) - i + 1]
        BY TransposedOk
      <4> QED
        BY <3>1, <4>1
    <3> QED
      BY <2>3, <2>4, <3>1
  <2>6. \A i \in 1..n : /\ b.lower[i] = sp.start[n - i + 1] + 1
                        /\ b.upper[i] = sp.stop[n - i + 1] + 1
    BY <2>5
  <2>7. ASSUME NEW i \in 1..n
        PROVE  1 <= b.lower[i] /\ b.lower[i] <= b.upper[i] /\ b.upper[i] <= d[i]
    <3> DEFINE k == n - i + 1
    <3>1. k \in 1..n
      BY <2>5
    <3> HIDE DEF k
    <3>2. /\ sp.start[k] \in Nat /\ sp.stop[k] \in Nat /\ sp.start[k] <= sp.stop[k]
          /\ sp.stop[k] < sp.ext[k]
      BY <2>2, <3>1
    <3>3. d[i] = sp.ext[k] /\ d[i] \in Nat
      BY <1>1, <1>2, <2>1 DEF k
    <3>4. b.lower[i] = sp.start[k] + 1 /\ b.upper[i] = sp.stop[k] + 1
      BY <2>6 DEF k
    <3> QED
      BY <3>2, <3>3, <3>4
  <2>8. BoxIn(d, b)
    BY <1>1, <2>5, <2>7 DEF BoxIn, n
  <2> QED
    BY <1>5, <2>6, <2>8 DEF d, n, b
<1> QED
  BY <1>4, <1>5

\* HDF5 selects the elements within the bounds.
LEMMA SelectedBox ==
    ASSUME NEW sp, SpaceOk(sp)
    PROVE  SelectedElements(sp) = BoxElements(SpaceGrid(sp), SpaceBounds(sp))
<1> DEFINE ext == sp.ext
           n == Len(ext)
           d == SpaceGrid(sp)
           b == SpaceBounds(sp)
           e == Extent(b)
           M == Max({1} \cup ToSet(ext)) - 1
           Inside(p) == sp.all \/ \A i \in 1..n : p[i] \in sp.start[i]..sp.stop[i]
           C == {p \in [1..n -> 0..M] : \A i \in 1..n : p[i] < ext[i]}
           Subs(p) == [i \in 1..n |-> p[n - i + 1] + 1]
<1>1. SelectedElements(sp) = {RowMajor(ext, p) : p \in {q \in C : Inside(q)}}
  BY DEF SelectedElements
<1>2. ext \in Seq(Nat \ {0}) /\ d = Transposed(ext) /\ SpaceOk(sp)
  BY DEF SpaceOk, SpaceGrid
<1>3. n \in Nat /\ \A i \in 1..n : ext[i] \in Nat \ {0} /\ ext[i] - 1 <= M
  <2> DEFINE X == Max({1} \cup ToSet(ext))
  <2>1. n \in Nat /\ \A i \in 1..n : ext[i] \in Nat \ {0}
    BY <1>2
  <2>2. X \in Nat /\ \A i \in 1..n : ext[i] <= X
    <3> HIDE DEF ext
    <3> QED
      BY <1>2, LargestDim
  <2>3. M = X - 1
    OBVIOUS
  <2> HIDE DEF X, M, n, ext
  <2> QED
    BY <2>1, <2>2, <2>3
<1>4. M \in Nat
  <2>1. Max({1} \cup ToSet(ext)) \in Nat /\ 1 <= Max({1} \cup ToSet(ext))
    BY <1>2, LargestDim
  <2> QED
    BY <2>1
<1>5. /\ d \in Seq(Nat \ {0}) /\ Len(d) = n
      /\ \A i \in 1..n : n - i + 1 \in 1..n /\ n - (n - i + 1) + 1 = i /\ d[i] = ext[n - i + 1]
  <2> HIDE DEF ext
  <2> QED
    BY <1>2, TransposedOk
<1>6. /\ BoxIn(d, b)
      /\ sp.all => b.lower = [i \in 1..n |-> 1] /\ b.upper = d
      /\ ~sp.all => \A i \in 1..n : /\ b.lower[i] = sp.start[n - i + 1] + 1
                                    /\ b.upper[i] = sp.stop[n - i + 1] + 1
  <2> HIDE DEF n
  <2> QED
    BY <1>5, SpaceBox
<1> HIDE DEF ext, n, d, b, e, M
<1>7. /\ b.lower \in [1..n -> Nat] /\ b.upper \in [1..n -> Nat]
      /\ \A i \in 1..n : 1 <= b.lower[i] /\ b.lower[i] <= b.upper[i] /\ b.upper[i] <= d[i]
  BY <1>5, <1>6 DEF BoxIn
<1>8. /\ e \in Seq(Nat \ {0}) /\ Len(e) = n
      /\ \A i \in 1..n : /\ e[i] = b.upper[i] - b.lower[i] + 1
                         /\ b.lower[i] + e[i] - 1 = b.upper[i]
  BY <1>5, <1>6, BoxExtent DEF e
<1>9. \A p : p \in C <=> p \in [1..n -> Nat] /\ \A i \in 1..n : p[i] < ext[i]
  <2>1. ASSUME NEW p \in [1..n -> Nat], \A i \in 1..n : p[i] < ext[i] PROVE p \in [1..n -> 0..M]
    <3>1. \A i \in 1..n : p[i] \in 0..M
      BY <1>3, <1>4, <2>1
    <3> QED
      BY <3>1
  <2>2. \A p \in [1..n -> 0..M] : p \in [1..n -> Nat]
    BY <1>4
  <2> QED
    BY <2>1, <2>2
<1>10. ASSUME NEW p \in [1..n -> Nat]
       PROVE  RowMajor(ext, p) = Position(d, Subs(p)) - 1
  BY <1>2, RowMajorOk DEF Transposed, n
\* Whether coordinates are selected can be told from the subscripts.
<1>11. ASSUME NEW p \in [1..n -> Nat], NEW t \in [1..n -> Nat],
              \A i \in 1..n : t[i] = p[n - i + 1] + 1, \A i \in 1..n : p[i] < ext[i]
       PROVE  Inside(p) <=> \A i \in 1..n : b.lower[i] <= t[i] /\ t[i] <= b.upper[i]
  <2>1. CASE sp.all
    <3>1. ASSUME NEW i \in 1..n PROVE b.lower[i] <= t[i] /\ t[i] <= b.upper[i]
      <4> DEFINE k == n - i + 1
      <4>1. k \in 1..n /\ d[i] = ext[k] /\ t[i] = p[k] + 1
        BY <1>5, <1>11
      <4> HIDE DEF k
      <4>2. p[k] \in Nat /\ p[k] < ext[k] /\ ext[k] \in Nat
        BY <1>3, <1>11, <4>1
      <4>3. b.lower[i] = 1 /\ b.upper[i] = d[i]
        BY <1>6, <2>1
      <4> QED
        BY <4>1, <4>2, <4>3
    <3> QED
      BY <2>1, <3>1
  <2>2. CASE ~sp.all
    <3>1. sp.start \in [1..n -> Nat] /\ sp.stop \in [1..n -> Nat]
      BY <1>2, <2>2 DEF SpaceOk, n, ext
    <3>2. ASSUME NEW i \in 1..n
          PROVE  p[n - i + 1] \in sp.start[n - i + 1]..sp.stop[n - i + 1]
                 <=> b.lower[i] <= t[i] /\ t[i] <= b.upper[i]
      <4> DEFINE k == n - i + 1
      <4>1. /\ k \in 1..n /\ t[i] = p[k] + 1
            /\ b.lower[i] = sp.start[k] + 1 /\ b.upper[i] = sp.stop[k] + 1
        BY <1>5, <1>6, <1>11, <2>2
      <4> HIDE DEF k
      <4>2. p[k] \in Nat /\ sp.start[k] \in Nat /\ sp.stop[k] \in Nat
        BY <3>1, <4>1
      <4>3. p[k] \in sp.start[k]..sp.stop[k] <=> b.lower[i] <= t[i] /\ t[i] <= b.upper[i]
        BY <4>1, <4>2
      <4> QED
        BY <4>3 DEF k
    <3>3. ASSUME Inside(p), NEW i \in 1..n PROVE b.lower[i] <= t[i] /\ t[i] <= b.upper[i]
      <4>1. n - i + 1 \in 1..n
        BY <1>5
      <4> QED
        BY <2>2, <3>2, <3>3, <4>1
    <3>4. ASSUME \A i \in 1..n : b.lower[i] <= t[i] /\ t[i] <= b.upper[i], NEW k \in 1..n
          PROVE  p[k] \in sp.start[k]..sp.stop[k]
      <4>1. n - k + 1 \in 1..n /\ n - (n - k + 1) + 1 = k
        BY <1>5
      <4> QED
        BY <3>2, <3>4, <4>1
    <3> QED
      BY <3>3, <3>4
  <2> QED
    BY <2>1, <2>2
<1>12. ASSUME NEW p \in C, Inside(p)
       PROVE  \E s \in Subscripts(e) : RowMajor(ext, p) = Position(d, InDataset(b, s)) - 1
  <2> DEFINE t == Subs(p)
             s == [i \in 1..n |-> t[i] - b.lower[i] + 1]
  <2>1. p \in [1..n -> Nat] /\ \A i \in 1..n : p[i] < ext[i]
    BY <1>9
  <2>2. t \in [1..n -> Nat] /\ \A i \in 1..n : t[i] = p[n - i + 1] + 1
    <3>1. \A i \in 1..n : p[n - i + 1] + 1 \in Nat
      BY SMTT(40), <1>5, <2>1
    <3> QED
      BY <3>1
  <2> HIDE DEF t
  <2>3. \A i \in 1..n : b.lower[i] <= t[i] /\ t[i] <= b.upper[i]
    BY <1>11, <1>12, <2>1, <2>2
  <2>4. ASSUME NEW i \in 1..n
        PROVE  /\ s[i] \in Nat /\ 1 <= s[i] /\ s[i] <= e[i]
               /\ s[i] + b.lower[i] - 1 = t[i]
    <3>1. t[i] \in Nat /\ b.lower[i] \in Nat /\ b.upper[i] \in Nat
          /\ b.lower[i] <= t[i] /\ t[i] <= b.upper[i] /\ e[i] = b.upper[i] - b.lower[i] + 1
      BY <1>7, <1>8, <2>2, <2>3
    <3>2. s[i] = t[i] - b.lower[i] + 1
      OBVIOUS
    <3> HIDE DEF s
    <3> QED
      BY <3>1, <3>2
  <2>5. DOMAIN s = 1..n
    OBVIOUS
  <2>6. s \in [1..n -> Nat]
    BY <2>4
  <2> HIDE DEF s
  <2>7. s \in Subscripts(e)
    <3>1. Fits(e, s)
      BY <1>8, <2>4, <2>6 DEF Fits
    <3> QED
      BY <1>8, <3>1, SubscriptsOk
  <2>8. InDataset(b, s) = t
    <3>1. InDataset(b, s) = [i \in 1..n |-> s[i] + b.lower[i] - 1]
      BY <2>5 DEF InDataset
    <3> QED
      BY <2>2, <2>4, <3>1
  <2>9. RowMajor(ext, p) = Position(d, InDataset(b, s)) - 1
    BY <1>10, <2>1, <2>8 DEF t
  <2> QED
    BY <2>7, <2>9
<1>13. ASSUME NEW s \in Subscripts(e)
       PROVE  \E p \in C : Inside(p) /\ RowMajor(ext, p) = Position(d, InDataset(b, s)) - 1
  <2> DEFINE t == InDataset(b, s)
             p == [i \in 1..n |-> t[n - i + 1] - 1]
  <2>1. s \in [1..n -> Nat] /\ \A i \in 1..n : 1 <= s[i] /\ s[i] <= e[i]
    BY <1>8, SubscriptsOk DEF Fits
  <2>2. t = [i \in 1..n |-> s[i] + b.lower[i] - 1]
    BY <2>1 DEF InDataset
  <2>3. ASSUME NEW i \in 1..n
        PROVE  t[i] \in Nat /\ b.lower[i] <= t[i] /\ t[i] <= b.upper[i] /\ 1 <= t[i]
    <3>1. s[i] \in Nat /\ 1 <= s[i] /\ s[i] <= e[i] /\ b.lower[i] \in Nat /\ b.upper[i] \in Nat
          /\ 1 <= b.lower[i] /\ e[i] = b.upper[i] - b.lower[i] + 1
      BY <1>7, <1>8, <2>1
    <3>2. t[i] = s[i] + b.lower[i] - 1
      BY <2>2
    <3> HIDE DEF t
    <3> QED
      BY <3>1, <3>2
  <2>4. t \in [1..n -> Nat]
    BY <2>2, <2>3
  <2> HIDE DEF t
  <2>5. ASSUME NEW i \in 1..n
        PROVE  p[i] \in Nat /\ p[i] < ext[i] /\ t[i] = p[n - i + 1] + 1
    <3> DEFINE k == n - i + 1
    <3>1. k \in 1..n /\ n - k + 1 = i /\ d[k] = ext[i]
      BY <1>5
    <3>2. p[i] = t[k] - 1 /\ p[k] = t[n - k + 1] - 1
      BY <3>1
    <3> HIDE DEF k, p
    <3>3. t[k] \in Nat /\ 1 <= t[k] /\ t[k] <= b.upper[k] /\ b.upper[k] <= d[k] /\ b.upper[k] \in Nat
          /\ t[i] \in Nat
      BY <1>7, <2>3, <2>4, <3>1
    <3>4. ext[i] \in Nat
      BY <1>3
    <3>5. p[i] \in Nat /\ p[i] < ext[i]
      BY <3>1, <3>2, <3>3, <3>4
    <3>6. t[i] = p[k] + 1
      BY <3>1, <3>2, <3>3
    <3> QED
      BY <3>5, <3>6 DEF k
  <2>6. p \in [1..n -> Nat]
    BY <2>5
  <2> HIDE DEF p
  <2>7. p \in C
    BY <1>9, <2>5, <2>6
  <2>8. Inside(p)
    BY <1>11, <2>3, <2>4, <2>5, <2>6
  <2>9. Subs(p) = t
    BY <2>4, <2>5
  <2>10. RowMajor(ext, p) = Position(d, t) - 1
    BY <1>10, <2>6, <2>9
  <2> QED
    BY <2>7, <2>8, <2>10 DEF t
<1> HIDE DEF C, Inside
<1>14. BoxElements(d, b) = {Position(d, InDataset(b, s)) - 1 : s \in Subscripts(e)}
  BY DEF BoxElements, e
<1>15. SelectedElements(sp) = BoxElements(d, b)
  BY <1>1, <1>12, <1>13, <1>14
<1> QED
  BY <1>15 DEF d, b

\* The box from the first element to the last is everything.
LEMMA WholeBox ==
    ASSUME NEW d \in Seq(Nat \ {0}), NEW b, b.lower = [i \in 1..Len(d) |-> 1], b.upper = d
    PROVE  /\ BoxIn(d, b) /\ Extent(b) = d
           /\ \A s \in Subscripts(d) : InDataset(b, s) = s
           /\ BoxWant(d, b) = [s \in Subscripts(d) |-> Position(d, s) - 1]
           /\ BoxElements(d, b) = 0..(Product(d) - 1)
<1> DEFINE n == Len(d)
<1>1. n \in Nat /\ DOMAIN d = 1..n /\ \A i \in 1..n : d[i] \in Nat \ {0}
  OBVIOUS
<1>2. d \in [1..n -> Nat] /\ d = [i \in 1..n |-> d[i]]
  BY <1>1
<1> HIDE DEF n
<1>3. BoxIn(d, b)
  <2>1. b.lower \in [1..n -> Nat] /\ b.upper \in [1..n -> Nat]
    BY <1>2 DEF n
  <2>2. \A i \in 1..n : 1 <= b.lower[i] /\ b.lower[i] <= b.upper[i] /\ b.upper[i] <= d[i]
    BY <1>1 DEF n
  <2> QED
    BY <2>1, <2>2 DEF BoxIn, n
<1>4. Extent(b) = d
  <2>1. Extent(b) = [i \in 1..n |-> d[i] - 1 + 1]
    BY DEF Extent, n
  <2>2. \A i \in 1..n : d[i] - 1 + 1 = d[i]
    BY <1>1
  <2> QED
    BY <1>2, <2>1, <2>2
<1>5. ASSUME NEW s \in Subscripts(d) PROVE InDataset(b, s) = s
  <2>1. s \in [1..n -> Nat]
    BY SubscriptsOk DEF Fits, n
  <2>2. InDataset(b, s) = [i \in 1..n |-> s[i] + 1 - 1]
    BY <2>1 DEF InDataset, n
  <2>3. \A i \in 1..n : s[i] + 1 - 1 = s[i]
    BY <2>1
  <2> QED
    BY <2>1, <2>2, <2>3
<1>6. BoxWant(d, b) = [s \in Subscripts(d) |-> Position(d, s) - 1]
  BY <1>4, <1>5 DEF BoxWant
<1>7. BoxElements(d, b) = {Position(d, s) - 1 : s \in Subscripts(d)}
  BY <1>4, <1>5 DEF BoxElements
<1>8. Product(d) \in Nat
  BY ProductOk
<1>9. ASSUME NEW s \in Subscripts(d) PROVE Position(d, s) - 1 \in 0..(Product(d) - 1)
  <2>1. Position(d, s) \in 1..Product(d)
    BY CoordsInverse
  <2> QED
    BY <1>8, <2>1
<1>10. ASSUME NEW k \in 0..(Product(d) - 1) PROVE \E s \in Subscripts(d) : k = Position(d, s) - 1
  <2>1. k + 1 \in 1..Product(d)
    BY <1>8
  <2>2. /\ Index2Coords(k + 1, d) \in Subscripts(d)
        /\ Position(d, Index2Coords(k + 1, d)) = k + 1
    BY <2>1, CoordsOk, SubscriptsOk
  <2> QED
    BY <2>2
<1>11. BoxElements(d, b) = 0..(Product(d) - 1)
  BY <1>7, <1>9, <1>10
<1> QED
  BY <1>3, <1>4, <1>5, <1>6, <1>11

\* A box whose corners are the same is one element.
LEMMA OnePoint ==
    ASSUME NEW d, NEW b, BoxIn(d, b), b.lower = b.upper
    PROVE  /\ \A i \in 1..Len(d) : Extent(b)[i] = 1
           /\ Position(d, b.lower) - 1 \in Nat
           /\ BoxElements(d, b) = {Position(d, b.lower) - 1}
<1> DEFINE e == Extent(b)
           n == Len(d)
           o == [i \in 1..n |-> 1]
<1>1. /\ e \in Seq(Nat \ {0}) /\ Len(e) = n /\ n \in Nat
      /\ \A i \in 1..n : e[i] = b.upper[i] - b.lower[i] + 1
  BY BoxExtent
<1>2. b.lower \in [1..n -> Nat] /\ d \in Seq(Nat \ {0})
  BY DEF BoxIn
<1> HIDE DEF e, n
<1>3. \A i \in 1..n : e[i] = 1
  BY SMTT(40), <1>1, <1>2
<1>4. ASSUME NEW s PROVE s \in Subscripts(e) <=> s = o
  <2>1. s \in Subscripts(e) <=> Fits(e, s)
    BY <1>1, SubscriptsOk
  <2>2. Fits(e, s) <=> s \in [1..n -> Nat] /\ \A k \in 1..n : 1 <= s[k] /\ s[k] <= 1
    BY <1>1, <1>3 DEF Fits
  <2>3. ASSUME s \in [1..n -> Nat], \A k \in 1..n : 1 <= s[k] /\ s[k] <= 1 PROVE s = o
    <3>1. \A k \in 1..n : s[k] = 1
      BY <2>3
    <3> QED
      BY <2>3, <3>1
  <2>4. o \in [1..n -> Nat] /\ \A k \in 1..n : 1 <= o[k] /\ o[k] <= 1
    OBVIOUS
  <2> HIDE DEF o
  <2> QED
    BY <2>1, <2>2, <2>3, <2>4
<1>5. InDataset(b, o) = b.lower
  <2>1. InDataset(b, o) = [i \in 1..n |-> 1 + b.lower[i] - 1]
    BY DEF InDataset
  <2>2. \A i \in 1..n : b.lower[i] \in Nat
    BY <1>2
  <2>3. \A i \in 1..n : 1 + b.lower[i] - 1 = b.lower[i]
    BY <2>2
  <2> QED
    BY <1>2, <2>1, <2>3
<1> HIDE DEF o
<1>6. BoxElements(d, b) = {Position(d, b.lower) - 1}
  <2>1. Subscripts(e) = {o}
    BY <1>4
  <2>2. BoxElements(d, b) = {Position(d, InDataset(b, s)) - 1 : s \in Subscripts(e)}
    BY DEF BoxElements, e
  <2> QED
    BY <1>5, <2>1, <2>2
<1>7. Position(d, b.lower) - 1 \in Nat
  <2>1. InDataset(b, o) \in Subscripts(d)
    BY <1>4, BoxOrder DEF e
  <2>2. Position(d, b.lower) \in 1..Product(d) /\ Product(d) \in Nat
    BY <1>2, <1>5, <2>1, CoordsInverse, ProductOk
  <2> QED
    BY <2>2
<1> QED
  BY <1>3, <1>6, <1>7 DEF e, n

\* One element is right as a scalar, and as a vector.
LEMMA PointRight ==
    ASSUME NEW x \in Int
    PROVE  Right([s \in {<<>>} |-> x], <<>>, {x}) /\ Right([s \in {<<1>>} |-> x], <<1>>, {x})
<1>1. Cardinality({x}) = 1 /\ Cardinality({<<>>}) = 1 /\ Cardinality({<<1>>}) = 1
  BY FS_Singleton
<1>2. {y \in {x} : y <= x} = {x}
  OBVIOUS
<1>3. Right([s \in {<<>>} |-> x], <<>>, {x})
  BY <1>1, <1>2, ScalarGrid DEF Right
<1>4. Subscripts(<<1>>) = {<<1>>} /\ Position(<<1>>, <<1>>) = 1
  BY VectorGrid
<1>5. Right([s \in {<<1>>} |-> x], <<1>>, {x})
  BY <1>1, <1>2, <1>4 DEF Right
<1> QED
  BY <1>3, <1>5

\* The dataspace of a vector of m elements of which those from f to g, from 0,
\* are selected.
VectorSpace(m, f, g) ==
    IF 1 < m THEN [ext |-> <<m>>, all |-> FALSE, start |-> <<f>>, stop |-> <<g>>]
    ELSE WholeSpace(<<m>>)

\* The elements from f on, k of them, as a vector.
Row(f, k) == [s \in {<<i>> : i \in 1..k} |-> f + s[1] - 1]

\* Its box.
LEMMA VectorBox ==
    ASSUME NEW m \in Nat \ {0}, NEW f \in Nat, NEW g \in Nat, f <= g, g < m
    PROVE  /\ SpaceOk(VectorSpace(m, f, g))
           /\ SpaceGrid(VectorSpace(m, f, g)) = <<m>>
           /\ Extent(SpaceBounds(VectorSpace(m, f, g))) = <<g - f + 1>>
           /\ BoxWant(<<m>>, SpaceBounds(VectorSpace(m, f, g))) = Row(f, g - f + 1)
<1> DEFINE sp == VectorSpace(m, f, g)
           b == SpaceBounds(sp)
           N == g - f + 1
<1>1. /\ sp.ext = <<m>> /\ sp.all \in BOOLEAN
      /\ ~sp.all => sp.start = <<f>> /\ sp.stop = <<g>>
      /\ sp.all => f = 0 /\ g = 0 /\ m = 1
  <2>1. CASE 1 < m
    BY <2>1 DEF VectorSpace
  <2>2. CASE ~(1 < m)
    <3>1. m = 1 /\ f = 0 /\ g = 0
      BY <2>2
    <3>2. sp = WholeSpace(<<m>>)
      BY <2>2 DEF VectorSpace
    <3> HIDE DEF sp
    <3> QED
      BY <3>1, <3>2 DEF WholeSpace, NoSpace
  <2> QED
    BY <2>1, <2>2
<1> HIDE DEF sp
<1>2. <<m>> \in Seq(Nat \ {0}) /\ Len(<<m>>) = 1 /\ \A x : <<x>>[1] = x
  OBVIOUS
<1>3. SpaceOk(sp)
  <2>1. <<f>> \in [1..1 -> Nat] /\ <<g>> \in [1..1 -> Nat]
    OBVIOUS
  <2> QED
    BY <1>1, <1>2, <2>1 DEF SpaceOk
<1>4. SpaceGrid(sp) = <<m>>
  <2>1. ASSUME NEW t \in Seq(Nat \ {0}), Len(t) = 1 PROVE Transposed(t) = t
    <3>1. /\ Transposed(t) \in Seq(Nat \ {0}) /\ Len(Transposed(t)) = Len(t)
          /\ \A i \in 1..Len(t) : Transposed(t)[i] = t[Len(t) - i + 1]
      BY TransposedOk
    <3>2. Transposed(t)[1] = t[1]
      BY <2>1, <3>1
    <3> QED
      BY <2>1, <3>1, <3>2
  <2> QED
    BY <1>1, <1>2, <2>1 DEF SpaceGrid
<1>5. BoxIn(<<m>>, b)
  BY <1>3, <1>4, SpaceBox
<1>6. b.lower[1] = f + 1 /\ b.upper[1] = g + 1
  <2>1. 1 - 1 + 1 = 1 /\ 1 \in 1..1
    OBVIOUS
  <2>2. CASE sp.all
    <3>1. b.lower = [i \in 1..1 |-> 1] /\ b.upper = <<m>>
      BY <1>2, <1>3, <1>4, <2>2, SpaceBox
    <3> HIDE DEF b
    <3> QED
      BY <1>1, <2>2, <3>1
  <2>3. CASE ~sp.all
    <3> DEFINE n == Len(SpaceGrid(sp))
    <3>1. n = 1
      BY <1>2, <1>4
    <3>2. \A i \in 1..n : b.lower[i] = sp.start[n - i + 1] + 1 /\ b.upper[i] = sp.stop[n - i + 1] + 1
      <4> HIDE DEF n
      <4> QED
        BY <1>3, <2>3, SpaceBox DEF n
    <3> HIDE DEF n, b
    <3>3. b.lower[1] = sp.start[1] + 1 /\ b.upper[1] = sp.stop[1] + 1
      BY <2>1, <3>1, <3>2
    <3> QED
      BY <1>1, <1>2, <2>3, <3>3
  <2> QED
    BY <2>2, <2>3
<1> HIDE DEF b
<1>7. Extent(b) = <<N>> /\ N \in Nat \ {0}
  <2>1. Extent(b) \in Seq(Nat \ {0}) /\ Len(Extent(b)) = 1 /\ Extent(b)[1] = b.upper[1] - b.lower[1] + 1
    BY <1>2, <1>5, BoxExtent
  <2>2. N \in Nat \ {0} /\ b.upper[1] - b.lower[1] + 1 = N
    BY <1>6
  <2> HIDE DEF N
  <2> QED
    BY <2>1, <2>2
<1> HIDE DEF N
<1>8. Subscripts(<<N>>) = {<<i>> : i \in 1..N}
  BY <1>7, VectorGrid
<1>9. ASSUME NEW i \in 1..N PROVE Position(<<m>>, InDataset(b, <<i>>)) - 1 = f + i - 1
  <2>1. InDataset(b, <<i>>) = <<i + f + 1 - 1>>
    BY <1>6 DEF InDataset
  <2>2. i + f + 1 - 1 = i + f /\ i + f \in Int
    BY <1>7
  <2>3. Position(<<m>>, <<i + f>>) = i + f
    BY <2>2, VectorGrid
  <2> QED
    BY <1>7, <2>1, <2>2, <2>3
<1>10. BoxWant(<<m>>, b) = [s \in {<<i>> : i \in 1..N} |-> Position(<<m>>, InDataset(b, s)) - 1]
  BY <1>7, <1>8 DEF BoxWant
<1>11. \A s \in {<<i>> : i \in 1..N} : Position(<<m>>, InDataset(b, s)) - 1 = f + s[1] - 1
  BY <1>2, <1>9
<1>12. BoxWant(<<m>>, b) = Row(f, N)
  BY <1>10, <1>11 DEF Row
<1> QED
  BY <1>3, <1>4, <1>7, <1>12 DEF sp, b, N

\* datVec asks for consecutive elements as a vector.
LEMMA AsVectorOk ==
    ASSUME NEW e \in Seq(Nat \ {0}), NEW w, NEW f \in Int, DOMAIN w = Subscripts(e),
           \A s \in Subscripts(e) : w[s] = f + Position(e, s) - 1
    PROVE  AsVector(w, e) = Row(f, Product(e))
<1> DEFINE N == Product(e)
           V == {<<i>> : i \in 1..N}
           at(k) == w[CHOOSE s \in DOMAIN w : Position(e, s) = k[1]]
<1>1. Cardinality(DOMAIN w) = N
  BY GridSize
<1>2. AsVector(w, e) = [k \in V |-> at(k)]
  BY <1>1 DEF AsVector
<1>3. ASSUME NEW i \in 1..N PROVE at(<<i>>) = f + i - 1
  <2> DEFINE c == CHOOSE s \in DOMAIN w : Position(e, s) = i
  <2>1. \E s \in DOMAIN w : Position(e, s) = i
    BY CoordsOk, SubscriptsOk
  <2>2. c \in DOMAIN w /\ Position(e, c) = i
    BY <2>1
  <2>3. at(<<i>>) = w[c]
    OBVIOUS
  <2> HIDE DEF c
  <2> QED
    BY <2>2, <2>3
<1>4. ASSUME NEW k \in V PROVE at(k) = f + k[1] - 1
  <2>1. PICK i \in 1..N : k = <<i>>
    OBVIOUS
  <2> HIDE DEF at
  <2>2. k[1] = i
    BY <2>1
  <2> QED
    BY <1>3, <2>1, <2>2
<1> HIDE DEF at
<1> QED
  BY <1>2, <1>4 DEF Row

\* The elements of a box with no gaps come one after the other.
LEMMA ContiguousBox ==
    ASSUME NEW d, NEW b, BoxIn(d, b), Contiguous(BoxElements(d, b)),
           NEW f, f = Position(d, b.lower) - 1, NEW g, g = Position(d, b.upper) - 1
    PROVE  /\ f \in Nat /\ g \in Nat /\ f <= g /\ g < Product(d)
           /\ Product(Extent(b)) = g - f + 1
           /\ \A s \in Subscripts(Extent(b)) : BoxWant(d, b)[s] = f + Position(Extent(b), s) - 1
<1> DEFINE e == Extent(b)
           n == Len(d)
           N == Product(e)
           w == BoxWant(d, b)
           S == BoxElements(d, b)
           o == [i \in 1..n |-> 1]
<1>1. /\ d \in Seq(Nat \ {0}) /\ e \in Seq(Nat \ {0}) /\ Len(e) = n
      /\ \A i \in 1..n : b.lower[i] + e[i] - 1 = b.upper[i]
  BY BoxExtent DEF BoxIn
<1>2. b.lower \in [1..n -> Nat] /\ b.upper \in [1..n -> Nat]
  BY DEF BoxIn
<1>3. /\ Right(w, e, S) /\ w \in [Subscripts(e) -> Nat]
      /\ \A s, t \in Subscripts(e) : Position(e, s) < Position(e, t) => w[s] < w[t]
  BY BoxRight
<1>4. w = [s \in Subscripts(e) |-> Position(d, InDataset(b, s)) - 1]
  BY DEF BoxWant
<1>5. S = {Position(d, InDataset(b, s)) - 1 : s \in Subscripts(e)}
  BY DEF BoxElements
<1>6. Contiguous(S)
  OBVIOUS
<1>7. \A s \in Subscripts(e) : InDataset(b, s) \in Subscripts(d)
  BY BoxOrder
<1> HIDE DEF e, n, N, w, S, o
<1>8. o \in Subscripts(e) /\ Position(e, o) = 1 /\ e \in Subscripts(e) /\ Position(e, e) = N
  BY <1>1, Corners DEF o, N
<1>9. N \in Nat \ {0} /\ Product(d) \in Nat \ {0}
  BY <1>1, ProductOk DEF N
<1>10. InDataset(b, o) = b.lower
  <2>1. InDataset(b, o) = [i \in 1..n |-> 1 + b.lower[i] - 1]
    BY DEF InDataset, o
  <2>2. \A i \in 1..n : b.lower[i] \in Nat
    BY <1>2
  <2>3. \A i \in 1..n : 1 + b.lower[i] - 1 = b.lower[i]
    BY <2>2
  <2> QED
    BY <1>2, <2>1, <2>3
<1>11. InDataset(b, e) = b.upper
  <2>1. DOMAIN e = 1..n /\ \A i \in 1..n : e[i] \in Nat /\ b.lower[i] \in Nat
    <3>1. DOMAIN e = 1..Len(e) /\ \A i \in 1..Len(e) : e[i] \in Nat
      BY <1>1
    <3> QED
      BY <1>1, <1>2, <3>1
  <2>2. InDataset(b, e) = [i \in 1..n |-> e[i] + b.lower[i] - 1]
    BY <2>1 DEF InDataset
  <2>3. \A i \in 1..n : e[i] + b.lower[i] - 1 = b.upper[i]
    <3>1. \A x, y \in Nat : x + y - 1 = y + x - 1
      OBVIOUS
    <3> QED
      BY <1>1, <2>1, <3>1
  <2> QED
    BY <1>2, <2>2, <2>3
<1>12. w[o] = f /\ w[e] = g
  BY <1>4, <1>8, <1>10, <1>11
<1>13. f \in Nat /\ g \in Nat
  BY <1>3, <1>8, <1>12
<1>14. g < Product(d)
  <2>1. Position(d, b.upper) \in 1..Product(d)
    BY <1>1, <1>7, <1>8, <1>11, CoordsInverse
  <2> QED
    BY <1>9, <2>1
<1>15. ASSUME NEW s \in Subscripts(e) PROVE f <= w[s] /\ w[s] <= g
  <2>1. Position(e, s) \in 1..N /\ w[s] \in Nat
    BY <1>1, <1>3, CoordsInverse DEF N
  <2>2. Fits(e, s) /\ Fits(e, o) /\ Fits(e, e)
    BY <1>1, <1>8, SubscriptsOk
  <2>3. f <= w[s]
    <3>1. CASE Position(e, s) = 1
      BY SMTT(40), <1>1, <1>8, <1>12, <1>13, <2>2, <3>1, PositionOrder
    <3>2. CASE Position(e, s) # 1
      <4>1. Position(e, o) < Position(e, s)
        BY <1>8, <2>1, <3>2
      <4> QED
        BY <1>3, <1>8, <1>12, <1>13, <2>1, <4>1
    <3> QED
      BY <3>1, <3>2
  <2>4. w[s] <= g
    <3>1. CASE Position(e, s) = N
      <4>1. Position(e, s) = Position(e, e)
        BY <1>8, <3>1
      <4>2. s = e
        BY <1>1, <2>2, <4>1, PositionOrder
      <4> QED
        BY <1>12, <1>13, <4>2
    <3>2. CASE Position(e, s) # N
      <4>1. Position(e, s) < Position(e, e)
        BY <1>8, <1>9, <2>1, <3>2
      <4> QED
        BY <1>3, <1>8, <1>12, <1>13, <2>1, <4>1
    <3> QED
      BY <3>1, <3>2
  <2> QED
    BY <2>3, <2>4
<1>16. f <= g
  BY <1>8, <1>12, <1>15
<1>17. /\ DOMAIN w = Subscripts(e) /\ Cardinality(S) = N
       /\ \A s \in Subscripts(e) :
             w[s] \in S /\ Cardinality({x \in S : x <= w[s]}) = Position(e, s)
  BY <1>1, <1>3, GridSize DEF Right, N
<1>18. \A x \in S : \E s \in Subscripts(e) : x = w[s]
  BY <1>4, <1>5
<1>19. f \in S /\ g \in S /\ S \subseteq f..g
  <2>1. \A x \in S : f <= x /\ x <= g /\ x \in Int
    BY <1>3, <1>15, <1>18
  <2>2. w[o] \in S /\ w[e] \in S
    BY <1>8, <1>17
  <2> QED
    BY <1>12, <1>13, <2>1, <2>2
<1>20. Min(S) = f /\ Max(S) = g
  <2>1. \A x \in S : x \in Int /\ f <= x /\ x <= g
    BY <1>13, <1>19
  <2>2. \A x \in S : (\A y \in S : x =< y) => x = f
    BY <1>13, <1>19, <2>1
  <2>3. \A x \in S : (\A y \in S : x >= y) => x = g
    BY <1>13, <1>19, <2>1
  <2>4. (\A y \in S : f =< y) /\ (\A y \in S : g >= y)
    BY <1>13, <2>1
  <2>5. Min(S) = f
    BY <1>19, <2>2, <2>4 DEF Min
  <2>6. Max(S) = g
    BY <1>19, <2>3, <2>4 DEF Max
  <2> QED
    BY <2>5, <2>6
<1>21. N = g - f + 1
  BY <1>6, <1>17, <1>19, <1>20 DEF Contiguous
<1>22. S = f..g
  <2>1. IsFiniteSet(f..g) /\ Cardinality(f..g) = g - f + 1
    BY <1>13, <1>16, FS_Interval
  <2> QED
    BY <1>17, <1>19, <1>21, <2>1, FS_Subset
<1>23. ASSUME NEW s \in Subscripts(e) PROVE w[s] = f + Position(e, s) - 1
  <2>1. w[s] \in Int /\ f <= w[s] /\ w[s] <= g /\ Position(e, s) \in Int
    BY <1>1, <1>3, <1>15, CoordsInverse
  <2>2. {x \in S : x <= w[s]} = f..w[s]
    BY <1>13, <1>22, <2>1
  <2>3. Cardinality(f..w[s]) = w[s] - f + 1
    <3> DEFINE v == w[s]
    <3>1. v \in Int /\ f \in Int /\ ~(f > v)
      BY <1>13, <2>1
    <3> HIDE DEF v
    <3>2. Cardinality(f..v) = v - f + 1
      BY <3>1, FS_Interval
    <3> QED
      BY <3>2 DEF v
  <2>4. Position(e, s) = w[s] - f + 1
    BY <1>17, <2>2, <2>3
  <2> QED
    BY <1>13, <2>1, <2>4
<1> QED
  BY <1>13, <1>14, <1>16, <1>21, <1>23 DEF e, N, w

\* Turning a list round twice gives it back.
LEMMA TransposedTwice ==
    ASSUME NEW S, NEW s \in Seq(S)
    PROVE  Transposed(Transposed(s)) = s
<1> DEFINE n == Len(s)
           t == Transposed(s)
           u == Transposed(t)
<1>1. /\ t \in Seq(S) /\ Len(t) = n
      /\ \A i \in 1..n : n - i + 1 \in 1..n /\ n - (n - i + 1) + 1 = i /\ t[i] = s[n - i + 1]
  BY TransposedOk
<1> HIDE DEF t
<1>2. u \in Seq(S) /\ Len(u) = Len(t) /\ \A i \in 1..Len(t) : u[i] = t[Len(t) - i + 1]
  BY <1>1, TransposedOk
<1> HIDE DEF n, u
<1>3. u \in Seq(S) /\ Len(u) = n /\ \A i \in 1..n : u[i] = s[i]
  BY SMTT(40), <1>1, <1>2
<1>4. s \in Seq(S) /\ Len(s) = n
  BY DEF n
<1> QED
  BY <1>3, <1>4 DEF u, t

\* A slice of a selection: the bounds of the slice, moved by those of the
\* selection.  That is so although no hyperslab is made for a slice that has
\* as many elements as the selection.
LEMMA SlicedOk ==
    ASSUME NEW l, ~isstruct, "space" \in DOMAIN l, SpaceOk(l.space),
           NEW b, b = SpaceBounds(l.space), NEW e, e = Extent(b),
           NEW lower, NEW upper, NEW up, up = CapUpper(e, upper),
           lower \in [1..Len(e) -> Nat], up \in [1..Len(e) -> Nat], WithinBounds(e, lower, up)
    PROVE  /\ SpaceOk(Sliced(l, lower, upper).space)
           /\ Sliced(l, lower, upper).space.ext = l.space.ext
           /\ SpaceBounds(Sliced(l, lower, upper).space) =
                 [lower |-> InDataset(b, lower), upper |-> InDataset(b, up)]
<1> DEFINE sp == l.space
           d == SpaceGrid(sp)
           n == Len(d)
           A == InDataset(b, lower)
           U == InDataset(b, up)
           h == Transposed(e)
           first == Transposed(A)
           last == Transposed(U)
           z == [i \in DOMAIN first |-> last[i] - first[i] + 1]
           sp2 == Sliced(l, lower, upper).space
<1>1. /\ BoxIn(d, b)
      /\ e \in Seq(Nat \ {0}) /\ Len(e) = n /\ n \in Nat
      /\ \A i \in 1..n : b.lower[i] + e[i] - 1 = b.upper[i]
  <2>1. BoxIn(d, b)
    BY SpaceBox
  <2> HIDE DEF d
  <2> QED
    BY <2>1, BoxExtent
<1>2. /\ d \in Seq(Nat \ {0}) /\ b.lower \in [1..n -> Nat] /\ b.upper \in [1..n -> Nat]
      /\ \A i \in 1..n : 1 <= b.lower[i] /\ b.lower[i] <= b.upper[i] /\ b.upper[i] <= d[i]
  BY <1>1 DEF BoxIn
<1>3. /\ sp.ext \in Seq(Nat \ {0}) /\ d = Transposed(sp.ext) /\ Len(sp.ext) = n
      /\ \A i \in 1..n : sp.ext[i] = d[n - i + 1]
  <2>1. sp.ext \in Seq(Nat \ {0}) /\ d = Transposed(sp.ext)
    BY DEF SpaceOk, SpaceGrid
  <2> HIDE DEF d, sp
  <2>2. /\ Len(sp.ext) = n
        /\ \A i \in 1..n : n - i + 1 \in 1..n /\ n - (n - i + 1) + 1 = i /\ d[i] = sp.ext[n - i + 1]
    BY <2>1, TransposedOk
  <2> HIDE DEF n
  <2>3. \A i \in 1..n : d[n - i + 1] = sp.ext[n - (n - i + 1) + 1]
    BY <2>2
  <2> QED
    BY <2>1, <2>2, <2>3
<1>4. sp2 = IF Product(z) # Product(h)
            THEN [ext |-> sp.ext, all |-> FALSE,
                  start |-> [i \in DOMAIN first |-> first[i] - 1],
                  stop |-> [i \in DOMAIN last |-> last[i] - 1]]
            ELSE sp
  <2>1. Bounds(l) = b
    BY DEF Bounds, HasSpace, SpaceBounds, SpaceGrid
  <2> HIDE DEF sp
  <2> QED
    BY <2>1 DEF Sliced, sp
<1> HIDE DEF n, d, A, U, h, first, last, z, sp, sp2
<1>5. /\ DOMAIN e = 1..n /\ \A i \in 1..n : e[i] \in Nat
      /\ lower \in [1..n -> Nat] /\ up \in [1..n -> Nat]
      /\ \A i \in 1..n : 1 <= lower[i] /\ lower[i] <= up[i] /\ up[i] <= e[i]
  <2>1. DOMAIN e = 1..n
    BY <1>1
  <2> QED
    BY <1>1, <2>1 DEF WithinBounds
<1>6. ASSUME NEW i \in 1..n
      PROVE  /\ b.lower[i] \in Nat /\ e[i] \in Nat /\ d[i] \in Nat /\ lower[i] \in Nat /\ up[i] \in Nat
             /\ A[i] = lower[i] + b.lower[i] - 1 /\ U[i] = up[i] + b.lower[i] - 1
             /\ 1 <= b.lower[i] /\ 1 <= lower[i] /\ lower[i] <= up[i] /\ up[i] <= e[i]
             /\ b.lower[i] + e[i] - 1 <= d[i]
  <2>1. A[i] = lower[i] + b.lower[i] - 1 /\ U[i] = up[i] + b.lower[i] - 1
    BY <1>5 DEF A, U, InDataset
  <2>2. d[i] \in Nat
    BY <1>2 DEF n
  <2> QED
    BY <1>1, <1>2, <1>5, <2>1, <2>2
<1>7. ASSUME NEW i \in 1..n
      PROVE  /\ A[i] \in Nat \ {0} /\ U[i] \in Nat \ {0}
             /\ A[i] <= U[i] /\ U[i] <= d[i] /\ d[i] \in Nat
             /\ U[i] - A[i] + 1 = up[i] - lower[i] + 1
             /\ U[i] - A[i] + 1 \in Nat \ {0} /\ U[i] - A[i] + 1 <= e[i]
  <2> DEFINE c == b.lower[i]
             x == lower[i]
             y == up[i]
             m == e[i]
             k == d[i]
  <2>1. /\ c \in Nat /\ x \in Nat /\ y \in Nat /\ m \in Nat /\ k \in Nat
        /\ 1 <= c /\ 1 <= x /\ x <= y /\ y <= m /\ c + m - 1 <= k
        /\ A[i] = x + c - 1 /\ U[i] = y + c - 1
    BY <1>6
  <2> HIDE DEF c, x, y, m, k
  <2>2. /\ x + c - 1 \in Nat \ {0} /\ y + c - 1 \in Nat \ {0}
        /\ x + c - 1 <= y + c - 1 /\ y + c - 1 <= k
        /\ (y + c - 1) - (x + c - 1) + 1 = y - x + 1
        /\ y - x + 1 \in Nat \ {0} /\ y - x + 1 <= m
    BY <2>1
  <2>3. /\ A[i] \in Nat \ {0} /\ U[i] \in Nat \ {0}
        /\ A[i] <= U[i] /\ U[i] <= k /\ U[i] - A[i] + 1 = y - x + 1
        /\ U[i] - A[i] + 1 \in Nat \ {0} /\ U[i] - A[i] + 1 <= m
    BY <2>1, <2>2
  <2> QED
    BY <2>1, <2>3 DEF x, y, m, k
<1>8. A \in Seq(Nat \ {0}) /\ Len(A) = n /\ U \in Seq(Nat \ {0}) /\ Len(U) = n
  <2>1. DOMAIN A = 1..n /\ A = [i \in 1..n |-> A[i]] /\ DOMAIN U = 1..n /\ U = [i \in 1..n |-> U[i]]
    BY <1>5 DEF A, U, InDataset
  <2>2. A \in [1..n -> Nat \ {0}]
    BY <1>7, <2>1
  <2>3. U \in [1..n -> Nat \ {0}]
    BY <1>7, <2>1
  <2> QED
    BY <1>1, <2>2, <2>3
<1>9. ASSUME NEW T, NEW t \in Seq(T), Len(t) = n
      PROVE  /\ Transposed(t) \in [1..n -> T] /\ Transposed(Transposed(t)) = t
             /\ Transposed(t) \in Seq(T) /\ Len(Transposed(t)) = n
             /\ \A i \in 1..n : Transposed(t)[i] = t[n - i + 1]
  <2>1. /\ Transposed(t) \in [1..Len(t) -> T]
        /\ Transposed(t) \in Seq(T) /\ Len(Transposed(t)) = Len(t)
        /\ \A i \in 1..Len(t) : Transposed(t)[i] = t[Len(t) - i + 1]
    BY TransposedOk
  <2>2. Transposed(Transposed(t)) = t
    BY TransposedTwice
  <2> QED
    BY <1>9, <2>1, <2>2
<1>10. /\ first \in [1..n -> Nat \ {0}] /\ last \in [1..n -> Nat \ {0}]
       /\ first \in Seq(Nat \ {0}) /\ last \in Seq(Nat \ {0})
       /\ \A i \in 1..n : first[i] = A[n - i + 1] /\ last[i] = U[n - i + 1]
       /\ Transposed(first) = A /\ Transposed(last) = U
  BY <1>8, <1>9 DEF first, last
<1>11. h \in Seq(Nat \ {0}) /\ Len(h) = n /\ \A i \in 1..n : h[i] = e[n - i + 1]
  BY SMTT(40), <1>1, <1>9 DEF h
<1>12. \A i \in 1..n : n - i + 1 \in 1..n /\ n - (n - i + 1) + 1 = i
  BY <1>1
<1>13. CASE Product(z) # Product(h)
  <2>1. /\ sp2.ext = sp.ext /\ sp2.all = FALSE
        /\ sp2.start = [i \in 1..n |-> first[i] - 1]
        /\ sp2.stop = [i \in 1..n |-> last[i] - 1]
    BY <1>4, <1>10, <1>13
  <2>2. ASSUME NEW i \in 1..n
        PROVE  /\ first[i] - 1 \in Nat /\ last[i] - 1 \in Nat
               /\ first[i] - 1 + 1 = first[i] /\ last[i] - 1 + 1 = last[i]
               /\ first[i] - 1 <= last[i] - 1 /\ last[i] - 1 < sp.ext[i]
    <3>1. first[i] = A[n - i + 1] /\ last[i] = U[n - i + 1] /\ sp.ext[i] = d[n - i + 1]
      BY <1>3, <1>10
    <3>2. /\ A[n - i + 1] \in Nat \ {0} /\ U[n - i + 1] \in Nat \ {0}
          /\ A[n - i + 1] <= U[n - i + 1] /\ U[n - i + 1] <= d[n - i + 1] /\ d[n - i + 1] \in Nat
      BY <1>7, <1>12
    <3> QED
      BY <3>1, <3>2
  <2>3. SpaceOk(sp2)
    <3>1. sp2.start \in [1..n -> Nat] /\ sp2.stop \in [1..n -> Nat]
      BY <2>1, <2>2
    <3>2. \A i \in 1..n : sp2.start[i] <= sp2.stop[i] /\ sp2.stop[i] < sp2.ext[i]
      BY <2>1, <2>2
    <3> QED
      BY <1>3, <2>1, <3>1, <3>2 DEF SpaceOk
  <2>4. SpaceGrid(sp2) = d
    BY <1>3, <2>1 DEF SpaceGrid
  <2>5. DOMAIN d = 1..n
    BY <1>2 DEF n
  <2>6. /\ [i \in 1..n |-> sp2.start[i] + 1] = first
        /\ [i \in 1..n |-> sp2.stop[i] + 1] = last
    BY <1>10, <2>1, <2>2
  <2>7. SpaceBounds(sp2) = [lower |-> A, upper |-> U]
    BY <1>10, <2>1, <2>4, <2>5, <2>6 DEF SpaceBounds
  <2> QED
    BY <2>1, <2>3, <2>7 DEF sp2, sp, A, U
<1>14. CASE Product(z) = Product(h)
  <2>1. sp2 = sp
    BY <1>4, <1>14
  <2>2. z = [i \in 1..n |-> last[i] - first[i] + 1]
    BY <1>10 DEF z
  <2>3. ASSUME NEW i \in 1..n
        PROVE  last[i] - first[i] + 1 \in Nat \ {0} /\ last[i] - first[i] + 1 <= h[i]
    <3>1. first[i] = A[n - i + 1] /\ last[i] = U[n - i + 1] /\ h[i] = e[n - i + 1]
      BY <1>10, <1>11
    <3> QED
      BY <1>7, <1>12, <3>1
  <2>4. z \in [1..n -> Nat \ {0}]
    BY <2>2, <2>3
  <2>5. z \in Seq(Nat \ {0}) /\ Len(z) = n
    BY SMTT(40), <1>1, <2>4
  <2>6. \A i \in 1..n : z[i] <= h[i]
    BY <2>2, <2>3
  <2>7. \A i \in 1..n : z[i] = h[i]
    BY <1>11, <1>14, <2>5, <2>6, WholePart
  <2>8. ASSUME NEW i \in 1..n PROVE A[i] = b.lower[i] /\ U[i] = b.upper[i]
    <3> DEFINE k == n - i + 1
    <3>1. k \in 1..n /\ n - k + 1 = i
      BY <1>12
    <3> HIDE DEF k
    <3>2. first[k] = A[i] /\ last[k] = U[i] /\ h[k] = e[i] /\ z[k] = last[k] - first[k] + 1
      BY <1>10, <1>11, <2>2, <3>1
    <3>3. U[i] - A[i] + 1 = e[i]
      BY <2>7, <3>1, <3>2
    <3>4. lower[i] = 1 /\ up[i] = e[i]
      BY <1>6, <1>7, <3>3
    <3>5. b.lower[i] + e[i] - 1 = b.upper[i]
      BY <1>1
    <3>6. \A c, y \in Nat : 1 + c - 1 = c /\ y + c - 1 = c + y - 1
      OBVIOUS
    <3>7. A[i] = 1 + b.lower[i] - 1 /\ U[i] = e[i] + b.lower[i] - 1
      BY <1>6, <3>4
    <3>8. b.lower[i] \in Nat /\ e[i] \in Nat
      BY <1>6
    <3> QED
      BY <3>5, <3>6, <3>7, <3>8
  <2>9. A = b.lower /\ U = b.upper
    <3>1. DOMAIN A = 1..n /\ DOMAIN U = 1..n /\ A = [i \in 1..n |-> A[i]] /\ U = [i \in 1..n |-> U[i]]
      BY <1>5 DEF A, U, InDataset
    <3> QED
      BY <1>2, <2>8, <3>1
  <2>10. b = [lower |-> b.lower, upper |-> b.upper]
    BY DEF SpaceBounds
  <2> QED
    BY <2>1, <2>9, <2>10 DEF sp2, sp, A, U
<1> QED
  BY <1>13, <1>14

-----------------------------------------------------------------------------
\* One element, of a scalar.
Point(x) == [s \in {<<>>} |-> x]

\* A locator into a primitive: it has a dataspace, and what is asked for is the
\* box that this selects.
PrimitiveOk ==
    /\ SpaceOk(sloc.space)
    /\ IF sloc.iscell
       THEN /\ SpaceBounds(sloc.space).lower = SpaceBounds(sloc.space).upper
            /\ want = Point(Position(SpaceGrid(sloc.space), SpaceBounds(sloc.space).lower) - 1)
       ELSE want = BoxWant(SpaceGrid(sloc.space), SpaceBounds(sloc.space))

\* A locator to an array of structures: there are no slices of these.
ArrayOk ==
    /\ dims # <<>> /\ cell = 0 /\ ~sloc.iscell
    /\ IF sloc.vectorized
       THEN /\ Len(dims) # 1
            /\ sloc.space = VectorSpace(Product(dims), 0, Product(dims) - 1)
            /\ want = Row(0, Product(dims))
       ELSE /\ sloc.space = NoSpace
            /\ want = [s \in Subscripts(dims) |-> Position(dims, s) - 1]

\* A locator to one structure.
CellOk ==
    /\ dims = <<>> /\ cell \in Nat \ {0}
    /\ IF sloc.vectorized
       THEN ~sloc.iscell /\ sloc.space = VectorSpace(1, 0, 0) /\ want = Row(cell - 1, 1)
       ELSE sloc.space = NoSpace /\ want = Point(cell - 1)

ShapeOk ==
    /\ isstruct \in BOOLEAN
    /\ dims \in Seq(Nat \ {0})
    /\ DOMAIN sloc = {"space", "vectorized", "iscell", "isdiscont"}
    /\ sloc.vectorized \in BOOLEAN /\ sloc.iscell \in BOOLEAN
    /\ IF isstruct THEN ArrayOk \/ CellOk ELSE PrimitiveOk

\* After a broken selection has been vectorised nothing is said.
ShInv == exact \in BOOLEAN /\ (exact => ShapeOk)

\* The bounds of a locator without a dataspace.
LEMMA NoSpaceBounds ==
    ASSUME isstruct, ~sloc.vectorized, sloc.space = NoSpace, dims \in Seq(Nat \ {0})
    PROVE  /\ Bounds(sloc) = [lower |-> [i \in 1..Len(dims) |-> 1], upper |-> dims]
           /\ Extent(Bounds(sloc)) = dims
<1>1. Bounds(sloc) = [lower |-> [i \in DOMAIN dims |-> 1], upper |-> dims]
  BY DEF Bounds, HasSpace, NoSpace
<1>2. DOMAIN dims = 1..Len(dims)
  OBVIOUS
<1> DEFINE b == [lower |-> [i \in 1..Len(dims) |-> 1], upper |-> dims]
<1>3. Bounds(sloc) = b
  BY <1>1, <1>2
<1>4. b.lower = [i \in 1..Len(dims) |-> 1] /\ b.upper = dims
  OBVIOUS
<1> HIDE DEF b
<1>5. Extent(b) = dims
  BY <1>4, WholeBox
<1> QED
  BY <1>3, <1>5 DEF b

\* The bounds of a locator with one.
LEMMA WithSpaceBounds ==
    ASSUME HasSpace(sloc)
    PROVE  Bounds(sloc) = SpaceBounds(sloc.space)
BY DEF Bounds, SpaceBounds, SpaceGrid

\* SelectionRight for a locator to a primitive.
LEMMA PrimitiveRight ==
    ASSUME ~isstruct, PrimitiveOk, sloc.iscell \in BOOLEAN
    PROVE  Right(want, DatShape(sloc), Selected)
<1> DEFINE d == SpaceGrid(sloc.space)
           b == SpaceBounds(sloc.space)
<1>1. Selected = BoxElements(d, b)
  <2>1. Selected = SelectedElements(sloc.space)
    BY DEF Selected
  <2> QED
    BY <2>1, SelectedBox DEF PrimitiveOk
<1>2. BoxIn(d, b) /\ Bounds(sloc) = b
  BY SpaceBox, WithSpaceBounds DEF PrimitiveOk, HasSpace
<1>3. CASE sloc.iscell
  <2>1. b.lower = b.upper /\ want = Point(Position(d, b.lower) - 1)
    BY <1>3 DEF PrimitiveOk
  <2> HIDE DEF d, b
  <2>2. Selected = {Position(d, b.lower) - 1} /\ Position(d, b.lower) - 1 \in Int
    BY <1>1, <1>2, <2>1, OnePoint
  <2>3. DatShape(sloc) = <<>>
    BY <1>3 DEF DatShape
  <2> QED
    BY <2>1, <2>2, <2>3, PointRight DEF Point
<1>4. CASE ~sloc.iscell
  <2>1. want = BoxWant(d, b) /\ DatShape(sloc) = Extent(b)
    BY <1>2, <1>4 DEF PrimitiveOk, DatShape
  <2> HIDE DEF d, b
  <2> QED
    BY <1>1, <1>2, <2>1, BoxRight
<1> QED
  BY <1>3, <1>4

\* SelectionRight for a locator to an array of structures.
LEMMA ArrayRight ==
    ASSUME isstruct, ArrayOk, dims \in Seq(Nat \ {0}), sloc.vectorized \in BOOLEAN
    PROVE  Right(want, DatShape(sloc), Selected)
<1> DEFINE P == Product(dims)
<1>1. P \in Nat \ {0} /\ cell = 0 /\ ~sloc.iscell
  BY ProductOk DEF ArrayOk
<1>2. DatShape(sloc) = Extent(Bounds(sloc))
  BY <1>1 DEF DatShape
<1>3. CASE sloc.vectorized
  <2> DEFINE sp == VectorSpace(P, 0, P - 1)
             b == SpaceBounds(sp)
  <2>1. sloc.space = sp /\ want = Row(0, P)
    BY <1>3 DEF ArrayOk
  <2>2. 0 \in Nat /\ P - 1 \in Nat /\ 0 <= P - 1 /\ P - 1 < P /\ P - 1 - 0 + 1 = P
    BY <1>1
  <2> HIDE DEF P
  <2>3. /\ SpaceOk(sp) /\ SpaceGrid(sp) = <<P>>
        /\ BoxWant(<<P>>, b) = Row(0, P)
    BY <1>1, <2>2, VectorBox
  <2>4. BoxIn(<<P>>, b) /\ SelectedElements(sp) = BoxElements(<<P>>, b)
    BY <2>3, SpaceBox, SelectedBox
  <2>5. Selected = SelectedElements(sp) /\ Bounds(sloc) = b
    BY <1>1, <1>3, <2>1, WithSpaceBounds DEF Selected, HasSpace
  <2> HIDE DEF b
  <2>6. Right(BoxWant(<<P>>, b), Extent(b), BoxElements(<<P>>, b))
    BY <2>4, BoxRight
  <2> QED
    BY <1>2, <2>1, <2>3, <2>4, <2>5, <2>6
<1>4. CASE ~sloc.vectorized
  <2> DEFINE b == [lower |-> [i \in 1..Len(dims) |-> 1], upper |-> dims]
  <2>1. /\ sloc.space = NoSpace
        /\ want = [s \in Subscripts(dims) |-> Position(dims, s) - 1]
    BY <1>4 DEF ArrayOk
  <2>2. Extent(Bounds(sloc)) = dims
    BY <1>4, <2>1, NoSpaceBounds
  <2>3. Selected = 0..(P - 1)
    BY <1>1, <1>4 DEF Selected
  <2>4. b.lower = [i \in 1..Len(dims) |-> 1] /\ b.upper = dims
    OBVIOUS
  <2> HIDE DEF b, P
  <2>5. /\ BoxIn(dims, b) /\ Extent(b) = dims /\ BoxWant(dims, b) = want
        /\ BoxElements(dims, b) = 0..(P - 1)
    BY <2>1, <2>4, WholeBox DEF P
  <2>6. Right(BoxWant(dims, b), Extent(b), BoxElements(dims, b))
    BY <2>5, BoxRight
  <2> QED
    BY <1>2, <2>2, <2>3, <2>5, <2>6
<1> QED
  BY <1>3, <1>4

\* SelectionRight for a locator to one structure.
LEMMA CellRight ==
    ASSUME isstruct, CellOk, sloc.vectorized \in BOOLEAN, sloc.iscell \in BOOLEAN
    PROVE  Right(want, DatShape(sloc), Selected)
<1>1. cell \in Nat \ {0} /\ dims = <<>> /\ cell - 1 \in Int
  BY DEF CellOk
<1>2. Selected = {cell - 1}
  BY <1>1 DEF Selected
<1>3. CASE sloc.vectorized
  <2>1. ~sloc.iscell /\ sloc.space = VectorSpace(1, 0, 0) /\ want = Row(cell - 1, 1)
    BY <1>3 DEF CellOk
  <2>2. Bounds(sloc) = SpaceBounds(VectorSpace(1, 0, 0))
    BY <1>3, <2>1, WithSpaceBounds DEF HasSpace
  <2>3. Extent(SpaceBounds(VectorSpace(1, 0, 0))) = <<1>>
    <3> DEFINE f == 0
               m == 1
    <3>1. f \in Nat /\ m \in Nat \ {0} /\ f <= f /\ f < m /\ f - f + 1 = 1
      OBVIOUS
    <3> HIDE DEF f, m
    <3>2. Extent(SpaceBounds(VectorSpace(m, f, f))) = <<f - f + 1>>
      BY <3>1, VectorBox
    <3> QED
      BY <3>1, <3>2 DEF f, m
  <2>4. DatShape(sloc) = <<1>>
    BY <2>1, <2>2, <2>3 DEF DatShape
  <2>5. want = [s \in {<<1>>} |-> cell - 1]
    <3>1. {<<i>> : i \in 1..1} = {<<1>>}
      OBVIOUS
    <3>2. \A s \in {<<1>>} : cell - 1 + s[1] - 1 = cell - 1
      BY <1>1
    <3> QED
      BY <2>1, <3>1, <3>2 DEF Row
  <2> QED
    BY <1>1, <1>2, <2>4, <2>5, PointRight
<1>4. CASE ~sloc.vectorized
  <2>1. sloc.space = NoSpace /\ want = Point(cell - 1)
    BY <1>4 DEF CellOk
  <2>2. Extent(Bounds(sloc)) = <<>>
    BY <1>1, <1>4, <2>1, NoSpaceBounds
  <2>3. DatShape(sloc) = <<>>
    BY <2>2 DEF DatShape
  <2> QED
    BY <1>1, <1>2, <2>1, <2>3, PointRight DEF Point
<1> QED
  BY <1>3, <1>4

\* The invariant implies the property.
LEMMA ShapesRight == ShInv => SelectionRight
<1> SUFFICES ASSUME ShInv, exact PROVE Right(want, DatShape(sloc), Selected)
  BY DEF SelectionRight, Right
<1>1. ShapeOk
  BY DEF ShInv
<1>2. CASE isstruct
  BY <1>1, <1>2, ArrayRight, CellRight DEF ShapeOk
<1>3. CASE ~isstruct
  BY <1>1, <1>3, PrimitiveRight DEF ShapeOk
<1> QED
  BY <1>2, <1>3

\* The locator that datFind returns refers to the whole array.
LEMMA ShapesFirst ==
    ASSUME ShapesInit
    PROVE  ShInv
<1>1. /\ isstruct \in BOOLEAN /\ dims \in Seq(Nat \ {0}) /\ exact = TRUE
      /\ cell = IF dims = <<>> THEN 1 ELSE 0
      /\ sloc = [space |-> IF isstruct THEN NoSpace ELSE WholeSpace(Transposed(dims)),
                 vectorized |-> FALSE, iscell |-> FALSE, isdiscont |-> FALSE]
      /\ want = [s \in Subscripts(dims) |-> Position(dims, s) - 1]
  BY ShapesAssumption DEF ShapesInit
<1>2. /\ DOMAIN sloc = {"space", "vectorized", "iscell", "isdiscont"}
      /\ sloc.vectorized = FALSE /\ sloc.iscell = FALSE
  BY <1>1
<1>3. CASE isstruct /\ dims # <<>>
  <2>1. ArrayOk
    BY <1>1, <1>3 DEF ArrayOk
  <2> QED
    BY <1>1, <1>2, <1>3, <2>1 DEF ShInv, ShapeOk
<1>4. CASE isstruct /\ dims = <<>>
  <2>1. Subscripts(dims) = {<<>>} /\ Position(<<>>, <<>>) = 1
    BY <1>4, ScalarGrid
  <2>2. want = Point(0)
    BY <1>1, <1>4, <2>1 DEF Point
  <2>3. CellOk
    BY <1>1, <1>4, <2>2 DEF CellOk
  <2> QED
    BY <1>1, <1>2, <1>4, <2>3 DEF ShInv, ShapeOk
<1>5. CASE ~isstruct
  <2> DEFINE sp == WholeSpace(Transposed(dims))
             b == SpaceBounds(sp)
  <2>1. sloc.space = sp
    BY <1>1, <1>5
  <2>2. sp.ext = Transposed(dims) /\ sp.all = TRUE
    BY DEF WholeSpace, NoSpace
  <2>3. Transposed(dims) \in Seq(Nat \ {0}) /\ Transposed(Transposed(dims)) = dims
    BY <1>1, TransposedOk, TransposedTwice
  <2> HIDE DEF sp
  <2>4. SpaceOk(sp) /\ SpaceGrid(sp) = dims
    BY <2>2, <2>3 DEF SpaceOk, SpaceGrid
  <2>5. b.lower = [i \in 1..Len(dims) |-> 1] /\ b.upper = dims
    BY <2>2, <2>4, SpaceBox
  <2> HIDE DEF b
  <2>6. BoxWant(dims, b) = want
    BY <1>1, <2>5, WholeBox
  <2>7. PrimitiveOk
    BY <1>2, <2>1, <2>4, <2>6 DEF PrimitiveOk, b
  <2> QED
    BY <1>1, <1>2, <1>5, <2>7 DEF ShInv, ShapeOk
<1> QED
  BY <1>1, <1>3, <1>4, <1>5

\* What is asked for with bounds in what was asked for.
SliceWant(w, lower, up) ==
    [s \in Subscripts([i \in DOMAIN lower |-> up[i] - lower[i] + 1]) |->
        w[[i \in DOMAIN s |-> s[i] + lower[i] - 1]]]

\* The box of a box.
LEMMA BoxSlice ==
    ASSUME NEW d, NEW b, BoxIn(d, b), NEW e, e = Extent(b),
           NEW lower \in [1..Len(e) -> Nat], NEW up \in [1..Len(e) -> Nat],
           WithinBounds(e, lower, up),
           NEW c, c = [lower |-> InDataset(b, lower), upper |-> InDataset(b, up)]
    PROVE  SliceWant(BoxWant(d, b), lower, up) = BoxWant(d, c)
<1> DEFINE n == Len(d)
           a == [lower |-> lower, upper |-> up]
           z == [i \in DOMAIN lower |-> up[i] - lower[i] + 1]
           At(s) == [i \in DOMAIN s |-> s[i] + lower[i] - 1]
<1>1. /\ e \in Seq(Nat \ {0}) /\ Len(e) = n /\ n \in Nat
      /\ lower \in [1..n -> Nat] /\ up \in [1..n -> Nat]
  BY BoxExtent
<1>2. b.lower \in [1..n -> Nat]
  BY DEF BoxIn
<1> HIDE DEF n
<1>3. DOMAIN e = 1..n
  BY <1>1
<1>4. BoxIn(e, a) /\ z = Extent(a)
  <2>1. a.lower = lower /\ a.upper = up
    OBVIOUS
  <2> HIDE DEF a
  <2>2. \A i \in 1..n : 1 <= lower[i] /\ lower[i] <= up[i] /\ up[i] <= e[i]
    BY <1>3 DEF WithinBounds
  <2> QED
    BY <1>1, <2>1, <2>2 DEF BoxIn, Extent
<1>5. z \in Seq(Nat \ {0}) /\ Len(z) = n /\ \A i \in 1..n : z[i] = up[i] - lower[i] + 1
  <2> HIDE DEF z, a
  <2>1. z \in Seq(Nat \ {0}) /\ Len(z) = n
    BY <1>1, <1>4, BoxExtent
  <2> QED
    BY <1>1, <2>1 DEF z
<1>6. z = Extent(c)
  <2>1. c.lower = [i \in 1..n |-> lower[i] + b.lower[i] - 1]
        /\ c.upper = [i \in 1..n |-> up[i] + b.lower[i] - 1]
    BY <1>1 DEF InDataset
  <2>2. Extent(c) = [i \in 1..n |-> (up[i] + b.lower[i] - 1) - (lower[i] + b.lower[i] - 1) + 1]
    BY <2>1 DEF Extent
  <2>3. \A i \in 1..n : lower[i] \in Nat /\ up[i] \in Nat /\ b.lower[i] \in Nat
    BY <1>1, <1>2
  <2>4. ASSUME NEW i \in 1..n
        PROVE  (up[i] + b.lower[i] - 1) - (lower[i] + b.lower[i] - 1) + 1 = up[i] - lower[i] + 1
    <3> DEFINE x == lower[i]
               y == up[i]
               m == b.lower[i]
    <3>1. x \in Nat /\ y \in Nat /\ m \in Nat
      BY <2>3
    <3> HIDE DEF x, y, m
    <3>2. (y + m - 1) - (x + m - 1) + 1 = y - x + 1
      BY <3>1
    <3> QED
      BY <3>2 DEF x, y, m
  <2>5. z = [i \in 1..n |-> up[i] - lower[i] + 1]
    BY <1>1
  <2> QED
    BY <2>2, <2>4, <2>5
<1>7. ASSUME NEW s \in Subscripts(z)
      PROVE  At(s) \in Subscripts(e) /\ InDataset(b, At(s)) = InDataset(c, s)
  <2>1. At(s) = InDataset(a, s)
    BY DEF InDataset
  <2>2. s \in [1..n -> Nat]
    BY <1>5, SubscriptsOk DEF Fits
  <2>3. InDataset(a, s) \in Subscripts(e)
    <3> HIDE DEF a, z
    <3> QED
      BY <1>4, BoxOrder
  <2>4. InDataset(b, At(s)) = [i \in 1..n |-> (s[i] + lower[i] - 1) + b.lower[i] - 1]
    BY <2>2 DEF InDataset
  <2>5. InDataset(c, s) = [i \in 1..n |-> s[i] + (lower[i] + b.lower[i] - 1) - 1]
    BY <1>1, <2>2 DEF InDataset
  <2>6. \A i \in 1..n : s[i] \in Nat /\ lower[i] \in Nat /\ b.lower[i] \in Nat
    BY <1>1, <1>2, <2>2
  <2>7. ASSUME NEW i \in 1..n
        PROVE  (s[i] + lower[i] - 1) + b.lower[i] - 1 = s[i] + (lower[i] + b.lower[i] - 1) - 1
    <3> DEFINE x == lower[i]
               y == s[i]
               m == b.lower[i]
    <3>1. x \in Nat /\ y \in Nat /\ m \in Nat
      BY <2>6
    <3> HIDE DEF x, y, m
    <3>2. (y + x - 1) + m - 1 = y + (x + m - 1) - 1
      BY <3>1
    <3> QED
      BY <3>2 DEF x, y, m
  <2> QED
    BY <2>1, <2>3, <2>4, <2>5, <2>7
<1> HIDE DEF At, z
<1>8. ASSUME NEW s \in Subscripts(z)
      PROVE  BoxWant(d, b)[At(s)] = Position(d, InDataset(c, s)) - 1
  BY <1>7 DEF BoxWant
<1>9. BoxWant(d, c) = [s \in Subscripts(z) |-> Position(d, InDataset(c, s)) - 1]
  BY <1>6 DEF BoxWant
<1>10. [s \in Subscripts(z) |-> BoxWant(d, b)[At(s)]] = BoxWant(d, c)
  BY <1>8, <1>9
<1> QED
  BY <1>10 DEF z, At, SliceWant

\* What datSlice, and datCell on a primitive, start from.
LEMMA SliceFrom ==
    ASSUME ShInv, exact, NEW lower, NEW upper, SliceAllowed(sloc, lower, upper),
           lower \in Asks(Extent(Bounds(sloc))), upper \in Asks(Extent(Bounds(sloc))),
           NEW b, b = SpaceBounds(sloc.space), NEW e, e = Extent(b),
           NEW d, d = SpaceGrid(sloc.space),
           NEW m, m = Sliced(sloc, lower, upper),
           NEW c, c = [lower |-> InDataset(b, lower), upper |-> InDataset(b, CapUpper(e, upper))]
    PROVE  /\ ~isstruct /\ PrimitiveOk /\ Bounds(sloc) = b /\ BoxIn(d, b)
           /\ e \in Seq(Nat \ {0}) /\ Len(e) = Len(d)
           /\ lower \in [1..Len(e) -> Nat] /\ CapUpper(e, upper) \in [1..Len(e) -> Nat]
           /\ upper \in [1..Len(e) -> Nat]
           /\ WithinBounds(e, lower, CapUpper(e, upper))
           /\ SpaceOk(m.space) /\ SpaceGrid(m.space) = d /\ SpaceBounds(m.space) = c
           /\ m.vectorized = sloc.vectorized /\ m.iscell = sloc.iscell
           /\ DOMAIN m = DOMAIN sloc
<1> DEFINE up == CapUpper(e, upper)
<1>1. /\ ~isstruct /\ PrimitiveOk /\ SpaceOk(sloc.space)
      /\ DOMAIN sloc = {"space", "vectorized", "iscell", "isdiscont"}
  BY DEF ShInv, ShapeOk, SliceAllowed, PrimitiveOk
<1>2. Bounds(sloc) = b
  BY <1>1, WithSpaceBounds DEF HasSpace
<1>3. BoxIn(d, b)
  BY <1>1, SpaceBox
<1>4. e \in Seq(Nat \ {0}) /\ Len(e) = Len(d)
  BY <1>3, BoxExtent
<1>5. DOMAIN e = 1..Len(e) /\ \A i \in 1..Len(e) : e[i] \in Nat
  BY <1>4
<1>6. lower \in [1..Len(e) -> Nat] /\ upper \in [1..Len(e) -> Nat]
  BY <1>2, <1>5, ShapesAssumption DEF Asks
<1>7. up \in [1..Len(e) -> Nat]
  <2>1. up = [i \in 1..Len(e) |-> IF upper[i] <= 0 THEN e[i] ELSE upper[i]]
    BY <1>5 DEF CapUpper
  <2>2. \A i \in 1..Len(e) : upper[i] \in Nat
    BY <1>6
  <2> QED
    BY <1>5, <2>1, <2>2
<1>8. WithinBounds(e, lower, up)
  BY <1>2 DEF SliceAllowed
<1> HIDE DEF up
<1>9. SpaceOk(m.space) /\ m.space.ext = sloc.space.ext /\ SpaceBounds(m.space) = c
  BY <1>1, <1>6, <1>7, <1>8, SlicedOk DEF up
<1>10. SpaceGrid(m.space) = d
  BY <1>9 DEF SpaceGrid
<1>11. m.vectorized = sloc.vectorized /\ m.iscell = sloc.iscell /\ DOMAIN m = DOMAIN sloc
  BY <1>1 DEF Sliced
<1> QED
  BY <1>1, <1>2, <1>3, <1>4, <1>6, <1>7, <1>8, <1>9, <1>10, <1>11 DEF up

\* datSlice: a box in a box.
LEMMA SliceStep ==
    ASSUME ShInv, NEW lower \in Asks(Bounds(sloc).upper), NEW upper \in Asks(Bounds(sloc).upper),
           DatSlice(lower, upper)
    PROVE  ShInv'
<1> SUFFICES ASSUME exact PROVE ShapeOk'
  BY DEF ShInv, DatSlice
<1> DEFINE b == SpaceBounds(sloc.space)
           e == Extent(b)
           d == SpaceGrid(sloc.space)
           up == CapUpper(e, upper)
           m == Sliced(sloc, lower, upper)
           c == [lower |-> InDataset(b, lower), upper |-> InDataset(b, up)]
<1>1. /\ SliceAllowed(sloc, lower, upper) /\ sloc' = m /\ want' = Asked(lower, upper)
      /\ isstruct' = isstruct /\ dims' = dims /\ cell' = cell
  BY DEF DatSlice
<1>2. lower \in Asks(Extent(Bounds(sloc))) /\ upper \in Asks(Extent(Bounds(sloc)))
  <2>1. ~isstruct /\ SpaceOk(sloc.space)
    BY <1>1 DEF ShInv, ShapeOk, SliceAllowed, PrimitiveOk
  <2>2. BoxIn(d, b) /\ Bounds(sloc) = b
    BY <2>1, SpaceBox, WithSpaceBounds DEF HasSpace
  <2> HIDE DEF d, b
  <2>3. Extent(b) \in Seq(Nat \ {0}) /\ Len(Extent(b)) = Len(d) /\ b.upper \in [1..Len(d) -> Nat]
    BY <2>2, BoxExtent DEF BoxIn
  <2>4. DOMAIN Extent(b) = DOMAIN b.upper
    BY <2>3
  <2> QED
    BY <2>2, <2>4 DEF Asks
<1> HIDE DEF b, e, d, m, c
<1>3. /\ ~isstruct /\ PrimitiveOk /\ Bounds(sloc) = b /\ BoxIn(d, b)
      /\ e \in Seq(Nat \ {0}) /\ Len(e) = Len(d)
      /\ lower \in [1..Len(e) -> Nat] /\ up \in [1..Len(e) -> Nat]
      /\ WithinBounds(e, lower, up)
      /\ SpaceOk(m.space) /\ SpaceGrid(m.space) = d /\ SpaceBounds(m.space) = c
      /\ m.vectorized = sloc.vectorized /\ m.iscell = sloc.iscell
      /\ DOMAIN m = DOMAIN sloc
  BY <1>1, <1>2, SliceFrom DEF b, e, d, m, c
<1>4. c.lower = InDataset(b, lower) /\ c.upper = InDataset(b, up)
  BY DEF c
<1>5. CASE sloc.iscell
  <2>1. b.lower = b.upper /\ want = Point(Position(d, b.lower) - 1)
    BY <1>3, <1>5 DEF PrimitiveOk, b, d
  <2>2. \A i \in 1..Len(d) : e[i] = 1
    BY <1>3, <2>1, OnePoint DEF e
  <2>3. ASSUME NEW t \in [1..Len(d) -> Nat], \A i \in 1..Len(d) : t[i] = 1
        PROVE  InDataset(b, t) = b.lower
    <3>1. b.lower \in [1..Len(d) -> Nat]
      BY <1>3 DEF BoxIn
    <3>2. InDataset(b, t) = [i \in 1..Len(d) |-> 1 + b.lower[i] - 1]
      BY <2>3 DEF InDataset
    <3>3. \A i \in 1..Len(d) : b.lower[i] \in Nat
      BY <3>1
    <3>4. \A i \in 1..Len(d) : 1 + b.lower[i] - 1 = b.lower[i]
      BY <3>3
    <3> QED
      BY <3>1, <3>2, <3>4
  <2>4. \A i \in 1..Len(d) : lower[i] = 1 /\ up[i] = 1
    <3> HIDE DEF up
    <3>1. DOMAIN e = 1..Len(d)
      BY <1>3
    <3>2. \A i \in 1..Len(d) : 1 <= lower[i] /\ lower[i] <= up[i] /\ up[i] <= 1
                               /\ lower[i] \in Nat /\ up[i] \in Nat
      BY <1>3, <2>2, <3>1 DEF WithinBounds
    <3> QED
      BY <3>2
  <2>5. c.lower = b.lower /\ c.upper = b.lower
    <3> HIDE DEF up
    <3> QED
      BY <1>3, <1>4, <2>3, <2>4
  <2>6. want' = want
    BY <1>1, <1>5 DEF Asked
  <2>7. PrimitiveOk'
    BY <1>1, <1>3, <1>5, <2>1, <2>5, <2>6 DEF PrimitiveOk, Point
  <2> QED
    BY <1>1, <1>3, <2>7 DEF ShInv, ShapeOk
<1>6. CASE ~sloc.iscell
  <2>1. want = BoxWant(d, b)
    BY <1>3, <1>6 DEF PrimitiveOk, b, d
  <2>2. want' = SliceWant(want, lower, up)
    BY <1>1, <1>3, <1>6 DEF Asked, SliceWant, e
  <2> HIDE DEF up
  <2>3. want' = BoxWant(d, c)
    <3>1. e = Extent(b) /\ c = [lower |-> InDataset(b, lower), upper |-> InDataset(b, up)]
      BY DEF e, c
    <3>2. SliceWant(BoxWant(d, b), lower, up) = BoxWant(d, c)
      BY <1>3, <3>1, BoxSlice
    <3> QED
      BY <2>1, <2>2, <3>2
  <2>4. PrimitiveOk'
    BY <1>1, <1>3, <1>6, <2>3 DEF PrimitiveOk
  <2> QED
    BY <1>1, <1>3, <2>4 DEF ShInv, ShapeOk
<1> QED
  BY <1>5, <1>6 DEF ShInv, ShapeOk

\* datCell of a primitive: a box of one element.
LEMMA PrimitiveCellStep ==
    ASSUME ShInv, exact, NEW subs \in Asks(DatShape(sloc)), CellAllowed(sloc, subs),
           PrimitiveCell(subs)
    PROVE  ShapeOk'
<1> DEFINE b == SpaceBounds(sloc.space)
           e == Extent(b)
           d == SpaceGrid(sloc.space)
           m == Sliced(sloc, subs, subs)
           c == [lower |-> InDataset(b, subs), upper |-> InDataset(b, CapUpper(e, subs))]
<1>1. /\ SliceAllowed(sloc, subs, subs) /\ sloc' = [m EXCEPT !.iscell = TRUE, !.isdiscont = FALSE]
      /\ want' = AskedCell(subs)
      /\ isstruct' = isstruct /\ dims' = dims /\ cell' = cell
  BY DEF PrimitiveCell
<1>2. ~sloc.iscell /\ DatShape(sloc) = Extent(Bounds(sloc)) /\ sloc.iscell \in BOOLEAN
  BY DEF CellAllowed, DatShape, ShInv, ShapeOk
<1> HIDE DEF b, e, d, m, c
<1>3. /\ ~isstruct /\ PrimitiveOk /\ Bounds(sloc) = b /\ BoxIn(d, b)
      /\ e \in Seq(Nat \ {0}) /\ Len(e) = Len(d)
      /\ subs \in [1..Len(e) -> Nat] /\ WithinBounds(e, subs, CapUpper(e, subs))
      /\ SpaceOk(m.space) /\ SpaceGrid(m.space) = d /\ SpaceBounds(m.space) = c
      /\ m.vectorized = sloc.vectorized /\ m.iscell = sloc.iscell
      /\ DOMAIN m = DOMAIN sloc
  BY <1>1, <1>2, SliceFrom DEF b, e, d, m, c
<1>4. DOMAIN e = 1..Len(e) /\ \A i \in 1..Len(e) : subs[i] > 0 /\ subs[i] \in Nat
  BY <1>3 DEF CellAllowed
<1>5. CapUpper(e, subs) = subs
  <2>1. \A i \in 1..Len(e) : ~(subs[i] <= 0)
    BY <1>4
  <2> QED
    BY <1>3, <1>4, <2>1 DEF CapUpper
<1>6. subs \in Subscripts(e)
  <2>1. \A i \in 1..Len(e) : 1 <= subs[i] /\ subs[i] <= e[i]
    BY <1>3, <1>4, <1>5 DEF WithinBounds
  <2>2. Fits(e, subs)
    BY <1>3, <2>1 DEF Fits
  <2> QED
    BY <1>3, <2>2, SubscriptsOk
<1>7. /\ DOMAIN sloc' = DOMAIN sloc /\ sloc'.space = m.space
      /\ sloc'.iscell = TRUE /\ sloc'.vectorized = sloc.vectorized
  <2>1. DOMAIN m = {"space", "vectorized", "iscell", "isdiscont"}
    BY <1>3 DEF ShInv, ShapeOk
  <2> QED
    BY <1>1, <1>3, <2>1
<1>8. c.lower = InDataset(b, subs) /\ c.upper = InDataset(b, subs)
  BY <1>5 DEF c
<1>9. want' = Point(Position(d, InDataset(b, subs)) - 1)
  <2>1. want = BoxWant(d, b)
    BY <1>2, <1>3 DEF PrimitiveOk, b, d
  <2>2. want[subs] = Position(d, InDataset(b, subs)) - 1
    BY <1>6, <2>1 DEF BoxWant, e
  <2> QED
    BY <1>1, <2>2 DEF AskedCell, Point
<1>10. PrimitiveOk'
  BY <1>3, <1>7, <1>8, <1>9 DEF PrimitiveOk, Point
<1> QED
  BY <1>1, <1>3, <1>7, <1>10 DEF ShInv, ShapeOk

\* A cell of an array of structures, named directly or, from a vector, by the
\* subscripts that dat1Index2Coords makes of its number.
LEMMA StructureCellStep ==
    ASSUME ShInv, exact, NEW subs \in Asks(DatShape(sloc)), CellAllowed(sloc, subs),
           StructureCell(subs)
    PROVE  ShapeOk'
<1> DEFINE P == Product(dims)
           k == CellName(sloc, subs)
<1>1. /\ isstruct /\ dims # <<>> /\ k \in Subscripts(dims)
      /\ cell' = Position(dims, k) /\ dims' = <<>> /\ isstruct' = isstruct
      /\ sloc' = [space |-> NoSpace, vectorized |-> FALSE, iscell |-> TRUE, isdiscont |-> FALSE]
      /\ want' = AskedCell(subs)
  BY DEF StructureCell
<1>2. dims \in Seq(Nat \ {0}) /\ ArrayOk /\ sloc.vectorized \in BOOLEAN
  BY <1>1 DEF ShInv, ShapeOk, CellOk
<1>3. P \in Nat \ {0} /\ Position(dims, k) \in 1..P
  BY <1>1, <1>2, ProductOk, CoordsInverse
<1>4. want[subs] = Position(dims, k) - 1
  <2>1. CASE sloc.vectorized
    <3> DEFINE sp == VectorSpace(P, 0, P - 1)
               b == SpaceBounds(sp)
    <3>1. sloc.space = sp /\ want = Row(0, P) /\ Len(dims) # 1
      BY <1>2, <2>1 DEF ArrayOk
    <3>2. DatShape(sloc) = <<P>>
      <4>1. Bounds(sloc) = b /\ ~sloc.iscell
        BY <1>2, <2>1, <3>1, WithSpaceBounds DEF HasSpace, ArrayOk
      <4>2. 0 \in Nat /\ P - 1 \in Nat /\ 0 <= P - 1 /\ P - 1 < P /\ P - 1 - 0 + 1 = P
        BY <1>3
      <4> HIDE DEF P
      <4>3. Extent(b) = <<P - 1 - 0 + 1>>
        BY <1>3, <4>2, VectorBox
      <4> QED
        BY <4>1, <4>2, <4>3 DEF DatShape
    <3> HIDE DEF P
    <3>3. DOMAIN subs = 1..1 /\ Len(subs) = 1 /\ subs[1] \in Nat /\ subs[1] > 0 /\ subs = <<subs[1]>>
      <4>1. DOMAIN <<P>> = 1..1
        OBVIOUS
      <4>2. subs \in [1..1 -> 0..MaxBound]
        BY <3>2, <4>1 DEF Asks
      <4>3. DOMAIN subs = 1..1 /\ subs[1] \in Nat /\ subs = <<subs[1]>>
        BY <4>2, ShapesAssumption
      <4>4. subs[1] > 0
        BY <1>2, <4>3 DEF CellAllowed
      <4>5. Len(subs) = 1
        BY <4>3
      <4> QED
        BY <4>3, <4>4, <4>5
    <3> DEFINE x == subs[1]
    <3>4. x \in Nat \ {0}
      BY <3>3
    <3>5. k = Index2Coords(x, dims)
      <4>1. Len(dims) \in Nat /\ Len(dims) # 0
        BY <1>1, <1>2
      <4>2. Len(dims) > 1
        <5> DEFINE n == Len(dims)
        <5>1. n \in Nat /\ n # 0 /\ n # 1
          BY <3>1, <4>1
        <5> HIDE DEF n
        <5>2. n > 1
          BY <5>1
        <5> QED
          BY <5>2 DEF n
      <4> QED
        BY <2>1, <4>2 DEF CellName
    <3> HIDE DEF x, k
    <3>6. Position(dims, k) = x
      BY <1>1, <1>2, <3>4, <3>5, CoordsPlace
    <3>7. x \in 1..P
      BY <1>3, <3>6
    <3>8. want[<<x>>] = 0 + x - 1
      BY <3>1, <3>7 DEF Row
    <3> QED
      BY <3>3, <3>4, <3>6, <3>8 DEF x
  <2>2. CASE ~sloc.vectorized
    <3>1. k = subs
      BY <2>2 DEF CellName
    <3>2. want = [s \in Subscripts(dims) |-> Position(dims, s) - 1]
      BY <1>2, <2>2 DEF ArrayOk
    <3> QED
      BY <1>1, <3>1, <3>2
  <2> QED
    BY <1>2, <2>1, <2>2
<1>5. want' = Point(cell' - 1)
  BY <1>1, <1>4 DEF AskedCell, Point
<1>6. cell' \in Nat \ {0}
  BY <1>1, <1>3
<1>7. CellOk'
  BY <1>1, <1>5, <1>6 DEF CellOk, Point
<1>8. <<>> \in Seq(Nat \ {0})
  OBVIOUS
<1> QED
  BY <1>1, <1>7, <1>8 DEF ShapeOk

\* datCell, of primitives and structures.
LEMMA CellStep ==
    ASSUME ShInv, NEW subs \in Asks(DatShape(sloc)), DatCell(subs)
    PROVE  ShInv'
<1>1. exact' = exact
  BY DEF DatCell, PrimitiveCell, StructureCell, ScalarStructureCell, shapeVars
<1> SUFFICES ASSUME exact PROVE ShapeOk'
  BY <1>1 DEF ShInv
<1>2. CellAllowed(sloc, subs)
  BY DEF DatCell
<1>3. CASE PrimitiveCell(subs)
  BY <1>2, <1>3, PrimitiveCellStep
<1>4. CASE StructureCell(subs)
  BY <1>2, <1>4, StructureCellStep
<1>5. CASE ScalarStructureCell
  BY <1>5 DEF ScalarStructureCell, shapeVars, ShInv, ShapeOk, ArrayOk, CellOk, PrimitiveOk
<1> QED
  BY <1>3, <1>4, <1>5 DEF DatCell

\* What datVec makes of a locator.
LEMMA VectorisedOk ==
    ASSUME DOMAIN sloc = {"space", "vectorized", "iscell", "isdiscont"},
           NEW d, d = DataDims(sloc), NEW b, b = Bounds(sloc),
           NEW m, m = Vectorised(sloc)
    PROVE  /\ DOMAIN m = DOMAIN sloc /\ m.vectorized = TRUE /\ m.iscell = FALSE
           /\ m.space = VectorSpace(Product(d), Position(d, b.lower) - 1, Position(d, b.upper) - 1)
<1>1. DOMAIN m = DOMAIN sloc /\ m.vectorized = TRUE /\ m.iscell = FALSE
  BY DEF Vectorised
<1>2. m.space = VectorSpace(Product(d), Position(d, b.lower) - 1, Position(d, b.upper) - 1)
  BY DEF Vectorised, VectorSpace
<1> QED
  BY <1>1, <1>2

\* datVec on a locator into a primitive, whose selection has no gaps.
LEMMA PrimitiveVec ==
    ASSUME ShapeOk, ~isstruct, Contiguous(Selected),
           sloc' = Vectorised(sloc), want' = AsVector(want, DatShape(sloc)),
           isstruct' = isstruct
    PROVE  PrimitiveOk'
<1> DEFINE d == SpaceGrid(sloc.space)
           b == SpaceBounds(sloc.space)
           P == Product(d)
           f == Position(d, b.lower) - 1
           g == Position(d, b.upper) - 1
           sp == VectorSpace(P, f, g)
<1>1. /\ PrimitiveOk /\ SpaceOk(sloc.space) /\ sloc.iscell \in BOOLEAN
      /\ DOMAIN sloc = {"space", "vectorized", "iscell", "isdiscont"}
  BY DEF ShapeOk, PrimitiveOk
<1>2. BoxIn(d, b) /\ Bounds(sloc) = b /\ DataDims(sloc) = d
  BY <1>1, SpaceBox, WithSpaceBounds DEF HasSpace, DataDims, SpaceGrid
<1>3. Selected = BoxElements(d, b)
  <2>1. Selected = SelectedElements(sloc.space)
    BY DEF Selected
  <2> QED
    BY <1>1, <2>1, SelectedBox
<1>4. /\ sloc.iscell => b.lower = b.upper /\ want = Point(f)
      /\ ~sloc.iscell => want = BoxWant(d, b)
  BY <1>1 DEF PrimitiveOk
<1> HIDE DEF d, b
<1>5. sloc'.iscell = FALSE /\ sloc'.space = sp
  BY <1>1, <1>2, VectorisedOk
<1>6. d \in Seq(Nat \ {0}) /\ P \in Nat \ {0}
  BY <1>2, ProductOk DEF BoxIn
<1> HIDE DEF P, f, g
<1>7. ASSUME f \in Nat, g \in Nat, f <= g, g < P, want' = Row(f, g - f + 1)
      PROVE  PrimitiveOk'
  <2>1. /\ SpaceOk(sp) /\ SpaceGrid(sp) = <<P>>
        /\ BoxWant(<<P>>, SpaceBounds(sp)) = Row(f, g - f + 1)
    BY <1>6, <1>7, VectorBox
  <2> HIDE DEF sp
  <2>2. want' = BoxWant(SpaceGrid(sp), SpaceBounds(sp))
    BY <1>7, <2>1
  <2> QED
    BY <1>5, <2>1, <2>2 DEF PrimitiveOk
<1>8. CASE sloc.iscell
  <2>1. b.lower = b.upper /\ want = Point(f) /\ g = f
    BY <1>4, <1>8 DEF f, g
  <2>2. f \in Nat
    BY <1>2, <2>1, OnePoint DEF f
  <2>3. f < P
    <3>1. b.lower \in [1..Len(d) -> Nat]
          /\ \A i \in 1..Len(d) : 1 <= b.lower[i] /\ b.lower[i] <= d[i]
      BY <1>2, <2>1 DEF BoxIn
    <3>2. b.lower \in Subscripts(d)
      BY <1>6, <3>1, SubscriptsOk DEF Fits
    <3>3. Position(d, b.lower) \in 1..P
      BY <1>6, <3>2, CoordsInverse DEF P
    <3> QED
      BY <1>6, <3>3 DEF f
  <2>4. DatShape(sloc) = <<>>
    BY <1>8 DEF DatShape
  <2>5. want' = Row(f, 1)
    <3>1. /\ <<>> \in Seq(Nat \ {0}) /\ DOMAIN want = Subscripts(<<>>)
          /\ \A s \in Subscripts(<<>>) : want[s] = f + Position(<<>>, s) - 1
      BY <2>1, <2>2, ScalarGrid DEF Point
    <3>2. f \in Int
      BY <2>2
    <3>3. AsVector(want, <<>>) = Row(f, Product(<<>>))
      BY <3>1, <3>2, AsVectorOk
    <3> QED
      BY <2>4, <3>3, ScalarGrid
  <2>6. g - f + 1 = 1 /\ f <= g
    BY <2>1, <2>2
  <2> QED
    BY <1>7, <2>1, <2>2, <2>3, <2>5, <2>6
<1>9. CASE ~sloc.iscell
  <2> DEFINE e == Extent(b)
  <2>1. want = BoxWant(d, b)
    BY <1>4, <1>9
  <2>2. Contiguous(BoxElements(d, b))
    BY <1>3
  <2>3. /\ f \in Nat /\ g \in Nat /\ f <= g /\ g < P
        /\ Product(e) = g - f + 1
        /\ \A s \in Subscripts(e) : want[s] = f + Position(e, s) - 1
    BY <1>2, <2>1, <2>2, ContiguousBox DEF f, g, P
  <2>4. DatShape(sloc) = e /\ e \in Seq(Nat \ {0})
    BY <1>2, <1>9, BoxExtent DEF DatShape
  <2>5. DOMAIN want = Subscripts(e)
    BY <2>1 DEF BoxWant
  <2> HIDE DEF e
  <2>6. AsVector(want, e) = Row(f, Product(e))
    BY <2>3, <2>4, <2>5, AsVectorOk
  <2> QED
    BY <1>7, <2>3, <2>4, <2>6
<1> QED
  BY <1>1, <1>8, <1>9

\* datVec on a locator to structures.
LEMMA StructureVec ==
    ASSUME ShapeOk, isstruct, NeedsVec(sloc),
           sloc' = Vectorised(sloc), want' = AsVector(want, DatShape(sloc)),
           isstruct' = isstruct, dims' = dims, cell' = cell
    PROVE  (ArrayOk \/ CellOk)'
<1> DEFINE P == Product(dims)
           ones == [i \in 1..Len(dims) |-> 1]
<1>1. /\ dims \in Seq(Nat \ {0}) /\ DataDims(sloc) = dims
      /\ Len(dims) # 1 /\ ~sloc.vectorized /\ sloc.iscell \in BOOLEAN
      /\ DOMAIN sloc = {"space", "vectorized", "iscell", "isdiscont"}
      /\ ArrayOk \/ CellOk
  BY DEF ShapeOk, NeedsVec, DataDims
<1>2. sloc.space = NoSpace
  BY <1>1 DEF ArrayOk, CellOk
<1>3. Bounds(sloc) = [lower |-> ones, upper |-> dims] /\ Extent(Bounds(sloc)) = dims
  BY <1>1, <1>2, NoSpaceBounds
<1>4. Position(dims, ones) = 1 /\ Position(dims, dims) = P /\ P \in Nat \ {0}
  BY <1>1, Corners, ProductOk
<1>5. sloc'.vectorized = TRUE /\ sloc'.iscell = FALSE /\ sloc'.space = VectorSpace(P, 0, P - 1)
  <2>1. /\ sloc'.vectorized = TRUE /\ sloc'.iscell = FALSE
        /\ sloc'.space = VectorSpace(P, Position(dims, Bounds(sloc).lower) - 1,
                                     Position(dims, Bounds(sloc).upper) - 1)
    BY <1>1, VectorisedOk
  <2>2. Bounds(sloc).lower = ones /\ Bounds(sloc).upper = dims /\ 1 - 1 = 0
    BY <1>3
  <2> HIDE DEF ones, P
  <2> QED
    BY <1>4, <2>1, <2>2
<1>6. CASE ArrayOk
  <2>1. /\ want = [s \in Subscripts(dims) |-> Position(dims, s) - 1]
        /\ dims # <<>> /\ cell = 0 /\ ~sloc.iscell
    BY <1>1, <1>6 DEF ArrayOk
  <2>2. DatShape(sloc) = dims
    BY <1>3, <2>1 DEF DatShape
  <2>3. \A s \in Subscripts(dims) : want[s] = 0 + Position(dims, s) - 1
    <3>1. \A s \in Subscripts(dims) : Position(dims, s) \in Int
      BY <1>1, CoordsInverse
    <3> QED
      BY <2>1, <3>1
  <2>4. AsVector(want, dims) = Row(0, P)
    BY <1>1, <2>1, <2>3, AsVectorOk
  <2> QED
    BY <1>1, <1>5, <2>1, <2>2, <2>4 DEF ArrayOk, Row
<1>7. CASE CellOk
  <2>1. want = Point(cell - 1) /\ dims = <<>> /\ cell \in Nat \ {0}
    BY <1>1, <1>7 DEF CellOk
  <2>2. DatShape(sloc) = <<>>
    BY <1>3, <2>1 DEF DatShape
  <2> DEFINE x == cell - 1
  <2>3. x \in Int
    BY <2>1
  <2> HIDE DEF x
  <2>4. /\ <<>> \in Seq(Nat \ {0}) /\ DOMAIN want = Subscripts(<<>>)
        /\ \A s \in Subscripts(<<>>) : want[s] = x + Position(<<>>, s) - 1
    BY <2>1, <2>3, ScalarGrid DEF Point, x
  <2>5. AsVector(want, <<>>) = Row(x, Product(<<>>))
    BY <2>3, <2>4, AsVectorOk
  <2>6. want' = Row(x, 1)
    BY <2>2, <2>5, ScalarGrid
  <2>7. sloc'.space = VectorSpace(1, 0, 0)
    BY <1>5, <2>1, ScalarGrid
  <2> QED
    BY <1>5, <2>1, <2>6, <2>7 DEF CellOk, Row, x
<1> QED
  BY <1>1, <1>6, <1>7

\* datVec: a box without gaps becomes a row; one with gaps is no longer exact.
LEMMA VecStep ==
    ASSUME ShInv, DatVec
    PROVE  ShInv'
<1>1. isstruct' = isstruct /\ dims' = dims /\ cell' = cell
  BY DEF DatVec
<1>2. CASE ~NeedsVec(sloc)
  BY <1>1, <1>2 DEF DatVec, ShInv, ShapeOk, ArrayOk, CellOk, PrimitiveOk
<1>3. CASE NeedsVec(sloc)
  <2>1. /\ sloc' = Vectorised(sloc) /\ exact' = (exact /\ Contiguous(Selected))
        /\ want' = IF exact THEN AsVector(want, DatShape(sloc)) ELSE want
    BY <1>3 DEF DatVec
  <2>2. exact' \in BOOLEAN
    BY <2>1
  <2> SUFFICES ASSUME exact' PROVE ShapeOk'
    BY <2>2 DEF ShInv
  <2>3. ShapeOk /\ Contiguous(Selected) /\ want' = AsVector(want, DatShape(sloc))
    BY <2>1 DEF ShInv
  <2>4. /\ DOMAIN sloc' = {"space", "vectorized", "iscell", "isdiscont"}
        /\ sloc'.vectorized = TRUE /\ sloc'.iscell = FALSE
    BY <2>1, <2>3, VectorisedOk DEF ShapeOk
  <2>5. IF isstruct THEN (ArrayOk \/ CellOk)' ELSE PrimitiveOk'
    <3>1. CASE isstruct
      BY <1>1, <1>3, <2>1, <2>3, <3>1, StructureVec
    <3>2. CASE ~isstruct
      BY <1>1, <2>1, <2>3, <3>2, PrimitiveVec
    <3> QED
      BY <3>1, <3>2
  <2> QED
    BY <1>1, <2>3, <2>4, <2>5 DEF ShapeOk
<1> QED
  BY <1>2, <1>3

\* Every derivation keeps ShInv.
LEMMA ShapesStep == ShInv /\ [ShapesNext]_shapeVars => ShInv'
<1> SUFFICES ASSUME ShInv, [ShapesNext]_shapeVars PROVE ShInv'
  OBVIOUS
<1>1. CASE \E lower \in Asks(Bounds(sloc).upper) : \E upper \in Asks(Bounds(sloc).upper) :
              DatSlice(lower, upper)
  BY <1>1, SliceStep
<1>2. CASE DatVec
  BY <1>2, VecStep
<1>3. CASE \E subs \in Asks(DatShape(sloc)) : DatCell(subs)
  BY <1>3, CellStep
<1>4. CASE UNCHANGED shapeVars
  BY <1>4 DEF shapeVars, ShInv, ShapeOk, ArrayOk, CellOk, PrimitiveOk
<1> QED
  BY <1>1, <1>2, <1>3, <1>4 DEF ShapesNext

\* SelectionRight: whatever slices, vectors and cells a locator was derived by,
\* it refers to the elements that the program asked for, in that order, unless
\* a selection with gaps was vectorised on the way.
THEOREM SelectionIsRight == ShapesSpec => []SelectionRight
<1>1. ShapesInit => ShInv
  BY ShapesFirst
<1> QED
  BY <1>1, ShapesStep, ShapesRight, PTL DEF ShapesSpec
=============================================================================
